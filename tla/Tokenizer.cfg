\* Two phrases of tokens in a file, together or a space apart; any three
\* characters in a file, and any two as they are.
CONSTANT Phrases <- AllPhrases
CONSTANT Texts <- AnyTexts
SPECIFICATION Spec
INVARIANTS TokensReadBack NullOnlyAtEnd
PROPERTIES TokensTakeText HangsOnlyAtPlusOrHash
CHECK_DEADLOCK FALSE

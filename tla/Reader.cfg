\* Files with one tree in them, written without the two things that the reader
\* gets wrong; and brackets, words and tags in any order, matching or not.
CONSTANT Texts <- AnyTexts
CONSTANT Trees <- CarefulTrees
SPECIFICATION Spec
INVARIANTS StacksAgree ReadsBack
PROPERTIES FaultsOutside 
CHECK_DEADLOCK FALSE

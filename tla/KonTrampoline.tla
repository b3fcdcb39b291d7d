---------------------------- MODULE KonTrampoline ----------------------------
(***************************************************************************)
(* The bounces that KN_ProcessSentences' loop consumes (KonTrampoline in   *)
(* core/interpreter/types.h) and the ways a handler hands one over.        *)
(*                                                                         *)
(* KN_EvalExpression and KN_RunContinuation call each other, and the       *)
(* keyword handlers call them, in tail position only: the caller returns   *)
(* the bounce it gets.  Such a call is a job of its own, EVAL or INVOKE,   *)
(* that the next step must serve; `depth` counts the calls open on the C   *)
(* stack and a bounce, which returns to the loop, empties it.  LAND, EXIT, *)
(* FAULT and HANG end the run: the program's value, an exit(1) of the code,*)
(* undefined behaviour (as a rule, a word dereferenced that is no pointer  *)
(* to an object of the expected type) and a loop of C that does not end.   *)
(***************************************************************************)
EXTENDS KonHeap

LoopOps == {"RUN", "BLOCK", "SUBJ", "CLAUSE_LIST", "ARG_LIST", "QUASI_ITEM"}
CallOps == {"EVAL", "INVOKE"}
FinalOps == {"LAND", "EXIT", "FAULT", "HANG"}

JobsOf(W, ne, nc) ==
  [op : LoopOps \cup CallOps \cup FinalOps, v : W, words : Seq(W),
   env : 0 .. ne, k : 0 .. nc]

Job(op, v, e, k) == [op |-> op, v |-> v, words |-> <<>>, env |-> e, k |-> k]
Run(v, k) == Job("RUN", v, 0, k)
Invoke(v, k) == Job("INVOKE", v, 0, k)
Eval(w, e, k) == Job("EVAL", w, e, k)
ClauseList(words, e, k) ==
  [op |-> "CLAUSE_LIST", v |-> Undef, words |-> words, env |-> e, k |-> k]
Final(op, v) == Job(op, v, 0, 0)

\* A mutant: a call where there should be a bounce.
BounceInline(j) == job' = j /\ depth' = depth + 1

Bounce(j) == job' = j /\ depth' = 0
TailCall(j) == job' = j /\ depth' = depth + 1

Stop(op) == Bounce(Final(op, Undef)) /\ UNCHANGED <<heap, currCode>>
Fault == Stop("FAULT")
GoOn(v, k) == Bounce(Run(v, k)) /\ UNCHANGED <<heap, currCode>>

\* KN_EvalSentences, in a heap whose continuations are ks.
EvalSentences(ks, sentences, e, k) ==
  \/ /\ sentences = <<>>
     /\ conts' = ks
     /\ Bounce(Run(True, k))
  \/ /\ sentences # <<>>
     /\ conts' = Append(ks, [Frame("SENTENCE_LIST", e, k) EXCEPT
                               !.rest = Tail(sentences)])
     /\ Bounce(Job("BLOCK", Head(sentences), e, Len(ks) + 1))

\* The same of a word, which may turn out not to be a list.
EvalBody(ks, body, e, k) ==
  \/ IsPairList(body) /\ EvalSentences(ks, Items(body), e, k)
  \/ ~IsPairList(body) /\ conts' = ks /\ Bounce(Final("FAULT", Undef))

\* Allocate a callback continuation with a memo table of its own and evaluate
\* an expression under it.
EvalThen(callback, memo, w, e, k) ==
  /\ memos' = Append(memos, memo)
  /\ conts' = Append(conts, CallbackFrame(callback, e, k, NextMemo))
  /\ TailCall(Eval(w, e, NextCont))
=============================================================================

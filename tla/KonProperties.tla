----------------------------- MODULE KonProperties -----------------------------
(***************************************************************************)
(* What holds of the runs of the evaluator.                                *)
(***************************************************************************)
EXTENDS KonMachine

Words == WordsOf(Len(nodes), Len(conts), Len(accessors))

(***************************************************************************)
(* The type invariant, of each kind of object and with what the evaluator  *)
(* takes for granted about it: a word refers to an object there is, and an *)
(* object to words, environments, continuations and memo tables there are; *)
(* chains of pairs and of cells are not empty and a table has a key for    *)
(* every value; no procedure was created, nothing is evaluated and nothing *)
(* goes on in the root environment; a callback that reads a memo table has *)
(* one, and nothing but callbacks does; and what has a setter is a         *)
(* property, so that assigning to it, which calls the setter, has no table *)
(* of a directory to destroy (AssignValueToAccessor).                      *)
(***************************************************************************)
NodeShape(n) ==
  WellBuilt(n) /\ (n.tag = "procedure" => n.type = "NATIVE_FUNC" \/ n.env >= ProcessEnv)
NodesOK(ns, W, ne) ==
  ns \in Seq(NodesOf(W, ne)) /\ \A i \in DOMAIN ns : NodeShape(ns[i])

EnvsOK(es, W) == es \in Seq(EnvsOf(W, Len(es))) /\ Len(es) >= ProcessEnv

ContShape(c) ==
  /\ c.env >= ProcessEnv
  /\ c.callback \notin {"none", "AfterEval"} => c.memo # 0
  /\ c.memo # 0 => c.type = "NATIVE_CALLBACK"
ContsOK(ks, W, ne, nm) ==
  ks \in Seq(ContsOf(W, ne, Len(ks), nm)) /\ \A i \in DOMAIN ks : ContShape(ks[i])

DispatcherShape(d) ==
  \A h \in Handlers : d[h] # NoProcedure => d[h].type = "LAMBDA" /\ d[h].env >= ProcessEnv
MemosOK(ms, W, ne) ==
  ms \in Seq(MemosOf(W, ne)) /\ \A i \in DOMAIN ms : DispatcherShape(ms[i].Dispatcher)
DispatchersOK(ds, W, ne) ==
  /\ DOMAIN ds \subseteq 0 .. DispatcherSlots - 1
  /\ ds \in [DOMAIN ds -> DispatchersOf(W, ne)]
  /\ \A i \in DOMAIN ds : DispatcherShape(ds[i])

AccessorShape(a) == a.setter # Undef => ~a.isDir
AccessorsOK(bs, W) == bs \in Seq(AccessorsOf(W)) /\ \A i \in DOMAIN bs : AccessorShape(bs[i])

JobOK(j, W, ne, nc) ==
  /\ j \in JobsOf(W, ne, nc)
  /\ j.op \notin FinalOps => j.k # 0
  /\ j.op \notin FinalOps \cup {"RUN", "INVOKE"} => j.env >= ProcessEnv
  /\ j.op = "CLAUSE_LIST" => j.words # <<>>

TypeOK ==
  /\ NodesOK(nodes, Words, Len(envs))
  /\ EnvsOK(envs, Words)
  /\ ContsOK(conts, Words, Len(envs), Len(memos))
  /\ MemosOK(memos, Words, Len(envs))
  /\ AccessorsOK(accessors, Words)
  /\ DispatchersOK(dispatchers, Words, Len(envs))
  /\ nextMsgDispatcherId \in Nat
  /\ JobOK(job, Words, Len(envs), Len(conts))
  /\ depth \in Nat
  /\ currCode \in DOMAIN Programs

(***************************************************************************)
(* Nothing checks which member of KonContinuation's union a bounce is      *)
(* about: KN_ProcessSentences reads the one its type calls for, and        *)
(* KN_RunContinuation the one the continuation's type calls for.  They     *)
(* agree, and the frame that collects the arguments of a clause belongs to *)
(* the clause it was made for, with that clause's subject and environment, *)
(* however often a continuation is invoked.                                *)
(***************************************************************************)
FrameOf ==
  [CLAUSE_LIST |-> "CLAUSE_LIST", ARG_LIST |-> "CLAUSE_ARGS", SUBJ |-> "SUBJ",
   BLOCK |-> "SENTENCE_LIST", QUASI_ITEM |-> "QUASI_LIST_ITEMS"]

JobFits ==
  job.op \in DOMAIN FrameOf => /\ job.k \in DOMAIN conts
                               /\ conts[job.k].type = FrameOf[job.op]
                               /\ conts[job.k].env = job.env
ArgsFit ==
  \A i \in DOMAIN conts : conts[i].type = "CLAUSE_ARGS" =>
    LET clause == conts[conts[i].cont]
    IN  /\ clause.type = "CLAUSE_LIST"
        /\ clause.subj = conts[i].subj
        /\ clause.env = conts[i].env
FramesMatch == JobFits /\ ArgsFit

(***************************************************************************)
(* Continuations are a tree: every one but the RETURN of the run was made  *)
(* after the one it goes on with, so that what a continuation leads to     *)
(* ends in that RETURN, also after call-cc and the loops' "break" and      *)
(* "continue" have been invoked in any order.                              *)
(***************************************************************************)
ChainsRooted ==
  /\ ReturnCont \in DOMAIN conts /\ conts[ReturnCont].type = "RETURN"
  /\ \A i \in DOMAIN conts \ {ReturnCont} :
       conts[i].type # "RETURN" /\ conts[i].cont \in 1 .. i - 1

(***************************************************************************)
(* A callback continuation has a memo table no other one has: a callback   *)
(* that takes what it needs out of it, or a loop's next round, which works *)
(* on a ShadowClone, never does so for another continuation.               *)
(***************************************************************************)
MemosOwned ==
  \A i \in DOMAIN conts : conts[i].memo # 0 =>
    \A j \in DOMAIN conts : conts[j].memo = conts[i].memo => i = j

(***************************************************************************)
(* Invoking a continuation leaves it and its memo table as they are, so    *)
(* that it can be invoked again, with the arguments evaluated up to then   *)
(* and those still to come: KN_RunContinuation makes a new frame for every *)
(* argument instead of going on in the old one.                            *)
(***************************************************************************)
Frozen(old, new) == Len(old) <= Len(new) /\ \A i \in DOMAIN old : new[i] = old[i]
ContinuationsFrozen == [][Frozen(conts, conts') /\ Frozen(memos, memos')]_vars

(***************************************************************************)
(* Running a program writes its nodes: a verb, a slot name, a message name *)
(* or a command word is turned into an identifier where it stands, and     *)
(* def-builder and set-dispatcher-id change the dispatcher of a node.      *)
(* Nothing else of a node changes, and only words turn into identifiers.   *)
(***************************************************************************)
TextKept(old, new) ==
  /\ new = [old EXCEPT !.type = new.type, !.dispatcher = new.dispatcher]
  /\ new.type # old.type => old.tag = "symbol" /\ old.type = "WORD" /\ new.type = "IDENTIFIER"
ProgramTextKept == [][\A i \in DOMAIN nodes : TextKept(nodes[i], nodes'[i])]_vars

\* No program changes the root environment, whatever it defines or sets: the
\* native procedures stay what their names say in it (KN_EvalFile runs a program
\* in a child environment of its own).
GlobalsKept == [][envs'[RootEnv] = envs[RootEnv]]_vars

(***************************************************************************)
(* Control is a stack of frames that never change, but for break, continue *)
(* and continuations that are applied, which jump to where they were       *)
(* captured (AbstractControl): whatever callbacks, clauses and arguments   *)
(* the trampoline is in, a value goes to the frame below and to no other,  *)
(* and a frame can get another value later.                                *)
(***************************************************************************)
\* Frames with the memo tables they read.
Activations ==
  [i \in DOMAIN conts |->
     [cont |-> conts[i].cont, frame |-> conts[i],
      memo |-> IF conts[i].memo = 0 THEN EmptyMemo ELSE memos[conts[i].memo]]]

\* What is evaluated is for job.k; what job.k is invoked with is for the frame
\* it goes on with.
Within ==
  CASE Done -> 0
    [] Invoking -> Invoked.cont
    [] OTHER -> job.k

\* What is bound to the name where it is used is a continuation.
EscapesBy(name) == EvaluatesPrefix(name) /\ EnvLookup(job.env, name).t = "cont"
\* The subject of the clause whose arguments are complete is a continuation.
AppliesCont ==
  /\ Resumes("CLAUSE_ARGS")
  /\ Invoked.rest = <<>> /\ Invoked.subj.t = "cont"
  /\ Len(Evaluated) > 1 /\ Evaluated[1] = Marker("APPLY")

\* Where break, continue or the continuation that is applied goes.
Target ==
  CASE EscapesBy("break") -> EnvLookup(job.env, "break").id
    [] EscapesBy("continue") -> EnvLookup(job.env, "continue").id
    [] AppliesCont -> Invoked.subj.id
    [] OTHER -> 0

Status ==
  CASE job.op = "LAND" -> "landed"
    [] Done /\ job.op # "LAND" -> "stopped"
    [] OTHER -> "running"

Control == INSTANCE AbstractControl WITH
  frames <- Activations, within <- Within, target <- Target, status <- Status

\* The evaluator implements AbstractControl.
ControlIsStacked == Control!Spec

-----------------------------------------------------------------------------
(***************************************************************************)
(* These two hold of the programs of the runs, and not of every program.   *)
(***************************************************************************)
\* The loop "bounces to avoid growing the stack" (core/interpreter/types.h): the
\* calls open at any time are bounded by the length of the program, however long
\* it runs.
StackBounded == depth <= Len(Programs[currCode].nodes)

\* The trampoline comes to its end, a value or a fault; only a quasiquoted
\* subject, which no branch of KN_ProcessSentences takes (cps_interpreter.c:957),
\* keeps it going round for ever.
AtIgnoredSubject == job.op = "SUBJ" /\ HasTag(job.v, "quasi")
Terminates == <>(Done \/ AtIgnoredSubject)
=============================================================================

----------------------------- MODULE KonCollector -----------------------------
(***************************************************************************)
(* core/gc.c: the mark and sweep collector, as it is when KN_DISABLE_GC is *)
(* 0 (gc.h has 1: then nothing is recorded and nothing collected).  New    *)
(* nodes go to the write barrier list; RunContinuation moves them to the   *)
(* segments of heap pointers; a collection, which needs a safepoint, marks *)
(* from the roots and destroys the white nodes of the segments.            *)
(*                                                                         *)
(* The program is what the evaluator may do to the heap: it holds nodes in *)
(* the bounce in flight and in C locals, makes nodes that point to those   *)
(* it holds, reads and changes their fields, and runs continuations.  The  *)
(* fields of a node are two sets: `seen', those KN_MarkNode pushes, and    *)
(* `unseen', those it leaves out: the evaluated items of a quasiquoted     *)
(* list, the setter of an accessor, the cell before a cell.                *)
(*                                                                         *)
(* The lists are sets, their order being of no consequence: a segment is   *)
(* begun when those before it are full, so that together they hold up to   *)
(* Capacity pointers; and the order of marking is left open.               *)
(***************************************************************************)
EXTENDS Integers, FiniteSets

CONSTANTS Objects,      \* bound: the nodes there is memory for
          None,         \* the null pointer
          Kinds,        \* "plain", "partial" (has unseen fields), "memoless" (eval's callback)
          MaxFields,    \* bound: the nodes one node points to
          Capacity,     \* maxObjCntLimit: what MAX_SEGMENT_CNT segments hold
          GcThreshold,  \* gcThreshold
          Careful       \* safepoints are met only where nothing is held that no root reaches

ASSUME ObjectsAssumption == IsFiniteSet(Objects) /\ None \notin Objects

ASSUME KindsAssumption == Kinds \subseteq {"plain", "partial", "memoless"}

ASSUME LimitsAssumption ==
  MaxFields \in Nat /\ Capacity \in Nat /\ GcThreshold \in Nat /\ Careful \in BOOLEAN

VARIABLES node,      \* each node's kind, fields and gcMarkColor
          live,      \* the nodes allocated and not destroyed
          roots,     \* currCode, currCont and msgDispatchers
          barrier,   \* writeBarrierGen
          recorded,  \* heapPtrSegs
          queue,     \* markTaskQueue
          needGc,
          phase,     \* "program" or "mark"
          held,      \* what the bounce and the running C functions hold
          fault      \* "none", "exit" (no segment left), "crash" (bad memory)

vars == <<node, live, roots, barrier, recorded, queue, needGc, phase, held, fault>>

Blank == [kind |-> "plain", seen |-> {}, unseen |-> {}, color |-> "white"]

Init ==
  /\ node = [o \in Objects |-> Blank]
  /\ live = {} /\ held = {}
  /\ roots = [code |-> None, cont |-> None, dispatchers |-> {}]
  /\ barrier = {} /\ recorded = {} /\ queue = {}
  /\ needGc = FALSE /\ phase = "program" /\ fault = "none"

-------------------------------------------------------------------------------
Recolored(os, color) ==
  [o \in Objects |-> IF o \in os THEN [node[o] EXCEPT !.color = color] ELSE node[o]]

\* Nothing to add is always enough space; otherwise a collection is asked for.
HasEnoughSegSpace(size) == size = 0 \/ Cardinality(recorded) + size <= GcThreshold

\* KN_SwitchContinuation, with the roots it leaves: the barrier's nodes are moved
\* to the segments also where that needs the collection that is only asked for.
SwitchContinuation(r) ==
  /\ roots' = r
  /\ needGc' = (needGc \/ ~HasEnoughSegSpace(Cardinality(barrier)))
  /\ node' = Recolored(barrier, "white")
  /\ recorded' = recorded \cup barrier
  /\ fault' = IF Cardinality(recorded) + Cardinality(barrier) > Capacity THEN "exit" ELSE fault
  /\ barrier' = {}
  /\ UNCHANGED <<live, queue, phase>>

-------------------------------------------------------------------------------
Running == phase = "program" /\ fault = "none"

Fields(o) == node[o].seen \cup node[o].unseen

FieldSets == {s \in SUBSET held : Cardinality(s) <= MaxFields}

\* AllocTagged and AllocContinuationWithType, with the assignments that follow.
Alloc(kind, seen, unseen) ==
  /\ Running
  /\ \E o \in Objects \ live :
       /\ node' = [node EXCEPT ![o] = [kind |-> kind, seen |-> seen, unseen |-> unseen,
                                       color |-> "gray"]]
       /\ live' = live \cup {o}
       /\ barrier' = barrier \cup {o}
       /\ held' = held \cup {o}
  /\ UNCHANGED <<roots, recorded, queue, needGc, phase, fault>>

\* A field is read, or what was held is out of scope.
Load(o) ==
  /\ Running
  /\ o \in held
  /\ held' \in {held \cup {f} : f \in Fields(o)} \cup {held \ {o}}
  /\ UNCHANGED <<node, live, roots, barrier, recorded, queue, needGc, phase, fault>>

\* A field is assigned, an item added to a collection or taken out of it.
Store(o, seen) ==
  /\ Running
  /\ o \in held
  /\ node' = [node EXCEPT ![o].seen = seen]
  /\ UNCHANGED <<live, roots, barrier, recorded, queue, needGc, phase, held, fault>>

\* The dispatchers are set by native code and by def-dispatcher.
SetMsgDispatcher(o) ==
  /\ Running
  /\ o \in held
  /\ roots' = [roots EXCEPT !.dispatchers = {o}]
  /\ UNCHANGED <<node, live, barrier, recorded, queue, needGc, phase, held, fault>>

\* KN_ProcessSentences: the code, and the first continuation.
Start(code, c) ==
  /\ Running
  /\ roots.cont = None
  /\ {code, c} \subseteq held
  /\ SwitchContinuation([roots EXCEPT !.code = code, !.cont = c])
  /\ UNCHANGED held

\* RunContinuation, with what the bounce holds.
Run(c, v) ==
  /\ Running
  /\ roots.cont # None
  /\ {c, v} \subseteq held
  /\ SwitchContinuation([roots EXCEPT !.cont = c])
  /\ held' = {c, v}

\* The bounce landed.
Finish(v) ==
  /\ Running
  /\ roots.cont # None
  /\ v \in held
  /\ SwitchContinuation([roots EXCEPT !.cont = None])
  /\ held' = {v}

-------------------------------------------------------------------------------
\* The nodes a collection starts from.
RootNodes == ({roots.code, roots.cont} \cup roots.dispatchers \cup barrier) \ {None}

\* What some nodes lead to: it is in every set that they are in and no field leaves.
Closed(os) == \A o \in os : Fields(o) \subseteq os

Reachable == {o \in Objects : \A os \in SUBSET Objects : RootNodes \subseteq os /\ Closed(os) => o \in os}

\* A mutant: the continuation is not put in the queue.
EnterGcSafepointButCont ==
  /\ Running
  /\ roots.cont # None
  /\ needGc
  /\ Careful => held \subseteq Reachable
  /\ queue' = RootNodes \ {roots.cont}
  /\ phase' = "mark"
  /\ UNCHANGED <<node, live, roots, barrier, recorded, needGc, held, fault>>

\* KN_EnterGcSafepoint, where a collection was asked for, up to the marking.
EnterGcSafepoint ==
  /\ Running
  /\ roots.cont # None
  /\ needGc
  /\ Careful => held \subseteq Reachable
  /\ queue' = RootNodes
  /\ phase' = "mark"
  /\ UNCHANGED <<node, live, roots, barrier, recorded, needGc, held, fault>>

\* A mutant: null fields are pushed too.
MarkNodeNulls(o) ==
  /\ phase = "mark" /\ fault = "none"
  /\ o \in queue
  /\ node' = Recolored({o}, "black")
  /\ queue' = IF node[o].color = "black" THEN queue \ {o}
             ELSE (queue \ {o}) \cup node[o].seen \cup {None}
  /\ fault' = IF o \notin live \/ (node[o].color # "black" /\ node[o].kind = "memoless")
              THEN "crash" ELSE fault
  /\ UNCHANGED <<live, roots, barrier, recorded, needGc, phase, held>>

\* A mutant: the fields are not pushed.
MarkNodeOnly(o) ==
  /\ phase = "mark" /\ fault = "none"
  /\ o \in queue
  /\ node' = Recolored({o}, "black")
  /\ queue' = queue \ {o}
  /\ fault' = IF o \notin live \/ (node[o].color # "black" /\ node[o].kind = "memoless")
              THEN "crash" ELSE fault
  /\ UNCHANGED <<live, roots, barrier, recorded, needGc, phase, held>>

\* A mutant: the fields of a black node are pushed again.
MarkNodeAgain(o) ==
  /\ phase = "mark" /\ fault = "none"
  /\ o \in queue
  /\ node' = Recolored({o}, "black")
  /\ queue' = (queue \ {o}) \cup node[o].seen
  /\ fault' = IF o \notin live \/ (node[o].color # "black" /\ node[o].kind = "memoless")
              THEN "crash" ELSE fault
  /\ UNCHANGED <<live, roots, barrier, recorded, needGc, phase, held>>

\* The fields of a node that is not black are pushed and it is black.  A
\* callback that has no memo table, and a node that was freed, are read.
MarkNode(o) ==
  /\ phase = "mark" /\ fault = "none"
  /\ o \in queue
  /\ node' = Recolored({o}, "black")
  /\ queue' = IF node[o].color = "black" THEN queue \ {o} ELSE (queue \ {o}) \cup node[o].seen
  /\ fault' = IF o \notin live \/ (node[o].color # "black" /\ node[o].kind = "memoless")
              THEN "crash" ELSE fault
  /\ UNCHANGED <<live, roots, barrier, recorded, needGc, phase, held>>

\* A mutant: what is kept stays black.
SweepPhaseBlack ==
  /\ phase = "mark" /\ fault = "none"
  /\ queue = {}
  /\ LET dead == {o \in recorded \ barrier : node[o].color = "white"}
     IN  /\ recorded' = recorded \ dead
         /\ live' = live \ dead
         /\ node' = [o \in Objects |->
                       IF o \in dead THEN Blank
                       ELSE IF o \in barrier THEN [node[o] EXCEPT !.color = "gray"] ELSE node[o]]
  /\ needGc' = FALSE /\ phase' = "program"
  /\ UNCHANGED <<roots, barrier, queue, held, fault>>

\* The barrier's nodes are gray again; of the segments the white nodes are
\* destroyed and the others, white again, are put in new ones.
SweepPhase ==
  /\ phase = "mark" /\ fault = "none"
  /\ queue = {}
  /\ LET dead == {o \in recorded \ barrier : node[o].color = "white"}
     IN  /\ recorded' = recorded \ dead
         /\ live' = live \ dead
         /\ node' = [o \in Objects |->
                       IF o \in dead THEN Blank
                       ELSE IF o \in recorded THEN [node[o] EXCEPT !.color = "white"]
                       ELSE IF o \in barrier THEN [node[o] EXCEPT !.color = "gray"] ELSE node[o]]
  /\ needGc' = FALSE /\ phase' = "program"
  /\ UNCHANGED <<roots, barrier, queue, held, fault>>

-------------------------------------------------------------------------------
Program ==
  \/ \E kind \in Kinds, seen \in FieldSets :
       \E unseen \in IF kind = "partial" THEN FieldSets ELSE {{}} : Alloc(kind, seen, unseen)
  \/ \E o \in held : Load(o) \/ SetMsgDispatcher(o) \/ \E seen \in FieldSets : Store(o, seen)
  \/ \E c, v \in held : Start(v, c) \/ Run(c, v)
  \/ \E v \in held : Finish(v)

Collection == (\E o \in queue : MarkNode(o)) \/ SweepPhase

Next == Program \/ EnterGcSafepoint \/ Collection

\* Once a collection has begun the C code goes on with it to its end.
Spec == Init /\ [][Next]_vars /\ WF_vars(Collection)

-------------------------------------------------------------------------------
Colors == {"white", "gray", "black"}

TypeOK ==
  /\ node \in [Objects -> [kind : {"plain", "partial", "memoless"}, seen : SUBSET Objects,
                           unseen : SUBSET Objects, color : Colors]]
  /\ roots \in [code : Objects \cup {None}, cont : Objects \cup {None},
                dispatchers : SUBSET Objects]
  /\ {live, barrier, recorded, queue, held} \subseteq SUBSET Objects
  /\ needGc \in BOOLEAN /\ phase \in {"program", "mark"} /\ fault \in {"none", "exit", "crash"}

\* Nothing that a root leads to is ever destroyed, over as many collections as
\* there are: what the program could still come to by reading fields from the
\* code, the dispatchers, the continuation or the nodes made since the last
\* switch is in memory (gc.c:204-243), and so is what the bounce holds after a
\* safepoint, "after function finished, after a loop body finished" (gc.c:186).
RootsAlive == Reachable \cup held \subseteq live

\* node.h:188-195 of the colours: gray is allocated between two switches, white
\* is in the segments, and no node is forgotten by both; black is left over
\* from no collection, where it would keep the next from marking what it
\* leads to.
EachNodeRecorded ==
  /\ fault = "none" => barrier \cup recorded = live /\ barrier \cap recorded = {}
  /\ phase = "program" => \A o \in live : node[o].color = IF o \in barrier THEN "gray" ELSE "white"

\* While a collection marks, what a black node leads to is black or queued, so
\* that none is destroyed in the order the marking happened to take.
BlackLeadsToBlack ==
  phase = "mark" =>
    \A o \in live : node[o].color = "black" => \A f \in node[o].seen : f \in queue \/ node[f].color = "black"

\* A collection destroys exactly what no root leads to, and only it destroys.
CollectsGarbage ==
  [][IF phase = "mark" /\ phase' = "program" THEN live' = Reachable ELSE live \subseteq live']_vars

\* A collection ends, whatever circles there are in the heap.
CollectionEnds == phase = "mark" ~> phase = "program" \/ fault # "none"
===============================================================================

-------------------------- MODULE KonCollector_proofs --------------------------
(***************************************************************************)
(* In any heap, with any limits and any order of marking, a collection     *)
(* ends after so many steps, and leaves exactly what marking comes to from *)
(* the roots.  Where every field of a node is one KN_MarkNode pushes, and  *)
(* safepoints are met only where nothing is held that no root reaches,     *)
(* that is exactly what is reachable.                                      *)
(***************************************************************************)
EXTENDS KonCollector, FiniteSetTheorems, TLAPS

Black(o) == node[o].color = "black"

\* Between collections no color is left over.
ColorsOK ==
  phase = "program" => \A o \in live : node[o].color = IF o \in barrier THEN "gray" ELSE "white"

\* What marking comes to from the roots: the least set they are in and no pushed
\* field leaves.
Led ==
  {o \in Objects : \A os \in SUBSET Objects :
     RootNodes \subseteq os /\ (\A p \in os : node[p].seen \subseteq os) => o \in os}

\* The barrier and the segments are what is in memory; no color is left elsewhere.
ListsOK ==
  /\ barrier \cup recorded = live /\ barrier \cap recorded = {}
  /\ fault = "none" => \A o \in Objects \ live : node[o].color = "white"

\* While a collection marks: black and queued are only nodes it comes to, roots
\* and what black nodes lead to among them.
MarkedOK ==
  phase = "mark" =>
    /\ queue \subseteq Led
    /\ \A o \in RootNodes : o \in queue \/ Black(o)
    /\ \A o \in Objects : Black(o) => o \in Led
    /\ \A o \in Objects : Black(o) => \A f \in node[o].seen : f \in queue \/ Black(f)
    /\ \A o \in recorded : node[o].color \in {"black", "white"}

CodeInv == TypeOK /\ ListsOK /\ ColorsOK /\ MarkedOK

\* The nodes a collection has yet to mark, and the entries of its queue: no more
\* markings than this are still to come.
Unmarked == {o \in Objects : ~Black(o)}
MarkingsLeft == Cardinality(Unmarked) * (Cardinality(Objects) + 1) + Cardinality(queue)

\* A collection leaves exactly what marking comes to from the roots, and only it
\* destroys.
SweepsUnmarked ==
  [][IF phase = "mark" /\ phase' = "program" THEN live' = Led ELSE live \subseteq live']_vars

\* Every step of a collection that is not its end brings the end nearer.
MarkingDwindles ==
  [][phase = "mark" /\ phase' = "mark" =>
       MarkingsLeft \in Nat /\ MarkingsLeft' \in Nat /\ MarkingsLeft' < MarkingsLeft]_vars

Nodes == [kind : {"plain", "partial", "memoless"}, seen : SUBSET Objects,
          unseen : SUBSET Objects, color : Colors]

-----------------------------------------------------------------------------
(***************************************************************************)
(* The collector as it is, with fields that marking leaves out and with    *)
(* safepoints met while nodes are held: pointers to destroyed nodes, and   *)
(* new nodes in their place, are among its states.                         *)
(***************************************************************************)
\* The sets of nodes are sets of nodes.
LEMMA TypeFacts ==
  ASSUME TypeOK
  PROVE  /\ live \subseteq Objects /\ barrier \subseteq Objects /\ recorded \subseteq Objects
         /\ queue \subseteq Objects /\ held \subseteq Objects
         /\ None \notin live
         /\ roots.code \in Objects \cup {None} /\ roots.cont \in Objects \cup {None}
         /\ roots.dispatchers \subseteq Objects
         /\ \A o \in Objects : node[o].seen \subseteq Objects /\ node[o].unseen \subseteq Objects
         /\ needGc \in BOOLEAN /\ phase \in {"program", "mark"}
         /\ fault \in {"none", "exit", "crash"}
BY ObjectsAssumption DEF TypeOK

\* Coloring changes colors only.
LEMMA Recoloring ==
  ASSUME TypeOK, NEW S \in SUBSET Objects, NEW c \in Colors
  PROVE  /\ Recolored(S, c) \in [Objects -> Nodes]
         /\ \A o \in Objects :
              /\ Recolored(S, c)[o].seen = node[o].seen
              /\ Recolored(S, c)[o].unseen = node[o].unseen
              /\ Recolored(S, c)[o].color = IF o \in S THEN c ELSE node[o].color
<1>1. node \in [Objects -> Nodes]
  BY DEF TypeOK, Nodes
<1>2. \A o \in Objects : node[o] \in Nodes
  BY <1>1
<1>3. \A o \in Objects : Recolored(S, c)[o] = IF o \in S THEN [node[o] EXCEPT !.color = c] ELSE node[o]
  BY DEF Recolored
<1>4. \A o \in Objects : [node[o] EXCEPT !.color = c] \in Nodes
  BY <1>2 DEF Nodes
<1>5. ASSUME NEW o \in Objects
      PROVE  /\ [node[o] EXCEPT !.color = c].seen = node[o].seen
             /\ [node[o] EXCEPT !.color = c].unseen = node[o].unseen
             /\ [node[o] EXCEPT !.color = c].color = c
  BY <1>2 DEF Nodes
<1>6. Recolored(S, c) \in [Objects -> Nodes]
  BY <1>2, <1>4 DEF Recolored
<1> QED
  BY <1>3, <1>5, <1>6

\* Led is that least set.
LEMMA LedLeast ==
  ASSUME TypeOK
  PROVE  /\ RootNodes \subseteq Led /\ Led \subseteq Objects
         /\ \A o \in Led : node[o].seen \subseteq Led
         /\ \A S \in SUBSET Objects :
              RootNodes \subseteq S /\ (\A o \in S : node[o].seen \subseteq S) => Led \subseteq S
<1>1. RootNodes \subseteq Objects /\ \A o \in Objects : node[o].seen \subseteq Objects
  BY TypeFacts DEF RootNodes
<1>2. RootNodes \subseteq Led /\ Led \subseteq Objects
  BY <1>1 DEF Led
<1>3. \A S \in SUBSET Objects :
        RootNodes \subseteq S /\ (\A o \in S : node[o].seen \subseteq S) => Led \subseteq S
  BY DEF Led
<1>4. ASSUME NEW o \in Led, NEW f \in node[o].seen
      PROVE  f \in Led
  <2>1. o \in Objects /\ f \in Objects
    BY <1>1, <1>2
  <2>2. ASSUME NEW S \in SUBSET Objects, RootNodes \subseteq S, \A p \in S : node[p].seen \subseteq S
        PROVE  f \in S
    <3>1. o \in S
      BY <2>2 DEF Led
    <3> QED
      BY <2>2, <3>1
  <2> QED
    BY <2>1, <2>2 DEF Led
<1> QED
  BY <1>2, <1>3, <1>4

\* It depends on the roots and the pushed fields only.
LEMMA LedSame ==
  ASSUME RootNodes' = RootNodes, \A o \in Objects : node'[o].seen = node[o].seen
  PROVE  Led' = Led
<1>1. ASSUME NEW S \in SUBSET Objects
      PROVE  (\A p \in S : node'[p].seen \subseteq S) <=> (\A p \in S : node[p].seen \subseteq S)
  OBVIOUS
<1> QED
  BY <1>1 DEF Led

\* What the parts of the invariant say while the program runs,
LEMMA CodeRuns ==
  ASSUME CodeInv, Running
  PROVE  /\ TypeOK /\ phase = "program" /\ fault = "none"
         /\ barrier \cup recorded = live /\ barrier \cap recorded = {}
         /\ \A o \in Objects \ live : node[o].color = "white"
         /\ \A o \in live : node[o].color = IF o \in barrier THEN "gray" ELSE "white"
BY DEF CodeInv, Running, ListsOK, ColorsOK

\* and what they come to when it goes on.
LEMMA CodeRunsOn ==
  ASSUME TypeOK', phase' = "program",
         barrier' \cup recorded' = live', barrier' \cap recorded' = {},
         \A o \in Objects \ live' : node'[o].color = "white",
         \A o \in live' : node'[o].color = IF o \in barrier' THEN "gray" ELSE "white"
  PROVE  CodeInv'
BY DEF CodeInv, ListsOK, ColorsOK, MarkedOK

\* The initial states are in order.
LEMMA CodeInit == Init => CodeInv
<1> SUFFICES ASSUME Init PROVE CodeInv
  OBVIOUS
<1>1. TypeOK
  BY DEF Init, TypeOK, Blank, Colors
<1>2. ListsOK
  BY DEF Init, ListsOK, Blank
<1>3. ColorsOK /\ MarkedOK
  BY DEF Init, ColorsOK, MarkedOK
<1> QED
  BY <1>1, <1>2, <1>3 DEF CodeInv

\* KN_SwitchContinuation, to any roots.
LEMMA CodeSwitches ==
  ASSUME CodeInv, Running, NEW r, SwitchContinuation(r),
         r \in [code : Objects \cup {None}, cont : Objects \cup {None}, dispatchers : SUBSET Objects],
         held' \subseteq held
  PROVE  CodeInv' /\ live' = live
<1>1. /\ TypeOK /\ phase = "program" /\ fault = "none"
      /\ barrier \cup recorded = live /\ barrier \cap recorded = {}
      /\ \A o \in Objects \ live : node[o].color = "white"
      /\ \A o \in live : node[o].color = IF o \in barrier THEN "gray" ELSE "white"
  BY CodeRuns
<1>2. /\ roots' = r /\ needGc' = (needGc \/ ~HasEnoughSegSpace(Cardinality(barrier)))
      /\ node' = Recolored(barrier, "white") /\ recorded' = recorded \cup barrier
      /\ fault' = (IF Cardinality(recorded) + Cardinality(barrier) > Capacity THEN "exit" ELSE fault)
      /\ barrier' = {} /\ live' = live /\ queue' = queue /\ phase' = phase
  BY DEF SwitchContinuation
<1>3. /\ node' \in [Objects -> Nodes]
      /\ \A o \in Objects : node'[o].color = IF o \in barrier THEN "white" ELSE node[o].color
  <2>1. barrier \in SUBSET Objects /\ "white" \in Colors
    BY <1>1, TypeFacts DEF Colors
  <2>2. /\ Recolored(barrier, "white") \in [Objects -> Nodes]
        /\ \A o \in Objects :
             Recolored(barrier, "white")[o].color = IF o \in barrier THEN "white" ELSE node[o].color
    BY <1>1, <2>1, Recoloring
  <2> QED
    BY <1>2, <2>2
<1>4. fault' \in {"none", "exit", "crash"} /\ needGc' \in BOOLEAN
  BY <1>1, <1>2, TypeFacts
<1>5. live \subseteq Objects /\ barrier \subseteq Objects /\ recorded \subseteq Objects
      /\ queue \subseteq Objects /\ held' \subseteq Objects
  BY <1>1, TypeFacts
<1>6. TypeOK'
  BY <1>1, <1>2, <1>3, <1>4, <1>5 DEF TypeOK, Nodes
<1>7. \A o \in live' : node'[o].color = IF o \in barrier' THEN "gray" ELSE "white"
  BY <1>1, <1>2, <1>3, <1>5
<1>8. \A o \in Objects \ live' : node'[o].color = "white"
  BY <1>1, <1>2, <1>3
<1> QED
  BY <1>1, <1>2, <1>6, <1>7, <1>8, CodeRunsOn

\* A new node, with any fields.
LEMMA CodeAllocates ==
  ASSUME CodeInv, NEW kind \in Kinds, NEW seen \in FieldSets, NEW unseen \in FieldSets \cup {{}},
         Alloc(kind, seen, unseen)
  PROVE  CodeInv' /\ live \subseteq live'
<1>1. /\ TypeOK /\ phase = "program" /\ fault = "none"
      /\ barrier \cup recorded = live /\ barrier \cap recorded = {}
      /\ \A o \in Objects \ live : node[o].color = "white"
      /\ \A o \in live : node[o].color = IF o \in barrier THEN "gray" ELSE "white"
  BY CodeRuns DEF Alloc
<1>2. PICK o \in Objects \ live :
        /\ node' = [node EXCEPT ![o] = [kind |-> kind, seen |-> seen, unseen |-> unseen, color |-> "gray"]]
        /\ live' = live \cup {o} /\ barrier' = barrier \cup {o} /\ held' = held \cup {o}
  BY DEF Alloc
<1>3. UNCHANGED <<roots, recorded, queue, needGc, phase, fault>>
  BY DEF Alloc
<1>4. seen \subseteq Objects /\ unseen \subseteq Objects
  BY <1>1, TypeFacts DEF FieldSets
<1>5. node \in [Objects -> Nodes]
  BY <1>1 DEF TypeOK, Nodes
<1>6. /\ node' \in [Objects -> Nodes]
      /\ \A x \in Objects : node'[x] = IF x = o THEN [kind |-> kind, seen |-> seen, unseen |-> unseen,
                                                      color |-> "gray"]
                                       ELSE node[x]
  <2>1. [kind |-> kind, seen |-> seen, unseen |-> unseen, color |-> "gray"] \in Nodes
    BY <1>4, KindsAssumption DEF Nodes, Colors
  <2> QED
    BY <1>2, <1>5, <2>1
<1>7. TypeOK'
  BY <1>1, <1>2, <1>3, <1>6, TypeFacts DEF TypeOK, Nodes
<1>8. live \subseteq Objects /\ o \notin recorded
  BY <1>1, TypeFacts
<1>9. \A x \in live' : node'[x].color = IF x \in barrier' THEN "gray" ELSE "white"
  BY <1>1, <1>2, <1>6, <1>8
<1>10. \A x \in Objects \ live' : node'[x].color = "white"
  BY <1>1, <1>2, <1>6
<1>11. barrier' \cup recorded' = live' /\ barrier' \cap recorded' = {}
  BY <1>1, <1>2, <1>3, <1>8
<1> QED
  BY <1>1, <1>3, <1>2, <1>7, <1>9, <1>10, <1>11, CodeRunsOn

\* Reading a field, changing one, also of a destroyed node, and setting dispatchers.
LEMMA CodeAccesses ==
  ASSUME CodeInv, NEW o \in held,
         Load(o) \/ SetMsgDispatcher(o) \/ \E seen \in FieldSets : Store(o, seen)
  PROVE  CodeInv' /\ live' = live
<1>1. /\ TypeOK /\ phase = "program" /\ fault = "none"
      /\ barrier \cup recorded = live /\ barrier \cap recorded = {}
      /\ \A x \in Objects \ live : node[x].color = "white"
      /\ \A x \in live : node[x].color = IF x \in barrier THEN "gray" ELSE "white"
  BY CodeRuns DEF Load, SetMsgDispatcher, Store
<1>2. /\ UNCHANGED <<live, barrier, recorded, queue, needGc, phase, fault>>
      /\ o \in Objects /\ live \subseteq Objects
  BY <1>1, TypeFacts DEF Load, SetMsgDispatcher, Store
<1>3. node \in [Objects -> Nodes]
  BY <1>1 DEF TypeOK, Nodes
<1>4. /\ node' \in [Objects -> Nodes] /\ held' \subseteq Objects
      /\ \A x \in Objects : node'[x].color = node[x].color
      /\ roots' \in [code : Objects \cup {None}, cont : Objects \cup {None}, dispatchers : SUBSET Objects]
  <2>1. CASE Load(o)
    <3>1. held' \in {held \cup {f} : f \in Fields(o)} \cup {held \ {o}} /\ UNCHANGED <<node, roots>>
      BY <2>1 DEF Load
    <3>2. held' \subseteq Objects
      BY <1>1, <1>2, <3>1, TypeFacts DEF Fields
    <3> QED
      BY <1>1, <1>3, <3>1, <3>2 DEF TypeOK
  <2>2. CASE SetMsgDispatcher(o)
    <3>1. UNCHANGED <<node, held>> /\ roots' = [roots EXCEPT !.dispatchers = {o}]
      BY <2>2 DEF SetMsgDispatcher
    <3>2. roots' \in [code : Objects \cup {None}, cont : Objects \cup {None}, dispatchers : SUBSET Objects]
      BY <1>1, <1>2, <3>1 DEF TypeOK
    <3> QED
      BY <1>1, <1>3, <3>1, <3>2, TypeFacts
  <2>3. CASE \E seen \in FieldSets : Store(o, seen)
    <3>1. PICK seen \in FieldSets : Store(o, seen)
      BY <2>3
    <3>2. UNCHANGED <<roots, held>> /\ node' = [node EXCEPT ![o].seen = seen]
      BY <3>1 DEF Store
    <3>3. seen \subseteq Objects
      BY <1>1, TypeFacts DEF FieldSets
    <3>4. node' \in [Objects -> Nodes] /\ \A x \in Objects : node'[x].color = node[x].color
      BY <1>2, <1>3, <3>2, <3>3 DEF Nodes
    <3> QED
      BY <1>1, <3>2, <3>4, TypeFacts DEF TypeOK
  <2> QED
    BY <2>1, <2>2, <2>3
<1>5. TypeOK'
  BY <1>1, <1>2, <1>4 DEF TypeOK, Nodes
<1> QED
  BY <1>1, <1>2, <1>4, <1>5, CodeRunsOn

\* The program's steps keep the invariant and destroy nothing.
LEMMA CodeProgram ==
  ASSUME CodeInv, Program
  PROVE  CodeInv' /\ live \subseteq live' /\ phase = "program" /\ phase' = "program"
<1>1. ASSUME NEW kind \in Kinds, NEW seen \in FieldSets,
             NEW unseen \in IF kind = "partial" THEN FieldSets ELSE {{}}, Alloc(kind, seen, unseen)
      PROVE  CodeInv' /\ live \subseteq live'
  <2>1. unseen \in FieldSets \cup {{}}
    OBVIOUS
  <2> QED
    BY <1>1, <2>1, CodeAllocates
<1>2. ASSUME NEW o \in held, Load(o) \/ SetMsgDispatcher(o) \/ \E seen \in FieldSets : Store(o, seen)
      PROVE  CodeInv' /\ live' = live
  BY <1>2, CodeAccesses
<1>3. ASSUME NEW r, SwitchContinuation(r), Running, held' \subseteq held,
             \/ \E c, v \in held : r = [roots EXCEPT !.code = v, !.cont = c]
             \/ \E c \in held : r = [roots EXCEPT !.cont = c]
             \/ r = [roots EXCEPT !.cont = None]
      PROVE  CodeInv' /\ live' = live
  <2>1. TypeOK /\ held \subseteq Objects
    BY TypeFacts DEF CodeInv
  <2>2. r \in [code : Objects \cup {None}, cont : Objects \cup {None}, dispatchers : SUBSET Objects]
    BY <1>3, <2>1 DEF TypeOK
  <2> QED
    BY <1>3, <2>2, CodeSwitches
<1>4. ASSUME NEW c \in held, NEW v \in held, Start(v, c) \/ Run(c, v)
      PROVE  CodeInv' /\ live' = live
  <2>1. CASE Start(v, c)
    BY <1>3, <2>1 DEF Start
  <2>2. CASE Run(c, v)
    BY <1>3, <2>2 DEF Run
  <2> QED
    BY <1>4, <2>1, <2>2
<1>5. ASSUME NEW v \in held, Finish(v)
      PROVE  CodeInv' /\ live' = live
  BY <1>3, <1>5 DEF Finish
<1>6. phase = "program" /\ phase' = "program"
  BY DEF Program, Alloc, Load, Store, SetMsgDispatcher, Start, Run, Finish, SwitchContinuation, Running
<1> QED
  BY <1>1, <1>2, <1>4, <1>5, <1>6 DEF Program

\* A collection starts, whatever is held, with nothing marked.
LEMMA CodeEnters ==
  ASSUME CodeInv, EnterGcSafepoint
  PROVE  CodeInv' /\ live' = live /\ phase = "program" /\ phase' = "mark"
<1>1. /\ TypeOK /\ phase = "program" /\ fault = "none"
      /\ barrier \cup recorded = live /\ barrier \cap recorded = {}
      /\ \A o \in Objects \ live : node[o].color = "white"
      /\ \A o \in live : node[o].color = IF o \in barrier THEN "gray" ELSE "white"
  BY CodeRuns DEF EnterGcSafepoint
<1>2. /\ UNCHANGED <<node, live, roots, barrier, recorded, needGc, held, fault>>
      /\ queue' = RootNodes /\ phase' = "mark"
  BY DEF EnterGcSafepoint
<1>3. RootNodes \subseteq Led /\ Led \subseteq Objects
  BY <1>1, LedLeast
<1>4. RootNodes' = RootNodes /\ Led' = Led
  BY <1>2, LedSame DEF RootNodes
<1>5. TypeOK'
  BY <1>1, <1>2, <1>3, TypeFacts DEF TypeOK
<1>6. \A o \in Objects : ~Black(o)'
  <2>1. \A o \in Objects : node[o].color # "black"
    BY <1>1
  <2> QED
    BY <1>2, <2>1 DEF Black
<1>7. \A o \in recorded' : node'[o].color \in {"black", "white"}
  <2>1. recorded \subseteq live /\ \A o \in recorded : o \notin barrier
    BY <1>1
  <2> QED
    BY <1>1, <1>2, <2>1
<1>8. MarkedOK'
  BY <1>2, <1>3, <1>4, <1>6, <1>7 DEF MarkedOK
<1>9. ListsOK' /\ ColorsOK'
  BY <1>1, <1>2 DEF ListsOK, ColorsOK
<1> QED
  BY <1>1, <1>2, <1>5, <1>8, <1>9 DEF CodeInv

\* A marking keeps the invariant, and has one less to come.
LEMMA CodeMarks ==
  ASSUME CodeInv, NEW o \in queue, MarkNode(o)
  PROVE  /\ CodeInv' /\ live' = live /\ phase = "mark" /\ phase' = "mark"
         /\ MarkingsLeft \in Nat /\ MarkingsLeft' \in Nat /\ MarkingsLeft' < MarkingsLeft
<1>1. /\ TypeOK /\ phase = "mark" /\ fault = "none"
      /\ barrier \cup recorded = live /\ barrier \cap recorded = {}
      /\ \A x \in Objects \ live : node[x].color = "white"
      /\ queue \subseteq Led
      /\ \A x \in RootNodes : x \in queue \/ Black(x)
      /\ \A x \in Objects : Black(x) => x \in Led
      /\ \A x \in Objects : Black(x) => \A f \in node[x].seen : f \in queue \/ Black(f)
      /\ \A x \in recorded : node[x].color \in {"black", "white"}
  BY DEF CodeInv, MarkNode, ListsOK, MarkedOK
<1>2. /\ UNCHANGED <<live, roots, barrier, recorded, needGc, phase, held>>
      /\ node' = Recolored({o}, "black")
      /\ queue' = IF Black(o) THEN queue \ {o} ELSE (queue \ {o}) \cup node[o].seen
      /\ fault' = IF o \notin live \/ (~Black(o) /\ node[o].kind = "memoless") THEN "crash" ELSE fault
  BY DEF MarkNode, Black
<1>3. /\ o \in Led /\ o \in Objects /\ live \subseteq Objects /\ recorded \subseteq Objects
      /\ RootNodes \subseteq Led /\ Led \subseteq Objects /\ node[o].seen \subseteq Led
      /\ \A x \in Objects : node[x].seen \subseteq Objects
  BY <1>1, LedLeast, TypeFacts
<1>4. /\ node' \in [Objects -> Nodes]
      /\ \A x \in Objects :
           /\ node'[x].seen = node[x].seen
           /\ node'[x].color = IF x \in {o} THEN "black" ELSE node[x].color
  <2>1. {o} \in SUBSET Objects /\ "black" \in Colors
    BY <1>3 DEF Colors
  <2>2. /\ Recolored({o}, "black") \in [Objects -> Nodes]
        /\ \A x \in Objects :
             /\ Recolored({o}, "black")[x].seen = node[x].seen
             /\ Recolored({o}, "black")[x].color = IF x \in {o} THEN "black" ELSE node[x].color
    BY <1>1, <2>1, Recoloring
  <2> QED
    BY <1>2, <2>2
<1>5. /\ RootNodes' = RootNodes /\ Led' = Led
      /\ \A x \in Objects : Black(x)' <=> (x = o \/ Black(x))
  BY <1>2, <1>4, LedSame DEF RootNodes, Black
<1>6. queue' \subseteq Led /\ queue \subseteq queue' \cup {o}
      /\ (Black(o) \/ node[o].seen \subseteq queue' \cup {o})
  BY <1>1, <1>2, <1>3
<1>7. TypeOK'
  <2>1. queue' \subseteq Objects
    BY <1>3, <1>6
  <2>2. fault' \in {"none", "exit", "crash"}
    BY <1>1, <1>2
  <2>3. live' \subseteq Objects /\ barrier' \subseteq Objects /\ recorded' \subseteq Objects
        /\ held' \subseteq Objects /\ needGc' \in BOOLEAN /\ phase' \in {"program", "mark"}
    BY <1>1, <1>2, TypeFacts
  <2>4. roots' \in [code : Objects \cup {None}, cont : Objects \cup {None},
                    dispatchers : SUBSET Objects]
    BY <1>1, <1>2 DEF TypeOK
  <2> QED
    BY <1>4, <2>1, <2>2, <2>3, <2>4 DEF TypeOK, Nodes
<1>8. ListsOK'
  <2>1. fault' = "none" => o \in live
    BY <1>2
  <2>2. fault' = "none" => \A x \in Objects \ live : node'[x].color = "white"
    BY <1>1, <1>4, <2>1
  <2> QED
    BY <1>1, <1>2, <2>2 DEF ListsOK
<1>9. MarkedOK'
  <2>1. ASSUME NEW x \in Objects, x \in queue \/ Black(x)
        PROVE  x \in queue' \/ Black(x)'
    <3>1. Black(x)' <=> (x = o \/ Black(x))
      BY <1>5
    <3>2. x \in queue => x = o \/ x \in queue'
      BY <1>6
    <3> QED
      BY ONLY <2>1, <3>1, <3>2
  <2>2. \A x \in RootNodes : x \in queue' \/ Black(x)'
    BY <1>1, <1>3, <2>1
  <2>3. \A x \in Objects : Black(x)' => x \in Led
    BY <1>1, <1>3, <1>5
  <2>4. ASSUME NEW x \in Objects, Black(x)', NEW f \in node'[x].seen
        PROVE  f \in queue' \/ Black(f)'
    <3>1. f \in node[x].seen /\ f \in Objects
      BY <1>3, <1>4
    <3>2. CASE Black(x)
      BY <1>1, <2>1, <3>1, <3>2
    <3>3. CASE ~Black(x)
      <4>1. x = o
        BY <1>5, <2>4, <3>3
      <4>2. f \in queue' \/ f = o
        BY <1>6, <3>1, <3>3, <4>1
      <4> QED
        BY <1>5, <3>1, <4>2
    <3> QED
      BY <3>2, <3>3
  <2>5. \A x \in recorded : node'[x].color \in {"black", "white"}
    BY <1>1, <1>3, <1>4
  <2> QED
    BY <1>2, <1>5, <1>6, <2>2, <2>3, <2>4, <2>5 DEF MarkedOK
<1>10. ColorsOK'
  BY <1>1, <1>2 DEF ColorsOK
<1>11. MarkingsLeft \in Nat /\ MarkingsLeft' \in Nat /\ MarkingsLeft' < MarkingsLeft
  <2> DEFINE n == Cardinality(Objects)
             u == Cardinality(Unmarked)
             q == Cardinality(queue)
             uu == Cardinality(Unmarked')
             qq == Cardinality(queue')
  <2>1. IsFiniteSet(Objects) /\ n \in Nat
    BY ObjectsAssumption, FS_CardinalityType
  <2>2. Unmarked \in SUBSET Objects /\ queue \in SUBSET Objects /\ queue' \in SUBSET Objects
    BY <1>1, <1>3, <1>6 DEF Unmarked
  <2>3. IsFiniteSet(Unmarked) /\ IsFiniteSet(queue) /\ IsFiniteSet(queue') /\ qq <= n
    BY <2>1, <2>2, FS_Subset
  <2>4. u \in Nat /\ q \in Nat /\ qq \in Nat
    BY <2>3, FS_CardinalityType
  <2>5. Unmarked' = Unmarked \ {o}
    BY <1>3, <1>5 DEF Unmarked
  <2>6. uu = IF o \in Unmarked THEN u - 1 ELSE u
    BY <2>3, <2>5, FS_RemoveElement
  <2>7. o \in Unmarked <=> ~Black(o)
    BY <1>3 DEF Unmarked
  <2>8. uu \in Nat
    BY <2>3, <2>5, FS_RemoveElement, FS_CardinalityType
  <2>9. CASE Black(o)
    <3>1. uu = u
      BY <2>6, <2>7, <2>9
    <3>2. queue' = queue \ {o}
      BY <1>2, <2>9
    <3>3. qq = q - 1
      BY <2>3, <3>2, FS_RemoveElement
    <3> HIDE DEF n, u, q, uu, qq
    <3>4. u * (n + 1) \in Nat /\ u * (n + 1) + q \in Nat /\ u * (n + 1) + qq \in Nat
      BY <2>1, <2>4
    <3>5. u * (n + 1) + qq < u * (n + 1) + q
      BY <2>4, <3>3, <3>4
    <3> QED
      BY <3>1, <3>4, <3>5 DEF MarkingsLeft, n, u, q, uu, qq
  <2>10. CASE ~Black(o)
    <3>1. uu = u - 1
      BY <2>6, <2>7, <2>10
    <3> HIDE DEF n, u, q, uu, qq
    <3> DEFINE w == uu * (n + 1)
    <3>2. w \in Nat
      BY <2>1, <2>8
    <3>3. u * (n + 1) = w + (n + 1)
      <4>1. u = uu + 1
        BY <2>4, <2>8, <3>1
      <4> QED
        BY <2>1, <2>8, <4>1
    <3> HIDE DEF w
    <3>4. w + qq < (w + (n + 1)) + q /\ w + qq \in Nat /\ (w + (n + 1)) + q \in Nat
      BY <2>1, <2>3, <2>4, <3>2
    <3> QED
      BY <3>3, <3>4 DEF MarkingsLeft, n, u, q, uu, qq, w
  <2> QED
    BY <2>9, <2>10
<1> QED
  BY <1>1, <1>2, <1>7, <1>8, <1>9, <1>10, <1>11 DEF CodeInv

\* When there is nothing left to mark, what marking came to is black, and the
\* white nodes of the segments are exactly what it did not come to.
LEMMA CodeSweeps ==
  ASSUME CodeInv, SweepPhase
  PROVE  CodeInv' /\ live' = Led /\ phase = "mark" /\ phase' = "program"
<1> DEFINE dead == {o \in recorded \ barrier : node[o].color = "white"}
<1>1. /\ TypeOK /\ phase = "mark" /\ fault = "none" /\ queue = {}
      /\ barrier \cup recorded = live /\ barrier \cap recorded = {}
      /\ \A x \in Objects \ live : node[x].color = "white"
      /\ \A x \in RootNodes : Black(x)
      /\ \A x \in Objects : Black(x) => x \in Led
      /\ \A x \in Objects : Black(x) => \A f \in node[x].seen : Black(f)
      /\ \A x \in recorded : node[x].color \in {"black", "white"}
  BY DEF CodeInv, SweepPhase, ListsOK, MarkedOK
<1>2. /\ recorded' = recorded \ dead /\ live' = live \ dead
      /\ node' = [o \in Objects |->
                    IF o \in dead THEN Blank
                    ELSE IF o \in recorded THEN [node[o] EXCEPT !.color = "white"]
                    ELSE IF o \in barrier THEN [node[o] EXCEPT !.color = "gray"] ELSE node[o]]
      /\ needGc' = FALSE /\ phase' = "program"
      /\ UNCHANGED <<roots, barrier, queue, held, fault>>
  BY DEF SweepPhase
<1>3. /\ live \subseteq Objects /\ recorded \subseteq live /\ barrier \subseteq RootNodes
      /\ RootNodes \subseteq Led /\ Led \subseteq Objects
      /\ \A x \in Objects : node[x].seen \subseteq Objects
  <2>1. None \notin barrier
    BY <1>1, TypeFacts
  <2> QED
    BY <1>1, <2>1, LedLeast, TypeFacts DEF RootNodes
<1>4. \A x \in Led : Black(x)
  <2> DEFINE S == {x \in Objects : Black(x)}
  <2>1. S \in SUBSET Objects /\ RootNodes \subseteq S
    BY <1>1, <1>3
  <2>2. \A x \in S : node[x].seen \subseteq S
    BY <1>1, <1>3
  <2>3. Led \subseteq S
    <3> HIDE DEF S
    <3> QED
      BY <1>1, <2>1, <2>2, LedLeast
  <2> QED
    BY <2>3
<1>5. live' = Led
  <2>1. \A x \in Led : x \in live
    BY <1>1, <1>3, <1>4 DEF Black
  <2>2. \A x \in live : x \in dead <=> x \notin Led
    BY <1>1, <1>3, <1>4 DEF Black
  <2> HIDE DEF dead
  <2> QED
    BY <1>2, <2>1, <2>2
<1>6. node \in [Objects -> Nodes]
  BY <1>1 DEF TypeOK, Nodes
<1>7. \A o \in Objects : node[o] \in Nodes
  BY <1>6
<1>8. \A o \in Objects, c \in Colors :
        [node[o] EXCEPT !.color = c] \in Nodes /\ [node[o] EXCEPT !.color = c].color = c
  BY <1>7 DEF Nodes
<1>9. Blank \in Nodes /\ Blank.color = "white" /\ {"white", "gray"} \subseteq Colors
  BY DEF Blank, Nodes, Colors
<1>10. barrier \cap dead = {} /\ dead \subseteq recorded
  OBVIOUS
<1> HIDE DEF dead
<1>11. node' \in [Objects -> Nodes]
  BY <1>2, <1>7, <1>8, <1>9
<1>12. \A o \in live' : node'[o].color = IF o \in barrier' THEN "gray" ELSE "white"
  <2>1. \A o \in live' : o \in Objects /\ o \notin dead /\ (o \in recorded \/ o \in barrier)
                         /\ (o \in barrier <=> o \notin recorded)
    BY <1>1, <1>2, <1>3
  <2> QED
    BY <1>2, <1>8, <1>9, <2>1
<1>13. \A o \in Objects \ live' : node'[o].color = "white"
  <2>1. \A o \in Objects \ live' : o \in dead \/ (o \notin dead /\ o \notin recorded /\ o \notin barrier)
    BY <1>1, <1>2
  <2> QED
    BY <1>1, <1>2, <1>9, <2>1
<1>14. TypeOK'
  <2>1. live' \subseteq Objects /\ recorded' \subseteq Objects
    BY <1>2, <1>3
  <2> QED
    BY <1>1, <1>2, <1>11, <2>1, TypeFacts DEF TypeOK, Nodes
<1>15. barrier' \cup recorded' = live' /\ barrier' \cap recorded' = {}
  BY <1>1, <1>2, <1>10
<1> QED
  BY <1>1, <1>2, <1>5, <1>12, <1>13, <1>14, <1>15, CodeRunsOn

\* Every step keeps the invariant; only the end of a collection destroys.
LEMMA CodeNext ==
  ASSUME CodeInv, [Next]_vars
  PROVE  /\ CodeInv'
         /\ IF phase = "mark" /\ phase' = "program" THEN live' = Led ELSE live \subseteq live'
         /\ UNCHANGED vars \/ (phase = "mark" /\ phase' = "mark" =>
              MarkingsLeft \in Nat /\ MarkingsLeft' \in Nat /\ MarkingsLeft' < MarkingsLeft)
<1>1. CASE Program
  BY <1>1, CodeProgram
<1>2. CASE EnterGcSafepoint
  BY <1>2, CodeEnters
<1>3. CASE \E o \in queue : MarkNode(o)
  BY <1>3, CodeMarks
<1>4. CASE SweepPhase
  BY <1>4, CodeSweeps
<1>5. CASE UNCHANGED vars
  <2>1. UNCHANGED <<node, live, roots, barrier, recorded, queue, needGc, phase, held, fault>>
    BY <1>5 DEF vars
  <2>2. RootNodes' = RootNodes /\ Led' = Led
    BY <2>1, LedSame DEF RootNodes
  <2>3. TypeOK' /\ ListsOK' /\ ColorsOK' /\ MarkedOK'
    BY <2>1, <2>2 DEF CodeInv, TypeOK, ListsOK, ColorsOK, MarkedOK, Black
  <2>4. phase # "mark" \/ phase' # "program"
    BY <2>1
  <2> QED
    BY <1>5, <2>1, <2>3, <2>4 DEF CodeInv
<1> QED
  BY <1>1, <1>2, <1>3, <1>4, <1>5 DEF Next, Collection

\* and so always.
LEMMA CodeInvariance == Spec => []CodeInv
<1>1. CodeInv /\ [Next]_vars => CodeInv'
  BY CodeNext
<1> QED
  BY <1>1, CodeInit, PTL DEF Spec

-----------------------------------------------------------------------------
(***************************************************************************)
(* Where all fields are pushed and safepoints are met with care.           *)
(***************************************************************************)
\* No kind of node has fields that are not pushed, and safepoints are met with
\* care.  The code has neither; the theorems say what it would take.
Hypothesis == Careful /\ "partial" \notin Kinds

\* What is in memory leads only to what is in memory,
HeapOK ==
  /\ \A o \in Objects : node[o].unseen = {}
  /\ \A o \in live : node[o].seen \subseteq live
  /\ RootNodes \subseteq live
  /\ held \subseteq live

\* and marking comes to what is held.
HeldOK == phase = "mark" => held \subseteq Led

CarefulInv == CodeInv /\ HeapOK /\ HeldOK

\* Where all fields are pushed, marking comes to what is reachable.
LEMMA ReachableIsLed ==
  ASSUME \A o \in Objects : node[o].unseen = {}
  PROVE  Reachable = Led
<1>1. ASSUME NEW S \in SUBSET Objects
      PROVE  Closed(S) <=> \A p \in S : node[p].seen \subseteq S
  BY DEF Closed, Fields
<1> QED
  BY <1>1 DEF Reachable, Led

\* It is all in memory.
LEMMA LedAlive ==
  ASSUME TypeOK, HeapOK
  PROVE  Led \subseteq live
<1>1. live \in SUBSET Objects
  BY DEF TypeOK
<1> QED
  BY <1>1, LedLeast DEF HeapOK

\* A new node points to nodes that are held.
LEMMA AllocStep ==
  ASSUME CarefulInv, Hypothesis, NEW kind \in Kinds, NEW seen \in FieldSets, Alloc(kind, seen, {})
  PROVE  HeapOK'
<1>1. TypeOK /\ HeapOK /\ live \subseteq Objects /\ seen \subseteq live
  BY TypeFacts DEF CarefulInv, CodeInv, HeapOK, FieldSets
<1>2. PICK o \in Objects \ live :
        /\ node' = [node EXCEPT ![o] = [kind |-> kind, seen |-> seen, unseen |-> {}, color |-> "gray"]]
        /\ live' = live \cup {o} /\ barrier' = barrier \cup {o} /\ held' = held \cup {o}
        /\ roots' = roots
  BY DEF Alloc
<1>3. \A x \in Objects : node'[x] = IF x = o THEN [kind |-> kind, seen |-> seen, unseen |-> {}, color |-> "gray"]
                                    ELSE node[x]
  BY <1>1, <1>2 DEF TypeOK
<1>4. RootNodes' \subseteq live' /\ held' \subseteq live'
  BY <1>1, <1>2 DEF HeapOK, RootNodes
<1>5. \A x \in Objects : node'[x].unseen = {}
  BY <1>1, <1>3 DEF HeapOK
<1>6. \A x \in live' : node'[x].seen \subseteq live'
  BY <1>1, <1>2, <1>3 DEF HeapOK
<1> QED
  BY <1>4, <1>5, <1>6 DEF HeapOK

\* What is read from a field, assigned to one or made a root is in memory.
LEMMA AccessStep ==
  ASSUME CarefulInv, NEW o \in held,
         Load(o) \/ SetMsgDispatcher(o) \/ \E seen \in FieldSets : Store(o, seen)
  PROVE  HeapOK'
<1>1. /\ TypeOK /\ HeapOK /\ live \subseteq Objects /\ o \in live /\ held \subseteq live
      /\ Fields(o) \subseteq live
  BY TypeFacts DEF CarefulInv, CodeInv, HeapOK, Fields
<1>2. CASE Load(o)
  <2>1. UNCHANGED <<node, live, roots, barrier>>
        /\ held' \in {held \cup {f} : f \in Fields(o)} \cup {held \ {o}}
    BY <1>2 DEF Load
  <2>2. held' \subseteq live
    BY <1>1, <2>1
  <2> QED
    BY <1>1, <2>1, <2>2 DEF HeapOK, RootNodes
<1>3. CASE SetMsgDispatcher(o)
  <2>1. UNCHANGED <<node, live, barrier, held>> /\ roots' = [roots EXCEPT !.dispatchers = {o}]
    BY <1>3 DEF SetMsgDispatcher
  <2>2. roots'.code = roots.code /\ roots'.cont = roots.cont /\ roots'.dispatchers = {o}
    BY <1>1, <2>1 DEF TypeOK
  <2> QED
    BY <1>1, <2>1, <2>2 DEF HeapOK, RootNodes
<1>4. CASE \E seen \in FieldSets : Store(o, seen)
  <2>1. PICK seen \in FieldSets : Store(o, seen)
    BY <1>4
  <2>2. UNCHANGED <<live, roots, barrier, held>> /\ node' = [node EXCEPT ![o].seen = seen]
    BY <2>1 DEF Store
  <2>3. \A x \in Objects : /\ node'[x].seen = IF x = o THEN seen ELSE node[x].seen
                           /\ node'[x].unseen = node[x].unseen
    BY <1>1, <2>2 DEF TypeOK
  <2>4. RootNodes' = RootNodes /\ seen \subseteq live
    BY <1>1, <2>2 DEF RootNodes, FieldSets
  <2> QED
    BY <1>1, <2>2, <2>3, <2>4 DEF HeapOK
<1> QED
  BY <1>2, <1>3, <1>4

\* KN_SwitchContinuation, where the new roots are in memory.
LEMMA SwitchStep ==
  ASSUME CarefulInv, NEW r, SwitchContinuation(r),
         ({r.code, r.cont} \cup r.dispatchers) \ {None} \subseteq live, held' \subseteq held
  PROVE  HeapOK'
<1>1. TypeOK /\ HeapOK /\ barrier \in SUBSET Objects
  BY DEF CarefulInv, CodeInv, TypeOK
<1>2. /\ roots' = r /\ barrier' = {} /\ live' = live /\ node' = Recolored(barrier, "white")
  BY DEF SwitchContinuation
<1>3. \A o \in Objects : node'[o].seen = node[o].seen /\ node'[o].unseen = node[o].unseen
  <2>1. "white" \in Colors
    BY DEF Colors
  <2>2. \A o \in Objects : /\ Recolored(barrier, "white")[o].seen = node[o].seen
                           /\ Recolored(barrier, "white")[o].unseen = node[o].unseen
    BY <1>1, <2>1, Recoloring
  <2> QED
    BY <1>2, <2>2
<1>4. RootNodes' \subseteq live'
  BY <1>2 DEF RootNodes
<1>5. live \subseteq Objects
  BY <1>1, TypeFacts
<1> QED
  BY <1>1, <1>2, <1>3, <1>4, <1>5 DEF HeapOK

\* The program's steps.
LEMMA ProgramStep ==
  ASSUME CarefulInv, Hypothesis, Program
  PROVE  HeapOK'
<1>1. ASSUME NEW kind \in Kinds, NEW seen \in FieldSets,
             NEW unseen \in IF kind = "partial" THEN FieldSets ELSE {{}}, Alloc(kind, seen, unseen)
      PROVE  HeapOK'
  <2>1. unseen = {}
    BY DEF Hypothesis
  <2> QED
    BY <1>1, <2>1, AllocStep
<1>2. ASSUME NEW o \in held, Load(o) \/ SetMsgDispatcher(o) \/ \E seen \in FieldSets : Store(o, seen)
      PROVE  HeapOK'
  BY <1>2, AccessStep
<1>3. ASSUME NEW r, SwitchContinuation(r), held' \subseteq held,
             \/ \E c, v \in held : r = [roots EXCEPT !.code = v, !.cont = c]
             \/ \E c \in held : r = [roots EXCEPT !.cont = c]
             \/ r = [roots EXCEPT !.cont = None]
      PROVE  HeapOK'
  <2>1. /\ TypeOK /\ held \subseteq live
        /\ ({roots.code, roots.cont} \cup roots.dispatchers) \ {None} \subseteq live
    BY DEF CarefulInv, CodeInv, HeapOK, RootNodes
  <2>2. /\ r.dispatchers = roots.dispatchers
        /\ r.code \in held \cup {roots.code} /\ r.cont \in held \cup {roots.cont, None}
    BY <1>3, <2>1 DEF TypeOK
  <2>3. ({r.code, r.cont} \cup r.dispatchers) \ {None} \subseteq live
    BY <2>1, <2>2
  <2> QED
    BY <1>3, <2>3, SwitchStep
<1>4. ASSUME NEW c \in held, NEW v \in held, Start(v, c) \/ Run(c, v)
      PROVE  HeapOK'
  <2>1. CASE Start(v, c)
    BY <1>3, <2>1 DEF Start
  <2>2. CASE Run(c, v)
    BY <1>3, <2>2 DEF Run
  <2> QED
    BY <1>4, <2>1, <2>2
<1>5. ASSUME NEW v \in held, Finish(v)
      PROVE  HeapOK'
  BY <1>3, <1>5 DEF Finish
<1> QED
  BY <1>1, <1>2, <1>4, <1>5 DEF Program

\* Marking changes neither fields nor roots.
LEMMA MarkStep ==
  ASSUME CarefulInv, NEW o \in queue, MarkNode(o)
  PROVE  HeapOK' /\ HeldOK'
<1>1. TypeOK /\ HeapOK /\ HeldOK /\ {o} \in SUBSET Objects /\ live \subseteq Objects
  BY TypeFacts DEF CarefulInv, CodeInv
<1>2. UNCHANGED <<live, roots, barrier, phase, held>> /\ node' = Recolored({o}, "black")
  BY DEF MarkNode
<1>3. \A x \in Objects : node'[x].seen = node[x].seen /\ node'[x].unseen = node[x].unseen
  <2>1. "black" \in Colors
    BY DEF Colors
  <2>2. \A x \in Objects : /\ Recolored({o}, "black")[x].seen = node[x].seen
                           /\ Recolored({o}, "black")[x].unseen = node[x].unseen
    BY <1>1, <2>1, Recoloring
  <2> QED
    BY <1>2, <2>2
<1>4. RootNodes' = RootNodes /\ Led' = Led
  BY <1>2, <1>3, LedSame DEF RootNodes
<1> QED
  BY <1>1, <1>2, <1>3, <1>4 DEF HeapOK, HeldOK

\* What is left by a sweep leads to no more than that.
LEMMA SweepStep ==
  ASSUME CarefulInv, SweepPhase
  PROVE  HeapOK'
<1>1. /\ TypeOK /\ HeapOK /\ held \subseteq Led /\ live' = Led
      /\ RootNodes \subseteq Led /\ Led \subseteq Objects
      /\ \A o \in Led : node[o].seen \subseteq Led
  BY CodeSweeps, LedLeast DEF CarefulInv, CodeInv, HeldOK
<1> DEFINE dead == {o \in recorded \ barrier : node[o].color = "white"}
<1>2. /\ UNCHANGED <<roots, barrier, held>> /\ live' = live \ dead
      /\ node' = [o \in Objects |->
                    IF o \in dead THEN Blank
                    ELSE IF o \in recorded THEN [node[o] EXCEPT !.color = "white"]
                    ELSE IF o \in barrier THEN [node[o] EXCEPT !.color = "gray"] ELSE node[o]]
  BY DEF SweepPhase
<1> HIDE DEF dead
<1>3. ASSUME NEW o \in Objects, NEW c
      PROVE  [node[o] EXCEPT !.color = c].seen = node[o].seen
             /\ [node[o] EXCEPT !.color = c].unseen = {}
  <2>1. node[o] \in Nodes /\ node[o].unseen = {}
    BY <1>1 DEF TypeOK, Nodes, HeapOK
  <2> QED
    BY <2>1 DEF Nodes
<1>4. \A o \in Objects : node'[o].unseen = {}
  <2>1. Blank.unseen = {} /\ \A o \in Objects : node[o].unseen = {}
    BY <1>1 DEF Blank, HeapOK
  <2> QED
    BY <1>2, <1>3, <2>1
<1>5. \A o \in live' : node'[o].seen = node[o].seen
  <2>1. \A o \in live' : o \in Objects /\ o \notin dead
    BY <1>1, <1>2
  <2> QED
    BY <1>2, <1>3, <2>1
<1>6. RootNodes' = RootNodes
  BY <1>2 DEF RootNodes
<1> QED
  BY <1>1, <1>2, <1>4, <1>5, <1>6 DEF HeapOK

\* The invariant holds before the first step,
LEMMA CarefulInit == Init => CarefulInv
<1> SUFFICES ASSUME Init PROVE CarefulInv
  OBVIOUS
<1>1. HeapOK /\ HeldOK
  BY DEF Init, HeapOK, HeldOK, Blank, RootNodes
<1> QED
  BY <1>1, CodeInit DEF CarefulInv

\* and every step preserves it.
LEMMA CarefulStep ==
  ASSUME CarefulInv, Hypothesis, [Next]_vars
  PROVE  CarefulInv'
<1>1. CodeInv /\ CodeInv'
  BY CodeNext DEF CarefulInv
<1>2. CASE Program
  BY <1>1, <1>2, ProgramStep, CodeProgram DEF CarefulInv, HeldOK
<1>3. CASE EnterGcSafepoint
  <2>1. UNCHANGED <<node, live, roots, barrier, held>> /\ held \subseteq Reachable
    BY <1>3 DEF EnterGcSafepoint, Hypothesis
  <2>2. Reachable = Led
    BY ReachableIsLed DEF CarefulInv, HeapOK
  <2>3. RootNodes' = RootNodes /\ Led' = Led
    BY <2>1, LedSame DEF RootNodes
  <2> QED
    BY <1>1, <2>1, <2>2, <2>3 DEF CarefulInv, HeapOK, HeldOK
<1>4. CASE \E o \in queue : MarkNode(o)
  BY <1>1, <1>4, MarkStep DEF CarefulInv
<1>5. CASE SweepPhase
  BY <1>1, <1>5, SweepStep, CodeSweeps DEF CarefulInv, HeldOK
<1>6. CASE UNCHANGED vars
  <2>1. UNCHANGED <<node, live, roots, barrier, phase, held>>
    BY <1>6 DEF vars
  <2>2. RootNodes' = RootNodes /\ Led' = Led
    BY <2>1, LedSame DEF RootNodes
  <2> QED
    BY <1>1, <2>1, <2>2 DEF CarefulInv, HeapOK, HeldOK
<1> QED
  BY <1>2, <1>3, <1>4, <1>5, <1>6 DEF Next, Collection

\* and so always.
LEMMA CarefulInvariance ==
  ASSUME Hypothesis
  PROVE  Spec => []CarefulInv
<1>1. Init => CarefulInv
  BY CarefulInit
<1>2. CarefulInv /\ [Next]_vars => CarefulInv'
  BY CarefulStep
<1> QED
  BY <1>1, <1>2, PTL DEF Spec

-----------------------------------------------------------------------------
(***************************************************************************)
(* The theorems.  Five of the collector as it is.                          *)
(***************************************************************************)
\* Fields, roots, barrier, segments and queue only ever name objects, and colors
\* and phases are those the code has, through every collection.
THEOREM TypeCorrect == Spec => []TypeOK
<1>1. CodeInv => TypeOK
  BY DEF CodeInv
<1> QED
  BY <1>1, CodeInvariance, PTL

\* The barrier and the segments together know every node, and its color says
\* in which of them it is.
THEOREM NodesRecorded == Spec => []EachNodeRecorded
<1>1. CodeInv => EachNodeRecorded
  BY DEF CodeInv, EachNodeRecorded, ListsOK, ColorsOK
<1> QED
  BY <1>1, CodeInvariance, PTL

\* The order in which marking takes the queue does not matter.
THEOREM MarkingSound == Spec => []BlackLeadsToBlack
<1>1. CodeInv => BlackLeadsToBlack
  BY TypeFacts DEF CodeInv, BlackLeadsToBlack, MarkedOK, Black
<1> QED
  BY <1>1, CodeInvariance, PTL

\* A collection that comes to its end leaves in memory exactly what marking comes
\* to from the roots, and nothing else destroys a node.
THEOREM UnmarkedSwept == Spec => SweepsUnmarked
<1>1. CodeInv /\ [Next]_vars =>
        [IF phase = "mark" /\ phase' = "program" THEN live' = Led ELSE live \subseteq live']_vars
  BY CodeNext
<1> QED
  BY <1>1, CodeInvariance, PTL DEF Spec, SweepsUnmarked

\* A collection marks no more often than MarkingsLeft says where it begins,
\* whatever circles there are in the heap: with the fairness of Spec it ends.
THEOREM CollectionBounded == Spec => MarkingDwindles
<1>1. CodeInv /\ [Next]_vars =>
        [phase = "mark" /\ phase' = "mark" =>
           MarkingsLeft \in Nat /\ MarkingsLeft' \in Nat /\ MarkingsLeft' < MarkingsLeft]_vars
  BY CodeNext
<1> QED
  BY <1>1, CodeInvariance, PTL DEF Spec, MarkingDwindles

(***************************************************************************)
(* And two of the careful one.                                             *)
(***************************************************************************)
\* Nothing that a root leads to, and nothing that is held, is ever destroyed,
\* whatever the heap, the limits and the order of marking.
THEOREM NothingLost ==
  ASSUME Hypothesis
  PROVE  Spec => []RootsAlive
<1>1. CarefulInv => RootsAlive
  BY LedAlive, ReachableIsLed DEF CarefulInv, CodeInv, RootsAlive, HeapOK
<1> QED
  BY <1>1, CarefulInvariance, PTL

\* A collection leaves exactly what a root leads to.
THEOREM GarbageCollected ==
  ASSUME Hypothesis
  PROVE  Spec => CollectsGarbage
<1>1. CarefulInv /\ [Next]_vars =>
        [IF phase = "mark" /\ phase' = "program" THEN live' = Reachable ELSE live \subseteq live']_vars
  BY CodeNext, ReachableIsLed DEF CarefulInv, HeapOK
<1> QED
  BY <1>1, CarefulInvariance, PTL DEF Spec, CollectsGarbage
===============================================================================

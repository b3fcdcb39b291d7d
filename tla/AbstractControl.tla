--------------------------- MODULE AbstractControl ---------------------------
(***************************************************************************)
(* What the evaluator promises of control.  Activation frames are a tree   *)
(* that only grows, and what is being done is done within one of them,     *)
(* which gets its value.  Control is a stack of them: it goes on within    *)
(* the same frame, within one made there, or within the one below after a  *)
(* value.  Only the invocation of a captured continuation is a jump, and   *)
(* that does nothing else.                                                 *)
(***************************************************************************)
EXTENDS Naturals, Sequences

VARIABLES
  frames,   \* the frames made so far, each with `cont', the one below it
  within,   \* the frame that gets the value of what is being done, 0 if none does
  target,   \* the frame whose captured continuation is being invoked, 0 if none
  status    \* "running", "landed" with a value, or "stopped" by a fault or an exit

control == <<frames, within, target, status>>

Made == Len(frames) + 1 .. Len(frames')

\* No frame changes, and new ones are above the one control is within.
Grow ==
  /\ Len(frames) <= Len(frames')
  /\ \A i \in DOMAIN frames : frames'[i] = frames[i]
  /\ \A i \in Made : frames'[i].cont \in {within} \cup (Len(frames) + 1 .. i - 1)

GoOn ==
  /\ target = 0 /\ within # 0
  /\ Grow
  /\ within' \in {within, frames[within].cont} \cup Made
  /\ target' \in {0} \cup DOMAIN frames'
  /\ UNCHANGED status

\* Within what the continuation was captured in, as it was then.
Jump ==
  /\ target # 0
  /\ within' = frames[target].cont
  /\ target' \in {0} \cup DOMAIN frames
  /\ UNCHANGED <<frames, status>>

\* The first frame has got its value.
Land ==
  /\ target = 0 /\ within = 0
  /\ status' = "landed"
  /\ UNCHANGED <<frames, within, target>>

Stop ==
  /\ target = 0 /\ within # 0
  /\ Grow
  /\ within' = 0 /\ target' = 0 /\ status' = "stopped"

Init ==
  /\ Len(frames) \in {1, 2}
  /\ \A i \in DOMAIN frames : frames[i].cont = i - 1
  /\ within = IF Len(frames) = 1 THEN 0 ELSE 2
  /\ target \in {0} \cup DOMAIN frames
  /\ status = "running"

Next == status = "running" /\ (GoOn \/ Jump \/ Land \/ Stop)

Spec == Init /\ [][Next]_control
=============================================================================

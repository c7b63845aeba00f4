-------------------------- MODULE CommitteeRounds --------------------------
(***************************************************************************)
(* What the frustum consensus promises its reader: heights are closed one  *)
(* after another, each by the answers of a quorum of distinct committee    *)
(* members given for that height while it was open or after it.            *)
(***************************************************************************)
EXTENDS Integers

CONSTANTS
  Committee,      \* the members whose answers count
  Quorums,        \* the sets of members whose answers close a height
  LastHeight

VARIABLES
  height,         \* the height that is open; 0 before the start
  answers,        \* who has answered, for each height
  done            \* the last height is closed

vars == <<height, answers, done>>

Init ==
  /\ height = 0
  /\ answers = [h \in 1..LastHeight |-> {}]
  /\ done = FALSE

Start ==
  /\ height = 0
  /\ height' = 1
  /\ UNCHANGED <<answers, done>>

\* A member answers once for a height, never for one that was not opened yet.
Answer(n, h) ==
  /\ h <= height
  /\ n \notin answers[h]
  /\ answers' = [answers EXCEPT ![h] = @ \cup {n}]
  /\ UNCHANGED <<height, done>>

\* A quorum closes the open height; after the last there is none to open.
Close ==
  /\ height > 0
  /\ ~done
  /\ answers[height] \in Quorums
  /\ IF height = LastHeight THEN done' = TRUE /\ UNCHANGED height
                            ELSE height' = height + 1 /\ UNCHANGED done
  /\ UNCHANGED answers

Next ==
  \/ Start
  \/ \E n \in Committee, h \in 1..LastHeight : Answer(n, h)
  \/ Close

Spec == Init /\ [][Next]_vars
=============================================================================

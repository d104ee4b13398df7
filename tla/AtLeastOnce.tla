----------------------------- MODULE AtLeastOnce -----------------------------
(***************************************************************************)
(* What the transactional outbox promises about its events: every event    *)
(* that was committed is settled, either done, after some worker handled   *)
(* it to the end, or dead, and what is settled stays settled.              *)
(***************************************************************************)
CONSTANT Events

VARIABLES
  job,          \* "ABSENT", "WAITING", "DONE" or "DEAD"
  handled       \* whether some worker handled the event without an error

vars == <<job, handled>>

Init ==
  /\ job = [e \in Events |-> "ABSENT"]
  /\ handled = [e \in Events |-> FALSE]

Submit(e) ==
  /\ job[e] = "ABSENT"
  /\ job' = [job EXCEPT ![e] = "WAITING"]
  /\ UNCHANGED handled

Handle(e) ==
  /\ job[e] = "WAITING"
  /\ handled' = [handled EXCEPT ![e] = TRUE]
  /\ UNCHANGED job

Finish(e) ==
  /\ job[e] = "WAITING"
  /\ handled[e]
  /\ job' = [job EXCEPT ![e] = "DONE"]
  /\ UNCHANGED handled

GiveUp(e) ==
  /\ job[e] = "WAITING"
  /\ job' = [job EXCEPT ![e] = "DEAD"]
  /\ UNCHANGED handled

Next == \E e \in Events : Submit(e) \/ Handle(e) \/ Finish(e) \/ GiveUp(e)

(* Every event that waits is settled in the end.                           *)
Settles == \A e \in Events : job[e] = "WAITING" ~> job[e] \in {"DONE", "DEAD"}

Spec == Init /\ [][Next]_vars /\ Settles

=============================================================================

------------------------------- MODULE Shifts -------------------------------
(***************************************************************************)
(* Fixed shifts: the handlers of couriers and managers, the worker's        *)
(* maintenance and the clock, over the same rows.                           *)
(***************************************************************************)
EXTENDS ShiftPositions, ShiftChanges

Init == ShiftInit

\* Time goes on for s and the slots of its time.  A bound: it waits for them
\* to be planned, and slots that share time begin and end together.
ClockTicks(s) ==
  LET S == {s} \cup {t \in Slots : <<s, t>> \in Overlaps}
  IN  /\ \A t \in S : slot[t].status \notin {"NONE", "PLANNED"} /\ slot[t].phase < Ended
      /\ slot' = [t \in Slots |-> IF t \in S THEN [slot[t] EXCEPT !.phase = @ + 1] ELSE slot[t]]
      /\ UNCHANGED <<pos, apps, conf, req, search, cand>>

\* closes_at of the current wave passes; nothing is written until the next tick
\* of the worker.
WaveRunsOut(p) ==
  /\ search[p].wave = "RUNNING"
  /\ search' = [search EXCEPT ![p].wave = "OVER"]
  /\ UNCHANGED <<pos, slot, apps, conf, req, cand>>

Managers ==
  \/ \E s \in Slots, h \in [Positions \ Quiet -> Regulars \cup {None}] :
       createShiftSlot(s, h) \/ createShiftTemplate(s, h)
  \/ \E s \in Slots : generateShiftTemplate(s)
  \/ \E p \in Positions, c \in Couriers : approveShiftApplication(c, p)
  \/ \E p \in Positions \ Quiet :
       \/ \E c \in Couriers : transferShiftPosition(p, c)
       \/ cancelShiftPosition(p)
       \/ \E r \in Somebody : approveShiftChange(p, r)
       \/ rejectShiftChange(p)
       \/ \E C \in SUBSET Couriers : startEmergencySearch(p, C)

CourierActs ==
  \/ \E c \in Couriers, p \in Positions :
       acceptShiftPosition(c, p) \/ checkinShiftPosition(c, p) \/ checkoutShiftPosition(c, p)
  \/ \E c \in Couriers, p \in Positions \ Quiet :
       \/ confirmShift(c, p) \/ declineShift(c, p)
       \/ \E suggested \in Somebody : requestShiftWithdrawal(c, p, suggested)

Advance(p) == \E C \in SUBSET Couriers : advanceEmergencySearches(p, C)

WorkerActs ==
  \/ \E S \in SUBSET (Positions \ Quiet) : releaseMissedCheckins(S) \/ createDueShiftConfirmations(S)
  \/ \E p \in Positions \ Quiet : Advance(p)
  \/ \E S \in SUBSET Occurrences : materializeActiveShiftTemplates(S)

Next == Managers \/ CourierActs \/ WorkerActs \/ (\E s \in Slots : ClockTicks(s))
        \/ \E p \in Positions : WaveRunsOut(p)

\* The worker runs each job at every tick (src/src/workers/notification-worker.ts)
\* and every wave runs out in the end.  People owe nothing.
Fairness == \A p \in Positions \ Quiet : WF_shiftVars(Advance(p)) /\ WF_shiftVars(WaveRunsOut(p))

Spec == Init /\ [][Next]_shiftVars /\ Fairness
-----------------------------------------------------------------------------
TypeOK == ShiftTypeOK

(***************************************************************************)
(* No courier is booked in two slots that share time, whichever of accept,  *)
(* approval, replacement and transfer put him in each: every one of them    *)
(* looks again under the courier's lock.  Two places of one slot are not    *)
(* covered: accept and approval do not compare them.                        *)
(***************************************************************************)
NoDoubleBooking ==
  \A p, q \in Positions :
    Occupied(p) /\ Occupied(q) /\ SameTime(p, q) => pos[p].assigned # pos[q].assigned

(***************************************************************************)
(* A courier at work keeps the shift until the check-out after its end;     *)
(* transfer, cancellation and the release of missed check-ins cannot take   *)
(* it.  The one way round is a change request of before the check-in: it    *)
(* can still be approved, and none can be made while the courier works.     *)
(***************************************************************************)
AtWork(p) == pos[p].status = "ACTIVE"

ActiveShiftGoesOn ==
  [][\A p \in Positions : AtWork(p) /\ ~Pending(p) =>
       /\ ~Pending(p)'
       /\ pos'[p] # pos[p] => /\ pos'[p] = [pos[p] EXCEPT !.status = "COMPLETED"]
                              /\ PhaseOf(p) = Ended]_shiftVars

(***************************************************************************)
(* A place that is shown with the action ACCEPT can be taken, unless the    *)
(* time of its check-in is over, its wave ran out a moment ago or the       *)
(* courier works elsewhere: the filter of the list and the rule of the      *)
(* handler agree at every moment of a search and of what managers do        *)
(* meanwhile.  Only who applied before sees a place that is searched for    *)
(* without him.                                                             *)
(***************************************************************************)
ShownPlaceCanBeTaken ==
  \A c \in Couriers, p \in Positions :
    /\ Listed(c, p) /\ nextAction(c, p) = "ACCEPT"
    /\ PhaseOf(p) < Late /\ search[p].wave # "OVER" /\ ~hasOverlap(c, p) /\ apps[p][c] = "NONE"
    => MayTake(p, c)

(***************************************************************************)
(* An emergency search always ends, filled, cancelled or exhausted, also    *)
(* when the place is filled behind its back by a manager's replacement: the *)
(* worker notices, and the radius stops growing.                            *)
(***************************************************************************)
SearchEnds ==
  \A p \in Positions : search[p].status = "SEARCHING" ~> search[p].status # "SEARCHING"
=============================================================================

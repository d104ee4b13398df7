--------------------------- MODULE ShiftPositions ---------------------------
(***************************************************************************)
(* src/src/modules/shifts/shift.service.ts and shift-template.service.ts:   *)
(* the life of a position from its creation to the check-out.  A handler    *)
(* holds the row of the position and, before it books a courier, the        *)
(* advisory lock of that courier, so each is one step.                      *)
(***************************************************************************)
EXTENDS ShiftRecords

PlacesOf(S) == {p \in Positions : SlotOf[p] \in S}

\* A courier holds one place of a slot, or of a template, at most.
OneEach(s, h) == \A p, q \in PlacesOf({s}) \cap DOMAIN h : h[p] = h[q] /\ h[p] # None => p = q

\* The rows of the slots S: each of their positions is reserved to the holder h names
\* or, without one, open to everybody.
CreateRows(S, h) ==
  LET Holder(p) == IF p \in DOMAIN h THEN h[p] ELSE None
  IN  /\ slot' = [s \in Slots |-> IF s \in S THEN [slot[s] EXCEPT !.status = "SCHEDULED"] ELSE slot[s]]
      /\ pos' = [p \in Positions |->
           IF p \in PlacesOf(S)
           THEN [holder |-> Holder(p), assigned |-> None,
                 status |-> IF Holder(p) = None THEN "AVAILABLE" ELSE "RESERVED"]
           ELSE pos[p]]
      /\ UNCHANGED <<apps, conf, req, search, cand>>

createShiftSlot(s, h) ==
  /\ s \notin Occurrences /\ slot[s].status = "NONE"
  /\ OneEach(s, h) /\ CreateRows({s}, h)

\* The template of s comes into being; s itself too, unless it is beyond the horizon.
createShiftTemplate(s, h) ==
  /\ s \in Occurrences /\ slot[s].status = "NONE" /\ OneEach(s, h)
  /\ \/ CreateRows({s}, h)
     \/ /\ slot' = [slot EXCEPT ![s].status = "PLANNED"]
        /\ pos' = [p \in Positions |-> IF p \in PlacesOf({s}) \cap DOMAIN h THEN [pos[p] EXCEPT !.holder = h[p]] ELSE pos[p]]
        /\ UNCHANGED <<apps, conf, req, search, cand>>

\* An occurrence that exists is left alone.
materializeTemplate(S) ==
  /\ S # {} /\ \A s \in S : slot[s].status = "PLANNED"
  /\ CreateRows(S, [p \in PlacesOf(S) |-> pos[p].holder])

generateShiftTemplate(s) == materializeTemplate({s})

\* The worker, for the stores that take new work and what its horizon has reached.
materializeActiveShiftTemplates(S) == materializeTemplate(S)

closeSearchWithWinner(p) ==
  IF search[p].status = "SEARCHING"
  THEN /\ search' = [search EXCEPT ![p].status = "FILLED", ![p].wave = "NONE"]
       /\ cand' = [cand EXCEPT ![p] = Told(p)]
  ELSE UNCHANGED <<search, cand>>

Fill(p, c) ==
  /\ pos' = [pos EXCEPT ![p].assigned = c, ![p].status = "FILLED"]
  /\ apps' = [apps EXCEPT ![p] = [Closed(p) EXCEPT ![c] = "CLOSED"]]
  /\ closeSearchWithWinner(p)

\* During a search only a candidate of the wave that is open may accept.
SearchAdmits(p, c) ==
  search[p].status = "SEARCHING" => cand[p][c] \in {"NOTIFIED", "ACCEPTED"} /\ search[p].wave = "RUNNING"

MayTake(p, c) ==
  /\ pos[p].status \in {"AVAILABLE", "RESERVED"} /\ PhaseOf(p) < Late
  /\ pos[p].status = "RESERVED" => pos[p].holder = c
  /\ SearchAdmits(p, c)
  /\ ~hasOverlap(c, p)

acceptShiftPosition(c, p) ==
  /\ apps[p][c] # "PENDING" /\ MayTake(p, c)
  /\ IF pos[p].status = "RESERVED" \/ SlotOf[p] \in AutoApproved
     THEN Fill(p, c)
     ELSE /\ apps' = [apps EXCEPT ![p][c] = "PENDING"]
          /\ cand' = IF search[p].status = "SEARCHING"
                     THEN [cand EXCEPT ![p][c] = "ACCEPTED"] ELSE cand
          /\ UNCHANGED <<pos, search>>
  /\ UNCHANGED <<slot, conf, req>>

\* Mutant: approval trusts the check that was made when the courier applied.
approveUnseen(c, p) ==
  /\ apps[p][c] = "PENDING" /\ pos[p].status = "AVAILABLE"
  /\ Fill(p, c)
  /\ UNCHANGED <<slot, conf, req>>

approveShiftApplication(c, p) ==
  /\ apps[p][c] = "PENDING" /\ pos[p].status = "AVAILABLE"
  /\ ~hasOverlap(c, p)
  /\ Fill(p, c)
  /\ UNCHANGED <<slot, conf, req>>

checkinShiftPosition(c, p) ==
  /\ pos[p].assigned = c /\ pos[p].status = "FILLED"
  /\ PhaseOf(p) \in {Open, Started}
  /\ ~\E q \in Positions : pos[q].assigned = c /\ pos[q].status = "ACTIVE"
  /\ pos' = [pos EXCEPT ![p].status = "ACTIVE"]
  /\ conf' = [conf EXCEPT ![p][c] = Expired(p, c)]
  /\ slot' = [slot EXCEPT ![SlotOf[p]].status = IF @ = "SCHEDULED" THEN "ACTIVE" ELSE @]
  /\ UNCHANGED <<apps, req, search, cand>>

\* Refused while the courier has an active delivery, which is not modelled here.
checkoutShiftPosition(c, p) ==
  /\ pos[p].assigned = c /\ pos[p].status = "ACTIVE" /\ PhaseOf(p) = Ended
  /\ pos' = [pos EXCEPT ![p].status = "COMPLETED"]
  /\ slot' = IF \A q \in Positions : SlotOf[q] = SlotOf[p]
                  => pos'[q].status \in {"NONE", "COMPLETED", "CANCELLED"}
             THEN [slot EXCEPT ![SlotOf[p]].status = "COMPLETED"] ELSE slot
  /\ UNCHANGED <<apps, conf, req, search, cand>>

Missed == {p \in Positions : pos[p].status \in {"FILLED", "RESERVED"} /\ PhaseOf(p) = Late}

\* The worker reopens the missed places that no other handler has locked.
releaseMissedCheckins(S) ==
  /\ S # {} /\ S \subseteq Missed
  /\ pos' = [p \in Positions |->
       IF p \in S THEN [pos[p] EXCEPT !.status = "AVAILABLE", !.assigned = None] ELSE pos[p]]
  /\ search' = [p \in Positions |-> IF p \in S THEN WithSearch(p) ELSE search[p]]
  /\ UNCHANGED <<slot, apps, conf, req, cand>>

-----------------------------------------------------------------------------
\* Mutant: open places are shown to everybody, the called candidates or not.
ListedToAll(c, p) ==
  c \in {pos[p].assigned, pos[p].holder} \/ apps[p][c] # "NONE" \/ pos[p].status = "AVAILABLE"

\* What the courier's application shows: the places of listShiftPositions and
\* the next action of each (withNextAction).
Listed(c, p) ==
  \/ c \in {pos[p].assigned, pos[p].holder} \/ apps[p][c] # "NONE"
  \/ /\ pos[p].status = "AVAILABLE"
     /\ search[p].status = "SEARCHING" => cand[p][c] \in {"NOTIFIED", "ACCEPTED"}

nextAction(c, p) ==
  LET own == pos[p].assigned = c
  IN  CASE own /\ pos[p].status = "ACTIVE" -> "CHECK_OUT"
        [] own /\ pos[p].status # "ACTIVE" /\ Pending(p) -> "AWAIT_APPROVAL"
        [] own /\ pos[p].status = "FILLED" /\ ~Pending(p) ->
             IF conf[p][c] = "PENDING" THEN "CONFIRM" ELSE "CHECK_IN"
        [] ~own /\ apps[p][c] = "PENDING" -> "AWAIT_APPROVAL"
        [] ~own /\ apps[p][c] # "PENDING" /\ pos[p].status = "AVAILABLE" -> "ACCEPT"
        [] ~own /\ apps[p][c] # "PENDING" /\ pos[p].status = "RESERVED" /\ pos[p].holder = c -> "ACCEPT"
        [] OTHER -> "NONE"
=============================================================================

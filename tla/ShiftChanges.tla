---------------------------- MODULE ShiftChanges ----------------------------
(***************************************************************************)
(* src/src/modules/shifts/shift-change.service.ts: presence confirmations,  *)
(* requests to leave a shift, transfers and cancellations.                  *)
(***************************************************************************)
EXTENDS ShiftRecords

requestShiftWithdrawal(c, p, suggested) ==
  /\ pos[p].status \in {"RESERVED", "FILLED"}
  /\ c \in {pos[p].assigned, pos[p].holder}
  /\ suggested # c
  /\ suggested # None => ~Engaged(suggested, p)
  /\ ~Pending(p)
  /\ req' = [req EXCEPT ![p] = suggested]
  /\ UNCHANGED <<pos, slot, apps, conf, search, cand>>

createDueShiftConfirmations(S) ==
  /\ S # {}
  /\ \A p \in S : /\ pos[p].status = "FILLED" /\ PhaseOf(p) < Started
                  /\ conf[p][pos[p].assigned] = "NONE"
  /\ conf' = [p \in Positions |->
       IF p \in S THEN [conf[p] EXCEPT ![pos[p].assigned] = "PENDING"] ELSE conf[p]]
  /\ UNCHANGED <<pos, slot, apps, req, search, cand>>

AsksForAnswer(c, p) ==
  pos[p].assigned = c /\ pos[p].status = "FILLED" /\ conf[p][c] = "PENDING"

confirmShift(c, p) ==
  /\ AsksForAnswer(c, p)
  /\ conf' = [conf EXCEPT ![p][c] = "ANSWERED"]
  /\ UNCHANGED <<pos, slot, apps, req, search, cand>>

\* The place stays with the courier until a manager resolves the request.
declineShift(c, p) ==
  /\ AsksForAnswer(c, p)
  /\ conf' = [conf EXCEPT ![p][c] = "ANSWERED"]
  /\ req' = IF Pending(p) THEN req ELSE [req EXCEPT ![p] = None]
  /\ UNCHANGED <<pos, slot, apps, search, cand>>

rejectShiftChange(p) ==
  /\ Pending(p)
  /\ req' = [req EXCEPT ![p] = NoRequest]
  /\ UNCHANGED <<pos, slot, apps, conf, search, cand>>

\* The place passes to r, who is asked to confirm; nobody else is asked any more.
Replace(p, r) ==
  /\ ~Engaged(r, p)
  /\ pos' = [pos EXCEPT ![p].assigned = r, ![p].holder = None, ![p].status = "FILLED"]
  /\ conf' = [conf EXCEPT ![p] = [c \in Couriers |-> IF c = r THEN "PENDING" ELSE Expired(p, c)]]

releaseForCoverage(p) ==
  /\ pos' = [pos EXCEPT ![p].assigned = None, ![p].holder = None, ![p].status = "AVAILABLE"]
  /\ conf' = [conf EXCEPT ![p] = [c \in Couriers |-> Expired(p, c)]]
  /\ search' = [search EXCEPT ![p] = WithSearch(p)]

\* The manager's choice r goes before the courier the request suggests.  The
\* status of the position and who holds it now are not looked at.
approveShiftChange(p, r) ==
  /\ Pending(p)
  /\ LET replacement == IF r # None THEN r ELSE req[p]
     IN  IF replacement # None
         THEN Replace(p, replacement) /\ UNCHANGED search
         ELSE releaseForCoverage(p)
  /\ req' = [req EXCEPT ![p] = NoRequest]
  /\ UNCHANGED <<slot, apps, cand>>

\* Mutant: a shift may be transferred while its courier works.
TransferableAtWork == {"AVAILABLE", "RESERVED", "FILLED", "ACTIVE"}
Transferable == {"AVAILABLE", "RESERVED", "FILLED"}

\* Requests and applications that wait for an answer are left as they are.
transferShiftPosition(p, r) ==
  /\ pos[p].status \in Transferable /\ pos[p].assigned # r
  /\ Replace(p, r)
  /\ search' = [search EXCEPT ![p].status = IF @ = "SEARCHING" THEN "FILLED" ELSE @,
                              ![p].wave = "NONE"]
  /\ cand' = [cand EXCEPT ![p] = Told(p)]
  /\ UNCHANGED <<slot, apps, req>>

cancelShiftPosition(p) ==
  /\ pos[p].status \in {"RESERVED", "AVAILABLE", "FILLED"}
  /\ pos' = [pos EXCEPT ![p].status = "CANCELLED"]
  /\ apps' = [apps EXCEPT ![p] = Closed(p)]
  /\ req' = [req EXCEPT ![p] = NoRequest]
  /\ conf' = [conf EXCEPT ![p] = [c \in Couriers |-> Expired(p, c)]]
  /\ search' = [search EXCEPT ![p].status = IF @ = "SEARCHING" THEN "CANCELLED" ELSE @,
                              ![p].wave = "NONE"]
  /\ cand' = [cand EXCEPT ![p] = Told(p)]
  /\ UNCHANGED slot

----------------------------------------------------------------------------
(***************************************************************************)
(* src/src/modules/shifts/shift-search.service.ts: the emergency search of  *)
(* a vacant position, in waves of a growing radius.                         *)
(***************************************************************************)

\* Who the next wave of p may call: in reach, free at that time, never called
\* by this search.  Availability and preferences pick a subset of them.
Callable(p) ==
  {c \in Couriers : /\ Reach[c] <= search[p].number + 1
                    /\ ~Engaged(c, p) /\ cand[p][c] = "NONE"}

\* What openNextWave does to row = the search of p: a next wave, or none when
\* the slot has ended or the radius is the largest.
WaveRow(p, row) ==
  IF PhaseOf(p) = Ended \/ row.number >= Waves
  THEN [row EXCEPT !.status = "EXHAUSTED", !.wave = "NONE"]
  ELSE [row EXCEPT !.number = @ + 1, !.wave = "RUNNING"]

\* The candidates of the wave that ran out are past; the next one calls C.
WaveCandidates(p, row, C) ==
  [c \in Couriers |->
     IF c \in C /\ WaveRow(p, row).wave = "RUNNING" THEN "NOTIFIED"
     ELSE IF row.wave = "OVER" /\ cand[p][c] = "NOTIFIED" THEN "PAST" ELSE cand[p][c]]

openNextWave(p, row, C) ==
  /\ row.wave # "RUNNING" /\ C \subseteq Callable(p)
  /\ search' = [search EXCEPT ![p] = WaveRow(p, row)]
  /\ cand' = [cand EXCEPT ![p] = WaveCandidates(p, row, C)]

\* The manager starts a search, or presses on with the one the position has,
\* whatever its status.
startEmergencySearch(p, C) ==
  /\ pos[p].status = "AVAILABLE"
  /\ openNextWave(p, WithSearch(p), C)
  /\ UNCHANGED <<pos, slot, apps, conf, req>>

\* Mutant: the worker looks only at places that are still vacant.
advanceVacantOnly(p, C) ==
  /\ search[p].status = "SEARCHING" /\ pos[p].status = "AVAILABLE"
  /\ openNextWave(p, search[p], C)
  /\ UNCHANGED <<pos, slot, apps, conf, req>>

\* The worker takes a search that nobody has locked: it closes the search of a
\* place that was filled meanwhile, or moves to the next wave.
advanceEmergencySearches(p, C) ==
  /\ search[p].status = "SEARCHING"
  /\ IF pos[p].status = "AVAILABLE"
     THEN openNextWave(p, search[p], C)
     ELSE search' = [search EXCEPT ![p].status = "FILLED"] /\ UNCHANGED cand
  /\ UNCHANGED <<pos, slot, apps, conf, req>>
=============================================================================

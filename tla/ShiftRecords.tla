---------------------------- MODULE ShiftRecords ----------------------------
(***************************************************************************)
(* The rows of fixed shifts (src/migrations/0009, 0010, 0011): slots, their *)
(* positions, applications, presence confirmations, change requests and     *)
(* the emergency search of a position.  A position is created with its      *)
(* slot and never deleted.                                                  *)
(***************************************************************************)
EXTENDS Naturals, FiniteSets

CONSTANTS
  Couriers, Slots, Positions,
  None,          \* no courier
  SlotOf,        \* SlotOf[p]: the slot that position p is part of
  AutoApproved,  \* the slots whose substitutes need no approval
  Regulars,      \* the couriers a position may be reserved to
  Occurrences,   \* the slots that come from a recurring template
  Overlaps,      \* the pairs of different slots that share some time
  Reach,         \* Reach[c]: the first wave whose radius reaches courier c
  Waves,         \* the wave whose radius is the largest of the search
  Quiet          \* a bound: places that are only taken and worked

ASSUME ShiftConstants ==
  /\ None \notin Couriers
  /\ SlotOf \in [Positions -> Slots] /\ Occurrences \subseteq Slots /\ AutoApproved \subseteq Slots
  /\ Regulars \subseteq Couriers
  /\ Overlaps \subseteq Slots \X Slots
  /\ \A s, t \in Slots : <<s, t>> \in Overlaps => s # t /\ <<t, s>> \in Overlaps
  /\ Reach \in [Couriers -> Nat]
  /\ Waves \in Nat \ {0} /\ Quiet \subseteq Positions

VARIABLES
  pos,      \* pos[p]: status, holder and assigned courier
  slot,     \* slot[s]: status and how far time has gone; PLANNED when only its template exists
            \* (its places then have the template's holders)
  apps,     \* apps[p][c]: the application of c, CLOSED once it was answered
  conf,     \* conf[p][c]: was c asked to confirm; ANSWERED is any status but PENDING
  req,      \* req[p]: the suggested courier of the PENDING change request of p
  search,   \* search[p]: status, number of the current wave, and that wave: RUNNING,
            \* OVER (ACTIVE in the table, but past its time) or none
  cand      \* cand[p][c]: c as a candidate; PAST once the wave or the search is over

shiftVars == <<pos, slot, apps, conf, req, search, cand>>

(***************************************************************************)
(* Time as seen by one slot: ahead, the check-in open, started, past the    *)
(* check-in deadline, ended.  Slots that share time begin and end together. *)
(***************************************************************************)
Phase == 0..4
Ahead == 0   Open == 1   Started == 2   Late == 3   Ended == 4

PositionStatus == {"NONE", "RESERVED", "AVAILABLE", "FILLED", "ACTIVE", "COMPLETED", "CANCELLED"}
SlotStatus == {"NONE", "PLANNED", "SCHEDULED", "ACTIVE", "COMPLETED"}
SearchStatus == {"NONE", "SEARCHING", "FILLED", "EXHAUSTED", "CANCELLED"}
Somebody == Couriers \cup {None}
NoRequest == "NO_REQUEST"

PositionRow == [status : PositionStatus, holder : Somebody, assigned : Somebody]
SlotRow == [status : SlotStatus, phase : Phase]
SearchRow == [status : SearchStatus, number : 0..Waves, wave : {"NONE", "RUNNING", "OVER"}]

ShiftTypeOK ==
  /\ pos \in [Positions -> PositionRow]
  /\ slot \in [Slots -> SlotRow]
  /\ apps \in [Positions -> [Couriers -> {"NONE", "PENDING", "CLOSED"}]]
  /\ conf \in [Positions -> [Couriers -> {"NONE", "PENDING", "ANSWERED"}]]
  /\ req \in [Positions -> Somebody \cup {NoRequest}]
  /\ search \in [Positions -> SearchRow]
  /\ cand \in [Positions -> [Couriers -> {"NONE", "NOTIFIED", "ACCEPTED", "PAST"}]]

ShiftInit ==
  /\ pos = [p \in Positions |-> [status |-> "NONE", holder |-> None, assigned |-> None]]
  /\ slot = [s \in Slots |-> [status |-> "NONE", phase |-> Ahead]]
  /\ apps = [p \in Positions |-> [c \in Couriers |-> "NONE"]]
  /\ conf = [p \in Positions |-> [c \in Couriers |-> "NONE"]]
  /\ req = [p \in Positions |-> NoRequest]
  /\ search = [p \in Positions |-> [status |-> "NONE", number |-> 0, wave |-> "NONE"]]
  /\ cand = [p \in Positions |-> [c \in Couriers |-> "NONE"]]

PhaseOf(p) == slot[SlotOf[p]].phase
Pending(p) == req[p] # NoRequest
Occupied(p) == pos[p].status \in {"FILLED", "ACTIVE"}
SameTime(p, q) == <<SlotOf[p], SlotOf[q]>> \in Overlaps

\* hasOverlap: c works in another slot at the time of p; other positions of
\* the slot of p are not looked at.
hasOverlap(c, p) ==
  \E q \in Positions : Occupied(q) /\ pos[q].assigned = c /\ SameTime(p, q)

\* The check of a replacement and of a search: any position but p itself,
\* those of the same slot included.
Engaged(c, p) ==
  \E q \in Positions \ {p} :
    /\ Occupied(q) /\ pos[q].assigned = c
    /\ SlotOf[q] = SlotOf[p] \/ SameTime(p, q)

\* The search row is inserted once per position and never started again.
WithSearch(p) ==
  IF search[p].status = "NONE" THEN [search[p] EXCEPT !.status = "SEARCHING"] ELSE search[p]

\* The courier's PENDING confirmation is over.
Expired(p, c) == IF conf[p][c] = "PENDING" THEN "ANSWERED" ELSE conf[p][c]

\* The applications to p that wait for an answer get one.
Closed(p) == [c \in Couriers |-> IF apps[p][c] = "PENDING" THEN "CLOSED" ELSE apps[p][c]]

\* Every candidate of p was told how the search ended.
Told(p) == [c \in Couriers |-> IF cand[p][c] = "NONE" THEN "NONE" ELSE "PAST"]
=============================================================================

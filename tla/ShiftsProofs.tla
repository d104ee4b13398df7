---------------------------- MODULE ShiftsProofs ----------------------------
(***************************************************************************)
(* Safety of fixed shifts for any values of the constants.  What a single  *)
(* place may look like is PlaceTrue; that no courier is booked twice needs *)
(* only that whoever books him looks again, and that an occupied place has *)
(* a courier.                                                              *)
(***************************************************************************)
EXTENDS Shifts, TLAPS

PlaceTrue(p) ==
  /\ Occupied(p) => pos[p].assigned \in Couriers
  /\ slot[SlotOf[p]].status \in {"NONE", "PLANNED"} => pos[p].status = "NONE"
  /\ pos[p].status = "NONE" => ~Pending(p)
  /\ pos[p].status \in {"NONE", "RESERVED"} => search[p].status # "SEARCHING"
  /\ pos[p].status = "AVAILABLE" /\ pos[p].holder # None => PhaseOf(p) >= Late
  /\ search[p].status = "NONE" => \A c \in Couriers : cand[p][c] = "NONE"
  /\ search[p].status = "SEARCHING" /\ search[p].wave = "NONE" =>
       \A c \in Couriers : cand[p][c] \notin {"NOTIFIED", "ACCEPTED"}

IInv == TypeOK /\ (\A p \in Positions : PlaceTrue(p)) /\ NoDoubleBooking

(***************************************************************************)
(* Rows.                                                                   *)
(***************************************************************************)
LEMMA PositionRows ==
  ASSUME NEW row \in PositionRow, NEW s \in PositionStatus, NEW c \in Somebody, NEW h \in Somebody
  PROVE  /\ [row EXCEPT !.status = s] \in PositionRow
         /\ [row EXCEPT !.holder = h] \in PositionRow
         /\ [row EXCEPT !.status = s, !.assigned = c] \in PositionRow
         /\ [row EXCEPT !.assigned = c, !.status = s] \in PositionRow
         /\ [row EXCEPT !.assigned = c, !.holder = h, !.status = s] \in PositionRow
BY DEF PositionRow

LEMMA SearchRows ==
  ASSUME NEW row \in SearchRow, NEW s \in SearchStatus, NEW w \in {"NONE", "RUNNING", "OVER"}
  PROVE  /\ [row EXCEPT !.status = s] \in SearchRow
         /\ [row EXCEPT !.wave = w] \in SearchRow
         /\ [row EXCEPT !.status = s, !.wave = w] \in SearchRow
         /\ Waves \in Nat /\ ~(row.number >= Waves) => [row EXCEPT !.number = @ + 1, !.wave = w] \in SearchRow
<1>1. /\ [row EXCEPT !.status = s] \in SearchRow
      /\ [row EXCEPT !.wave = w] \in SearchRow
      /\ [row EXCEPT !.status = s, !.wave = w] \in SearchRow
  BY DEF SearchRow
<1>2. ASSUME Waves \in Nat, ~(row.number >= Waves)
      PROVE  [row EXCEPT !.number = @ + 1, !.wave = w] \in SearchRow
  <2>1. row.number \in 0..Waves
    BY DEF SearchRow
  <2>2. row.number + 1 \in 0..Waves
    BY <1>2, <2>1
  <2> QED
    BY <2>2 DEF SearchRow
<1> QED
  BY <1>1, <1>2

LEMMA SlotRows ==
  ASSUME NEW row \in SlotRow, NEW s \in SlotStatus
  PROVE  /\ [row EXCEPT !.status = s] \in SlotRow
         /\ [row EXCEPT !.status = s].phase = row.phase
         /\ [row EXCEPT !.status = s].status = s
BY DEF SlotRow

LEMMA Searched ==
  ASSUME TypeOK, NEW p \in Positions
  PROVE  /\ WithSearch(p) \in SearchRow
         /\ WithSearch(p).status # "NONE"
         /\ WithSearch(p).number = search[p].number /\ WithSearch(p).wave = search[p].wave
         /\ WithSearch(p).status = IF search[p].status = "NONE" THEN "SEARCHING" ELSE search[p].status
<1>1. search[p] \in SearchRow
  BY DEF TypeOK, ShiftTypeOK
<1> QED
  BY <1>1 DEF WithSearch, SearchRow, SearchStatus

LEMMA Answers ==
  ASSUME TypeOK, NEW p \in Positions
  PROVE  /\ Closed(p) \in [Couriers -> {"NONE", "PENDING", "CLOSED"}]
         /\ Told(p) \in [Couriers -> {"NONE", "NOTIFIED", "ACCEPTED", "PAST"}]
         /\ \A c \in Couriers : Told(p)[c] \in {"NONE", "PAST"} /\ (cand[p][c] = "NONE" => Told(p)[c] = "NONE")
         /\ \A c \in Couriers : Expired(p, c) \in {"NONE", "PENDING", "ANSWERED"}
BY DEF TypeOK, ShiftTypeOK, Closed, Told, Expired

(***************************************************************************)
(* Booking.  A step books nobody, or books one courier who was free.       *)
(***************************************************************************)
LEMMA NobodyBooked ==
  ASSUME NoDoubleBooking,
         \A q \in Positions : Occupied(q)' => Occupied(q) /\ pos'[q].assigned = pos[q].assigned
  PROVE  NoDoubleBooking'
BY DEF NoDoubleBooking, SameTime

LEMMA OneBooked ==
  ASSUME NoDoubleBooking, ShiftConstants, NEW p \in Positions, NEW c \in Couriers,
         \A q \in Positions : Occupied(q) /\ SameTime(p, q) => pos[q].assigned # c,
         pos'[p].assigned = c,
         \A q \in Positions : q # p => pos'[q] = pos[q]
  PROVE  NoDoubleBooking'
<1>1. \A q, r \in Positions : SameTime(q, r) => q # r /\ SameTime(r, q)
  BY DEF ShiftConstants, SameTime
<1>2. \A q \in Positions : q # p => (Occupied(q)' <=> Occupied(q))
  BY DEF Occupied
<1> SUFFICES ASSUME NEW q \in Positions, NEW r \in Positions, Occupied(q)', Occupied(r)', SameTime(q, r)
             PROVE  pos'[q].assigned # pos'[r].assigned
  BY DEF NoDoubleBooking, SameTime
<1>3. CASE q = p
  BY <1>1, <1>2, <1>3
<1>4. CASE r = p
  BY <1>1, <1>2, <1>4
<1>5. CASE q # p /\ r # p
  BY <1>2, <1>5 DEF NoDoubleBooking
<1> QED
  BY <1>3, <1>4, <1>5

(***************************************************************************)
(* The shapes of the rows.                                                 *)
(***************************************************************************)
LEMMA FillTypes ==
  ASSUME TypeOK, NEW p \in Positions, NEW c \in Couriers, Fill(p, c), UNCHANGED <<slot, conf, req>>
  PROVE  TypeOK'
<1>1. pos' \in [Positions -> PositionRow]
  BY PositionRows DEF Fill, TypeOK, ShiftTypeOK, PositionStatus, Somebody
<1>2. apps' \in [Positions -> [Couriers -> {"NONE", "PENDING", "CLOSED"}]]
  BY Answers DEF Fill, TypeOK, ShiftTypeOK
<1>3. /\ search' \in [Positions -> SearchRow]
      /\ cand' \in [Positions -> [Couriers -> {"NONE", "NOTIFIED", "ACCEPTED", "PAST"}]]
  <2>1. search[p] \in SearchRow
    BY DEF TypeOK, ShiftTypeOK
  <2>2. [search[p] EXCEPT !.status = "FILLED", !.wave = "NONE"] \in SearchRow
    BY <2>1, SearchRows DEF SearchStatus
  <2>3. CASE search[p].status = "SEARCHING"
    <3>1. search' = [search EXCEPT ![p] = [search[p] EXCEPT !.status = "FILLED", !.wave = "NONE"]]
      BY <2>3 DEF Fill, closeSearchWithWinner, TypeOK, ShiftTypeOK
    <3> QED
      BY <2>2, <2>3, <3>1, Answers DEF Fill, closeSearchWithWinner, TypeOK, ShiftTypeOK
  <2>4. CASE search[p].status # "SEARCHING"
    BY <2>4 DEF Fill, closeSearchWithWinner, TypeOK, ShiftTypeOK
  <2> QED
    BY <2>3, <2>4
<1> QED
  BY <1>1, <1>2, <1>3 DEF TypeOK, ShiftTypeOK

LEMMA ReplaceTypes ==
  ASSUME TypeOK, NEW p \in Positions, NEW r \in Couriers, Replace(p, r)
  PROVE  /\ pos' \in [Positions -> PositionRow]
         /\ conf' \in [Positions -> [Couriers -> {"NONE", "PENDING", "ANSWERED"}]]
<1>1. pos' \in [Positions -> PositionRow]
  BY PositionRows DEF Replace, TypeOK, ShiftTypeOK, PositionStatus, Somebody
<1>2. [c \in Couriers |-> IF c = r THEN "PENDING" ELSE Expired(p, c)]
        \in [Couriers -> {"NONE", "PENDING", "ANSWERED"}]
  BY Answers
<1> QED
  BY <1>1, <1>2 DEF Replace, TypeOK, ShiftTypeOK

LEMMA WaveTypes ==
  ASSUME ShiftConstants, TypeOK, NEW p \in Positions, NEW row \in SearchRow, NEW C, openNextWave(p, row, C)
  PROVE  /\ search' \in [Positions -> SearchRow]
         /\ cand' \in [Positions -> [Couriers -> {"NONE", "NOTIFIED", "ACCEPTED", "PAST"}]]
<1>1. WaveRow(p, row) \in SearchRow
  BY SearchRows DEF WaveRow, SearchStatus, ShiftConstants
<1>2. WaveCandidates(p, row, C) \in [Couriers -> {"NONE", "NOTIFIED", "ACCEPTED", "PAST"}]
  BY DEF WaveCandidates, TypeOK, ShiftTypeOK
<1> QED
  BY <1>1, <1>2 DEF openNextWave, TypeOK, ShiftTypeOK

LEMMA RowsTyped ==
  ASSUME TypeOK, NEW S \in SUBSET Slots, NEW h,
         \A p \in PlacesOf(S) \cap DOMAIN h : h[p] \in Somebody,
         CreateRows(S, h)
  PROVE  TypeOK'
<1>1. slot' \in [Slots -> SlotRow]
  BY DEF CreateRows, TypeOK, ShiftTypeOK, SlotRow, SlotStatus
<1>2. pos' \in [Positions -> PositionRow]
  <2>1. ASSUME NEW p \in Positions PROVE pos'[p] \in PositionRow
    <3>1. CASE p \in PlacesOf(S)
      <4>1. (IF p \in DOMAIN h THEN h[p] ELSE None) \in Somebody
        BY <3>1 DEF Somebody
      <4> QED
        BY <3>1, <4>1 DEF CreateRows, PositionRow, PositionStatus, Somebody
    <3>2. CASE p \notin PlacesOf(S)
      BY <3>2 DEF CreateRows, TypeOK, ShiftTypeOK
    <3> QED
      BY <3>1, <3>2
  <2> QED
    BY <2>1 DEF CreateRows
<1> QED
  BY <1>1, <1>2 DEF CreateRows, TypeOK, ShiftTypeOK

(***************************************************************************)
(* Every handler keeps the invariant.                                      *)
(***************************************************************************)
\* A place is as true as before when a step leaves its rows alone.
LEMMA LeftAlone ==
  ASSUME NEW p \in Positions, PlaceTrue(p),
         pos'[p] = pos[p], slot'[SlotOf[p]] = slot[SlotOf[p]], req'[p] = req[p],
         search'[p] = search[p], cand'[p] = cand[p]
  PROVE  PlaceTrue(p)'
BY DEF PlaceTrue, Occupied, Pending, PhaseOf

LEMMA FillSound ==
  ASSUME ShiftConstants, IInv, NEW p \in Positions, NEW c \in Couriers,
         pos[p].status \in {"AVAILABLE", "RESERVED"}, ~hasOverlap(c, p),
         Fill(p, c), UNCHANGED <<slot, conf, req>>
  PROVE  IInv'
<1>1. TypeOK'
  BY FillTypes DEF IInv
<1>2. /\ pos'[p].assigned = c /\ pos'[p].status = "FILLED"
      /\ \A q \in Positions : q # p => pos'[q] = pos[q]
  BY DEF IInv, TypeOK, ShiftTypeOK, Fill, PositionRow
<1>3. NoDoubleBooking'
  <2>1. \A q \in Positions : Occupied(q) /\ SameTime(p, q) => pos[q].assigned # c
    BY DEF hasOverlap
  <2> QED
    BY <1>2, <2>1, OneBooked DEF IInv
<1>4. /\ search'[p].status # "SEARCHING"
      /\ search'[p].status = "NONE" => search[p].status = "NONE" /\ cand'[p] = cand[p]
      /\ \A q \in Positions : q # p => search'[q] = search[q] /\ cand'[q] = cand[q]
  <2>1. CASE search[p].status = "SEARCHING"
    <3>1. /\ search' = [search EXCEPT ![p].status = "FILLED", ![p].wave = "NONE"]
          /\ cand' = [cand EXCEPT ![p] = Told(p)]
      BY <2>1 DEF Fill, closeSearchWithWinner
    <3>2. search'[p].status = "FILLED"
      BY <3>1 DEF IInv, TypeOK, ShiftTypeOK, SearchRow
    <3> QED
      BY <3>1, <3>2 DEF IInv, TypeOK, ShiftTypeOK
  <2>2. CASE search[p].status # "SEARCHING"
    BY <2>2 DEF Fill, closeSearchWithWinner
  <2> QED
    BY <2>1, <2>2
<1>5. ASSUME NEW q \in Positions PROVE PlaceTrue(q)'
  <2>1. CASE q = p
    <3>1. PlaceTrue(p)
      BY DEF IInv
    <3> QED
      BY <1>2, <1>4, <2>1, <3>1 DEF PlaceTrue, Occupied, Pending, PhaseOf
  <2>2. CASE q # p
    BY <1>2, <1>4, <2>2, LeftAlone DEF IInv
  <2> QED
    BY <2>1, <2>2
<1> QED
  BY <1>1, <1>3, <1>5 DEF IInv

\* Approval of a change and transfer: the place passes to another courier.
LEMMA ReplaceSound ==
  ASSUME ShiftConstants, IInv, NEW p \in Positions, NEW r \in Couriers, Replace(p, r),
         slot' = slot, pos[p].status # "NONE"
  PROVE  /\ NoDoubleBooking'
         /\ pos'[p].status = "FILLED" /\ pos'[p].assigned = r
         /\ \A q \in Positions : q # p => pos'[q] = pos[q]
<1>1. /\ pos'[p].assigned = r /\ pos'[p].status = "FILLED"
      /\ \A q \in Positions : q # p => pos'[q] = pos[q]
  BY DEF IInv, TypeOK, ShiftTypeOK, Replace, PositionRow
<1>2. \A q \in Positions : Occupied(q) /\ SameTime(p, q) => pos[q].assigned # r
  BY DEF Replace, Engaged, ShiftConstants, SameTime
<1>3. NoDoubleBooking'
  BY <1>1, <1>2, OneBooked DEF IInv
<1> QED
  BY <1>1, <1>3

LEMMA acceptSound ==
  ASSUME ShiftConstants, IInv, NEW p \in Positions, NEW c \in Couriers, acceptShiftPosition(c, p)
  PROVE  IInv'
<1>1. CASE pos[p].status = "RESERVED" \/ SlotOf[p] \in AutoApproved
  BY <1>1, FillSound DEF acceptShiftPosition, MayTake
<1>2. CASE ~(pos[p].status = "RESERVED" \/ SlotOf[p] \in AutoApproved)
  <2>1. /\ apps' = [apps EXCEPT ![p][c] = "PENDING"]
        /\ cand' = IF search[p].status = "SEARCHING" THEN [cand EXCEPT ![p][c] = "ACCEPTED"] ELSE cand
        /\ UNCHANGED <<pos, search, slot, conf, req>>
    BY <1>2 DEF acceptShiftPosition
  <2>2. TypeOK'
    BY <2>1 DEF IInv, TypeOK, ShiftTypeOK
  <2>3. NoDoubleBooking'
    BY <2>1, NobodyBooked DEF IInv, Occupied
  <2>4. ASSUME NEW q \in Positions PROVE PlaceTrue(q)'
    <3>1. q # p \/ search[p].status # "SEARCHING" => cand'[q] = cand[q]
      BY <2>1 DEF IInv, TypeOK, ShiftTypeOK
    <3>2. search[p].status = "SEARCHING" => search[p].wave = "RUNNING"
      BY DEF acceptShiftPosition, MayTake, SearchAdmits
    <3>3. PlaceTrue(q)
      BY DEF IInv
    <3> QED
      BY <2>1, <3>1, <3>2, <3>3 DEF PlaceTrue, Occupied, Pending, PhaseOf
  <2> QED
    BY <2>2, <2>3, <2>4 DEF IInv
<1> QED
  BY <1>1, <1>2

LEMMA approveApplicationSound ==
  ASSUME ShiftConstants, IInv, NEW p \in Positions, NEW c \in Couriers, approveShiftApplication(c, p)
  PROVE  IInv'
BY FillSound DEF approveShiftApplication

\* Handlers that write neither places, slots, requests nor searches.
LEMMA OthersSound ==
  ASSUME IInv, UNCHANGED <<pos, slot, req, search, cand>>,
         apps' \in [Positions -> [Couriers -> {"NONE", "PENDING", "CLOSED"}]],
         conf' \in [Positions -> [Couriers -> {"NONE", "PENDING", "ANSWERED"}]]
  PROVE  IInv'
<1>1. NoDoubleBooking'
  BY NobodyBooked DEF IInv, Occupied
<1>2. \A p \in Positions : PlaceTrue(p)'
  BY LeftAlone DEF IInv
<1>3. TypeOK'
  BY DEF IInv, TypeOK, ShiftTypeOK
<1> QED
  BY <1>1, <1>2, <1>3 DEF IInv

LEMMA ConfirmationsSound ==
  ASSUME IInv, NEW S \in SUBSET Positions, createDueShiftConfirmations(S)
  PROVE  IInv'
<1>1. conf' \in [Positions -> [Couriers -> {"NONE", "PENDING", "ANSWERED"}]]
  BY DEF createDueShiftConfirmations, IInv, TypeOK, ShiftTypeOK
<1> QED
  BY <1>1, OthersSound DEF createDueShiftConfirmations, IInv, TypeOK, ShiftTypeOK

LEMMA confirmSound ==
  ASSUME IInv, NEW p \in Positions, NEW c \in Couriers, confirmShift(c, p)
  PROVE  IInv'
<1>1. conf' \in [Positions -> [Couriers -> {"NONE", "PENDING", "ANSWERED"}]]
  BY DEF confirmShift, IInv, TypeOK, ShiftTypeOK
<1> QED
  BY <1>1, OthersSound DEF confirmShift, IInv, TypeOK, ShiftTypeOK

\* Handlers that write the request of one place beside its confirmations.
LEMMA RequestsSound ==
  ASSUME IInv, NEW p \in Positions, NEW r \in Somebody \cup {NoRequest},
         r = NoRequest \/ pos[p].status # "NONE",
         UNCHANGED <<pos, slot, apps, search, cand>>,
         req' = [req EXCEPT ![p] = r],
         conf' \in [Positions -> [Couriers -> {"NONE", "PENDING", "ANSWERED"}]]
  PROVE  IInv'
<1>1. NoDoubleBooking'
  BY NobodyBooked DEF IInv, Occupied
<1>2. TypeOK'
  BY DEF IInv, TypeOK, ShiftTypeOK
<1>3. req'[p] = r /\ \A q \in Positions : q # p => req'[q] = req[q]
  BY DEF IInv, TypeOK, ShiftTypeOK
<1>4. ASSUME NEW q \in Positions PROVE PlaceTrue(q)'
  <2>1. PlaceTrue(q)
    BY DEF IInv
  <2> QED
    BY <1>3, <2>1 DEF PlaceTrue, Occupied, Pending, PhaseOf
<1> QED
  BY <1>1, <1>2, <1>4 DEF IInv

LEMMA withdrawalSound ==
  ASSUME IInv, NEW p \in Positions, NEW c \in Couriers, NEW suggested \in Somebody,
         requestShiftWithdrawal(c, p, suggested)
  PROVE  IInv'
BY RequestsSound DEF requestShiftWithdrawal, IInv, TypeOK, ShiftTypeOK

LEMMA declineSound ==
  ASSUME IInv, NEW p \in Positions, NEW c \in Couriers, declineShift(c, p)
  PROVE  IInv'
<1>1. conf' \in [Positions -> [Couriers -> {"NONE", "PENDING", "ANSWERED"}]]
  BY DEF declineShift, IInv, TypeOK, ShiftTypeOK
<1>2. CASE Pending(p)
  BY <1>1, <1>2, OthersSound DEF declineShift, IInv, TypeOK, ShiftTypeOK
<1>3. CASE ~Pending(p)
  BY <1>1, <1>3, RequestsSound DEF declineShift, AsksForAnswer, Somebody
<1> QED
  BY <1>2, <1>3

LEMMA rejectChangeSound ==
  ASSUME IInv, NEW p \in Positions, rejectShiftChange(p)
  PROVE  IInv'
BY RequestsSound DEF rejectShiftChange, IInv, TypeOK, ShiftTypeOK

LEMMA transferSound ==
  ASSUME ShiftConstants, IInv, NEW p \in Positions, NEW r \in Couriers, transferShiftPosition(p, r)
  PROVE  IInv'
<1> DEFINE status == IF search[p].status = "SEARCHING" THEN "FILLED" ELSE search[p].status
<1>1. Replace(p, r) /\ pos[p].status # "NONE" /\ UNCHANGED <<slot, apps, req>>
  BY DEF transferShiftPosition, Transferable
<1>2. search[p] \in SearchRow /\ status \in SearchStatus
  BY DEF IInv, TypeOK, ShiftTypeOK, SearchRow, SearchStatus
<1>3. search' = [search EXCEPT ![p] = [search[p] EXCEPT !.status = status, !.wave = "NONE"]]
  BY DEF transferShiftPosition, IInv, TypeOK, ShiftTypeOK
<1>4. TypeOK'
  <2>1. search' \in [Positions -> SearchRow]
    BY <1>2, <1>3, SearchRows DEF IInv, TypeOK, ShiftTypeOK
  <2>2. cand' \in [Positions -> [Couriers -> {"NONE", "NOTIFIED", "ACCEPTED", "PAST"}]]
    BY Answers DEF transferShiftPosition, IInv, TypeOK, ShiftTypeOK
  <2> QED
    BY <1>1, <2>1, <2>2, ReplaceTypes DEF IInv, TypeOK, ShiftTypeOK
<1>5. /\ NoDoubleBooking' /\ pos'[p].status = "FILLED" /\ pos'[p].assigned = r
      /\ \A q \in Positions : q # p => pos'[q] = pos[q]
  BY <1>1, ReplaceSound
<1>6. /\ search'[p].status = status /\ cand'[p] = Told(p)
      /\ \A q \in Positions : q # p => search'[q] = search[q] /\ cand'[q] = cand[q]
  BY <1>2, <1>3 DEF transferShiftPosition, IInv, TypeOK, ShiftTypeOK, SearchRow
<1>7. ASSUME NEW q \in Positions PROVE PlaceTrue(q)'
  <2>1. PlaceTrue(q)
    BY DEF IInv
  <2>2. CASE q = p
    BY <1>1, <1>5, <1>6, <2>1, <2>2, Answers DEF PlaceTrue, Occupied, Pending, PhaseOf, IInv
  <2>3. CASE q # p
    BY <1>1, <1>5, <1>6, <2>1, <2>3, LeftAlone
  <2> QED
    BY <2>2, <2>3
<1> QED
  BY <1>4, <1>5, <1>7 DEF IInv

LEMMA cancelSound ==
  ASSUME ShiftConstants, IInv, NEW p \in Positions, cancelShiftPosition(p)
  PROVE  IInv'
<1> DEFINE status == IF search[p].status = "SEARCHING" THEN "CANCELLED" ELSE search[p].status
<1>1. search[p] \in SearchRow /\ status \in SearchStatus /\ pos[p] \in PositionRow
  BY DEF IInv, TypeOK, ShiftTypeOK, SearchRow, SearchStatus
<1>2. search' = [search EXCEPT ![p] = [search[p] EXCEPT !.status = status, !.wave = "NONE"]]
  BY DEF cancelShiftPosition, IInv, TypeOK, ShiftTypeOK
<1>3. /\ pos' = [pos EXCEPT ![p] = [pos[p] EXCEPT !.status = "CANCELLED"]]
      /\ req' = [req EXCEPT ![p] = NoRequest] /\ slot' = slot
  BY DEF cancelShiftPosition, IInv, TypeOK, ShiftTypeOK
<1>4. TypeOK'
  <2>1. search' \in [Positions -> SearchRow]
    BY <1>1, <1>2, SearchRows DEF IInv, TypeOK, ShiftTypeOK
  <2>2. /\ cand' \in [Positions -> [Couriers -> {"NONE", "NOTIFIED", "ACCEPTED", "PAST"}]]
        /\ apps' \in [Positions -> [Couriers -> {"NONE", "PENDING", "CLOSED"}]]
        /\ conf' \in [Positions -> [Couriers -> {"NONE", "PENDING", "ANSWERED"}]]
    BY Answers DEF cancelShiftPosition, IInv, TypeOK, ShiftTypeOK
  <2>3. pos' \in [Positions -> PositionRow]
    BY <1>1, <1>3, PositionRows DEF IInv, TypeOK, ShiftTypeOK, PositionStatus, Somebody
  <2> QED
    BY <1>3, <2>1, <2>2, <2>3 DEF IInv, TypeOK, ShiftTypeOK
<1>5. /\ pos'[p].status = "CANCELLED"
      /\ \A q \in Positions : q # p => pos'[q] = pos[q] /\ req'[q] = req[q]
  BY <1>1, <1>3 DEF IInv, TypeOK, ShiftTypeOK, PositionRow
<1>6. NoDoubleBooking'
  BY <1>5, NobodyBooked DEF IInv, Occupied
<1>7. /\ search'[p].status = status /\ cand'[p] = Told(p)
      /\ \A q \in Positions : q # p => search'[q] = search[q] /\ cand'[q] = cand[q]
  BY <1>1, <1>2 DEF cancelShiftPosition, IInv, TypeOK, ShiftTypeOK, SearchRow
<1>8. ASSUME NEW q \in Positions PROVE PlaceTrue(q)'
  <2>1. PlaceTrue(q) /\ pos[p].status # "NONE"
    BY DEF IInv, cancelShiftPosition
  <2>2. CASE q = p
    BY <1>3, <1>5, <1>7, <2>1, <2>2, Answers DEF PlaceTrue, Occupied, Pending, PhaseOf, IInv
  <2>3. CASE q # p
    BY <1>3, <1>5, <1>7, <2>1, <2>3, LeftAlone
  <2> QED
    BY <2>2, <2>3
<1> QED
  BY <1>4, <1>6, <1>8 DEF IInv

\* A place that becomes vacant, by a change or by a missed check-in, is searched for.
LEMMA VacantTrue ==
  ASSUME TypeOK, NEW p \in Positions, PlaceTrue(p), pos[p].status # "NONE",
         pos'[p].status = "AVAILABLE", pos'[p].holder = None \/ PhaseOf(p) >= Late,
         search'[p] = WithSearch(p), cand'[p] = cand[p], slot' = slot
  PROVE  PlaceTrue(p)'
<1>1. /\ search'[p].status # "NONE"
      /\ search'[p].wave = search[p].wave
      /\ search'[p].status = IF search[p].status = "NONE" THEN "SEARCHING" ELSE search[p].status
  BY Searched
<1> QED
  BY <1>1 DEF PlaceTrue, Occupied, Pending, PhaseOf

LEMMA approveChangeSound ==
  ASSUME ShiftConstants, IInv, NEW p \in Positions, NEW r \in Somebody, approveShiftChange(p, r)
  PROVE  IInv'
<1> DEFINE replacement == IF r # None THEN r ELSE req[p]
<1>1. PlaceTrue(p) /\ TypeOK /\ Pending(p) /\ pos[p].status # "NONE"
  BY DEF IInv, approveShiftChange, PlaceTrue
<1>2. /\ req' = [req EXCEPT ![p] = NoRequest]
      /\ req' \in [Positions -> Somebody \cup {NoRequest}]
      /\ UNCHANGED <<slot, apps, cand>>
      /\ ~Pending(p)'
      /\ \A q \in Positions : q # p => req'[q] = req[q]
  BY <1>1 DEF approveShiftChange, TypeOK, ShiftTypeOK, Pending
<1>3. CASE replacement # None
  <2>1. replacement \in Couriers
    BY <1>1, <1>3 DEF Pending, TypeOK, ShiftTypeOK, Somebody
  <2>2. Replace(p, replacement) /\ search' = search
    BY <1>3 DEF approveShiftChange
  <2>3. /\ NoDoubleBooking' /\ pos'[p].status = "FILLED" /\ pos'[p].assigned = replacement
        /\ \A q \in Positions : q # p => pos'[q] = pos[q]
    BY <1>1, <1>2, <2>1, <2>2, ReplaceSound
  <2>4. TypeOK'
    BY <1>1, <1>2, <2>1, <2>2, ReplaceTypes DEF TypeOK, ShiftTypeOK
  <2>5. ASSUME NEW q \in Positions PROVE PlaceTrue(q)'
    <3>1. CASE q = p
      BY <1>1, <1>2, <2>1, <2>2, <2>3, <3>1 DEF PlaceTrue, Occupied, Pending, PhaseOf
    <3>2. CASE q # p
      BY <1>2, <2>2, <2>3, <3>2, LeftAlone DEF IInv
    <3> QED
      BY <3>1, <3>2
  <2> QED
    BY <2>3, <2>4, <2>5 DEF IInv
<1>4. CASE replacement = None
  <2>1. releaseForCoverage(p)
    BY <1>4 DEF approveShiftChange
  <2>2. pos' = [pos EXCEPT ![p] = [pos[p] EXCEPT !.assigned = None, !.holder = None, !.status = "AVAILABLE"]]
    BY <1>1, <2>1 DEF releaseForCoverage, TypeOK, ShiftTypeOK
  <2>3. /\ pos'[p].status = "AVAILABLE" /\ pos'[p].holder = None
        /\ \A q \in Positions : q # p => pos'[q] = pos[q]
    BY <1>1, <2>2 DEF TypeOK, ShiftTypeOK, PositionRow
  <2>4. TypeOK'
    <3>1. pos' \in [Positions -> PositionRow]
      BY <1>1, <2>2, PositionRows DEF TypeOK, ShiftTypeOK, PositionStatus, Somebody
    <3>2. search' \in [Positions -> SearchRow]
      BY <1>1, <2>1, Searched DEF releaseForCoverage, TypeOK, ShiftTypeOK
    <3>3. conf' \in [Positions -> [Couriers -> {"NONE", "PENDING", "ANSWERED"}]]
      BY <1>1, <2>1, Answers DEF releaseForCoverage, TypeOK, ShiftTypeOK
    <3> QED
      BY <1>1, <1>2, <3>1, <3>2, <3>3 DEF TypeOK, ShiftTypeOK
  <2>5. NoDoubleBooking'
    BY <2>3, NobodyBooked DEF IInv, Occupied
  <2>6. ASSUME NEW q \in Positions PROVE PlaceTrue(q)'
    <3>1. /\ search'[p] = WithSearch(p)
          /\ \A s \in Positions : s # p => search'[s] = search[s]
      BY <1>1, <2>1 DEF releaseForCoverage, TypeOK, ShiftTypeOK
    <3>2. CASE q = p
      BY <1>1, <1>2, <2>3, <3>1, <3>2, VacantTrue
    <3>3. CASE q # p
      BY <1>2, <2>3, <3>1, <3>3, LeftAlone DEF IInv
    <3> QED
      BY <3>2, <3>3
  <2> QED
    BY <2>4, <2>5, <2>6 DEF IInv
<1> QED
  BY <1>3, <1>4

LEMMA missedSound ==
  ASSUME ShiftConstants, IInv, NEW S \in SUBSET Positions, releaseMissedCheckins(S)
  PROVE  IInv'
<1>1. TypeOK
  BY DEF IInv
<1>2. \A p \in Positions :
        /\ p \in S => /\ pos'[p] = [pos[p] EXCEPT !.status = "AVAILABLE", !.assigned = None]
                      /\ search'[p] = WithSearch(p)
                      /\ pos[p].status \in {"FILLED", "RESERVED"} /\ PhaseOf(p) = Late
        /\ p \notin S => pos'[p] = pos[p] /\ search'[p] = search[p]
  BY DEF releaseMissedCheckins, Missed
<1>3. UNCHANGED <<slot, apps, conf, req, cand>>
  BY DEF releaseMissedCheckins
<1>4. \A p \in S : pos'[p].status = "AVAILABLE"
  <2> SUFFICES ASSUME NEW p \in S PROVE pos'[p].status = "AVAILABLE"
    OBVIOUS
  <2>1. pos[p] \in PositionRow
    BY <1>1 DEF TypeOK, ShiftTypeOK
  <2>2. pos'[p] = [pos[p] EXCEPT !.status = "AVAILABLE", !.assigned = None]
    BY <1>2
  <2> QED
    BY <2>1, <2>2 DEF PositionRow
<1>5. TypeOK'
  <2>1. pos' \in [Positions -> PositionRow]
    BY <1>1, <1>2, PositionRows DEF releaseMissedCheckins, TypeOK, ShiftTypeOK, PositionStatus, Somebody
  <2>2. search' \in [Positions -> SearchRow]
    BY <1>1, <1>2, Searched DEF releaseMissedCheckins, TypeOK, ShiftTypeOK
  <2> QED
    BY <1>1, <1>3, <2>1, <2>2 DEF TypeOK, ShiftTypeOK
<1>6. NoDoubleBooking'
  BY <1>2, <1>4, NobodyBooked DEF IInv, Occupied
<1>7. ASSUME NEW p \in Positions PROVE PlaceTrue(p)'
  <2>1. PlaceTrue(p) /\ cand'[p] = cand[p] /\ slot' = slot /\ req'[p] = req[p]
    BY <1>3 DEF IInv
  <2>2. CASE p \in S
    <3>1. /\ PhaseOf(p) = Late
          /\ search'[p] = WithSearch(p)
          /\ pos[p].status # "NONE"
      BY <1>2, <2>2
    <3>2. PhaseOf(p) >= Late
      BY <3>1 DEF Late
    <3> QED
      BY <1>1, <1>4, <2>1, <2>2, <3>1, <3>2, VacantTrue
  <2>3. CASE p \notin S
    BY <1>2, <2>1, <2>3, LeftAlone
  <2> QED
    BY <2>2, <2>3
<1> QED
  BY <1>5, <1>6, <1>7 DEF IInv

LEMMA checkinSound ==
  ASSUME ShiftConstants, IInv, NEW p \in Positions, NEW c \in Couriers, checkinShiftPosition(c, p)
  PROVE  IInv'
<1> DEFINE status == IF slot[SlotOf[p]].status = "SCHEDULED" THEN "ACTIVE" ELSE slot[SlotOf[p]].status
<1>1. TypeOK /\ SlotOf[p] \in Slots /\ \A q \in Positions : SlotOf[q] \in Slots
  BY DEF IInv, ShiftConstants
<1>2. /\ pos' = [pos EXCEPT ![p] = [pos[p] EXCEPT !.status = "ACTIVE"]]
      /\ slot' = [slot EXCEPT ![SlotOf[p]] = [slot[SlotOf[p]] EXCEPT !.status = status]]
      /\ UNCHANGED <<apps, req, search, cand>>
  BY <1>1 DEF checkinShiftPosition, TypeOK, ShiftTypeOK
<1>3. /\ pos'[p].status = "ACTIVE" /\ pos'[p].assigned = c
      /\ pos[p].status = "FILLED" /\ pos[p].assigned = c
      /\ \A q \in Positions : q # p => pos'[q] = pos[q]
  BY <1>1, <1>2 DEF checkinShiftPosition, TypeOK, ShiftTypeOK, PositionRow
<1>4. /\ slot' \in [Slots -> SlotRow]
      /\ \A s \in Slots : /\ slot'[s].phase = slot[s].phase
                          /\ slot'[s].status \in {"NONE", "PLANNED"} <=> slot[s].status \in {"NONE", "PLANNED"}
  <2>1. slot[SlotOf[p]] \in SlotRow
    BY <1>1 DEF TypeOK, ShiftTypeOK
  <2>2. status \in SlotStatus
    BY <2>1 DEF SlotRow, SlotStatus
  <2> QED
    BY <1>1, <1>2, <2>1, <2>2, SlotRows DEF TypeOK, ShiftTypeOK
<1>5. TypeOK'
  <2>1. pos' \in [Positions -> PositionRow]
    BY <1>1, <1>2, PositionRows DEF TypeOK, ShiftTypeOK, PositionStatus, Somebody
  <2>3. conf' \in [Positions -> [Couriers -> {"NONE", "PENDING", "ANSWERED"}]]
    BY <1>1, Answers DEF checkinShiftPosition, TypeOK, ShiftTypeOK
  <2> QED
    BY <1>1, <1>2, <1>4, <2>1, <2>3 DEF TypeOK, ShiftTypeOK
<1>6. NoDoubleBooking'
  BY <1>3, NobodyBooked DEF IInv, Occupied
<1>7. ASSUME NEW q \in Positions PROVE PlaceTrue(q)'
  <2>1. PlaceTrue(q)
    BY DEF IInv
  <2>2. CASE q = p
    BY <1>1, <1>2, <1>3, <1>4, <2>1, <2>2 DEF PlaceTrue, Occupied, Pending, PhaseOf
  <2>3. CASE q # p
    BY <1>1, <1>2, <1>3, <1>4, <2>1, <2>3 DEF PlaceTrue, Occupied, Pending, PhaseOf
  <2> QED
    BY <2>2, <2>3
<1> QED
  BY <1>5, <1>6, <1>7 DEF IInv

LEMMA checkoutSound ==
  ASSUME ShiftConstants, IInv, NEW p \in Positions, NEW c \in Couriers, checkoutShiftPosition(c, p)
  PROVE  IInv'
<1>1. TypeOK /\ \A q \in Positions : SlotOf[q] \in Slots
  BY DEF IInv, ShiftConstants
<1>2. /\ pos' = [pos EXCEPT ![p] = [pos[p] EXCEPT !.status = "COMPLETED"]]
      /\ slot' \in {slot, [slot EXCEPT ![SlotOf[p]] = [slot[SlotOf[p]] EXCEPT !.status = "COMPLETED"]]}
      /\ UNCHANGED <<apps, conf, req, search, cand>>
      /\ pos[p].status = "ACTIVE"
  BY <1>1 DEF checkoutShiftPosition, TypeOK, ShiftTypeOK
<1>3. /\ pos'[p].status = "COMPLETED"
      /\ \A q \in Positions : q # p => pos'[q] = pos[q]
  BY <1>1, <1>2 DEF TypeOK, ShiftTypeOK, PositionRow
<1>4. /\ slot' \in [Slots -> SlotRow]
      /\ \A s \in Slots : /\ slot'[s].phase = slot[s].phase
                          /\ slot'[s].status \in {"NONE", "PLANNED"} => slot[s].status \in {"NONE", "PLANNED"}
  <2>1. slot[SlotOf[p]] \in SlotRow
    BY <1>1 DEF TypeOK, ShiftTypeOK
  <2>2. CASE slot' = [slot EXCEPT ![SlotOf[p]] = [slot[SlotOf[p]] EXCEPT !.status = "COMPLETED"]]
    <3> DEFINE row == [slot[SlotOf[p]] EXCEPT !.status = "COMPLETED"]
    <3>1. row \in SlotRow /\ row.phase = slot[SlotOf[p]].phase /\ row.status = "COMPLETED"
      BY <2>1 DEF SlotRow, SlotStatus
    <3>2. slot' = [slot EXCEPT ![SlotOf[p]] = row]
      BY <2>2
    <3> HIDE DEF row
    <3> QED
      BY <1>1, <3>1, <3>2 DEF TypeOK, ShiftTypeOK
  <2>3. CASE slot' = slot
    BY <1>1, <2>3 DEF TypeOK, ShiftTypeOK
  <2> QED
    BY <1>2, <2>2, <2>3
<1>5. TypeOK'
  <2>1. pos' \in [Positions -> PositionRow]
    BY <1>1, <1>2, PositionRows DEF TypeOK, ShiftTypeOK, PositionStatus, Somebody
  <2> QED
    BY <1>1, <1>2, <1>4, <2>1 DEF TypeOK, ShiftTypeOK
<1>6. NoDoubleBooking'
  BY <1>3, NobodyBooked DEF IInv, Occupied
<1>7. ASSUME NEW q \in Positions PROVE PlaceTrue(q)'
  <2>1. /\ PlaceTrue(q) /\ pos[p].status = "ACTIVE"
        /\ UNCHANGED <<req, search, cand>>
        /\ slot'[SlotOf[q]].phase = slot[SlotOf[q]].phase
        /\ slot'[SlotOf[q]].status \in {"NONE", "PLANNED"} => slot[SlotOf[q]].status \in {"NONE", "PLANNED"}
    <3>1. UNCHANGED <<req, search, cand>> /\ pos[p].status = "ACTIVE"
      BY DEF checkoutShiftPosition
    <3>2. SlotOf[q] \in Slots
      BY <1>1
    <3>3. /\ slot'[SlotOf[q]].phase = slot[SlotOf[q]].phase
          /\ slot'[SlotOf[q]].status \in {"NONE", "PLANNED"} => slot[SlotOf[q]].status \in {"NONE", "PLANNED"}
      BY <1>4, <3>2
    <3>4. PlaceTrue(q)
      BY DEF IInv
    <3> QED
      BY <3>1, <3>3, <3>4
  <2>2. CASE q = p
    BY <1>3, <2>1, <2>2 DEF PlaceTrue, Occupied, Pending, PhaseOf
  <2>3. CASE q # p
    BY <1>3, <2>1, <2>3 DEF PlaceTrue, Occupied, Pending, PhaseOf
  <2> QED
    BY <2>2, <2>3
<1> QED
  BY <1>5, <1>6, <1>7 DEF IInv

\* Rows are created only for slots that have none yet.
LEMMA CreateSound ==
  ASSUME ShiftConstants, IInv, NEW S \in SUBSET Slots, NEW h,
         \A p \in PlacesOf(S) \cap DOMAIN h : h[p] \in Somebody,
         \A s \in S : slot[s].status \in {"NONE", "PLANNED"},
         CreateRows(S, h)
  PROVE  IInv'
<1>1. TypeOK'
  BY RowsTyped DEF IInv
<1>2. TypeOK /\ \A q \in Positions : SlotOf[q] \in Slots
  BY DEF IInv, ShiftConstants
<1>3. ASSUME NEW p \in Positions, p \in PlacesOf(S)
      PROVE  /\ pos[p].status = "NONE"
             /\ pos'[p].status \in {"AVAILABLE", "RESERVED"}
             /\ pos'[p].status = "AVAILABLE" => pos'[p].holder = None
             /\ slot'[SlotOf[p]].status = "SCHEDULED"
  <2>1. PlaceTrue(p) /\ SlotOf[p] \in S
    BY <1>3 DEF IInv, PlacesOf
  <2> QED
    BY <1>2, <1>3, <2>1 DEF CreateRows, PlaceTrue, TypeOK, ShiftTypeOK, SlotRow
<1>4. ASSUME NEW p \in Positions, p \notin PlacesOf(S)
      PROVE  pos'[p] = pos[p] /\ slot'[SlotOf[p]] = slot[SlotOf[p]]
  BY <1>2, <1>4 DEF CreateRows, PlacesOf, TypeOK, ShiftTypeOK
<1>5. UNCHANGED <<apps, conf, req, search, cand>>
  BY DEF CreateRows
<1>6. NoDoubleBooking'
  BY <1>3, <1>4, NobodyBooked DEF IInv, Occupied
<1>7. ASSUME NEW p \in Positions PROVE PlaceTrue(p)'
  <2>1. PlaceTrue(p)
    BY DEF IInv
  <2>2. CASE p \in PlacesOf(S)
    BY <1>3, <1>5, <2>1, <2>2 DEF PlaceTrue, Occupied, Pending, PhaseOf
  <2>3. CASE p \notin PlacesOf(S)
    BY <1>4, <1>5, <2>1, <2>3, LeftAlone
  <2> QED
    BY <2>2, <2>3
<1> QED
  BY <1>1, <1>6, <1>7 DEF IInv

LEMMA createSlotSound ==
  ASSUME ShiftConstants, IInv, NEW s \in Slots, NEW h \in [Positions \ Quiet -> Regulars \cup {None}],
         createShiftSlot(s, h)
  PROVE  IInv'
<1>1. \A p \in PlacesOf({s}) \cap DOMAIN h : h[p] \in Somebody
  BY DEF ShiftConstants, Somebody
<1> QED
  BY <1>1, CreateSound DEF createShiftSlot

LEMMA createTemplateSound ==
  ASSUME ShiftConstants, IInv, NEW s \in Slots, NEW h \in [Positions \ Quiet -> Regulars \cup {None}],
         createShiftTemplate(s, h)
  PROVE  IInv'
<1>1. /\ \A p \in PlacesOf({s}) \cap DOMAIN h : h[p] \in Somebody
      /\ slot[s].status = "NONE"
  BY DEF ShiftConstants, Somebody, createShiftTemplate
<1>2. CASE CreateRows({s}, h)
  BY <1>1, <1>2, CreateSound
<1>3. CASE ~CreateRows({s}, h)
  <2>1. /\ slot' = [slot EXCEPT ![s].status = "PLANNED"]
        /\ pos' = [p \in Positions |-> IF p \in PlacesOf({s}) \cap DOMAIN h THEN [pos[p] EXCEPT !.holder = h[p]] ELSE pos[p]]
        /\ UNCHANGED <<apps, conf, req, search, cand>>
    BY <1>3 DEF createShiftTemplate
  <2>2. TypeOK /\ slot[s] \in SlotRow /\ \A q \in Positions : SlotOf[q] \in Slots
    BY DEF IInv, TypeOK, ShiftTypeOK, ShiftConstants
  <2>3. slot' = [slot EXCEPT ![s] = [slot[s] EXCEPT !.status = "PLANNED"]]
    BY <2>1, <2>2 DEF TypeOK, ShiftTypeOK
  <2>4. /\ slot' \in [Slots -> SlotRow]
        /\ slot'[s].status = "PLANNED" /\ \A t \in Slots : t # s => slot'[t] = slot[t]
    BY <2>2, <2>3, SlotRows DEF TypeOK, ShiftTypeOK, SlotStatus
  <2>5. ASSUME NEW p \in Positions
        PROVE  /\ pos'[p] \in PositionRow
               /\ pos'[p].status = pos[p].status /\ pos'[p].assigned = pos[p].assigned
               /\ SlotOf[p] # s => pos'[p] = pos[p]
    <3>1. pos[p] \in PositionRow
      BY <2>2 DEF TypeOK, ShiftTypeOK
    <3>2. CASE p \in PlacesOf({s}) \cap DOMAIN h
      <4>1. h[p] \in Somebody /\ pos'[p] = [pos[p] EXCEPT !.holder = h[p]] /\ SlotOf[p] = s
        BY <1>1, <2>1, <3>2 DEF PlacesOf
      <4> QED
        BY <3>1, <4>1 DEF PositionRow
    <3>3. CASE p \notin PlacesOf({s}) \cap DOMAIN h
      BY <2>1, <3>1, <3>3
    <3> QED
      BY <3>2, <3>3
  <2>6. TypeOK'
    BY <2>1, <2>2, <2>4, <2>5 DEF TypeOK, ShiftTypeOK
  <2>7. NoDoubleBooking'
    BY <2>5, NobodyBooked DEF IInv, Occupied
  <2>8. ASSUME NEW p \in Positions PROVE PlaceTrue(p)'
    <3>1. PlaceTrue(p)
      BY DEF IInv
    <3>2. CASE SlotOf[p] = s
      <4>1. pos'[p].status = "NONE" /\ pos[p].status = "NONE"
        BY <1>1, <2>5, <3>1, <3>2 DEF PlaceTrue
      <4> QED
        BY <2>1, <3>1, <4>1 DEF PlaceTrue, Occupied, Pending
    <3>3. CASE SlotOf[p] # s
      BY <2>1, <2>2, <2>4, <2>5, <3>1, <3>3, LeftAlone
    <3> QED
      BY <3>2, <3>3
  <2> QED
    BY <2>6, <2>7, <2>8 DEF IInv
<1> QED
  BY <1>2, <1>3

LEMMA materializeSound ==
  ASSUME ShiftConstants, IInv, NEW S \in SUBSET Slots, materializeTemplate(S)
  PROVE  IInv'
<1> DEFINE h == [p \in PlacesOf(S) |-> pos[p].holder]
<1>1. \A p \in PlacesOf(S) \cap DOMAIN h : h[p] \in Somebody
  BY DEF PlacesOf, IInv, TypeOK, ShiftTypeOK, PositionRow
<1>2. (\A s \in S : slot[s].status \in {"NONE", "PLANNED"}) /\ CreateRows(S, h)
  BY DEF materializeTemplate
<1> HIDE DEF h
<1> QED
  BY <1>1, <1>2, CreateSound

\* A next wave, or the end of a search.
LEMMA WaveSound ==
  ASSUME ShiftConstants, IInv, NEW p \in Positions, NEW row \in SearchRow, NEW C,
         openNextWave(p, row, C), UNCHANGED <<pos, slot, apps, conf, req>>,
         pos[p].status = "AVAILABLE", row.status # "NONE"
  PROVE  IInv'
<1>1. TypeOK'
  BY WaveTypes DEF IInv, TypeOK, ShiftTypeOK
<1>2. NoDoubleBooking'
  BY NobodyBooked DEF IInv, Occupied
<1>3. /\ search'[p] = WaveRow(p, row)
      /\ \A q \in Positions : q # p => search'[q] = search[q] /\ cand'[q] = cand[q]
  BY DEF openNextWave, IInv, TypeOK, ShiftTypeOK
<1>4. WaveRow(p, row).status # "NONE" /\ (WaveRow(p, row).wave = "RUNNING" \/ WaveRow(p, row).status = "EXHAUSTED")
  BY DEF WaveRow, SearchRow
<1>5. ASSUME NEW q \in Positions PROVE PlaceTrue(q)'
  <2>1. PlaceTrue(q)
    BY DEF IInv
  <2>2. CASE q = p
    <3>1. /\ search'[p].status # "NONE"
          /\ search'[p].status = "SEARCHING" => search'[p].wave # "NONE"
      BY <1>3, <1>4
    <3> QED
      BY <2>1, <2>2, <3>1 DEF PlaceTrue, Occupied, Pending, PhaseOf
  <2>3. CASE q # p
    BY <1>3, <2>1, <2>3, LeftAlone
  <2> QED
    BY <2>2, <2>3
<1> QED
  BY <1>1, <1>2, <1>5 DEF IInv

LEMMA startSearchSound ==
  ASSUME ShiftConstants, IInv, NEW p \in Positions, NEW C, startEmergencySearch(p, C)
  PROVE  IInv'
BY WaveSound, Searched DEF startEmergencySearch, IInv

\* Steps that change one row of searches and no candidate.
LEMMA SearchSound ==
  ASSUME IInv, NEW p \in Positions, NEW row \in SearchRow,
         UNCHANGED <<pos, slot, apps, conf, req, cand>>,
         search' = [search EXCEPT ![p] = row],
         row.status = "NONE" => search[p].status = "NONE",
         row.status = "SEARCHING" => search[p].status = "SEARCHING" /\ row.wave # "NONE"
  PROVE  IInv'
<1>1. search'[p] = row /\ \A q \in Positions : q # p => search'[q] = search[q]
  BY DEF IInv, TypeOK, ShiftTypeOK
<1>2. TypeOK'
  BY DEF IInv, TypeOK, ShiftTypeOK
<1>3. NoDoubleBooking'
  BY NobodyBooked DEF IInv, Occupied
<1>4. ASSUME NEW q \in Positions PROVE PlaceTrue(q)'
  <2>1. PlaceTrue(q)
    BY DEF IInv
  <2>2. CASE q = p
    BY <1>1, <2>1, <2>2 DEF PlaceTrue, Occupied, Pending, PhaseOf
  <2>3. CASE q # p
    BY <1>1, <2>1, <2>3, LeftAlone
  <2> QED
    BY <2>2, <2>3
<1> QED
  BY <1>2, <1>3, <1>4 DEF IInv

LEMMA advanceSound ==
  ASSUME ShiftConstants, IInv, NEW p \in Positions, NEW C, advanceEmergencySearches(p, C)
  PROVE  IInv'
<1>1. search[p] \in SearchRow /\ search[p].status = "SEARCHING"
  BY DEF advanceEmergencySearches, IInv, TypeOK, ShiftTypeOK
<1>2. CASE pos[p].status = "AVAILABLE"
  BY <1>1, <1>2, WaveSound DEF advanceEmergencySearches
<1>3. CASE pos[p].status # "AVAILABLE"
  <2> DEFINE row == [search[p] EXCEPT !.status = "FILLED"]
  <2>1. row \in SearchRow /\ row.status = "FILLED"
    BY <1>1 DEF SearchRow, SearchStatus
  <2>2. search' = [search EXCEPT ![p] = row] /\ UNCHANGED <<pos, slot, apps, conf, req, cand>>
    BY <1>3 DEF advanceEmergencySearches, IInv, TypeOK, ShiftTypeOK
  <2> HIDE DEF row
  <2> QED
    BY <2>1, <2>2, SearchSound
<1> QED
  BY <1>2, <1>3

LEMMA runsOutSound ==
  ASSUME IInv, NEW p \in Positions, WaveRunsOut(p)
  PROVE  IInv'
<1> DEFINE row == [search[p] EXCEPT !.wave = "OVER"]
<1>1. search[p] \in SearchRow
  BY DEF IInv, TypeOK, ShiftTypeOK
<1>2. row \in SearchRow /\ row.status = search[p].status /\ row.wave = "OVER"
  BY <1>1 DEF SearchRow
<1>3. search' = [search EXCEPT ![p] = row] /\ UNCHANGED <<pos, slot, apps, conf, req, cand>>
  BY DEF WaveRunsOut, IInv, TypeOK, ShiftTypeOK
<1> HIDE DEF row
<1> QED
  BY <1>2, <1>3, SearchSound

LEMMA clockSound ==
  ASSUME ShiftConstants, IInv, NEW s \in Slots, ClockTicks(s)
  PROVE  IInv'
<1>1. PICK S \in SUBSET Slots :
        /\ \A t \in S : slot[t].phase < Ended
        /\ slot' = [t \in Slots |-> IF t \in S THEN [slot[t] EXCEPT !.phase = @ + 1] ELSE slot[t]]
        /\ UNCHANGED <<pos, apps, conf, req, search, cand>>
  BY DEF ClockTicks
<1>2. ASSUME NEW t \in Slots
      PROVE  slot'[t] \in SlotRow /\ slot'[t].status = slot[t].status /\ slot'[t].phase >= slot[t].phase
             /\ slot[t].phase \in Phase /\ slot'[t].phase \in Phase
  <2>1. slot[t] \in SlotRow /\ slot[t].phase \in 0..4
    BY DEF IInv, TypeOK, ShiftTypeOK, SlotRow, Phase
  <2>2. CASE t \in S
    <3>1. slot[t].phase + 1 \in 0..4 /\ slot[t].phase + 1 >= slot[t].phase
      BY <1>1, <2>1, <2>2 DEF Ended
    <3>2. slot'[t] = [slot[t] EXCEPT !.phase = slot[t].phase + 1]
      BY <1>1, <2>2
    <3> QED
      BY <2>1, <3>1, <3>2 DEF SlotRow, Phase
  <2>3. CASE t \notin S
    BY <1>1, <2>1, <2>3 DEF Phase
  <2> QED
    BY <2>2, <2>3
<1>3. TypeOK'
  BY <1>1, <1>2 DEF IInv, TypeOK, ShiftTypeOK
<1>4. NoDoubleBooking'
  BY <1>1, NobodyBooked DEF IInv, Occupied
<1>5. ASSUME NEW p \in Positions PROVE PlaceTrue(p)'
  <2>1. PlaceTrue(p) /\ SlotOf[p] \in Slots
    BY DEF IInv, ShiftConstants
  <2>2. PhaseOf(p) >= Late => PhaseOf(p)' >= Late
    BY <1>2, <2>1 DEF PhaseOf, Late, Phase
  <2> QED
    BY <1>1, <1>2, <2>1, <2>2 DEF PlaceTrue, Occupied, Pending
<1> QED
  BY <1>3, <1>4, <1>5 DEF IInv

LEMMA NextSound ==
  ASSUME ShiftConstants, IInv, Next
  PROVE  IInv'
<1>1. CASE Managers
  <2>1. ASSUME NEW s \in Slots, NEW h \in [Positions \ Quiet -> Regulars \cup {None}],
               createShiftSlot(s, h) \/ createShiftTemplate(s, h)
        PROVE  IInv'
    BY <2>1, createSlotSound, createTemplateSound
  <2>2. ASSUME NEW s \in Slots, generateShiftTemplate(s) PROVE IInv'
    BY <2>2, materializeSound DEF generateShiftTemplate
  <2>3. ASSUME NEW p \in Positions, NEW c \in Couriers,
               approveShiftApplication(c, p) \/ transferShiftPosition(p, c)
        PROVE  IInv'
    BY <2>3, approveApplicationSound, transferSound
  <2>4. ASSUME NEW p \in Positions, cancelShiftPosition(p) \/ rejectShiftChange(p) PROVE IInv'
    BY <2>4, cancelSound, rejectChangeSound
  <2>5. ASSUME NEW p \in Positions, NEW r \in Somebody, approveShiftChange(p, r) PROVE IInv'
    BY <2>5, approveChangeSound
  <2>6. ASSUME NEW p \in Positions, NEW C, startEmergencySearch(p, C) PROVE IInv'
    BY <2>6, startSearchSound
  <2> QED
    BY <1>1, <2>1, <2>2, <2>3, <2>4, <2>5, <2>6 DEF Managers
<1>2. CASE CourierActs
  <2>1. ASSUME NEW p \in Positions, NEW c \in Couriers,
               acceptShiftPosition(c, p) \/ checkinShiftPosition(c, p) \/ checkoutShiftPosition(c, p)
        PROVE  IInv'
    BY <2>1, acceptSound, checkinSound, checkoutSound
  <2>2. ASSUME NEW p \in Positions, NEW c \in Couriers, confirmShift(c, p) \/ declineShift(c, p) PROVE IInv'
    BY <2>2, confirmSound, declineSound
  <2>3. ASSUME NEW p \in Positions, NEW c \in Couriers, NEW suggested \in Somebody,
               requestShiftWithdrawal(c, p, suggested)
        PROVE  IInv'
    BY <2>3, withdrawalSound
  <2> QED
    BY <1>2, <2>1, <2>2, <2>3 DEF CourierActs
<1>3. CASE WorkerActs
  <2>1. ASSUME NEW S \in SUBSET Positions, releaseMissedCheckins(S) \/ createDueShiftConfirmations(S) PROVE IInv'
    BY <2>1, missedSound, ConfirmationsSound
  <2>2. ASSUME NEW p \in Positions, Advance(p) PROVE IInv'
    BY <2>2, advanceSound DEF Advance
  <2>3. ASSUME NEW S \in SUBSET Occurrences, materializeActiveShiftTemplates(S) PROVE IInv'
    BY <2>3, materializeSound DEF materializeActiveShiftTemplates, ShiftConstants
  <2>4. \A S \in SUBSET (Positions \ Quiet) : S \in SUBSET Positions
    OBVIOUS
  <2> QED
    BY <1>3, <2>1, <2>2, <2>3, <2>4 DEF WorkerActs
<1>4. ASSUME NEW s \in Slots, ClockTicks(s) PROVE IInv'
  BY <1>4, clockSound
<1>5. ASSUME NEW p \in Positions, WaveRunsOut(p) PROVE IInv'
  BY <1>5, runsOutSound
<1> QED
  BY <1>1, <1>2, <1>3, <1>4, <1>5 DEF Next

LEMMA ShiftsSound == Spec => []IInv
<1>1. Init => IInv
  <2> SUFFICES ASSUME Init PROVE IInv
    OBVIOUS
  <2>1. TypeOK
    BY ShiftConstants DEF Init, ShiftInit, TypeOK, ShiftTypeOK, PositionRow, SlotRow, SearchRow, PositionStatus,
       SlotStatus, SearchStatus, Somebody, Phase, Ahead, ShiftConstants
  <2>2. \A p \in Positions : PlaceTrue(p)
    BY DEF Init, ShiftInit, PlaceTrue, Occupied, Pending
  <2>3. NoDoubleBooking
    BY DEF Init, ShiftInit, NoDoubleBooking, Occupied
  <2> QED
    BY <2>1, <2>2, <2>3 DEF IInv
<1>2. IInv /\ UNCHANGED shiftVars => IInv'
  BY DEF shiftVars, IInv, TypeOK, ShiftTypeOK, PlaceTrue, NoDoubleBooking, Occupied, Pending, PhaseOf, SameTime
<1>3. IInv /\ [Next]_shiftVars => IInv'
  BY <1>2, NextSound, ShiftConstants
<1> QED
  BY <1>1, <1>3, PTL DEF Spec

(* The handlers, the worker and the clock keep the rows in shape.          *)
THEOREM ShiftsTyped == Spec => []TypeOK
<1>1. IInv => TypeOK
  BY DEF IInv
<1> QED
  BY <1>1, ShiftsSound, PTL

(* Whoever books a courier - accept, approval, replacement, transfer -      *)
(* leaves him with one shift at a time, for any number of slots and places. *)
THEOREM NobodyBookedTwice == Spec => []NoDoubleBooking
<1>1. IInv => NoDoubleBooking
  BY DEF IInv
<1> QED
  BY <1>1, ShiftsSound, PTL

(* The list of open places and the rule of acceptance agree: what is shown *)
(* with the action ACCEPT can be taken.                                    *)
THEOREM ShownPlacesAreOpen == Spec => []ShownPlaceCanBeTaken
<1>1. IInv => ShownPlaceCanBeTaken
  <2> SUFFICES ASSUME IInv, NEW c \in Couriers, NEW p \in Positions,
                      Listed(c, p), nextAction(c, p) = "ACCEPT",
                      PhaseOf(p) < Late, search[p].wave # "OVER", ~hasOverlap(c, p), apps[p][c] = "NONE"
               PROVE  MayTake(p, c)
    BY DEF ShownPlaceCanBeTaken
  <2>1. PlaceTrue(p)
    BY DEF IInv
  <2>2. /\ pos[p].assigned # c
        /\ \/ pos[p].status = "AVAILABLE"
           \/ pos[p].status = "RESERVED" /\ pos[p].holder = c
    BY DEF nextAction
  <2>3. CASE pos[p].status = "RESERVED"
    BY <2>1, <2>2, <2>3 DEF MayTake, SearchAdmits, PlaceTrue
  <2>4. CASE pos[p].status = "AVAILABLE" /\ search[p].status # "SEARCHING"
    BY <2>4 DEF MayTake, SearchAdmits
  <2>5. CASE pos[p].status = "AVAILABLE" /\ search[p].status = "SEARCHING"
    <3>1. PhaseOf(p) \in 0..4 /\ c # None
      BY ShiftConstants DEF ShiftConstants, IInv, TypeOK, ShiftTypeOK, SlotRow, PhaseOf, Phase
    <3>2. pos[p].holder # c
      BY <2>1, <2>5, <3>1 DEF PlaceTrue, Late
    <3>3. cand[p][c] \in {"NOTIFIED", "ACCEPTED"}
      BY <2>2, <2>5, <3>2 DEF Listed
    <3>4. search[p].wave \in {"NONE", "RUNNING", "OVER"}
      BY DEF IInv, TypeOK, ShiftTypeOK, SearchRow
    <3>5. search[p].wave = "RUNNING"
      BY <2>1, <2>5, <3>3, <3>4 DEF PlaceTrue
    <3> QED
      BY <2>5, <3>3, <3>5 DEF MayTake, SearchAdmits
  <2> QED
    BY <2>2, <2>3, <2>4, <2>5
<1> QED
  BY <1>1, ShiftsSound, PTL

(* A courier at work keeps the shift until the check-out after its end,     *)
(* unless a request of before the check-in is approved.                     *)
THEOREM WorkGoesOn == Spec => ActiveShiftGoesOn
<1> DEFINE Kept == \A p \in Positions : AtWork(p) /\ ~Pending(p) =>
                     /\ ~Pending(p)'
                     /\ pos'[p] # pos[p] => /\ pos'[p] = [pos[p] EXCEPT !.status = "COMPLETED"]
                                            /\ PhaseOf(p) = Ended
<1>1. IInv /\ [Next]_shiftVars => Kept
  <2> SUFFICES ASSUME IInv, [Next]_shiftVars, NEW p \in Positions, AtWork(p), ~Pending(p)
               PROVE  /\ ~Pending(p)'
                      /\ pos'[p] # pos[p] => /\ pos'[p] = [pos[p] EXCEPT !.status = "COMPLETED"]
                                             /\ PhaseOf(p) = Ended
    OBVIOUS
  <2> DEFINE Goal == /\ ~Pending(p)'
                     /\ pos'[p] # pos[p] => /\ pos'[p] = [pos[p] EXCEPT !.status = "COMPLETED"]
                                            /\ PhaseOf(p) = Ended
  <2>0. /\ pos[p].status = "ACTIVE" /\ req[p] = NoRequest /\ PlaceTrue(p)
        /\ TypeOK
    BY DEF IInv, AtWork, Pending
  <2>1. ASSUME UNCHANGED <<pos, req>> PROVE Goal
    BY <2>0, <2>1 DEF Pending
  <2>2. ASSUME NEW q \in Positions, NEW c \in Couriers,
               \/ acceptShiftPosition(c, q) \/ approveShiftApplication(c, q)
               \/ checkinShiftPosition(c, q) \/ transferShiftPosition(q, c)
        PROVE  Goal
    <3>1. q # p
      BY <2>0, <2>2 DEF acceptShiftPosition, MayTake, approveShiftApplication, checkinShiftPosition,
         transferShiftPosition, Transferable
    <3>2. pos'[p] = pos[p] /\ req' = req
      BY <2>0, <2>2, <3>1 DEF acceptShiftPosition, approveShiftApplication, checkinShiftPosition,
         transferShiftPosition, Fill, Replace, TypeOK, ShiftTypeOK
    <3> QED
      BY <2>0, <3>2 DEF Pending
  <2>3. ASSUME NEW q \in Positions, NEW c \in Couriers, checkoutShiftPosition(c, q) PROVE Goal
    <3>1. req' = req
      BY <2>3 DEF checkoutShiftPosition
    <3>2. CASE q = p
      BY <2>0, <2>3, <3>1, <3>2 DEF checkoutShiftPosition, Pending, TypeOK, ShiftTypeOK
    <3>3. CASE q # p
      BY <2>0, <2>3, <3>1, <3>3 DEF checkoutShiftPosition, Pending, TypeOK, ShiftTypeOK
    <3> QED
      BY <3>2, <3>3
  <2>4. ASSUME NEW q \in Positions, cancelShiftPosition(q) \/ rejectShiftChange(q) PROVE Goal
    <3>1. pos'[p] = pos[p]
      BY <2>0, <2>4 DEF cancelShiftPosition, rejectShiftChange, TypeOK, ShiftTypeOK
    <3>2. req'[p] = NoRequest
      BY <2>0, <2>4 DEF cancelShiftPosition, rejectShiftChange, TypeOK, ShiftTypeOK
    <3> QED
      BY <3>1, <3>2 DEF Pending
  <2>5. ASSUME NEW q \in Positions, NEW r \in Somebody, approveShiftChange(q, r) PROVE Goal
    <3>1. q # p /\ req'[p] = req[p]
      BY <2>0, <2>5 DEF approveShiftChange, Pending, TypeOK, ShiftTypeOK
    <3>2. pos'[p] = pos[p]
      BY <2>0, <2>5, <3>1 DEF approveShiftChange, Replace, releaseForCoverage, TypeOK, ShiftTypeOK
    <3> QED
      BY <2>0, <3>1, <3>2 DEF Pending
  <2>6. ASSUME NEW q \in Positions, NEW c \in Couriers, NEW s \in Somebody,
               requestShiftWithdrawal(c, q, s) \/ declineShift(c, q)
        PROVE  Goal
    <3>1. q # p /\ pos' = pos
      BY <2>0, <2>6 DEF requestShiftWithdrawal, declineShift, AsksForAnswer
    <3>2. req'[p] = req[p]
      BY <2>0, <2>6, <3>1 DEF requestShiftWithdrawal, declineShift, TypeOK, ShiftTypeOK
    <3> QED
      BY <2>0, <3>1, <3>2 DEF Pending
  <2>7. ASSUME NEW S, releaseMissedCheckins(S) PROVE Goal
    BY <2>0, <2>7 DEF releaseMissedCheckins, Missed, Pending
  <2>8. ASSUME NEW S, NEW h, CreateRows(S, h), \A s \in S : slot[s].status \in {"NONE", "PLANNED"}
        PROVE  Goal
    BY <2>0, <2>8 DEF CreateRows, PlacesOf, PlaceTrue, Pending
  <2>9. ASSUME NEW s, NEW h, createShiftSlot(s, h) \/ createShiftTemplate(s, h) PROVE Goal
    <3>1. slot[s].status = "NONE"
      BY <2>9 DEF createShiftSlot, createShiftTemplate
    <3>2. CASE CreateRows({s}, h)
      BY <2>8, <3>1, <3>2
    <3>3. CASE ~CreateRows({s}, h)
      BY <2>0, <2>9, <3>1, <3>3 DEF createShiftSlot, createShiftTemplate, PlacesOf, PlaceTrue, Pending
    <3> QED
      BY <3>2, <3>3
  <2>10. ASSUME NEW S, materializeTemplate(S) PROVE Goal
    BY <2>8, <2>10 DEF materializeTemplate
  <2>11. ASSUME NEW q, NEW C, startEmergencySearch(q, C) \/ advanceEmergencySearches(q, C) \/ WaveRunsOut(q) PROVE Goal
    BY <2>1, <2>11 DEF startEmergencySearch, advanceEmergencySearches, WaveRunsOut
  <2>12. ASSUME NEW q, NEW c, confirmShift(c, q) \/ createDueShiftConfirmations(q) \/ ClockTicks(q) PROVE Goal
    BY <2>1, <2>12 DEF confirmShift, createDueShiftConfirmations, ClockTicks
  <2> HIDE DEF Goal
  <2>13. ASSUME Managers PROVE Goal
    BY <2>2, <2>4, <2>5, <2>9, <2>10, <2>11, <2>13 DEF Managers, generateShiftTemplate
  <2>14. ASSUME CourierActs PROVE Goal
    <3>1. None \in Somebody
      BY DEF Somebody
    <3> QED
      BY <3>1, <2>14, <2>2, <2>3, <2>6, <2>12 DEF CourierActs
  <2>15. ASSUME WorkerActs PROVE Goal
    BY <2>7, <2>10, <2>11, <2>12, <2>15 DEF WorkerActs, Advance, materializeActiveShiftTemplates
  <2>16. ASSUME UNCHANGED shiftVars PROVE Goal
    BY <2>1, <2>16 DEF shiftVars
  <2>17. Goal
    BY <2>11, <2>12, <2>13, <2>14, <2>15, <2>16 DEF Next
  <2> QED
    BY <2>17 DEF Goal
<1>2. Spec => [][Next]_shiftVars
  BY DEF Spec
<1> HIDE DEF Kept
<1>3. Spec => [][Kept]_shiftVars
  BY <1>1, <1>2, ShiftsSound, PTL
<1> QED
  BY <1>3 DEF ActiveShiftGoesOn, Kept

=============================================================================

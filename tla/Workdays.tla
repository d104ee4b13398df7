------------------------------ MODULE Workdays ------------------------------
(***************************************************************************)
(* One courier, one workday at a store and the deliveries he carries for    *)
(* it: the rows that presence control and live location read and write, the *)
(* cache of positions, and the publications between the two.  A point of    *)
(* the device is known by the moment it was captured; moments are numbers   *)
(* and no two of them see both a capture and a change of a delivery.        *)
(***************************************************************************)
EXTENDS Naturals, FiniteSets

CONSTANTS
  Deliveries,
  None,
  Opens, Closes,  \* the check-in opens two hours before the start; the end of the day
  MaxTime,        \* a bound: the last moment
  MaxPoints,      \* a bound: the points the device captures
  Named           \* a bound: the deliveries that requests of the direct path name

ASSUME PresenceConstants ==
  /\ None \notin Deliveries /\ Opens \in Nat /\ Closes \in Nat /\ MaxTime \in Nat
  /\ Opens < Closes /\ Closes <= MaxTime /\ MaxPoints \in Nat /\ Named \subseteq Deliveries

VARIABLES
  now,
  routed,      \* do the deliveries form one route, or are they single ones?
  first,       \* the delivery whose stop is first among the pending ones of the route
  dlv,         \* dlv[d]: status, out_for_delivery_at and updated_at
  stages,      \* stages[t]: who could follow the courier at moment t (history)
  day,         \* courier_workdays: status, checkin_at and position (captured_at)
  native,      \* is there an unrevoked courier_workday_tracking_session?
  background,  \* the delivery of the unrevoked background_tracking_session
  captured,    \* the points the device captured; any of them may be sent again
  dayPoints,   \* courier_workday_points
  receipts,    \* location_event_receipts
  last,        \* courier_last_locations: the delivery, the moment and who named the delivery
  blind,       \* points whose request found no row in last and has not written yet
  updates,     \* location updates that are committed and not yet published
  cache        \* cache[d]: the snapshot of d in Redis

deliveryVars == <<routed, first, dlv, stages>>
dayVars == <<day, native, background>>
pointVars == <<captured, dayPoints, receipts, last, blind, updates, cache>>
presenceVars == <<now, deliveryVars, dayVars, pointVars>>

Times == 0..MaxTime
NoTime == MaxTime + 1
DayStatus == {"NONE", "PENDING", "CONFIRMED", "DECLINED", "CHECKED_IN", "COMPLETED", "EXPIRED"}
ActiveStatus == {"COLLECTED", "IN_ROUTE", "NEXT_STOP"}
PublicStatus == {"IN_ROUTE", "NEXT_STOP"}

\* SERVER: the workday's upload chose the delivery; CLIENT: the request named it.
Update == [delivery : Deliveries, at : Times, by : {"SERVER", "CLIENT"}, visible : BOOLEAN]

ASSUME NoneIsNoUpdate == None \notin Update

PresenceTypeOK ==
  /\ now \in Times /\ routed \in BOOLEAN /\ first \in Deliveries
  /\ dlv \in [Deliveries -> [status : ActiveStatus \cup {"DELIVERED"},
                             out : Times \cup {NoTime}, upd : Times]]
  /\ stages \in [Times -> SUBSET Deliveries]
  /\ day \in [status : DayStatus, since : Times \cup {NoTime}, pos : Times \cup {NoTime}]
  /\ native \in BOOLEAN /\ background \in Deliveries \cup {None}
  /\ captured \subseteq Times /\ dayPoints \subseteq captured /\ receipts \subseteq captured
  /\ last \in Update \cup {None} /\ blind \subseteq Update /\ updates \subseteq Update
  /\ cache \in [Deliveries -> Update \cup {None}]

PresenceInit ==
  /\ now = 0 /\ routed \in BOOLEAN /\ first \in Deliveries
  /\ routed \/ first = CHOOSE d \in Deliveries : TRUE   \* without a route nobody asks
  /\ dlv = [d \in Deliveries |-> [status |-> "COLLECTED", out |-> NoTime, upd |-> 0]]
  /\ stages = [t \in Times |-> {}]
  /\ day = [status |-> "NONE", since |-> NoTime, pos |-> NoTime]
  /\ native = FALSE /\ background = None
  /\ captured = {} /\ dayPoints = {} /\ receipts = {}
  /\ last = None /\ blind = {} /\ updates = {}
  /\ cache = [d \in Deliveries |-> None]

CheckedIn == day.status = "CHECKED_IN" /\ now < Closes
InHand(d) == dlv[d].status \in ActiveStatus

\* The customer of d may follow the courier: d is out on its own, or the next
\* stop of its route.
Followed(d, status) == status[d] = "NEXT_STOP" \/ (status[d] = "IN_ROUTE" /\ ~routed)

----------------------------------------------------------------------------
(***************************************************************************)
(* src/src/modules/workdays: the answer to the day's call, check-in and     *)
(* check-out, the automatic end of the day and the sessions that let the    *)
(* native service send positions.                                           *)
(***************************************************************************)

DayOnly == UNCHANGED <<now, deliveryVars, pointVars, native, background>>

confirm ==
  /\ day.status = "PENDING" /\ now < Closes
  /\ day' = [day EXCEPT !.status = "CONFIRMED"] /\ DayOnly

decline ==
  /\ day.status = "PENDING" /\ now < Closes
  /\ day' = [day EXCEPT !.status = "DECLINED"] /\ DayOnly

reopenDeclinedWorkday ==
  /\ day.status = "DECLINED" /\ now < Closes
  /\ day' = [day EXCEPT !.status = "PENDING"] /\ DayOnly

\* The check-in carries the consent to share the position.
checkIn ==
  /\ day.status = "CONFIRMED" /\ Opens <= now /\ now < Closes
  /\ day' = [day EXCEPT !.status = "CHECKED_IN", !.since = now] /\ DayOnly

checkOut ==
  /\ day.status = "CHECKED_IN" /\ now >= Closes
  /\ \A d \in Deliveries : ~InHand(d)
  /\ day' = [day EXCEPT !.status = "COMPLETED", !.pos = NoTime]
  /\ native' = FALSE /\ background' = None
  /\ UNCHANGED <<now, deliveryVars, pointVars>>

\* The row of the day once it was created and, after its end, closed.
Reconciled ==
  IF now < Closes
  THEN IF day.status = "NONE" THEN [day EXCEPT !.status = "PENDING"] ELSE day
  ELSE [day EXCEPT !.pos = NoTime,
          !.status = IF @ = "CHECKED_IN" THEN "COMPLETED"
                     ELSE IF @ = "COMPLETED" THEN @ ELSE "EXPIRED"]

\* The application asks for the courier's days: it creates and closes them,
\* and leaves the sessions to the worker.
getMyWorkdays ==
  /\ day' = Reconciled /\ day' # day
  /\ DayOnly

\* Mutant: only sessions of the days that this tick closes are revoked.
maintainClosedOnly ==
  /\ day' = Reconciled
  /\ native' = (native /\ day'.status = day.status)
  /\ UNCHANGED <<now, deliveryVars, pointVars, background>>

maintainWorkdays ==
  /\ day' = Reconciled
  /\ native' = (native /\ day'.status = "CHECKED_IN" /\ now < Closes)
  /\ UNCHANGED <<now, deliveryVars, pointVars, background>>

\* A new session takes the place of the previous one of the day.
createWorkdayTrackingSession ==
  /\ CheckedIn
  /\ native' = TRUE
  /\ UNCHANGED <<now, deliveryVars, pointVars, day, background>>

revokeWorkdayTrackingSession ==
  /\ ~CheckedIn
  /\ native' = FALSE
  /\ UNCHANGED <<now, deliveryVars, pointVars, day, background>>

createBackgroundTrackingSession(d) ==
  /\ CheckedIn /\ InHand(d) /\ d \in Named
  /\ background' = d
  /\ UNCHANGED <<now, deliveryVars, pointVars, day, native>>

revokeBackgroundTrackingSession ==
  /\ background' = None
  /\ UNCHANGED <<now, deliveryVars, pointVars, day, native>>
=============================================================================

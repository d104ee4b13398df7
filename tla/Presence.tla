------------------------------ MODULE Presence ------------------------------
(***************************************************************************)
(* src/src/modules/locations, workday-tracking.service.ts and the customer's *)
(* page (src/src/modules/tracking): how a captured point reaches the last   *)
(* position of the courier, the cache and the customers, beside presence    *)
(* control and the changing deliveries of the courier.                      *)
(***************************************************************************)
EXTENDS Workdays

\* validateLocationPoint, of which only the order of points is kept: one that
\* is too old, inaccurate or too fast is as one that was not captured.
Fresh(t, previous) == previous = NoTime \/ t > previous
LastAt == IF last = None THEN NoTime ELSE last.at

\* Mutant: the last position is whatever was written last.
UpsertAlways(u) == last' = u
\* The upsert of courier_last_locations.
Upsert(u) == last' = IF last = None \/ u.at > last.at THEN u ELSE last

UpdateOf(d, t, who) ==
  [delivery |-> d, at |-> t, by |-> who,
   visible |-> dlv[d].status \in PublicStatus /\ (~routed \/ dlv[d].status = "NEXT_STOP")]

Store(u) ==
  /\ receipts' = receipts \cup {u.at}
  /\ Upsert(u)
  /\ updates' = updates \cup {u}

Accepts(d, t) == t \notin receipts /\ Fresh(t, LastAt) /\ InHand(d) /\ CheckedIn

-----------------------------------------------------------------------------
\* Mutant: a point that waited in the buffer goes to the delivery of today's stage.
CurrentNow(t) ==
  {d \in Deliveries : Followed(d, [e \in Deliveries |-> dlv[e].status]) /\ dlv[d].out <= t}

\* The delivery a workday's point belongs to.  A point that was captured before
\* the delivery last changed belongs to none.
Current(t) ==
  {d \in Deliveries :
     /\ Followed(d, [e \in Deliveries |-> dlv[e].status])
     /\ dlv[d].out <= t /\ dlv[d].upd <= t
     /\ \A e \in Deliveries : dlv[e].status = "IN_ROUTE" /\ dlv[e].out <= t /\ dlv[e].upd <= t
                              => dlv[d].status = "NEXT_STOP" \/ dlv[d].out >= dlv[e].out}

\* processPoints: the row of the day is locked from here to the commit.
ingestWorkdayPoints(t) ==
  /\ t \in captured /\ CheckedIn
  /\ t \notin dayPoints /\ Fresh(t, day.pos) /\ day.since <= t /\ t < Closes
  /\ day' = [day EXCEPT !.pos = t]
  /\ dayPoints' = dayPoints \cup {t}
  /\ IF Current(t) # {} /\ t \notin receipts /\ Fresh(t, LastAt)
     THEN \E d \in Current(t) : Store(UpdateOf(d, t, "SERVER"))
     ELSE UNCHANGED <<receipts, last, updates>>
  /\ UNCHANGED <<now, deliveryVars, native, background, captured, blind, cache>>

ingestNativeWorkdayPoint(t) == native /\ ingestWorkdayPoints(t)

\* A request that names the delivery.  Without a row to lock, two of them may
\* both find no previous position and then write in any order.
ingestLocations(d, t) ==
  /\ d \in Named /\ t \in captured /\ Accepts(d, t)
  /\ IF last = None
     THEN /\ blind' = blind \cup {UpdateOf(d, t, "CLIENT")}
          /\ UNCHANGED <<receipts, last, updates>>
     ELSE Store(UpdateOf(d, t, "CLIENT")) /\ UNCHANGED blind
  /\ UNCHANGED <<now, deliveryVars, dayVars, captured, dayPoints, cache>>

ingestBackgroundLocation(t) ==
  background # None /\ now < Closes /\ ingestLocations(background, t)

writeWithoutPrevious(u) ==
  /\ u \in blind
  /\ blind' = blind \ {u}
  /\ IF u.at \in receipts THEN UNCHANGED <<receipts, last, updates>> ELSE Store(u)
  /\ UNCHANGED <<now, deliveryVars, dayVars, captured, dayPoints, cache>>

-----------------------------------------------------------------------------
\* LocationStateStore: the cache is overwritten, and tells what it has.  One that lost
\* its snapshot is one that publish has not reached.
Put(u) == cache' = [cache EXCEPT ![u.delivery] = u]
Cached(d) == cache[d]

\* After the commit, in any order.
publish(u) ==
  /\ u \in updates
  /\ updates' = updates \ {u}
  /\ Put(u)
  /\ UNCHANGED <<now, deliveryVars, dayVars, captured, dayPoints, receipts, last, blind>>

\* The position that the page of d shows: the newer of cache and row, while d is
\* out and no other stop of the route comes before it.
hasPreviousStops(d) == routed /\ dlv[first].status # "DELIVERED" /\ d # first

selectedLocation(d) ==
  LET row == IF last # None /\ last.delivery = d THEN last ELSE None
      snapshot == Cached(d)
  IN  IF snapshot # None /\ snapshot.visible /\ (row = None \/ snapshot.at > row.at)
      THEN snapshot ELSE row

getPublicTracking(d) ==
  IF dlv[d].status \in PublicStatus /\ ~hasPreviousStops(d) THEN selectedLocation(d) ELSE None

\* The page of a customer who signed in chooses in the same way.
getCustomerTracking(d) == getPublicTracking(d)

(***************************************************************************)
(* The deliveries of the courier, his device and the specification.        *)
(***************************************************************************)
\* The device captures a point; it is sent now, later, twice or never.
Capture ==
  /\ now < MaxTime /\ Cardinality(captured) < MaxPoints
  /\ captured' = captured \cup {now} /\ now' = now + 1
  /\ stages' = [stages EXCEPT ![now] = {d \in Deliveries : Followed(d, [e \in Deliveries |-> dlv[e].status])}]
  /\ UNCHANGED <<routed, first, dlv, dayVars, dayPoints, receipts, last, blind, updates, cache>>

Tick == now < MaxTime /\ now' = now + 1 /\ UNCHANGED <<deliveryVars, dayVars, pointVars>>

\* The deliveries change from outside (route.service.ts, delivery.service.ts):
\* dlv becomes status, and what changed is updated now.
Moves(status) ==
  /\ now < MaxTime /\ now' = now + 1
  /\ dlv' = [d \in Deliveries |->
       IF status[d] = dlv[d].status THEN dlv[d]
       ELSE [status |-> status[d], upd |-> now,
             out |-> IF dlv[d].status = "COLLECTED" THEN now ELSE dlv[d].out]]
  /\ UNCHANGED <<routed, stages, dayVars, pointVars>>

startRoute ==
  /\ routed /\ CheckedIn /\ \A d \in Deliveries : dlv[d].status = "COLLECTED"
  /\ Moves([d \in Deliveries |-> IF d = first THEN "NEXT_STOP" ELSE "IN_ROUTE"])
  /\ UNCHANGED first

startDelivery(d) ==
  /\ ~routed /\ CheckedIn /\ dlv[d].status = "COLLECTED"
  /\ Moves([e \in Deliveries |-> IF e = d THEN "IN_ROUTE" ELSE dlv[e].status])
  /\ UNCHANGED first

\* The end of d; the next destination of a route is promoted.
complete(d) ==
  /\ Followed(d, [e \in Deliveries |-> dlv[e].status])
  /\ \E n \in Deliveries :
       /\ IF routed /\ \E e \in Deliveries : dlv[e].status = "IN_ROUTE"
          THEN dlv[n].status = "IN_ROUTE" /\ first' = n
               /\ Moves([e \in Deliveries |-> IF e = d THEN "DELIVERED"
                                              ELSE IF e = n THEN "NEXT_STOP" ELSE dlv[e].status])
          ELSE n = d /\ UNCHANGED first
               /\ Moves([e \in Deliveries |-> IF e = d THEN "DELIVERED" ELSE dlv[e].status])

\* An urgent destination goes before the current one.
prioritize(d) ==
  /\ routed /\ dlv[d].status = "IN_ROUTE" /\ dlv[first].status = "NEXT_STOP"
  /\ Moves([e \in Deliveries |-> IF e = d THEN "NEXT_STOP"
                                 ELSE IF e = first THEN "IN_ROUTE" ELSE dlv[e].status])
  /\ first' = d

\* What the courier, his device and the manager ask of the workday.
WorkdayRequest ==
  \/ getMyWorkdays
  \/ confirm \/ decline \/ checkIn \/ checkOut \/ reopenDeclinedWorkday
  \/ createWorkdayTrackingSession \/ revokeWorkdayTrackingSession
  \/ \E t \in Times : ingestWorkdayPoints(t) \/ ingestNativeWorkdayPoint(t)

\* What he and his device ask of a delivery's location.
LocationRequest ==
  \/ revokeBackgroundTrackingSession \/ \E d \in Deliveries : createBackgroundTrackingSession(d)
  \/ \E t \in Times : ingestBackgroundLocation(t) \/ \E d \in Deliveries : ingestLocations(d, t)

PresenceNext ==
  \/ Capture \/ Tick
  \/ startRoute \/ \E d \in Deliveries : startDelivery(d) \/ complete(d) \/ prioritize(d)
  \/ WorkdayRequest \/ LocationRequest \/ maintainWorkdays
  \/ \E u \in blind : writeWithoutPrevious(u)
  \/ \E u \in updates : publish(u)

\* The worker keeps calling its maintenance (src/src/workers/notification-worker.ts).
PresenceFairness == WF_presenceVars(maintainWorkdays)
-----------------------------------------------------------------------------
(***************************************************************************)
(* A customer never gets a position of the courier from before or between   *)
(* the times he could follow his own delivery, neither on the page nor by   *)
(* a publication, although points wait in buffers while the stops change,   *)
(* and the cache is written late and in any order.  Points whose delivery   *)
(* the request itself named are not covered.                                *)
(***************************************************************************)
OwnStage(u) == u.by = "SERVER" => u.delivery \in stages[u.at]

CustomersSeeTheirOwnStage ==
  /\ \A u \in updates : u.visible => OwnStage(u)
  /\ \A d \in Deliveries :
       /\ getPublicTracking(d) # None => OwnStage(getPublicTracking(d))
       /\ getCustomerTracking(d) # None => OwnStage(getCustomerTracking(d))

(***************************************************************************)
(* The last position of a courier never goes back in time, through          *)
(* whichever of the four entrances the points come and also when several    *)
(* requests meet a courier who has no last position yet.                    *)
(***************************************************************************)
LastPositionNeverGoesBack ==
  [][last # None => last' # None /\ last'.at >= last.at]_presenceVars

(***************************************************************************)
(* Once the hours of the day are over, the day is closed, its position is   *)
(* gone and the native session is revoked, and it stays so: also when the   *)
(* courier's application closed the day before the worker came by.          *)
(***************************************************************************)
OffDuty == day.status \in {"COMPLETED", "EXPIRED"} /\ day.pos = NoTime /\ ~native

PresenceEnds == (now >= Closes) ~> []OffDuty
=============================================================================

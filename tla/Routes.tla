------------------------------- MODULE Routes -------------------------------
(***************************************************************************)
(* The route batch handlers of route.service.ts.  Each locks the route row *)
(* and reads the stops under that lock; the deliveries are locked one by   *)
(* one.  Here every handler is one step: what happens when a delivery      *)
(* changes between those locks is the subject of a module of its own.      *)
(* ETAs, urgency notes and distances are left out.                         *)
(***************************************************************************)
EXTENDS DispatchRecords, Functions

Sequence(k) == stop[k[1]][k[2]].seq

RouteStops(r) == RouteDeliveries(r) \X StopType

(* createRoute: pickups first, then destinations, both in the order given. *)
createRoute(r, c, S, order) ==
  /\ route[r].status = "NONE"
  /\ Cardinality(S) >= 2
  /\ \A d \in S : /\ delivery[d].status = "AWAITING_COURIER"
                  /\ delivery[d].route = NoOne
                  /\ ActiveOffers(d) = {}
  /\ route' = [route EXCEPT ![r] = [status |-> "DRAFT", courier |-> c]]
  /\ Advance([d \in S |-> <<"ASSIGNED", "AWAITING_PICKUP">>],
             [d \in Deliveries |-> [courier |-> c, route |-> r]])
  /\ stop' = [d \in Deliveries |->
       IF d \in S
       THEN [t \in StopType |-> [status |-> "PENDING",
               seq |-> IF t = "PICKUP" THEN order[d] ELSE Cardinality(S) + order[d]]]
       ELSE stop[d]]
  /\ UNCHANGED <<marketVars, plan, incident>>

(* A sequence for the stops of r: the pickups in the order p, then the     *)
(* destinations in the order q.                                            *)
Sequenced(r, p, q) ==
  [k \in RouteStops(r) |->
     IF k[2] = "PICKUP" THEN p[k[1]] ELSE Cardinality(RouteDeliveries(r)) + q[k[1]]]

Orders(S) == Bijection(S, 1 .. Cardinality(S))

Resequenced(f) ==
  [d \in Deliveries |-> [t \in StopType |->
     IF <<d, t>> \in DOMAIN f THEN [stop[d][t] EXCEPT !.seq = f[<<d, t>>]] ELSE stop[d][t]]]

(* All pickups in some order, then all destinations in some order.         *)
Itineraries(r) ==
  LET n == Cardinality(RouteDeliveries(r))
  IN {[i \in 1 .. n + n |-> IF i <= n THEN <<p[i], "PICKUP">> ELSE <<q[i - n], "DELIVERY">>] :
        p, q \in Bijection(1 .. n, RouteDeliveries(r))}

(* The lists of stop ids that clients submit to reorderRoute; those that   *)
(* repeat ids name one of them once more at the end.                       *)
StopLists(r) ==
  Itineraries(r)
    \cup {Append(l, k) : l \in {i \in Itineraries(r) : RepeatedIds}, k \in RouteStops(r)}

(* reorderRoute.  The checks look at the first place of each id (indexOf), *)
(* the updates leave each stop at its last; the size that is compared with *)
(* the number of stops is that of the set of ids, not of the list.         *)
reorderRoute(r, stopIds) ==
  LET places(k) == {i \in DOMAIN stopIds : stopIds[i] = k}
      first(k) == CHOOSE i \in places(k) : \A j \in places(k) : i <= j
      last(k) == CHOOSE i \in places(k) : \A j \in places(k) : i >= j
  IN /\ route[r].status = "DRAFT"
     /\ \A k \in RouteStops(r) : stop[k[1]][k[2]].status = "PENDING"
     /\ Range(stopIds) = RouteStops(r)
     /\ \A d, e \in RouteDeliveries(r) : first(<<d, "PICKUP">>) < first(<<e, "DELIVERY">>)
     /\ stop' = Resequenced([k \in RouteStops(r) |-> last(k)])
     /\ UNCHANGED <<delivery, history, marketVars, route, plan, incident>>

(* optimizeRoute stores an order of the destinations after the pickups in  *)
(* their present order; the destinations come in the order the distances   *)
(* suggest.                                                                *)
optimizeRoute(r, q) ==
  LET pickupRank == [d \in RouteDeliveries(r) |->
                       Cardinality({e \in RouteDeliveries(r) :
                         stop[e]["PICKUP"].seq <= stop[d]["PICKUP"].seq})]
  IN /\ route[r].status = "DRAFT"
     /\ \A d \in RouteDeliveries(r) : stop[d]["DELIVERY"].status = "PENDING"
     /\ plan' = [plan EXCEPT ![r] = Sequenced(r, pickupRank, q)]
     /\ UNCHANGED <<delivery, history, marketVars, route, stop, incident>>

(* applyRouteSuggestion: the stored sequence, whatever changed since.      *)
applyRouteSuggestion(r) ==
  /\ route[r].status = "DRAFT"
  /\ \A d \in RouteDeliveries(r) : stop[d]["DELIVERY"].status = "PENDING"
  /\ plan[r] # <<>>
  /\ stop' = Resequenced(plan[r])
  /\ UNCHANGED <<delivery, history, marketVars, route, plan, incident>>

(* startRoute: after every pickup, all pending destinations leave at once  *)
(* and the first becomes the next stop.                                    *)
MayStart(r) ==
  /\ route[r].status = "DRAFT"
  /\ \A d \in RouteDeliveries(r) : stop[d]["PICKUP"].status = "COMPLETED"
  /\ PendingDrops(r) # {}
  /\ \A d \in PendingDrops(r) : delivery[d].status = "COLLECTED"

startRoute(r) ==
  LET left == PendingDrops(r)
  IN /\ MayStart(r)
     /\ Advance([d \in left |-> IF d \in FirstOf(left) THEN <<"IN_ROUTE", "NEXT_STOP">>
                                ELSE <<"IN_ROUTE">>], delivery)
     /\ route' = [route EXCEPT ![r].status = "ACTIVE"]
     /\ UNCHANGED <<marketVars, stop, plan, incident>>

(* The guard both kinds of completeRouteStop share: stops close in order.  *)
StopIsNext(d, t) ==
  LET r == delivery[d].route
  IN /\ r # NoOne
     /\ route[r].status \notin {"COMPLETED", "CANCELLED"}
     /\ stop[d][t].status = "PENDING"
     /\ \A k \in RouteStops(r) :
          stop[k[1]][k[2]].status = "PENDING" => Sequence(k) >= stop[d][t].seq

(* completeRouteStop for a PICKUP.                                         *)
completePickup(d) ==
  /\ StopIsNext(d, "PICKUP")
  /\ route[delivery[d].route].status = "DRAFT"
  /\ delivery[d].status = "AWAITING_PICKUP"
  /\ Advance([x \in {d} |-> <<"COLLECTED">>], delivery)
  /\ stop' = [stop EXCEPT ![d]["PICKUP"].status = "COMPLETED"]
  /\ UNCHANGED <<marketVars, route, plan, incident>>

(* completeRouteStop for a DELIVERY: deliver, settle the offer, promote    *)
(* the next pending destination if it is on its way, or close the route.   *)
completeDrop(d) ==
  LET r == delivery[d].route
      promoted == NextInLine(r, d)
  IN /\ StopIsNext(d, "DELIVERY")
     /\ route[r].status = "ACTIVE"
     /\ delivery[d].status = "NEXT_STOP"
     /\ Advance([x \in {d} \cup promoted |-> IF x = d THEN <<"DELIVERED">> ELSE <<"NEXT_STOP">>],
                delivery)
     /\ completeOfferForDelivery(d)
     /\ stop' = [stop EXCEPT ![d]["DELIVERY"].status = "COMPLETED"]
     /\ route' = IF NothingLeft(r, d) THEN [route EXCEPT ![r].status = "COMPLETED"] ELSE route
     /\ UNCHANGED <<plan, incident>>

(* prioritizeRouteStop: d moves in front of the pending destinations, the  *)
(* others keep their order, on the same sequences, and the present next    *)
(* stop steps back.  Nothing but ETAs changes when d is first already.     *)
Prioritized(d, left) ==
  LET seq(e) == stop[e]["DELIVERY"].seq
  IN {f \in Bijection(left, {seq(e) : e \in left}) :
        /\ \A e \in left : f[d] <= f[e]
        /\ \A e, g \in left \ {d} : seq(e) < seq(g) => f[e] < f[g]}

prioritizeRouteStop(d) ==
  LET r == delivery[d].route
      left == PendingDrops(r)
      demoted == {e \in FirstOf(left) : delivery[e].status = "NEXT_STOP"}
  IN /\ r # NoOne
     /\ route[r].status = "ACTIVE"
     /\ d \in left \ FirstOf(left)
     /\ delivery[d].status = "IN_ROUTE"
     /\ Advance([x \in {d} \cup demoted |-> IF x = d THEN <<"NEXT_STOP">> ELSE <<"IN_ROUTE">>],
                delivery)
     /\ \E f \in Prioritized(d, left) :
          stop' = Resequenced([k \in left \X {"DELIVERY"} |-> f[k[1]]])
     /\ UNCHANGED <<marketVars, route, plan, incident>>

RoutesNext ==
  \/ \E r \in Routes :
       \/ \E c \in Couriers, S \in SUBSET Deliveries :
            \E order \in Orders(S) : createRoute(r, c, S, order)
       \/ \E stopIds \in StopLists(r) : reorderRoute(r, stopIds)
       \/ \E q \in Orders(RouteDeliveries(r)) : optimizeRoute(r, q)
       \/ applyRouteSuggestion(r)
       \/ startRoute(r)
  \/ \E d \in Deliveries : completePickup(d) \/ completeDrop(d) \/ prioritizeRouteStop(d)

=============================================================================

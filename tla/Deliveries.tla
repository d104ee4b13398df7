----------------------------- MODULE Deliveries -----------------------------
(***************************************************************************)
(* The handlers of delivery.service.ts that move a delivery, the release   *)
(* of an iFood draft, the cancellation that iFood confirms, and the two    *)
(* writers of a delivery that do not move it: the alerts to its customer   *)
(* and the WhatsApp number collected after an iFood delivery.              *)
(***************************************************************************)
EXTENDS DispatchRecords

(* createDelivery and createDeliveryInTransaction: an iFood order enters   *)
(* as a DRAFT, every other order waits for a courier at once.              *)
createDelivery(d) ==
  LET initialStatus == IF d \in Ifood THEN "DRAFT" ELSE "AWAITING_COURIER"
  IN /\ ~Exists(d)
     /\ delivery' = [delivery EXCEPT ![d].status = initialStatus]
     /\ history' = [history EXCEPT
          ![d] = {[from |-> "NONE", to |-> initialStatus, version |-> 0]}]
     /\ UNCHANGED <<marketVars, routeVars, incident>>

(* releaseDelivery of the iFood integration: only a DRAFT is released.     *)
releaseDelivery(d) ==
  /\ delivery[d].status = "DRAFT"
  /\ applyTransition(d, "AWAITING_COURIER")
  /\ UNCHANGED <<marketVars, routeVars, incident>>

(* assignDelivery takes the row through ASSIGNED to AWAITING_PICKUP.  It   *)
(* looks neither at the marketplace nor at the other work of the courier.  *)
assignDelivery(d, c) ==
  /\ <<delivery[d].status, "ASSIGNED">> \in allowedTransitions
  /\ Advance([x \in {d} |-> <<"ASSIGNED", "AWAITING_PICKUP">>],
             [delivery EXCEPT ![d].courier = c])
  /\ UNCHANGED <<marketVars, routeVars, incident>>

unassignFromRoute(d) ==            \* faulty: also inside a route
  /\ delivery[d].status \in {"ASSIGNED", "AWAITING_PICKUP"}
  /\ ActiveOffers(d) = {}
  /\ Advance([x \in {d} |-> <<"AWAITING_COURIER">>], [delivery EXCEPT ![d].courier = NoOne])
  /\ UNCHANGED <<marketVars, routeVars, incident>>

unassignAfterCollection(d) ==      \* faulty: the goods are on the road
  /\ delivery[d].status \in {"ASSIGNED", "AWAITING_PICKUP", "COLLECTED"}
  /\ delivery[d].route = NoOne
  /\ ActiveOffers(d) = {}
  /\ Advance([x \in {d} |-> <<"AWAITING_COURIER">>], [delivery EXCEPT ![d].courier = NoOne])
  /\ UNCHANGED <<marketVars, routeVars, incident>>

(* unassignDelivery: before collection, outside a route, and never under   *)
(* the feet of the marketplace.                                            *)
unassignDelivery(d) ==
  /\ delivery[d].status \in {"ASSIGNED", "AWAITING_PICKUP"}
  /\ delivery[d].route = NoOne
  /\ ActiveOffers(d) = {}
  /\ Advance([x \in {d} |-> <<"AWAITING_COURIER">>], [delivery EXCEPT ![d].courier = NoOne])
  /\ UNCHANGED <<marketVars, routeVars, incident>>

pickupBesideRoute(d, target) ==    \* faulty: does not ask for the route
  /\ target \in {"COLLECTED", "IN_ROUTE"}
  /\ applyTransition(d, target)
  /\ UNCHANGED <<marketVars, routeVars, incident>>

(* transitionDelivery, action collect or start.                            *)
pickupTransition(d, target) ==
  /\ target \in {"COLLECTED", "IN_ROUTE"}
  /\ delivery[d].route = NoOne
  /\ applyTransition(d, target)
  /\ UNCHANGED <<marketVars, routeVars, incident>>

completeUnsettled(d) ==            \* faulty: the accepted offer is forgotten
  /\ delivery[d].route = NoOne
  /\ applyTransition(d, "DELIVERED")
  /\ UNCHANGED <<marketVars, routeVars, incident>>

(* transitionDelivery, action complete: the accepted offer is settled in   *)
(* the same transaction.                                                   *)
completeDelivery(d) ==
  /\ delivery[d].route = NoOne
  /\ applyTransition(d, "DELIVERED")
  /\ completeOfferForDelivery(d)
  /\ UNCHANGED <<routeVars, incident>>

(* transitionDelivery, action fail: also for a delivery inside a route,    *)
(* whose stop it leaves as it is.  createFailureIncident keeps one         *)
(* incident per delivery version.                                          *)
failDelivery(d, i) ==
  LET source == delivery[d].version + 1
      recorded == \E j \in Incidents : incident[j].delivery = d /\ incident[j].source = source
  IN /\ applyTransition(d, "DELIVERY_FAILED")
     /\ incident[i].status = "NONE"
     /\ incident' = IF recorded THEN incident
                    ELSE [incident EXCEPT ![i] = [status |-> "OPEN", delivery |-> d,
                                                  source |-> source, resolution |-> "NONE"]]
     /\ UNCHANGED <<marketVars, routeVars>>

(* transitionDelivery, action cancel: refused for iFood orders and while   *)
(* an offer is active; a delivery inside a route keeps its stops.          *)
cancelDelivery(d) ==
  /\ d \notin Ifood
  /\ ActiveOffers(d) = {}
  /\ applyTransition(d, "CANCELLED")
  /\ UNCHANGED <<marketVars, routeVars, incident>>

(* cancelExternalDelivery: the delivery, its offers and candidates, its    *)
(* pending stops, and then the route: cancelled when no destination is     *)
(* left, else the next destination takes over from a NEXT_STOP.            *)
cancelExternalDelivery(d) ==
  LET r == delivery[d].route
      promoted == {e \in NextInLine(r, d) : delivery[d].status = "NEXT_STOP"}
  IN /\ d \in Ifood
     /\ <<delivery[d].status, "CANCELLED">> \in allowedTransitions
     /\ Advance([x \in {d} \cup promoted |-> IF x = d THEN <<"CANCELLED">> ELSE <<"NEXT_STOP">>],
                delivery)
     /\ offer' = [o \in Offers |-> IF o \in ActiveOffers(d)
                                   THEN [offer[o] EXCEPT !.status = "CANCELLED"]
                                   ELSE offer[o]]
     /\ candidate' = [o \in Offers |-> [c \in Couriers |->
          IF offer[o].delivery = d /\ candidate[o][c] \in {"NOTIFIED", "ACCEPTED"}
          THEN "LOST" ELSE candidate[o][c]]]
     /\ stop' = [stop EXCEPT ![d] = [t \in StopType |->
          IF r # NoOne /\ stop[d][t].status = "PENDING"
          THEN [stop[d][t] EXCEPT !.status = "SKIPPED"] ELSE stop[d][t]]]
     /\ route' = [x \in Routes |->
          IF x = r /\ NothingLeft(r, d) /\ route[x].status \in {"DRAFT", "ACTIVE"}
          THEN [route[x] EXCEPT !.status = "CANCELLED"] ELSE route[x]]
     /\ UNCHANGED <<ledger, plan, incident>>

(* A writer of the row that is no transition: it raises the version and    *)
(* leaves no row in the history.                                           *)
Touched(d) ==
  /\ delivery[d].version < MaxVersion
  /\ delivery' = [delivery EXCEPT ![d].version = @ + 1]
  /\ UNCHANGED <<history, marketVars, routeVars, incident>>

(* The versions of d that no row of its history accounts for.              *)
Untold(d) == delivery[d].version + 1 - Cardinality(history[d])

(* notifyDeliveryCustomer: the courier has arrived, then waits at the      *)
(* gate, each recorded once; inside a route only for the stop in turn.     *)
(* Until the delivery ends these are all the versions its history skips.   *)
notifyDeliveryCustomer(d) ==
  /\ delivery[d].status \in {"IN_ROUTE", "NEXT_STOP"}
  /\ delivery[d].route # NoOne =>
       /\ stop[d]["DELIVERY"].status = "PENDING"
       /\ \A e \in RouteDeliveries(delivery[d].route), t \in StopType :
            stop[e][t].status = "PENDING" => stop[d]["DELIVERY"].seq <= stop[e][t].seq
  /\ Untold(d) < 2
  /\ Touched(d)

(* linkDeliveryCustomerWhatsapp: a delivered iFood order gets the number   *)
(* of its customer, and the same number again under another key.           *)
linkDeliveryCustomerWhatsapp(d) ==
  /\ d \in Ifood
  /\ delivery[d].status = "DELIVERED"
  /\ Touched(d)

CustomersNext ==
  \E d \in Deliveries : notifyDeliveryCustomer(d) \/ linkDeliveryCustomerWhatsapp(d)

DeliveriesNext ==
  \E d \in Deliveries :
    \/ createDelivery(d)
    \/ releaseDelivery(d)
    \/ \E c \in Couriers : assignDelivery(d, c)
    \/ unassignDelivery(d)
    \/ \E target \in {"COLLECTED", "IN_ROUTE"} : pickupTransition(d, target)
    \/ completeDelivery(d)
    \/ \E i \in Incidents : failDelivery(d, i)
    \/ cancelDelivery(d)
    \/ cancelExternalDelivery(d)

=============================================================================

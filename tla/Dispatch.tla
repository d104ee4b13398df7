------------------------------ MODULE Dispatch ------------------------------
(***************************************************************************)
(* The dispatch subsystem: deliveries, marketplace, route batches and      *)
(* incidents over their shared tables, every handler one committed         *)
(* transaction, in any order.                                              *)
(***************************************************************************)
EXTENDS Deliveries, Marketplace, Routes, Incidents

Next ==
  DeliveriesNext \/ CustomersNext \/ MarketplaceNext \/ RoutesNext \/ IncidentsNext

Spec == Init /\ [][Next]_vars

-----------------------------------------------------------------------------
(* Every row has the shape its table declares.                             *)
TypeOK ==
  /\ delivery \in [Deliveries -> DeliveryRow]
  /\ history \in [Deliveries -> SUBSET HistoryRow]
  /\ offer \in [Offers -> OfferRow]
  /\ candidate \in [Offers -> [Couriers -> CandidateStatus]]
  /\ ledger \subseteq LedgerRow
  /\ route \in [Routes -> RouteRow]
  /\ stop \in [Deliveries -> [StopType -> StopRow]]
  /\ plan = [r \in Routes |-> plan[r]]
  /\ \A r \in Routes : /\ DOMAIN plan[r] \subseteq Deliveries \X StopType
                       /\ plan[r] \in [DOMAIN plan[r] -> Nat]
  /\ incident \in [Incidents -> IncidentRow]

(***************************************************************************)
(* Deliveries and their history.                                           *)
(***************************************************************************)

(* The history tells how a delivery got where it is.  Read in the order of *)
(* its versions, as getDelivery shows it, it begins with the row that      *)
(* created the delivery, each row takes up where the one before it ended   *)
(* by a transition of the table (a route may take the next stop back on    *)
(* its way), and the last one ends in the present status.  Four services   *)
(* write these rows by hand with versions they compute themselves, and     *)
(* two other writers raise the version in between without a row.           *)
HistoryIsTheStory ==
  \A d \in Deliveries : Exists(d) =>
    /\ \A h \in history[d] : h.version <= delivery[d].version
    /\ \E h \in history[d] : h.to = delivery[d].status
                             /\ \A k \in history[d] : k.version <= h.version
    /\ \A h, k \in history[d] : h.version = k.version => h = k
    /\ \A h \in history[d] :
         \/ h.from = "NONE" /\ h.version = 0
         \/ /\ <<h.from, h.to>> \in allowedTransitions \cup {<<"NEXT_STOP", "IN_ROUTE">>}
            /\ \E k \in history[d] :
                 /\ k.version < h.version /\ k.to = h.from
                 /\ \A g \in history[d] : g.version <= k.version \/ g.version >= h.version

(***************************************************************************)
(* The marketplace.                                                        *)
(***************************************************************************)

(* While an offer is accepted, and once it is completed, the delivery is   *)
(* in the hands of its winner and nobody else: neither manual assignment,  *)
(* nor unassignment, nor a route, nor another offer takes it away.  And a  *)
(* courier carries at most one marketplace delivery at a time, however     *)
(* many offers it was notified of.                                         *)
WinnerHoldsDelivery ==
  /\ \A o \in Offers : offer[o].status \in {"ACCEPTED", "COMPLETED"} =>
       /\ offer[o].winner \in Couriers
       /\ delivery[offer[o].delivery].courier = offer[o].winner
       /\ delivery[offer[o].delivery].status \notin {"DRAFT", "AWAITING_COURIER", "CANCELLED"}
       /\ \A c \in Couriers : candidate[o][c] = "ACCEPTED" <=> c = offer[o].winner
  /\ \A o, p \in Offers :
       /\ o # p
       /\ offer[o].status = "ACCEPTED" /\ offer[p].status = "ACCEPTED"
       /\ delivery[offer[o].delivery].status \in BusyStatus
       /\ delivery[offer[p].delivery].status \in BusyStatus
       => offer[o].winner # offer[p].winner

(* Money follows the work.  A courier is paid for a completed offer once,  *)
(* in full, and only for a delivery that was delivered; compensation goes  *)
(* only to the winner of a cancelled offer and within its payout; no offer *)
(* yields both.  And the transaction that delivers settles: a delivered    *)
(* delivery has no accepted offer left and was paid for at most once.      *)
PaidForTheWork ==
  /\ \A e \in ledger :
       /\ e.courier = offer[e.offer].winner
       /\ e.type = "COMPLETION" =>
            /\ offer[e.offer].status = "COMPLETED"
            /\ delivery[offer[e.offer].delivery].status = "DELIVERED"
            /\ e.amount = offer[e.offer].payout
       /\ e.type = "CANCELLATION_COMPENSATION" =>
            /\ offer[e.offer].status = "CANCELLED"
            /\ e.amount <= offer[e.offer].payout
  /\ \A e, f \in ledger : e.offer = f.offer => e = f
  /\ \A o \in Offers : offer[o].status = "COMPLETED" =>
       \E e \in ledger : e.offer = o /\ e.type = "COMPLETION"
  /\ \A d \in Deliveries : delivery[d].status = "DELIVERED" =>
       /\ \A o \in Offers : offer[o].delivery = d => offer[o].status # "ACCEPTED"
       /\ Cardinality({e \in ledger : e.type = "COMPLETION"
                                      /\ offer[e.offer].delivery = d}) <= 1

(***************************************************************************)
(* Route batches.                                                          *)
(***************************************************************************)

(* A delivery inside a route is out of the marketplace for good and is     *)
(* carried by the courier of the route.                                    *)
RoutedOutsideMarketplace ==
  \A d \in Deliveries : delivery[d].route # NoOne =>
    /\ ActiveOffers(d) = {}
    /\ delivery[d].status \notin {"DRAFT", "AWAITING_COURIER"}
    /\ delivery[d].courier = route[delivery[d].route].courier

(* The stops of a route keep distinct places 1 .. 2n and all pickups come  *)
(* before all destinations, through every reordering, stored suggestion,   *)
(* urgency and skipped stop.                                               *)
PickupsComeFirst ==
  \A r \in Routes :
    /\ {Sequence(k) : k \in RouteStops(r)} = 1 .. Cardinality(RouteStops(r))
    /\ \A d, e \in RouteDeliveries(r) : stop[d]["PICKUP"].seq < stop[e]["DELIVERY"].seq

(* A stop says what happened to its delivery: a destination is completed   *)
(* exactly when its delivery was delivered, a pickup was completed if and  *)
(* only if the goods left the store, and only cancellation skips a stop.   *)
StopsTellTheTruth ==
  \A d \in Deliveries : delivery[d].route # NoOne =>
    /\ stop[d]["DELIVERY"].status = "COMPLETED" <=> delivery[d].status = "DELIVERED"
    /\ delivery[d].status \in {"COLLECTED", "IN_ROUTE", "NEXT_STOP", "DELIVERED"}
         => stop[d]["PICKUP"].status = "COMPLETED"
    /\ delivery[d].status = "AWAITING_PICKUP" => stop[d]["PICKUP"].status = "PENDING"
    /\ \A t \in StopType : stop[d][t].status = "SKIPPED" => delivery[d].status = "CANCELLED"

(* The next stop is unique in its route, its destination is pending, and   *)
(* it is the first pending one: the driver is never sent past a stop.      *)
NextStopIsFirst ==
  \A d \in Deliveries : delivery[d].status = "NEXT_STOP" /\ delivery[d].route # NoOne =>
    LET r == delivery[d].route
    IN /\ route[r].status = "ACTIVE"
       /\ d \in PendingDrops(r)
       /\ \A e \in RouteDeliveries(r) \ {d} :
            /\ delivery[e].status # "NEXT_STOP"
            /\ e \in PendingDrops(r) => stop[d]["DELIVERY"].seq < stop[e]["DELIVERY"].seq

(* An active route goes on: while it lasts, some delivery is the next      *)
(* stop, or a pending destination was failed or cancelled on its own.      *)
ActiveRouteGoesOn ==
  \A r \in Routes : route[r].status = "ACTIVE" =>
    \/ \E d \in RouteDeliveries(r) : delivery[d].status = "NEXT_STOP"
    \/ \E d \in PendingDrops(r) :
         delivery[d].status \in {"DELIVERY_FAILED", "RETURN_STARTED", "RETURNED", "CANCELLED"}

(* A closed route leaves no delivery behind on its way.                    *)
ClosedRouteIsDone ==
  \A r \in Routes : route[r].status \in {"COMPLETED", "CANCELLED"} =>
    \A d \in RouteDeliveries(r) :
      delivery[d].status \notin {"COLLECTED", "IN_ROUTE", "NEXT_STOP", "AWAITING_PICKUP"}

(* A route gets to its end: in the order pickups before destinations, with *)
(* a first next stop while it is active, and nothing left on the way when  *)
(* it is closed.                                                           *)
RoutesAdvance ==
  PickupsComeFirst /\ NextStopIsFirst /\ ActiveRouteGoesOn /\ ClosedRouteIsDone

(* A route that has nothing left to collect can leave: when no pickup is   *)
(* pending and every pending destination is collected, startRoute accepts, *)
(* also after iFood cancelled a delivery of the batch.                     *)
ReadyRouteCanStart ==
  \A r \in Routes :
    /\ route[r].status = "DRAFT"
    /\ \A d \in RouteDeliveries(r) : stop[d]["PICKUP"].status # "PENDING"
    /\ PendingDrops(r) # {}
    /\ \A d \in PendingDrops(r) : delivery[d].status = "COLLECTED"
    => MayStart(r)

(***************************************************************************)
(* Incidents and returns.                                                  *)
(***************************************************************************)

(* Goods go back to the store under exactly one incident: a delivery is    *)
(* returning if and only if one incident has its return in progress, and   *)
(* every failed delivery has the incident its failure opened.              *)
ReturnsAreTracked ==
  \A d \in Deliveries :
    /\ delivery[d].status = "RETURN_STARTED" <=>
         \E i \in Incidents : incident[i].status = "RETURN_IN_PROGRESS" /\ incident[i].delivery = d
    /\ \A i, j \in Incidents :
         /\ incident[i].status = "RETURN_IN_PROGRESS" /\ incident[j].status = "RETURN_IN_PROGRESS"
         /\ incident[i].delivery = d /\ incident[j].delivery = d
         => i = j
    /\ delivery[d].status \in {"DELIVERY_FAILED", "RETURN_STARTED", "RETURNED"} =>
         \E i \in Incidents : incident[i].delivery = d /\ incident[i].source # -1

(***************************************************************************)
(* The abstract lifecycle the whole subsystem implements: see              *)
(* DeliveryLifecycle for the moves and for who may hold a delivery.        *)
(***************************************************************************)
Lifecycle == INSTANCE DeliveryLifecycle WITH
  status <- [d \in Deliveries |-> delivery[d].status],
  courier <- [d \in Deliveries |-> delivery[d].courier]

(* Each transaction of each handler is a legal move of the lifecycle or    *)
(* leaves every delivery as it was.                                        *)
ImplementsLifecycle == Lifecycle!Spec

(* The promise of the lifecycle, seen on the deliveries table.             *)
Responsibility == Lifecycle!Responsibility

=============================================================================

-------------------------- MODULE DispatchRecords --------------------------
(***************************************************************************)
(* The tables the dispatch handlers share, and the helpers through which   *)
(* they write them.  One step of the model is one committed transaction:   *)
(* each handler runs inside withTenantTransaction and takes FOR UPDATE     *)
(* locks on the rows it decides on.                                        *)
(*                                                                         *)
(* Left out: addresses, names, audit rows, ETA figures, role checks that   *)
(* only select who may call, and the workday and availability lookups,     *)
(* which may refuse a call but write nothing.                              *)
(***************************************************************************)
EXTENDS DeliveryState, Integers, Sequences, FiniteSets

CONSTANTS
  Deliveries,   \* delivery identifiers
  Ifood,        \* the deliveries whose origin is IFOOD
  Couriers,     \* courier profiles
  Offers,       \* marketplace offer identifiers
  Routes,       \* route batch identifiers
  Incidents,    \* incident identifiers
  Payouts,      \* the payouts a store may offer
  RepeatedIds,  \* whether a client may repeat a stop id when it reorders a route
  NoOne,        \* the null reference of a courier, route or delivery column
  MaxVersion    \* bound: no delivery row goes beyond this version

ASSUME RecordsAssumption ==
  /\ IsFiniteSet(Deliveries) /\ Ifood \subseteq Deliveries
  /\ NoOne \notin Deliveries \cup Couriers \cup Routes
  /\ Payouts \subseteq Nat \ {0}
  /\ RepeatedIds \in BOOLEAN
  /\ MaxVersion \in Nat

VARIABLES
  delivery,     \* deliveries: status, version, courier_profile_id, route_id
  history,      \* delivery_status_history: the rows of each delivery
  offer,        \* delivery_offers, with whether expires_at has passed
  candidate,    \* offer_candidates: the answer of each courier to each offer
  ledger,       \* offer_financial_entries
  route,        \* routes: status and courier
  stop,         \* route_stops of each delivery, one PICKUP and one DELIVERY
  plan,         \* routes.suggested_stop_ids, as the sequence of each stop
  incident      \* incidents: status, delivery, source version, resolution

vars == <<delivery, history, offer, candidate, ledger, route, stop, plan, incident>>
marketVars == <<offer, candidate, ledger>>
routeVars == <<route, stop, plan>>

OfferStatus == {"PUBLISHED", "ACCEPTED", "COMPLETED", "CANCELLED", "EXPIRED"}
CandidateStatus == {"NONE", "NOTIFIED", "ACCEPTED", "LOST", "EXPIRED"}
RouteStatus == {"DRAFT", "ACTIVE", "COMPLETED", "CANCELLED"}
StopType == {"PICKUP", "DELIVERY"}
StopStatus == {"PENDING", "COMPLETED", "SKIPPED"}
IncidentStatus == {"OPEN", "UNDER_REVIEW", "RETURN_IN_PROGRESS", "RESOLVED"}
EntryType == {"COMPLETION", "CANCELLATION_COMPENSATION"}

(* "NONE" is the status of an identifier that no row uses yet.             *)
NoDelivery == [status |-> "NONE", version |-> 0, courier |-> NoOne, route |-> NoOne]
NoOffer == [status |-> "NONE", delivery |-> NoOne, winner |-> NoOne,
            payout |-> 0, lapsed |-> FALSE]
NoRoute == [status |-> "NONE", courier |-> NoOne]
NoStop == [seq |-> 0, status |-> "NONE"]
NoIncident == [status |-> "NONE", delivery |-> NoOne, source |-> -1, resolution |-> "NONE"]

DeliveryRow == [status : DeliveryStatus \cup {"NONE"}, version : Nat,
                courier : Couriers \cup {NoOne}, route : Routes \cup {NoOne}]
OfferRow == [status : OfferStatus \cup {"NONE"}, delivery : Deliveries \cup {NoOne},
             winner : Couriers \cup {NoOne}, payout : Payouts \cup {0}, lapsed : BOOLEAN]
LedgerRow == [offer : Offers, type : EntryType, courier : Couriers \cup {NoOne}, amount : Nat]
RouteRow == [status : RouteStatus \cup {"NONE"}, courier : Couriers \cup {NoOne}]
StopRow == [seq : Nat, status : StopStatus \cup {"NONE"}]
IncidentRow == [status : IncidentStatus \cup {"NONE"}, delivery : Deliveries \cup {NoOne},
                source : Nat \cup {-1}, resolution : {"NONE", "OTHER", "RETURN_TO_STORE"}]
HistoryRow == [from : DeliveryStatus \cup {"NONE"}, to : DeliveryStatus, version : Nat]

Init ==
  /\ delivery = [d \in Deliveries |-> NoDelivery]
  /\ history = [d \in Deliveries |-> {}]
  /\ offer = [o \in Offers |-> NoOffer]
  /\ candidate = [o \in Offers |-> [c \in Couriers |-> "NONE"]]
  /\ ledger = {}
  /\ route = [r \in Routes |-> NoRoute]
  /\ stop = [d \in Deliveries |-> [t \in StopType |-> NoStop]]
  /\ plan = [r \in Routes |-> <<>>]
  /\ incident = [i \in Incidents |-> NoIncident]

-----------------------------------------------------------------------------
(* The history rows of a delivery that passes through the statuses of its  *)
(* path: one per status, with consecutive versions.                        *)
RowsWithStaleVersion(d, path) ==   \* faulty: the version that was read
  {[from |-> delivery[d].status, to |-> path[d][i],
    version |-> delivery[d].version + i - 1] : i \in 1 .. Len(path[d])}

Rows(d, path) ==
  {[from |-> IF i = 1 THEN delivery[d].status ELSE path[d][i - 1],
    to |-> path[d][i],
    version |-> delivery[d].version + i] : i \in 1 .. Len(path[d])}

(* Take each delivery of DOMAIN path through its sequence of statuses in   *)
(* one transaction.  The courier and route columns become those of the     *)
(* rows of owner.                                                          *)
Advance(path, owner) ==
  /\ \A d \in DOMAIN path : delivery[d].version + Len(path[d]) <= MaxVersion
  /\ delivery' = [d \in Deliveries |->
       IF d \in DOMAIN path
       THEN [status |-> path[d][Len(path[d])],
             version |-> delivery[d].version + Len(path[d]),
             courier |-> owner[d].courier, route |-> owner[d].route]
       ELSE delivery[d]]
  /\ history' = [d \in Deliveries |->
       IF d \in DOMAIN path THEN history[d] \cup Rows(d, path) ELSE history[d]]

(* applyTransition: the table decides, and the row moves by one version.   *)
applyTransition(d, target) ==
  /\ <<delivery[d].status, target>> \in allowedTransitions
  /\ Advance([x \in {d} |-> <<target>>], delivery)

Exists(d) == delivery[d].status # "NONE"

ActiveOffers(d) ==
  {o \in Offers : offer[o].delivery = d /\ offer[o].status \in {"PUBLISHED", "ACCEPTED"}}

BusyOnTheRoad(c) ==                \* faulty: until the goods are collected, one is free
  \E d \in Deliveries :
    delivery[d].courier = c /\ delivery[d].status \in BusyStatus \ {"AWAITING_PICKUP"}

Busy(c) == \E d \in Deliveries : delivery[d].courier = c /\ delivery[d].status \in BusyStatus

RouteDeliveries(r) == {d \in Deliveries : delivery[d].route = r}

PendingDrops(r) == {d \in RouteDeliveries(r) : stop[d]["DELIVERY"].status = "PENDING"}

(* The member of S whose DELIVERY stop comes first, as a set.              *)
FirstOf(S) ==
  {d \in S : \A e \in S : stop[d]["DELIVERY"].seq <= stop[e]["DELIVERY"].seq}

NextIncludingItself(r, d) ==       \* faulty: the stop being closed still counts
  {e \in FirstOf(PendingDrops(r)) : delivery[e].status = "IN_ROUTE"}

(* The delivery that becomes the next stop of r when d ends: the one whose *)
(* destination is the first pending one, if it is on its way.              *)
NextInLine(r, d) ==
  {e \in FirstOf(PendingDrops(r) \ {d}) : delivery[e].status = "IN_ROUTE"}

(* No destination of r but that of d is pending.                           *)
NothingLeft(r, d) == PendingDrops(r) \ {d} = {}

Entry(o, type, amount) ==
  [offer |-> o, type |-> type, courier |-> offer[o].winner, amount |-> amount]

(* The ledger after insertFinancialEntry: nothing for an amount of zero,   *)
(* and one entry per offer and type whatever is inserted later.            *)
Posted(entries) ==
  ledger \cup {e \in entries : /\ e.amount > 0
                               /\ \A f \in ledger : <<f.offer, f.type>> # <<e.offer, e.type>>}

(* completeOfferForDelivery, called by whoever delivers d.                 *)
completeOfferForDelivery(d) ==
  LET won == {o \in Offers : offer[o].delivery = d /\ offer[o].status = "ACCEPTED"}
  IN /\ offer' = [o \in Offers |-> IF o \in won
                                   THEN [offer[o] EXCEPT !.status = "COMPLETED"]
                                   ELSE offer[o]]
     /\ ledger' = Posted({Entry(o, "COMPLETION", offer[o].payout) : o \in won})
     /\ UNCHANGED candidate

=============================================================================

--------------------------- MODULE DispatchProofs ---------------------------
(***************************************************************************)
(* Dispatch for any deliveries, couriers, offers, routes and incidents:    *)
(* its types, and that it implements DeliveryLifecycle.  TypeOK is         *)
(* inductive as it stands: one lemma per service, one step per handler.    *)
(* What takes work is the helpers: that Advance writes proper rows for any *)
(* path, and that the last place of a repeated stop id exists.  Custody,   *)
(* and the story of a delivery, its offers and its payments, come after,   *)
(* and then the order of stops and the progress of routes.                 *)
(***************************************************************************)
EXTENDS Dispatch, FiniteSetTheorems, WellFoundedInduction, TLAPS

(* What a path may hold: at least one status for each delivery it moves.   *)
PathOK(path) ==
  \A d \in Deliveries \cap DOMAIN path : path[d] \in Seq(DeliveryStatus) /\ path[d] # <<>>

OwnersOK(owner) ==
  \A d \in Deliveries : owner[d].courier \in Couriers \cup {NoOne}
                        /\ owner[d].route \in Routes \cup {NoOne}

(* Advance writes rows and history of the declared shape.                  *)
LEMMA AdvanceTypes ==
  ASSUME NEW path, NEW owner,
         delivery \in [Deliveries -> DeliveryRow],
         history \in [Deliveries -> SUBSET HistoryRow],
         PathOK(path), OwnersOK(owner), Advance(path, owner)
  PROVE  /\ delivery' \in [Deliveries -> DeliveryRow]
         /\ history' \in [Deliveries -> SUBSET HistoryRow]
<1>1. delivery' \in [Deliveries -> DeliveryRow]
  BY DEF Advance, PathOK, OwnersOK, DeliveryRow
<1>2. ASSUME NEW d \in Deliveries, d \in DOMAIN path
      PROVE  Rows(d, path) \subseteq HistoryRow
  <2> SUFFICES ASSUME NEW i \in 1 .. Len(path[d])
               PROVE  [from |-> IF i = 1 THEN delivery[d].status ELSE path[d][i - 1],
                       to |-> path[d][i],
                       version |-> delivery[d].version + i] \in HistoryRow
    BY DEF Rows
  <2>1. path[d] \in Seq(DeliveryStatus)
    BY <1>2 DEF PathOK
  <2>2. path[d][i] \in DeliveryStatus /\ (i # 1 => path[d][i - 1] \in DeliveryStatus)
    BY <2>1
  <2> QED
    BY <2>2 DEF HistoryRow, DeliveryRow
<1>3. history' \in [Deliveries -> SUBSET HistoryRow]
  BY <1>2 DEF Advance
<1> QED
  BY <1>1, <1>3

(* A path that is the same for all, and the sequences paths are made of.   *)
LEMMA OnePath ==
  ASSUME NEW S, NEW p \in Seq(DeliveryStatus), p # <<>>
  PROVE  PathOK([d \in S |-> p])
  BY Zenon DEF PathOK

LEMMA Statuses ==
  /\ \A s \in DeliveryStatus : <<s>> \in Seq(DeliveryStatus) /\ <<s>> # <<>>
  /\ \A s, t \in DeliveryStatus : <<s, t>> \in Seq(DeliveryStatus) /\ <<s, t>> # <<>>
  OBVIOUS

(* The same for the one move of applyTransition.                           *)
LEMMA TransitionTypes ==
  ASSUME NEW d, NEW target, applyTransition(d, target),
         delivery \in [Deliveries -> DeliveryRow],
         history \in [Deliveries -> SUBSET HistoryRow]
  PROVE  /\ delivery' \in [Deliveries -> DeliveryRow]
         /\ history' \in [Deliveries -> SUBSET HistoryRow]
<1>1. target \in DeliveryStatus
  BY DEF applyTransition, allowedTransitions, Cancellable, DeliveryStatus
<1>2. PathOK([x \in {d} |-> <<target>>])
  BY <1>1, Statuses, OnePath
<1>3. OwnersOK(delivery)
  BY DEF OwnersOK, DeliveryRow
<1> QED
  BY <1>2, <1>3, AdvanceTypes DEF applyTransition

(* Settling the accepted offers of a delivery keeps offers and ledger.     *)
LEMMA SettlementTypes ==
  ASSUME NEW d, TypeOK, completeOfferForDelivery(d)
  PROVE  offer' \in [Offers -> OfferRow] /\ ledger' \subseteq LedgerRow /\ candidate' = candidate
<1>1. \A o \in Offers : [offer[o] EXCEPT !.status = "COMPLETED"] \in OfferRow
  BY DEF TypeOK, OfferRow, OfferStatus
<1>2. offer' \in [Offers -> OfferRow]
  BY <1>1 DEF completeOfferForDelivery, TypeOK
<1>3. \A o \in Offers : Entry(o, "COMPLETION", offer[o].payout) \in LedgerRow
  BY RecordsAssumption DEF TypeOK, Entry, LedgerRow, OfferRow, EntryType
<1>4. ledger' \subseteq LedgerRow
  BY <1>3 DEF completeOfferForDelivery, Posted, TypeOK
<1> QED
  BY <1>2, <1>4 DEF completeOfferForDelivery

-----------------------------------------------------------------------------
(* The handlers keep the types.  Each leaf names its handler and the       *)
(* helpers through which it writes.                                        *)

LEMMA DeliveriesTypes == TypeOK /\ DeliveriesNext => TypeOK'
<1> SUFFICES ASSUME TypeOK, NEW d \in Deliveries,
                    \/ createDelivery(d)
                    \/ releaseDelivery(d)
                    \/ \E c \in Couriers : assignDelivery(d, c)
                    \/ unassignDelivery(d)
                    \/ \E target \in {"COLLECTED", "IN_ROUTE"} : pickupTransition(d, target)
                    \/ completeDelivery(d)
                    \/ \E i \in Incidents : failDelivery(d, i)
                    \/ cancelDelivery(d)
                    \/ cancelExternalDelivery(d)
             PROVE  TypeOK'
  BY DEF DeliveriesNext
<1> USE RecordsAssumption DEF TypeOK, marketVars, routeVars
<1>0. OwnersOK(delivery)
  BY DEF DeliveryRow, OwnersOK
<1>1. CASE createDelivery(d)
  <2>1. {"DRAFT", "AWAITING_COURIER"} \subseteq DeliveryStatus
    BY DEF DeliveryStatus
  <2>2. \A row \in DeliveryRow, st \in DeliveryStatus : [row EXCEPT !.status = st] \in DeliveryRow
    BY DEF DeliveryRow
  <2>3. \A st \in DeliveryStatus : [from |-> "NONE", to |-> st, version |-> 0] \in HistoryRow
    BY DEF HistoryRow
  <2> QED
    BY <1>1, <2>1, <2>2, <2>3 DEF createDelivery
<1>2. CASE releaseDelivery(d)
  BY <1>2, TransitionTypes DEF releaseDelivery
<1>3. ASSUME NEW c \in Couriers, assignDelivery(d, c) PROVE TypeOK'
  <2>1. PathOK([x \in {d} |-> <<"ASSIGNED", "AWAITING_PICKUP">>])
    BY DEF PathOK, DeliveryStatus
  <2>2. OwnersOK([delivery EXCEPT ![d].courier = c])
    BY <1>0 DEF OwnersOK
  <2> QED
    BY <1>3, <2>1, <2>2, AdvanceTypes DEF assignDelivery
<1>4. CASE unassignDelivery(d)
  <2>1. PathOK([x \in {d} |-> <<"AWAITING_COURIER">>])
    BY DEF PathOK, DeliveryStatus
  <2>2. OwnersOK([delivery EXCEPT ![d].courier = NoOne])
    BY <1>0 DEF OwnersOK
  <2> QED
    BY <1>4, <2>1, <2>2, AdvanceTypes DEF unassignDelivery
<1>5. ASSUME NEW target, pickupTransition(d, target) PROVE TypeOK'
  BY <1>5, TransitionTypes DEF pickupTransition
<1>6. CASE completeDelivery(d)
  BY <1>6, TransitionTypes, SettlementTypes DEF completeDelivery
<1>7. ASSUME NEW i \in Incidents, failDelivery(d, i) PROVE TypeOK'
  <2>1. delivery[d].version + 1 \in Nat
    BY DEF DeliveryRow
  <2>2. incident' \in [Incidents -> IncidentRow]
    BY <1>7, <2>1 DEF failDelivery, IncidentRow, IncidentStatus
  <2> QED
    BY <1>7, <2>2, TransitionTypes DEF failDelivery
<1>8. CASE cancelDelivery(d)
  BY <1>8, TransitionTypes DEF cancelDelivery
<1>9. CASE cancelExternalDelivery(d)
  <2>1. PICK S : Advance([x \in {d} \cup S |->
                            IF x = d THEN <<"CANCELLED">> ELSE <<"NEXT_STOP">>], delivery)
    BY <1>9 DEF cancelExternalDelivery
  <2>2. /\ <<"CANCELLED">> \in Seq(DeliveryStatus) /\ <<"CANCELLED">> # <<>>
        /\ <<"NEXT_STOP">> \in Seq(DeliveryStatus) /\ <<"NEXT_STOP">> # <<>>
    BY DEF DeliveryStatus
  <2>3. PathOK([x \in {d} \cup S |-> IF x = d THEN <<"CANCELLED">> ELSE <<"NEXT_STOP">>])
    BY <2>2, Zenon DEF PathOK
  <2>4. /\ delivery' \in [Deliveries -> DeliveryRow]
        /\ history' \in [Deliveries -> SUBSET HistoryRow]
    BY <1>0, <2>1, <2>3, AdvanceTypes
  <2>5. offer' \in [Offers -> OfferRow]
    <3>1. \A o \in Offers : [offer[o] EXCEPT !.status = "CANCELLED"] \in OfferRow
      BY DEF OfferRow, OfferStatus
    <3> QED
      BY <1>9, <3>1 DEF cancelExternalDelivery
  <2>6. candidate' \in [Offers -> [Couriers -> CandidateStatus]]
    BY <1>9 DEF cancelExternalDelivery, CandidateStatus
  <2>7. stop' \in [Deliveries -> [StopType -> StopRow]]
    <3>1. \A s \in StopRow : [s EXCEPT !.status = "SKIPPED"] \in StopRow
      BY DEF StopRow, StopStatus
    <3> QED
      BY <1>9, <3>1 DEF cancelExternalDelivery
  <2>8. route' \in [Routes -> RouteRow]
    <3>1. \A row \in RouteRow : [row EXCEPT !.status = "CANCELLED"] \in RouteRow
      BY DEF RouteRow, RouteStatus
    <3> QED
      BY <1>9, <3>1 DEF cancelExternalDelivery
  <2> QED
    BY <1>9, <2>4, <2>5, <2>6, <2>7, <2>8 DEF cancelExternalDelivery
<1> QED
  BY <1>1, <1>2, <1>3, <1>4, <1>5, <1>6, <1>7, <1>8, <1>9

(* The writers that leave no history raise one version, and that is all.   *)
LEMMA OnlyVersions ==
  ASSUME TypeOK, CustomersNext
  PROVE  /\ UNCHANGED <<history, offer, candidate, ledger, route, stop, plan, incident>>
         /\ delivery' \in [Deliveries -> DeliveryRow]
         /\ \A x \in Deliveries : /\ delivery'[x].status = delivery[x].status
                                 /\ delivery'[x].courier = delivery[x].courier
                                 /\ delivery'[x].route = delivery[x].route
                                 /\ \/ delivery'[x].version = delivery[x].version
                                    \/ /\ delivery'[x].version = delivery[x].version + 1
                                       /\ Exists(x)
<1>1. PICK d \in Deliveries : Touched(d) /\ delivery[d].status \in {"IN_ROUTE", "NEXT_STOP", "DELIVERED"}
  BY DEF CustomersNext, notifyDeliveryCustomer, linkDeliveryCustomerWhatsapp
<1>2. delivery[d] \in DeliveryRow
  BY DEF TypeOK
<1>3. UNCHANGED <<history, offer, candidate, ledger, route, stop, plan, incident>>
  BY <1>1 DEF Touched, marketVars, routeVars
<1>4. /\ delivery'[d] = [delivery[d] EXCEPT !.version = delivery[d].version + 1]
      /\ \A x \in Deliveries : x # d => delivery'[x] = delivery[x]
      /\ delivery' = [delivery EXCEPT ![d] = [delivery[d] EXCEPT !.version = delivery[d].version + 1]]
  BY <1>1 DEF Touched, TypeOK
<1>5. /\ [delivery[d] EXCEPT !.version = delivery[d].version + 1] \in DeliveryRow
      /\ delivery'[d].status = delivery[d].status /\ delivery'[d].courier = delivery[d].courier
      /\ delivery'[d].route = delivery[d].route /\ delivery'[d].version = delivery[d].version + 1
  BY <1>2, <1>4 DEF DeliveryRow
<1>6. delivery' \in [Deliveries -> DeliveryRow]
  BY <1>4, <1>5 DEF TypeOK
<1> QED
  BY <1>1, <1>3, <1>4, <1>5, <1>6 DEF Exists

LEMMA CustomersTypes == TypeOK /\ CustomersNext => TypeOK'
  BY OnlyVersions DEF TypeOK

LEMMA MarketplaceTypes == TypeOK /\ MarketplaceNext => TypeOK'
<1> SUFFICES ASSUME TypeOK, MarketplaceNext PROVE TypeOK'
  OBVIOUS
<1>p. \A S : PathOK([x \in S |-> <<"ASSIGNED", "AWAITING_PICKUP">>])
  <2>1. /\ <<"ASSIGNED", "AWAITING_PICKUP">> \in Seq(DeliveryStatus)
        /\ <<"ASSIGNED", "AWAITING_PICKUP">> # <<>>
    BY Statuses DEF DeliveryStatus
  <2> QED
    BY <2>1, OnePath
<1>q. \A S : PathOK([x \in S |-> <<"AWAITING_COURIER">>])
  <2>1. <<"AWAITING_COURIER">> \in Seq(DeliveryStatus) /\ <<"AWAITING_COURIER">> # <<>>
    BY Statuses DEF DeliveryStatus
  <2> QED
    BY <2>1, OnePath
<1> USE RecordsAssumption DEF TypeOK, marketVars, routeVars
<1>0. OwnersOK(delivery)
  BY DEF DeliveryRow, OwnersOK
<1>a. \A o \in Offers : offer[o] \in OfferRow
  OBVIOUS
<1>b. \A o \in Offers, st \in OfferStatus : [offer[o] EXCEPT !.status = st] \in OfferRow
  BY <1>a DEF OfferRow
<1>c. {"PUBLISHED", "ACCEPTED", "CANCELLED", "EXPIRED"} \subseteq OfferStatus
  BY DEF OfferStatus
<1>1. ASSUME NEW o \in Offers, NEW d \in Deliveries, NEW S \in SUBSET Couriers,
             NEW p \in Payouts, createDeliveryOffer(o, d, S, p)
      PROVE  TypeOK'
  <2>1. [status |-> "PUBLISHED", delivery |-> d, winner |-> NoOne, payout |-> p,
         lapsed |-> FALSE] \in OfferRow
    BY DEF OfferRow, OfferStatus
  <2> QED
    BY <1>1, <2>1 DEF createDeliveryOffer, CandidateStatus
<1>2. ASSUME NEW o \in Offers, NEW c \in Couriers, acceptDeliveryOffer(o, c)
      PROVE  TypeOK'
  <2>1. PathOK([x \in {offer[o].delivery} |-> <<"ASSIGNED", "AWAITING_PICKUP">>])
    BY <1>p
  <2>2. OwnersOK([delivery EXCEPT ![offer[o].delivery].courier = c])
    BY <1>0 DEF OwnersOK
  <2>3. Advance([x \in {offer[o].delivery} |-> <<"ASSIGNED", "AWAITING_PICKUP">>],
                [delivery EXCEPT ![offer[o].delivery].courier = c])
    BY <1>2, Zenon DEF acceptDeliveryOffer
  <2>4. delivery' \in [Deliveries -> DeliveryRow] /\ history' \in [Deliveries -> SUBSET HistoryRow]
    BY <2>1, <2>2, <2>3, AdvanceTypes
  <2>5. offer' \in [Offers -> OfferRow]
    <3>1. [offer[o] EXCEPT !.status = "ACCEPTED", !.winner = c] \in OfferRow
      BY <1>a, <1>c DEF OfferRow
    <3>2. offer' = [offer EXCEPT ![o] = [offer[o] EXCEPT !.status = "ACCEPTED", !.winner = c]]
      BY <1>2 DEF acceptDeliveryOffer
    <3> QED
      BY <3>1, <3>2
  <2>6. candidate' \in [Offers -> [Couriers -> CandidateStatus]]
    BY <1>2 DEF acceptDeliveryOffer, CandidateStatus
  <2> QED
    BY <1>2, <2>4, <2>5, <2>6 DEF acceptDeliveryOffer
<1>3. ASSUME NEW o \in Offers, NEW p \in Payouts, reviseDeliveryOfferPrice(o, p)
      PROVE  TypeOK'
  <2>1. [offer[o] EXCEPT !.payout = p] \in OfferRow
    BY <1>a DEF OfferRow
  <2> QED
    BY <1>3, <2>1 DEF reviseDeliveryOfferPrice
<1>4. ASSUME NEW o \in Offers, NEW byStore \in BOOLEAN, NEW compensation \in Payouts \cup {0},
             cancelDeliveryOffer(o, byStore, compensation)
      PROVE  TypeOK'
  <2> DEFINE d == offer[o].delivery
             accepted == offer[o].status = "ACCEPTED"
             owner == IF accepted THEN [delivery EXCEPT ![d].courier = NoOne] ELSE delivery
  <2>1. PathOK([x \in IF accepted THEN {d} ELSE {} |-> <<"AWAITING_COURIER">>])
    BY <1>q
  <2>2. OwnersOK(owner)
    BY <1>0 DEF OwnersOK
  <2>3. Advance([x \in IF accepted THEN {d} ELSE {} |-> <<"AWAITING_COURIER">>], owner)
    BY <1>4 DEF cancelDeliveryOffer
  <2>4. delivery' \in [Deliveries -> DeliveryRow] /\ history' \in [Deliveries -> SUBSET HistoryRow]
    <3> HIDE DEF d, accepted, owner
    <3> QED
      BY <2>1, <2>2, <2>3, AdvanceTypes
  <2>5. offer' \in [Offers -> OfferRow]
    BY <1>4, <1>b, <1>c DEF cancelDeliveryOffer
  <2>6. candidate' \in [Offers -> [Couriers -> CandidateStatus]]
    BY <1>4 DEF cancelDeliveryOffer, CandidateStatus
  <2>7. Entry(o, "CANCELLATION_COMPENSATION", compensation) \in LedgerRow
    BY <1>a DEF Entry, LedgerRow, OfferRow, EntryType
  <2>8. ledger' \subseteq LedgerRow
    BY <1>4, <2>7 DEF cancelDeliveryOffer, Posted
  <2> QED
    BY <1>4, <2>4, <2>5, <2>6, <2>8 DEF cancelDeliveryOffer
<1>5. ASSUME NEW o \in Offers, OfferLapses(o) PROVE TypeOK'
  <2>1. [offer[o] EXCEPT !.lapsed = TRUE] \in OfferRow
    BY <1>a DEF OfferRow
  <2> QED
    BY <1>5, <2>1 DEF OfferLapses
<1>6. ASSUME NEW S \in SUBSET Offers, expireDeliveryOffers(S) PROVE TypeOK'
  <2>1. offer' \in [Offers -> OfferRow]
    BY <1>6, <1>b, <1>c DEF expireDeliveryOffers
  <2>2. candidate' \in [Offers -> [Couriers -> CandidateStatus]]
    BY <1>6 DEF expireDeliveryOffers, CandidateStatus
  <2> QED
    BY <1>6, <2>1, <2>2 DEF expireDeliveryOffers
<1> QED
  BY <1>1, <1>2, <1>3, <1>4, <1>5, <1>6 DEF MarketplaceNext

LEMMA IncidentsTypes == TypeOK /\ IncidentsNext => TypeOK'
<1> SUFFICES ASSUME TypeOK, NEW i \in Incidents,
                    \/ \E d \in Deliveries : openIncident(i, d)
                    \/ reviewIncident(i)
                    \/ resolveIncident(i)
                    \/ startReturn(i)
                    \/ completeReturn(i)
             PROVE  TypeOK'
  BY DEF IncidentsNext
<1> USE DEF TypeOK, marketVars, routeVars
<1>0. /\ \A st \in IncidentStatus : [incident[i] EXCEPT !.status = st] \in IncidentRow
      /\ \A st \in IncidentStatus : \A res \in {"OTHER", "RETURN_TO_STORE"} :
           [incident[i] EXCEPT !.status = st, !.resolution = res] \in IncidentRow
  BY DEF IncidentRow
<1>1. {"UNDER_REVIEW", "RESOLVED", "RETURN_IN_PROGRESS"} \subseteq IncidentStatus
  BY DEF IncidentStatus
<1>2. ASSUME NEW d \in Deliveries, openIncident(i, d) PROVE TypeOK'
  BY <1>2 DEF openIncident, IncidentRow, IncidentStatus
<1>3. CASE reviewIncident(i)
  BY <1>0, <1>1, <1>3 DEF reviewIncident
<1>4. CASE resolveIncident(i)
  <2>1. incident' = [incident EXCEPT ![i] =
                       [incident[i] EXCEPT !.status = "RESOLVED", !.resolution = "OTHER"]]
    BY <1>4 DEF resolveIncident
  <2> QED
    BY <1>0, <1>1, <1>4, <2>1 DEF resolveIncident
<1>5. CASE startReturn(i)
  <2>1. incident' = [incident EXCEPT ![i] = [incident[i] EXCEPT
                       !.status = "RETURN_IN_PROGRESS", !.resolution = "RETURN_TO_STORE"]]
    BY <1>5 DEF startReturn
  <2>2. delivery' \in [Deliveries -> DeliveryRow] /\ history' \in [Deliveries -> SUBSET HistoryRow]
    BY <1>5, TransitionTypes DEF startReturn
  <2>3. incident' \in [Incidents -> IncidentRow]
    BY <1>0, <1>1, <2>1
  <2> QED
    BY <1>5, <2>2, <2>3 DEF startReturn
<1>6. CASE completeReturn(i)
  <2>1. delivery' \in [Deliveries -> DeliveryRow] /\ history' \in [Deliveries -> SUBSET HistoryRow]
    BY <1>6, TransitionTypes DEF completeReturn
  <2>2. incident' \in [Incidents -> IncidentRow]
    BY <1>0, <1>1, <1>6 DEF completeReturn
  <2> QED
    BY <1>6, <2>1, <2>2 DEF completeReturn
<1> QED
  BY <1>2, <1>3, <1>4, <1>5, <1>6

-----------------------------------------------------------------------------
(* Stops and sequences.                                                    *)

LEMMA MaximumExists ==
  ASSUME NEW S \in SUBSET Nat, S # {}, NEW n \in Nat, \A i \in S : i <= n
  PROVE  \E m \in S : \A i \in S : m >= i
<1> DEFINE Above(i) == {j \in 0 .. n : j > i}
           T == {Above(i) : i \in S}
<1>1. T \subseteq FiniteSubsetsOf(0 .. n) /\ T # {}
  <2>1. IsFiniteSet(0 .. n)
    BY FS_Interval
  <2>2. \A i \in S : Above(i) \subseteq 0 .. n /\ IsFiniteSet(Above(i))
    BY <2>1, FS_Subset
  <2> HIDE DEF Above
  <2> QED
    BY <2>2 DEF FiniteSubsetsOf
<1>2. PICK A \in T : \A B \in T : <<B, A>> \notin StrictSubsetOrdering(0 .. n)
  BY <1>1, WFMin, FS_StrictSubsetOrderingWellFounded
<1>3. PICK m \in S : A = Above(m)
  OBVIOUS
<1>4. ASSUME NEW i \in S, i > m PROVE FALSE
  <2>1. Above(i) \subseteq Above(m) /\ i \in Above(m) /\ i \notin Above(i)
    BY <1>4
  <2>2. Above(i) \in SUBSET (0 .. n) /\ Above(m) \in SUBSET (0 .. n)
    OBVIOUS
  <2> HIDE DEF Above
  <2>3. <<Above(i), Above(m)>> \in StrictSubsetOrdering(0 .. n)
    BY <2>1, <2>2 DEF StrictSubsetOrdering
  <2> QED
    BY <1>2, <1>3, <2>3
<1> QED
  BY <1>4

LEMMA RouteCount ==
  ASSUME NEW S \in SUBSET Deliveries
  PROVE  Cardinality(S) \in Nat
  BY RecordsAssumption, FS_Subset, FS_CardinalityType

LEMMA ResequencedTypes ==
  ASSUME stop \in [Deliveries -> [StopType -> StopRow]],
         NEW f, \A k \in DOMAIN f : f[k] \in Nat
  PROVE  Resequenced(f) \in [Deliveries -> [StopType -> StopRow]]
<1>1. \A row \in StopRow, n \in Nat : [row EXCEPT !.seq = n] \in StopRow
  BY DEF StopRow
<1> QED
  BY <1>1 DEF Resequenced

(* The last place of a submitted stop exists and is a number.              *)
LEMMA ReorderTypes ==
  ASSUME NEW r \in Routes, NEW stopIds \in StopLists(r), TypeOK, reorderRoute(r, stopIds)
  PROVE  stop' \in [Deliveries -> [StopType -> StopRow]]
<1> DEFINE places(k) == {i \in DOMAIN stopIds : stopIds[i] = k}
           last(k) == CHOOSE i \in places(k) : \A j \in places(k) : i >= j
           n == Cardinality(RouteDeliveries(r))
<1>1. n \in Nat
  BY RouteCount DEF RouteDeliveries
<1>2. \A i \in DOMAIN stopIds : i \in Nat /\ i <= n + n + 1
  <2>1. ASSUME NEW list \in Itineraries(r)
        PROVE  list \in [1 .. n + n -> RouteStops(r)]
    <3>1. PICK p \in Bijection(1 .. n, RouteDeliveries(r)),
               q \in Bijection(1 .. n, RouteDeliveries(r)) :
            list = [i \in 1 .. n + n |-> IF i <= n THEN <<p[i], "PICKUP">>
                                        ELSE <<q[i - n], "DELIVERY">>]
      BY DEF Itineraries
    <3>2. /\ p \in [1 .. n -> RouteDeliveries(r)]
          /\ q \in [1 .. n -> RouteDeliveries(r)]
      BY DEF Bijection, Injection
    <3>3. \A i \in 1 .. n + n : i <= n => p[i] \in RouteDeliveries(r)
      BY <1>1, <3>2
    <3>4. \A i \in 1 .. n + n : ~(i <= n) => q[i - n] \in RouteDeliveries(r)
      BY <1>1, <3>2
    <3> QED
      BY <3>1, <3>3, <3>4 DEF RouteStops, StopType
  <2>2. ASSUME NEW list \in Itineraries(r)
        PROVE  list \in Seq(RouteStops(r)) /\ Len(list) = n + n
    BY <1>1, <2>1
  <2>3. \/ stopIds \in Itineraries(r)
        \/ \E list \in Itineraries(r), k \in RouteStops(r) : stopIds = Append(list, k)
    BY DEF StopLists
  <2>4. Len(stopIds) <= n + n + 1 /\ DOMAIN stopIds = 1 .. Len(stopIds) /\ Len(stopIds) \in Nat
    BY <1>1, <2>2, <2>3
  <2> QED
    BY <1>1, <2>4
<1>3. \A k \in RouteStops(r) : places(k) # {}
  BY DEF reorderRoute, Range
<1>4. \A k \in RouteStops(r) : last(k) \in Nat
  <2> TAKE k \in RouteStops(r)
  <2>1. places(k) \in SUBSET Nat /\ \A i \in places(k) : i <= n + n + 1
    BY <1>2
  <2>2. \E m \in places(k) : \A i \in places(k) : m >= i
    <3>1. n + n + 1 \in Nat
      BY <1>1
    <3>2. places(k) # {}
      BY <1>3
    <3> HIDE DEF places, n
    <3> QED
      BY <2>1, <3>1, <3>2, MaximumExists
  <2> QED
    BY <2>1, <2>2
<1>5. stop' = Resequenced([k \in RouteStops(r) |-> last(k)])
  BY DEF reorderRoute
<1> HIDE DEF last
<1> QED
  BY <1>4, <1>5, ResequencedTypes DEF TypeOK

LEMMA OptimizeTypes ==
  ASSUME NEW r \in Routes, NEW q \in Orders(RouteDeliveries(r)), optimizeRoute(r, q)
  PROVE  /\ plan' = [plan EXCEPT ![r] = plan'[r]] \/ r \notin DOMAIN plan
         /\ r \in DOMAIN plan => /\ DOMAIN plan'[r] \subseteq Deliveries \X StopType
                                 /\ plan'[r] \in [DOMAIN plan'[r] -> Nat]
<1> DEFINE rank == [d \in RouteDeliveries(r) |->
                       Cardinality({e \in RouteDeliveries(r) :
                         stop[e]["PICKUP"].seq <= stop[d]["PICKUP"].seq})]
<1>1. plan' = [plan EXCEPT ![r] = Sequenced(r, rank, q)]
  BY DEF optimizeRoute
<1>2. \A d \in RouteDeliveries(r) : rank[d] \in Nat
  BY RouteCount DEF RouteDeliveries
<1>3. Cardinality(RouteDeliveries(r)) \in Nat
  BY RouteCount DEF RouteDeliveries
<1>4. \A d \in RouteDeliveries(r) : q[d] \in Nat
  BY <1>3 DEF Orders, Bijection, Injection
<1> HIDE DEF rank
<1>5. \A k \in RouteStops(r) : Sequenced(r, rank, q)[k] \in Nat
  BY <1>2, <1>3, <1>4 DEF Sequenced, RouteStops
<1>6. /\ DOMAIN Sequenced(r, rank, q) = RouteStops(r)
      /\ RouteStops(r) \subseteq Deliveries \X StopType
      /\ Sequenced(r, rank, q) = [k \in RouteStops(r) |-> Sequenced(r, rank, q)[k]]
  BY DEF Sequenced, RouteStops, RouteDeliveries
<1> QED
  BY <1>1, <1>5, <1>6

LEMMA RoutesTypes == TypeOK /\ RoutesNext => TypeOK'
<1> SUFFICES ASSUME TypeOK, RoutesNext PROVE TypeOK'
  OBVIOUS
<1>p. /\ \A S : PathOK([x \in S |-> <<"ASSIGNED", "AWAITING_PICKUP">>])
      /\ \A S : PathOK([x \in S |-> <<"COLLECTED">>])
      /\ \A S, T : PathOK([x \in S |-> IF x \in T THEN <<"IN_ROUTE", "NEXT_STOP">>
                                       ELSE <<"IN_ROUTE">>])
      /\ \A S, d : PathOK([x \in S |-> IF x = d THEN <<"DELIVERED">> ELSE <<"NEXT_STOP">>])
      /\ \A S, d : PathOK([x \in S |-> IF x = d THEN <<"NEXT_STOP">> ELSE <<"IN_ROUTE">>])
  <2>1. /\ <<"ASSIGNED", "AWAITING_PICKUP">> \in Seq(DeliveryStatus)
        /\ <<"ASSIGNED", "AWAITING_PICKUP">> # <<>>
        /\ <<"COLLECTED">> \in Seq(DeliveryStatus) /\ <<"COLLECTED">> # <<>>
    BY Statuses DEF DeliveryStatus
  <2>2. /\ <<"IN_ROUTE", "NEXT_STOP">> \in Seq(DeliveryStatus)
        /\ <<"IN_ROUTE", "NEXT_STOP">> # <<>>
        /\ <<"IN_ROUTE">> \in Seq(DeliveryStatus) /\ <<"IN_ROUTE">> # <<>>
        /\ <<"DELIVERED">> \in Seq(DeliveryStatus) /\ <<"DELIVERED">> # <<>>
        /\ <<"NEXT_STOP">> \in Seq(DeliveryStatus) /\ <<"NEXT_STOP">> # <<>>
    BY Statuses DEF DeliveryStatus
  <2>3. /\ \A S : PathOK([x \in S |-> <<"ASSIGNED", "AWAITING_PICKUP">>])
        /\ \A S : PathOK([x \in S |-> <<"COLLECTED">>])
    BY <2>1, OnePath
  <2>4. \A S, T : PathOK([x \in S |-> IF x \in T THEN <<"IN_ROUTE", "NEXT_STOP">>
                                     ELSE <<"IN_ROUTE">>])
    BY <2>2, Zenon DEF PathOK
  <2>5. \A S, d : PathOK([x \in S |-> IF x = d THEN <<"DELIVERED">> ELSE <<"NEXT_STOP">>])
    BY <2>2, Zenon DEF PathOK
  <2>6. \A S, d : PathOK([x \in S |-> IF x = d THEN <<"NEXT_STOP">> ELSE <<"IN_ROUTE">>])
    BY <2>2, Zenon DEF PathOK
  <2> QED
    BY <2>3, <2>4, <2>5, <2>6
<1>o. OwnersOK(delivery)
  BY DEF TypeOK, DeliveryRow, OwnersOK
<1>t. \A path, owner : PathOK(path) /\ OwnersOK(owner) /\ Advance(path, owner) =>
        /\ delivery' \in [Deliveries -> DeliveryRow]
        /\ history' \in [Deliveries -> SUBSET HistoryRow]
  BY AdvanceTypes DEF TypeOK
<1>1. ASSUME NEW r \in Routes, NEW c \in Couriers, NEW S \in SUBSET Deliveries,
             NEW order \in Orders(S), createRoute(r, c, S, order)
      PROVE  TypeOK'
  <2>1. OwnersOK([d \in Deliveries |-> [courier |-> c, route |-> r]])
    BY DEF OwnersOK
  <2>2. /\ delivery' \in [Deliveries -> DeliveryRow]
        /\ history' \in [Deliveries -> SUBSET HistoryRow]
    BY <1>p, <1>t, <1>1, <2>1 DEF createRoute
  <2>3. Cardinality(S) \in Nat
    BY RouteCount
  <2>4. \A d \in S : order[d] \in Nat
    BY <2>3 DEF Orders, Bijection, Injection
  <2>5. \A n \in Nat : [status |-> "PENDING", seq |-> n] \in StopRow
    BY DEF StopRow, StopStatus
  <2>6. stop' \in [Deliveries -> [StopType -> StopRow]]
    <3>1. \A d \in S, t \in StopType :
            [status |-> "PENDING",
             seq |-> IF t = "PICKUP" THEN order[d] ELSE Cardinality(S) + order[d]] \in StopRow
      BY <2>3, <2>4, <2>5
    <3> QED
      BY <1>1, <3>1 DEF createRoute, TypeOK
  <2>7. route' \in [Routes -> RouteRow]
    BY <1>1 DEF createRoute, TypeOK, RouteRow, RouteStatus
  <2> QED
    BY <1>1, <2>2, <2>6, <2>7 DEF createRoute, TypeOK, marketVars
<1>2. ASSUME NEW r \in Routes, NEW stopIds \in StopLists(r), reorderRoute(r, stopIds)
      PROVE  TypeOK'
  BY <1>2, ReorderTypes DEF reorderRoute, TypeOK, marketVars
<1>3. ASSUME NEW r \in Routes, NEW q \in Orders(RouteDeliveries(r)), optimizeRoute(r, q)
      PROVE  TypeOK'
  <2>1. DOMAIN plan = Routes
    BY DEF TypeOK
  <2>2. /\ plan' = [plan EXCEPT ![r] = plan'[r]]
        /\ DOMAIN plan'[r] \subseteq Deliveries \X StopType
        /\ plan'[r] \in [DOMAIN plan'[r] -> Nat]
    BY <1>3, <2>1, OptimizeTypes
  <2>3. \A x \in Routes : x # r => plan'[x] = plan[x]
    BY <2>1, <2>2
  <2>4. DOMAIN plan' = Routes
    BY <2>1, <2>2
  <2>5. \A x \in Routes : /\ DOMAIN plan'[x] \subseteq Deliveries \X StopType
                          /\ plan'[x] \in [DOMAIN plan'[x] -> Nat]
    BY <2>2, <2>3 DEF TypeOK
  <2>6. plan' = [x \in Routes |-> plan'[x]]
    BY <2>1, <2>2
  <2> QED
    BY <1>3, <2>5, <2>6 DEF optimizeRoute, TypeOK, marketVars
<1>4. ASSUME NEW r \in Routes, applyRouteSuggestion(r) PROVE TypeOK'
  <2>1. \A k \in DOMAIN plan[r] : plan[r][k] \in Nat
    BY DEF TypeOK
  <2>2. stop' \in [Deliveries -> [StopType -> StopRow]]
    BY <1>4, <2>1, ResequencedTypes DEF applyRouteSuggestion, TypeOK
  <2> QED
    BY <1>4, <2>2 DEF applyRouteSuggestion, TypeOK, marketVars
<1>5. ASSUME NEW r \in Routes, startRoute(r) PROVE TypeOK'
  <2>1. /\ delivery' \in [Deliveries -> DeliveryRow]
        /\ history' \in [Deliveries -> SUBSET HistoryRow]
    BY <1>p, <1>o, <1>t, <1>5 DEF startRoute
  <2>2. [route[r] EXCEPT !.status = "ACTIVE"] \in RouteRow
    BY DEF TypeOK, RouteRow, RouteStatus
  <2> QED
    BY <1>5, <2>1, <2>2 DEF startRoute, TypeOK, marketVars
<1>6. \A d \in Deliveries, t \in StopType :
        [stop[d][t] EXCEPT !.status = "COMPLETED"] \in StopRow
  BY DEF TypeOK, StopRow, StopStatus
<1>7. ASSUME NEW d \in Deliveries, completePickup(d) PROVE TypeOK'
  <2>1. /\ delivery' \in [Deliveries -> DeliveryRow]
        /\ history' \in [Deliveries -> SUBSET HistoryRow]
    BY <1>p, <1>o, <1>t, <1>7 DEF completePickup
  <2>2. stop' \in [Deliveries -> [StopType -> StopRow]]
    BY <1>6, <1>7 DEF completePickup, TypeOK, StopType
  <2> QED
    BY <1>7, <2>1, <2>2 DEF completePickup, TypeOK, marketVars
<1>8. ASSUME NEW d \in Deliveries, completeDrop(d) PROVE TypeOK'
  <2>1. /\ delivery' \in [Deliveries -> DeliveryRow]
        /\ history' \in [Deliveries -> SUBSET HistoryRow]
    BY <1>p, <1>o, <1>t, <1>8 DEF completeDrop
  <2>2. stop' \in [Deliveries -> [StopType -> StopRow]]
    BY <1>6, <1>8 DEF completeDrop, TypeOK, StopType
  <2>3. \A r \in Routes : [route[r] EXCEPT !.status = "COMPLETED"] \in RouteRow
    BY DEF TypeOK, RouteRow, RouteStatus
  <2>4. route' \in [Routes -> RouteRow]
    BY <1>8, <2>3 DEF completeDrop, TypeOK
  <2>5. /\ offer' \in [Offers -> OfferRow] /\ ledger' \subseteq LedgerRow
        /\ candidate' = candidate
    BY <1>8, SettlementTypes DEF completeDrop
  <2> QED
    BY <1>8, <2>1, <2>2, <2>4, <2>5 DEF completeDrop, TypeOK
<1>9. ASSUME NEW d \in Deliveries, prioritizeRouteStop(d) PROVE TypeOK'
  <2> DEFINE left == PendingDrops(delivery[d].route)
  <2>1. /\ delivery' \in [Deliveries -> DeliveryRow]
        /\ history' \in [Deliveries -> SUBSET HistoryRow]
    BY <1>p, <1>o, <1>t, <1>9 DEF prioritizeRouteStop
  <2>2. PICK f \in Prioritized(d, left) :
          stop' = Resequenced([k \in left \X {"DELIVERY"} |-> f[k[1]]])
    BY <1>9 DEF prioritizeRouteStop
  <2>3. \A e \in left : stop[e]["DELIVERY"].seq \in Nat
    BY DEF PendingDrops, RouteDeliveries, TypeOK, StopRow, StopType
  <2>4. \A e \in left : f[e] \in Nat
    BY <2>3 DEF Prioritized, Bijection, Injection
  <2>5. stop' \in [Deliveries -> [StopType -> StopRow]]
    <3> HIDE DEF left
    <3> QED
      BY <2>2, <2>4, ResequencedTypes DEF TypeOK
  <2> QED
    BY <1>9, <2>1, <2>5 DEF prioritizeRouteStop, TypeOK, marketVars
<1> QED
  BY <1>1, <1>2, <1>3, <1>4, <1>5, <1>7, <1>8, <1>9 DEF RoutesNext

-----------------------------------------------------------------------------
(* Every row of every table keeps the shape its table declares.            *)
THEOREM DispatchTypes == Spec => []TypeOK
<1>1. Init => TypeOK
  BY DEF Init, TypeOK, DeliveryRow, OfferRow, RouteRow, StopRow, IncidentRow, CandidateStatus,
         NoDelivery, NoOffer, NoRoute, NoStop, NoIncident
<1>2. TypeOK /\ [Next]_vars => TypeOK'
  <2>1. TypeOK /\ UNCHANGED vars => TypeOK'
    BY DEF TypeOK, vars
  <2> QED
    BY <2>1, DeliveriesTypes, CustomersTypes, MarketplaceTypes, IncidentsTypes, RoutesTypes DEF Next
<1> QED
  BY <1>1, <1>2, PTL DEF Spec

(***************************************************************************)
(* Custody.  The moves of single deliveries follow from the guards of the  *)
(* handlers, except for two: giving a delivery back must find it           *)
(* AWAITING_PICKUP, and a next stop may step back only for a delivery of   *)
(* the same courier.  Both need an invariant, Custody: ASSIGNED is never   *)
(* committed, and a delivery inside a route is carried by the courier of   *)
(* the route and has no active offer through which another handler could   *)
(* take it away.                                                           *)
(***************************************************************************)
Custody ==
  \A d \in Deliveries :
    /\ delivery[d].status # "ASSIGNED"
    /\ delivery[d].route # NoOne =>
         /\ ActiveOffers(d) = {}
         /\ delivery[d].status \notin {"NONE", "DRAFT", "AWAITING_COURIER"}
         /\ route[delivery[d].route].status # "NONE"
         /\ delivery[d].courier = route[delivery[d].route].courier

IInv == TypeOK /\ Custody

(* What one step does to one delivery, in the terms of the lifecycle.      *)
Moves(d) ==
  \/ Lifecycle!Enter(d) \/ Lifecycle!Take(d) \/ Lifecycle!GiveBack(d) \/ Lifecycle!Proceed(d)
  \/ Lifecycle!LeaveAsNext(d) \/ Lifecycle!StepBack(d) \/ Lifecycle!Stay(d)

(* Offers only end, or begin for a delivery that waits for a courier.      *)
OffersStayOut ==
  \A d \in Deliveries : delivery[d].route # NoOne /\ ActiveOffers(d) = {} => ActiveOffers(d)' = {}

(* Route rows in use stay in use and keep their courier.                   *)
RoutesKept ==
  \A r \in Routes : route[r].status # "NONE" =>
    route'[r].status # "NONE" /\ route'[r].courier = route[r].courier

(* What custody asks of one delivery after a step.                         *)
InCustody(d) ==
  /\ delivery'[d].status # "ASSIGNED"
  /\ \/ delivery'[d].route = NoOne
     \/ /\ delivery'[d].route = delivery[d].route
        /\ delivery'[d].courier = delivery[d].courier
        /\ delivery'[d].status \notin {"NONE", "DRAFT", "AWAITING_COURIER"}

LEMMA CustodyKept ==
  ASSUME TypeOK, Custody, OffersStayOut, RoutesKept, \A d \in Deliveries : InCustody(d)
  PROVE  Custody'
<1> SUFFICES ASSUME NEW d \in Deliveries
             PROVE  /\ delivery'[d].status # "ASSIGNED"
                    /\ delivery'[d].route # NoOne =>
                         /\ ActiveOffers(d)' = {}
                         /\ delivery'[d].status \notin {"NONE", "DRAFT", "AWAITING_COURIER"}
                         /\ route'[delivery'[d].route].status # "NONE"
                         /\ delivery'[d].courier = route'[delivery'[d].route].courier
  BY DEF Custody
<1>1. delivery[d].route \in Routes \cup {NoOne}
  BY DEF TypeOK, DeliveryRow
<1> QED
  BY <1>1 DEF Custody, OffersStayOut, RoutesKept, InCustody

(* A delivery that a step leaves alone moves nowhere and stays in custody. *)
LEMMA Unmoved ==
  ASSUME Custody, NEW d \in Deliveries, delivery'[d] = delivery[d]
  PROVE  Moves(d) /\ InCustody(d)
  BY DEF Custody, InCustody, Moves, Lifecycle!Stay

(* Advance, one delivery at a time.                                        *)
LEMMA Advanced ==
  ASSUME NEW path, NEW owner, Advance(path, owner), NEW d \in Deliveries
  PROVE  /\ d \in DOMAIN path => /\ delivery'[d].status = path[d][Len(path[d])]
                                /\ delivery'[d].courier = owner[d].courier
                                /\ delivery'[d].route = owner[d].route
         /\ d \notin DOMAIN path => delivery'[d] = delivery[d]
  BY DEF Advance

(* applyTransition moves one delivery within its custody.                  *)
LEMMA Transitioned ==
  ASSUME TypeOK, Custody, NEW d, NEW target, applyTransition(d, target),
         target \notin {"ASSIGNED", "AWAITING_COURIER"} \/ delivery[d].status = "DRAFT"
  PROVE  \A x \in Deliveries : Moves(x) /\ InCustody(x)
<1> SUFFICES ASSUME NEW x \in Deliveries PROVE Moves(x) /\ InCustody(x)
  OBVIOUS
<1>1. Advance([y \in {d} |-> <<target>>], delivery)
  BY DEF applyTransition
<1>2. /\ d \in Deliveries => /\ delivery'[d].status = target
                            /\ delivery'[d].courier = delivery[d].courier
                            /\ delivery'[d].route = delivery[d].route
      /\ \A y \in Deliveries : y # d => delivery'[y] = delivery[y]
  BY <1>1 DEF Advance
<1>3. CASE x = d
  <2>1. <<delivery[d].status, target>> \in allowedTransitions
    BY DEF applyTransition
  <2>2. target # "ASSIGNED" /\ (target = "AWAITING_COURIER" => delivery[d].status = "DRAFT")
    BY <2>1 DEF allowedTransitions, Cancellable
  <2>3. target \notin {"NONE", "DRAFT"}
    BY <2>1 DEF allowedTransitions, Cancellable
  <2>4. InCustody(x)
    BY <1>2, <1>3, <2>2, <2>3 DEF InCustody, Custody
  <2>5. Lifecycle!Proceed(x)
    BY <1>2, <1>3, <2>1, <2>2 DEF Lifecycle!Proceed, Lifecycle!allowedTransitions, Lifecycle!Cancellable, allowedTransitions, Cancellable
  <2> QED
    BY <2>4, <2>5 DEF Moves
<1>4. CASE x # d
  BY <1>2, <1>4, Unmoved
<1> QED
  BY <1>3, <1>4

-----------------------------------------------------------------------------
(* The handlers.                                                           *)

LEMMA DeliveriesCustody ==
  ASSUME IInv, DeliveriesNext
  PROVE  Custody' /\ \A x \in Deliveries : Moves(x)
<1>0. TypeOK /\ Custody
  BY DEF IInv
<1> SUFFICES OffersStayOut /\ RoutesKept /\ \A x \in Deliveries : Moves(x) /\ InCustody(x)
  BY <1>0, CustodyKept
<1> PICK d \in Deliveries :
       \/ createDelivery(d)
       \/ releaseDelivery(d)
       \/ \E c \in Couriers : assignDelivery(d, c)
       \/ unassignDelivery(d)
       \/ \E target \in {"COLLECTED", "IN_ROUTE"} : pickupTransition(d, target)
       \/ completeDelivery(d)
       \/ \E i \in Incidents : failDelivery(d, i)
       \/ cancelDelivery(d)
       \/ cancelExternalDelivery(d)
  BY DEF DeliveriesNext
<1>a. \A x \in Deliveries : delivery'[x] = delivery[x] => Moves(x) /\ InCustody(x)
  BY <1>0, Unmoved
<1>b. UNCHANGED marketVars => OffersStayOut
  BY DEF OffersStayOut, ActiveOffers, marketVars
<1>c. UNCHANGED routeVars => RoutesKept
  BY DEF RoutesKept, routeVars
<1>1. CASE createDelivery(d)
  <2>1. /\ delivery'[d].status \in {"DRAFT", "AWAITING_COURIER"}
        /\ delivery'[d].courier = delivery[d].courier
        /\ delivery'[d].route = delivery[d].route
        /\ delivery[d].status = "NONE"
        /\ \A x \in Deliveries : x # d => delivery'[x] = delivery[x]
    BY <1>0, <1>1 DEF createDelivery, Exists, TypeOK, DeliveryRow
  <2>2. Moves(d) /\ InCustody(d)
    BY <1>0, <2>1 DEF Moves, Lifecycle!Enter, InCustody, Custody
  <2> QED
    BY <1>1, <1>a, <1>b, <1>c, <2>1, <2>2 DEF createDelivery
<1>2. CASE releaseDelivery(d)
  BY <1>0, <1>2, <1>b, <1>c, Transitioned DEF releaseDelivery
<1>3. ASSUME NEW c \in Couriers, assignDelivery(d, c)
      PROVE  OffersStayOut /\ RoutesKept /\ \A x \in Deliveries : Moves(x) /\ InCustody(x)
  <2>1. /\ delivery'[d].status = "AWAITING_PICKUP"
        /\ delivery'[d].courier = c
        /\ delivery'[d].route = delivery[d].route
        /\ \A x \in Deliveries : x # d => delivery'[x] = delivery[x]
    BY <1>0, <1>3 DEF assignDelivery, Advance, TypeOK, DeliveryRow
  <2>2. delivery[d].status = "AWAITING_COURIER"
    BY <1>3 DEF assignDelivery, allowedTransitions, Cancellable
  <2>3. Moves(d) /\ InCustody(d)
    BY <1>0, <2>1, <2>2 DEF Moves, Lifecycle!Take, InCustody, Custody
  <2> QED
    BY <1>3, <1>a, <1>b, <1>c, <2>1, <2>3 DEF assignDelivery
<1>4. CASE unassignDelivery(d)
  <2>1. /\ delivery'[d].status = "AWAITING_COURIER"
        /\ delivery'[d].courier = NoOne
        /\ delivery'[d].route = NoOne
        /\ \A x \in Deliveries : x # d => delivery'[x] = delivery[x]
    BY <1>0, <1>4 DEF unassignDelivery, Advance, TypeOK, DeliveryRow
  <2>2. delivery[d].status = "AWAITING_PICKUP"
    BY <1>0, <1>4 DEF unassignDelivery, Custody
  <2>3. Moves(d) /\ InCustody(d)
    BY <2>1, <2>2 DEF Moves, Lifecycle!GiveBack, InCustody
  <2> QED
    BY <1>4, <1>a, <1>b, <1>c, <2>1, <2>3 DEF unassignDelivery
<1>5. ASSUME NEW target, pickupTransition(d, target)
      PROVE  OffersStayOut /\ RoutesKept /\ \A x \in Deliveries : Moves(x) /\ InCustody(x)
  BY <1>0, <1>5, <1>b, <1>c, Transitioned DEF pickupTransition
<1>6. CASE completeDelivery(d)
  <2>1. OffersStayOut
    BY <1>6 DEF completeDelivery, completeOfferForDelivery, OffersStayOut, ActiveOffers
  <2> QED
    BY <1>0, <1>6, <1>c, <2>1, Transitioned DEF completeDelivery
<1>7. ASSUME NEW i \in Incidents, failDelivery(d, i)
      PROVE  OffersStayOut /\ RoutesKept /\ \A x \in Deliveries : Moves(x) /\ InCustody(x)
  BY <1>0, <1>7, <1>b, <1>c, Transitioned DEF failDelivery
<1>8. CASE cancelDelivery(d)
  BY <1>0, <1>8, <1>b, <1>c, Transitioned DEF cancelDelivery
<1>9. CASE cancelExternalDelivery(d)
  <2>1. OffersStayOut
    BY <1>9 DEF cancelExternalDelivery, OffersStayOut, ActiveOffers
  <2>2. RoutesKept
    BY <1>9 DEF cancelExternalDelivery, RoutesKept
  <2>3. PICK S : /\ \A e \in S : e # d /\ delivery[e].status = "IN_ROUTE"
                 /\ Advance([x \in {d} \cup S |->
                              IF x = d THEN <<"CANCELLED">> ELSE <<"NEXT_STOP">>], delivery)
    BY <1>9 DEF cancelExternalDelivery, NextInLine, FirstOf
  <2>4. \A x \in Deliveries :
          /\ delivery'[x].courier = delivery[x].courier /\ delivery'[x].route = delivery[x].route
          /\ x = d => delivery'[x].status = "CANCELLED"
          /\ x \in S => delivery'[x].status = "NEXT_STOP"
          /\ x # d /\ x \notin S => delivery'[x] = delivery[x]
    BY <2>3 DEF Advance
  <2>5. <<delivery[d].status, "CANCELLED">> \in allowedTransitions
    BY <1>9 DEF cancelExternalDelivery
  <2>6. Moves(d) /\ InCustody(d)
    BY <1>0, <2>4, <2>5
       DEF Moves, Lifecycle!Proceed, Lifecycle!allowedTransitions, Lifecycle!Cancellable, allowedTransitions, Cancellable, InCustody
  <2>7. \A x \in S \cap Deliveries : Moves(x) /\ InCustody(x)
    BY <1>0, <2>3, <2>4 DEF Moves, Lifecycle!Proceed, Lifecycle!allowedTransitions, Lifecycle!Cancellable, InCustody
  <2> QED
    BY <1>a, <2>1, <2>2, <2>4, <2>6, <2>7
<1> QED
  BY <1>1, <1>2, <1>3, <1>4, <1>5, <1>6, <1>7, <1>8, <1>9

LEMMA CustomersCustody ==
  ASSUME IInv, CustomersNext
  PROVE  Custody' /\ \A x \in Deliveries : Moves(x)
<1>0. TypeOK /\ Custody
  BY DEF IInv
<1>1. OffersStayOut /\ RoutesKept
  BY <1>0, OnlyVersions DEF OffersStayOut, ActiveOffers, RoutesKept
<1>2. \A x \in Deliveries : Moves(x) /\ InCustody(x)
  BY <1>0, OnlyVersions DEF Custody, InCustody, Moves, Lifecycle!Stay
<1> QED
  BY <1>0, <1>1, <1>2, CustodyKept

LEMMA IncidentsCustody ==
  ASSUME IInv, IncidentsNext
  PROVE  Custody' /\ \A x \in Deliveries : Moves(x)
<1>0. TypeOK /\ Custody
  BY DEF IInv
<1>1. OffersStayOut /\ RoutesKept
  BY DEF IncidentsNext, openIncident, reviewIncident, resolveIncident, startReturn,
         completeReturn, OffersStayOut, RoutesKept, ActiveOffers, marketVars, routeVars
<1>2. \A x \in Deliveries : delivery'[x] = delivery[x] => Moves(x) /\ InCustody(x)
  BY <1>0, Unmoved
<1>3. \A i \in Incidents : startReturn(i) \/ completeReturn(i) =>
        \A x \in Deliveries : Moves(x) /\ InCustody(x)
  BY <1>0, Transitioned DEF startReturn, completeReturn
<1>4. \A x \in Deliveries : Moves(x) /\ InCustody(x)
  BY <1>2, <1>3 DEF IncidentsNext, openIncident, reviewIncident, resolveIncident
<1> QED
  BY <1>0, <1>1, <1>4, CustodyKept

LEMMA MarketplaceCustody ==
  ASSUME IInv, MarketplaceNext
  PROVE  Custody' /\ \A x \in Deliveries : Moves(x)
<1>0. TypeOK /\ Custody
  BY DEF IInv
<1> SUFFICES OffersStayOut /\ RoutesKept /\ \A x \in Deliveries : Moves(x) /\ InCustody(x)
  BY <1>0, CustodyKept
<1>a. \A x \in Deliveries : delivery'[x] = delivery[x] => Moves(x) /\ InCustody(x)
  BY <1>0, Unmoved
<1>b. RoutesKept
  BY DEF MarketplaceNext, createDeliveryOffer, acceptDeliveryOffer, reviseDeliveryOfferPrice,
         cancelDeliveryOffer, OfferLapses, expireDeliveryOffers, RoutesKept, routeVars
<1>1. ASSUME NEW o \in Offers, NEW d \in Deliveries, NEW S \in SUBSET Couriers,
             NEW p \in Payouts, createDeliveryOffer(o, d, S, p)
      PROVE  OffersStayOut /\ \A x \in Deliveries : Moves(x) /\ InCustody(x)
  <2>1. delivery[d].route = NoOne
    BY <1>0, <1>1 DEF createDeliveryOffer, Custody
  <2>2. OffersStayOut
    BY <1>0, <1>1, <2>1 DEF createDeliveryOffer, OffersStayOut, ActiveOffers, TypeOK
  <2> QED
    BY <1>1, <1>a, <2>2 DEF createDeliveryOffer
<1>2. ASSUME NEW o \in Offers, NEW c \in Couriers, acceptDeliveryOffer(o, c)
      PROVE  OffersStayOut /\ \A x \in Deliveries : Moves(x) /\ InCustody(x)
  <2> DEFINE d == offer[o].delivery
  <2>1. OffersStayOut
    BY <1>0, <1>2 DEF acceptDeliveryOffer, OffersStayOut, ActiveOffers, TypeOK, OfferRow
  <2>2. delivery[d].status = "AWAITING_COURIER"
    BY <1>2 DEF acceptDeliveryOffer
  <2>3. \A x \in Deliveries :
          /\ x = d => /\ delivery'[x].status = "AWAITING_PICKUP"
                      /\ delivery'[x].courier = c
                      /\ delivery'[x].route = delivery[x].route
          /\ x # d => delivery'[x] = delivery[x]
    BY <1>0, <1>2 DEF acceptDeliveryOffer, Advance, TypeOK, DeliveryRow
  <2>4. \A x \in Deliveries : x = d => Moves(x) /\ InCustody(x)
    BY <1>0, <2>2, <2>3 DEF Moves, Lifecycle!Take, InCustody, Custody
  <2> QED
    BY <1>a, <2>1, <2>3, <2>4
<1>3. ASSUME NEW o \in Offers, NEW p \in Payouts, reviseDeliveryOfferPrice(o, p)
      PROVE  OffersStayOut /\ \A x \in Deliveries : Moves(x) /\ InCustody(x)
  <2>1. OffersStayOut
    BY <1>0, <1>3 DEF reviseDeliveryOfferPrice, OffersStayOut, ActiveOffers, TypeOK, OfferRow
  <2> QED
    BY <1>3, <1>a, <2>1 DEF reviseDeliveryOfferPrice
<1>4. ASSUME NEW o \in Offers, NEW byStore, NEW compensation,
             cancelDeliveryOffer(o, byStore, compensation)
      PROVE  OffersStayOut /\ \A x \in Deliveries : Moves(x) /\ InCustody(x)
  <2> DEFINE d == offer[o].delivery
             accepted == offer[o].status = "ACCEPTED"
  <2>1. OffersStayOut
    BY <1>0, <1>4 DEF cancelDeliveryOffer, OffersStayOut, ActiveOffers, TypeOK, OfferRow
  <2>2. accepted => delivery[d].status = "AWAITING_PICKUP"
    BY <1>4 DEF cancelDeliveryOffer
  <2>3. \A x \in Deliveries : accepted /\ x = d => delivery[x].route = NoOne
    BY <1>0 DEF Custody, ActiveOffers
  <2>4. \A x \in Deliveries :
          /\ accepted /\ x = d => /\ delivery'[x].status = "AWAITING_COURIER"
                                  /\ delivery'[x].courier = NoOne
                                  /\ delivery'[x].route = delivery[x].route
          /\ ~(accepted /\ x = d) => delivery'[x] = delivery[x]
    BY <1>0, <1>4 DEF cancelDeliveryOffer, Advance, TypeOK, DeliveryRow
  <2>5. \A x \in Deliveries : accepted /\ x = d => Moves(x) /\ InCustody(x)
    BY <2>2, <2>3, <2>4 DEF Moves, Lifecycle!GiveBack, InCustody
  <2> QED
    BY <1>a, <2>1, <2>4, <2>5
<1>5. ASSUME NEW o \in Offers, OfferLapses(o)
      PROVE  OffersStayOut /\ \A x \in Deliveries : Moves(x) /\ InCustody(x)
  <2>1. OffersStayOut
    BY <1>0, <1>5 DEF OfferLapses, OffersStayOut, ActiveOffers, TypeOK, OfferRow
  <2> QED
    BY <1>5, <1>a, <2>1 DEF OfferLapses
<1>6. ASSUME NEW S \in SUBSET Offers, expireDeliveryOffers(S)
      PROVE  OffersStayOut /\ \A x \in Deliveries : Moves(x) /\ InCustody(x)
  <2>1. OffersStayOut
    BY <1>0, <1>6 DEF expireDeliveryOffers, OffersStayOut, ActiveOffers, TypeOK, OfferRow
  <2> QED
    BY <1>6, <1>a, <2>1 DEF expireDeliveryOffers
<1> QED
  BY <1>b, <1>1, <1>2, <1>3, <1>4, <1>5, <1>6 DEF MarketplaceNext

(* The moves inside a route, from the path that the handler writes.        *)
LEMMA RoutesCustody ==
  ASSUME IInv, RoutesNext
  PROVE  Custody' /\ \A x \in Deliveries : Moves(x)
<1>0. TypeOK /\ Custody
  BY DEF IInv
<1>a. \A x \in Deliveries : delivery'[x] = delivery[x] => Moves(x) /\ InCustody(x)
  BY <1>0, Unmoved
<1>b. UNCHANGED marketVars => OffersStayOut
  BY DEF OffersStayOut, ActiveOffers, marketVars
<1>1. ASSUME NEW r \in Routes, NEW c \in Couriers, NEW S \in SUBSET Deliveries,
             NEW order \in Orders(S), createRoute(r, c, S, order)
      PROVE  Custody' /\ \A x \in Deliveries : Moves(x)
  <2>1. /\ \A x \in S : /\ delivery'[x].status = "AWAITING_PICKUP"
                        /\ delivery'[x].courier = c /\ delivery'[x].route = r
                        /\ delivery[x].status = "AWAITING_COURIER"
                        /\ ActiveOffers(x) = {}
        /\ \A x \in Deliveries \ S : delivery'[x] = delivery[x]
    BY <1>1 DEF createRoute, Advance
  <2>2. /\ route'[r].status = "DRAFT" /\ route'[r].courier = c /\ route[r].status = "NONE"
        /\ \A x \in Routes : x # r => route'[x] = route[x]
    BY <1>0, <1>1 DEF createRoute, TypeOK
  <2>3. \A x \in Deliveries : ActiveOffers(x)' = ActiveOffers(x)
    BY <1>1 DEF createRoute, ActiveOffers, marketVars
  <2>4. \A x \in Deliveries : delivery[x].route \in Routes \cup {NoOne}
    BY <1>0 DEF TypeOK, DeliveryRow
  <2>5. Custody'
    BY <1>0, <2>1, <2>2, <2>3, <2>4 DEF Custody
  <2>6. \A x \in S : Moves(x)
    BY <2>1 DEF Moves, Lifecycle!Take
  <2> QED
    BY <1>a, <2>1, <2>5, <2>6
<1>2. ASSUME UNCHANGED <<delivery, marketVars, route>>
      PROVE  Custody' /\ \A x \in Deliveries : Moves(x)
  BY <1>0, <1>2, <1>a DEF Custody, ActiveOffers, marketVars
<1>3. ASSUME NEW r \in Routes, startRoute(r)
      PROVE  Custody' /\ \A x \in Deliveries : Moves(x)
  <2> DEFINE left == PendingDrops(r)
  <2>1. \A x \in Deliveries :
          /\ delivery'[x].courier = delivery[x].courier /\ delivery'[x].route = delivery[x].route
          /\ x \in left => /\ delivery'[x].status \in {"IN_ROUTE", "NEXT_STOP"}
                           /\ delivery[x].status = "COLLECTED"
          /\ x \notin left => delivery'[x] = delivery[x]
    BY <1>3 DEF startRoute, MayStart, Advance
  <2>2. \A x \in Deliveries \cap left : Moves(x) /\ InCustody(x)
    BY <2>1 DEF Moves, Lifecycle!Proceed, Lifecycle!LeaveAsNext, Lifecycle!allowedTransitions, Lifecycle!Cancellable,
                InCustody
  <2>3. OffersStayOut /\ RoutesKept
    BY <1>0, <1>3, <1>b DEF startRoute, RoutesKept, TypeOK, RouteRow
  <2> QED
    BY <1>0, <1>a, <2>1, <2>2, <2>3, CustodyKept
<1>4. ASSUME NEW d \in Deliveries, completePickup(d)
      PROVE  Custody' /\ \A x \in Deliveries : Moves(x)
  <2>1. \A x \in Deliveries :
          /\ x = d => /\ delivery'[x].courier = delivery[x].courier
                      /\ delivery'[x].route = delivery[x].route
                      /\ delivery'[x].status = "COLLECTED"
                      /\ delivery[x].status = "AWAITING_PICKUP"
          /\ x # d => delivery'[x] = delivery[x]
    BY <1>4 DEF completePickup, Advance
  <2>2. Moves(d) /\ InCustody(d)
    BY <2>1 DEF Moves, Lifecycle!Proceed, Lifecycle!allowedTransitions, Lifecycle!Cancellable, InCustody
  <2>3. OffersStayOut /\ RoutesKept
    BY <1>4, <1>b DEF completePickup, RoutesKept
  <2> QED
    BY <1>0, <1>a, <2>1, <2>2, <2>3, CustodyKept
<1>5. ASSUME NEW d \in Deliveries, completeDrop(d)
      PROVE  Custody' /\ \A x \in Deliveries : Moves(x)
  <2>1. PICK S : /\ \A e \in S : e # d /\ delivery[e].status = "IN_ROUTE"
                 /\ Advance([x \in {d} \cup S |->
                              IF x = d THEN <<"DELIVERED">> ELSE <<"NEXT_STOP">>], delivery)
    BY <1>5 DEF completeDrop, NextInLine, FirstOf
  <2>2. \A x \in Deliveries :
          /\ delivery'[x].courier = delivery[x].courier /\ delivery'[x].route = delivery[x].route
          /\ x = d => delivery'[x].status = "DELIVERED"
          /\ x \in S => delivery'[x].status = "NEXT_STOP"
          /\ x # d /\ x \notin S => delivery'[x] = delivery[x]
    BY <2>1 DEF Advance
  <2>3. delivery[d].status = "NEXT_STOP"
    BY <1>5 DEF completeDrop
  <2>4. Moves(d) /\ InCustody(d)
    BY <2>2, <2>3 DEF Moves, Lifecycle!Proceed, Lifecycle!allowedTransitions, Lifecycle!Cancellable, InCustody
  <2>5. \A x \in S \cap Deliveries : Moves(x) /\ InCustody(x)
    BY <2>1, <2>2 DEF Moves, Lifecycle!Proceed, Lifecycle!allowedTransitions, Lifecycle!Cancellable, InCustody
  <2>6. OffersStayOut
    BY <1>5 DEF completeDrop, completeOfferForDelivery, OffersStayOut, ActiveOffers
  <2>7. RoutesKept
    BY <1>0, <1>5 DEF completeDrop, RoutesKept, TypeOK, RouteRow
  <2> QED
    BY <1>0, <1>a, <2>2, <2>4, <2>5, <2>6, <2>7, CustodyKept
<1>6. ASSUME NEW d \in Deliveries, prioritizeRouteStop(d)
      PROVE  Custody' /\ \A x \in Deliveries : Moves(x)
  <2>1. PICK S \in SUBSET RouteDeliveries(delivery[d].route) :
          /\ \A e \in S : e # d /\ delivery[e].status = "NEXT_STOP"
          /\ Advance([x \in {d} \cup S |->
                       IF x = d THEN <<"NEXT_STOP">> ELSE <<"IN_ROUTE">>], delivery)
    BY <1>6 DEF prioritizeRouteStop, FirstOf, PendingDrops
  <2>2. \A x \in Deliveries :
          /\ delivery'[x].courier = delivery[x].courier /\ delivery'[x].route = delivery[x].route
          /\ x = d => delivery'[x].status = "NEXT_STOP"
          /\ x \in S => delivery'[x].status = "IN_ROUTE"
          /\ x # d /\ x \notin S => delivery'[x] = delivery[x]
    BY <2>1 DEF Advance
  <2>3. delivery[d].status = "IN_ROUTE" /\ delivery[d].route # NoOne
    BY <1>6 DEF prioritizeRouteStop
  <2>4. Moves(d) /\ InCustody(d)
    BY <2>2, <2>3 DEF Moves, Lifecycle!Proceed, Lifecycle!allowedTransitions, Lifecycle!Cancellable, InCustody
  <2>5. \A x \in S : x \in Deliveries /\ delivery[x].courier = delivery[d].courier
    BY <1>0, <2>3 DEF RouteDeliveries, Custody
  <2>6. \A x \in S : Moves(x) /\ InCustody(x)
    BY <2>1, <2>2, <2>3, <2>5 DEF Moves, Lifecycle!StepBack, InCustody
  <2>7. OffersStayOut /\ RoutesKept
    BY <1>6, <1>b DEF prioritizeRouteStop, RoutesKept
  <2> QED
    BY <1>0, <1>a, <2>2, <2>4, <2>6, <2>7, CustodyKept
<1> QED
  BY <1>1, <1>2, <1>3, <1>4, <1>5, <1>6
     DEF RoutesNext, reorderRoute, optimizeRoute, applyRouteSuggestion

-----------------------------------------------------------------------------
LEMMA DispatchInvariant == Spec => []IInv
<1>1. Init => IInv
  BY RecordsAssumption DEF Init, IInv, Custody, NoDelivery, TypeOK, DeliveryRow, OfferRow,
     RouteRow, StopRow, IncidentRow, CandidateStatus, NoOffer, NoRoute, NoStop, NoIncident
<1>2. IInv /\ [Next]_vars => Custody'
  <2>1. IInv /\ UNCHANGED vars => Custody'
    BY DEF IInv, Custody, ActiveOffers, vars
  <2> QED
    BY <2>1, DeliveriesCustody, CustomersCustody, MarketplaceCustody, IncidentsCustody, RoutesCustody DEF Next
<1>3. IInv /\ [Next]_vars => TypeOK'
  BY DeliveriesTypes, CustomersTypes, MarketplaceTypes, IncidentsTypes, RoutesTypes
     DEF IInv, Next, TypeOK, vars
<1> QED
  BY <1>1, <1>2, <1>3, PTL DEF Spec, IInv

(* A delivery inside a route is out of the marketplace for good and is     *)
(* carried by the courier of its route, whatever the four services do.     *)
THEOREM RoutedDeliveriesStayOut == Spec => []RoutedOutsideMarketplace
<1>1. IInv => RoutedOutsideMarketplace
  BY DEF IInv, Custody, RoutedOutsideMarketplace
<1> QED
  BY <1>1, DispatchInvariant, PTL

(* Every transaction of every handler is a move of the lifecycle of each   *)
(* delivery: the subsystem implements DeliveryLifecycle.                   *)
THEOREM DispatchImplementsLifecycle == Spec => ImplementsLifecycle
<1>1. Init => Lifecycle!Init
  BY DEF Init, Lifecycle!Init, NoDelivery
<1>2. IInv /\ IInv' /\ [Next]_vars => [Lifecycle!Next]_Lifecycle!vars
  <2> SUFFICES ASSUME IInv, IInv', [Next]_vars
               PROVE  [Lifecycle!Next]_Lifecycle!vars
    OBVIOUS
  <2>1. CASE UNCHANGED vars
    BY <2>1 DEF vars, Lifecycle!vars
  <2>2. CASE Next
    <3>1. \A d \in Deliveries : Moves(d)
      BY <2>2, DeliveriesCustody, CustomersCustody, MarketplaceCustody, IncidentsCustody,
         RoutesCustody DEF Next
    <3>2. /\ [d \in Deliveries |-> delivery'[d].status]
                 \in [Deliveries -> DeliveryStatus \cup {"NONE"}]
          /\ [d \in Deliveries |-> delivery'[d].courier]
                 \in [Deliveries -> Couriers \cup {NoOne}]
      BY DEF IInv, TypeOK, DeliveryRow
    <3> QED
      BY <3>1, <3>2 DEF Lifecycle!Next, Moves, Lifecycle!DeliveryStatus, DeliveryStatus
  <2> QED
    BY <2>1, <2>2
<1> QED
  BY <1>1, <1>2, DispatchInvariant, PTL DEF Spec, ImplementsLifecycle, Lifecycle!Spec

(* The promise of the lifecycle holds of the deliveries table: a delivery  *)
(* that nobody took has no courier, one that was taken has exactly one     *)
(* until it ends.                                                          *)
THEOREM DispatchResponsibility == Spec => []Responsibility
<1>1. Init => Responsibility
  BY DEF Init, NoDelivery, Responsibility, Lifecycle!Responsibility, Lifecycle!Vacant,
         Lifecycle!Held
<1>2. IInv /\ Responsibility /\ IInv' /\ [Next]_vars => Responsibility'
  <2> SUFFICES ASSUME IInv, Responsibility, IInv', [Next]_vars, NEW d \in Deliveries
               PROVE  /\ delivery'[d].status \in Lifecycle!Vacant => delivery'[d].courier = NoOne
                      /\ delivery'[d].status \in Lifecycle!Held => delivery'[d].courier \in Couriers
    BY DEF Responsibility, Lifecycle!Responsibility, Lifecycle!Vacant, Lifecycle!Held,
           Lifecycle!DeliveryStatus
  <2>1. Moves(d)
    BY DeliveriesCustody, CustomersCustody, MarketplaceCustody, IncidentsCustody, RoutesCustody
       DEF Next, vars, Moves, Lifecycle!Stay
  <2>2. /\ delivery[d].status \in Lifecycle!Vacant => delivery[d].courier = NoOne
        /\ delivery[d].status \in Lifecycle!Held => delivery[d].courier \in Couriers
    BY DEF Responsibility, Lifecycle!Responsibility
  <2> USE <2>2 DEF Lifecycle!Vacant, Lifecycle!Held, Lifecycle!DeliveryStatus
  <2>3. CASE Lifecycle!Enter(d)
    BY <2>3 DEF Lifecycle!Enter
  <2>4. CASE Lifecycle!Take(d)
    BY <2>4 DEF Lifecycle!Take
  <2>5. CASE Lifecycle!GiveBack(d)
    BY <2>5 DEF Lifecycle!GiveBack
  <2>6. CASE Lifecycle!Proceed(d)
    BY <2>6 DEF Lifecycle!Proceed, Lifecycle!allowedTransitions, Lifecycle!Cancellable
  <2>7. CASE Lifecycle!LeaveAsNext(d) \/ Lifecycle!StepBack(d) \/ Lifecycle!Stay(d)
    BY <2>7 DEF Lifecycle!LeaveAsNext, Lifecycle!StepBack, Lifecycle!Stay
  <2> QED
    BY <2>1, <2>3, <2>4, <2>5, <2>6, <2>7 DEF Moves
<1> QED
  BY <1>1, <1>2, DispatchInvariant, PTL DEF Spec

(***************************************************************************)
(* On top of custody: the history of a delivery, its stops, its            *)
(* incidents, and the offers with the money they move.                     *)
(***************************************************************************)

(***************************************************************************)
(* The history.                                                            *)
(***************************************************************************)
Links == allowedTransitions \cup {<<"NEXT_STOP", "IN_ROUTE">>}

(* h takes up where the row of H before it ended.                          *)
Follows(h, H) ==
  \E k \in H : /\ k.version < h.version /\ k.to = h.from
              /\ \A g \in H : g.version <= k.version \/ g.version >= h.version

(* H is one chain of links from the creation of a delivery to status s, by *)
(* version v.                                                              *)
Chain(H, s, v) ==
  /\ \A h \in H : h.version <= v
  /\ \E h \in H : h.to = s /\ \A k \in H : k.version <= h.version
  /\ \A h, k \in H : h.version = k.version => h = k
  /\ \A h \in H :
       \/ h.from = "NONE" /\ h.version = 0
       \/ /\ <<h.from, h.to>> \in Links
          /\ Follows(h, H)

Story(d) ==
  /\ Exists(d) => Chain(history[d], delivery[d].status, delivery[d].version)
  /\ ~Exists(d) => delivery[d].version = 0

(* Each delivery of path goes along one or two links.                      *)
OneLink(d, path) ==
  \E t \in DeliveryStatus : path[d] = <<t>> /\ <<delivery[d].status, t>> \in Links

TwoLinks(d, path) ==
  \E t, u \in DeliveryStatus :
    path[d] = <<t, u>> /\ <<delivery[d].status, t>> \in Links /\ <<t, u>> \in Links

Linked(path) == \A d \in Deliveries \cap DOMAIN path : OneLink(d, path) \/ TwoLinks(d, path)

(* A row of the history is what applyTransition inserts.                   *)
Row(from, to, version) == [from |-> from, to |-> to, version |-> version]

(* Rows of a path of one or of two statuses.                               *)
LEMMA RowsOfOne ==
  ASSUME NEW path, NEW d, NEW t, path[d] = <<t>>
  PROVE  /\ Len(path[d]) = 1 /\ path[d][1] = t
         /\ Rows(d, path) = {Row(delivery[d].status, t, delivery[d].version + 1)}
<1>1. Len(path[d]) = 1 /\ path[d][1] = t
  OBVIOUS
<1>2. 1 .. Len(path[d]) = {1}
  BY <1>1
<1> QED
  BY <1>1, <1>2 DEF Rows, Row

LEMMA RowsOfTwo ==
  ASSUME NEW path, NEW d, NEW t, NEW u, path[d] = <<t, u>>
  PROVE  /\ Len(path[d]) = 2 /\ path[d][2] = u
         /\ Rows(d, path) = {Row(delivery[d].status, t, delivery[d].version + 1),
                             Row(t, u, delivery[d].version + 2)}
<1>1. Len(path[d]) = 2 /\ path[d][1] = t /\ path[d][2] = u
  OBVIOUS
<1>2. 1 .. Len(path[d]) = {1, 2}
  BY <1>1
<1>3. Rows(d, path) = {[from |-> IF i = 1 THEN delivery[d].status ELSE path[d][i - 1],
                        to |-> path[d][i], version |-> delivery[d].version + i] : i \in {1, 2}}
  BY <1>2 DEF Rows
<1> QED
  BY <1>1, <1>3 DEF Row

(* A chain grows by the link from its end to t.                            *)
LEMMA ChainGrows ==
  ASSUME NEW H, \A h \in H : h \in HistoryRow, NEW s, NEW t, NEW v \in Nat,
         Chain(H, s, v), <<s, t>> \in Links
  PROVE  Chain(H \cup {Row(s, t, v + 1)}, t, v + 1)
<1> DEFINE new == Row(s, t, v + 1)
           G == H \cup {new}
<1>1. new.from = s /\ new.to = t /\ new.version = v + 1
  BY DEF Row
<1>2. \A h \in H : h.version \in Nat /\ h.version < v + 1
  BY DEF HistoryRow, Chain
<1>3. \A h \in G : h \in H \/ h = new
  OBVIOUS
<1>4. new \in G /\ H \subseteq G
  OBVIOUS
<1> HIDE DEF new
<1> SUFFICES Chain(G, t, v + 1)
  BY DEF new
<1> HIDE DEF G
<1>5. \A h \in G : h.version <= v + 1
  BY <1>1, <1>2, <1>3
<1>6. \A h, k \in G : h.version = k.version => h = k
  BY <1>1, <1>2, <1>3 DEF Chain
<1>7. Follows(new, G)
  <2>1. PICK k \in H : k.to = s /\ \A g \in H : g.version <= k.version
    BY DEF Chain
  <2>2. \A g \in G : g.version <= k.version \/ g.version >= new.version
    BY <1>1, <1>3, <2>1
  <2> QED
    BY <1>1, <1>2, <1>4, <2>1, <2>2 DEF Follows
<1>8. ASSUME NEW h \in H, Follows(h, H) PROVE Follows(h, G)
  <2>1. PICK k \in H : /\ k.version < h.version /\ k.to = h.from
                       /\ \A g \in H : g.version <= k.version \/ g.version >= h.version
    BY <1>8 DEF Follows
  <2>2. new.version >= h.version
    BY <1>1, <1>2
  <2>3. \A g \in G : g.version <= k.version \/ g.version >= h.version
    BY <1>3, <2>1, <2>2
  <2> QED
    BY <1>4, <2>1, <2>3 DEF Follows
<1>9. \A h \in G : \/ h.from = "NONE" /\ h.version = 0
                   \/ <<h.from, h.to>> \in Links /\ Follows(h, G)
  BY <1>1, <1>3, <1>7, <1>8 DEF Chain
<1>10. \A k \in G : k.version <= new.version
  BY <1>1, <1>5
<1> QED
  BY <1>1, <1>4, <1>5, <1>6, <1>9, <1>10 DEF Chain

(* A version that no row accounts for leaves the chain as it is.           *)
LEMMA ChainWaits ==
  ASSUME NEW H, \A h \in H : h \in HistoryRow, NEW s, NEW v \in Nat, Chain(H, s, v)
  PROVE  Chain(H, s, v + 1)
<1>1. \A h \in H : h.version \in Nat /\ h.version <= v
  BY DEF HistoryRow, Chain
<1>2. \A h \in H : h.version <= v + 1
  BY <1>1
<1> QED
  BY <1>2 DEF Chain

LEMMA StoryGoesOn ==
  ASSUME TypeOK, NEW path, NEW owner, Advance(path, owner), Linked(path),
         NEW d \in Deliveries, Story(d)
  PROVE  Story(d)'
<1>t. /\ delivery[d].version \in Nat
      /\ \A h \in history[d] : h \in HistoryRow
  BY DEF TypeOK, DeliveryRow
<1>1. CASE d \notin DOMAIN path
  <2>1. delivery'[d] = delivery[d] /\ history'[d] = history[d]
    BY <1>1 DEF Advance
  <2> QED
    BY <2>1 DEF Story, Exists
<1>2. ASSUME d \in DOMAIN path, NEW t \in DeliveryStatus, path[d] = <<t>>,
             <<delivery[d].status, t>> \in Links
      PROVE  Story(d)'
  <2>1. /\ delivery'[d].status = t
        /\ delivery'[d].version = delivery[d].version + 1
        /\ history'[d] = history[d] \cup {Row(delivery[d].status, t, delivery[d].version + 1)}
    BY <1>2, RowsOfOne DEF Advance
  <2>2. Exists(d)
    BY <1>2 DEF Links, allowedTransitions, Cancellable, Exists
  <2>3. Exists(d)'
    BY <1>2, <2>1 DEF Exists, DeliveryStatus
  <2>4. Chain(history'[d], t, delivery[d].version + 1)
    BY <1>t, <1>2, <2>1, <2>2, ChainGrows DEF Story
  <2> QED
    BY <2>1, <2>3, <2>4 DEF Story
<1>3. ASSUME d \in DOMAIN path, NEW t \in DeliveryStatus, NEW u \in DeliveryStatus,
             path[d] = <<t, u>>, <<delivery[d].status, t>> \in Links, <<t, u>> \in Links
      PROVE  Story(d)'
  <2> DEFINE v == delivery[d].version
             H == history[d] \cup {Row(delivery[d].status, t, v + 1)}
  <2>1. /\ delivery'[d].status = u
        /\ delivery'[d].version = v + 2
        /\ history'[d] = history[d] \cup {Row(delivery[d].status, t, v + 1), Row(t, u, v + 2)}
    BY <1>3, RowsOfTwo DEF Advance
  <2>2. Exists(d)
    BY <1>3 DEF Links, allowedTransitions, Cancellable, Exists
  <2>3. Chain(H, t, v + 1)
    BY <1>t, <1>3, <2>2, ChainGrows DEF Story
  <2>4. v + 1 \in Nat /\ (v + 1) + 1 = v + 2
    BY <1>t
  <2>5. \A h \in H : h \in HistoryRow
    <3>1. delivery[d].status \in DeliveryStatus \cup {"NONE"}
      BY DEF TypeOK, DeliveryRow
    <3> QED
      BY <1>t, <1>3, <2>4, <3>1 DEF HistoryRow, Row
  <2>6. history'[d] = H \cup {Row(t, u, (v + 1) + 1)}
    BY <2>1, <2>4
  <2> HIDE DEF H
  <2>7. Chain(history'[d], u, (v + 1) + 1)
    BY <1>3, <2>3, <2>4, <2>5, <2>6, ChainGrows
  <2>8. Exists(d)'
    BY <1>3, <2>1 DEF Exists, DeliveryStatus
  <2> QED
    BY <2>1, <2>4, <2>7, <2>8 DEF Story
<1> QED
  BY <1>1, <1>2, <1>3 DEF Linked, OneLink, TwoLinks

(* A delivery of every handler goes along links.                           *)
LinkedStep == \E path, owner : Advance(path, owner) /\ Linked(path)

LEMMA TransitionIsLinked ==
  ASSUME NEW d, NEW target, applyTransition(d, target)
  PROVE  LinkedStep
<1>1. Advance([x \in {d} |-> <<target>>], delivery)
  BY DEF applyTransition
<1>2. target \in DeliveryStatus /\ <<delivery[d].status, target>> \in Links
  BY DEF applyTransition, allowedTransitions, Cancellable, DeliveryStatus, Links
<1>3. Linked([x \in {d} |-> <<target>>])
  BY <1>2 DEF Linked, OneLink
<1> QED
  BY <1>1, <1>3 DEF LinkedStep

(* Taken from the queue: both links are those of assignDelivery.           *)
LEMMA AssignmentIsLinked ==
  ASSUME NEW S, \A x \in S \cap Deliveries : delivery[x].status = "AWAITING_COURIER"
  PROVE  Linked([x \in S |-> <<"ASSIGNED", "AWAITING_PICKUP">>])
<1>1. /\ <<"AWAITING_COURIER", "ASSIGNED">> \in Links
      /\ <<"ASSIGNED", "AWAITING_PICKUP">> \in Links
      /\ "ASSIGNED" \in DeliveryStatus /\ "AWAITING_PICKUP" \in DeliveryStatus
  BY DEF Links, allowedTransitions, DeliveryStatus
<1> QED
  BY <1>1 DEF Linked, TwoLinks

LEMMA DeliveriesLinked ==
  ASSUME NEW d \in Deliveries,
         \/ releaseDelivery(d)
         \/ \E c \in Couriers : assignDelivery(d, c)
         \/ unassignDelivery(d)
         \/ \E target \in {"COLLECTED", "IN_ROUTE"} : pickupTransition(d, target)
         \/ completeDelivery(d)
         \/ \E i \in Incidents : failDelivery(d, i)
         \/ cancelDelivery(d)
         \/ cancelExternalDelivery(d)
  PROVE  LinkedStep
<1>1. CASE \/ releaseDelivery(d)
           \/ \E target \in {"COLLECTED", "IN_ROUTE"} : pickupTransition(d, target)
           \/ completeDelivery(d)
           \/ \E i \in Incidents : failDelivery(d, i)
           \/ cancelDelivery(d)
  BY <1>1, TransitionIsLinked
     DEF releaseDelivery, pickupTransition, completeDelivery, failDelivery, cancelDelivery
<1>2. ASSUME NEW c \in Couriers, assignDelivery(d, c)
      PROVE  LinkedStep
  <2>1. delivery[d].status = "AWAITING_COURIER"
    BY <1>2 DEF assignDelivery, allowedTransitions, Cancellable
  <2>2. Linked([x \in {d} |-> <<"ASSIGNED", "AWAITING_PICKUP">>])
    BY <2>1, AssignmentIsLinked
  <2> QED
    BY <1>2, <2>2 DEF assignDelivery, LinkedStep
<1>3. CASE unassignDelivery(d)
  <2>1. <<delivery[d].status, "AWAITING_COURIER">> \in Links
    BY <1>3 DEF unassignDelivery, Links, allowedTransitions
  <2>2. Linked([x \in {d} |-> <<"AWAITING_COURIER">>])
    BY <2>1 DEF Linked, OneLink, DeliveryStatus
  <2> QED
    BY <1>3, <2>2 DEF unassignDelivery, LinkedStep
<1>4. CASE cancelExternalDelivery(d)
  <2>1. PICK S : /\ \A e \in S : delivery[e].status = "IN_ROUTE"
                 /\ Advance([x \in {d} \cup S |->
                              IF x = d THEN <<"CANCELLED">> ELSE <<"NEXT_STOP">>], delivery)
    BY <1>4 DEF cancelExternalDelivery, NextInLine, FirstOf
  <2>2. /\ <<delivery[d].status, "CANCELLED">> \in Links
        /\ <<"IN_ROUTE", "NEXT_STOP">> \in Links
        /\ "CANCELLED" \in DeliveryStatus /\ "NEXT_STOP" \in DeliveryStatus
    BY <1>4 DEF cancelExternalDelivery, Links, allowedTransitions, DeliveryStatus
  <2>3. Linked([x \in {d} \cup S |-> IF x = d THEN <<"CANCELLED">> ELSE <<"NEXT_STOP">>])
    BY <2>1, <2>2 DEF Linked, OneLink
  <2> QED
    BY <2>1, <2>3 DEF LinkedStep
<1> QED
  BY <1>1, <1>2, <1>3, <1>4

LEMMA MarketplaceLinked ==
  ASSUME MarketplaceNext
  PROVE  LinkedStep \/ UNCHANGED <<delivery, history>>
<1>1. ASSUME NEW o \in Offers, NEW c \in Couriers, acceptDeliveryOffer(o, c)
      PROVE  LinkedStep
  <2> DEFINE d == offer[o].delivery
  <2>1. \A x \in {d} \cap Deliveries : delivery[x].status = "AWAITING_COURIER"
    BY <1>1 DEF acceptDeliveryOffer
  <2>2. Linked([x \in {d} |-> <<"ASSIGNED", "AWAITING_PICKUP">>])
    BY <2>1, AssignmentIsLinked
  <2> QED
    BY <1>1, <2>2 DEF acceptDeliveryOffer, LinkedStep
<1>2. ASSUME NEW o \in Offers, NEW byStore, NEW compensation,
             cancelDeliveryOffer(o, byStore, compensation)
      PROVE  LinkedStep
  <2> DEFINE d == offer[o].delivery
             S == IF offer[o].status = "ACCEPTED" THEN {d} ELSE {}
  <2>1. \A x \in S : delivery[x].status = "AWAITING_PICKUP"
    BY <1>2 DEF cancelDeliveryOffer
  <2>2. <<"AWAITING_PICKUP", "AWAITING_COURIER">> \in Links /\ "AWAITING_COURIER" \in DeliveryStatus
    BY DEF Links, allowedTransitions, DeliveryStatus
  <2>3. Linked([x \in S |-> <<"AWAITING_COURIER">>])
    BY <2>1, <2>2 DEF Linked, OneLink
  <2>4. \E owner : Advance([x \in S |-> <<"AWAITING_COURIER">>], owner)
    BY <1>2 DEF cancelDeliveryOffer
  <2> HIDE DEF S
  <2> QED
    BY <2>3, <2>4 DEF LinkedStep
<1> QED
  BY <1>1, <1>2 DEF MarketplaceNext, createDeliveryOffer, reviseDeliveryOfferPrice, OfferLapses,
                    expireDeliveryOffers

LEMMA IncidentsLinked ==
  ASSUME IncidentsNext
  PROVE  LinkedStep \/ UNCHANGED <<delivery, history>>
  BY TransitionIsLinked DEF IncidentsNext, openIncident, reviewIncident, resolveIncident,
                            startReturn, completeReturn

LEMMA RoutesLinked ==
  ASSUME RoutesNext
  PROVE  LinkedStep \/ UNCHANGED <<delivery, history>>
<1>1. ASSUME NEW r \in Routes, NEW c \in Couriers, NEW S \in SUBSET Deliveries,
             NEW order, createRoute(r, c, S, order)
      PROVE  LinkedStep
  <2>1. \A x \in S \cap Deliveries : delivery[x].status = "AWAITING_COURIER"
    BY <1>1 DEF createRoute
  <2>2. Linked([x \in S |-> <<"ASSIGNED", "AWAITING_PICKUP">>])
    BY <2>1, AssignmentIsLinked
  <2> QED
    BY <1>1, <2>2 DEF createRoute, LinkedStep
<1>2. ASSUME NEW r \in Routes, startRoute(r)
      PROVE  LinkedStep
  <2> DEFINE left == PendingDrops(r)
             path == [d \in left |-> IF d \in FirstOf(left) THEN <<"IN_ROUTE", "NEXT_STOP">>
                                     ELSE <<"IN_ROUTE">>]
  <2>1. \A d \in left : delivery[d].status = "COLLECTED"
    BY <1>2 DEF startRoute, MayStart
  <2>2. /\ <<"COLLECTED", "IN_ROUTE">> \in Links /\ <<"IN_ROUTE", "NEXT_STOP">> \in Links
        /\ "IN_ROUTE" \in DeliveryStatus /\ "NEXT_STOP" \in DeliveryStatus
    BY DEF Links, allowedTransitions, DeliveryStatus
  <2>3. Linked(path)
    BY <2>1, <2>2 DEF Linked, OneLink, TwoLinks
  <2> QED
    BY <1>2, <2>3 DEF startRoute, LinkedStep
<1>3. ASSUME NEW d \in Deliveries, completePickup(d)
      PROVE  LinkedStep
  <2>1. <<delivery[d].status, "COLLECTED">> \in Links /\ "COLLECTED" \in DeliveryStatus
    BY <1>3 DEF completePickup, Links, allowedTransitions, DeliveryStatus
  <2>2. Linked([x \in {d} |-> <<"COLLECTED">>])
    BY <2>1 DEF Linked, OneLink
  <2> QED
    BY <1>3, <2>2 DEF completePickup, LinkedStep
<1>4. ASSUME NEW d \in Deliveries, completeDrop(d)
      PROVE  LinkedStep
  <2>1. PICK S : /\ \A e \in S : delivery[e].status = "IN_ROUTE"
                 /\ Advance([x \in {d} \cup S |->
                              IF x = d THEN <<"DELIVERED">> ELSE <<"NEXT_STOP">>], delivery)
    BY <1>4 DEF completeDrop, NextInLine, FirstOf
  <2>2. /\ <<delivery[d].status, "DELIVERED">> \in Links
        /\ <<"IN_ROUTE", "NEXT_STOP">> \in Links
        /\ "DELIVERED" \in DeliveryStatus /\ "NEXT_STOP" \in DeliveryStatus
    BY <1>4 DEF completeDrop, Links, allowedTransitions, DeliveryStatus
  <2>3. Linked([x \in {d} \cup S |-> IF x = d THEN <<"DELIVERED">> ELSE <<"NEXT_STOP">>])
    BY <2>1, <2>2 DEF Linked, OneLink
  <2> QED
    BY <2>1, <2>3 DEF LinkedStep
<1>5. ASSUME NEW d \in Deliveries, prioritizeRouteStop(d)
      PROVE  LinkedStep
  <2>1. PICK S : /\ \A e \in S : delivery[e].status = "NEXT_STOP"
                 /\ Advance([x \in {d} \cup S |->
                              IF x = d THEN <<"NEXT_STOP">> ELSE <<"IN_ROUTE">>], delivery)
    BY <1>5 DEF prioritizeRouteStop
  <2>2. /\ <<delivery[d].status, "NEXT_STOP">> \in Links
        /\ <<"NEXT_STOP", "IN_ROUTE">> \in Links
        /\ "IN_ROUTE" \in DeliveryStatus /\ "NEXT_STOP" \in DeliveryStatus
    BY <1>5 DEF prioritizeRouteStop, Links, allowedTransitions, DeliveryStatus
  <2>3. Linked([x \in {d} \cup S |-> IF x = d THEN <<"NEXT_STOP">> ELSE <<"IN_ROUTE">>])
    BY <2>1, <2>2 DEF Linked, OneLink
  <2> QED
    BY <2>1, <2>3 DEF LinkedStep
<1> QED
  BY <1>1, <1>2, <1>3, <1>4, <1>5
     DEF RoutesNext, reorderRoute, optimizeRoute, applyRouteSuggestion

(* A new delivery begins its story.                                        *)
LEMMA StoryBegins ==
  ASSUME TypeOK, NEW d \in Deliveries, createDelivery(d), NEW x \in Deliveries, Story(x)
  PROVE  Story(x)'
<1> DEFINE s == IF d \in Ifood THEN "DRAFT" ELSE "AWAITING_COURIER"
<1>1. /\ delivery' = [delivery EXCEPT ![d].status = s]
      /\ history' = [history EXCEPT ![d] = {[from |-> "NONE", to |-> s, version |-> 0]}]
      /\ s # "NONE" /\ ~Exists(d)
  BY DEF createDelivery
<1> HIDE DEF s
<1>2. CASE x = d
  <2>1. history'[x] = {[from |-> "NONE", to |-> s, version |-> 0]}
    BY <1>1, <1>2 DEF TypeOK
  <2>2. delivery'[x].status = s /\ delivery'[x].version = delivery[x].version
    BY <1>1, <1>2 DEF TypeOK, DeliveryRow
  <2>3. Exists(x)' /\ delivery[x].version = 0
    BY <1>1, <1>2, <2>2 DEF Story, Exists
  <2>4. Chain(history'[x], s, 0)
    BY <2>1 DEF Chain
  <2> QED
    BY <2>2, <2>3, <2>4 DEF Story
<1>3. CASE x # d
  <2>1. history'[x] = history[x] /\ delivery'[x] = delivery[x]
    BY <1>1, <1>3 DEF TypeOK
  <2> QED
    BY <2>1 DEF Story, Exists
<1> QED
  BY <1>2, <1>3

(* Between two rows the version may be raised.                             *)
LEMMA StoryWaits ==
  ASSUME TypeOK, CustomersNext, NEW x \in Deliveries, Story(x)
  PROVE  Story(x)'
<1>1. /\ history' = history
      /\ delivery'[x].status = delivery[x].status
      /\ \/ delivery'[x].version = delivery[x].version
         \/ delivery'[x].version = delivery[x].version + 1 /\ Exists(x)
  BY OnlyVersions
<1>2. delivery[x].version \in Nat /\ \A h \in history[x] : h \in HistoryRow
  BY DEF TypeOK, DeliveryRow
<1>3. Exists(x)' <=> Exists(x)
  BY <1>1 DEF Exists
<1>4. Exists(x) => Chain(history[x], delivery[x].status, delivery'[x].version)
  BY <1>1, <1>2, ChainWaits DEF Story
<1> QED
  BY <1>1, <1>3, <1>4 DEF Story

LEMMA StoryStep ==
  ASSUME TypeOK, \A d \in Deliveries : Story(d), [Next]_vars, NEW d \in Deliveries
  PROVE  Story(d)'
<1>1. CASE UNCHANGED <<delivery, history>>
  BY <1>1 DEF Story, Exists
<1>2. CASE LinkedStep
  BY <1>2, StoryGoesOn DEF LinkedStep
<1>3. CASE \E x \in Deliveries : createDelivery(x)
  BY <1>3, StoryBegins
<1>4. CASE CustomersNext
  BY <1>4, StoryWaits
<1> QED
  BY <1>1, <1>2, <1>3, <1>4, DeliveriesLinked, MarketplaceLinked, IncidentsLinked, RoutesLinked
     DEF Next, DeliveriesNext, vars

(***************************************************************************)
(* What a step leaves alone, one delivery at a time.                       *)
(***************************************************************************)
Waiting == {"NONE", "DRAFT", "AWAITING_COURIER"}
Back == {"DELIVERY_FAILED", "RETURN_STARTED", "RETURNED"}
Taken == BusyStatus \cup Back

(* Moves that say nothing about the stops of a route.                      *)
Quiet ==
  {<<"COLLECTED", "IN_ROUTE">>, <<"COLLECTED", "NEXT_STOP">>, <<"IN_ROUTE", "NEXT_STOP">>,
   <<"NEXT_STOP", "IN_ROUTE">>, <<"DELIVERY_FAILED", "RETURN_STARTED">>,
   <<"RETURN_STARTED", "RETURNED">>}
    \cup (BusyStatus \X {"DELIVERY_FAILED"}) \cup (Cancellable \X {"CANCELLED"})

(* The stops of x go on telling the truth.                                 *)
Undisturbed(x) ==
  \/ delivery'[x].route = NoOne
  \/ /\ delivery'[x].route = delivery[x].route
     /\ \A t \in StopType : stop'[x][t].status = stop[x][t].status
     /\ \/ delivery'[x].status = delivery[x].status
        \/ <<delivery[x].status, delivery'[x].status>> \in Quiet

(* x neither begins, goes on with nor ends its way back.                   *)
Away(x) ==
  \/ delivery'[x].status = delivery[x].status
  \/ delivery[x].status \notin Back /\ delivery'[x].status \notin Back

(* Nothing changes for whoever won an offer of x.                          *)
Keeps(x) ==
  \/ delivery[x].status \in Waiting
  \/ ActiveOffers(x) = {} /\ delivery[x].status # "DELIVERED"
  \/ /\ delivery'[x].courier = delivery[x].courier
     /\ \/ delivery'[x].status = delivery[x].status
        \/ /\ delivery[x].status \in Taken /\ delivery'[x].status \in Taken
           /\ delivery'[x].status \in BusyStatus => delivery[x].status \in BusyStatus

Calm(x) == Undisturbed(x) /\ Away(x) /\ Keeps(x)

LEMMA Still ==
  ASSUME NEW x \in Deliveries, delivery'[x] = delivery[x],
         \A t \in StopType : stop'[x][t].status = stop[x][t].status
  PROVE  Calm(x)
  BY DEF Calm, Undisturbed, Away, Keeps

(* Where the table lets a status come from.                                *)
LEMMA Sources ==
  ASSUME NEW d, NEW target, applyTransition(d, target)
  PROVE  /\ target = "DELIVERY_FAILED" => delivery[d].status \in BusyStatus
         /\ target = "COLLECTED" => delivery[d].status = "AWAITING_PICKUP"
         /\ target = "IN_ROUTE" => delivery[d].status = "COLLECTED"
         /\ target = "DELIVERED" => delivery[d].status \in {"IN_ROUTE", "NEXT_STOP"}
         /\ target = "RETURN_STARTED" => delivery[d].status = "DELIVERY_FAILED"
         /\ target = "RETURNED" => delivery[d].status = "RETURN_STARTED"
         /\ target = "CANCELLED" => delivery[d].status \in Cancellable
<1>1. <<delivery[d].status, target>> \in allowedTransitions
  BY DEF applyTransition
<1> QED
  BY <1>1 DEF allowedTransitions, BusyStatus, Cancellable

(* applyTransition, one delivery at a time.                                *)
LEMMA OneTransition ==
  ASSUME NEW d, NEW target, applyTransition(d, target), NEW x \in Deliveries
  PROVE  /\ x = d => /\ delivery'[x].status = target
                     /\ delivery'[x].courier = delivery[x].courier
                     /\ delivery'[x].route = delivery[x].route
         /\ x # d => delivery'[x] = delivery[x]
<1>1. Advance([y \in {d} |-> <<target>>], delivery)
  BY DEF applyTransition
<1> QED
  BY <1>1 DEF Advance

(* One delivery of a pair of statuses, and others with it.                 *)
LEMMA PairMoves ==
  ASSUME NEW d, NEW S, NEW t, NEW u,
         Advance([x \in {d} \cup S |-> IF x = d THEN <<t>> ELSE <<u>>], delivery),
         NEW x \in Deliveries
  PROVE  /\ delivery'[x].courier = delivery[x].courier /\ delivery'[x].route = delivery[x].route
         /\ x = d => delivery'[x].status = t
         /\ x \in S /\ x # d => delivery'[x].status = u
         /\ x # d /\ x \notin S => delivery'[x] = delivery[x]
  BY DEF Advance

LEMMA DeliveriesCalm ==
  ASSUME IInv, NEW d \in Deliveries, NEW x \in Deliveries,
         \/ createDelivery(d)
         \/ releaseDelivery(d)
         \/ \E c \in Couriers : assignDelivery(d, c)
         \/ unassignDelivery(d)
         \/ \E target \in {"COLLECTED", "IN_ROUTE"} : pickupTransition(d, target)
         \/ cancelDelivery(d)
  PROVE  Calm(x)
<1>0. TypeOK /\ Custody
  BY DEF IInv
<1>a. ASSUME UNCHANGED stop, delivery'[x] = delivery[x]
      PROVE  Calm(x)
  BY <1>a, Still
<1> USE DEF Waiting, Back, Taken, BusyStatus
<1>1. CASE createDelivery(d)
  <2>1. /\ x = d => /\ delivery'[x].status \in {"DRAFT", "AWAITING_COURIER"}
                    /\ delivery'[x].route = delivery[x].route
                    /\ delivery[x].status = "NONE"
        /\ x # d => delivery'[x] = delivery[x]
        /\ UNCHANGED stop
    BY <1>0, <1>1 DEF createDelivery, Exists, TypeOK, DeliveryRow, routeVars
  <2>2. x = d => delivery'[x].route = NoOne
    BY <1>0, <2>1 DEF Custody
  <2> QED
    BY <1>a, <2>1, <2>2 DEF Calm, Undisturbed, Away, Keeps
<1>2. CASE releaseDelivery(d)
  <2>1. applyTransition(d, "AWAITING_COURIER") /\ delivery[d].status = "DRAFT" /\ UNCHANGED stop
    BY <1>2 DEF releaseDelivery, routeVars
  <2>2. x = d => delivery'[x].route = NoOne /\ delivery'[x].status = "AWAITING_COURIER"
    BY <1>0, <2>1, OneTransition DEF Custody
  <2>3. x # d => delivery'[x] = delivery[x]
    BY <2>1, OneTransition
  <2> QED
    BY <1>a, <2>1, <2>2, <2>3 DEF Calm, Undisturbed, Away, Keeps
<1>3. ASSUME NEW c \in Couriers, assignDelivery(d, c)
      PROVE  Calm(x)
  <2>1. /\ x = d => /\ delivery'[x].status = "AWAITING_PICKUP"
                    /\ delivery'[x].route = delivery[x].route
        /\ x # d => delivery'[x] = delivery[x]
        /\ UNCHANGED stop
    BY <1>0, <1>3 DEF assignDelivery, Advance, TypeOK, DeliveryRow, routeVars
  <2>2. delivery[d].status = "AWAITING_COURIER"
    BY <1>3 DEF assignDelivery, allowedTransitions, Cancellable
  <2>3. x = d => delivery'[x].route = NoOne
    BY <1>0, <2>1, <2>2 DEF Custody
  <2> QED
    BY <1>a, <2>1, <2>2, <2>3 DEF Calm, Undisturbed, Away, Keeps
<1>4. CASE unassignDelivery(d)
  <2>1. /\ x = d => /\ delivery'[x].status = "AWAITING_COURIER"
                    /\ delivery'[x].route = NoOne
                    /\ delivery[x].status = "AWAITING_PICKUP"
                    /\ ActiveOffers(x) = {}
        /\ x # d => delivery'[x] = delivery[x]
        /\ UNCHANGED stop
    BY <1>0, <1>4 DEF unassignDelivery, Advance, TypeOK, DeliveryRow, routeVars, Custody
  <2> QED
    BY <1>a, <2>1 DEF Calm, Undisturbed, Away, Keeps
<1>5. ASSUME NEW target \in {"COLLECTED", "IN_ROUTE"}, pickupTransition(d, target)
      PROVE  Calm(x)
  <2>1. applyTransition(d, target) /\ delivery[d].route = NoOne /\ UNCHANGED stop
    BY <1>5 DEF pickupTransition, routeVars
  <2>2. x = d => /\ delivery'[x].route = NoOne
                 /\ delivery'[x].courier = delivery[x].courier
                 /\ delivery'[x].status \in {"COLLECTED", "IN_ROUTE"}
                 /\ delivery[x].status \in {"AWAITING_PICKUP", "COLLECTED"}
    BY <2>1, OneTransition, Sources
  <2>3. x # d => delivery'[x] = delivery[x]
    BY <2>1, OneTransition
  <2> QED
    BY <1>a, <2>1, <2>2, <2>3 DEF Calm, Undisturbed, Away, Keeps
<1>6. CASE cancelDelivery(d)
  <2>1. applyTransition(d, "CANCELLED") /\ ActiveOffers(d) = {} /\ UNCHANGED stop
    BY <1>6 DEF cancelDelivery, routeVars
  <2>2. x = d => /\ delivery'[x].status = "CANCELLED"
                 /\ delivery'[x].route = delivery[x].route
                 /\ delivery[x].status \in Cancellable
                 /\ ActiveOffers(x) = {}
    BY <2>1, OneTransition, Sources
  <2>3. x # d => delivery'[x] = delivery[x]
    BY <2>1, OneTransition
  <2> QED
    BY <1>a, <2>1, <2>2, <2>3 DEF Calm, Undisturbed, Away, Keeps, Quiet, Cancellable
<1> QED
  BY <1>1, <1>2, <1>3, <1>4, <1>5, <1>6

(* A failed delivery is quiet for its stops and for its offer.             *)
LEMMA FailureOfOne ==
  ASSUME NEW d \in Deliveries, NEW i, failDelivery(d, i), NEW x \in Deliveries
  PROVE  /\ Undisturbed(x) /\ Keeps(x)
         /\ x # d => Away(x)
         /\ x = d => delivery[x].status \in BusyStatus /\ delivery'[x].status = "DELIVERY_FAILED"
<1>1. applyTransition(d, "DELIVERY_FAILED") /\ UNCHANGED stop
  BY DEF failDelivery, routeVars
<1>2. /\ x = d => /\ delivery'[x].status = "DELIVERY_FAILED"
                  /\ delivery[x].status \in BusyStatus
                  /\ delivery'[x].courier = delivery[x].courier
                  /\ delivery'[x].route = delivery[x].route
      /\ x # d => delivery'[x] = delivery[x]
  BY <1>1, OneTransition, Sources
<1>3. x # d => Calm(x)
  BY <1>1, <1>2, Still
<1>4. x = d => Undisturbed(x) /\ Keeps(x)
  BY <1>1, <1>2 DEF Undisturbed, Keeps, Quiet, Taken, Back, BusyStatus
<1> QED
  BY <1>2, <1>3, <1>4 DEF Calm

LEMMA ReturnOfOne ==
  ASSUME NEW i, startReturn(i) \/ completeReturn(i), NEW x \in Deliveries
  PROVE  /\ Undisturbed(x) /\ Keeps(x)
         /\ x # incident[i].delivery => Away(x)
         /\ x = incident[i].delivery =>
              \/ /\ startReturn(i) /\ delivery[x].status = "DELIVERY_FAILED"
                 /\ delivery'[x].status = "RETURN_STARTED"
              \/ /\ completeReturn(i) /\ delivery[x].status = "RETURN_STARTED"
                 /\ delivery'[x].status = "RETURNED"
<1> DEFINE d == incident[i].delivery
<1>1. UNCHANGED stop
  BY DEF startReturn, completeReturn, routeVars
<1>2. /\ x = d => /\ \/ /\ startReturn(i) /\ delivery[x].status = "DELIVERY_FAILED"
                        /\ delivery'[x].status = "RETURN_STARTED"
                     \/ /\ completeReturn(i) /\ delivery[x].status = "RETURN_STARTED"
                        /\ delivery'[x].status = "RETURNED"
                  /\ delivery'[x].courier = delivery[x].courier
                  /\ delivery'[x].route = delivery[x].route
      /\ x # d => delivery'[x] = delivery[x]
  <2>1. CASE startReturn(i)
    <3>1. applyTransition(d, "RETURN_STARTED")
      BY <2>1 DEF startReturn
    <3> QED
      BY <2>1, <3>1, OneTransition, Sources
  <2>2. CASE completeReturn(i)
    <3>1. applyTransition(d, "RETURNED")
      BY <2>2 DEF completeReturn
    <3> QED
      BY <2>2, <3>1, OneTransition, Sources
  <2> QED
    BY <2>1, <2>2
<1>3. x # d => Calm(x)
  BY <1>1, <1>2, Still
<1>4. x = d => Undisturbed(x) /\ Keeps(x)
  BY <1>1, <1>2 DEF Undisturbed, Keeps, Quiet, Taken, Back, BusyStatus
<1> QED
  BY <1>2, <1>3, <1>4 DEF Calm

LEMMA RoutesCalm ==
  ASSUME IInv, NEW x \in Deliveries,
         \/ \E r \in Routes :
              \/ \E stopIds \in StopLists(r) : reorderRoute(r, stopIds)
              \/ \E q \in Orders(RouteDeliveries(r)) : optimizeRoute(r, q)
              \/ applyRouteSuggestion(r)
              \/ startRoute(r)
         \/ \E d \in Deliveries : prioritizeRouteStop(d)
  PROVE  Calm(x)
<1>0. TypeOK /\ Custody
  BY DEF IInv
<1>a. \A f : stop' = Resequenced(f) => \A t \in StopType : stop'[x][t].status = stop[x][t].status
  BY <1>0 DEF Resequenced, TypeOK, StopRow
<1>1. ASSUME NEW r \in Routes, NEW stopIds, reorderRoute(r, stopIds)
      PROVE  Calm(x)
  <2>1. (\E f : stop' = Resequenced(f)) /\ UNCHANGED delivery
    BY <1>1 DEF reorderRoute
  <2> QED
    BY <1>a, <2>1, Still
<1>2. ASSUME NEW r \in Routes, NEW q, optimizeRoute(r, q)
      PROVE  Calm(x)
  <2>1. UNCHANGED <<stop, delivery>>
    BY <1>2 DEF optimizeRoute
  <2> QED
    BY <2>1, Still
<1>3. ASSUME NEW r \in Routes, applyRouteSuggestion(r)
      PROVE  Calm(x)
  <2>1. (\E f : stop' = Resequenced(f)) /\ UNCHANGED delivery
    BY <1>3 DEF applyRouteSuggestion
  <2> QED
    BY <1>a, <2>1, Still
<1>4. ASSUME NEW r \in Routes, startRoute(r)
      PROVE  Calm(x)
  <2> DEFINE left == PendingDrops(r)
  <2>1. /\ delivery'[x].courier = delivery[x].courier /\ delivery'[x].route = delivery[x].route
        /\ x \in left => /\ delivery'[x].status \in {"IN_ROUTE", "NEXT_STOP"}
                         /\ delivery[x].status = "COLLECTED"
        /\ x \notin left => delivery'[x] = delivery[x]
    BY <1>4 DEF startRoute, MayStart, Advance
  <2>2. UNCHANGED stop
    BY <1>4 DEF startRoute
  <2>3. x \notin left => Calm(x)
    BY <2>1, <2>2, Still
  <2>4. x \in left => Calm(x)
    BY <2>1, <2>2 DEF Calm, Undisturbed, Away, Keeps, Quiet, Back, Taken, BusyStatus
  <2> QED
    BY <2>3, <2>4
<1>5. ASSUME NEW d \in Deliveries, prioritizeRouteStop(d)
      PROVE  Calm(x)
  <2>1. PICK S : /\ \A e \in S : e # d /\ delivery[e].status = "NEXT_STOP"
                 /\ Advance([y \in {d} \cup S |->
                              IF y = d THEN <<"NEXT_STOP">> ELSE <<"IN_ROUTE">>], delivery)
    BY <1>5 DEF prioritizeRouteStop, FirstOf, PendingDrops
  <2>2. delivery[d].status = "IN_ROUTE" /\ (\E f : stop' = Resequenced(f))
    BY <1>5 DEF prioritizeRouteStop
  <2>3. /\ delivery'[x].courier = delivery[x].courier /\ delivery'[x].route = delivery[x].route
        /\ x = d => delivery'[x].status = "NEXT_STOP"
        /\ x \in S => delivery'[x].status = "IN_ROUTE"
        /\ x # d /\ x \notin S => delivery'[x] = delivery[x]
    BY <2>1 DEF Advance
  <2>4. \A t \in StopType : stop'[x][t].status = stop[x][t].status
    BY <1>a, <2>2
  <2>5. x # d /\ x \notin S => Calm(x)
    BY <2>3, <2>4, Still
  <2>6. x = d \/ x \in S => Calm(x)
    BY <2>1, <2>2, <2>3, <2>4
       DEF Calm, Undisturbed, Away, Keeps, Quiet, Back, Taken, BusyStatus
  <2> QED
    BY <2>5, <2>6
<1> QED
  BY <1>1, <1>2, <1>3, <1>4, <1>5

(* The four steps that write the status of a stop, or of deliveries that   *)
(* join a route.                                                           *)
LEMMA CreateRouteOfOne ==
  ASSUME IInv, NEW r \in Routes, NEW c, NEW S \in SUBSET Deliveries, NEW order,
         createRoute(r, c, S, order), NEW x \in Deliveries
  PROVE  /\ Away(x) /\ Keeps(x)
         /\ x \notin S => Calm(x)
         /\ x \in S => /\ delivery'[x].status = "AWAITING_PICKUP"
                       /\ \A t \in StopType : stop'[x][t].status = "PENDING"
<1>1. /\ x \in S => /\ delivery[x].status = "AWAITING_COURIER"
                    /\ delivery'[x].status = "AWAITING_PICKUP"
                    /\ \A t \in StopType : stop'[x][t].status = "PENDING"
      /\ x \notin S => delivery'[x] = delivery[x] /\ stop'[x] = stop[x]
  BY DEF createRoute, Advance
<1>2. x \notin S => Calm(x)
  BY <1>1, Still
<1>3. x \in S => Away(x) /\ Keeps(x)
  BY <1>1 DEF Away, Keeps, Back, Waiting
<1> QED
  BY <1>1, <1>2, <1>3 DEF Calm

LEMMA PickupOfOne ==
  ASSUME IInv, NEW d \in Deliveries, completePickup(d), NEW x \in Deliveries
  PROVE  /\ Away(x) /\ Keeps(x)
         /\ x # d => Calm(x)
         /\ x = d => /\ delivery[x].status = "AWAITING_PICKUP"
                     /\ delivery'[x].status = "COLLECTED"
                     /\ delivery[x].route # NoOne
                     /\ stop'[x]["PICKUP"].status = "COMPLETED"
                     /\ stop'[x]["DELIVERY"] = stop[x]["DELIVERY"]
<1>1. /\ x = d => /\ delivery[x].status = "AWAITING_PICKUP"
                  /\ delivery'[x].status = "COLLECTED"
                  /\ delivery[x].route # NoOne
                  /\ delivery'[x].courier = delivery[x].courier
      /\ x # d => delivery'[x] = delivery[x]
  BY DEF completePickup, Advance, StopIsNext
<1>2. /\ x = d => /\ stop'[x]["PICKUP"].status = "COMPLETED"
                  /\ stop'[x]["DELIVERY"] = stop[x]["DELIVERY"]
      /\ x # d => stop'[x] = stop[x]
  BY DEF completePickup, IInv, TypeOK, StopRow, StopType
<1>3. x # d => Calm(x)
  BY <1>1, <1>2, Still
<1>4. x = d => Away(x) /\ Keeps(x)
  BY <1>1 DEF Away, Keeps, Back, Taken, BusyStatus
<1> QED
  BY <1>1, <1>2, <1>3, <1>4 DEF Calm

(* Closing a destination or cancelling an external delivery: the others    *)
(* are calm, and promoted ones only become the next stop.                  *)
LEMMA DropOfOne ==
  ASSUME IInv, NEW d \in Deliveries, completeDrop(d), NEW x \in Deliveries
  PROVE  /\ Away(x)
         /\ x # d => Calm(x)
         /\ x = d => /\ delivery[x].status = "NEXT_STOP"
                     /\ delivery'[x].status = "DELIVERED"
                     /\ delivery'[x].courier = delivery[x].courier
                     /\ delivery[x].route # NoOne
                     /\ stop'[x]["DELIVERY"].status = "COMPLETED"
                     /\ stop'[x]["PICKUP"] = stop[x]["PICKUP"]
<1>1. PICK S : /\ \A e \in S : e # d /\ delivery[e].status = "IN_ROUTE"
               /\ Advance([y \in {d} \cup S |->
                            IF y = d THEN <<"DELIVERED">> ELSE <<"NEXT_STOP">>], delivery)
  BY DEF completeDrop, NextInLine, FirstOf
<1>2. /\ delivery'[x].courier = delivery[x].courier /\ delivery'[x].route = delivery[x].route
      /\ x = d => delivery'[x].status = "DELIVERED"
      /\ x \in S => delivery'[x].status = "NEXT_STOP"
      /\ x # d /\ x \notin S => delivery'[x] = delivery[x]
  BY <1>1 DEF Advance
<1>3. delivery[d].status = "NEXT_STOP" /\ delivery[d].route # NoOne
  BY DEF completeDrop, StopIsNext
<1>4. /\ x = d => /\ stop'[x]["DELIVERY"].status = "COMPLETED"
                  /\ stop'[x]["PICKUP"] = stop[x]["PICKUP"]
      /\ x # d => stop'[x] = stop[x]
  BY DEF completeDrop, IInv, TypeOK, StopRow, StopType
<1>5. x # d /\ x \notin S => Calm(x)
  BY <1>2, <1>4, Still
<1>6. x \in S => Calm(x)
  BY <1>1, <1>2, <1>4 DEF Calm, Undisturbed, Away, Keeps, Quiet, Back, Taken, BusyStatus
<1> QED
  BY <1>2, <1>3, <1>4, <1>5, <1>6 DEF Calm, Away, Back

LEMMA CancelOfOne ==
  ASSUME IInv, NEW d \in Deliveries, cancelExternalDelivery(d), NEW x \in Deliveries
  PROVE  /\ Away(x)
         /\ x # d => Calm(x)
         /\ x = d => /\ delivery[x].status \in Cancellable
                     /\ delivery'[x].status = "CANCELLED"
                     /\ delivery'[x].route = delivery[x].route
                     /\ \A t \in StopType : stop'[x][t].status \in {stop[x][t].status, "SKIPPED"}
<1>1. PICK S : /\ \A e \in S : e # d /\ delivery[e].status = "IN_ROUTE"
               /\ Advance([y \in {d} \cup S |->
                            IF y = d THEN <<"CANCELLED">> ELSE <<"NEXT_STOP">>], delivery)
  BY DEF cancelExternalDelivery, NextInLine, FirstOf
<1>2. /\ delivery'[x].courier = delivery[x].courier /\ delivery'[x].route = delivery[x].route
      /\ x = d => delivery'[x].status = "CANCELLED"
      /\ x \in S => delivery'[x].status = "NEXT_STOP"
      /\ x # d /\ x \notin S => delivery'[x] = delivery[x]
  BY <1>1 DEF Advance
<1>3. delivery[d].status \in Cancellable
  <2>1. <<delivery[d].status, "CANCELLED">> \in allowedTransitions
    BY DEF cancelExternalDelivery
  <2> QED
    BY <2>1 DEF allowedTransitions
<1>4. /\ x = d => \A t \in StopType : stop'[x][t].status \in {stop[x][t].status, "SKIPPED"}
      /\ x # d => stop'[x] = stop[x]
  BY DEF cancelExternalDelivery, IInv, TypeOK, StopRow
<1>5. x # d /\ x \notin S => Calm(x)
  BY <1>2, <1>4, Still
<1>6. x \in S => Calm(x)
  BY <1>1, <1>2, <1>4 DEF Calm, Undisturbed, Away, Keeps, Quiet, Back, Taken, BusyStatus
<1> QED
  BY <1>2, <1>3, <1>4, <1>5, <1>6 DEF Calm, Away, Back, Cancellable

(* A delivery completed outside any route.                                 *)
LEMMA CompletionOfOne ==
  ASSUME NEW d \in Deliveries, completeDelivery(d), NEW x \in Deliveries
  PROVE  /\ Undisturbed(x) /\ Away(x)
         /\ x # d => Calm(x)
         /\ x = d => /\ delivery[x].status \in {"IN_ROUTE", "NEXT_STOP"}
                     /\ delivery'[x].status = "DELIVERED"
                     /\ delivery'[x].courier = delivery[x].courier
<1>1. applyTransition(d, "DELIVERED") /\ delivery[d].route = NoOne /\ UNCHANGED stop
  BY DEF completeDelivery, routeVars
<1>2. /\ x = d => /\ delivery[x].status \in {"IN_ROUTE", "NEXT_STOP"}
                  /\ delivery'[x].status = "DELIVERED"
                  /\ delivery'[x].courier = delivery[x].courier
                  /\ delivery'[x].route = NoOne
      /\ x # d => delivery'[x] = delivery[x]
  BY <1>1, OneTransition, Sources
<1>3. x # d => Calm(x)
  BY <1>1, <1>2, Still
<1>4. x = d => Undisturbed(x) /\ Away(x)
  BY <1>2 DEF Undisturbed, Away, Back
<1> QED
  BY <1>2, <1>3, <1>4 DEF Calm

(* The marketplace moves deliveries that are not on a route.               *)
LEMMA AcceptanceOfOne ==
  ASSUME IInv, NEW o, NEW c, acceptDeliveryOffer(o, c), NEW x \in Deliveries
  PROVE  /\ Calm(x)
         /\ x = offer[o].delivery => /\ delivery[x].status = "AWAITING_COURIER"
                                     /\ delivery'[x].status = "AWAITING_PICKUP"
                                     /\ delivery'[x].courier = c
         /\ x # offer[o].delivery => delivery'[x] = delivery[x]
<1>1. /\ x = offer[o].delivery => /\ delivery[x].status = "AWAITING_COURIER"
                                  /\ delivery'[x].status = "AWAITING_PICKUP"
                                  /\ delivery'[x].courier = c
                                  /\ delivery'[x].route = delivery[x].route
      /\ x # offer[o].delivery => delivery'[x] = delivery[x]
      /\ UNCHANGED stop
  BY DEF acceptDeliveryOffer, Advance, IInv, TypeOK, DeliveryRow, routeVars
<1>2. x # offer[o].delivery => Calm(x)
  BY <1>1, Still
<1>3. x = offer[o].delivery => delivery[x].route = NoOne
  BY <1>1 DEF IInv, Custody
<1>4. x = offer[o].delivery => Calm(x)
  BY <1>1, <1>3 DEF Calm, Undisturbed, Away, Keeps, Waiting, Back
<1> QED
  BY <1>1, <1>2, <1>4

LEMMA GivingBackOfOne ==
  ASSUME IInv, NEW o \in Offers, NEW byStore, NEW compensation,
         cancelDeliveryOffer(o, byStore, compensation), NEW x \in Deliveries
  PROVE  LET returned == offer[o].status = "ACCEPTED" /\ x = offer[o].delivery
         IN /\ Undisturbed(x) /\ Away(x)
            /\ returned => /\ delivery[x].status = "AWAITING_PICKUP"
                           /\ delivery'[x].status = "AWAITING_COURIER"
            /\ ~returned => delivery'[x] = delivery[x] /\ Calm(x)
<1> DEFINE returned == offer[o].status = "ACCEPTED" /\ x = offer[o].delivery
<1>1. /\ returned => /\ delivery[x].status = "AWAITING_PICKUP"
                     /\ delivery'[x].status = "AWAITING_COURIER"
                     /\ delivery'[x].route = delivery[x].route
      /\ ~returned => delivery'[x] = delivery[x]
      /\ UNCHANGED stop
  BY DEF cancelDeliveryOffer, Advance, IInv, TypeOK, DeliveryRow, routeVars
<1>2. ~returned => Calm(x)
  BY <1>1, Still
<1>3. returned => delivery[x].route = NoOne
  BY DEF IInv, Custody, ActiveOffers
<1>4. returned => Undisturbed(x) /\ Away(x)
  BY <1>1, <1>3 DEF Undisturbed, Away, Back
<1> QED
  BY <1>1, <1>2, <1>4 DEF Calm

(* Steps of the marketplace that leave the deliveries alone.               *)
LEMMA RestCalm ==
  ASSUME UNCHANGED <<delivery, stop>>, NEW x \in Deliveries
  PROVE  Calm(x)
  BY Still

LEMMA CustomersCalm ==
  ASSUME IInv, CustomersNext, NEW x \in Deliveries
  PROVE  Calm(x)
  BY OnlyVersions DEF IInv, Calm, Undisturbed, Away, Keeps

(***************************************************************************)
(* The stops.                                                              *)
(***************************************************************************)
StopTrue(d) ==
  delivery[d].route # NoOne =>
    /\ stop[d]["DELIVERY"].status = "COMPLETED" <=> delivery[d].status = "DELIVERED"
    /\ delivery[d].status \in {"COLLECTED", "IN_ROUTE", "NEXT_STOP", "DELIVERED"}
         => stop[d]["PICKUP"].status = "COMPLETED"
    /\ delivery[d].status = "AWAITING_PICKUP" => stop[d]["PICKUP"].status = "PENDING"
    /\ \A t \in StopType : stop[d][t].status = "SKIPPED" => delivery[d].status = "CANCELLED"

LEMMA UndisturbedStops ==
  ASSUME NEW x \in Deliveries, StopTrue(x), Undisturbed(x)
  PROVE  StopTrue(x)'
<1>1. CASE delivery'[x].route = NoOne
  BY <1>1 DEF StopTrue
<1>2. CASE /\ delivery'[x].route = delivery[x].route
           /\ \A t \in StopType : stop'[x][t].status = stop[x][t].status
           /\ delivery'[x].status = delivery[x].status
  BY <1>2 DEF StopTrue, StopType
<1>3. CASE /\ delivery'[x].route = delivery[x].route
           /\ \A t \in StopType : stop'[x][t].status = stop[x][t].status
           /\ <<delivery[x].status, delivery'[x].status>> \in Quiet
  BY <1>3 DEF StopTrue, StopType, Quiet, BusyStatus, Cancellable
<1> QED
  BY <1>1, <1>2, <1>3 DEF Undisturbed

LEMMA StopsStep ==
  ASSUME IInv, NEW x \in Deliveries, StopTrue(x), [Next]_vars
  PROVE  StopTrue(x)'
<1> DEFINE Goal == StopTrue(x)'
<1>a. Calm(x) => Goal
  BY UndisturbedStops DEF Calm
<1>b. Undisturbed(x) => Goal
  BY UndisturbedStops
<1>1. CASE UNCHANGED vars
  BY <1>1, <1>a, RestCalm DEF vars
<1>2. ASSUME DeliveriesNext PROVE Goal
  <2>1. ASSUME NEW d \in Deliveries, cancelExternalDelivery(d)
        PROVE  Goal
    <3>1. CASE x = d
      BY <2>1, <3>1, CancelOfOne DEF StopTrue, StopType, Cancellable
    <3> QED
      BY <1>a, <2>1, <3>1, CancelOfOne
  <2> HIDE DEF Goal
  <2>2. ASSUME NEW d \in Deliveries, completeDelivery(d)
        PROVE  Goal
    BY <1>b, <2>2, CompletionOfOne
  <2>3. ASSUME NEW d \in Deliveries, NEW i \in Incidents, failDelivery(d, i)
        PROVE  Goal
    BY <1>b, <2>3, FailureOfOne
  <2> QED
    BY <1>2, <1>a, <2>1, <2>2, <2>3, DeliveriesCalm DEF DeliveriesNext
<1>3. ASSUME MarketplaceNext PROVE Goal
  <2>1. ASSUME NEW o \in Offers, NEW c \in Couriers, acceptDeliveryOffer(o, c)
        PROVE  Goal
    BY <1>a, <2>1, AcceptanceOfOne
  <2>2. ASSUME NEW o \in Offers, NEW byStore, NEW compensation,
               cancelDeliveryOffer(o, byStore, compensation)
        PROVE  Goal
    BY <1>b, <2>2, GivingBackOfOne
  <2>3. UNCHANGED <<delivery, stop>> => Goal
    BY <1>a, RestCalm
  <2> HIDE DEF Goal
  <2> QED
    BY <1>3, <2>1, <2>2, <2>3
       DEF MarketplaceNext, createDeliveryOffer, reviseDeliveryOfferPrice, OfferLapses,
           expireDeliveryOffers, routeVars
<1>4. ASSUME RoutesNext PROVE Goal
  <2>1. ASSUME NEW r \in Routes, NEW c \in Couriers, NEW S \in SUBSET Deliveries, NEW order,
               createRoute(r, c, S, order)
        PROVE  Goal
    <3>1. CASE x \in S
      BY <2>1, <3>1, CreateRouteOfOne DEF StopTrue, StopType
    <3> QED
      BY <1>a, <2>1, <3>1, CreateRouteOfOne
  <2>2. ASSUME NEW d \in Deliveries, completePickup(d)
        PROVE  Goal
    <3>1. CASE x = d
      BY <2>2, <3>1, PickupOfOne DEF StopTrue, StopType
    <3> QED
      BY <1>a, <2>2, <3>1, PickupOfOne
  <2>3. ASSUME NEW d \in Deliveries, completeDrop(d)
        PROVE  Goal
    <3>1. CASE x = d
      BY <2>3, <3>1, DropOfOne DEF StopTrue, StopType
    <3> QED
      BY <1>a, <2>3, <3>1, DropOfOne
  <2> HIDE DEF Goal
  <2> QED
    BY <1>4, <1>a, <2>1, <2>2, <2>3, RoutesCalm DEF RoutesNext
<1>5. ASSUME IncidentsNext PROVE Goal
  <2>1. ASSUME NEW i \in Incidents, startReturn(i) \/ completeReturn(i)
        PROVE  Goal
    BY <1>b, <2>1, ReturnOfOne
  <2>2. UNCHANGED <<delivery, stop>> => Goal
    BY <1>a, RestCalm
  <2> HIDE DEF Goal
  <2> QED
    BY <1>5, <2>1, <2>2
       DEF IncidentsNext, openIncident, reviewIncident, resolveIncident, routeVars
<1>6. ASSUME CustomersNext PROVE Goal
  BY <1>6, <1>a, CustomersCalm
<1> QED
  BY <1>1, <1>2, <1>3, <1>4, <1>5, <1>6 DEF Next

(***************************************************************************)
(* The way back.                                                           *)
(***************************************************************************)
ReturnTrue(d) ==
  /\ delivery[d].status = "RETURN_STARTED" <=>
       \E i \in Incidents : incident[i].status = "RETURN_IN_PROGRESS" /\ incident[i].delivery = d
  /\ \A i, j \in Incidents :
       /\ incident[i].status = "RETURN_IN_PROGRESS" /\ incident[j].status = "RETURN_IN_PROGRESS"
       /\ incident[i].delivery = d /\ incident[j].delivery = d
       => i = j
  /\ delivery[d].status \in Back =>
       \E i \in Incidents : incident[i].delivery = d /\ incident[i].source # -1

(* Every incident is about a delivery.                                     *)
IncidentsNamed ==
  \A i \in Incidents :
    /\ incident[i].status = "NONE" => incident[i].delivery = NoOne
    /\ incident[i].status # "NONE" => incident[i].delivery \in Deliveries

(* What a step that is not a return does to incident i, seen from x.       *)
Unrelated(i, x) ==
  /\ incident[i].delivery = x =>
       /\ incident'[i].delivery = x /\ incident'[i].source = incident[i].source
       /\ incident'[i].status = "RETURN_IN_PROGRESS" <=> incident[i].status = "RETURN_IN_PROGRESS"
  /\ incident[i].delivery # x /\ incident'[i].delivery = x =>
       incident'[i].status # "RETURN_IN_PROGRESS"

LEMMA AwayReturns ==
  ASSUME NEW x \in Deliveries, ReturnTrue(x), Away(x),
         \A i \in Incidents : Unrelated(i, x)
  PROVE  ReturnTrue(x)'
<1>1. /\ delivery'[x].status \in Back => delivery[x].status \in Back
      /\ delivery'[x].status = "RETURN_STARTED" <=> delivery[x].status = "RETURN_STARTED"
  BY DEF Away, Back
<1>2. delivery'[x].status = "RETURN_STARTED" <=>
       \E i \in Incidents : incident'[i].status = "RETURN_IN_PROGRESS" /\ incident'[i].delivery = x
  BY <1>1 DEF ReturnTrue, Unrelated
<1>3. \A i, j \in Incidents :
       /\ incident'[i].status = "RETURN_IN_PROGRESS" /\ incident'[j].status = "RETURN_IN_PROGRESS"
       /\ incident'[i].delivery = x /\ incident'[j].delivery = x
       => i = j
  BY DEF ReturnTrue, Unrelated
<1>4. delivery'[x].status \in Back =>
       \E i \in Incidents : incident'[i].delivery = x /\ incident'[i].source # -1
  BY <1>1 DEF ReturnTrue, Unrelated
<1> QED
  BY <1>2, <1>3, <1>4 DEF ReturnTrue, Unrelated

LEMMA NamedStep ==
  ASSUME TypeOK, IncidentsNamed, [Next]_vars
  PROVE  IncidentsNamed'
<1>1. CASE UNCHANGED incident
  BY <1>1 DEF IncidentsNamed
<1>2. ASSUME NEW i \in Incidents, NEW d \in Deliveries, openIncident(i, d)
      PROVE  IncidentsNamed'
  BY <1>2 DEF IncidentsNamed, openIncident, TypeOK
<1>3. ASSUME NEW i \in Incidents, reviewIncident(i) \/ resolveIncident(i) \/ startReturn(i)
                                  \/ completeReturn(i)
      PROVE  IncidentsNamed'
  <2>1. \A j \in Incidents :
          /\ incident'[j].delivery = incident[j].delivery
          /\ incident'[j].status = "NONE" <=> incident[j].status = "NONE"
    BY <1>3 DEF reviewIncident, resolveIncident, startReturn, completeReturn, TypeOK, IncidentRow
  <2> QED
    BY <2>1 DEF IncidentsNamed
<1>4. ASSUME NEW d \in Deliveries, NEW i \in Incidents, failDelivery(d, i)
      PROVE  IncidentsNamed'
  BY <1>4 DEF IncidentsNamed, failDelivery, TypeOK
<1>5. CustomersNext => UNCHANGED incident
  BY OnlyVersions
<1> QED
  BY <1>1, <1>2, <1>3, <1>4, <1>5
     DEF Next, vars, DeliveriesNext, createDelivery, releaseDelivery, assignDelivery,
         unassignDelivery, pickupTransition, completeDelivery, cancelDelivery,
         cancelExternalDelivery, MarketplaceNext, createDeliveryOffer, acceptDeliveryOffer,
         reviseDeliveryOfferPrice, cancelDeliveryOffer, OfferLapses, expireDeliveryOffers,
         RoutesNext, createRoute, reorderRoute, optimizeRoute, applyRouteSuggestion, startRoute,
         completePickup, completeDrop, prioritizeRouteStop, IncidentsNext

(* The failure that opens an incident, unless its version has one.         *)
LEMMA FailureReturns ==
  ASSUME IInv, IncidentsNamed, NEW d \in Deliveries, NEW i \in Incidents, failDelivery(d, i),
         NEW x \in Deliveries, ReturnTrue(x)
  PROVE  ReturnTrue(x)'
<1>0. TypeOK /\ RecordsAssumption
  BY RecordsAssumption DEF IInv
<1>1. /\ \A j \in Incidents : j # i => incident'[j] = incident[j]
      /\ incident[i].status = "NONE" /\ incident[i].delivery = NoOne
      /\ \/ incident'[i] = incident[i]
            /\ \E j \in Incidents : incident[j].delivery = d
                                  /\ incident[j].source = delivery[d].version + 1
         \/ incident'[i].status = "OPEN" /\ incident'[i].delivery = d
            /\ incident'[i].source = delivery[d].version + 1
  BY <1>0 DEF failDelivery, IncidentsNamed, TypeOK
<1>2. delivery[d].version + 1 # -1
  BY <1>0 DEF TypeOK, DeliveryRow
<1>3. \A j \in Incidents : Unrelated(j, x)
  BY <1>0, <1>1 DEF Unrelated, RecordsAssumption
<1>4. CASE x # d
  BY <1>3, <1>4, FailureOfOne, AwayReturns
<1>5. CASE x = d
  <2>1. delivery[x].status \in BusyStatus /\ delivery'[x].status = "DELIVERY_FAILED"
    BY <1>5, FailureOfOne
  <2>2. \A j \in Incidents : ~(incident[j].status = "RETURN_IN_PROGRESS" /\ incident[j].delivery = x)
    BY <2>1 DEF ReturnTrue, BusyStatus
  <2>3. \A j \in Incidents : ~(incident'[j].status = "RETURN_IN_PROGRESS" /\ incident'[j].delivery = x)
    BY <1>3, <2>2 DEF Unrelated
  <2>4. \E j \in Incidents : incident'[j].delivery = x /\ incident'[j].source # -1
    BY <1>1, <1>2, <1>5
  <2> QED
    BY <2>1, <2>3, <2>4 DEF ReturnTrue
<1> QED
  BY <1>4, <1>5

LEMMA ReturnReturns ==
  ASSUME IInv, IncidentsNamed, NEW i \in Incidents, startReturn(i) \/ completeReturn(i),
         NEW x \in Deliveries, ReturnTrue(x)
  PROVE  ReturnTrue(x)'
<1>0. TypeOK
  BY DEF IInv
<1>1. /\ \A j \in Incidents : j # i => incident'[j] = incident[j]
      /\ incident'[i].delivery = incident[i].delivery /\ incident'[i].source = incident[i].source
      /\ startReturn(i) => /\ incident[i].status # "RETURN_IN_PROGRESS"
                           /\ incident'[i].status = "RETURN_IN_PROGRESS"
      /\ completeReturn(i) => /\ incident[i].status = "RETURN_IN_PROGRESS"
                              /\ incident'[i].status = "RESOLVED"
  BY <1>0 DEF startReturn, completeReturn, TypeOK, IncidentRow
<1>2. CASE x # incident[i].delivery
  <2>1. \A j \in Incidents : Unrelated(j, x)
    BY <1>1, <1>2 DEF Unrelated
  <2> QED
    BY <1>2, <2>1, ReturnOfOne, AwayReturns
<1>3. CASE x = incident[i].delivery
  <2>1. \/ /\ startReturn(i) /\ delivery[x].status = "DELIVERY_FAILED"
           /\ delivery'[x].status = "RETURN_STARTED"
        \/ /\ completeReturn(i) /\ delivery[x].status = "RETURN_STARTED"
           /\ delivery'[x].status = "RETURNED"
    BY <1>3, ReturnOfOne
  <2>2. CASE /\ startReturn(i) /\ delivery[x].status = "DELIVERY_FAILED"
             /\ delivery'[x].status = "RETURN_STARTED"
    <3>1. \A j \in Incidents :
            incident'[j].status = "RETURN_IN_PROGRESS" /\ incident'[j].delivery = x <=> j = i
      BY <1>1, <1>3, <2>2 DEF ReturnTrue
    <3>2. \E j \in Incidents : incident'[j].delivery = x /\ incident'[j].source # -1
      BY <1>1, <2>2 DEF ReturnTrue, Back
    <3> QED
      BY <2>2, <3>1, <3>2 DEF ReturnTrue
  <2>3. CASE /\ completeReturn(i) /\ delivery[x].status = "RETURN_STARTED"
             /\ delivery'[x].status = "RETURNED"
    <3>1. \A j \in Incidents :
            ~(incident'[j].status = "RETURN_IN_PROGRESS" /\ incident'[j].delivery = x)
      BY <1>1, <1>3, <2>3 DEF ReturnTrue
    <3>2. \E j \in Incidents : incident'[j].delivery = x /\ incident'[j].source # -1
      BY <1>1, <2>3 DEF ReturnTrue, Back
    <3> QED
      BY <2>3, <3>1, <3>2 DEF ReturnTrue
  <2> QED
    BY <2>1, <2>2, <2>3
<1> QED
  BY <1>2, <1>3

(* Every other step is away from the return of every delivery.             *)
LEMMA ReturnsStep ==
  ASSUME IInv, IncidentsNamed, NEW x \in Deliveries, ReturnTrue(x), [Next]_vars
  PROVE  ReturnTrue(x)'
<1>0. TypeOK /\ RecordsAssumption
  BY RecordsAssumption DEF IInv
<1> DEFINE Goal == ReturnTrue(x)'
<1>a. ASSUME UNCHANGED incident, Away(x) PROVE Goal
  BY <1>a, AwayReturns DEF Unrelated
<1>b. ASSUME UNCHANGED incident, Calm(x) PROVE Goal
  BY <1>a, <1>b DEF Calm
<1>c. ASSUME UNCHANGED <<delivery, incident>> PROVE Goal
  BY <1>a, <1>c DEF Away
<1>1. ASSUME UNCHANGED vars PROVE Goal
  BY <1>1, <1>c DEF vars
<1>2. ASSUME DeliveriesNext PROVE Goal
  <2>1. ASSUME NEW d \in Deliveries, cancelExternalDelivery(d)
        PROVE  Goal
    BY <1>a, <2>1, CancelOfOne DEF cancelExternalDelivery
  <2>2. ASSUME NEW d \in Deliveries, completeDelivery(d)
        PROVE  Goal
    BY <1>a, <2>2, CompletionOfOne DEF completeDelivery
  <2>3. ASSUME NEW d \in Deliveries, NEW i \in Incidents, failDelivery(d, i)
        PROVE  Goal
    BY <2>3, FailureReturns
  <2> HIDE DEF Goal
  <2>4. ASSUME NEW d \in Deliveries,
               \/ createDelivery(d)
               \/ releaseDelivery(d)
               \/ \E c \in Couriers : assignDelivery(d, c)
               \/ unassignDelivery(d)
               \/ \E target \in {"COLLECTED", "IN_ROUTE"} : pickupTransition(d, target)
               \/ cancelDelivery(d)
        PROVE  Goal
    <3>1. UNCHANGED incident
      BY <2>4 DEF createDelivery, releaseDelivery, assignDelivery, unassignDelivery,
                  pickupTransition, cancelDelivery
    <3> QED
      BY <1>b, <2>4, <3>1, DeliveriesCalm
  <2> QED
    BY <1>2, <2>1, <2>2, <2>3, <2>4 DEF DeliveriesNext
<1>3. ASSUME MarketplaceNext PROVE Goal
  <2>1. ASSUME NEW o \in Offers, NEW c \in Couriers, acceptDeliveryOffer(o, c)
        PROVE  Goal
    BY <1>b, <2>1, AcceptanceOfOne DEF acceptDeliveryOffer
  <2>2. ASSUME NEW o \in Offers, NEW byStore, NEW compensation,
               cancelDeliveryOffer(o, byStore, compensation)
        PROVE  Goal
    BY <1>a, <2>2, GivingBackOfOne DEF cancelDeliveryOffer
  <2> HIDE DEF Goal
  <2> QED
    BY <1>3, <1>c, <2>1, <2>2
       DEF MarketplaceNext, createDeliveryOffer, reviseDeliveryOfferPrice, OfferLapses,
           expireDeliveryOffers
<1>4. ASSUME RoutesNext PROVE Goal
  <2>1. ASSUME NEW r \in Routes, NEW c \in Couriers, NEW S \in SUBSET Deliveries, NEW order,
               createRoute(r, c, S, order)
        PROVE  Goal
    BY <1>a, <2>1, CreateRouteOfOne DEF createRoute
  <2>2. ASSUME NEW d \in Deliveries, completePickup(d)
        PROVE  Goal
    BY <1>a, <2>2, PickupOfOne DEF completePickup
  <2>3. ASSUME NEW d \in Deliveries, completeDrop(d)
        PROVE  Goal
    BY <1>a, <2>3, DropOfOne DEF completeDrop
  <2> HIDE DEF Goal
  <2>4. ASSUME \/ \E r \in Routes :
                    \/ \E stopIds \in StopLists(r) : reorderRoute(r, stopIds)
                    \/ \E q \in Orders(RouteDeliveries(r)) : optimizeRoute(r, q)
                    \/ applyRouteSuggestion(r)
                    \/ startRoute(r)
               \/ \E d \in Deliveries : prioritizeRouteStop(d)
        PROVE  Goal
    <3>1. UNCHANGED incident
      BY <2>4 DEF reorderRoute, optimizeRoute, applyRouteSuggestion, startRoute, prioritizeRouteStop
    <3> QED
      BY <1>b, <2>4, <3>1, RoutesCalm
  <2> QED
    BY <1>4, <2>1, <2>2, <2>3, <2>4 DEF RoutesNext
<1>5. ASSUME IncidentsNext PROVE Goal
  <2>1. ASSUME NEW i \in Incidents, startReturn(i) \/ completeReturn(i)
        PROVE  Goal
    BY <2>1, ReturnReturns
  <2>2. ASSUME NEW i \in Incidents, NEW d \in Deliveries, openIncident(i, d)
        PROVE  Goal
    <3>1. /\ \A j \in Incidents : j # i => incident'[j] = incident[j]
          /\ incident'[i].status = "OPEN" /\ incident[i].delivery = NoOne
          /\ UNCHANGED delivery
      BY <1>0, <2>2 DEF openIncident, IncidentsNamed, TypeOK
    <3>2. \A j \in Incidents : Unrelated(j, x)
      BY <1>0, <3>1 DEF Unrelated, RecordsAssumption
    <3> QED
      BY <3>1, <3>2, AwayReturns DEF Away
  <2>3. ASSUME NEW i \in Incidents, reviewIncident(i) \/ resolveIncident(i)
        PROVE  Goal
    <3>1. /\ \A j \in Incidents : j # i => incident'[j] = incident[j]
          /\ incident'[i].delivery = incident[i].delivery
          /\ incident'[i].source = incident[i].source
          /\ incident[i].status # "RETURN_IN_PROGRESS"
          /\ incident'[i].status # "RETURN_IN_PROGRESS"
          /\ UNCHANGED delivery
      BY <1>0, <2>3 DEF reviewIncident, resolveIncident, TypeOK, IncidentRow
    <3>2. \A j \in Incidents : Unrelated(j, x)
      BY <3>1 DEF Unrelated
    <3> QED
      BY <3>1, <3>2, AwayReturns DEF Away
  <2> HIDE DEF Goal
  <2> QED
    BY <1>5, <2>1, <2>2, <2>3 DEF IncidentsNext
<1>6. ASSUME CustomersNext PROVE Goal
  BY <1>0, <1>6, <1>b, CustomersCalm, OnlyVersions
<1> QED
  BY <1>1, <1>2, <1>3, <1>4, <1>5, <1>6 DEF Next

(***************************************************************************)
(* The marketplace.                                                        *)
(***************************************************************************)
Active == {"PUBLISHED", "ACCEPTED"}
Ended == {"COMPLETED", "CANCELLED"}

(* The delivery of o, and the answers to o, are those of its winner.       *)
InHand(o) ==
  /\ offer[o].winner \in Couriers
  /\ delivery[offer[o].delivery].courier = offer[o].winner
  /\ \A c \in Couriers : candidate[o][c] = "ACCEPTED" <=> c = offer[o].winner

OfferTrue(o) ==
  /\ offer[o].status # "NONE" => offer[o].delivery \in Deliveries /\ offer[o].payout \in Payouts
  /\ offer[o].status = "PUBLISHED" =>
       offer[o].winner = NoOne /\ \A c \in Couriers : candidate[o][c] # "ACCEPTED"
  /\ offer[o].status = "ACCEPTED" =>
       InHand(o) /\ delivery[offer[o].delivery].status \in Taken
  /\ offer[o].status = "COMPLETED" =>
       InHand(o) /\ delivery[offer[o].delivery].status = "DELIVERED"

OffersTrue == \A o \in Offers : OfferTrue(o)

(* No two offers of one delivery are active, or were completed; no two     *)
(* deliveries that keep a courier busy were won by him.                    *)
OneOfEach ==
  \A o, p \in Offers : o # p =>
    /\ offer[o].delivery = offer[p].delivery =>
         /\ ~(offer[o].status \in Active /\ offer[p].status \in Active)
         /\ ~(offer[o].status = "COMPLETED" /\ offer[p].status = "COMPLETED")
    /\ /\ offer[o].status = "ACCEPTED" /\ offer[p].status = "ACCEPTED"
       /\ delivery[offer[o].delivery].status \in BusyStatus
       /\ delivery[offer[p].delivery].status \in BusyStatus
       => offer[o].winner # offer[p].winner

(* Every entry is about an offer that ended, and is its only one.          *)
MoneyTrue(e) ==
  /\ e.courier = offer[e.offer].winner
  /\ \/ /\ e.type = "COMPLETION" /\ offer[e.offer].status = "COMPLETED"
        /\ e.amount = offer[e.offer].payout
     \/ /\ e.type = "CANCELLATION_COMPENSATION" /\ offer[e.offer].status = "CANCELLED"
        /\ e.amount <= offer[e.offer].payout

LedgerTrue ==
  /\ \A e \in ledger : MoneyTrue(e)
  /\ \A e, f \in ledger : e.offer = f.offer => e = f
  /\ \A o \in Offers : offer[o].status = "COMPLETED" => \E e \in ledger : e.offer = o

Market == OffersTrue /\ OneOfEach /\ LedgerTrue

(* A delivery of the queue has no winner, one without active offers none   *)
(* that is not delivered.                                                  *)
LEMMA NoWinner ==
  ASSUME OffersTrue, NEW o \in Offers,
         \/ delivery[offer[o].delivery].status \in Waiting \cup {"CANCELLED"}
         \/ /\ ActiveOffers(offer[o].delivery) = {}
            /\ delivery[offer[o].delivery].status # "DELIVERED"
  PROVE  offer[o].status \notin {"ACCEPTED", "COMPLETED"}
<1>1. ActiveOffers(offer[o].delivery) = {} => offer[o].status # "ACCEPTED"
  BY DEF ActiveOffers
<1>2. offer[o].status = "ACCEPTED" => delivery[offer[o].delivery].status \in Taken
  BY DEF OffersTrue, OfferTrue
<1>3. offer[o].status = "COMPLETED" => delivery[offer[o].delivery].status = "DELIVERED"
  BY DEF OffersTrue, OfferTrue
<1> QED
  BY <1>1, <1>2, <1>3 DEF Waiting, Taken, BusyStatus, Back

(* An offer that a step leaves alone, for a delivery that keeps.           *)
LEMMA OfferKept ==
  ASSUME OffersTrue, NEW o \in Offers, offer'[o] = offer[o], candidate'[o] = candidate[o],
         \A x \in Deliveries : x = offer[o].delivery => Keeps(x)
  PROVE  /\ OfferTrue(o)'
         /\ /\ offer[o].status = "ACCEPTED"
            /\ delivery'[offer[o].delivery].status \in BusyStatus
            => delivery[offer[o].delivery].status \in BusyStatus
<1> DEFINE d == offer[o].delivery
<1>0. OfferTrue(o)
  BY DEF OffersTrue
<1>1. offer[o].status \in {"ACCEPTED", "COMPLETED"} =>
        /\ delivery'[d].courier = delivery[d].courier
        /\ \/ delivery'[d].status = delivery[d].status
           \/ /\ delivery[d].status \in Taken /\ delivery'[d].status \in Taken
              /\ delivery'[d].status \in BusyStatus => delivery[d].status \in BusyStatus
  <2> SUFFICES ASSUME offer[o].status \in {"ACCEPTED", "COMPLETED"}
               PROVE  /\ delivery'[d].courier = delivery[d].courier
                      /\ \/ delivery'[d].status = delivery[d].status
                         \/ /\ delivery[d].status \in Taken /\ delivery'[d].status \in Taken
                            /\ delivery'[d].status \in BusyStatus => delivery[d].status \in BusyStatus
    OBVIOUS
  <2>1. d \in Deliveries
    BY <1>0 DEF OfferTrue
  <2>2. Keeps(d)
    BY <2>1
  <2> QED
    BY <2>2, NoWinner DEF Keeps
<1>2. InHand(o) /\ offer[o].status \in {"ACCEPTED", "COMPLETED"} => InHand(o)'
  BY <1>1 DEF InHand
<1>3. offer[o].status = "COMPLETED" => delivery[d].status = "DELIVERED" /\ "DELIVERED" \notin Taken
  BY <1>0 DEF OfferTrue, Taken, Back, BusyStatus
<1>4. offer[o].status = "COMPLETED" => delivery'[d].status = "DELIVERED"
  BY <1>1, <1>3
<1>5. offer[o].status = "ACCEPTED" => delivery'[d].status \in Taken
  BY <1>0, <1>1 DEF OfferTrue
<1> QED
  BY <1>0, <1>1, <1>2, <1>4, <1>5 DEF OfferTrue

(* Nothing happens to the money: offers that ended stay as they are, and   *)
(* none is completed.                                                      *)
LEMMA LedgerKept ==
  ASSUME TypeOK, LedgerTrue, UNCHANGED ledger,
         \A o \in Offers : /\ offer[o].status \in Ended => offer'[o] = offer[o]
                           /\ offer'[o].status = "COMPLETED" => offer[o].status = "COMPLETED"
  PROVE  LedgerTrue'
<1>1. \A e \in ledger : e.offer \in Offers
  BY DEF TypeOK, LedgerRow
<1>2. \A e \in ledger : MoneyTrue(e)'
  <2> SUFFICES ASSUME NEW e \in ledger PROVE MoneyTrue(e)'
    OBVIOUS
  <2>1. MoneyTrue(e) /\ e.offer \in Offers
    BY <1>1 DEF LedgerTrue
  <2>2. offer'[e.offer] = offer[e.offer]
    BY <2>1 DEF MoneyTrue, Ended
  <2> QED
    BY <2>1, <2>2 DEF MoneyTrue
<1> QED
  BY <1>2 DEF LedgerTrue

(* Steps outside the marketplace.                                          *)
LEMMA MarketKept ==
  ASSUME TypeOK, Market, UNCHANGED marketVars, \A x \in Deliveries : Keeps(x)
  PROVE  Market'
<1>0. offer' = offer /\ candidate' = candidate /\ ledger' = ledger
  BY DEF marketVars
<1>1. \A o \in Offers :
        /\ OfferTrue(o)'
        /\ /\ offer[o].status = "ACCEPTED"
           /\ delivery'[offer[o].delivery].status \in BusyStatus
           => delivery[offer[o].delivery].status \in BusyStatus
  BY <1>0, OfferKept DEF Market
<1>2. OneOfEach'
  BY <1>0, <1>1 DEF OneOfEach, Market
<1>3. LedgerTrue'
  BY <1>0, LedgerKept DEF Market
<1> QED
  BY <1>1, <1>2, <1>3 DEF Market, OffersTrue

(* An offer without a winner asks nothing of its delivery.                 *)
LEMMA OfferIdle ==
  ASSUME OffersTrue, NEW o \in Offers, offer'[o] = offer[o], candidate'[o] = candidate[o],
         offer[o].status \notin {"ACCEPTED", "COMPLETED"}
  PROVE  OfferTrue(o)'
  BY DEF OffersTrue, OfferTrue

(* The clock, the price and the expiry of offers nobody won, and a new     *)
(* offer for a delivery that has none.                                     *)
LEMMA MarketRests ==
  ASSUME TypeOK, Market, UNCHANGED <<delivery, ledger>>,
         \A o \in Offers :
           \/ offer'[o] = offer[o] /\ candidate'[o] = candidate[o]
           \/ /\ offer[o].status = "PUBLISHED" /\ offer'[o].status \in {"PUBLISHED", "EXPIRED"}
              /\ offer'[o].delivery = offer[o].delivery /\ offer'[o].winner = offer[o].winner
              /\ offer'[o].payout \in Payouts
              /\ \A c \in Couriers : candidate'[o][c] = "ACCEPTED" => candidate[o][c] = "ACCEPTED"
           \/ /\ offer[o].status = "NONE" /\ offer'[o].status = "PUBLISHED"
              /\ offer'[o].delivery \in Deliveries /\ offer'[o].winner = NoOne
              /\ offer'[o].payout \in Payouts
              /\ \A c \in Couriers : candidate'[o][c] # "ACCEPTED"
              /\ ActiveOffers(offer'[o].delivery) = {}
              /\ \A p \in Offers : p # o => offer'[p] = offer[p]
  PROVE  Market'
<1>0. \A x \in Deliveries : Keeps(x)
  BY DEF Keeps
<1>1. \A o \in Offers : OfferTrue(o)'
  <2> SUFFICES ASSUME NEW o \in Offers PROVE OfferTrue(o)'
    OBVIOUS
  <2>0. OfferTrue(o)
    BY DEF Market, OffersTrue
  <2>1. CASE offer'[o] = offer[o] /\ candidate'[o] = candidate[o]
    BY <1>0, <2>1, OfferKept DEF Market
  <2>2. CASE offer[o].status \in {"NONE", "PUBLISHED"} /\ ~(offer'[o] = offer[o] /\ candidate'[o] = candidate[o])
    BY <2>0, <2>2 DEF OfferTrue
  <2> QED
    BY <2>1, <2>2
<1>2. OneOfEach'
  <2> SUFFICES ASSUME NEW o \in Offers, NEW p \in Offers, o # p
               PROVE  /\ offer'[o].delivery = offer'[p].delivery =>
                           /\ ~(offer'[o].status \in Active /\ offer'[p].status \in Active)
                           /\ ~(offer'[o].status = "COMPLETED" /\ offer'[p].status = "COMPLETED")
                      /\ /\ offer'[o].status = "ACCEPTED" /\ offer'[p].status = "ACCEPTED"
                         /\ delivery'[offer'[o].delivery].status \in BusyStatus
                         /\ delivery'[offer'[p].delivery].status \in BusyStatus
                         => offer'[o].winner # offer'[p].winner
    BY DEF OneOfEach
  <2>0. OneOfEach
    BY DEF Market
  <2>1. \A q \in Offers : /\ offer'[q].status = "COMPLETED" => offer'[q] = offer[q]
                          /\ offer'[q].status = "ACCEPTED" => offer'[q] = offer[q]
    OBVIOUS
  <2>2. CASE \A q \in {o, p} : /\ offer'[q].delivery = offer[q].delivery
                               /\ offer'[q].status \in Active => offer[q].status \in Active
    BY <2>0, <2>1, <2>2 DEF OneOfEach
  <2>3. ASSUME NEW q \in {o, p}, offer'[q].status = "PUBLISHED", ActiveOffers(offer'[q].delivery) = {},
               \A z \in Offers : z # q => offer'[z] = offer[z]
        PROVE  offer'[o].delivery = offer'[p].delivery =>
                 ~(offer'[o].status \in Active /\ offer'[p].status \in Active)
    BY <2>3 DEF ActiveOffers, Active
  <2>4. \A q \in Offers : \/ /\ offer'[q].delivery = offer[q].delivery
                             /\ offer'[q].status \in Active => offer[q].status \in Active
                          \/ /\ offer'[q].status = "PUBLISHED"
                             /\ ActiveOffers(offer'[q].delivery) = {}
                             /\ \A z \in Offers : z # q => offer'[z] = offer[z]
    BY DEF Active
  <2>5. offer'[o].delivery = offer'[p].delivery =>
                 ~(offer'[o].status \in Active /\ offer'[p].status \in Active)
    BY <2>2, <2>3, <2>4
  <2>6. offer'[o].delivery = offer'[p].delivery =>
          ~(offer'[o].status = "COMPLETED" /\ offer'[p].status = "COMPLETED")
    BY <2>0, <2>1 DEF OneOfEach
  <2>7. /\ offer'[o].status = "ACCEPTED" /\ offer'[p].status = "ACCEPTED"
        /\ delivery'[offer'[o].delivery].status \in BusyStatus
        /\ delivery'[offer'[p].delivery].status \in BusyStatus
        => offer'[o].winner # offer'[p].winner
    BY <2>0, <2>1 DEF OneOfEach
  <2> QED
    BY <2>5, <2>6, <2>7
<1>3. LedgerTrue'
  <2>1. \A o \in Offers : /\ offer[o].status \in Ended => offer'[o] = offer[o]
                          /\ offer'[o].status = "COMPLETED" => offer[o].status = "COMPLETED"
    BY DEF Ended
  <2> QED
    BY <2>1, LedgerKept DEF Market
<1> QED
  BY <1>1, <1>2, <1>3 DEF Market, OffersTrue

(* Acceptance: the courier is free, and the delivery in the queue.         *)
LEMMA MarketAccepts ==
  ASSUME IInv, Market, NEW o \in Offers, NEW c \in Couriers, acceptDeliveryOffer(o, c)
  PROVE  Market'
<1> DEFINE d == offer[o].delivery
<1>0. TypeOK /\ OffersTrue /\ OneOfEach /\ LedgerTrue
  BY DEF IInv, Market
<1>1. /\ offer[o].status = "PUBLISHED" /\ ~Busy(c) /\ UNCHANGED ledger
      /\ delivery[d].status = "AWAITING_COURIER"
  BY DEF acceptDeliveryOffer
<1>2. d \in Deliveries /\ offer[o].payout \in Payouts /\ \A x \in Couriers : candidate[o][x] # "ACCEPTED"
  BY <1>0, <1>1 DEF OffersTrue, OfferTrue
<1>3. /\ offer'[o].status = "ACCEPTED" /\ offer'[o].winner = c
      /\ offer'[o].delivery = d /\ offer'[o].payout = offer[o].payout
      /\ \A p \in Offers : p # o => offer'[p] = offer[p] /\ candidate'[p] = candidate[p]
  BY <1>0 DEF acceptDeliveryOffer, TypeOK, OfferRow
<1>4. \A x \in Couriers : candidate'[o][x] = "ACCEPTED" <=> x = c
  <2>1. \A x \in Couriers : candidate'[o][x] =
          IF candidate[o][x] = "NOTIFIED" THEN (IF x = c THEN "ACCEPTED" ELSE "LOST")
          ELSE candidate[o][x]
    BY <1>0 DEF acceptDeliveryOffer, TypeOK
  <2>2. candidate[o][c] = "NOTIFIED"
    BY DEF acceptDeliveryOffer
  <2> QED
    BY <1>2, <2>1, <2>2
<1>5. \A x \in Deliveries : /\ Keeps(x)
                            /\ x = d => /\ delivery'[x].status = "AWAITING_PICKUP"
                                        /\ delivery'[x].courier = c
                            /\ x # d => delivery'[x] = delivery[x]
  BY AcceptanceOfOne DEF Calm
<1>6. OfferTrue(o)'
  BY <1>2, <1>3, <1>4, <1>5 DEF OfferTrue, InHand, Taken, BusyStatus
<1>7. \A p \in Offers : p # o => OfferTrue(p)'
  BY <1>0, <1>3, <1>5, OfferKept
<1>8. \A p \in Offers : offer[p].delivery = d => offer[p].status \notin {"ACCEPTED", "COMPLETED"}
  BY <1>0, <1>1, NoWinner DEF Waiting
<1>9. OneOfEach'
  <2>1. \A p \in Offers : p # o /\ offer[p].status = "ACCEPTED" /\ offer[p].winner = c
          => delivery'[offer[p].delivery].status \notin BusyStatus
    <3> SUFFICES ASSUME NEW p \in Offers, p # o, offer[p].status = "ACCEPTED", offer[p].winner = c
                 PROVE  delivery'[offer[p].delivery].status \notin BusyStatus
      OBVIOUS
    <3>1. /\ offer[p].delivery \in Deliveries /\ offer[p].delivery # d
          /\ delivery[offer[p].delivery].courier = c
      BY <1>0, <1>8 DEF OffersTrue, OfferTrue, InHand
    <3> QED
      BY <1>1, <1>5, <3>1 DEF Busy
  <2>2. \A p \in Offers : p # o /\ offer[p].status = "ACCEPTED" =>
          delivery'[offer[p].delivery] = delivery[offer[p].delivery]
    BY <1>0, <1>5, <1>8 DEF OffersTrue, OfferTrue
  <2>3. \A p \in Offers : p # o => offer'[p] = offer[p]
    BY <1>3
  <2> QED
    BY <1>0, <1>1, <1>3, <1>8, <2>1, <2>2, <2>3 DEF OneOfEach, Active
<1>10. LedgerTrue'
  <2>1. \A p \in Offers : /\ offer[p].status \in Ended => offer'[p] = offer[p]
                          /\ offer'[p].status = "COMPLETED" => offer[p].status = "COMPLETED"
    BY <1>1, <1>3 DEF Ended
  <2> QED
    BY <1>0, <1>1, <2>1, LedgerKept
<1> QED
  BY <1>6, <1>7, <1>9, <1>10 DEF Market, OffersTrue

(* What the ledger holds is about ended offers only.                       *)
LEMMA NothingPosted ==
  ASSUME LedgerTrue, NEW o \in Offers, offer[o].status \notin Ended
  PROVE  \A e \in ledger : e.offer # o
  BY DEF LedgerTrue, MoneyTrue, Ended

(* Whoever delivers settles the accepted offer: it is paid once, in full.  *)
LEMMA MarketSettles ==
  ASSUME TypeOK, Market, NEW d \in Deliveries, completeOfferForDelivery(d),
         delivery[d].status \in {"IN_ROUTE", "NEXT_STOP"}, delivery'[d].status = "DELIVERED",
         delivery'[d].courier = delivery[d].courier,
         \A x \in Deliveries : x # d => Keeps(x)
  PROVE  Market'
<1> DEFINE won == {o \in Offers : offer[o].delivery = d /\ offer[o].status = "ACCEPTED"}
<1>0. OffersTrue /\ OneOfEach /\ LedgerTrue
  BY DEF Market
<1>1. \A o \in Offers :
        /\ o \in won => /\ offer'[o].status = "COMPLETED"
                        /\ offer'[o].delivery = offer[o].delivery
                        /\ offer'[o].winner = offer[o].winner
                        /\ offer'[o].payout = offer[o].payout
        /\ o \notin won => offer'[o] = offer[o]
        /\ candidate'[o] = candidate[o]
  BY DEF completeOfferForDelivery, TypeOK, OfferRow
<1>2. \A o \in won : offer[o].status = "ACCEPTED" /\ offer[o].delivery = d /\ InHand(o)
  BY <1>0 DEF OffersTrue, OfferTrue
<1>3. \A o \in Offers : o \notin won /\ offer[o].delivery = d =>
        offer[o].status \notin {"ACCEPTED", "COMPLETED"}
  BY <1>0 DEF OffersTrue, OfferTrue
<1>4. ledger' = Posted({Entry(o, "COMPLETION", offer[o].payout) : o \in won})
  BY DEF completeOfferForDelivery
<1>w. won \subseteq Offers /\ \A o \in won : offer[o].payout \in Payouts /\ offer[o].payout > 0
  <2>1. \A n \in Payouts : n > 0
    BY RecordsAssumption DEF RecordsAssumption
  <2>2. won \subseteq Offers
    OBVIOUS
  <2>3. \A o \in won : offer[o].payout \in Payouts
    BY <1>0 DEF OffersTrue, OfferTrue
  <2> QED
    BY <2>1, <2>2, <2>3
<1> HIDE DEF won
<1>5. \A o \in Offers : OfferTrue(o)'
  <2>1. ASSUME NEW o \in won PROVE OfferTrue(o)'
    <3>1. InHand(o)'
      BY <1>1, <1>2, <1>w DEF InHand
    <3> QED
      BY <1>1, <1>2, <1>w, <3>1 DEF OfferTrue
  <2>2. ASSUME NEW o \in Offers, o \notin won, offer[o].delivery = d PROVE OfferTrue(o)'
    BY <1>0, <1>1, <1>3, <2>2, OfferIdle
  <2>3. ASSUME NEW o \in Offers, o \notin won, offer[o].delivery # d PROVE OfferTrue(o)'
    BY <1>0, <1>1, <2>3, OfferKept
  <2> QED
    BY <2>1, <2>2, <2>3
<1>6. OneOfEach'
  <2>1. \A o \in Offers : offer'[o].status = "ACCEPTED" =>
          /\ offer[o].status = "ACCEPTED" /\ offer'[o] = offer[o] /\ o \notin won
          /\ delivery'[offer[o].delivery].status \in BusyStatus =>
               delivery[offer[o].delivery].status \in BusyStatus
    <3> SUFFICES ASSUME NEW o \in Offers, offer'[o].status = "ACCEPTED"
                 PROVE  /\ offer[o].status = "ACCEPTED" /\ offer'[o] = offer[o] /\ o \notin won
                        /\ delivery'[offer[o].delivery].status \in BusyStatus =>
                             delivery[offer[o].delivery].status \in BusyStatus
      OBVIOUS
    <3>1. o \notin won /\ offer'[o] = offer[o]
      BY <1>1
    <3>2. offer[o].delivery # d
      BY <1>3, <3>1
    <3> QED
      BY <1>0, <1>1, <3>1, <3>2, OfferKept
  <2>2. \A o \in Offers : /\ offer'[o].delivery = offer[o].delivery
                          /\ offer'[o].status \in Active => offer[o].status \in Active
                          /\ offer'[o].status = "COMPLETED" =>
                               \/ offer[o].status = "COMPLETED" /\ offer[o].delivery # d
                               \/ offer[o].status \in Active /\ offer[o].delivery = d
    BY <1>1, <1>2, <1>3 DEF Active
  <2> SUFFICES ASSUME NEW o \in Offers, NEW p \in Offers, o # p
               PROVE  /\ offer'[o].delivery = offer'[p].delivery =>
                           /\ ~(offer'[o].status \in Active /\ offer'[p].status \in Active)
                           /\ ~(offer'[o].status = "COMPLETED" /\ offer'[p].status = "COMPLETED")
                      /\ /\ offer'[o].status = "ACCEPTED" /\ offer'[p].status = "ACCEPTED"
                         /\ delivery'[offer'[o].delivery].status \in BusyStatus
                         /\ delivery'[offer'[p].delivery].status \in BusyStatus
                         => offer'[o].winner # offer'[p].winner
    BY DEF OneOfEach
  <2>3. offer'[o].delivery = offer'[p].delivery =>
          /\ ~(offer'[o].status \in Active /\ offer'[p].status \in Active)
          /\ ~(offer'[o].status = "COMPLETED" /\ offer'[p].status = "COMPLETED")
    BY <1>0, <2>2 DEF OneOfEach
  <2>4. /\ offer'[o].status = "ACCEPTED" /\ offer'[p].status = "ACCEPTED"
        /\ delivery'[offer'[o].delivery].status \in BusyStatus
        /\ delivery'[offer'[p].delivery].status \in BusyStatus
        => offer'[o].winner # offer'[p].winner
    BY <1>0, <2>1 DEF OneOfEach
  <2> QED
    BY <2>3, <2>4
<1>7. LedgerTrue'
  <2> DEFINE paid(o) == Entry(o, "COMPLETION", offer[o].payout)
  <2>0. \A o \in won : /\ paid(o).offer = o /\ paid(o).type = "COMPLETION"
                       /\ paid(o).courier = offer[o].winner /\ paid(o).amount = offer[o].payout
    BY DEF Entry
  <2>1. \A o \in won : \A e \in ledger : e.offer # o
    BY <1>0, <1>2, <1>w, NothingPosted DEF Ended
  <2>2. ledger \subseteq ledger' /\ \A e \in ledger' : e \in ledger \/ \E o \in won : e = paid(o)
    BY <1>4 DEF Posted
  <2>3. \A o \in won : paid(o) \in ledger'
    BY <1>4, <1>w, <2>0, <2>1 DEF Posted
  <2> HIDE DEF paid
  <2>4. \A e \in ledger : e.offer \in Offers
    BY DEF TypeOK, LedgerRow
  <2>5. \A e \in ledger' : MoneyTrue(e)'
    <3>1. ASSUME NEW e \in ledger PROVE MoneyTrue(e)'
      <4>1. MoneyTrue(e) /\ e.offer \in Offers /\ e.offer \notin won
        BY <1>0, <2>1, <2>4 DEF LedgerTrue
      <4> QED
        BY <1>1, <4>1 DEF MoneyTrue
    <3>2. ASSUME NEW e \in ledger' PROVE MoneyTrue(e)'
      <4>1. CASE e \in ledger
        BY <3>1, <4>1
      <4>2. CASE e \notin ledger
        <5>1. PICK o \in won : e = paid(o)
          BY <2>2, <3>2, <4>2
        <5>2. /\ offer'[o].status = "COMPLETED" /\ offer'[o].winner = offer[o].winner
              /\ offer'[o].payout = offer[o].payout
          BY <1>1, <1>w
        <5> QED
          BY <2>0, <5>1, <5>2 DEF MoneyTrue
      <4> QED
        BY <4>1, <4>2
    <3> QED
      BY <3>2
  <2>6. \A e, f \in ledger' : e.offer = f.offer => e = f
    <3>1. \A e, f \in ledger : e.offer = f.offer => e = f
      BY <1>0 DEF LedgerTrue
    <3> QED
      BY <2>0, <2>1, <2>2, <3>1
  <2>7. \A o \in Offers : offer'[o].status = "COMPLETED" => \E e \in ledger' : e.offer = o
    <3> SUFFICES ASSUME NEW o \in Offers, offer'[o].status = "COMPLETED"
                 PROVE  \E e \in ledger' : e.offer = o
      OBVIOUS
    <3>1. CASE o \in won
      BY <2>0, <2>3, <3>1
    <3>2. CASE o \notin won
      BY <1>0, <1>1, <2>2, <3>2 DEF LedgerTrue
    <3> QED
      BY <3>1, <3>2
  <2> QED
    BY <2>5, <2>6, <2>7 DEF LedgerTrue
<1> QED
  BY <1>5, <1>6, <1>7 DEF Market, OffersTrue

(* Cancelling gives the delivery back and may post one compensation.       *)
LEMMA MarketCancels ==
  ASSUME IInv, Market, NEW o \in Offers, NEW byStore, NEW compensation \in Payouts \cup {0},
         cancelDeliveryOffer(o, byStore, compensation)
  PROVE  Market'
<1> DEFINE d == offer[o].delivery
           new == Entry(o, "CANCELLATION_COMPENSATION", compensation)
<1>0. TypeOK /\ OffersTrue /\ OneOfEach /\ LedgerTrue
  BY DEF IInv, Market
<1>1. offer[o].status \in Active /\ compensation <= offer[o].payout
  BY DEF cancelDeliveryOffer, Active
<1>2. d \in Deliveries /\ offer[o].payout \in Payouts
  BY <1>0, <1>1 DEF OffersTrue, OfferTrue, Active
<1>3. /\ offer'[o].status = "CANCELLED" /\ offer'[o].delivery = d
      /\ offer'[o].winner = offer[o].winner /\ offer'[o].payout = offer[o].payout
      /\ \A p \in Offers : p # o => offer'[p] = offer[p] /\ candidate'[p] = candidate[p]
  BY <1>0 DEF cancelDeliveryOffer, TypeOK, OfferRow
<1>4. \A x \in Deliveries :
        /\ offer[o].status = "ACCEPTED" /\ x = d => delivery[x].status = "AWAITING_PICKUP"
        /\ ~(offer[o].status = "ACCEPTED" /\ x = d) => delivery'[x] = delivery[x] /\ Keeps(x)
  BY GivingBackOfOne DEF Calm
<1>5. \A p \in Offers : p # o /\ offer[p].delivery = d =>
        /\ offer[p].status \notin Active
        /\ offer[o].status = "ACCEPTED" => offer[p].status # "COMPLETED"
  <2>1. \A p \in Offers : p # o /\ offer[p].delivery = d => offer[p].status \notin Active
    BY <1>0, <1>1 DEF OneOfEach
  <2>2. offer[o].status = "ACCEPTED" => delivery[d].status = "AWAITING_PICKUP"
    BY <1>2, <1>4
  <2>3. \A p \in Offers : offer[p].status = "COMPLETED" =>
          delivery[offer[p].delivery].status = "DELIVERED"
    BY <1>0 DEF OffersTrue, OfferTrue
  <2> QED
    BY <2>1, <2>2, <2>3
<1>6. \A p \in Offers : OfferTrue(p)'
  <2>1. OfferTrue(o)'
    BY <1>2, <1>3 DEF OfferTrue
  <2>2. ASSUME NEW p \in Offers, p # o, offer[p].delivery = d, offer[o].status = "ACCEPTED"
        PROVE  OfferTrue(p)'
    BY <1>0, <1>3, <1>5, <2>2, OfferIdle DEF Active
  <2>3. ASSUME NEW p \in Offers, p # o, ~(offer[p].delivery = d /\ offer[o].status = "ACCEPTED")
        PROVE  OfferTrue(p)'
    BY <1>0, <1>3, <1>4, <2>3, OfferKept
  <2> QED
    BY <2>1, <2>2, <2>3
<1>7. OneOfEach'
  <2>1. \A p \in Offers : p # o /\ offer[p].status = "ACCEPTED" =>
          delivery'[offer[p].delivery] = delivery[offer[p].delivery]
    BY <1>0, <1>4, <1>5 DEF OffersTrue, OfferTrue, Active
  <2>2. \A p \in Offers : p # o => offer'[p] = offer[p]
    BY <1>3
  <2>3. offer'[o].status \notin Active \cup {"COMPLETED", "ACCEPTED"}
    BY <1>3 DEF Active
  <2> QED
    BY <1>0, <2>1, <2>2, <2>3 DEF OneOfEach
<1>8. LedgerTrue'
  <2>1. \A e \in ledger : e.offer # o
    BY <1>0, <1>1, NothingPosted DEF Active, Ended
  <2>2. ledger \subseteq ledger' /\ \A e \in ledger' : e \in ledger \/ e = new
    BY DEF cancelDeliveryOffer, Posted
  <2>3. /\ new.offer = o /\ new.type = "CANCELLATION_COMPENSATION"
        /\ new.courier = offer[o].winner /\ new.amount = compensation
    BY DEF Entry
  <2>4. \A e \in ledger : e.offer \in Offers
    BY <1>0 DEF TypeOK, LedgerRow
  <2> HIDE DEF new
  <2>5. \A e \in ledger' : MoneyTrue(e)'
    <3>1. ASSUME NEW e \in ledger' PROVE MoneyTrue(e)'
      <4>1. CASE e \in ledger
        <5>1. MoneyTrue(e) /\ e.offer \in Offers /\ e.offer # o
          BY <1>0, <2>1, <2>4, <4>1 DEF LedgerTrue
        <5> QED
          BY <1>3, <5>1 DEF MoneyTrue
      <4>2. CASE e = new
        BY <1>1, <1>3, <2>3, <4>2 DEF MoneyTrue
      <4> QED
        BY <2>2, <3>1, <4>1, <4>2
    <3> QED
      BY <3>1
  <2>6. \A e, f \in ledger' : e.offer = f.offer => e = f
    <3>1. \A e, f \in ledger : e.offer = f.offer => e = f
      BY <1>0 DEF LedgerTrue
    <3> QED
      BY <2>1, <2>2, <2>3, <3>1
  <2>7. \A p \in Offers : offer'[p].status = "COMPLETED" => \E e \in ledger' : e.offer = p
    BY <1>0, <1>3, <2>2 DEF LedgerTrue
  <2> QED
    BY <2>5, <2>6, <2>7 DEF LedgerTrue
<1> QED
  BY <1>6, <1>7, <1>8 DEF Market, OffersTrue

(* iFood cancels the delivery and with it its active offer.                *)
LEMMA MarketLoses ==
  ASSUME IInv, Market, NEW d \in Deliveries, cancelExternalDelivery(d)
  PROVE  Market'
<1>0. TypeOK /\ OffersTrue /\ OneOfEach /\ LedgerTrue
  BY DEF IInv, Market
<1>1. \A o \in Offers :
        /\ o \in ActiveOffers(d) => /\ offer'[o].status = "CANCELLED"
                                    /\ offer'[o].delivery = offer[o].delivery
                                    /\ offer'[o].winner = offer[o].winner
                                    /\ offer'[o].payout = offer[o].payout
        /\ o \notin ActiveOffers(d) => offer'[o] = offer[o]
        /\ offer[o].delivery # d => candidate'[o] = candidate[o]
        /\ \A c \in Couriers : candidate'[o][c] = "ACCEPTED" => candidate[o][c] = "ACCEPTED"
  BY <1>0 DEF cancelExternalDelivery, TypeOK, OfferRow
<1>2. UNCHANGED ledger
  BY DEF cancelExternalDelivery
<1>3. \A x \in Deliveries : x # d => Keeps(x)
  BY CancelOfOne DEF Calm
<1>4. delivery[d].status # "DELIVERED"
  BY CancelOfOne DEF Cancellable
<1>5. \A o \in Offers : offer[o].delivery = d /\ o \notin ActiveOffers(d) =>
        offer[o].status \notin {"PUBLISHED", "ACCEPTED", "COMPLETED"}
  BY <1>0, <1>4 DEF OffersTrue, OfferTrue, ActiveOffers
<1>6. \A o \in ActiveOffers(d) : offer[o].delivery = d /\ offer[o].status \in Active
  BY DEF ActiveOffers, Active
<1>7. \A o \in Offers : OfferTrue(o)'
  <2>1. ASSUME NEW o \in Offers, o \in ActiveOffers(d) PROVE OfferTrue(o)'
    BY <1>0, <1>1, <1>6, <2>1 DEF OffersTrue, OfferTrue, Active
  <2>2. ASSUME NEW o \in Offers, o \notin ActiveOffers(d), offer[o].delivery = d
        PROVE  OfferTrue(o)'
    BY <1>0, <1>1, <1>5, <2>2 DEF OffersTrue, OfferTrue
  <2>3. ASSUME NEW o \in Offers, offer[o].delivery # d PROVE OfferTrue(o)'
    BY <1>0, <1>1, <1>3, <1>6, <2>3, OfferKept
  <2> QED
    BY <2>1, <2>2, <2>3
<1>8. OneOfEach'
  <2>1. \A o \in Offers : /\ offer'[o].delivery = offer[o].delivery
                          /\ offer'[o].winner = offer[o].winner
                          /\ offer'[o].status \in Active => offer'[o].status = offer[o].status
                          /\ offer'[o].status = "COMPLETED" => offer[o].status = "COMPLETED"
    BY <1>1 DEF Active
  <2>2. \A o \in Offers : /\ offer'[o].status = "ACCEPTED"
                          /\ delivery'[offer[o].delivery].status \in BusyStatus
                          => delivery[offer[o].delivery].status \in BusyStatus
    <3> SUFFICES ASSUME NEW o \in Offers, offer'[o].status = "ACCEPTED",
                        delivery'[offer[o].delivery].status \in BusyStatus
                 PROVE  delivery[offer[o].delivery].status \in BusyStatus
      OBVIOUS
    <3>1. offer'[o] = offer[o] /\ offer[o].delivery # d
      BY <1>1, <1>5
    <3> QED
      BY <1>0, <1>1, <1>3, <3>1, OfferKept
  <2>3. "ACCEPTED" \in Active
    BY DEF Active
  <2> QED
    BY <1>0, <2>1, <2>2, <2>3 DEF OneOfEach
<1>9. LedgerTrue'
  <2>1. \A o \in Offers : /\ offer[o].status \in Ended => offer'[o] = offer[o]
                          /\ offer'[o].status = "COMPLETED" => offer[o].status = "COMPLETED"
    BY <1>1, <1>6 DEF Ended, Active
  <2> QED
    BY <1>0, <1>2, <2>1, LedgerKept
<1> QED
  BY <1>7, <1>8, <1>9 DEF Market, OffersTrue

LEMMA MarketStep ==
  ASSUME IInv, Market, [Next]_vars
  PROVE  Market'
<1>0. TypeOK
  BY DEF IInv
<1> DEFINE Goal == Market'
<1>a. ASSUME UNCHANGED marketVars, \A x \in Deliveries : Keeps(x) PROVE Goal
  BY <1>0, <1>a, MarketKept
<1>b. ASSUME UNCHANGED marketVars, \A x \in Deliveries : Calm(x) PROVE Goal
  BY <1>a, <1>b DEF Calm
<1>c. ASSUME UNCHANGED <<delivery, stop, marketVars>> PROVE Goal
  BY <1>b, <1>c, RestCalm
<1>1. ASSUME UNCHANGED vars PROVE Goal
  BY <1>1, <1>c DEF vars, marketVars
<1>2. ASSUME DeliveriesNext PROVE Goal
  <2>1. ASSUME NEW d \in Deliveries, cancelExternalDelivery(d)
        PROVE  Goal
    BY <2>1, MarketLoses
  <2>2. ASSUME NEW d \in Deliveries, completeDelivery(d)
        PROVE  Goal
    <3>1. completeOfferForDelivery(d)
      BY <2>2 DEF completeDelivery
    <3>2. /\ delivery[d].status \in {"IN_ROUTE", "NEXT_STOP"} /\ delivery'[d].status = "DELIVERED"
          /\ delivery'[d].courier = delivery[d].courier
          /\ \A x \in Deliveries : x # d => Keeps(x)
      BY <2>2, CompletionOfOne DEF Calm
    <3> QED
      BY <1>0, <3>1, <3>2, MarketSettles
  <2>3. ASSUME NEW d \in Deliveries, NEW i \in Incidents, failDelivery(d, i)
        PROVE  Goal
    BY <1>a, <2>3, FailureOfOne DEF failDelivery
  <2> HIDE DEF Goal
  <2>4. ASSUME NEW d \in Deliveries,
               \/ createDelivery(d)
               \/ releaseDelivery(d)
               \/ \E c \in Couriers : assignDelivery(d, c)
               \/ unassignDelivery(d)
               \/ \E target \in {"COLLECTED", "IN_ROUTE"} : pickupTransition(d, target)
               \/ cancelDelivery(d)
        PROVE  Goal
    <3>1. UNCHANGED marketVars
      BY <2>4 DEF createDelivery, releaseDelivery, assignDelivery, unassignDelivery,
                  pickupTransition, cancelDelivery
    <3> QED
      BY <1>b, <2>4, <3>1, DeliveriesCalm
  <2> QED
    BY <1>2, <2>1, <2>2, <2>3, <2>4 DEF DeliveriesNext
<1>3. ASSUME MarketplaceNext PROVE Goal
  <2>1. ASSUME NEW o \in Offers, NEW c \in Couriers, acceptDeliveryOffer(o, c)
        PROVE  Goal
    BY <2>1, MarketAccepts
  <2>2. ASSUME NEW o \in Offers, NEW byStore, NEW compensation \in Payouts \cup {0},
               cancelDeliveryOffer(o, byStore, compensation)
        PROVE  Goal
    BY <2>2, MarketCancels
  <2>3. ASSUME NEW o \in Offers, NEW d \in Deliveries, NEW S \in SUBSET Couriers,
               NEW p \in Payouts, createDeliveryOffer(o, d, S, p)
        PROVE  Goal
    <3>1. /\ UNCHANGED <<delivery, ledger>> /\ offer[o].status = "NONE" /\ ActiveOffers(d) = {}
          /\ offer'[o].status = "PUBLISHED" /\ offer'[o].delivery = d
          /\ offer'[o].winner = NoOne /\ offer'[o].payout = p
          /\ \A c \in Couriers : candidate'[o][c] # "ACCEPTED"
          /\ \A q \in Offers : q # o => offer'[q] = offer[q] /\ candidate'[q] = candidate[q]
      BY <1>0, <2>3 DEF createDeliveryOffer, TypeOK
    <3> QED
      BY <1>0, <3>1, MarketRests
  <2>4. ASSUME NEW o \in Offers, NEW p \in Payouts, reviseDeliveryOfferPrice(o, p)
        PROVE  Goal
    <3>1. /\ UNCHANGED <<delivery, ledger, candidate>> /\ offer[o].status = "PUBLISHED"
          /\ offer'[o].status = "PUBLISHED" /\ offer'[o].delivery = offer[o].delivery
          /\ offer'[o].winner = offer[o].winner /\ offer'[o].payout = p
          /\ \A q \in Offers : q # o => offer'[q] = offer[q]
      BY <1>0, <2>4 DEF reviseDeliveryOfferPrice, TypeOK, OfferRow
    <3> QED
      BY <1>0, <3>1, MarketRests
  <2>5. ASSUME NEW o \in Offers, OfferLapses(o)
        PROVE  Goal
    <3>1. /\ UNCHANGED <<delivery, ledger, candidate>> /\ offer[o].status = "PUBLISHED"
          /\ offer'[o].status = "PUBLISHED" /\ offer'[o].delivery = offer[o].delivery
          /\ offer'[o].winner = offer[o].winner /\ offer'[o].payout = offer[o].payout
          /\ \A q \in Offers : q # o => offer'[q] = offer[q]
      BY <1>0, <2>5 DEF OfferLapses, TypeOK, OfferRow
    <3>2. offer[o].payout \in Payouts
      BY <3>1 DEF Market, OffersTrue, OfferTrue
    <3> QED
      BY <1>0, <3>1, <3>2, MarketRests
  <2>6. ASSUME NEW S \in SUBSET Offers, expireDeliveryOffers(S)
        PROVE  Goal
    <3>1. /\ UNCHANGED <<delivery, ledger>>
          /\ \A o \in S : /\ offer[o].status = "PUBLISHED" /\ offer'[o].status = "EXPIRED"
                          /\ offer'[o].delivery = offer[o].delivery
                          /\ offer'[o].winner = offer[o].winner
                          /\ offer'[o].payout = offer[o].payout
                          /\ \A c \in Couriers :
                               candidate'[o][c] = "ACCEPTED" => candidate[o][c] = "ACCEPTED"
          /\ \A o \in Offers : o \notin S => offer'[o] = offer[o] /\ candidate'[o] = candidate[o]
      BY <1>0, <2>6 DEF expireDeliveryOffers, TypeOK, OfferRow
    <3>2. \A o \in S : offer[o].payout \in Payouts
      BY <3>1 DEF Market, OffersTrue, OfferTrue
    <3> QED
      BY <1>0, <3>1, <3>2, MarketRests
  <2> HIDE DEF Goal
  <2> QED
    BY <1>3, <2>1, <2>2, <2>3, <2>4, <2>5, <2>6 DEF MarketplaceNext
<1>4. ASSUME RoutesNext PROVE Goal
  <2>1. ASSUME NEW r \in Routes, NEW c \in Couriers, NEW S \in SUBSET Deliveries, NEW order,
               createRoute(r, c, S, order)
        PROVE  Goal
    BY <1>a, <2>1, CreateRouteOfOne DEF createRoute
  <2>2. ASSUME NEW d \in Deliveries, completePickup(d)
        PROVE  Goal
    BY <1>a, <2>2, PickupOfOne DEF completePickup
  <2>3. ASSUME NEW d \in Deliveries, completeDrop(d)
        PROVE  Goal
    <3>1. completeOfferForDelivery(d)
      BY <2>3 DEF completeDrop
    <3>2. /\ delivery[d].status \in {"IN_ROUTE", "NEXT_STOP"} /\ delivery'[d].status = "DELIVERED"
          /\ delivery'[d].courier = delivery[d].courier
          /\ \A x \in Deliveries : x # d => Keeps(x)
      BY <2>3, DropOfOne DEF Calm
    <3> QED
      BY <1>0, <3>1, <3>2, MarketSettles
  <2> HIDE DEF Goal
  <2>4. ASSUME \/ \E r \in Routes :
                    \/ \E stopIds \in StopLists(r) : reorderRoute(r, stopIds)
                    \/ \E q \in Orders(RouteDeliveries(r)) : optimizeRoute(r, q)
                    \/ applyRouteSuggestion(r)
                    \/ startRoute(r)
               \/ \E d \in Deliveries : prioritizeRouteStop(d)
        PROVE  Goal
    <3>1. UNCHANGED marketVars
      BY <2>4 DEF reorderRoute, optimizeRoute, applyRouteSuggestion, startRoute, prioritizeRouteStop
    <3> QED
      BY <1>b, <2>4, <3>1, RoutesCalm
  <2> QED
    BY <1>4, <2>1, <2>2, <2>3, <2>4 DEF RoutesNext
<1>5. ASSUME IncidentsNext PROVE Goal
  <2>1. ASSUME NEW i \in Incidents, startReturn(i) \/ completeReturn(i)
        PROVE  Goal
    <3>1. UNCHANGED marketVars
      BY <2>1 DEF startReturn, completeReturn
    <3> QED
      BY <1>a, <2>1, <3>1, ReturnOfOne
  <2>2. ASSUME NEW i \in Incidents,
               (\E d \in Deliveries : openIncident(i, d)) \/ reviewIncident(i) \/ resolveIncident(i)
        PROVE  Goal
    <3>1. UNCHANGED <<delivery, stop, marketVars>>
      BY <2>2 DEF openIncident, reviewIncident, resolveIncident, routeVars
    <3> QED
      BY <1>c, <3>1
  <2> HIDE DEF Goal
  <2> QED
    BY <1>5, <2>1, <2>2 DEF IncidentsNext
<1>6. ASSUME CustomersNext PROVE Goal
  BY <1>0, <1>6, <1>b, CustomersCalm, OnlyVersions DEF marketVars
<1> QED
  BY <1>1, <1>2, <1>3, <1>4, <1>5, <1>6 DEF Next

(***************************************************************************)
(* The theorems.                                                           *)
(***************************************************************************)
Told ==
  /\ \A d \in Deliveries : Story(d) /\ StopTrue(d) /\ ReturnTrue(d)
  /\ IncidentsNamed
  /\ Market

LEMMA ToldAlways == Spec => [](IInv /\ Told)
<1>1. Init => Told
  <2> SUFFICES ASSUME Init PROVE Told
    OBVIOUS
  <2>1. \A d \in Deliveries : Story(d) /\ StopTrue(d) /\ ReturnTrue(d)
    BY RecordsAssumption
       DEF Init, NoDelivery, NoIncident, NoStop, Story, Exists, StopTrue, ReturnTrue, Back,
           RecordsAssumption
  <2>2. IncidentsNamed
    BY DEF Init, NoIncident, IncidentsNamed
  <2>3. Market
    BY DEF Init, NoOffer, Market, OffersTrue, OfferTrue, OneOfEach, Active, LedgerTrue
  <2> QED
    BY <2>1, <2>2, <2>3 DEF Told
<1>2. IInv /\ Told /\ [Next]_vars => Told'
  <2> SUFFICES ASSUME IInv, Told, [Next]_vars PROVE Told'
    OBVIOUS
  <2>1. TypeOK
    BY DEF IInv
  <2>2. \A d \in Deliveries : Story(d)'
    BY <2>1, StoryStep DEF Told
  <2>3. \A d \in Deliveries : StopTrue(d)'
    BY StopsStep DEF Told
  <2>4. \A d \in Deliveries : ReturnTrue(d)'
    BY ReturnsStep DEF Told
  <2>5. IncidentsNamed'
    BY <2>1, NamedStep DEF Told
  <2>6. Market'
    BY MarketStep DEF Told
  <2> QED
    BY <2>2, <2>3, <2>4, <2>5, <2>6 DEF Told
<1> QED
  BY <1>1, <1>2, DispatchInvariant, PTL DEF Spec

(* The four services that write the history by hand keep one chain of      *)
(* legal links for every delivery, whatever versions the alerts to its     *)
(* customer and the WhatsApp number take in between.                       *)
THEOREM HistoryTold == Spec => []HistoryIsTheStory
<1>1. Told => HistoryIsTheStory
  BY DEF Told, Story, Chain, Follows, Links, HistoryIsTheStory
<1> QED
  BY <1>1, ToldAlways, PTL

(* Stops and deliveries, two records of one fact that are changed from     *)
(* both sides, agree.                                                      *)
THEOREM StopsTold == Spec => []StopsTellTheTruth
<1>1. Told => StopsTellTheTruth
  BY DEF Told, StopTrue, StopsTellTheTruth
<1> QED
  BY <1>1, ToldAlways, PTL

(* Every return runs under exactly one incident.                           *)
THEOREM ReturnsTracked == Spec => []ReturnsAreTracked
<1>1. Told => ReturnsAreTracked
  BY DEF Told, ReturnTrue, Back, ReturnsAreTracked
<1> QED
  BY <1>1, ToldAlways, PTL

(* Whoever won an offer holds its delivery, and no other one of the        *)
(* marketplace that keeps him busy.                                        *)
THEOREM WinnersHold == Spec => []WinnerHoldsDelivery
<1>1. Told => WinnerHoldsDelivery
  <2> SUFFICES ASSUME OffersTrue, OneOfEach PROVE WinnerHoldsDelivery
    BY DEF Told, Market
  <2>1. \A o \in Offers : offer[o].status \in {"ACCEPTED", "COMPLETED"} =>
          InHand(o) /\ delivery[offer[o].delivery].status \in Taken \cup {"DELIVERED"}
    BY DEF OffersTrue, OfferTrue
  <2>2. \A s \in Taken \cup {"DELIVERED"} : s \notin {"DRAFT", "AWAITING_COURIER", "CANCELLED"}
    BY DEF Taken, Back, BusyStatus
  <2> QED
    BY <2>1, <2>2 DEF InHand, OneOfEach, WinnerHoldsDelivery
<1> QED
  BY <1>1, ToldAlways, PTL

LEMMA LoneMember == ASSUME NEW P, \A e, f \in P : e = f PROVE Cardinality(P) <= 1
<1>1. CASE P = {}
  BY <1>1, FS_EmptySet
<1>2. CASE P # {}
  <2>1. PICK e \in P : TRUE
    BY <1>2
  <2>2. P = {e}
    BY <2>1
  <2>3. Cardinality({e}) = 1
    BY FS_Singleton
  <2> QED
    BY <2>2, <2>3
<1> QED
  BY <1>1, <1>2

(* Every completed offer is paid once and in full, every compensation goes *)
(* to the winner of a cancelled one, and no delivery is paid for twice.    *)
THEOREM WorkIsPaid == Spec => []PaidForTheWork
<1>1. IInv /\ Told => PaidForTheWork
  <2> SUFFICES ASSUME IInv, Market PROVE PaidForTheWork
    BY DEF Told
  <2>0. OffersTrue /\ OneOfEach /\ LedgerTrue
    BY DEF Market
  <2>1. \A e \in ledger : e.offer \in Offers
    BY DEF IInv, TypeOK, LedgerRow
  <2>2. \A o \in Offers : offer[o].status = "COMPLETED" =>
          /\ offer[o].delivery \in Deliveries
          /\ delivery[offer[o].delivery].status = "DELIVERED"
    BY <2>0 DEF OffersTrue, OfferTrue
  <2>3. \A e \in ledger :
         /\ e.courier = offer[e.offer].winner
         /\ e.type = "COMPLETION" =>
              /\ offer[e.offer].status = "COMPLETED"
              /\ delivery[offer[e.offer].delivery].status = "DELIVERED"
              /\ e.amount = offer[e.offer].payout
         /\ e.type = "CANCELLATION_COMPENSATION" =>
              /\ offer[e.offer].status = "CANCELLED"
              /\ e.amount <= offer[e.offer].payout
    BY <2>0, <2>1, <2>2 DEF LedgerTrue, MoneyTrue
  <2>4. \A e, f \in ledger : e.offer = f.offer => e = f
    BY <2>0 DEF LedgerTrue
  <2>5. \A o \in Offers : offer[o].status = "COMPLETED" =>
          \E e \in ledger : e.offer = o /\ e.type = "COMPLETION"
    BY <2>0 DEF LedgerTrue, MoneyTrue
  <2>6. ASSUME NEW d \in Deliveries, delivery[d].status = "DELIVERED"
        PROVE  /\ \A o \in Offers : offer[o].delivery = d => offer[o].status # "ACCEPTED"
               /\ Cardinality({e \in ledger : e.type = "COMPLETION"
                                              /\ offer[e.offer].delivery = d}) <= 1
    <3> DEFINE P == {e \in ledger : e.type = "COMPLETION" /\ offer[e.offer].delivery = d}
    <3>1. \A o \in Offers : offer[o].status = "ACCEPTED" => offer[o].delivery # d
      BY <2>0, <2>6 DEF OffersTrue, OfferTrue, Taken, Back, BusyStatus
    <3>2. \A e, f \in P : e = f
      BY <2>0, <2>1, <2>3, <2>4 DEF OneOfEach
    <3>3. Cardinality(P) <= 1
      BY <3>2, LoneMember
    <3> QED
      BY <3>1, <3>3
  <2> QED
    BY <2>3, <2>4, <2>5, <2>6 DEF PaidForTheWork
<1> QED
  BY <1>1, ToldAlways, PTL

(***************************************************************************)
(* The progress of routes.                                                 *)
(***************************************************************************)
\* Distinct places for the stops of r; without repeated ids they are the first ones there are,
\* and every pickup comes before every destination.
Orderly(r, f) ==
  /\ f \in [RouteStops(r) -> Nat]
  /\ \A j, k \in RouteStops(r) : f[j] = f[k] => j = k
  /\ ~RepeatedIds =>
       /\ \A k \in RouteStops(r) : f[k] \in 1 .. Cardinality(RouteStops(r))
       /\ \A d, e \in RouteDeliveries(r) : f[<<d, "PICKUP">>] < f[<<e, "DELIVERY">>]

Places(r) == [k \in RouteStops(r) |-> Sequence(k)]

InSequence == \A r \in Routes : Orderly(r, Places(r)) /\ (plan[r] # <<>> => Orderly(r, plan[r]))

\* Ended on its own, while its stop may be pending.
Stuck == Back \cup {"CANCELLED"}

\* What makes a route go on: one next stop before all that are pending, nothing pending that
\* never left, and nothing pending once it is closed.
GoesOn(r) ==
  /\ \A d \in RouteDeliveries(r) : stop[d]["DELIVERY"].status # "NONE"
  /\ \A d \in RouteDeliveries(r) : delivery[d].status = "NEXT_STOP" =>
       /\ route[r].status = "ACTIVE"
       /\ d \in PendingDrops(r)
       /\ \A e \in RouteDeliveries(r) \ {d} :
            /\ delivery[e].status # "NEXT_STOP"
            /\ e \in PendingDrops(r) => stop[d]["DELIVERY"].seq < stop[e]["DELIVERY"].seq
  /\ route[r].status = "ACTIVE" =>
       /\ \A d \in PendingDrops(r) : delivery[d].status \in {"IN_ROUTE", "NEXT_STOP"} \cup Stuck
       /\ \E d \in PendingDrops(r) : delivery[d].status \in {"NEXT_STOP"} \cup Stuck
  /\ route[r].status \in {"COMPLETED", "CANCELLED"} => PendingDrops(r) = {}

Progress == InSequence /\ \A r \in Routes : GoesOn(r)

LEMMA DeliveriesOf ==
  ASSUME NEW r, \A x \in Deliveries : delivery'[x].route = delivery[x].route
  PROVE  RouteDeliveries(r)' = RouteDeliveries(r) /\ RouteStops(r)' = RouteStops(r)
  BY DEF RouteDeliveries, RouteStops

LEMMA PairCount ==
  ASSUME NEW S \in SUBSET Deliveries
  PROVE  /\ IsFiniteSet(S \X StopType) /\ IsFiniteSet(S) /\ Cardinality(S) \in Nat
         /\ Cardinality(S \X StopType) = Cardinality(S) + Cardinality(S)
<1> DEFINE n == Cardinality(S)
<1>1. IsFiniteSet(S) /\ n \in Nat
  BY RecordsAssumption, FS_Subset, FS_CardinalityType
<1>2. IsFiniteSet(StopType) /\ Cardinality(StopType) = 2
  <2>1. StopType = {"PICKUP"} \cup {"DELIVERY"}
    BY DEF StopType
  <2>2. IsFiniteSet({"PICKUP"}) /\ Cardinality({"PICKUP"}) = 1 /\ "DELIVERY" \notin {"PICKUP"}
    BY FS_Singleton
  <2>3. /\ IsFiniteSet({"PICKUP"} \cup {"DELIVERY"})
        /\ Cardinality({"PICKUP"} \cup {"DELIVERY"}) = Cardinality({"PICKUP"}) + 1
    BY <2>2, FS_AddElement, Zenon
  <2> QED
    BY <2>1, <2>2, <2>3
<1>3. IsFiniteSet(S \X StopType) /\ Cardinality(S \X StopType) = n * 2
  BY <1>1, <1>2, FS_Product
<1> HIDE DEF n
<1>4. n * 2 = n + n
  BY <1>1
<1> QED
  BY <1>1, <1>3, <1>4 DEF n

LEMMA StopCount ==
  ASSUME NEW r
  PROVE  /\ IsFiniteSet(RouteStops(r)) /\ IsFiniteSet(RouteDeliveries(r))
         /\ Cardinality(RouteDeliveries(r)) \in Nat
         /\ Cardinality(RouteStops(r)) = Cardinality(RouteDeliveries(r)) + Cardinality(RouteDeliveries(r))
<1>1. RouteDeliveries(r) \in SUBSET Deliveries
  BY DEF RouteDeliveries
<1> QED
  BY <1>1, PairCount DEF RouteStops

LEMMA MinimumExists ==
  ASSUME NEW S \in SUBSET Nat, S # {}, NEW n \in Nat, \A i \in S : i <= n
  PROVE  \E m \in S : \A i \in S : m <= i
<1> DEFINE T == {n - i : i \in S}
<1>1. T \in SUBSET Nat /\ T # {} /\ \A i \in T : i <= n
  <2>1. \A i \in S : n - i \in Nat /\ n - i <= n
    OBVIOUS
  <2> QED
    BY <2>1
<1>2. PICK m \in T : \A i \in T : m >= i
  <2> HIDE DEF T
  <2> QED
    BY <1>1, MaximumExists
<1>3. PICK j \in S : m = n - j
  BY <1>2
<1>4. ASSUME NEW i \in S PROVE j <= i
  <2>1. n - i \in T
    OBVIOUS
  <2>2. m >= n - i
    BY <1>2, <2>1
  <2> QED
    BY <1>3, <2>2
<1> QED
  BY <1>4

\* Of some deliveries one comes first.
LEMMA FirstExists ==
  ASSUME NEW S \in SUBSET Deliveries, NEW f \in [S -> Nat], S # {}
  PROVE  \E d \in S : \A e \in S : f[d] <= f[e]
<1> DEFINE Below(d) == {e \in S : f[e] <= f[d]}
           T == {Cardinality(Below(d)) : d \in S}
<1>1. IsFiniteSet(S) /\ Cardinality(S) \in Nat
  BY RecordsAssumption, FS_Subset, FS_CardinalityType
<1>2. \A d \in S : Below(d) \in SUBSET S
  OBVIOUS
<1>3. \A d \in S : IsFiniteSet(Below(d)) /\ Cardinality(Below(d)) \in Nat /\ Cardinality(Below(d)) <= Cardinality(S)
  <2> HIDE DEF Below
  <2> QED
    BY <1>1, <1>2, FS_Subset, FS_CardinalityType
<1>4. PICK m \in T : \A i \in T : m <= i
  <2>1. T \in SUBSET Nat /\ T # {} /\ \A i \in T : i <= Cardinality(S)
    BY <1>3
  <2> HIDE DEF T
  <2> QED
    BY <1>1, <2>1, MinimumExists
<1>5. PICK d \in S : m = Cardinality(Below(d))
  BY <1>4
<1>6. ASSUME NEW e \in S, ~(f[d] <= f[e]) PROVE FALSE
  <2>1. Below(e) \subseteq Below(d) /\ d \in Below(d) /\ d \notin Below(e)
    BY <1>6
  <2>2. Cardinality(Below(e)) <= Cardinality(Below(d)) /\ Cardinality(Below(e)) # Cardinality(Below(d))
    <3> HIDE DEF Below
    <3>1. Below(e) \in SUBSET Below(d) /\ Below(e) # Below(d)
      BY <2>1
    <3> QED
      BY <1>3, <3>1, FS_Subset
  <2>3. Cardinality(Below(e)) \in T
    OBVIOUS
  <2> HIDE DEF Below, T
  <2> QED
    BY <1>3, <1>4, <1>5, <2>2, <2>3
<1> QED
  BY <1>6

-----------------------------------------------------------------------------
\* The stops of r stand at the places that g gives them.
LEMMA PlacesBecome ==
  ASSUME NEW r, \A x \in Deliveries : delivery'[x].route = delivery[x].route,
         NEW g, Orderly(r, g), \A k \in RouteStops(r) : stop'[k[1]][k[2]].seq = g[k]
  PROVE  Orderly(r, Places(r))'
<1>1. RouteDeliveries(r)' = RouteDeliveries(r) /\ RouteStops(r)' = RouteStops(r)
  BY DeliveriesOf
<1>2. Places(r)' = [k \in RouteStops(r) |-> stop'[k[1]][k[2]].seq]
  BY <1>1 DEF Places, Sequence
<1>3. g = [k \in RouteStops(r) |-> g[k]]
  BY DEF Orderly
<1>4. Places(r)' = g
  BY <1>2, <1>3
<1> QED
  BY <1>1, <1>4 DEF Orderly

LEMMA PlanKept ==
  ASSUME NEW r, \A x \in Deliveries : delivery'[x].route = delivery[x].route,
         plan'[r] = plan[r], plan[r] # <<>> => Orderly(r, plan[r])
  PROVE  (plan[r] # <<>> => Orderly(r, plan[r]))'
<1>1. RouteDeliveries(r)' = RouteDeliveries(r) /\ RouteStops(r)' = RouteStops(r)
  BY DeliveriesOf
<1> QED
  BY <1>1 DEF Orderly

\* Nobody joins or leaves a route, and no stop moves.
Unmoving ==
  /\ \A x \in Deliveries : delivery'[x].route = delivery[x].route
  /\ \A x \in Deliveries, t \in StopType : stop'[x][t].seq = stop[x][t].seq
  /\ plan' = plan

LEMMA SequenceRests == InSequence /\ Unmoving => InSequence'
<1> SUFFICES ASSUME InSequence, Unmoving, NEW r \in Routes
             PROVE  Orderly(r, Places(r))' /\ (plan[r] # <<>> => Orderly(r, plan[r]))'
  BY DEF InSequence
<1>1. Orderly(r, Places(r)) /\ (plan[r] # <<>> => Orderly(r, plan[r]))
  BY DEF InSequence
<1>2. \A k \in RouteStops(r) : stop'[k[1]][k[2]].seq = Places(r)[k]
  BY DEF Unmoving, Places, Sequence, RouteStops, RouteDeliveries
<1>3. \A x \in Deliveries : delivery'[x].route = delivery[x].route
  BY DEF Unmoving
<1>4. Orderly(r, Places(r))'
  BY <1>1, <1>2, <1>3, PlacesBecome
<1>5. plan'[r] = plan[r]
  BY DEF Unmoving
<1> QED
  BY <1>1, <1>3, <1>4, <1>5, PlanKept

\* Stops that are given new places change nothing else.
LEMMA ResequencedStops ==
  ASSUME TypeOK, NEW f, stop' = Resequenced(f), NEW x \in Deliveries, NEW t \in StopType
  PROVE  /\ stop'[x][t].seq = IF <<x, t>> \in DOMAIN f THEN f[<<x, t>>] ELSE stop[x][t].seq
         /\ stop'[x][t].status = stop[x][t].status
<1>1. stop[x][t] \in StopRow
  BY DEF TypeOK
<1>2. stop'[x][t] = IF <<x, t>> \in DOMAIN f THEN [stop[x][t] EXCEPT !.seq = f[<<x, t>>]] ELSE stop[x][t]
  BY DEF Resequenced
<1> QED
  BY <1>1, <1>2 DEF StopRow

\* The stops of one route are given places, those of the others rest.
LEMMA SequenceGiven ==
  ASSUME TypeOK, InSequence, NEW r \in Routes, NEW f, stop' = Resequenced(f),
         \A x \in Deliveries : delivery'[x].route = delivery[x].route, plan' = plan,
         DOMAIN f \subseteq RouteStops(r),
         NEW g, Orderly(r, g),
         \A k \in RouteStops(r) : g[k] = IF k \in DOMAIN f THEN f[k] ELSE stop[k[1]][k[2]].seq
  PROVE  InSequence'
<1> SUFFICES ASSUME NEW s \in Routes
             PROVE  Orderly(s, Places(s))' /\ (plan[s] # <<>> => Orderly(s, plan[s]))'
  BY DEF InSequence
<1>1. Orderly(s, Places(s)) /\ (plan[s] # <<>> => Orderly(s, plan[s]))
  BY DEF InSequence
<1>2. plan'[s] = plan[s]
  OBVIOUS
<1>3. ASSUME NEW k \in RouteStops(s)
      PROVE  /\ k[1] \in Deliveries /\ k[2] \in StopType /\ k = <<k[1], k[2]>> /\ delivery[k[1]].route = s
             /\ stop'[k[1]][k[2]].seq = IF k \in DOMAIN f THEN f[k] ELSE stop[k[1]][k[2]].seq
  <2>1. k[1] \in Deliveries /\ k[2] \in StopType /\ k = <<k[1], k[2]>> /\ delivery[k[1]].route = s
    BY DEF RouteStops, RouteDeliveries
  <2> QED
    BY <2>1, ResequencedStops
<1>m. \A x \in Deliveries : delivery'[x].route = delivery[x].route
  OBVIOUS
<1>4. ASSUME s = r PROVE Orderly(s, Places(s))'
  <2>1. \A k \in RouteStops(s) : stop'[k[1]][k[2]].seq = g[k]
    BY <1>3, <1>4
  <2>2. Orderly(s, g)
    BY <1>4
  <2> QED
    BY <1>m, <2>1, <2>2, PlacesBecome
<1>5. ASSUME s # r PROVE Orderly(s, Places(s))'
  <2>1. \A k \in RouteStops(s) : k \notin DOMAIN f
    <3>1. \A k \in RouteStops(r) : delivery[k[1]].route = r
      BY DEF RouteStops, RouteDeliveries
    <3> QED
      BY <1>3, <1>5, <3>1
  <2>2. \A k \in RouteStops(s) : stop'[k[1]][k[2]].seq = Places(s)[k]
    BY <1>3, <2>1 DEF Places, Sequence
  <2> QED
    BY <1>1, <1>m, <2>2, PlacesBecome
<1>6. Orderly(s, Places(s))'
  BY <1>4, <1>5
<1> QED
  BY <1>1, <1>2, <1>6, PlanKept

-----------------------------------------------------------------------------
\* Advance leaves everybody on the route where owner has him.
LEMMA AdvanceMembership ==
  ASSUME NEW path, NEW owner, Advance(path, owner),
         \A x \in Deliveries : owner[x].route = delivery[x].route
  PROVE  \A x \in Deliveries : delivery'[x].route = delivery[x].route
  BY DEF Advance

LEMMA CourierOnly ==
  ASSUME TypeOK, NEW d, NEW c
  PROVE  \A x \in Deliveries : [delivery EXCEPT ![d].courier = c][x].route = delivery[x].route
  BY DEF TypeOK, DeliveryRow

\* The handlers that give no stop another place.
LEMMA HandlersUnmoving ==
  ASSUME TypeOK,
         \/ DeliveriesNext \/ MarketplaceNext \/ IncidentsNext
         \/ \E r \in Routes : startRoute(r)
         \/ \E d \in Deliveries : completePickup(d) \/ completeDrop(d)
  PROVE  Unmoving
<1> DEFINE Members == \A x \in Deliveries : delivery'[x].route = delivery[x].route
           Seqs == \A x \in Deliveries, t \in StopType : stop'[x][t].seq = stop[x][t].seq
<1>a. ASSUME NEW path, Advance(path, delivery) PROVE Members
  BY <1>a, AdvanceMembership
<1>b. ASSUME NEW path, NEW d, NEW c, Advance(path, [delivery EXCEPT ![d].courier = c]) PROVE Members
  <2>1. \A x \in Deliveries : [delivery EXCEPT ![d].courier = c][x].route = delivery[x].route
    BY CourierOnly
  <2> QED
    BY <1>b, <2>1, AdvanceMembership
<1>c. UNCHANGED routeVars => Seqs /\ plan' = plan
  BY DEF routeVars
<1>d. ASSUME NEW d, NEW target, applyTransition(d, target) PROVE Members
  BY <1>a, <1>d DEF applyTransition
<1>e. UNCHANGED delivery => Members
  OBVIOUS
<1> HIDE DEF Members
<1>1. ASSUME DeliveriesNext PROVE Members /\ Seqs /\ plan' = plan
  <2>1. ASSUME NEW d \in Deliveries, createDelivery(d) PROVE Members /\ Seqs /\ plan' = plan
    <3>1. Members
      BY <2>1 DEF createDelivery, TypeOK, DeliveryRow, Members
    <3> QED
      BY <1>c, <2>1, <3>1 DEF createDelivery
  <2>2. ASSUME NEW d \in Deliveries, cancelExternalDelivery(d) PROVE Members /\ Seqs /\ plan' = plan
    <3>1. Members /\ plan' = plan
      BY <1>a, <2>2 DEF cancelExternalDelivery
    <3>2. Seqs
      BY <2>2 DEF cancelExternalDelivery, TypeOK, StopRow
    <3> QED
      BY <3>1, <3>2
  <2>3. ASSUME NEW d \in Deliveries, \/ releaseDelivery(d) \/ cancelDelivery(d) \/ completeDelivery(d)
                                     \/ \E target \in {"COLLECTED", "IN_ROUTE"} : pickupTransition(d, target)
                                     \/ \E i \in Incidents : failDelivery(d, i)
        PROVE  Members /\ Seqs /\ plan' = plan
    <3>1. Members
      BY <1>d, <2>3 DEF releaseDelivery, cancelDelivery, completeDelivery, pickupTransition, failDelivery
    <3>2. UNCHANGED routeVars
      BY <2>3 DEF releaseDelivery, cancelDelivery, completeDelivery, pickupTransition, failDelivery
    <3> QED
      BY <1>c, <3>1, <3>2
  <2>4. ASSUME NEW d \in Deliveries, (\E c \in Couriers : assignDelivery(d, c)) \/ unassignDelivery(d)
        PROVE  Members /\ Seqs /\ plan' = plan
    <3>1. Members
      BY <1>b, <2>4 DEF assignDelivery, unassignDelivery
    <3>2. UNCHANGED routeVars
      BY <2>4 DEF assignDelivery, unassignDelivery
    <3> QED
      BY <1>c, <3>1, <3>2
  <2> HIDE DEF Seqs
  <2> QED
    BY <1>1, <2>1, <2>2, <2>3, <2>4 DEF DeliveriesNext
<1>2. ASSUME MarketplaceNext PROVE Members /\ Seqs /\ plan' = plan
  <2>1. ASSUME NEW o, NEW c, acceptDeliveryOffer(o, c) PROVE Members /\ UNCHANGED routeVars
    BY <1>b, <2>1 DEF acceptDeliveryOffer
  <2>2. ASSUME NEW o, NEW byStore, NEW compensation, cancelDeliveryOffer(o, byStore, compensation)
        PROVE  Members /\ UNCHANGED routeVars
    <3>1. PICK path, owner : /\ Advance(path, owner)
                             /\ owner = delivery \/ owner = [delivery EXCEPT ![offer[o].delivery].courier = NoOne]
      BY <2>2 DEF cancelDeliveryOffer
    <3>2. ASSUME owner = delivery PROVE Members
      BY <1>a, <3>1, <3>2
    <3>3. ASSUME owner = [delivery EXCEPT ![offer[o].delivery].courier = NoOne] PROVE Members
      BY <1>b, <3>1, <3>3
    <3>4. Members
      BY <3>1, <3>2, <3>3
    <3> QED
      BY <2>2, <3>4 DEF cancelDeliveryOffer
  <2>3. ASSUME UNCHANGED <<delivery, routeVars>> PROVE Members /\ UNCHANGED routeVars
    BY <1>e, <2>3
  <2> HIDE DEF Seqs
  <2> QED
    BY <1>2, <1>c, <2>1, <2>2, <2>3
       DEF MarketplaceNext, createDeliveryOffer, reviseDeliveryOfferPrice, OfferLapses, expireDeliveryOffers
<1>3. ASSUME IncidentsNext PROVE Members /\ Seqs /\ plan' = plan
  <2>1. Members /\ UNCHANGED routeVars
    BY <1>3, <1>d, <1>e
       DEF IncidentsNext, openIncident, reviewIncident, resolveIncident, startReturn, completeReturn
  <2> QED
    BY <1>c, <2>1
<1>4. ASSUME NEW r \in Routes, startRoute(r) PROVE Members /\ Seqs /\ plan' = plan
  BY <1>4, <1>a DEF startRoute
<1>5. ASSUME NEW d \in Deliveries, completePickup(d) PROVE Members /\ Seqs /\ plan' = plan
  <2>1. Members /\ plan' = plan
    BY <1>5, <1>a DEF completePickup
  <2>2. Seqs
    BY <1>5 DEF completePickup, TypeOK, StopRow
  <2> QED
    BY <2>1, <2>2
<1>6. ASSUME NEW d \in Deliveries, completeDrop(d) PROVE Members /\ Seqs /\ plan' = plan
  <2>1. Members /\ plan' = plan
    BY <1>6, <1>a DEF completeDrop
  <2>2. Seqs
    BY <1>6 DEF completeDrop, TypeOK, StopRow
  <2> QED
    BY <2>1, <2>2
<1> HIDE DEF Seqs
<1>7. Members /\ Seqs /\ plan' = plan
  BY <1>1, <1>2, <1>3, <1>4, <1>5, <1>6
<1> QED
  BY <1>7 DEF Members, Seqs, Unmoving

\* Pickups at the places 1 .. n and destinations after them.
LEMMA HalvesInOrder ==
  ASSUME NEW r, NEW p, NEW q, NEW g,
         \A d \in RouteDeliveries(r) : p[d] \in 1 .. Cardinality(RouteDeliveries(r))
                                       /\ q[d] \in 1 .. Cardinality(RouteDeliveries(r)),
         \A d, e \in RouteDeliveries(r) : (p[d] = p[e] => d = e) /\ (q[d] = q[e] => d = e),
         g = [k \in RouteStops(r) |-> IF k[2] = "PICKUP" THEN p[k[1]]
                                      ELSE Cardinality(RouteDeliveries(r)) + q[k[1]]]
  PROVE  Orderly(r, g)
<1> DEFINE S == RouteDeliveries(r)
           n == Cardinality(S)
<1>1. n \in Nat /\ Cardinality(RouteStops(r)) = n + n
  BY StopCount
<1>2. ASSUME NEW k \in RouteStops(r)
      PROVE  k[1] \in S /\ k[2] \in {"PICKUP", "DELIVERY"} /\ k = <<k[1], k[2]>>
  BY DEF RouteStops, StopType
<1>3. \A d \in S : <<d, "PICKUP">> \in RouteStops(r) /\ <<d, "DELIVERY">> \in RouteStops(r)
  BY DEF RouteStops, StopType
<1> HIDE DEF S, n
<1>4. /\ \A d \in S : p[d] \in 1 .. n /\ q[d] \in 1 .. n
      /\ g = [k \in RouteStops(r) |-> IF k[2] = "PICKUP" THEN p[k[1]] ELSE n + q[k[1]]]
  BY DEF S, n
<1>5. ASSUME NEW k \in RouteStops(r)
      PROVE  g[k] \in 1 .. n + n /\ (k[2] = "PICKUP" <=> g[k] <= n)
  <2>1. p[k[1]] \in 1 .. n /\ q[k[1]] \in 1 .. n
    BY <1>2, <1>4
  <2>2. g[k] = IF k[2] = "PICKUP" THEN p[k[1]] ELSE n + q[k[1]]
    BY <1>4
  <2> QED
    BY <1>1, <2>1, <2>2
<1>6. ASSUME NEW j \in RouteStops(r), NEW k \in RouteStops(r), g[j] = g[k] PROVE j = k
  <2>1. j[2] = k[2]
    BY <1>2, <1>5, <1>6
  <2>2. /\ p[j[1]] \in 1 .. n /\ q[j[1]] \in 1 .. n /\ p[k[1]] \in 1 .. n /\ q[k[1]] \in 1 .. n
        /\ g[j] = IF j[2] = "PICKUP" THEN p[j[1]] ELSE n + q[j[1]]
        /\ g[k] = IF k[2] = "PICKUP" THEN p[k[1]] ELSE n + q[k[1]]
    BY <1>2, <1>4
  <2>3. IF j[2] = "PICKUP" THEN p[j[1]] = p[k[1]] ELSE q[j[1]] = q[k[1]]
    BY <1>1, <1>6, <2>1, <2>2
  <2>4. j[1] = k[1]
    BY <1>2, <2>3 DEF S
  <2> QED
    BY <1>2, <2>1, <2>4
<1>7. ASSUME NEW d \in S, NEW e \in S PROVE g[<<d, "PICKUP">>] < g[<<e, "DELIVERY">>]
  <2>1. g[<<d, "PICKUP">>] = p[d] /\ g[<<e, "DELIVERY">>] = n + q[e]
    BY <1>3, <1>4
  <2> QED
    BY <1>1, <1>4, <2>1
<1>8. g \in [RouteStops(r) -> Nat]
  <2>1. \A k \in RouteStops(r) : g[k] \in Nat
    BY <1>1, <1>5
  <2> QED
    BY <1>4, <2>1
<1>9. Cardinality(RouteStops(r)) = n + n
  BY <1>1
<1> QED
  BY <1>5, <1>6, <1>7, <1>8, <1>9 DEF Orderly, S

-----------------------------------------------------------------------------
\* createRoute gives its stops the places 1 .. 2n.
LEMMA CreatedInSequence ==
  ASSUME IInv, InSequence, NEW r \in Routes, NEW c \in Couriers, NEW S \in SUBSET Deliveries,
         NEW order \in Orders(S), createRoute(r, c, S, order)
  PROVE  InSequence'
<1>0. TypeOK /\ Custody
  BY DEF IInv
<1>1. /\ \A x \in Deliveries : delivery'[x].route = IF x \in S THEN r ELSE delivery[x].route
      /\ \A x \in S : delivery[x].route = NoOne
      /\ plan' = plan /\ route[r].status = "NONE"
      /\ \A x \in Deliveries \ S : stop'[x] = stop[x]
      /\ \A x \in S : /\ stop'[x]["PICKUP"].seq = order[x]
                      /\ stop'[x]["DELIVERY"].seq = Cardinality(S) + order[x]
  BY DEF createRoute, Advance, StopType
<1>2. \A x \in Deliveries : delivery[x].route # r
  BY <1>0, <1>1, RecordsAssumption DEF Custody
<1> SUFFICES ASSUME NEW s \in Routes
             PROVE  Orderly(s, Places(s))' /\ (plan[s] # <<>> => Orderly(s, plan[s]))'
  BY DEF InSequence
<1>3. Orderly(s, Places(s)) /\ (plan[s] # <<>> => Orderly(s, plan[s]))
  BY DEF InSequence
<1>4. CASE s # r
  <2>1. RouteDeliveries(s)' = RouteDeliveries(s) /\ RouteStops(s)' = RouteStops(s)
    <3>1. \A x \in Deliveries : delivery'[x].route = s <=> delivery[x].route = s
      BY <1>1, <1>4, RecordsAssumption
    <3>2. RouteDeliveries(s)' = RouteDeliveries(s)
      BY <3>1 DEF RouteDeliveries
    <3> QED
      BY <3>2 DEF RouteStops
  <2>2. \A x \in RouteDeliveries(s) : x \in Deliveries \ S
    BY <1>1, RecordsAssumption DEF RouteDeliveries
  <2>3. Places(s)' = Places(s)
    BY <1>1, <2>1, <2>2 DEF Places, Sequence, RouteStops
  <2> QED
    BY <1>1, <1>3, <2>1, <2>3 DEF Orderly
<1>5. CASE s = r
  <2> DEFINE n == Cardinality(S)
  <2>1. RouteDeliveries(r)' = S /\ RouteStops(r)' = S \X StopType
    BY <1>1, <1>2 DEF RouteDeliveries, RouteStops
  <2>2. n \in Nat /\ Cardinality(S \X StopType) = n + n
    BY PairCount
  <2>3. /\ \A x \in S : order[x] \in 1 .. n
        /\ \A x, y \in S : order[x] = order[y] => x = y
    BY DEF Orders, Bijection, Injection, IsInjective
  <2> HIDE DEF n
  <2>4. Places(r)' = [k \in S \X StopType |-> IF k[2] = "PICKUP" THEN order[k[1]] ELSE n + order[k[1]]]
    BY <1>1, <2>1 DEF Places, Sequence, StopType, n
  <2>5. ASSUME NEW k \in S \X StopType
        PROVE  /\ k[1] \in S /\ k[2] \in {"PICKUP", "DELIVERY"} /\ k = <<k[1], k[2]>>
               /\ Places(r)'[k] \in 1 .. n + n
               /\ k[2] = "PICKUP" <=> Places(r)'[k] <= n
               /\ Places(r)'[k] = (IF k[2] = "PICKUP" THEN order[k[1]] ELSE n + order[k[1]])
    <3>1. k[1] \in S /\ k[2] \in {"PICKUP", "DELIVERY"} /\ k = <<k[1], k[2]>>
      BY DEF StopType
    <3>2. order[k[1]] \in 1 .. n
      BY <2>3, <3>1
    <3> QED
      BY <2>2, <2>4, <3>1, <3>2
  <2>6. ASSUME NEW j \in S \X StopType, NEW k \in S \X StopType, Places(r)'[j] = Places(r)'[k]
        PROVE  j = k
    <3>1. j[2] = k[2]
      BY <2>5, <2>6
    <3>2. order[j[1]] = order[k[1]]
      <4>1. order[j[1]] \in Nat /\ order[k[1]] \in Nat
        BY <2>3, <2>5
      <4> QED
        BY <2>2, <2>5, <2>6, <3>1, <4>1
    <3> QED
      BY <2>3, <2>5, <3>1, <3>2
  <2>7. \A d, e \in S : Places(r)'[<<d, "PICKUP">>] < Places(r)'[<<e, "DELIVERY">>]
    <3> SUFFICES ASSUME NEW d \in S, NEW e \in S
                 PROVE  Places(r)'[<<d, "PICKUP">>] < Places(r)'[<<e, "DELIVERY">>]
      OBVIOUS
    <3>1. <<d, "PICKUP">> \in S \X StopType /\ <<e, "DELIVERY">> \in S \X StopType
      BY DEF StopType
    <3>2. Places(r)'[<<d, "PICKUP">>] = order[d] /\ Places(r)'[<<e, "DELIVERY">>] = n + order[e]
      BY <2>4, <3>1
    <3> QED
      BY <2>2, <2>3, <3>2
  <2>8. Orderly(r, Places(r))'
    <3>1. Places(r)' \in [S \X StopType -> Nat]
      BY <2>2, <2>4, <2>5
    <3> QED
      BY <2>1, <2>2, <2>5, <2>6, <2>7, <3>1 DEF Orderly
  <2>9. plan'[r] = <<>>
    <3>1. RouteStops(r) = {}
      BY <1>2 DEF RouteStops, RouteDeliveries
    <3>2. plan[r] # <<>> => plan[r] \in [{} -> Nat]
      BY <1>3, <1>5, <3>1 DEF Orderly
    <3>3. \A f \in [{} -> Nat] : f = <<>>
      OBVIOUS
    <3> QED
      BY <1>1, <3>2, <3>3
  <2> QED
    BY <1>5, <2>8, <2>9
<1> QED
  BY <1>4, <1>5

\* Pickups come first in an itinerary.
LEMMA ItineraryShape ==
  ASSUME NEW r, NEW list \in Itineraries(r)
  PROVE  LET n == Cardinality(RouteDeliveries(r))
         IN  /\ list \in [1 .. n + n -> RouteStops(r)]
             /\ \A i \in 1 .. n + n : i <= n <=> list[i][2] = "PICKUP"
<1> DEFINE n == Cardinality(RouteDeliveries(r))
<1>1. n \in Nat
  BY RouteCount DEF RouteDeliveries
<1>2. PICK p \in Bijection(1 .. n, RouteDeliveries(r)), q \in Bijection(1 .. n, RouteDeliveries(r)) :
        list = [i \in 1 .. n + n |-> IF i <= n THEN <<p[i], "PICKUP">> ELSE <<q[i - n], "DELIVERY">>]
  BY DEF Itineraries
<1>3. p \in [1 .. n -> RouteDeliveries(r)] /\ q \in [1 .. n -> RouteDeliveries(r)]
  BY DEF Bijection, Injection
<1> HIDE DEF n
<1>4. \A i \in 1 .. n + n : i <= n => p[i] \in RouteDeliveries(r)
  BY <1>1, <1>3
<1>5. \A i \in 1 .. n + n : ~(i <= n) => q[i - n] \in RouteDeliveries(r)
  BY <1>1, <1>3
<1>6. list \in [1 .. n + n -> RouteStops(r)]
  BY <1>2, <1>4, <1>5 DEF RouteStops, StopType
<1>7. \A i \in 1 .. n + n : i <= n <=> list[i][2] = "PICKUP"
  BY <1>1, <1>2
<1> QED
  BY <1>6, <1>7 DEF n

\* A list that clients submit has the length of an itinerary, or one more.
LEMMA StopListDomain ==
  ASSUME NEW r, NEW stopIds \in StopLists(r)
  PROVE  LET n == Cardinality(RouteDeliveries(r))
         IN  DOMAIN stopIds \in SUBSET Nat /\ \A i \in DOMAIN stopIds : i <= n + n + 1
<1> DEFINE n == Cardinality(RouteDeliveries(r))
<1>1. n \in Nat
  BY RouteCount DEF RouteDeliveries
<1>2. ASSUME NEW list \in Itineraries(r) PROVE list \in Seq(RouteStops(r)) /\ Len(list) = n + n
  <2>1. list \in [1 .. n + n -> RouteStops(r)]
    BY ItineraryShape
  <2> HIDE DEF n
  <2> QED
    BY <1>1, <2>1
<1>3. \/ stopIds \in Itineraries(r)
      \/ \E list \in Itineraries(r), k \in RouteStops(r) : stopIds = Append(list, k)
  BY DEF StopLists
<1> HIDE DEF n
<1>4. Len(stopIds) <= n + n + 1 /\ DOMAIN stopIds = 1 .. Len(stopIds) /\ Len(stopIds) \in Nat
  BY <1>1, <1>2, <1>3
<1>5. DOMAIN stopIds \in SUBSET Nat /\ \A i \in DOMAIN stopIds : i <= n + n + 1
  BY <1>1, <1>4
<1> QED
  BY <1>5 DEF n

-----------------------------------------------------------------------------
\* The last place of a stop in a list of ids belongs to that stop alone.
LEMMA ReorderedInSequence ==
  ASSUME IInv, InSequence, NEW r \in Routes, NEW stopIds \in StopLists(r), reorderRoute(r, stopIds)
  PROVE  InSequence'
<1>0. TypeOK
  BY DEF IInv
<1> DEFINE places(k) == {i \in DOMAIN stopIds : stopIds[i] = k}
           last(k) == CHOOSE i \in places(k) : \A j \in places(k) : i >= j
           g == [k \in RouteStops(r) |-> last(k)]
           n == Cardinality(RouteDeliveries(r))
<1>1. n \in Nat /\ Cardinality(RouteStops(r)) = n + n
  BY StopCount
<1>2. stop' = Resequenced(g) /\ UNCHANGED <<delivery, plan>> /\ \A k \in RouteStops(r) : places(k) # {}
  BY DEF reorderRoute, Range
<1>3. DOMAIN stopIds \in SUBSET Nat /\ \A i \in DOMAIN stopIds : i <= n + n + 1
  BY StopListDomain
<1>4. \A k \in RouteStops(r) : last(k) \in places(k)
  <2> TAKE k \in RouteStops(r)
  <2>1. places(k) \in SUBSET Nat /\ \A i \in places(k) : i <= n + n + 1
    BY <1>3
  <2>2. \E m \in places(k) : \A i \in places(k) : m >= i
    <3>1. n + n + 1 \in Nat /\ places(k) # {}
      BY <1>1, <1>2
    <3> HIDE DEF places, n
    <3> QED
      BY <2>1, <3>1, MaximumExists
  <2> QED
    BY <2>2
<1>5. \A k \in RouteStops(r) : last(k) \in DOMAIN stopIds /\ stopIds[last(k)] = k
  BY <1>4
<1> HIDE DEF last
<1>6. g \in [RouteStops(r) -> Nat] /\ \A j, k \in RouteStops(r) : g[j] = g[k] => j = k
  BY <1>3, <1>5
<1>7. ASSUME ~RepeatedIds
      PROVE  /\ \A k \in RouteStops(r) : g[k] \in 1 .. n + n
             /\ \A d, e \in RouteDeliveries(r) : g[<<d, "PICKUP">>] < g[<<e, "DELIVERY">>]
  <2>1. /\ DOMAIN stopIds = 1 .. n + n
        /\ \A i \in 1 .. n + n : i <= n <=> stopIds[i][2] = "PICKUP"
    BY <1>7, ItineraryShape DEF StopLists
  <2>2. \A k \in RouteStops(r) : g[k] \in 1 .. n + n
    BY <1>5, <2>1
  <2>3. \A k \in RouteStops(r) : g[k] <= n <=> k[2] = "PICKUP"
    BY <1>5, <2>1
  <2> HIDE DEF g, n
  <2>4. \A d, e \in RouteDeliveries(r) : <<d, "PICKUP">> \in RouteStops(r) /\ <<e, "DELIVERY">> \in RouteStops(r)
    BY DEF RouteStops, StopType
  <2>5. ASSUME NEW d \in RouteDeliveries(r), NEW e \in RouteDeliveries(r)
        PROVE  g[<<d, "PICKUP">>] < g[<<e, "DELIVERY">>]
    <3>1. g[<<d, "PICKUP">>] <= n /\ ~(g[<<e, "DELIVERY">>] <= n)
      BY <2>3, <2>4
    <3>2. g[<<d, "PICKUP">>] \in Nat /\ g[<<e, "DELIVERY">>] \in Nat
      BY <1>1, <2>2, <2>4
    <3> QED
      BY <1>1, <3>1, <3>2
  <2> QED
    BY <2>2, <2>5
<1>8. Orderly(r, g)
  BY <1>1, <1>6, <1>7 DEF Orderly
<1>9. DOMAIN g = RouteStops(r)
  OBVIOUS
<1> HIDE DEF g
<1> QED
  BY <1>0, <1>2, <1>8, <1>9, SequenceGiven

\* The rank of a pickup among the pickups is its own.
LEMMA RanksDiffer ==
  ASSUME NEW S \in SUBSET Deliveries, NEW f \in [S -> Nat], \A d, e \in S : f[d] = f[e] => d = e
  PROVE  LET rank == [d \in S |-> Cardinality({e \in S : f[e] <= f[d]})]
         IN  /\ \A d \in S : rank[d] \in 1 .. Cardinality(S)
             /\ \A d, e \in S : rank[d] = rank[e] => d = e
<1> DEFINE Below(d) == {e \in S : f[e] <= f[d]}
           rank == [d \in S |-> Cardinality(Below(d))]
<1>1. IsFiniteSet(S) /\ Cardinality(S) \in Nat
  BY PairCount
<1>2. \A d \in S : Below(d) \in SUBSET S /\ d \in Below(d)
  OBVIOUS
<1>3. ASSUME NEW d \in S
      PROVE  IsFiniteSet(Below(d)) /\ Cardinality(Below(d)) \in 1 .. Cardinality(S)
  <2>1. Below(d) \in SUBSET S /\ d \in Below(d)
    BY <1>2
  <2> HIDE DEF Below
  <2>2. IsFiniteSet(Below(d)) /\ Cardinality(Below(d)) <= Cardinality(S) /\ Cardinality(Below(d)) \in Nat
    BY <1>1, <2>1, FS_Subset, FS_CardinalityType
  <2>3. Cardinality(Below(d)) # 0
    BY <2>1, <2>2, FS_EmptySet
  <2> QED
    BY <1>1, <2>2, <2>3
<1>4. ASSUME NEW d \in S, NEW e \in S, f[d] < f[e] PROVE Cardinality(Below(d)) # Cardinality(Below(e))
  <2>1. Below(d) \in SUBSET Below(e) /\ e \in Below(e) /\ e \notin Below(d)
    BY <1>4
  <2>2. IsFiniteSet(Below(e))
    BY <1>3
  <2> HIDE DEF Below
  <2>3. Below(d) # Below(e)
    BY <2>1
  <2> QED
    BY <2>1, <2>2, <2>3, FS_Subset
<1>5. ASSUME NEW d \in S, NEW e \in S, Cardinality(Below(d)) = Cardinality(Below(e)) PROVE d = e
  <2>1. ~(f[d] < f[e]) /\ ~(f[e] < f[d])
    BY <1>4, <1>5
  <2>2. f[d] \in Nat /\ f[e] \in Nat
    OBVIOUS
  <2>3. f[d] = f[e]
    BY <2>1, <2>2
  <2> QED
    BY <2>3
<1> HIDE DEF Below
<1>6. /\ \A d \in S : rank[d] \in 1 .. Cardinality(S)
      /\ \A d, e \in S : rank[d] = rank[e] => d = e
  BY <1>3, <1>5
<1> QED
  BY <1>6 DEF Below

LEMMA OptimizedInSequence ==
  ASSUME IInv, InSequence, NEW r \in Routes, NEW q \in Orders(RouteDeliveries(r)), optimizeRoute(r, q)
  PROVE  InSequence'
<1>0. TypeOK
  BY DEF IInv
<1> DEFINE S == RouteDeliveries(r)
           n == Cardinality(S)
           f == [d \in S |-> stop[d]["PICKUP"].seq]
           rank == [d \in S |-> Cardinality({e \in S : f[e] <= f[d]})]
           g == Sequenced(r, rank, q)
<1>1. S \in SUBSET Deliveries /\ n \in Nat /\ RouteStops(r) = S \X StopType /\ Cardinality(RouteStops(r)) = n + n
  BY StopCount DEF RouteStops, RouteDeliveries
<1>2. UNCHANGED <<delivery, stop>> /\ plan' = [plan EXCEPT ![r] = g]
  <2>1. rank = [d \in S |-> Cardinality({e \in S : stop[e]["PICKUP"].seq <= stop[d]["PICKUP"].seq})]
    OBVIOUS
  <2> QED
    BY <2>1 DEF optimizeRoute
<1>3. f \in [S -> Nat]
  BY <1>0 DEF TypeOK, StopRow, StopType, RouteDeliveries
<1>4. \A d, e \in S : f[d] = f[e] => d = e
  <2>1. Orderly(r, Places(r))
    BY DEF InSequence
  <2>2. \A d \in S : <<d, "PICKUP">> \in RouteStops(r) /\ Places(r)[<<d, "PICKUP">>] = f[d]
    BY DEF RouteStops, StopType, Places, Sequence
  <2> QED
    BY <2>1, <2>2 DEF Orderly
<1> HIDE DEF f, S
<1>5. /\ \A d \in S : rank[d] \in 1 .. n
      /\ \A d, e \in S : rank[d] = rank[e] => d = e
  BY <1>1, <1>3, <1>4, RanksDiffer
<1>6. /\ \A d \in S : q[d] \in 1 .. n
      /\ \A d, e \in S : q[d] = q[e] => d = e
  BY DEF Orders, Bijection, Injection, IsInjective, S
<1> HIDE DEF rank, n
<1>7. g = [k \in RouteStops(r) |-> IF k[2] = "PICKUP" THEN rank[k[1]] ELSE n + q[k[1]]]
  BY DEF Sequenced, n, S
<1> HIDE DEF g
<1>8. Orderly(r, g)
  <2>1. \A d \in RouteDeliveries(r) : rank[d] \in 1 .. Cardinality(RouteDeliveries(r))
                                       /\ q[d] \in 1 .. Cardinality(RouteDeliveries(r))
    BY <1>5, <1>6 DEF n, S
  <2>2. \A d, e \in RouteDeliveries(r) : (rank[d] = rank[e] => d = e) /\ (q[d] = q[e] => d = e)
    BY <1>5, <1>6 DEF S
  <2>3. g = [k \in RouteStops(r) |-> IF k[2] = "PICKUP" THEN rank[k[1]]
                                     ELSE Cardinality(RouteDeliveries(r)) + q[k[1]]]
    BY <1>7 DEF n, S
  <2> QED
    BY <2>1, <2>2, <2>3, HalvesInOrder
<1> SUFFICES ASSUME NEW s \in Routes
             PROVE  Orderly(s, Places(s))' /\ (plan[s] # <<>> => Orderly(s, plan[s]))'
  BY DEF InSequence
<1>9. Orderly(s, Places(s)) /\ (plan[s] # <<>> => Orderly(s, plan[s]))
  BY DEF InSequence
<1>10. RouteDeliveries(s)' = RouteDeliveries(s) /\ RouteStops(s)' = RouteStops(s) /\ Places(s)' = Places(s)
  BY <1>2 DEF RouteDeliveries, RouteStops, Places, Sequence
<1>11. plan'[s] = IF s = r THEN g ELSE plan[s]
  BY <1>0, <1>2 DEF TypeOK
<1> QED
  BY <1>8, <1>9, <1>10, <1>11 DEF Orderly

LEMMA AppliedInSequence ==
  ASSUME IInv, InSequence, NEW r \in Routes, applyRouteSuggestion(r)
  PROVE  InSequence'
<1>1. TypeOK /\ Orderly(r, plan[r]) /\ stop' = Resequenced(plan[r]) /\ UNCHANGED <<delivery, plan>>
  BY DEF IInv, InSequence, applyRouteSuggestion
<1>2. DOMAIN plan[r] = RouteStops(r)
  BY <1>1 DEF Orderly
<1> QED
  BY <1>1, <1>2, SequenceGiven

\* Urgency deals the places of the pending destinations out anew.
LEMMA PrioritizedInSequence ==
  ASSUME IInv, InSequence, NEW d \in Deliveries, prioritizeRouteStop(d)
  PROVE  InSequence'
<1> DEFINE r == delivery[d].route
           left == PendingDrops(r)
           seq(e) == stop[e]["DELIVERY"].seq
<1>0. TypeOK
  BY DEF IInv
<1>1. r \in Routes /\ plan' = plan /\ \A x \in Deliveries : delivery'[x].route = delivery[x].route
  <2>1. r \in Routes
    BY <1>0 DEF prioritizeRouteStop, TypeOK, DeliveryRow
  <2>2. \E path : Advance(path, delivery)
    BY DEF prioritizeRouteStop
  <2> QED
    BY <2>1, <2>2, AdvanceMembership DEF prioritizeRouteStop
<1>2. PICK f \in Prioritized(d, left) : stop' = Resequenced([k \in left \X {"DELIVERY"} |-> f[k[1]]])
  BY DEF prioritizeRouteStop
<1>3. /\ f \in [left -> {seq(e) : e \in left}]
      /\ \A e, h \in left : f[e] = f[h] => e = h
  BY DEF Prioritized, Bijection, Injection, IsInjective
<1> DEFINE F == [k \in left \X {"DELIVERY"} |-> f[k[1]]]
           P == Places(r)
           g == [k \in RouteStops(r) |-> IF k \in DOMAIN F THEN F[k] ELSE P[k]]
<1>4. Orderly(r, P)
  BY <1>1 DEF InSequence
<1>5. left \X {"DELIVERY"} \subseteq RouteStops(r)
  BY DEF PendingDrops, RouteStops, StopType
<1>6. \A k \in RouteStops(r) : P[k] = stop[k[1]][k[2]].seq
  BY DEF Places, Sequence
<1>7. ASSUME NEW k \in left \X {"DELIVERY"}
      PROVE  /\ k \in RouteStops(r) /\ g[k] = f[k[1]] /\ k = <<k[1], "DELIVERY">> /\ k[1] \in left
             /\ \E e \in left : <<e, "DELIVERY">> \in RouteStops(r) /\ f[k[1]] = P[<<e, "DELIVERY">>]
  <2>1. PICK e \in left : f[k[1]] = seq(e)
    BY <1>3
  <2>2. <<e, "DELIVERY">> \in RouteStops(r)
    BY <1>5
  <2>3. P[<<e, "DELIVERY">>] = seq(e)
    BY <1>6, <2>2
  <2> QED
    BY <1>5, <2>1, <2>2, <2>3
<1>8. ASSUME NEW k \in RouteStops(r), k \notin left \X {"DELIVERY"} PROVE g[k] = P[k]
  BY <1>8
<1> HIDE DEF P, F, left
<1>9. \A k \in RouteStops(r) : \E j \in RouteStops(r) :
        g[k] = P[j] /\ j[2] = k[2] /\ (k \in left \X {"DELIVERY"} <=> j \in left \X {"DELIVERY"})
  <2> SUFFICES ASSUME NEW k \in RouteStops(r)
               PROVE  \E j \in RouteStops(r) : /\ g[k] = P[j] /\ j[2] = k[2]
                                               /\ k \in left \X {"DELIVERY"} <=> j \in left \X {"DELIVERY"}
    OBVIOUS
  <2>1. CASE k \in left \X {"DELIVERY"}
    <3>1. PICK e \in left : <<e, "DELIVERY">> \in RouteStops(r) /\ f[k[1]] = P[<<e, "DELIVERY">>]
      BY <1>7, <2>1
    <3>2. g[k] = P[<<e, "DELIVERY">>] /\ k[2] = "DELIVERY" /\ <<e, "DELIVERY">> \in left \X {"DELIVERY"}
      BY <1>7, <2>1, <3>1
    <3> QED
      BY <2>1, <3>1, <3>2
  <2>2. CASE k \notin left \X {"DELIVERY"}
    BY <1>8, <2>2
  <2> QED
    BY <2>1, <2>2
<1>10. Orderly(r, g)
  <2>1. g \in [RouteStops(r) -> Nat]
    <3>1. \A k \in RouteStops(r) : g[k] \in Nat
      BY <1>4, <1>9 DEF Orderly
    <3> QED
      BY <3>1
  <2> HIDE DEF g
  <2>2. ASSUME NEW j \in RouteStops(r), NEW k \in RouteStops(r), g[j] = g[k] PROVE j = k
    <3>1. PICK j0 \in RouteStops(r) : /\ g[j] = P[j0] /\ j0[2] = j[2]
                                      /\ j \in left \X {"DELIVERY"} <=> j0 \in left \X {"DELIVERY"}
      BY <1>9
    <3>2. PICK k0 \in RouteStops(r) : /\ g[k] = P[k0] /\ k0[2] = k[2]
                                      /\ k \in left \X {"DELIVERY"} <=> k0 \in left \X {"DELIVERY"}
      BY <1>9
    <3>3. j0 = k0
      BY <1>4, <2>2, <3>1, <3>2 DEF Orderly
    <3>4. CASE j \in left \X {"DELIVERY"}
      <4>1. k \in left \X {"DELIVERY"}
        BY <3>1, <3>2, <3>3, <3>4
      <4> QED
        BY <1>3, <1>7, <2>2, <3>4, <4>1
    <3>5. CASE j \notin left \X {"DELIVERY"}
      <4>1. k \notin left \X {"DELIVERY"}
        BY <3>1, <3>2, <3>3, <3>5
      <4> QED
        BY <1>4, <1>8, <2>2, <3>5, <4>1 DEF Orderly
    <3> QED
      BY <3>4, <3>5
  <2>3. ASSUME ~RepeatedIds
        PROVE  /\ \A k \in RouteStops(r) : g[k] \in 1 .. Cardinality(RouteStops(r))
               /\ \A a, e \in RouteDeliveries(r) : g[<<a, "PICKUP">>] < g[<<e, "DELIVERY">>]
    <3>1. \A k \in RouteStops(r) : g[k] \in 1 .. Cardinality(RouteStops(r))
      BY <1>4, <1>9, <2>3 DEF Orderly
    <3>2. ASSUME NEW a \in RouteDeliveries(r), NEW e \in RouteDeliveries(r)
          PROVE  g[<<a, "PICKUP">>] < g[<<e, "DELIVERY">>]
      <4>1. <<a, "PICKUP">> \in RouteStops(r) /\ <<e, "DELIVERY">> \in RouteStops(r)
        BY DEF RouteStops, StopType
      <4>2. PICK j \in RouteStops(r) : g[<<a, "PICKUP">>] = P[j] /\ j[2] = "PICKUP"
        BY <1>9, <4>1
      <4>3. PICK k \in RouteStops(r) : g[<<e, "DELIVERY">>] = P[k] /\ k[2] = "DELIVERY"
        BY <1>9, <4>1
      <4>4. j = <<j[1], "PICKUP">> /\ k = <<k[1], "DELIVERY">> /\ j[1] \in RouteDeliveries(r) /\ k[1] \in RouteDeliveries(r)
        BY <4>2, <4>3 DEF RouteStops
      <4> QED
        BY <1>4, <2>3, <4>2, <4>3, <4>4 DEF Orderly
    <3> QED
      BY <3>1, <3>2
  <2> QED
    BY <2>1, <2>2, <2>3 DEF Orderly
<1>11. \A k \in RouteStops(r) : g[k] = IF k \in DOMAIN F THEN F[k] ELSE stop[k[1]][k[2]].seq
  BY <1>6
<1>12. DOMAIN F \subseteq RouteStops(r) /\ stop' = Resequenced(F)
  BY <1>2, <1>5 DEF F
<1> HIDE DEF g, r
<1> QED
  BY <1>0, <1>1, <1>10, <1>11, <1>12, SequenceGiven

LEMMA CustomersUnmoving ==
  ASSUME TypeOK, CustomersNext
  PROVE  Unmoving /\ UNCHANGED <<stop, route>>
  BY OnlyVersions DEF Unmoving

LEMMA SequenceStep ==
  ASSUME IInv, InSequence, [Next]_vars
  PROVE  InSequence'
<1>0. TypeOK
  BY DEF IInv
<1>1. CASE UNCHANGED vars
  BY <1>1, SequenceRests DEF vars, Unmoving
<1>2. CASE DeliveriesNext \/ MarketplaceNext \/ IncidentsNext
  BY <1>0, <1>2, SequenceRests, HandlersUnmoving
<1>3. CASE RoutesNext
  <2>1. ASSUME NEW r \in Routes, startRoute(r) PROVE InSequence'
    BY <1>0, <2>1, SequenceRests, HandlersUnmoving
  <2>2. ASSUME NEW d \in Deliveries, completePickup(d) \/ completeDrop(d) PROVE InSequence'
    BY <1>0, <2>2, SequenceRests, HandlersUnmoving
  <2> QED
    BY <1>3, <2>1, <2>2, CreatedInSequence, ReorderedInSequence, OptimizedInSequence, AppliedInSequence,
       PrioritizedInSequence DEF RoutesNext
<1>4. CASE CustomersNext
  BY <1>0, <1>4, SequenceRests, CustomersUnmoving
<1> QED
  BY <1>1, <1>2, <1>3, <1>4 DEF Next

-----------------------------------------------------------------------------
\* Nothing happens in r but that deliveries fail, return or are cancelled on their own.
DriftsOn(r) ==
  /\ RouteDeliveries(r)' = RouteDeliveries(r)
  /\ route'[r].status = route[r].status
  /\ \A x \in RouteDeliveries(r) :
       /\ stop'[x]["DELIVERY"].status = stop[x]["DELIVERY"].status
       /\ stop'[x]["DELIVERY"].seq = stop[x]["DELIVERY"].seq
       /\ delivery'[x].status \in Stuck \cup {delivery[x].status}

LEMMA Pending ==
  ASSUME NEW r, RouteDeliveries(r)' = RouteDeliveries(r)
  PROVE  PendingDrops(r)' = {x \in RouteDeliveries(r) : stop'[x]["DELIVERY"].status = "PENDING"}
  BY DEF PendingDrops

LEMMA Drifting ==
  ASSUME NEW r, GoesOn(r), DriftsOn(r)
  PROVE  GoesOn(r)'
<1>1. RouteDeliveries(r)' = RouteDeliveries(r)
  BY DEF DriftsOn
<1>2. PendingDrops(r)' = PendingDrops(r)
  BY <1>1, Pending DEF DriftsOn, PendingDrops
<1>3. PendingDrops(r) \subseteq RouteDeliveries(r)
  BY DEF PendingDrops
<1>4. "NEXT_STOP" \notin Stuck
  BY DEF Stuck, Back
<1>5. /\ \A d \in RouteDeliveries(r) : stop'[d]["DELIVERY"].status # "NONE"
      /\ \A d \in RouteDeliveries(r) : delivery'[d].status = "NEXT_STOP" =>
           /\ route'[r].status = "ACTIVE"
           /\ d \in PendingDrops(r)
           /\ \A e \in RouteDeliveries(r) \ {d} :
                /\ delivery'[e].status # "NEXT_STOP"
                /\ e \in PendingDrops(r) => stop'[d]["DELIVERY"].seq < stop'[e]["DELIVERY"].seq
  BY <1>4 DEF GoesOn, DriftsOn
<1>6. route'[r].status = "ACTIVE" =>
        /\ \A d \in PendingDrops(r) : delivery'[d].status \in {"IN_ROUTE", "NEXT_STOP"} \cup Stuck
        /\ \E d \in PendingDrops(r) : delivery'[d].status \in {"NEXT_STOP"} \cup Stuck
  BY <1>3 DEF GoesOn, DriftsOn
<1>7. route'[r].status \in {"COMPLETED", "CANCELLED"} => PendingDrops(r) = {}
  BY DEF GoesOn, DriftsOn
<1> QED
  BY <1>1, <1>2, <1>5, <1>6, <1>7 DEF GoesOn

\* A draft has no next stop.
LEMMA InDraft ==
  ASSUME NEW r, route'[r].status = "DRAFT",
         \A x \in RouteDeliveries(r)' :
           stop'[x]["DELIVERY"].status # "NONE" /\ delivery'[x].status # "NEXT_STOP"
  PROVE  GoesOn(r)'
  BY DEF GoesOn

\* An active route whose first pending destination is the next stop.
LEMMA Leads ==
  ASSUME NEW r, route'[r].status = "ACTIVE", NEW n \in PendingDrops(r)',
         delivery'[n].status = "NEXT_STOP",
         \A x \in RouteDeliveries(r)' : stop'[x]["DELIVERY"].status # "NONE",
         \A e \in RouteDeliveries(r)' \ {n} : delivery'[e].status # "NEXT_STOP",
         \A e \in PendingDrops(r)' \ {n} : /\ delivery'[e].status \in {"IN_ROUTE"} \cup Stuck
                                          /\ stop'[n]["DELIVERY"].seq < stop'[e]["DELIVERY"].seq
  PROVE  GoesOn(r)'
<1>1. PendingDrops(r)' \subseteq RouteDeliveries(r)'
  BY DEF PendingDrops
<1> QED
  BY <1>1 DEF GoesOn

\* An active route in which nobody is the next stop waits for somebody who is stuck.
LEMMA Waits ==
  ASSUME NEW r, route'[r].status = "ACTIVE", NEW n \in PendingDrops(r)', delivery'[n].status \in Stuck,
         \A x \in RouteDeliveries(r)' :
           stop'[x]["DELIVERY"].status # "NONE" /\ delivery'[x].status # "NEXT_STOP",
         \A e \in PendingDrops(r)' : delivery'[e].status \in {"IN_ROUTE"} \cup Stuck
  PROVE  GoesOn(r)'
  BY DEF GoesOn

\* A closed route has nothing pending.
LEMMA Closed ==
  ASSUME NEW r, route'[r].status # "ACTIVE", PendingDrops(r)' = {},
         \A x \in RouteDeliveries(r)' :
           stop'[x]["DELIVERY"].status # "NONE" /\ delivery'[x].status # "NEXT_STOP"
  PROVE  GoesOn(r)'
  BY DEF GoesOn

\* The destinations of a route stand at different places, so one of them is first.
LEMMA OneFirst ==
  ASSUME TypeOK, InSequence, NEW r \in Routes, NEW S \in SUBSET RouteDeliveries(r), S # {}
  PROVE  \E n \in S : /\ FirstOf(S) = {n}
                      /\ \A e \in S \ {n} : stop[n]["DELIVERY"].seq < stop[e]["DELIVERY"].seq
<1> DEFINE f == [d \in S |-> stop[d]["DELIVERY"].seq]
<1>1. S \in SUBSET Deliveries
  BY DEF RouteDeliveries
<1>2. f \in [S -> Nat]
  BY <1>1 DEF TypeOK, StopRow, StopType
<1>3. \A d, e \in S : f[d] = f[e] => d = e
  <2>1. Orderly(r, Places(r))
    BY DEF InSequence
  <2>2. \A d \in S : <<d, "DELIVERY">> \in RouteStops(r) /\ Places(r)[<<d, "DELIVERY">>] = f[d]
    BY DEF RouteStops, StopType, Places, Sequence
  <2> QED
    BY <2>1, <2>2 DEF Orderly
<1>4. \A d \in S : f[d] = stop[d]["DELIVERY"].seq
  OBVIOUS
<1> HIDE DEF f
<1>5. PICK n \in S : \A e \in S : f[n] <= f[e]
  BY <1>1, <1>2, FirstExists
<1>6. ASSUME NEW e \in S \ {n} PROVE f[n] < f[e]
  <2>1. f[n] \in Nat /\ f[e] \in Nat /\ f[n] # f[e] /\ f[n] <= f[e]
    BY <1>2, <1>3, <1>5
  <2> QED
    BY <2>1
<1>7. ASSUME NEW e \in FirstOf(S) PROVE e = n
  <2>1. e \in S /\ f[e] <= f[n]
    BY <1>4, <1>7 DEF FirstOf
  <2>2. f[n] \in Nat /\ f[e] \in Nat
    BY <1>2, <2>1
  <2>3. ~(f[n] < f[e])
    BY <2>1, <2>2
  <2> QED
    BY <1>6, <2>1, <2>3
<1>8. n \in FirstOf(S)
  BY <1>4, <1>5 DEF FirstOf
<1>9. FirstOf(S) = {n}
  BY <1>7, <1>8
<1> QED
  BY <1>4, <1>6, <1>9

-----------------------------------------------------------------------------
\* The next stop d leaves r: the destination after it takes over, unless it is stuck, and
\* without any the route is closed.
LEMMA NextLeaves ==
  ASSUME TypeOK, InSequence, NEW r \in Routes, GoesOn(r),
         NEW d \in RouteDeliveries(r), delivery[d].status = "NEXT_STOP",
         \A x \in Deliveries : delivery'[x].route = delivery[x].route,
         \A x \in Deliveries \ {d} : delivery'[x].status = IF x \in NextInLine(r, d) THEN "NEXT_STOP"
                                                            ELSE delivery[x].status,
         delivery'[d].status # "NEXT_STOP",
         \A x \in RouteDeliveries(r) \ {d} : stop'[x]["DELIVERY"] = stop[x]["DELIVERY"],
         stop'[d]["DELIVERY"].status \in {"COMPLETED", "SKIPPED"},
         NothingLeft(r, d) => route'[r].status \in {"COMPLETED", "CANCELLED"},
         ~NothingLeft(r, d) => route'[r].status = route[r].status
  PROVE  GoesOn(r)'
<1> DEFINE rest == PendingDrops(r) \ {d}
           others == RouteDeliveries(r) \ {d}
<1>1. /\ \A x \in Deliveries : delivery'[x].route = delivery[x].route
      /\ delivery'[d].status # "NEXT_STOP"
      /\ \A x \in Deliveries \ {d} : delivery'[x].status = IF x \in NextInLine(r, d) THEN "NEXT_STOP"
                                                           ELSE delivery[x].status
  OBVIOUS
<1>2. RouteDeliveries(r)' = RouteDeliveries(r) /\ RouteDeliveries(r) \subseteq Deliveries
  BY <1>1, DeliveriesOf DEF RouteDeliveries
<1>3. PendingDrops(r)' = rest /\ rest \subseteq others
  <2>1. PendingDrops(r)' = {x \in RouteDeliveries(r) : stop'[x]["DELIVERY"].status = "PENDING"}
    BY <1>2, Pending
  <2> QED
    BY <2>1 DEF PendingDrops
<1>4. /\ route[r].status = "ACTIVE" /\ d \in PendingDrops(r)
      /\ \A e \in others : delivery[e].status # "NEXT_STOP"
      /\ \A e \in rest : delivery[e].status \in {"IN_ROUTE"} \cup Stuck
      /\ \A x \in RouteDeliveries(r) : stop'[x]["DELIVERY"].status # "NONE"
  BY <1>3 DEF GoesOn
<1>5. CASE rest = {}
  <2>1. NextInLine(r, d) = {} /\ NothingLeft(r, d)
    BY <1>5 DEF NextInLine, NothingLeft, FirstOf
  <2>2. \A x \in RouteDeliveries(r) : delivery'[x].status # "NEXT_STOP"
    BY <1>1, <1>2, <1>4, <2>1
  <2> QED
    BY <1>2, <1>3, <1>4, <1>5, <2>1, <2>2, Closed
<1>6. CASE rest # {}
  <2>1. ~NothingLeft(r, d) /\ route'[r].status = "ACTIVE"
    BY <1>4, <1>6 DEF NothingLeft
  <2>2. PICK n \in rest : /\ FirstOf(rest) = {n}
                          /\ \A e \in rest \ {n} : stop[n]["DELIVERY"].seq < stop[e]["DELIVERY"].seq
    BY <1>3, <1>6, OneFirst
  <2>3. NextInLine(r, d) = {e \in {n} : delivery[e].status = "IN_ROUTE"}
    BY <2>2 DEF NextInLine
  <2>4. \A e \in rest : stop'[e]["DELIVERY"].seq = stop[e]["DELIVERY"].seq
    BY <1>3
  <2>5. n \in Deliveries \ {d} /\ n \in others
    BY <1>2, <1>3, <2>2
  <2> HIDE DEF rest, others
  <2>6. CASE delivery[n].status = "IN_ROUTE"
    <3>1. NextInLine(r, d) = {n}
      BY <2>3, <2>6
    <3>2. delivery'[n].status = "NEXT_STOP"
      BY <1>1, <2>5, <3>1
    <3>3. \A e \in others \ {n} : delivery'[e].status = delivery[e].status
      BY <1>1, <1>2, <3>1 DEF others
    <3>4. \A e \in RouteDeliveries(r) \ {n} : delivery'[e].status # "NEXT_STOP"
      BY <1>1, <1>4, <3>3 DEF others
    <3>5. \A e \in rest \ {n} : /\ delivery'[e].status \in {"IN_ROUTE"} \cup Stuck
                                /\ stop'[n]["DELIVERY"].seq < stop'[e]["DELIVERY"].seq
      BY <1>3, <1>4, <2>2, <2>4, <3>3
    <3> QED
      BY <1>2, <1>3, <1>4, <2>1, <3>2, <3>4, <3>5, Leads
  <2>7. CASE delivery[n].status # "IN_ROUTE"
    <3>1. NextInLine(r, d) = {}
      BY <2>3, <2>7
    <3>2. \A e \in others : delivery'[e].status = delivery[e].status
      BY <1>1, <1>2, <3>1 DEF others
    <3>3. \A x \in RouteDeliveries(r) : delivery'[x].status # "NEXT_STOP"
      BY <1>1, <1>4, <3>2 DEF others
    <3>4. \A e \in rest : delivery'[e].status \in {"IN_ROUTE"} \cup Stuck
      BY <1>3, <1>4, <3>2
    <3>5. delivery'[n].status \in Stuck
      BY <1>4, <2>5, <2>7, <3>2
    <3> QED
      BY <1>2, <1>3, <1>4, <2>1, <3>3, <3>4, <3>5, Waits
  <2> QED
    BY <2>6, <2>7
<1> QED
  BY <1>5, <1>6

\* A step that touches only deliveries of r leaves every other route as it was.
LEMMA Elsewhere ==
  ASSUME NEW s \in Routes, GoesOn(s), RouteDeliveries(s)' = RouteDeliveries(s),
         route'[s].status = route[s].status,
         \A x \in RouteDeliveries(s) : /\ stop'[x]["DELIVERY"] = stop[x]["DELIVERY"]
                                       /\ delivery'[x].status = delivery[x].status
  PROVE  GoesOn(s)'
  BY Drifting DEF DriftsOn

LEMMA CompletedDropGoesOn ==
  ASSUME IInv, InSequence, NEW s \in Routes, GoesOn(s), NEW d \in Deliveries, completeDrop(d)
  PROVE  GoesOn(s)'
<1> DEFINE r == delivery[d].route
<1>0. TypeOK
  BY DEF IInv
<1>1. /\ Advance([x \in {d} \cup NextInLine(r, d) |-> IF x = d THEN <<"DELIVERED">> ELSE <<"NEXT_STOP">>],
                 delivery)
      /\ stop' = [stop EXCEPT ![d]["DELIVERY"].status = "COMPLETED"]
      /\ route' = IF NothingLeft(r, d) THEN [route EXCEPT ![r].status = "COMPLETED"] ELSE route
      /\ delivery[d].status = "NEXT_STOP" /\ r # NoOne
  BY DEF completeDrop, StopIsNext
<1>2. r \in Routes /\ d \in RouteDeliveries(r)
  BY <1>0, <1>1 DEF TypeOK, DeliveryRow, RouteDeliveries
<1>3. /\ \A x \in Deliveries : delivery'[x].route = delivery[x].route
      /\ \A x \in Deliveries \ {d} : IF x \in NextInLine(r, d) THEN delivery'[x].status = "NEXT_STOP"
                                      ELSE delivery'[x] = delivery[x]
      /\ delivery'[d].status = "DELIVERED"
  <2> DEFINE M == NextInLine(r, d)
  <2>1. Advance([x \in {d} \cup M |-> IF x = d THEN <<"DELIVERED">> ELSE <<"NEXT_STOP">>], delivery)
    BY <1>1
  <2> HIDE DEF M
  <2>2. /\ \A x \in Deliveries : delivery'[x].route = delivery[x].route
        /\ \A x \in Deliveries \ {d} : IF x \in M THEN delivery'[x].status = "NEXT_STOP"
                                        ELSE delivery'[x] = delivery[x]
        /\ delivery'[d].status = "DELIVERED"
    BY <2>1 DEF Advance
  <2> QED
    BY <2>2 DEF M
<1>4. /\ \A x \in Deliveries \ {d} : stop'[x] = stop[x]
      /\ stop'[d]["DELIVERY"].status = "COMPLETED"
  BY <1>0, <1>1 DEF TypeOK, StopRow, StopType
<1>5. /\ \A x \in Routes \ {r} : route'[x] = route[x]
      /\ NothingLeft(r, d) => route'[r].status = "COMPLETED"
      /\ ~NothingLeft(r, d) => route'[r].status = route[r].status
  BY <1>0, <1>1, <1>2 DEF TypeOK, RouteRow
<1> HIDE DEF r
<1>6. CASE s = r
  <2>1. \A x \in RouteDeliveries(r) \ {d} : stop'[x]["DELIVERY"] = stop[x]["DELIVERY"]
    BY <1>4 DEF RouteDeliveries
  <2>2. \A x \in Deliveries \ {d} : delivery'[x].status = IF x \in NextInLine(r, d) THEN "NEXT_STOP"
                                                           ELSE delivery[x].status
    BY <1>3
  <2> QED
    BY <1>0, <1>1, <1>2, <1>3, <1>4, <1>5, <1>6, <2>1, <2>2, NextLeaves
<1>7. CASE s # r
  <2>1. \A x \in RouteDeliveries(s) : x \in Deliveries /\ x # d /\ x \notin NextInLine(r, d)
    BY <1>2, <1>7 DEF RouteDeliveries, NextInLine, FirstOf, PendingDrops
  <2>2. RouteDeliveries(s)' = RouteDeliveries(s)
    BY <1>3, DeliveriesOf
  <2> QED
    BY <1>3, <1>4, <1>5, <1>7, <2>1, <2>2, Elsewhere
<1> QED
  BY <1>6, <1>7

LEMMA CancelledGoesOn ==
  ASSUME IInv, InSequence, NEW s \in Routes, GoesOn(s), NEW d \in Deliveries, cancelExternalDelivery(d)
  PROVE  GoesOn(s)'
<1> DEFINE r == delivery[d].route
           S == {e \in NextInLine(r, d) : delivery[d].status = "NEXT_STOP"}
<1>0. TypeOK
  BY DEF IInv
<1>1. /\ Advance([x \in {d} \cup S |-> IF x = d THEN <<"CANCELLED">> ELSE <<"NEXT_STOP">>], delivery)
      /\ stop' = [stop EXCEPT ![d] = [t \in StopType |->
            IF r # NoOne /\ stop[d][t].status = "PENDING"
            THEN [stop[d][t] EXCEPT !.status = "SKIPPED"] ELSE stop[d][t]]]
      /\ route' = [x \in Routes |->
            IF x = r /\ NothingLeft(r, d) /\ route[x].status \in {"DRAFT", "ACTIVE"}
            THEN [route[x] EXCEPT !.status = "CANCELLED"] ELSE route[x]]
  BY DEF cancelExternalDelivery
<1>2. delivery[d].status \in Cancellable
  BY CancelOfOne
<1>3. /\ \A x \in Deliveries : /\ delivery'[x].route = delivery[x].route
                               /\ x # d /\ x \notin S => delivery'[x] = delivery[x]
                               /\ x # d /\ x \in S => delivery'[x].status = "NEXT_STOP"
      /\ delivery'[d].status = "CANCELLED"
  <2> HIDE DEF S
  <2> QED
    BY <1>1 DEF Advance
<1>4. /\ \A x \in Deliveries \ {d} : stop'[x] = stop[x]
      /\ r # NoOne /\ stop[d]["DELIVERY"].status = "PENDING" => stop'[d]["DELIVERY"].status = "SKIPPED"
      /\ stop[d]["DELIVERY"].status # "PENDING" => stop'[d]["DELIVERY"] = stop[d]["DELIVERY"]
  BY <1>0, <1>1 DEF TypeOK, StopRow, StopType
<1>5. /\ \A x \in Routes \ {r} : route'[x] = route[x]
      /\ r \in Routes /\ NothingLeft(r, d) /\ route[r].status \in {"DRAFT", "ACTIVE"}
           => route'[r].status = "CANCELLED"
      /\ r \in Routes /\ ~(NothingLeft(r, d) /\ route[r].status \in {"DRAFT", "ACTIVE"})
           => route'[r].status = route[r].status
  BY <1>0, <1>1 DEF TypeOK, RouteRow
<1>r. d \in RouteDeliveries(r)
  BY DEF RouteDeliveries
<1>s. S \subseteq NextInLine(r, d)
  OBVIOUS
<1> HIDE DEF r
<1>m. RouteDeliveries(s)' = RouteDeliveries(s)
  BY <1>3, DeliveriesOf
<1>6. CASE s # r
  <2>1. \A x \in RouteDeliveries(s) : x \in Deliveries /\ x # d /\ x \notin S
    BY <1>r, <1>s, <1>6 DEF RouteDeliveries, NextInLine, FirstOf, PendingDrops
  <2> HIDE DEF S
  <2> QED
    BY <1>3, <1>4, <1>5, <1>6, <1>m, <2>1, Elsewhere
<1>7. CASE s = r /\ delivery[d].status = "NEXT_STOP"
  <2>1. S = NextInLine(r, d)
    BY <1>7
  <2>2. d \in PendingDrops(r) /\ route[r].status = "ACTIVE" /\ r # NoOne
    BY <1>7, <1>r, RecordsAssumption DEF GoesOn
  <2>3. stop'[d]["DELIVERY"].status = "SKIPPED"
    BY <1>4, <2>2 DEF PendingDrops
  <2>4. \A x \in RouteDeliveries(r) \ {d} : stop'[x]["DELIVERY"] = stop[x]["DELIVERY"]
    BY <1>4 DEF RouteDeliveries
  <2>5. /\ NothingLeft(r, d) => route'[r].status = "CANCELLED"
        /\ ~NothingLeft(r, d) => route'[r].status = route[r].status
    BY <1>5, <1>7, <2>2
  <2> HIDE DEF S
  <2>6. \A x \in Deliveries \ {d} : delivery'[x].status = IF x \in NextInLine(r, d) THEN "NEXT_STOP"
                                                           ELSE delivery[x].status
    BY <1>3, <2>1
  <2> QED
    BY <1>0, <1>3, <1>7, <1>r, <2>3, <2>4, <2>5, <2>6, NextLeaves
<1>8. CASE s = r /\ delivery[d].status # "NEXT_STOP"
  <2> DEFINE rest == PendingDrops(s) \ {d}
  <2>1. S = {}
    BY <1>8
  <2>2. \A x \in RouteDeliveries(s) \ {d} : /\ delivery'[x] = delivery[x]
                                            /\ stop'[x]["DELIVERY"] = stop[x]["DELIVERY"]
    BY <1>3, <1>4, <2>1 DEF RouteDeliveries
  <2>3. r # NoOne
    BY <1>8, RecordsAssumption
  <2>4. stop'[d]["DELIVERY"].status \notin {"PENDING", "NONE"}
    BY <1>4, <1>8, <1>r, <2>3 DEF GoesOn
  <2>5. PendingDrops(s)' = rest
    <3>1. PendingDrops(s)' = {x \in RouteDeliveries(s) : stop'[x]["DELIVERY"].status = "PENDING"}
      BY <1>8, <1>m, Pending
    <3> QED
      BY <2>2, <2>4, <3>1 DEF PendingDrops
  <2>6. \A x \in RouteDeliveries(s) : stop'[x]["DELIVERY"].status # "NONE"
    BY <1>8, <2>2, <2>4 DEF GoesOn
  <2>7. \A x \in RouteDeliveries(s) : delivery'[x].status = "NEXT_STOP" =>
          x # d /\ delivery[x].status = "NEXT_STOP" /\ route[s].status = "ACTIVE" /\ x \in rest
    BY <1>3, <1>8, <2>2 DEF GoesOn
  <2>8. rest \subseteq RouteDeliveries(s) \ {d}
    BY DEF PendingDrops
  <2>9. CASE NothingLeft(s, d) \/ route[s].status # "ACTIVE"
    <3>1. \A x \in RouteDeliveries(s) : delivery'[x].status # "NEXT_STOP"
      BY <2>7, <2>9 DEF NothingLeft
    <3>2. CASE NothingLeft(s, d)
      <4>1. rest = {}
        BY <3>2 DEF NothingLeft
      <4>2. route'[s].status # "ACTIVE"
        BY <1>5, <1>8, <3>2
      <4> QED
        BY <1>8, <1>m, <2>5, <2>6, <3>1, <4>1, <4>2, Closed
    <3>3. CASE ~NothingLeft(s, d)
      <4>1. rest # {} /\ route'[s].status = route[s].status /\ route[s].status # "ACTIVE"
        BY <1>5, <1>8, <2>9, <3>3 DEF NothingLeft
      <4>2. route[s].status \notin {"COMPLETED", "CANCELLED"}
        BY <1>8, <4>1 DEF GoesOn
      <4> QED
        BY <1>8, <1>m, <2>6, <3>1, <4>1, <4>2 DEF GoesOn
    <3> QED
      BY <3>2, <3>3
  <2>10. CASE ~NothingLeft(s, d) /\ route[s].status = "ACTIVE"
    <3>1. route'[s].status = "ACTIVE"
      BY <1>5, <1>8, <2>10
    <3>2. PICK n \in PendingDrops(s) : delivery[n].status \in {"NEXT_STOP"} \cup Stuck
      BY <1>8, <2>10 DEF GoesOn
    <3>3. n # d
      BY <1>2, <1>8, <3>2 DEF Stuck, Back, Cancellable
    <3>4. n \in rest /\ delivery'[n].status \in {"NEXT_STOP"} \cup Stuck
      BY <2>2, <2>8, <3>2, <3>3
    <3>5. \A e \in rest : /\ delivery'[e].status \in {"IN_ROUTE", "NEXT_STOP"} \cup Stuck
                          /\ stop'[e]["DELIVERY"].seq = stop[e]["DELIVERY"].seq
      BY <1>8, <2>2, <2>8, <2>10 DEF GoesOn
    <3>6. \A x \in RouteDeliveries(s) : delivery'[x].status = "NEXT_STOP" =>
            \A e \in RouteDeliveries(s) \ {x} :
              /\ delivery'[e].status # "NEXT_STOP"
              /\ e \in rest => stop'[x]["DELIVERY"].seq < stop'[e]["DELIVERY"].seq
      BY <1>8, <2>7, <3>5 DEF GoesOn
    <3> HIDE DEF rest
    <3> QED
      BY <1>8, <1>m, <2>5, <2>6, <2>7, <3>1, <3>4, <3>5, <3>6 DEF GoesOn
  <2> QED
    BY <2>9, <2>10
<1> QED
  BY <1>6, <1>7, <1>8

\* All leave at once, the first of them as the next stop.
LEMMA StartedGoesOn ==
  ASSUME IInv, InSequence, NEW s \in Routes, GoesOn(s), NEW r \in Routes, startRoute(r)
  PROVE  GoesOn(s)'
<1>0. TypeOK
  BY DEF IInv
<1>1. /\ route[r].status = "DRAFT" /\ PendingDrops(r) # {} /\ UNCHANGED stop
      /\ route' = [route EXCEPT ![r].status = "ACTIVE"]
      /\ Advance([d \in PendingDrops(r) |-> IF d \in FirstOf(PendingDrops(r)) THEN <<"IN_ROUTE", "NEXT_STOP">>
                                            ELSE <<"IN_ROUTE">>], delivery)
  BY DEF startRoute, MayStart
<1>2. /\ route'[r].status = "ACTIVE"
      /\ \A x \in Routes \ {r} : route'[x] = route[x]
  BY <1>0, <1>1 DEF TypeOK, RouteRow
<1>3. \A x \in Deliveries : /\ delivery'[x].route = delivery[x].route
                            /\ x \notin PendingDrops(r) => delivery'[x] = delivery[x]
                            /\ x \in FirstOf(PendingDrops(r)) => delivery'[x].status = "NEXT_STOP"
                            /\ x \in PendingDrops(r) \ FirstOf(PendingDrops(r)) => delivery'[x].status = "IN_ROUTE"
  <2> DEFINE left == PendingDrops(r)
             first == FirstOf(left)
  <2>1. first \subseteq left
    BY DEF FirstOf
  <2>2. Advance([d \in left |-> IF d \in first THEN <<"IN_ROUTE", "NEXT_STOP">> ELSE <<"IN_ROUTE">>], delivery)
    BY <1>1
  <2> HIDE DEF left, first
  <2>3. \A x \in Deliveries : /\ delivery'[x].route = delivery[x].route
                              /\ x \notin left => delivery'[x] = delivery[x]
                              /\ x \in first => delivery'[x].status = "NEXT_STOP"
                              /\ x \in left \ first => delivery'[x].status = "IN_ROUTE"
    BY <2>1, <2>2 DEF Advance
  <2> QED
    BY <2>3 DEF left, first
<1>4. RouteDeliveries(s)' = RouteDeliveries(s) /\ RouteDeliveries(s) \subseteq Deliveries
  BY <1>3, DeliveriesOf DEF RouteDeliveries
<1>5. CASE s # r
  <2>1. \A x \in RouteDeliveries(s) : x \in Deliveries /\ x \notin PendingDrops(r)
    BY <1>5 DEF RouteDeliveries, PendingDrops
  <2> QED
    BY <1>1, <1>2, <1>3, <1>4, <1>5, <2>1, Elsewhere
<1>6. CASE s = r
  <2>1. PendingDrops(r)' = PendingDrops(r) /\ PendingDrops(r) \subseteq RouteDeliveries(r)
    BY <1>1, <1>4, <1>6, Pending DEF PendingDrops
  <2>2. PICK n \in PendingDrops(r) :
           /\ FirstOf(PendingDrops(r)) = {n}
           /\ \A e \in PendingDrops(r) \ {n} : stop[n]["DELIVERY"].seq < stop[e]["DELIVERY"].seq
    BY <1>0, <1>1, <2>1, OneFirst
  <2>3. \A x \in RouteDeliveries(r) : stop[x]["DELIVERY"].status # "NONE" /\ delivery[x].status # "NEXT_STOP"
    BY <1>1, <1>6 DEF GoesOn
  <2>4. delivery'[n].status = "NEXT_STOP"
    BY <1>3, <1>4, <1>6, <2>1, <2>2
  <2>5. \A e \in RouteDeliveries(r) \ {n} : delivery'[e].status # "NEXT_STOP"
    BY <1>3, <1>4, <1>6, <2>2, <2>3
  <2>6. \A e \in PendingDrops(r) \ {n} : delivery'[e].status = "IN_ROUTE"
    BY <1>3, <1>4, <1>6, <2>1, <2>2
  <2> QED
    BY <1>1, <1>2, <1>4, <1>6, <2>1, <2>2, <2>3, <2>4, <2>5, <2>6, Leads
<1> QED
  BY <1>5, <1>6

\* The urgent destination is first and alone the next stop.
LEMMA PrioritizedGoesOn ==
  ASSUME IInv, InSequence, NEW s \in Routes, GoesOn(s), NEW d \in Deliveries, prioritizeRouteStop(d)
  PROVE  GoesOn(s)'
<1> DEFINE r == delivery[d].route
           left == PendingDrops(r)
           demoted == {e \in FirstOf(left) : delivery[e].status = "NEXT_STOP"}
<1>0. TypeOK
  BY DEF IInv
<1>1. /\ route[r].status = "ACTIVE" /\ d \in left /\ delivery[d].status = "IN_ROUTE" /\ route' = route
      /\ Advance([x \in {d} \cup demoted |-> IF x = d THEN <<"NEXT_STOP">> ELSE <<"IN_ROUTE">>], delivery)
  BY DEF prioritizeRouteStop
<1>2. PICK f \in Prioritized(d, left) : stop' = Resequenced([k \in left \X {"DELIVERY"} |-> f[k[1]]])
  BY DEF prioritizeRouteStop
<1>3. \A x \in Deliveries : /\ delivery'[x].route = delivery[x].route
                            /\ x = d => delivery'[x].status = "NEXT_STOP"
                            /\ x # d /\ x \notin demoted => delivery'[x] = delivery[x]
                            /\ x # d /\ x \in demoted => delivery'[x].status = "IN_ROUTE"
  <2> HIDE DEF demoted
  <2> QED
    BY <1>1 DEF Advance
<1>4. \A x \in Deliveries : /\ stop'[x]["DELIVERY"].status = stop[x]["DELIVERY"].status
                            /\ stop'[x]["DELIVERY"].seq = IF x \in left THEN f[x] ELSE stop[x]["DELIVERY"].seq
  <2> DEFINE F == [k \in left \X {"DELIVERY"} |-> f[k[1]]]
  <2>1. \A x \in Deliveries : /\ <<x, "DELIVERY">> \in DOMAIN F <=> x \in left
                              /\ x \in left => F[<<x, "DELIVERY">>] = f[x]
    OBVIOUS
  <2>2. "DELIVERY" \in StopType /\ stop' = Resequenced(F)
    BY <1>2 DEF StopType
  <2> HIDE DEF F, left
  <2> QED
    BY <1>0, <2>1, <2>2, ResequencedStops
<1>5. RouteDeliveries(s)' = RouteDeliveries(s) /\ RouteDeliveries(s) \subseteq Deliveries
  BY <1>3, DeliveriesOf DEF RouteDeliveries
<1>6. /\ left = PendingDrops(r) /\ demoted \subseteq left /\ left \subseteq RouteDeliveries(r)
      /\ \A x \in RouteDeliveries(r) : delivery[x].route = r
  BY DEF PendingDrops, FirstOf, RouteDeliveries
<1>7. CASE s # r
  <2> HIDE DEF demoted, left, r
  <2>1. \A x \in RouteDeliveries(s) : x \in Deliveries /\ x \notin left
    BY <1>6, <1>7 DEF RouteDeliveries
  <2>2. \A x \in RouteDeliveries(s) : /\ stop'[x]["DELIVERY"].status = stop[x]["DELIVERY"].status
                                      /\ stop'[x]["DELIVERY"].seq = stop[x]["DELIVERY"].seq
    BY <1>4, <2>1
  <2>3. \A x \in RouteDeliveries(s) : delivery'[x] = delivery[x]
    BY <1>1, <1>3, <1>6, <2>1
  <2>4. DriftsOn(s)
    BY <1>1, <1>5, <2>2, <2>3 DEF DriftsOn
  <2> QED
    BY <2>4, Drifting
<1>8. CASE s = r
  <2>1. \A e \in RouteDeliveries(s) : delivery[e].status = "NEXT_STOP" => e \in demoted
    <3>1. ASSUME NEW e \in RouteDeliveries(s), delivery[e].status = "NEXT_STOP" PROVE e \in demoted
      <4>1. e \in left /\ \A h \in left \ {e} : stop[e]["DELIVERY"].seq < stop[h]["DELIVERY"].seq
        BY <1>6, <1>8, <3>1 DEF GoesOn
      <4>2. \A h \in left : stop[h]["DELIVERY"].seq \in Nat
        BY <1>0, <1>5, <1>6, <1>8 DEF TypeOK, StopRow, StopType
      <4>3. \A h \in left : stop[e]["DELIVERY"].seq <= stop[h]["DELIVERY"].seq
        BY <4>1, <4>2
      <4> QED
        BY <3>1, <4>1, <4>3 DEF FirstOf
    <3> QED
      BY <3>1
  <2>2. /\ \A e \in left : f[d] <= f[e]
        /\ \A e, h \in left : f[e] = f[h] => e = h
        /\ \A e \in left : f[e] \in Nat
    <3>1. /\ \A e \in left : f[d] <= f[e]
          /\ f \in [left -> {stop[e]["DELIVERY"].seq : e \in left}]
          /\ \A e, h \in left : f[e] = f[h] => e = h
      BY DEF Prioritized, Bijection, Injection, IsInjective
    <3>2. \A h \in left : stop[h]["DELIVERY"].seq \in Nat
      BY <1>0, <1>5, <1>6, <1>8 DEF TypeOK, StopRow, StopType
    <3> HIDE DEF left
    <3>3. \A e \in left : f[e] \in Nat
      BY <3>1, <3>2
    <3> QED
      BY <3>1, <3>3
  <2> HIDE DEF demoted, left, r
  <2>3. PendingDrops(s)' = PendingDrops(s) /\ left = PendingDrops(s)
    BY <1>4, <1>5, <1>6, <1>8, Pending DEF PendingDrops
  <2>4. d \in RouteDeliveries(s) /\ d \in PendingDrops(s)' /\ delivery'[d].status = "NEXT_STOP"
    BY <1>1, <1>3, <1>6, <1>8, <2>3
  <2>5. \A e \in RouteDeliveries(s) \ {d} : delivery'[e].status # "NEXT_STOP"
    BY <1>3, <1>5, <2>1
  <2>6. \A x \in RouteDeliveries(s) : stop'[x]["DELIVERY"].status # "NONE"
    BY <1>4, <1>5 DEF GoesOn
  <2>7. ASSUME NEW e \in left \ {d}
        PROVE  /\ delivery'[e].status \in {"IN_ROUTE"} \cup Stuck
               /\ stop'[d]["DELIVERY"].seq < stop'[e]["DELIVERY"].seq
    <3>1. e \in RouteDeliveries(s) /\ e \in Deliveries /\ d \in Deliveries /\ d \in left
      BY <1>1, <1>5, <1>6, <1>8
    <3>2. f[d] \in Nat /\ f[e] \in Nat /\ f[d] # f[e] /\ f[d] <= f[e]
      BY <2>2, <3>1
    <3>3. f[d] < f[e]
      BY <3>2
    <3>4. stop'[d]["DELIVERY"].seq < stop'[e]["DELIVERY"].seq
      BY <1>4, <3>1, <3>3
    <3>5. delivery[e].status \in {"IN_ROUTE", "NEXT_STOP"} \cup Stuck
      BY <1>1, <1>8, <2>3 DEF GoesOn
    <3>6. delivery'[e].status \in {"IN_ROUTE"} \cup Stuck
      BY <1>3, <2>1, <3>1, <3>5
    <3> QED
      BY <3>4, <3>6
  <2>8. route'[s].status = "ACTIVE"
    BY <1>1, <1>8
  <2> QED
    BY <1>5, <2>3, <2>4, <2>5, <2>6, <2>7, <2>8, Leads
<1> QED
  BY <1>7, <1>8

\* Stops are only given other places while the route is a draft.
LEMMA ResequencedGoesOn ==
  ASSUME IInv, NEW s \in Routes, GoesOn(s), NEW r \in Routes, route[r].status = "DRAFT",
         UNCHANGED <<delivery, route>>, NEW f, stop' = Resequenced(f), DOMAIN f \subseteq RouteStops(r)
  PROVE  GoesOn(s)'
<1>0. TypeOK
  BY DEF IInv
<1>1. RouteDeliveries(s)' = RouteDeliveries(s) /\ RouteDeliveries(s) \subseteq Deliveries
  BY DEF RouteDeliveries
<1>2. \A x \in RouteDeliveries(s) : /\ stop'[x]["DELIVERY"].status = stop[x]["DELIVERY"].status
                                    /\ stop'[x]["DELIVERY"].seq = IF <<x, "DELIVERY">> \in DOMAIN f
                                         THEN f[<<x, "DELIVERY">>] ELSE stop[x]["DELIVERY"].seq
  <2>1. "DELIVERY" \in StopType
    BY DEF StopType
  <2> QED
    BY <1>0, <1>1, <2>1, ResequencedStops
<1>3. CASE s = r
  <2>1. \A x \in RouteDeliveries(s) : stop[x]["DELIVERY"].status # "NONE" /\ delivery[x].status # "NEXT_STOP"
    BY <1>3 DEF GoesOn
  <2> QED
    BY <1>1, <1>2, <1>3, <2>1, InDraft
<1>4. CASE s # r
  <2>1. \A x \in RouteDeliveries(s) : <<x, "DELIVERY">> \notin DOMAIN f
    BY <1>4 DEF RouteStops, RouteDeliveries
  <2>2. DriftsOn(s)
    BY <1>1, <1>2, <2>1 DEF DriftsOn
  <2> QED
    BY <2>2, Drifting
<1> QED
  BY <1>3, <1>4

LEMMA CreatedGoesOn ==
  ASSUME IInv, NEW s \in Routes, GoesOn(s), NEW r \in Routes, NEW c, NEW S \in SUBSET Deliveries, NEW order,
         createRoute(r, c, S, order)
  PROVE  GoesOn(s)'
<1>0. TypeOK /\ Custody
  BY DEF IInv
<1>1. /\ \A x \in Deliveries : delivery'[x].route = IF x \in S THEN r ELSE delivery[x].route
      /\ \A x \in S : /\ delivery[x].route = NoOne /\ delivery'[x].status = "AWAITING_PICKUP"
                      /\ stop'[x]["DELIVERY"].status = "PENDING"
      /\ \A x \in Deliveries \ S : delivery'[x] = delivery[x] /\ stop'[x] = stop[x]
      /\ route[r].status = "NONE"
  BY DEF createRoute, Advance, StopType
<1>2. route'[r].status = "DRAFT" /\ \A x \in Routes \ {r} : route'[x] = route[x]
  BY <1>0 DEF createRoute, TypeOK, RouteRow
<1>3. \A x \in Deliveries : delivery[x].route # r
  BY <1>0, <1>1, RecordsAssumption DEF Custody
<1>4. CASE s = r
  <2>1. RouteDeliveries(s)' \subseteq S
    BY <1>1, <1>3, <1>4 DEF RouteDeliveries
  <2> QED
    BY <1>1, <1>2, <1>4, <2>1, InDraft
<1>5. CASE s # r
  <2>1. RouteDeliveries(s)' = RouteDeliveries(s) /\ RouteDeliveries(s) \subseteq Deliveries \ S
    <3>1. \A x \in Deliveries : delivery'[x].route = s <=> delivery[x].route = s
      BY <1>1, <1>5, RecordsAssumption
    <3>2. RouteDeliveries(s)' = RouteDeliveries(s)
      BY <3>1 DEF RouteDeliveries
    <3>3. \A x \in S : delivery[x].route # s
      BY <1>1, RecordsAssumption
    <3> QED
      BY <3>2, <3>3 DEF RouteDeliveries
  <2> QED
    BY <1>1, <1>2, <1>5, <2>1, Elsewhere
<1> QED
  BY <1>4, <1>5

LEMMA PickedUpGoesOn ==
  ASSUME IInv, NEW s \in Routes, GoesOn(s), NEW d \in Deliveries, completePickup(d)
  PROVE  GoesOn(s)'
<1>0. TypeOK
  BY DEF IInv
<1>1. /\ \A x \in Deliveries : /\ delivery'[x].route = delivery[x].route
                               /\ x # d => delivery'[x] = delivery[x]
                               /\ x = d => delivery'[x].status = "COLLECTED"
      /\ route' = route /\ route[delivery[d].route].status = "DRAFT"
  BY DEF completePickup, Advance
<1>2. \A x \in Deliveries : stop'[x]["DELIVERY"] = stop[x]["DELIVERY"]
  BY <1>0 DEF completePickup, TypeOK, StopRow, StopType
<1>3. RouteDeliveries(s)' = RouteDeliveries(s) /\ RouteDeliveries(s) \subseteq Deliveries
  BY <1>1, DeliveriesOf DEF RouteDeliveries
<1>4. CASE route[s].status = "DRAFT"
  <2>1. \A x \in RouteDeliveries(s) : stop[x]["DELIVERY"].status # "NONE" /\ delivery[x].status # "NEXT_STOP"
    BY <1>4 DEF GoesOn
  <2> QED
    BY <1>1, <1>2, <1>3, <1>4, <2>1, InDraft
<1>5. CASE route[s].status # "DRAFT"
  <2>1. \A x \in RouteDeliveries(s) : x # d
    BY <1>1, <1>5 DEF RouteDeliveries
  <2> QED
    BY <1>1, <1>2, <1>3, <2>1, Elsewhere
<1> QED
  BY <1>4, <1>5

\* What else happens to a delivery inside a route leaves the stops and the others alone.
Single(x) ==
  delivery[x].route # NoOne => delivery'[x].status \in Stuck \cup {delivery[x].status}

LEMMA SinglesGoOn ==
  ASSUME NEW s \in Routes, GoesOn(s), Unmoving, UNCHANGED <<stop, route>>,
         \A x \in Deliveries : Single(x)
  PROVE  GoesOn(s)'
<1>1. RouteDeliveries(s)' = RouteDeliveries(s)
  BY DeliveriesOf DEF Unmoving
<1>2. \A x \in RouteDeliveries(s) : delivery'[x].status \in Stuck \cup {delivery[x].status}
  BY RecordsAssumption DEF RouteDeliveries, Single
<1>3. DriftsOn(s)
  BY <1>1, <1>2 DEF DriftsOn
<1> QED
  BY <1>3, Drifting

LEMMA TransitionSingle ==
  ASSUME NEW d, NEW target, applyTransition(d, target), NEW x \in Deliveries,
         target \in Stuck \/ (d \in Deliveries => delivery[d].route = NoOne)
  PROVE  Single(x)
  BY OneTransition DEF Single

\* Nobody waits for a courier inside a route.
LEMMA WaitingOutside ==
  ASSUME IInv, NEW x \in Deliveries, delivery[x].status \in Waiting \cup {"ASSIGNED"}
  PROVE  delivery[x].route = NoOne
  BY DEF IInv, Custody, Waiting

LEMMA SingleHandlers ==
  ASSUME IInv, NEW x \in Deliveries,
         \/ DeliveriesNext /\ ~\E d \in Deliveries : cancelExternalDelivery(d)
         \/ MarketplaceNext
         \/ IncidentsNext
  PROVE  Single(x) /\ UNCHANGED <<stop, route>>
<1>0. TypeOK
  BY DEF IInv
<1>s. delivery'[x] = delivery[x] => Single(x)
  BY DEF Single
<1>1. ASSUME NEW d \in Deliveries,
             \/ createDelivery(d)
             \/ releaseDelivery(d)
             \/ \E c \in Couriers : assignDelivery(d, c)
             \/ unassignDelivery(d)
             \/ \E target \in {"COLLECTED", "IN_ROUTE"} : pickupTransition(d, target)
             \/ completeDelivery(d)
             \/ \E i \in Incidents : failDelivery(d, i)
             \/ cancelDelivery(d)
      PROVE  Single(x) /\ UNCHANGED <<stop, route>>
  <2>1. CASE createDelivery(d)
    <3>1. delivery[d].route = NoOne
      BY <2>1, WaitingOutside DEF createDelivery, Exists, Waiting
    <3>2. x # d => delivery'[x] = delivery[x]
      BY <2>1, <1>0 DEF createDelivery, TypeOK
    <3> QED
      BY <2>1, <3>1, <3>2, <1>s DEF createDelivery, Single, routeVars
  <2>2. CASE releaseDelivery(d)
    <3>1. delivery[d].route = NoOne
      BY <2>2, WaitingOutside DEF releaseDelivery, Waiting
    <3> QED
      BY <2>2, <3>1, TransitionSingle DEF releaseDelivery, routeVars
  <2>3. ASSUME NEW c \in Couriers, assignDelivery(d, c) PROVE Single(x) /\ UNCHANGED <<stop, route>>
    <3>1. delivery[d].status \in Waiting
      BY <2>3 DEF assignDelivery, allowedTransitions, Cancellable, Waiting
    <3>2. delivery[d].route = NoOne
      BY <3>1, WaitingOutside
    <3>3. x # d => delivery'[x] = delivery[x]
      BY <2>3 DEF assignDelivery, Advance
    <3> QED
      BY <2>3, <3>2, <3>3, <1>s DEF assignDelivery, Single, routeVars
  <2>4. CASE unassignDelivery(d)
    <3>1. delivery[d].route = NoOne /\ (x # d => delivery'[x] = delivery[x])
      BY <2>4 DEF unassignDelivery, Advance
    <3> QED
      BY <2>4, <3>1, <1>s DEF unassignDelivery, Single, routeVars
  <2>5. ASSUME NEW target, pickupTransition(d, target) PROVE Single(x) /\ UNCHANGED <<stop, route>>
    BY <2>5, TransitionSingle DEF pickupTransition, routeVars
  <2>6. CASE completeDelivery(d)
    BY <2>6, TransitionSingle DEF completeDelivery, routeVars
  <2>7. ASSUME NEW i \in Incidents, failDelivery(d, i) PROVE Single(x) /\ UNCHANGED <<stop, route>>
    BY <2>7, TransitionSingle DEF failDelivery, routeVars, Stuck, Back
  <2>8. CASE cancelDelivery(d)
    BY <2>8, TransitionSingle DEF cancelDelivery, routeVars, Stuck
  <2> QED
    BY <1>1, <2>1, <2>2, <2>3, <2>4, <2>5, <2>6, <2>7, <2>8
<1>2. ASSUME MarketplaceNext PROVE Single(x) /\ UNCHANGED <<stop, route>>
  <2>1. ASSUME NEW o \in Offers, NEW c \in Couriers, acceptDeliveryOffer(o, c)
        PROVE  Single(x) /\ UNCHANGED <<stop, route>>
    <3>1. CASE x = offer[o].delivery
      <4>1. delivery[x].route = NoOne
        BY <2>1, <3>1, AcceptanceOfOne, WaitingOutside DEF Waiting
      <4> QED
        BY <2>1, <4>1 DEF acceptDeliveryOffer, Single, routeVars
    <3>2. CASE x # offer[o].delivery
      <4>1. delivery'[x] = delivery[x]
        BY <2>1, <3>2, AcceptanceOfOne
      <4> QED
        BY <2>1, <4>1, <1>s DEF acceptDeliveryOffer, routeVars
    <3> QED
      BY <3>1, <3>2
  <2>2. ASSUME NEW o \in Offers, NEW byStore, NEW compensation,
               cancelDeliveryOffer(o, byStore, compensation)
        PROVE  Single(x) /\ UNCHANGED <<stop, route>>
    <3>1. UNCHANGED <<stop, route>>
      BY <2>2 DEF cancelDeliveryOffer, routeVars
    <3>2. CASE offer[o].status = "ACCEPTED" /\ x = offer[o].delivery
      <4>1. o \in ActiveOffers(x)
        BY <3>2 DEF ActiveOffers
      <4>2. delivery[x].route = NoOne
        BY <4>1 DEF IInv, Custody
      <4> QED
        BY <3>1, <4>2 DEF Single
    <3>3. CASE ~(offer[o].status = "ACCEPTED" /\ x = offer[o].delivery)
      BY <2>2, <3>1, <3>3, <1>s, GivingBackOfOne
    <3> QED
      BY <3>2, <3>3
  <2>3. UNCHANGED <<delivery, routeVars>> => Single(x) /\ UNCHANGED <<stop, route>>
    BY <1>s DEF routeVars
  <2> QED
    BY <1>2, <2>1, <2>2, <2>3
       DEF MarketplaceNext, createDeliveryOffer, reviseDeliveryOfferPrice, OfferLapses, expireDeliveryOffers
<1>3. ASSUME IncidentsNext PROVE Single(x) /\ UNCHANGED <<stop, route>>
  <2>1. ASSUME NEW i, startReturn(i) \/ completeReturn(i) PROVE Single(x) /\ UNCHANGED <<stop, route>>
    BY <2>1, TransitionSingle DEF startReturn, completeReturn, routeVars, Stuck, Back
  <2>2. UNCHANGED <<delivery, routeVars>> => Single(x) /\ UNCHANGED <<stop, route>>
    BY <1>s DEF routeVars
  <2> QED
    BY <1>3, <2>1, <2>2 DEF IncidentsNext, openIncident, reviewIncident, resolveIncident
<1>4. ASSUME DeliveriesNext, ~\E d \in Deliveries : cancelExternalDelivery(d)
      PROVE  Single(x) /\ UNCHANGED <<stop, route>>
  <2>1. PICK d \in Deliveries :
          \/ createDelivery(d)
          \/ releaseDelivery(d)
          \/ \E c \in Couriers : assignDelivery(d, c)
          \/ unassignDelivery(d)
          \/ \E target \in {"COLLECTED", "IN_ROUTE"} : pickupTransition(d, target)
          \/ completeDelivery(d)
          \/ \E i \in Incidents : failDelivery(d, i)
          \/ cancelDelivery(d)
    BY <1>4 DEF DeliveriesNext
  <2> QED
    BY <1>1, <2>1
<1> QED
  BY <1>2, <1>3, <1>4

-----------------------------------------------------------------------------
LEMMA ProgressStep ==
  ASSUME IInv, Progress, [Next]_vars
  PROVE  Progress'
<1>0. TypeOK /\ InSequence
  BY DEF IInv, Progress
<1> SUFFICES ASSUME NEW s \in Routes PROVE GoesOn(s)'
  BY <1>0, SequenceStep DEF Progress
<1>1. GoesOn(s)
  BY DEF Progress
<1>2. CASE UNCHANGED vars
  BY <1>1, <1>2, SinglesGoOn DEF vars, Unmoving, Single
<1>3. CASE \/ DeliveriesNext /\ ~\E d \in Deliveries : cancelExternalDelivery(d)
           \/ MarketplaceNext
           \/ IncidentsNext
  <2>1. Unmoving
    BY <1>0, <1>3, HandlersUnmoving
  <2>2. \A x \in Deliveries : Single(x) /\ UNCHANGED <<stop, route>>
    BY <1>3, SingleHandlers
  <2>3. UNCHANGED <<stop, route>>
    <3>1. CASE DeliveriesNext /\ ~\E d \in Deliveries : cancelExternalDelivery(d)
      BY <2>2, <3>1 DEF DeliveriesNext
    <3>2. CASE MarketplaceNext
      BY <3>2 DEF MarketplaceNext, createDeliveryOffer, acceptDeliveryOffer, reviseDeliveryOfferPrice,
                  cancelDeliveryOffer, OfferLapses, expireDeliveryOffers, routeVars
    <3>3. CASE IncidentsNext
      BY <3>3 DEF IncidentsNext, openIncident, reviewIncident, resolveIncident, startReturn,
                  completeReturn, routeVars
    <3> QED
      BY <1>3, <3>1, <3>2, <3>3
  <2> QED
    BY <1>1, <2>1, <2>2, <2>3, SinglesGoOn
<1>4. ASSUME NEW d \in Deliveries, cancelExternalDelivery(d) PROVE GoesOn(s)'
  BY <1>0, <1>1, <1>4, CancelledGoesOn
<1>5. CASE RoutesNext
  <2>1. ASSUME NEW r \in Routes, NEW c \in Couriers, NEW S \in SUBSET Deliveries, NEW order,
               createRoute(r, c, S, order)
        PROVE  GoesOn(s)'
    BY <1>1, <2>1, CreatedGoesOn
  <2>2. ASSUME NEW r \in Routes, NEW stopIds, reorderRoute(r, stopIds) PROVE GoesOn(s)'
    <3>1. \E f : stop' = Resequenced(f) /\ DOMAIN f = RouteStops(r)
      <4> DEFINE places(k) == {i \in DOMAIN stopIds : stopIds[i] = k}
                 f == [k \in RouteStops(r) |-> CHOOSE i \in places(k) : \A j \in places(k) : i >= j]
      <4>1. stop' = Resequenced(f)
        BY <2>2 DEF reorderRoute
      <4>2. DOMAIN f = RouteStops(r)
        OBVIOUS
      <4> HIDE DEF f
      <4> QED
        BY <4>1, <4>2
    <3>2. route[r].status = "DRAFT" /\ UNCHANGED <<delivery, route>>
      BY <2>2 DEF reorderRoute
    <3> QED
      BY <1>1, <3>1, <3>2, ResequencedGoesOn
  <2>3. ASSUME NEW r \in Routes, NEW q, optimizeRoute(r, q) PROVE GoesOn(s)'
    <3>1. UNCHANGED <<delivery, route, stop>>
      BY <2>3 DEF optimizeRoute
    <3> QED
      BY <1>1, <3>1, Elsewhere DEF RouteDeliveries
  <2>4. ASSUME NEW r \in Routes, applyRouteSuggestion(r) PROVE GoesOn(s)'
    <3>1. /\ route[r].status = "DRAFT" /\ UNCHANGED <<delivery, route>>
          /\ stop' = Resequenced(plan[r]) /\ plan[r] # <<>>
      BY <2>4 DEF applyRouteSuggestion
    <3>2. DOMAIN plan[r] = RouteStops(r)
      BY <1>0, <3>1 DEF InSequence, Orderly
    <3> QED
      BY <1>1, <3>1, <3>2, ResequencedGoesOn
  <2>5. ASSUME NEW r \in Routes, startRoute(r) PROVE GoesOn(s)'
    BY <1>0, <1>1, <2>5, StartedGoesOn
  <2>6. ASSUME NEW d \in Deliveries, completePickup(d) PROVE GoesOn(s)'
    BY <1>1, <2>6, PickedUpGoesOn
  <2>7. ASSUME NEW d \in Deliveries, completeDrop(d) PROVE GoesOn(s)'
    BY <1>0, <1>1, <2>7, CompletedDropGoesOn
  <2>8. ASSUME NEW d \in Deliveries, prioritizeRouteStop(d) PROVE GoesOn(s)'
    BY <1>0, <1>1, <2>8, PrioritizedGoesOn
  <2> QED
    BY <1>5, <2>1, <2>2, <2>3, <2>4, <2>5, <2>6, <2>7, <2>8 DEF RoutesNext
<1>6. CASE CustomersNext
  <2>1. \A x \in Deliveries : Single(x)
    BY <1>0, <1>6, OnlyVersions DEF Single
  <2> QED
    BY <1>0, <1>1, <1>6, <2>1, CustomersUnmoving, SinglesGoOn
<1> QED
  BY <1>2, <1>3, <1>4, <1>5, <1>6 DEF Next

LEMMA ProgressAlways == Spec => [](IInv /\ Told /\ Progress)
<1>1. ASSUME Init PROVE Progress
  <2>1. \A r \in Routes : RouteDeliveries(r) = {} /\ RouteStops(r) = {} /\ PendingDrops(r) = {}
    BY <1>1, RecordsAssumption DEF Init, NoDelivery, RouteDeliveries, RouteStops, PendingDrops
  <2>2. ASSUME NEW r \in Routes PROVE Orderly(r, Places(r)) /\ plan[r] = <<>>
    <3>1. Places(r) \in [RouteStops(r) -> Nat]
      BY <2>1 DEF Places
    <3> QED
      BY <1>1, <2>1, <3>1 DEF Init, Orderly
  <2>3. \A r \in Routes : GoesOn(r)
    BY <1>1, <2>1 DEF Init, NoRoute, GoesOn
  <2> QED
    BY <2>2, <2>3 DEF Progress, InSequence
<1>2. IInv /\ Progress /\ [Next]_vars => Progress'
  BY ProgressStep
<1> QED
  BY <1>1, <1>2, ToldAlways, PTL DEF Spec

(* Whatever order clients ask for, suggestions, urgency and cancellations  *)
(* included: a route is always going somewhere and ends with nothing left. *)
LEMMA Onward == IInv /\ Told /\ Progress => NextStopIsFirst /\ ActiveRouteGoesOn /\ ClosedRouteIsDone
<1> SUFFICES ASSUME IInv, Told, Progress
             PROVE  NextStopIsFirst /\ ActiveRouteGoesOn /\ ClosedRouteIsDone
  OBVIOUS
<1>1. \A d \in Deliveries : delivery[d].route \in Routes \cup {NoOne}
  BY DEF IInv, TypeOK, DeliveryRow
<1>2. \A r \in Routes : GoesOn(r)
  BY DEF Progress
<1>3. NextStopIsFirst
  BY <1>1, <1>2 DEF NextStopIsFirst, GoesOn, RouteDeliveries
<1>4. ActiveRouteGoesOn
  BY <1>2 DEF ActiveRouteGoesOn, GoesOn, PendingDrops, Stuck, Back
<1>5. ClosedRouteIsDone
  <2> SUFFICES ASSUME NEW r \in Routes, route[r].status \in {"COMPLETED", "CANCELLED"},
                      NEW d \in RouteDeliveries(r)
               PROVE  delivery[d].status \in {"DELIVERED", "CANCELLED"}
    BY DEF ClosedRouteIsDone
  <2>1. d \in Deliveries /\ delivery[d].route = r /\ r # NoOne
    BY RecordsAssumption DEF RouteDeliveries
  <2>2. stop[d]["DELIVERY"].status \notin {"PENDING", "NONE"}
    BY <1>2 DEF GoesOn, PendingDrops
  <2>3. stop[d]["DELIVERY"].status \in {"COMPLETED", "SKIPPED"}
    BY <2>1, <2>2 DEF IInv, TypeOK, StopRow, StopStatus, StopType
  <2> QED
    BY <2>1, <2>3 DEF Told, StopTrue, StopType
<1> QED
  BY <1>3, <1>4, <1>5

\* Distinct places among the first ones are all of them.
LEMMA AllPlaces ==
  ASSUME NEW S, IsFiniteSet(S), NEW f \in [S -> 1 .. Cardinality(S)],
         \A j, k \in S : f[j] = f[k] => j = k
  PROVE  {f[k] : k \in S} = 1 .. Cardinality(S)
<1> DEFINE n == Cardinality(S)
<1>1. n \in Nat
  BY FS_CardinalityType
<1>2. IsFiniteSet(1 .. n) /\ Cardinality(1 .. n) = n
  BY <1>1, FS_Interval
<1>3. f \in Injection(S, 1 .. n)
  BY DEF Injection, IsInjective
<1> HIDE DEF n
<1>4. Cardinality(S) = Cardinality(1 .. n)
  BY <1>2 DEF n
<1>5. f \in Surjection(S, 1 .. n)
  BY <1>2, <1>3, <1>4, FS_Injection
<1>6. \A i \in 1 .. n : \E k \in S : f[k] = i
  BY <1>5 DEF Surjection
<1> QED
  BY <1>6 DEF n

(* Pickups first, at the places 1 .. 2n, while no client repeats ids.      *)
LEMMA PickupsFirst == IInv /\ Progress /\ ~RepeatedIds => PickupsComeFirst
<1> SUFFICES ASSUME InSequence, ~RepeatedIds, NEW r \in Routes
             PROVE  /\ {Sequence(k) : k \in RouteStops(r)} = 1 .. Cardinality(RouteStops(r))
                    /\ \A d, e \in RouteDeliveries(r) : stop[d]["PICKUP"].seq < stop[e]["DELIVERY"].seq
  BY DEF PickupsComeFirst, Progress
<1> DEFINE f == Places(r)
<1>1. /\ \A j, k \in RouteStops(r) : f[j] = f[k] => j = k
      /\ f \in [RouteStops(r) -> 1 .. Cardinality(RouteStops(r))]
      /\ \A d, e \in RouteDeliveries(r) : f[<<d, "PICKUP">>] < f[<<e, "DELIVERY">>]
  BY DEF InSequence, Orderly
<1>2. \A k \in RouteStops(r) : f[k] = Sequence(k)
  BY DEF Places
<1>3. \A d \in RouteDeliveries(r) : <<d, "PICKUP">> \in RouteStops(r) /\ <<d, "DELIVERY">> \in RouteStops(r)
  BY DEF RouteStops, StopType
<1> HIDE DEF f
<1>4. {f[k] : k \in RouteStops(r)} = 1 .. Cardinality(RouteStops(r))
  BY <1>1, StopCount, AllPlaces
<1>5. {Sequence(k) : k \in RouteStops(r)} = {f[k] : k \in RouteStops(r)}
  BY <1>2
<1>6. \A d, e \in RouteDeliveries(r) : stop[d]["PICKUP"].seq < stop[e]["DELIVERY"].seq
  BY <1>1, <1>2, <1>3 DEF Sequence
<1> QED
  BY <1>4, <1>5, <1>6

(* Whatever order clients ask for, repeated ids, suggestions, urgency and  *)
(* cancellations included: while a route is active its next stop is the    *)
(* first that is pending, or one that is stuck waits to be resolved, and a *)
(* closed route leaves nothing behind.                                     *)
THEOREM RoutesGoOn == Spec => [](NextStopIsFirst /\ ActiveRouteGoesOn /\ ClosedRouteIsDone)
  BY ProgressAlways, Onward, PTL

(* As long as clients do not repeat stop ids, every route also visits its  *)
(* pickups before its destinations, at the places 1 .. 2n.                 *)
THEOREM RoutesAdvanceInOrder == ASSUME ~RepeatedIds PROVE Spec => []RoutesAdvance
<1>1. IInv /\ Told /\ Progress => RoutesAdvance
  BY Onward, PickupsFirst DEF RoutesAdvance
<1> QED
  BY <1>1, ProgressAlways, PTL

=============================================================================

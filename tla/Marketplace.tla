---------------------------- MODULE Marketplace ----------------------------
(***************************************************************************)
(* The marketplace handlers of offer.service.ts.  Accepting serialises the *)
(* offers of one courier (advisory lock) and of one delivery (row locks),  *)
(* so each handler is one step.                                            *)
(***************************************************************************)
EXTENDS DispatchRecords

(* createDeliveryOffer: the candidates are among the couriers that are not *)
(* busy; distance, availability, preferences and eligibility choose which. *)
(* A second active offer for the delivery breaks the partial unique index  *)
(* of migration 0014 and rolls back.                                       *)
createDeliveryOffer(o, d, S, p) ==
  /\ offer[o].status = "NONE"
  /\ delivery[d].status = "AWAITING_COURIER"
  /\ ActiveOffers(d) = {}
  /\ \A c \in S : ~Busy(c)
  /\ offer' = [offer EXCEPT ![o] = [status |-> "PUBLISHED", delivery |-> d,
                                    winner |-> NoOne, payout |-> p, lapsed |-> FALSE]]
  /\ candidate' = [candidate EXCEPT
       ![o] = [c \in Couriers |-> IF c \in S THEN "NOTIFIED" ELSE "NONE"]]
  /\ UNCHANGED <<delivery, history, ledger, routeVars, incident>>

(* acceptDeliveryOffer: the winner takes the delivery and every other      *)
(* candidate loses, without going through the transition table.            *)
acceptDeliveryOffer(o, c) ==
  LET d == offer[o].delivery
  IN /\ offer[o].status = "PUBLISHED"
     /\ ~offer[o].lapsed
     /\ candidate[o][c] = "NOTIFIED"
     /\ ~Busy(c)
     /\ delivery[d].status = "AWAITING_COURIER"
     /\ offer' = [offer EXCEPT ![o].status = "ACCEPTED", ![o].winner = c]
     /\ candidate' = [candidate EXCEPT ![o] = [x \in Couriers |->
          IF candidate[o][x] = "NOTIFIED"
          THEN (IF x = c THEN "ACCEPTED" ELSE "LOST") ELSE candidate[o][x]]]
     /\ Advance([x \in {d} |-> <<"ASSIGNED", "AWAITING_PICKUP">>],
                [delivery EXCEPT ![d].courier = c])
     /\ UNCHANGED <<ledger, routeVars, incident>>

(* reviseDeliveryOfferPrice.                                               *)
reviseDeliveryOfferPrice(o, p) ==
  /\ offer[o].status = "PUBLISHED"
  /\ offer[o].payout # p
  /\ offer' = [offer EXCEPT ![o].payout = p]
  /\ UNCHANGED <<delivery, history, candidate, ledger, routeVars, incident>>

(* cancelDeliveryOffer: by the store for a published or accepted offer, by *)
(* the winning courier for an accepted one and then without compensation.  *)
(* An accepted offer gives its delivery back to the queue.                 *)
cancelDeliveryOffer(o, byStore, compensation) ==
  LET d == offer[o].delivery
      accepted == offer[o].status = "ACCEPTED"
  IN /\ offer[o].status \in {"PUBLISHED", "ACCEPTED"}
     /\ ~byStore => accepted /\ compensation = 0
     /\ compensation <= offer[o].payout
     /\ accepted => delivery[d].status = "AWAITING_PICKUP"
     /\ Advance([x \in IF accepted THEN {d} ELSE {} |-> <<"AWAITING_COURIER">>],
                IF accepted THEN [delivery EXCEPT ![d].courier = NoOne] ELSE delivery)
     /\ offer' = [offer EXCEPT ![o].status = "CANCELLED"]
     /\ candidate' = [candidate EXCEPT ![o] = [c \in Couriers |->
          IF candidate[o][c] \in {"NOTIFIED", "ACCEPTED"} THEN "LOST" ELSE candidate[o][c]]]
     /\ ledger' = IF offer[o].winner # NoOne
                  THEN Posted({Entry(o, "CANCELLATION_COMPENSATION", compensation)})
                  ELSE ledger
     /\ UNCHANGED <<routeVars, incident>>

(* The clock passes expires_at.                                            *)
OfferLapses(o) ==
  /\ offer[o].status = "PUBLISHED"
  /\ ~offer[o].lapsed
  /\ offer' = [offer EXCEPT ![o].lapsed = TRUE]
  /\ UNCHANGED <<delivery, history, candidate, ledger, routeVars, incident>>

(* expireDeliveryOffers, called by the worker: the lapsed offers of S are  *)
(* those no other transaction holds (FOR UPDATE SKIP LOCKED).              *)
expireDeliveryOffers(S) ==
  /\ S # {}
  /\ \A o \in S : offer[o].status = "PUBLISHED" /\ offer[o].lapsed
  /\ offer' = [o \in Offers |-> IF o \in S THEN [offer[o] EXCEPT !.status = "EXPIRED"]
                                ELSE offer[o]]
  /\ candidate' = [o \in Offers |-> [c \in Couriers |->
       IF o \in S /\ candidate[o][c] = "NOTIFIED" THEN "EXPIRED" ELSE candidate[o][c]]]
  /\ UNCHANGED <<delivery, history, ledger, routeVars, incident>>

MarketplaceNext ==
  \/ \E o \in Offers :
       \/ \E d \in Deliveries, S \in SUBSET Couriers, p \in Payouts :
            createDeliveryOffer(o, d, S, p)
       \/ \E c \in Couriers : acceptDeliveryOffer(o, c)
       \/ \E p \in Payouts : reviseDeliveryOfferPrice(o, p)
       \/ \E byStore \in BOOLEAN, compensation \in Payouts \cup {0} :
            cancelDeliveryOffer(o, byStore, compensation)
       \/ OfferLapses(o)
  \/ \E S \in SUBSET Offers : expireDeliveryOffers(S)

=============================================================================

----------------------------- MODULE MCDispatch -----------------------------
(* Small instances of Dispatch for TLC.                                    *)
EXTENDS Dispatch, TLC

(* Couriers, offers, incidents and the deliveries of one origin are        *)
(* interchangeable: no handler orders them.                                *)
Symmetry ==
  Permutations(Couriers) \cup Permutations(Offers) \cup Permutations(Incidents)
    \cup Permutations(Ifood) \cup Permutations(Deliveries \ Ifood)

(* Three deliveries are for the order of one route over all of them;       *)
(* offers, incidents, cancellations and single handling of a delivery take  *)
(* part beside a route of at most two.                                     *)
TwoSizes ==
  Cardinality({d \in Deliveries : delivery'[d].status # "NONE"}) = 3 =>
    /\ \A o \in Offers : offer'[o].status = "NONE"
    /\ \A i \in Incidents : incident'[i].status = "NONE"
    /\ \A d \in Deliveries : delivery'[d].status # "CANCELLED"
    /\ \/ \A d \in Deliveries : delivery'[d].route # NoOne
       \/ \A d \in Deliveries : delivery'[d].status \in {"DRAFT", "AWAITING_COURIER"}

(* Beside an offer, incidents are about deliveries that failed.            *)
IncidentsOfFailures ==
  \A o \in Offers, i \in Incidents :
    offer'[o].status # "NONE" /\ incident'[i].status # "NONE" =>
      delivery'[incident'[i].delivery].status \in {"DELIVERY_FAILED", "RETURN_STARTED", "RETURNED"}

(* Version 7 is the end of the longest path, delivery after urgency.       *)
LongestPath ==
  \A d \in Deliveries :
    delivery'[d].version = 7 =>
      delivery'[d].status \in {"DELIVERED", "DELIVERY_FAILED", "CANCELLED"}

=============================================================================

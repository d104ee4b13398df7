---------------------------- MODULE MCLiveViews -----------------------------
(***************************************************************************)
(* Two deliveries, on one route or each on its own, and a short day; two   *)
(* links of one delivery, two sockets and two occurrences; three profiles  *)
(* of two phones, two orders and a shared browser; two live sessions and   *)
(* two studios.                                                            *)
(***************************************************************************)
EXTENDS LiveViews

CONSTANTS a, b, c1, c2, c3, h1, h2

\* One phone is known to two companies.
MCPhoneOf == [c \in Profile |-> IF c = c3 THEN h2 ELSE h1]

\* Nobody follows while occurrences are reported.
OccurrencesAlone ==
  \/ \A e \in Occurrence : event[e].status = "NONE"
  \/ \A v \in Viewer : viewer[v] = Out /\ \A l \in Link : link[l].state = "NONE"

Bounds == OccurrencesAlone'
=============================================================================

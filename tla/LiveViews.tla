----------------------------- MODULE LiveViews -----------------------------
(***************************************************************************)
(* What is followed while it happens: the position of a courier on duty    *)
(* (Presence), the links and sockets through which customers and the       *)
(* operation follow him (Broadcasts), the notices sent to the browsers of  *)
(* customers (Customers), and the video of a store (LiveVideo).  The four  *)
(* share no variable.                                                      *)
(***************************************************************************)
EXTENDS Presence, Broadcasts, Customers, LiveVideo

vars == <<presenceVars, broadcastVars, customerVars, liveVars>>

TypeOK == PresenceTypeOK /\ BroadcastsTypeOK /\ CustomersTypeOK /\ LiveTypeOK

Init == PresenceInit /\ BroadcastsInit /\ CustomersInit /\ LiveInit

(***************************************************************************)
(* A bound: as nothing is shared, each part moves while the others rest.   *)
(* The day rests where no action of its is fair, once the worker has       *)
(* entered it.                                                             *)
(***************************************************************************)
DayRests == now = 0 /\ day.status = "PENDING" /\ ~routed /\ first = CHOOSE d \in Deliveries : TRUE

Next ==
  \/ /\ BroadcastsInit /\ CustomersInit /\ LiveInit
     /\ PresenceNext /\ UNCHANGED <<broadcastVars, customerVars, liveVars>>
  \/ /\ DayRests /\ CustomersInit /\ LiveInit
     /\ BroadcastsNext /\ UNCHANGED <<presenceVars, customerVars, liveVars>>
  \/ /\ DayRests /\ BroadcastsInit /\ LiveInit
     /\ CustomersNext /\ UNCHANGED <<presenceVars, broadcastVars, liveVars>>
  \/ /\ DayRests /\ BroadcastsInit /\ CustomersInit
     /\ LiveNext /\ UNCHANGED <<presenceVars, broadcastVars, customerVars>>

Spec == Init /\ [][Next]_vars /\ PresenceFairness /\ LiveFairness

----------------------------------------------------------------------------
\* Who follows gets what is his and nothing else: no publication reaches a link or an access
\* that is over, no notice another person's browser, and the operation is told of one open
\* occurrence at a time.
FollowersGetTheirOwn ==
  EndedViewersGetNothing /\ NoticesStayWithTheirOwner /\ OneOpenOccurrence
=============================================================================

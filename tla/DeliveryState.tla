--------------------------- MODULE DeliveryState ---------------------------
(***************************************************************************)
(* The operational state machine of one delivery, as the table of          *)
(* delivery-state.ts declares it.  Every handler that goes through         *)
(* applyTransition is checked against this table; the marketplace and the  *)
(* route handlers write the status column themselves, so that the table    *)
(* is for them a claim to verify and not a guard.                          *)
(***************************************************************************)

DeliveryStatus ==
  {"DRAFT", "AWAITING_COURIER", "ASSIGNED", "AWAITING_PICKUP", "COLLECTED",
   "IN_ROUTE", "NEXT_STOP", "DELIVERED", "DELIVERY_FAILED",
   "RETURN_STARTED", "RETURNED", "CANCELLED"}

(* The statuses whose row in the table ends in CANCELLED.                  *)
Cancellable ==
  {"DRAFT", "AWAITING_COURIER", "ASSIGNED", "AWAITING_PICKUP", "COLLECTED",
   "IN_ROUTE", "NEXT_STOP"}

(* The pairs <<from, to>> that assertDeliveryTransition accepts.           *)
allowedTransitions ==
  {<<"DRAFT", "AWAITING_COURIER">>, <<"AWAITING_COURIER", "ASSIGNED">>,
   <<"ASSIGNED", "AWAITING_PICKUP">>, <<"ASSIGNED", "AWAITING_COURIER">>,
   <<"AWAITING_PICKUP", "COLLECTED">>, <<"AWAITING_PICKUP", "AWAITING_COURIER">>,
   <<"COLLECTED", "IN_ROUTE">>, <<"IN_ROUTE", "NEXT_STOP">>,
   <<"IN_ROUTE", "DELIVERED">>, <<"NEXT_STOP", "DELIVERED">>,
   <<"DELIVERY_FAILED", "RETURN_STARTED">>, <<"RETURN_STARTED", "RETURNED">>}
    \cup ({"AWAITING_PICKUP", "COLLECTED", "IN_ROUTE", "NEXT_STOP"} \X {"DELIVERY_FAILED"})
    \cup (Cancellable \X {"CANCELLED"})

(* The statuses the table gives no way out of.                             *)
TerminalStatus == {"DELIVERED", "CANCELLED", "RETURNED"}

(* The statuses that make a courier busy for the marketplace.              *)
BusyStatus == {"AWAITING_PICKUP", "COLLECTED", "IN_ROUTE", "NEXT_STOP"}

=============================================================================

--------------------------- MODULE ExternalOrders ---------------------------
(***************************************************************************)
(* One iFood order of one merchant (integrations/ifood): the connection    *)
(* the manager keeps, the events iFood emits, their ingestion by polling   *)
(* or webhook, their processing, and the delivery made from the order.     *)
(* Events are numbered as iFood emits them; they carry the time of iFood,  *)
(* which two of them may share.                                            *)
(***************************************************************************)
EXTENDS Naturals, FiniteSets

CONSTANTS MaxEvents,     \* bounds the events iFood emits
          Codes,         \* the codes it emits
          Modes,         \* delivery_dispatch_mode
          MaxAttempts,   \* attempts of an event, 5 in the code
          MaxChanges,    \* bounds the changes of the connection
          Worker, NoOne

ASSUME ExternalOrdersAssumption ==
  /\ MaxEvents \in Nat /\ MaxAttempts \in Nat \ {0} /\ MaxChanges \in Nat
  /\ NoOne \notin Worker
  /\ "NONE" \notin Codes

VARIABLES connection, event, unacked, order, own, delivery, command, worker, changes

Event == 1..MaxEvents
Operation == {"CONFIRM", "PREPARE", "DISPATCH", "CANCEL"}
Closed == {"CANCELLED", "CONCLUDED"}
OpenDelivery == {"DRAFT", "AWAITING_COURIER", "IN_ROUTE"}

Rank == [PLACED |-> 0, CONFIRMED |-> 1, PREPARATION_STARTED |-> 2,
         DISPATCHED |-> 3, CONCLUDED |-> 4, CANCELLED |-> 5]

ExternalStatus == DOMAIN Rank
StatusEvents == {e \in Event : event[e].code \in ExternalStatus}

advancesExternalStatus(previous, next) ==
  /\ previous # "CANCELLED"
  /\ previous = "CONCLUDED" => next = "CANCELLED"
  /\ Rank[next] >= Rank[previous]

\* The status that confirms a command.
commandForStatus == [CONFIRMED |-> "CONFIRM", PREPARATION_STARTED |-> "PREPARE",
                     DISPATCHED |-> "DISPATCH", CANCELLED |-> "CANCEL"]

ConnectionRow == [exists : BOOLEAN, enabled : BOOLEAN, import : BOOLEAN, create : BOOLEAN,
                  mode : Modes \cup {"MANUAL"}]
EventRow == [code : Codes \cup {"NONE"}, at : Nat, attempts : Nat, linked : BOOLEAN,
             status : {"ABSENT", "EMITTED", "RECEIVED", "PROCESSED", "IGNORED", "ERROR"}]
OrderRow == [status : ExternalStatus \cup {"NONE"}, at : Nat]

NotEmitted == [code |-> "NONE", at |-> 0, status |-> "ABSENT", attempts |-> 0, linked |-> FALSE]
Resting == [step |-> "IDLE", batch |-> {}, operation |-> "NONE", answer |-> "NONE"]

OrdersInit ==
  /\ connection = [exists |-> FALSE, enabled |-> FALSE, import |-> FALSE,
                   create |-> FALSE, mode |-> "MANUAL"]
  /\ event = [e \in Event |-> NotEmitted]
  /\ unacked = {}
  /\ order = [status |-> "NONE", at |-> 0]
  /\ own \in BOOLEAN
  /\ delivery = "NONE"
  /\ command = [op \in Operation |-> [status |-> "NONE", attempts |-> 0]]
  /\ changes = 0

(***************************************************************************)
(* iFood, the manager and the couriers.                                    *)
(***************************************************************************)
Emitted == {e \in Event : event[e].code # "NONE"}

\* iFood only moves an order forward, in its own time; it says that it refused a
\* cancellation only where one was sent to it.
emitEvent(e, code, at, asked) ==
  LET said == {f \in StatusEvents : f < e}
  IN /\ e = Cardinality(Emitted) + 1
     /\ at \in (IF e = 1 THEN {1} ELSE {event[e - 1].at, event[e - 1].at + 1})
     /\ code \in Codes
     /\ code \in ExternalStatus =>
          \A f \in said : event[f].code # "CANCELLED" /\ Rank[event[f].code] <= Rank[code]
     /\ code = "CANCELLATION_REQUEST_FAILED" =>
          /\ asked
          /\ \A f \in said : event[f].code # "CANCELLED"
     /\ event' = [event EXCEPT ![e] = [@ EXCEPT !.code = code, !.at = at, !.status = "EMITTED"]]
     /\ unacked' = unacked \cup {e}
     /\ UNCHANGED <<connection, order, own, delivery, command, worker, changes>>

configureConnection(input) ==
  /\ changes < MaxChanges
  /\ input # connection
  /\ connection' = input
  /\ changes' = changes + 1
  /\ UNCHANGED <<event, unacked, order, own, delivery, command, worker>>

\* INSERT ... ON CONFLICT(provider,external_event_id) DO NOTHING, committed before
\* any answer.
Ingested(E) ==
  [e \in Event |-> IF e \in E /\ event[e].status = "EMITTED"
                   THEN [event[e] EXCEPT !.status = "RECEIVED", !.linked = connection.exists]
                   ELSE event[e]]

\* iFood calls the webhook with events of several merchants, of which the connection
\* of the first is looked for.  A lost answer is as a lost acknowledgement.
webhook(e) ==
  /\ e \in unacked
  /\ event' = Ingested({e})
  /\ unacked' = unacked \ {e}
  /\ UNCHANGED <<connection, order, own, delivery, command, worker, changes>>

reprocess(e) ==
  /\ event[e].status = "ERROR"
  /\ event' = [event EXCEPT ![e].status = "RECEIVED", ![e].attempts = 0]
  /\ UNCHANGED <<connection, unacked, order, own, delivery, command, worker, changes>>

\* Assignment and pickup end in IN_ROUTE, where the trigger queue_external_dispatch
\* asks for the dispatch of an order that is still open.
departDelivery ==
  /\ delivery = "AWAITING_COURIER"
  /\ delivery' = "IN_ROUTE"
  /\ command' = IF own /\ order.status \notin Closed /\ command["DISPATCH"].status = "NONE"
                THEN [command EXCEPT !["DISPATCH"].status = "REQUESTED"] ELSE command
  /\ UNCHANGED <<connection, event, unacked, order, own, worker, changes>>

endDelivery ==
  /\ delivery = "IN_ROUTE"
  /\ delivery' \in {"DELIVERED", "DELIVERY_FAILED"}
  /\ UNCHANGED <<connection, event, unacked, order, own, command, worker, changes>>

(***************************************************************************)
(* The delivery of the order: each handler locks the order and the         *)
(* connection.                                                             *)
(***************************************************************************)
\* Mutant: a cancelled order may still get its delivery.
AvailableAnyway == order.status # "CONCLUDED"

Available == order.status \notin {"CANCELLED", "CONCLUDED", "DISPATCHED"}

createManualDelivery ==
  /\ order.status # "NONE" /\ connection.enabled /\ own
  /\ delivery = "NONE" /\ Available
  /\ delivery' = "DRAFT"
  /\ UNCHANGED <<connection, event, unacked, order, own, command, worker, changes>>

Releasable == own /\ delivery # "NONE" /\ order.status \in {"CONFIRMED", "PREPARATION_STARTED"}

Released == IF delivery = "DRAFT" THEN "AWAITING_COURIER" ELSE delivery

releaseDelivery ==
  /\ connection.enabled /\ Releasable /\ delivery = "DRAFT"
  /\ delivery' = Released
  /\ UNCHANGED <<connection, event, unacked, order, own, command, worker, changes>>

\* The read of releaseDue; a time before the ready time may have come or not.
Due ==
  /\ connection.enabled /\ own /\ delivery = "DRAFT"
  /\ order.status \in {"CONFIRMED", "PREPARATION_STARTED"}
  /\ connection.mode # "MANUAL"

(***************************************************************************)
(* Processing of one event, in the transaction that locks its row and the  *)
(* connection.                                                             *)
(***************************************************************************)
Pending(row) == row.status \in {"RECEIVED", "ERROR"}
Waiting(e) == Pending(event[e])

\* The rows processEvents selects, of an enabled connection or of none.
Selectable(row) ==
  /\ Pending(row) /\ row.attempts < MaxAttempts
  /\ row.linked => connection.enabled /\ (connection.import \/ order.status # "NONE")

\* Mutant: an event of the same moment does not count.
AdvancesLater(e) ==
  order.status = "NONE" \/ (event[e].at > order.at /\ advancesExternalStatus(order.status, event[e].code))

Advances(e) ==
  order.status = "NONE" \/ (event[e].at >= order.at /\ advancesExternalStatus(order.status, event[e].code))

\* The attempts of a handled event are not kept: nothing reads them again.
Handled(e, status) == [event EXCEPT ![e].status = status, ![e].attempts = 0]

\* The transaction returns without effect: another worker was faster, or the
\* connection changed since the selection.
passedOver(e) ==
  /\ \/ ~Waiting(e)
     \/ /\ event[e].linked /\ event[e].code \in ExternalStatus
        /\ ~connection.enabled \/ (~connection.import /\ order.status = "NONE")
  /\ UNCHANGED <<event, order, delivery, command>>

\* Mutant: the refusal also closes a cancellation that was confirmed.
RefusedAlways(c) == IF c.status = "NONE" THEN c ELSE [c EXCEPT !.status = "ERROR"]

Refused(c) == IF c.status \in {"NONE", "CONFIRMED"} THEN c ELSE [c EXCEPT !.status = "ERROR"]

cancellationRefused(e) ==
  /\ Waiting(e) /\ event[e].linked /\ event[e].code = "CANCELLATION_REQUEST_FAILED"
  /\ command' = IF order.status # "NONE" THEN [command EXCEPT !["CANCEL"] = Refused(@)] ELSE command
  /\ event' = Handled(e, "PROCESSED")
  /\ UNCHANGED <<order, delivery>>

ignoreEvent(e) ==
  /\ Waiting(e)
  /\ ~event[e].linked \/ event[e].code \notin ExternalStatus \cup {"CANCELLATION_REQUEST_FAILED"}
  /\ event' = Handled(e, "IGNORED")
  /\ UNCHANGED <<order, delivery, command>>

\* Import, status, delivery in DRAFT, cancellation, confirmation of the command.
applyEvent(e) ==
  LET advances == Advances(e)
      status == IF advances THEN event[e].code ELSE order.status
      creates == own /\ delivery = "NONE" /\ connection.create
                   /\ status \notin {"CANCELLED", "CONCLUDED", "DISPATCHED"}
      cancels == advances /\ own /\ status = "CANCELLED" /\ delivery \in OpenDelivery
      confirms == {op \in Operation : /\ advances /\ own /\ command[op].status # "NONE"
                                      /\ status \in DOMAIN commandForStatus
                                      /\ op = commandForStatus[status]}
  IN /\ Waiting(e) /\ event[e].linked /\ event[e].code \in ExternalStatus
     /\ connection.enabled /\ (connection.import \/ order.status # "NONE")
     /\ order' = IF advances THEN [status |-> status, at |-> event[e].at] ELSE order
     /\ delivery' = IF creates THEN "DRAFT" ELSE IF cancels THEN "CANCELLED" ELSE delivery
     /\ command' = [op \in Operation |-> IF op \in confirms
                      THEN [command[op] EXCEPT !.status = "CONFIRMED"] ELSE command[op]]
     /\ event' = Handled(e, IF own THEN "PROCESSED" ELSE "IGNORED")

\* The details cannot be read, the configuration lost its authorization, the
\* destination is incomplete: the event waits for another attempt.
failEvent(e) ==
  /\ Waiting(e) /\ event[e].linked /\ event[e].code \in ExternalStatus
  /\ event' = [event EXCEPT ![e].status = "ERROR", ![e].attempts = @ + 1]
  /\ UNCHANGED <<order, delivery, command>>

processEvent(e) ==
  \/ passedOver(e) \/ cancellationRefused(e) \/ ignoreEvent(e) \/ applyEvent(e) \/ failEvent(e)
=============================================================================

---------------------------- MODULE IfoodProofs ----------------------------
(***************************************************************************)
(* Safety of the iFood integration for any number of events, workers,      *)
(* attempts and faults.  Three arguments that hardly touch each other:     *)
(* who may still send a command (Sends), what the events of iFood say of   *)
(* the order (Emission, Follows), and what becomes of its delivery         *)
(* (Attended).                                                             *)
(***************************************************************************)
EXTENDS IfoodWorker, FiniteSetTheorems, TLAPS

Sender(w, op) == worker[w].step \in {"SEND", "RECORD"} /\ worker[w].operation = op

Unsent == {"NONE", "REQUESTED"}

(* A command has one sender, it is not to be requested again while it has  *)
(* one or once iFood took it, and iFood has not taken what waits to be     *)
(* sent or was refused.                                                    *)
Sends(op) ==
  /\ \A w, v \in Worker : Sender(w, op) /\ Sender(v, op) => w = v
  /\ command[op].status \in Unsent => accepted[op] = 0 /\ \A w \in Worker : ~Sender(w, op)
  /\ \A w \in Worker :
       /\ Sender(w, op)
       /\ worker[w].step = "SEND" \/ worker[w].answer \in {"REJECTED", "TOO_MANY"}
       => accepted[op] = 0
  /\ accepted[op] <= 1

Armed ==
  \A w \in Worker :
    /\ worker[w].step \in {"SEND", "RECORD"} => worker[w].operation \in Operation
    /\ worker[w].step = "RECORD" => worker[w].answer # "NONE"

(* iFood emits in order, and moves the order forward.                      *)
Emission ==
  /\ \E n \in 0..MaxEvents : Emitted = 1..n
  /\ \A e, f \in Emitted : e <= f => event[e].at <= event[f].at
  /\ \A e, f \in StatusEvents : e <= f => Rank[event[e].code] <= Rank[event[f].code]

(* A status event that counts as handled.                                  *)
Done(e) == event[e].linked /\ event[e].status \in {"PROCESSED", "IGNORED"}

(* The order stands where one of the events says, and no handled one says  *)
(* more.                                                                   *)
Follows ==
  /\ order.status # "NONE" =>
       \E e \in StatusEvents : order.status = event[e].code /\ order.at = event[e].at
  /\ \A e \in StatusEvents : Done(e) =>
       order.status # "NONE" /\ Rank[event[e].code] <= Rank[order.status]

Attended ==
  /\ ~own => delivery = "NONE"
  /\ CancelledOrderIsClosed

IInv ==
  /\ TypeOK /\ (\A op \in Operation : Sends(op)) /\ Armed
  /\ Emission /\ Follows /\ Attended

(***************************************************************************)
(* The order of the statuses.                                              *)
(***************************************************************************)
LEMMA Ranks ==
  /\ ExternalStatus = {"PLACED", "CONFIRMED", "PREPARATION_STARTED", "DISPATCHED", "CONCLUDED", "CANCELLED"}
  /\ Rank["PLACED"] = 0 /\ Rank["CONFIRMED"] = 1 /\ Rank["PREPARATION_STARTED"] = 2
  /\ Rank["DISPATCHED"] = 3 /\ Rank["CONCLUDED"] = 4 /\ Rank["CANCELLED"] = 5
BY DEF ExternalStatus, Rank

LEMMA RankOrder ==
  /\ \A s \in ExternalStatus : Rank[s] \in 0..5
  /\ \A s, t \in ExternalStatus : Rank[s] = Rank[t] => s = t
  /\ \A s \in ExternalStatus : Rank[s] <= Rank["CANCELLED"]
  /\ \A s \in ExternalStatus : s # "CANCELLED" => Rank[s] <= Rank["CONCLUDED"]
  /\ "NONE" \notin ExternalStatus
BY Ranks

(***************************************************************************)
(* What a step leaves alone.                                               *)
(***************************************************************************)
\* Neither senders nor what iFood took change, and no command is to be sent again.
LEMMA SendsKept ==
  ASSUME \A op \in Operation : Sends(op), Armed,
         \A w \in Worker : worker'[w].step \in {"SEND", "RECORD"} =>
           /\ worker'[w].step = worker[w].step /\ worker'[w].operation = worker[w].operation
           /\ worker'[w].answer = worker[w].answer,
         accepted' = accepted,
         \A op \in Operation : command'[op].status \in Unsent => command[op].status \in Unsent
  PROVE  (\A op \in Operation : Sends(op)') /\ Armed'
<1>1. \A w \in Worker, op \in Operation :
        Sender(w, op)' => /\ Sender(w, op) /\ worker'[w].step = worker[w].step
                          /\ worker'[w].answer = worker[w].answer
  BY DEF Sender
<1>2. ASSUME NEW op \in Operation PROVE Sends(op)'
  <2>1. Sends(op)
    OBVIOUS
  <2> QED
    BY <1>1, <2>1 DEF Sends
<1>3. Armed'
  BY DEF Armed
<1> QED
  BY <1>2, <1>3

\* Events keep their code and time.
SameEvents == \A e \in Event : event'[e].code = event[e].code /\ event'[e].at = event[e].at

LEMMA EmissionKept ==
  ASSUME SameEvents
  PROVE  /\ Emitted' = Emitted /\ StatusEvents' = StatusEvents
         /\ Emission => Emission'
<1>1. Emitted' = Emitted
  BY DEF SameEvents, Emitted
<1>2. StatusEvents' = StatusEvents
  BY DEF SameEvents, StatusEvents
<1>3. Emitted \subseteq Event /\ StatusEvents \subseteq Event
  BY DEF Emitted, StatusEvents
<1>4. ASSUME Emission PROVE Emission'
  BY <1>1, <1>2, <1>3, <1>4 DEF Emission, SameEvents
<1> QED
  BY <1>1, <1>2, <1>4

LEMMA FollowsKept ==
  ASSUME SameEvents, Follows, order' = order,
         \A e \in Event : Done(e)' => Done(e) \/ event[e].code \notin ExternalStatus
  PROVE  Follows'
<1>1. StatusEvents' = StatusEvents
  BY EmissionKept
<1>2. \A e \in StatusEvents : e \in Event /\ event[e].code \in ExternalStatus
  BY DEF StatusEvents
<1> QED
  BY <1>1, <1>2 DEF Follows, SameEvents

LEMMA AttendedKept ==
  ASSUME Attended, own' = own, order' = order,
         delivery' # "NONE" => own \/ delivery # "NONE",
         delivery' \in OpenDelivery => order.status # "CANCELLED" \/ delivery \in OpenDelivery
  PROVE  Attended'
BY DEF Attended, CancelledOrderIsClosed, OpenDelivery

LEMMA Ingestion ==
  ASSUME TypeOK, NEW E, event' = Ingested(E)
  PROVE  /\ event' \in [Event -> EventRow] /\ SameEvents
         /\ \A e \in Event : Done(e)' => Done(e)
<1>1. ASSUME NEW e \in Event
      PROVE  /\ event'[e] \in EventRow /\ event'[e].code = event[e].code /\ event'[e].at = event[e].at
             /\ Done(e)' => Done(e)
  <2>1. event[e] \in EventRow /\ connection.exists \in BOOLEAN
    BY DEF TypeOK, ConnectionRow
  <2>2. CASE e \in E /\ event[e].status = "EMITTED"
    <3>1. event'[e] = [event[e] EXCEPT !.status = "RECEIVED", !.linked = connection.exists]
      BY <2>2 DEF Ingested
    <3>2. event'[e] \in EventRow /\ event'[e].code = event[e].code /\ event'[e].at = event[e].at
      BY <2>1, <3>1 DEF EventRow
    <3>3. event'[e].status = "RECEIVED"
      BY <2>1, <3>1 DEF EventRow
    <3> QED
      BY <3>2, <3>3 DEF Done
  <2>3. CASE ~(e \in E /\ event[e].status = "EMITTED")
    BY <2>1, <2>3 DEF Ingested, Done
  <2> QED
    BY <2>2, <2>3
<1> QED
  BY <1>1 DEF Ingested, SameEvents

\* One row of an event gets another status.
LEMMA OneEvent ==
  ASSUME TypeOK, NEW e \in Event, NEW s \in {"RECEIVED", "PROCESSED", "IGNORED", "ERROR"}, NEW n \in Nat,
         event' = [event EXCEPT ![e] = [event[e] EXCEPT !.status = s, !.attempts = n]]
  PROVE  /\ event' \in [Event -> EventRow] /\ SameEvents
         /\ \A f \in Event : f # e => (Done(f)' <=> Done(f))
         /\ event'[e].status = s /\ event'[e].linked = event[e].linked
<1>1. event[e] \in EventRow
  BY DEF TypeOK
<1>2. /\ [event[e] EXCEPT !.status = s, !.attempts = n] \in EventRow
      /\ [event[e] EXCEPT !.status = s, !.attempts = n].code = event[e].code
      /\ [event[e] EXCEPT !.status = s, !.attempts = n].at = event[e].at
      /\ [event[e] EXCEPT !.status = s, !.attempts = n].status = s
      /\ [event[e] EXCEPT !.status = s, !.attempts = n].linked = event[e].linked
  BY <1>1 DEF EventRow
<1> QED
  BY <1>2 DEF TypeOK, SameEvents, Done

LEMMA HandledRow ==
  ASSUME TypeOK, NEW e \in Event, NEW s \in {"RECEIVED", "PROCESSED", "IGNORED", "ERROR"}, event' = Handled(e, s)
  PROVE  /\ event' \in [Event -> EventRow] /\ SameEvents
         /\ \A f \in Event : f # e => (Done(f)' <=> Done(f))
         /\ event'[e].status = s /\ event'[e].linked = event[e].linked
<1>1. event' = [event EXCEPT ![e] = [event[e] EXCEPT !.status = s, !.attempts = 0]]
  BY DEF Handled, TypeOK
<1>2. 0 \in Nat
  OBVIOUS
<1> QED
  BY <1>1, <1>2, OneEvent

LEMMA CommandRows ==
  ASSUME NEW row \in CommandRow,
         NEW s \in {"NONE", "REQUESTED", "SENDING", "REQUEST_SENT", "CONFIRMED", "ERROR", "UNCERTAIN"}
  PROVE  [row EXCEPT !.status = s] \in CommandRow /\ [row EXCEPT !.status = s].status = s
BY DEF CommandRow

(***************************************************************************)
(* iFood, the manager and the couriers.                                    *)
(***************************************************************************)
Aside == UNCHANGED <<lock, accepted, faultVars>>

\* Nothing sends, no command goes back.
LEMMA NobodySends ==
  ASSUME IInv, worker' = worker, accepted' = accepted,
         \A op \in Operation : command'[op].status \in Unsent => command[op].status \in Unsent
  PROVE  (\A op \in Operation : Sends(op)') /\ Armed'
BY SendsKept DEF IInv

LEMMA emitSound ==
  ASSUME ExternalOrdersAssumption, IInv, NEW e \in Event, NEW code \in Codes, NEW at \in 1..MaxEvents, NEW asked,
         emitEvent(e, code, at, asked), Aside
  PROVE  IInv'
<1> DEFINE said == {f \in StatusEvents : f < e}
<1>1. PICK n \in 0..MaxEvents : Emitted = 1..n
  BY DEF IInv, Emission
<1>2. MaxEvents \in Nat /\ code # "NONE" /\ e \in Nat /\ n \in Nat /\ at \in Nat
  BY DEF ExternalOrdersAssumption, Event
<1>3. e = n + 1
  <2>1. Cardinality(1..n) = n
    BY <1>2, FS_Interval
  <2> QED
    BY <1>1, <2>1 DEF emitEvent
<1>4. /\ event' = [event EXCEPT ![e] = [event[e] EXCEPT !.code = code, !.at = at, !.status = "EMITTED"]]
      /\ unacked' = unacked \cup {e}
      /\ UNCHANGED <<connection, order, own, delivery, command, worker, changes>>
  BY DEF emitEvent
<1>5. TypeOK /\ event[e] \in EventRow
  BY DEF IInv, TypeOK
<1>6. /\ event' \in [Event -> EventRow]
      /\ event'[e].code = code /\ event'[e].at = at /\ event'[e].status = "EMITTED"
      /\ \A f \in Event : f # e => event'[f] = event[f]
  BY <1>2, <1>4, <1>5 DEF TypeOK, EventRow
<1>7. Emitted' = Emitted \cup {e} /\ e \notin Emitted /\ Emitted \subseteq Event
  <2>1. e \notin Emitted
    BY <1>1, <1>2, <1>3
  <2>2. Emitted \subseteq Event
    BY DEF Emitted
  <2>3. \A f \in Event : f \in Emitted' <=> f \in Emitted \cup {e}
    BY <1>2, <1>6 DEF Emitted
  <2>4. Emitted' \subseteq Event
    BY DEF Emitted, Event
  <2> QED
    BY <2>1, <2>2, <2>3, <2>4
<1>8. /\ StatusEvents' = StatusEvents \cup (IF code \in ExternalStatus THEN {e} ELSE {})
      /\ StatusEvents \subseteq Emitted
  <2>1. event[e].code = "NONE"
    BY <1>7 DEF Emitted
  <2> QED
    BY <1>6, <2>1, RankOrder DEF StatusEvents, Emitted
<1>9. TypeOK'
  <2>1. unacked' \subseteq Emitted'
    BY <1>4, <1>5, <1>7 DEF TypeOK
  <2> QED
    BY <1>4, <1>5, <1>6, <2>1 DEF TypeOK, Aside, faultVars
<1>10. Emission'
  <2>1. Emitted' = 1..(n + 1) /\ n + 1 \in 0..MaxEvents
    BY <1>1, <1>2, <1>3, <1>7 DEF Event
  <2>2. \A f \in Emitted : f \in Nat /\ f <= n /\ event[f].at \in Nat
    BY <1>1, <1>5, <1>7 DEF TypeOK, EventRow
  <2>3. \A f \in Emitted : event[f].at <= at
    <3> SUFFICES ASSUME NEW f \in Emitted PROVE event[f].at <= at
      OBVIOUS
    <3>1. n \in Emitted /\ e # 1 /\ e - 1 = n
      BY <1>1, <1>2, <1>3, <2>2
    <3>2. event[n].at <= at
      BY <2>2, <3>1 DEF emitEvent
    <3>3. event[f].at <= event[n].at
      BY <2>2, <3>1 DEF IInv, Emission
    <3>4. event[n].at \in Nat /\ event[f].at \in Nat
      BY <2>2, <3>1
    <3> QED
      BY <1>2, <3>2, <3>3, <3>4
  <2>4. \A f, g \in Emitted' : f <= g => event'[f].at <= event'[g].at
    <3> SUFFICES ASSUME NEW f \in Emitted', NEW g \in Emitted', f <= g PROVE event'[f].at <= event'[g].at
      OBVIOUS
    <3>1. CASE f = e
      BY <1>2, <1>3, <1>6, <1>7, <2>2, <3>1
    <3>2. CASE f # e /\ g = e
      BY <1>6, <1>7, <2>3, <3>2
    <3>3. CASE f # e /\ g # e
      BY <1>6, <1>7, <3>3 DEF IInv, Emission
    <3> QED
      BY <3>1, <3>2, <3>3
  <2>5. \A f \in StatusEvents : f < e
    BY <1>2, <1>3, <1>8, <2>2
  <2>6. code \in ExternalStatus => \A f \in StatusEvents : Rank[event[f].code] <= Rank[code]
    BY <2>5 DEF emitEvent
  <2>7. \A f, g \in StatusEvents' : f <= g => Rank[event'[f].code] <= Rank[event'[g].code]
    <3> SUFFICES ASSUME NEW f \in StatusEvents', NEW g \in StatusEvents', f <= g
                 PROVE  Rank[event'[f].code] <= Rank[event'[g].code]
      OBVIOUS
    <3>1. CASE f = e
      <4>1. g = e
        BY <1>2, <1>3, <1>8, <2>2, <2>5, <3>1
      <4>2. code \in ExternalStatus
        BY <1>7, <1>8, <3>1
      <4> QED
        BY <1>6, <3>1, <4>1, <4>2, RankOrder
    <3>2. CASE f # e /\ g = e
      <4>1. code \in ExternalStatus /\ f \in StatusEvents
        BY <1>7, <1>8, <3>2
      <4> QED
        BY <1>6, <1>7, <1>8, <2>6, <3>2, <4>1
    <3>3. CASE f # e /\ g # e
      <4>1. f \in StatusEvents /\ g \in StatusEvents
        BY <1>8, <3>3
      <4> QED
        BY <1>6, <1>7, <1>8, <3>3, <4>1 DEF IInv, Emission
    <3> QED
      BY <3>1, <3>2, <3>3
  <2> QED
    BY <2>1, <2>4, <2>7 DEF Emission
<1>11. Follows'
  <2>1. \A f \in StatusEvents : f # e /\ f \in Event
    BY <1>7, <1>8
  <2>2. ~Done(e)'
    BY <1>6 DEF Done
  <2>3. \A f \in StatusEvents : f \in StatusEvents' /\ event'[f] = event[f]
    BY <1>6, <1>8, <2>1
  <2>4. \A f \in StatusEvents' : Done(f)' => f \in StatusEvents /\ Done(f)
    BY <1>6, <1>8, <2>1, <2>2 DEF Done
  <2> QED
    BY <1>4, <2>3, <2>4 DEF IInv, Follows
<1>12. Attended'
  BY <1>4 DEF IInv, Attended, CancelledOrderIsClosed
<1>13. (\A op \in Operation : Sends(op)') /\ Armed'
  BY <1>4, NobodySends DEF Aside
<1> QED
  BY <1>9, <1>10, <1>11, <1>12, <1>13 DEF IInv

LEMMA webhookSound ==
  ASSUME IInv, NEW e \in Event, webhook(e), Aside
  PROVE  IInv'
<1>1. /\ event' \in [Event -> EventRow] /\ SameEvents
      /\ \A f \in Event : Done(f)' => Done(f)
  BY Ingestion DEF webhook, IInv
<1>2. /\ unacked' = unacked \ {e}
      /\ UNCHANGED <<connection, order, own, delivery, command, worker, changes>>
  BY DEF webhook
<1>3. TypeOK'
  BY <1>1, <1>2, EmissionKept DEF IInv, TypeOK, Aside, faultVars
<1>4. Emission' /\ Follows' /\ Attended'
  BY <1>1, <1>2, EmissionKept, FollowsKept DEF IInv, Attended, CancelledOrderIsClosed
<1> QED
  BY <1>2, <1>3, <1>4, NobodySends DEF IInv, Aside

LEMMA reprocessSound ==
  ASSUME IInv, NEW e \in Event, reprocess(e), Aside
  PROVE  IInv'
<1>1. /\ event' \in [Event -> EventRow] /\ SameEvents
      /\ \A f \in Event : Done(f)' => Done(f)
  <2>1. event' = [event EXCEPT ![e] = [event[e] EXCEPT !.status = "RECEIVED", !.attempts = 0]]
    BY DEF reprocess, IInv, TypeOK
  <2>2. TypeOK /\ 0 \in Nat
    BY DEF IInv
  <2>3. /\ event' \in [Event -> EventRow] /\ SameEvents
        /\ \A f \in Event : f # e => (Done(f)' <=> Done(f))
        /\ event'[e].status = "RECEIVED"
    BY <2>1, <2>2, OneEvent
  <2> QED
    BY <2>3 DEF Done
<1>2. UNCHANGED <<connection, unacked, order, own, delivery, command, worker, changes>>
  BY DEF reprocess
<1>3. TypeOK'
  BY <1>1, <1>2, EmissionKept DEF IInv, TypeOK, Aside, faultVars
<1>4. Emission' /\ Follows' /\ Attended'
  BY <1>1, <1>2, EmissionKept, FollowsKept DEF IInv, Attended, CancelledOrderIsClosed
<1> QED
  BY <1>2, <1>3, <1>4, NobodySends DEF IInv, Aside

\* Steps that leave the events, and what iFood knows of them, as they are.
LEMMA EventsAlone ==
  ASSUME IInv, UNCHANGED <<event, order>>
  PROVE  Emission' /\ Follows' /\ (unacked' \subseteq unacked => unacked' \subseteq Emitted')
<1>1. SameEvents /\ \A e \in Event : Done(e)' => Done(e)
  BY DEF SameEvents, Done
<1> QED
  BY <1>1, EmissionKept, FollowsKept DEF IInv, TypeOK

LEMMA configureSound ==
  ASSUME IInv, NEW input \in Connections, configureConnection(input), Aside
  PROVE  IInv'
<1>1. /\ connection' = input /\ changes' = changes + 1
      /\ UNCHANGED <<event, unacked, order, own, delivery, command, worker>>
  BY DEF configureConnection
<1>2. TypeOK'
  <2>1. input \in ConnectionRow
    BY DEF Connections, ConnectionRow
  <2>2. changes' \in Nat
    BY <1>1 DEF IInv, TypeOK
  <2> QED
    BY <1>1, <2>1, <2>2, EventsAlone DEF IInv, TypeOK, Aside, faultVars
<1>3. Emission' /\ Follows' /\ Attended'
  BY <1>1, EventsAlone, AttendedKept DEF IInv
<1> QED
  BY <1>1, <1>2, <1>3, NobodySends DEF IInv, Aside

\* Steps that write the delivery and the commands, the status of the delivery given.
LEMMA DeliverySound ==
  ASSUME IInv, UNCHANGED <<connection, event, unacked, order, own, worker, changes>>, Aside,
         delivery' \in OpenDelivery \cup {"CANCELLED", "DELIVERED", "DELIVERY_FAILED"},
         own, delivery' \in OpenDelivery => order.status # "CANCELLED",
         command' \in [Operation -> CommandRow],
         \A op \in Operation : command'[op].status \in Unsent => command[op].status \in Unsent
  PROVE  IInv'
<1>1. TypeOK'
  BY EventsAlone DEF IInv, TypeOK, Aside, faultVars
<1>2. Emission' /\ Follows' /\ Attended'
  BY EventsAlone, AttendedKept DEF IInv
<1> QED
  BY <1>1, <1>2, NobodySends DEF IInv, Aside

LEMMA departSound ==
  ASSUME IInv, departDelivery, Aside
  PROVE  IInv'
<1>1. own /\ order.status # "CANCELLED"
  BY DEF departDelivery, IInv, Attended, CancelledOrderIsClosed, OpenDelivery
<1>2. /\ command' \in [Operation -> CommandRow]
      /\ \A op \in Operation : command'[op].status \in Unsent => command[op].status \in Unsent
  <2>1. CASE own /\ order.status \notin Closed /\ command["DISPATCH"].status = "NONE"
    <3>1. "DISPATCH" \in Operation /\ command["DISPATCH"] \in CommandRow /\ command \in [Operation -> CommandRow]
      BY DEF Operation, IInv, TypeOK
    <3>2. command' = [command EXCEPT !["DISPATCH"] = [command["DISPATCH"] EXCEPT !.status = "REQUESTED"]]
      BY <2>1, <3>1 DEF departDelivery
    <3>3. [command["DISPATCH"] EXCEPT !.status = "REQUESTED"] \in CommandRow
      BY <3>1, CommandRows
    <3> QED
      BY <2>1, <3>1, <3>2, <3>3 DEF Unsent
  <2>2. CASE ~(own /\ order.status \notin Closed /\ command["DISPATCH"].status = "NONE")
    BY <2>2 DEF departDelivery, IInv, TypeOK
  <2> QED
    BY <2>1, <2>2
<1>3. delivery' \in OpenDelivery \cup {"CANCELLED", "DELIVERED", "DELIVERY_FAILED"}
  BY DEF departDelivery, OpenDelivery
<1>4. UNCHANGED <<connection, event, unacked, order, own, worker, changes>>
  BY DEF departDelivery
<1> QED
  BY <1>1, <1>2, <1>3, <1>4, DeliverySound

LEMMA endSound ==
  ASSUME IInv, endDelivery, Aside
  PROVE  IInv'
<1>1. own
  BY DEF endDelivery, IInv, Attended
<1> QED
  BY <1>1, DeliverySound DEF endDelivery, OpenDelivery, IInv, TypeOK

LEMMA createManualSound ==
  ASSUME IInv, createManualDelivery, Aside
  PROVE  IInv'
BY DeliverySound DEF createManualDelivery, Available, OpenDelivery, IInv, TypeOK

LEMMA releaseSound ==
  ASSUME IInv, releaseDelivery, Aside
  PROVE  IInv'
BY DeliverySound DEF releaseDelivery, Releasable, Released, OpenDelivery, IInv, TypeOK

(***************************************************************************)
(* Processing of one event.                                                *)
(***************************************************************************)
\* What processing promises of the rows that it writes.
Processed ==
  /\ event' \in [Event -> EventRow] /\ SameEvents
  /\ order' \in OrderRow
  /\ delivery' \in OpenDelivery \cup {"NONE", "CANCELLED", "DELIVERED", "DELIVERY_FAILED"}
  /\ command' \in [Operation -> CommandRow]
  /\ \A op \in Operation : command'[op].status \in Unsent => command[op].status \in Unsent
  /\ Follows' /\ Attended'

\* Nothing but the row of the event, with no effect on the order.
LEMMA SetAside ==
  ASSUME IInv, own' = own, NEW e \in Event, UNCHANGED <<order, delivery>>,
         event' \in [Event -> EventRow], SameEvents,
         \A f \in Event : Done(f)' => Done(f) \/ event[f].code \notin ExternalStatus,
         command' \in [Operation -> CommandRow],
         \A op \in Operation : command'[op].status \in Unsent => command[op].status \in Unsent
  PROVE  Processed
<1>1. Follows' /\ Attended'
  BY FollowsKept, AttendedKept DEF IInv
<1> QED
  BY <1>1 DEF Processed, IInv, TypeOK

LEMMA passedOverSound ==
  ASSUME IInv, own' = own, NEW e \in Event, passedOver(e) PROVE Processed
<1>1. UNCHANGED <<event, order, delivery, command>>
  BY DEF passedOver
<1>2. SameEvents /\ \A f \in Event : Done(f)' => Done(f)
  BY <1>1 DEF SameEvents, Done
<1> QED
  BY <1>1, <1>2, SetAside DEF IInv, TypeOK

LEMMA refusedSound ==
  ASSUME IInv, own' = own, NEW e \in Event, cancellationRefused(e) PROVE Processed
<1>1. /\ event' \in [Event -> EventRow] /\ SameEvents
      /\ \A f \in Event : f # e => (Done(f)' <=> Done(f))
  BY HandledRow DEF cancellationRefused, IInv
<1>2. event[e].code \notin ExternalStatus
  BY Ranks DEF cancellationRefused
<1>3. /\ command' \in [Operation -> CommandRow]
      /\ \A op \in Operation : command'[op].status \in Unsent => command[op].status \in Unsent
  <2>1. "CANCEL" \in Operation /\ command["CANCEL"] \in CommandRow /\ command \in [Operation -> CommandRow]
    BY DEF Operation, IInv, TypeOK
  <2>2. /\ Refused(command["CANCEL"]) \in CommandRow
        /\ Refused(command["CANCEL"]).status \in Unsent => command["CANCEL"].status \in Unsent
    BY <2>1, CommandRows DEF Refused, Unsent
  <2>3. command' = command \/ command' = [command EXCEPT !["CANCEL"] = Refused(command["CANCEL"])]
    BY <2>1 DEF cancellationRefused
  <2> QED
    BY <2>1, <2>2, <2>3
<1> QED
  BY <1>1, <1>2, <1>3, SetAside DEF cancellationRefused

LEMMA ignoreSound ==
  ASSUME IInv, own' = own, NEW e \in Event, ignoreEvent(e) PROVE Processed
<1>1. /\ event' \in [Event -> EventRow] /\ SameEvents
      /\ \A f \in Event : f # e => (Done(f)' <=> Done(f))
      /\ event'[e].linked = event[e].linked
  BY HandledRow DEF ignoreEvent, IInv
<1>2. \A f \in Event : Done(f)' => Done(f) \/ event[f].code \notin ExternalStatus
  BY <1>1 DEF ignoreEvent, Done
<1> QED
  BY <1>1, <1>2, SetAside DEF ignoreEvent, IInv, TypeOK

LEMMA failSound ==
  ASSUME IInv, own' = own, NEW e \in Event, failEvent(e) PROVE Processed
<1>1. event[e] \in EventRow /\ event[e].attempts + 1 \in Nat /\ TypeOK
  BY DEF IInv, TypeOK, EventRow
<1>2. event' = [event EXCEPT ![e] = [event[e] EXCEPT !.status = "ERROR", !.attempts = event[e].attempts + 1]]
  BY <1>1 DEF failEvent, TypeOK
<1>3. /\ event' \in [Event -> EventRow] /\ SameEvents
      /\ \A f \in Event : f # e => (Done(f)' <=> Done(f))
      /\ event'[e].status = "ERROR"
  BY <1>1, <1>2, OneEvent
<1>4. \A f \in Event : Done(f)' => Done(f)
  BY <1>3 DEF Done
<1> QED
  BY <1>3, <1>4, SetAside DEF failEvent, IInv, TypeOK

\* The order takes the status of an event unless another one says more.
LEMMA applySound ==
  ASSUME IInv, own' = own, NEW e \in Event, applyEvent(e) PROVE Processed
<1> DEFINE advances == Advances(e)
           status == IF advances THEN event[e].code ELSE order.status
           creates == own /\ delivery = "NONE" /\ connection.create
                        /\ status \notin {"CANCELLED", "CONCLUDED", "DISPATCHED"}
           cancels == advances /\ own /\ status = "CANCELLED" /\ delivery \in OpenDelivery
           confirms == {op \in Operation : /\ advances /\ own /\ command[op].status # "NONE"
                                           /\ status \in DOMAIN commandForStatus
                                           /\ op = commandForStatus[status]}
<1>1. /\ event[e].code \in ExternalStatus
      /\ order' = IF advances THEN [status |-> status, at |-> event[e].at] ELSE order
      /\ delivery' = IF creates THEN "DRAFT" ELSE IF cancels THEN "CANCELLED" ELSE delivery
      /\ command' = [op \in Operation |-> IF op \in confirms
                       THEN [command[op] EXCEPT !.status = "CONFIRMED"] ELSE command[op]]
      /\ event' = Handled(e, IF own THEN "PROCESSED" ELSE "IGNORED")
  BY DEF applyEvent
<1>2. TypeOK /\ event[e] \in EventRow /\ event[e].at \in Nat /\ e \in StatusEvents
  BY <1>1 DEF IInv, TypeOK, EventRow, StatusEvents
<1>3. /\ event' \in [Event -> EventRow] /\ SameEvents
      /\ \A f \in Event : f # e => (Done(f)' <=> Done(f))
  BY <1>1, <1>2, HandledRow
<1>4. /\ advances => order'.status = event[e].code /\ order'.at = event[e].at
      /\ ~advances => order' = order
      /\ order' \in OrderRow /\ order'.status = status
  BY <1>1, <1>2 DEF TypeOK, OrderRow
<1>5. /\ command' \in [Operation -> CommandRow]
      /\ \A op \in Operation : command'[op].status \in Unsent => command[op].status \in Unsent
  <2> SUFFICES ASSUME NEW op \in Operation
               PROVE  command'[op] \in CommandRow /\ (command'[op].status \in Unsent => command[op].status \in Unsent)
    BY <1>1
  <2>1. command[op] \in CommandRow
    BY <1>2 DEF TypeOK
  <2>2. CASE op \in confirms
    BY <1>1, <2>1, <2>2, CommandRows DEF Unsent
  <2>3. CASE op \notin confirms
    BY <1>1, <2>1, <2>3
  <2> QED
    BY <2>2, <2>3
<1>6. Attended'
  <2>1. ~own => delivery' = "NONE"
    BY <1>1 DEF IInv, Attended
  <2>2. order'.status = "CANCELLED" => delivery' \notin OpenDelivery
    <3> SUFFICES ASSUME status = "CANCELLED" PROVE delivery' \notin OpenDelivery
      BY <1>4
    <3>1. ~creates
      OBVIOUS
    <3>2. CASE cancels
      BY <1>1, <3>1, <3>2 DEF OpenDelivery
    <3>3. CASE ~cancels /\ advances
      BY <1>1, <3>1, <3>3 DEF OpenDelivery, IInv, Attended
    <3>4. CASE ~advances
      BY <1>1, <3>1, <3>4 DEF IInv, Attended, CancelledOrderIsClosed
    <3> QED
      BY <3>2, <3>3, <3>4
  <2> QED
    BY <2>1, <2>2 DEF Attended, CancelledOrderIsClosed
<1>7. StatusEvents' = StatusEvents /\ \A f \in StatusEvents : f \in Event /\ event[f].code \in ExternalStatus
  BY <1>3, EmissionKept DEF StatusEvents
<1> HIDE DEF creates, cancels, confirms
<1>8. Follows'
  <2>1. CASE advances
    <3>1. \A f \in StatusEvents : Done(f)' => Rank[event[f].code] <= Rank[event[e].code]
      <4> SUFFICES ASSUME NEW f \in StatusEvents, Done(f)', f # e
                   PROVE  Rank[event[f].code] <= Rank[event[e].code]
        BY <1>2, <1>7, RankOrder
      <4>1. Done(f) /\ order.status # "NONE" /\ Rank[event[f].code] <= Rank[order.status]
        BY <1>3, <1>7 DEF IInv, Follows
      <4>2. Rank[order.status] <= Rank[event[e].code]
        BY <2>1, <4>1 DEF Advances, advancesExternalStatus
      <4>3. order.status \in ExternalStatus
        BY <1>2, <4>1 DEF TypeOK, OrderRow
      <4> QED
        BY <1>1, <1>7, <4>1, <4>2, <4>3, RankOrder
    <3>2. order'.status # "NONE"
      BY <1>1, <1>4, <2>1, RankOrder
    <3> QED
      BY <1>2, <1>3, <1>4, <1>7, <2>1, <3>1, <3>2 DEF Follows, SameEvents
  <2>2. CASE ~advances
    <3>1. order.status # "NONE" /\ order.status \in ExternalStatus
      BY <1>2, <2>2 DEF Advances, TypeOK, OrderRow
    <3>2. PICK x \in StatusEvents : order.status = event[x].code /\ order.at = event[x].at
      BY <3>1 DEF IInv, Follows
    <3>3. Rank[event[e].code] <= Rank[order.status]
      <4>1. CASE event[e].at >= order.at
        <5>1. \/ order.status = "CANCELLED"
              \/ order.status = "CONCLUDED" /\ event[e].code # "CANCELLED"
              \/ ~(Rank[event[e].code] >= Rank[order.status])
          BY <2>2, <3>1, <4>1 DEF Advances, advancesExternalStatus
        <5> QED
          BY <1>1, <3>1, <5>1, RankOrder
      <4>2. CASE ~(event[e].at >= order.at)
        <5>1. e \in Nat /\ x \in Nat /\ e \in Emitted /\ x \in Emitted /\ event[x].at \in Nat
          BY <1>2, <1>7, RankOrder DEF StatusEvents, Emitted, Event, TypeOK, EventRow
        <5>2. ~(x <= e)
          BY <1>2, <3>2, <4>2, <5>1 DEF IInv, Emission
        <5>3. e <= x
          BY <5>1, <5>2
        <5> QED
          BY <1>2, <3>2, <5>3 DEF IInv, Emission
      <4> QED
        BY <4>1, <4>2
    <3>4. \A f \in StatusEvents : Done(f)' => Rank[event[f].code] <= Rank[order.status]
      BY <1>3, <1>7, <3>3 DEF IInv, Follows
    <3> QED
      BY <1>3, <1>4, <1>7, <2>2, <3>1, <3>2, <3>4 DEF Follows, SameEvents
  <2> QED
    BY <2>1, <2>2
<1>9. delivery' \in OpenDelivery \cup {"NONE", "CANCELLED", "DELIVERED", "DELIVERY_FAILED"}
  BY <1>1, <1>2 DEF TypeOK, OpenDelivery
<1> QED
  BY <1>3, <1>4, <1>5, <1>6, <1>8, <1>9 DEF Processed

LEMMA processSound ==
  ASSUME IInv, own' = own, NEW e \in Event, processEvent(e) PROVE Processed
BY passedOverSound, refusedSound, ignoreSound, applySound, failSound DEF processEvent

(***************************************************************************)
(* The tick of a worker.                                                   *)
(***************************************************************************)
\* A worker takes another step than sending.
LEMMA AnotherStep ==
  ASSUME TypeOK, NEW w \in Worker, NEW row \in WorkerRow, row.step \notin {"SEND", "RECORD"},
         worker' = [worker EXCEPT ![w] = row]
  PROVE  /\ worker' \in [Worker -> WorkerRow]
         /\ \A v \in Worker : worker'[v].step \in {"SEND", "RECORD"} => worker'[v] = worker[v]
BY DEF TypeOK

\* What a step of a worker that does not send keeps, whatever it does to the rest.
LEMMA QuietStep ==
  ASSUME IInv, NEW w \in Worker, NEW row \in WorkerRow, row.step \notin {"SEND", "RECORD"},
         worker' = [worker EXCEPT ![w] = row], accepted' = accepted,
         \A op \in Operation : command'[op].status \in Unsent => command[op].status \in Unsent
  PROVE  /\ worker' \in [Worker -> WorkerRow]
         /\ (\A op \in Operation : Sends(op)') /\ Armed'
<1>1. /\ worker' \in [Worker -> WorkerRow]
      /\ \A v \in Worker : worker'[v].step \in {"SEND", "RECORD"} => worker'[v] = worker[v]
  BY AnotherStep DEF IInv
<1>2. \A v \in Worker : worker'[v].step \in {"SEND", "RECORD"} =>
        /\ worker'[v].step = worker[v].step /\ worker'[v].operation = worker[v].operation
        /\ worker'[v].answer = worker[v].answer
  BY <1>1
<1> QED
  BY <1>1, <1>2, SendsKept DEF IInv

\* A step that moves the worker on, and touches neither orders nor commands.
LEMMA MovesOn ==
  ASSUME IInv, NEW w \in Worker, NEW row \in WorkerRow, row.step \notin {"SEND", "RECORD"},
         worker' = [worker EXCEPT ![w] = row],
         UNCHANGED <<connection, event, order, own, delivery, changes, command, accepted>>,
         unacked' \subseteq unacked, lock' \in Worker \cup {NoOne}, crashes' \in Nat, overruns' \in Nat
  PROVE  IInv'
<1>1. /\ worker' \in [Worker -> WorkerRow]
      /\ (\A op \in Operation : Sends(op)') /\ Armed'
  BY QuietStep
<1>2. TypeOK'
  BY <1>1, EventsAlone DEF IInv, TypeOK
<1>3. Emission' /\ Follows' /\ Attended'
  BY EventsAlone, AttendedKept DEF IInv
<1> QED
  BY <1>1, <1>2, <1>3 DEF IInv

LEMMA TickEndsSound ==
  ASSUME IInv, NEW w \in Worker, TickEnds(w), UNCHANGED <<orderVars, command, accepted>>,
         crashes' \in Nat, overruns' \in Nat
  PROVE  IInv'
<1>1. Resting \in WorkerRow /\ Resting.step = "IDLE"
  BY DEF WorkerRow, Resting
<1>2. worker' = [worker EXCEPT ![w] = Resting] /\ lock' \in Worker \cup {NoOne}
  BY DEF TickEnds, IInv, TypeOK
<1> HIDE DEF Resting
<1> QED
  BY <1>1, <1>2, MovesOn DEF orderVars, IInv, TypeOK

LEMMA GoesSound ==
  ASSUME IInv, NEW w \in Worker, NEW from,
         NEW to \in {"ACK", "EVENTS", "PROCESS", "RELEASE", "COMMANDS", "CLAIM"}, Goes(w, from, to)
  PROVE  \E row \in WorkerRow : row.step = to /\ worker' = [worker EXCEPT ![w] = row]
<1>1. worker[w] \in WorkerRow
  BY DEF IInv, TypeOK
<1>2. /\ [worker[w] EXCEPT !.step = to] \in WorkerRow
      /\ [worker[w] EXCEPT !.step = to].step = to
  BY <1>1 DEF WorkerRow
<1>3. worker' = [worker EXCEPT ![w] = [worker[w] EXCEPT !.step = to]]
  BY DEF Goes, IInv, TypeOK
<1> QED
  BY <1>2, <1>3

LEMMA pollSound ==
  ASSUME IInv, NEW w \in Worker, poll(w)
  PROVE  IInv'
<1>1. /\ lock' = w
      /\ UNCHANGED <<connection, unacked, order, own, delivery, changes, command, accepted, faultVars>>
      /\ worker[w] \in WorkerRow /\ TypeOK
  BY DEF poll, IInv, TypeOK
<1>2. PICK row \in WorkerRow : row.step \in {"ACK", "EVENTS"} /\ worker' = [worker EXCEPT ![w] = row]
  <2>1. unacked \in SUBSET Event
    BY <1>1 DEF TypeOK, Emitted
  <2>2. /\ [worker[w] EXCEPT !.step = "ACK", !.batch = unacked] \in WorkerRow
        /\ [worker[w] EXCEPT !.step = "ACK", !.batch = unacked].step = "ACK"
        /\ [worker[w] EXCEPT !.step = "EVENTS"] \in WorkerRow
        /\ [worker[w] EXCEPT !.step = "EVENTS"].step = "EVENTS"
    BY <1>1, <2>1 DEF WorkerRow
  <2>3. \/ worker' = [worker EXCEPT ![w] = [worker[w] EXCEPT !.step = "ACK", !.batch = unacked]]
        \/ worker' = [worker EXCEPT ![w] = [worker[w] EXCEPT !.step = "EVENTS"]]
    BY <1>1 DEF poll, TypeOK
  <2> QED
    BY <2>2, <2>3
<1>3. /\ worker' \in [Worker -> WorkerRow]
      /\ (\A op \in Operation : Sends(op)') /\ Armed'
  BY <1>1, <1>2, QuietStep
<1>4. /\ event' \in [Event -> EventRow] /\ SameEvents
      /\ \A e \in Event : Done(e)' => Done(e)
  <2>1. CASE event' = Ingested(unacked)
    BY <1>1, <2>1, Ingestion
  <2>2. CASE event' = event
    BY <1>1, <2>2 DEF SameEvents, Done, TypeOK
  <2> QED
    BY <2>1, <2>2 DEF poll
<1>5. TypeOK'
  BY <1>1, <1>3, <1>4, EmissionKept DEF TypeOK, faultVars
<1>6. Emission' /\ Follows' /\ Attended'
  BY <1>1, <1>4, EmissionKept, FollowsKept, AttendedKept DEF IInv
<1> QED
  BY <1>3, <1>5, <1>6 DEF IInv

LEMMA acknowledgeSound ==
  ASSUME IInv, NEW w \in Worker, acknowledge(w)
  PROVE  IInv'
<1>1. worker[w] \in WorkerRow
  BY DEF IInv, TypeOK
<1>2. /\ [worker[w] EXCEPT !.step = "EVENTS", !.batch = {}] \in WorkerRow
      /\ [worker[w] EXCEPT !.step = "EVENTS", !.batch = {}].step = "EVENTS"
  BY <1>1 DEF WorkerRow
<1>3. worker' = [worker EXCEPT ![w] = [worker[w] EXCEPT !.step = "EVENTS", !.batch = {}]]
  BY DEF acknowledge, IInv, TypeOK
<1> QED
  BY <1>2, <1>3, MovesOn DEF acknowledge, faultVars, IInv, TypeOK

LEMMA AttachedRow ==
  ASSUME NEW row \in EventRow
  PROVE  /\ [row EXCEPT !.linked = TRUE, !.status = "RECEIVED", !.attempts = 0] \in EventRow
         /\ [row EXCEPT !.linked = TRUE, !.status = "RECEIVED", !.attempts = 0].code = row.code
         /\ [row EXCEPT !.linked = TRUE, !.status = "RECEIVED", !.attempts = 0].at = row.at
         /\ [row EXCEPT !.linked = TRUE, !.status = "RECEIVED", !.attempts = 0].status = "RECEIVED"
<1>1. TRUE \in BOOLEAN /\ 0 \in Nat
  OBVIOUS
<1> QED
  BY <1>1 DEF EventRow

LEMMA selectSound ==
  ASSUME IInv, NEW w \in Worker, selectEvents(w)
  PROVE  IInv'
<1>1. TypeOK /\ worker[w] \in WorkerRow
  BY DEF IInv, TypeOK
<1>2. UNCHANGED <<connection, unacked, order, own, delivery, changes, command, lock, accepted, faultVars>>
  BY DEF selectEvents
<1>3. PICK B \in SUBSET Event : worker' = [worker EXCEPT ![w] = [worker[w] EXCEPT !.step = "PROCESS", !.batch = B]]
  <2>1. PICK resting \in SUBSET {e \in Event : event'[e].status = "ERROR"} :
          worker' = [worker EXCEPT ![w].step = "PROCESS",
                                   ![w].batch = {e \in Event : Selectable(event'[e])} \ resting]
    BY DEF selectEvents
  <2> DEFINE B == {e \in Event : Selectable(event'[e])} \ resting
  <2>2. B \in SUBSET Event
    OBVIOUS
  <2>3. worker' = [worker EXCEPT ![w].step = "PROCESS", ![w].batch = B]
    BY <2>1
  <2> HIDE DEF B
  <2>4. worker' = [worker EXCEPT ![w] = [worker[w] EXCEPT !.step = "PROCESS", !.batch = B]]
    BY <1>1, <2>3 DEF TypeOK
  <2> QED
    BY <2>2, <2>4
<1>4. /\ [worker[w] EXCEPT !.step = "PROCESS", !.batch = B] \in WorkerRow
      /\ [worker[w] EXCEPT !.step = "PROCESS", !.batch = B].step = "PROCESS"
  BY <1>1 DEF WorkerRow
<1>5. /\ worker' \in [Worker -> WorkerRow]
      /\ (\A op \in Operation : Sends(op)') /\ Armed'
  BY <1>2, <1>3, <1>4, QuietStep
<1>6. ASSUME NEW e \in Event
      PROVE  /\ event'[e] \in EventRow /\ event'[e].code = event[e].code /\ event'[e].at = event[e].at
             /\ Done(e)' => Done(e)
  <2>1. event[e] \in EventRow /\ event' = Attached
    BY <1>1 DEF TypeOK, selectEvents
  <2>2. CASE connection.enabled /\ ~event[e].linked /\ event[e].status \notin {"ABSENT", "EMITTED"}
    <3>1. event'[e] = [event[e] EXCEPT !.linked = TRUE, !.status = "RECEIVED", !.attempts = 0]
      BY <2>1, <2>2 DEF Attached
    <3>2. /\ event'[e] \in EventRow /\ event'[e].code = event[e].code /\ event'[e].at = event[e].at
          /\ event'[e].status = "RECEIVED"
      BY <2>1, <3>1, AttachedRow
    <3> QED
      BY <3>2 DEF Done
  <2>3. CASE ~(connection.enabled /\ ~event[e].linked /\ event[e].status \notin {"ABSENT", "EMITTED"})
    BY <2>1, <2>3 DEF Attached, Done
  <2> QED
    BY <2>2, <2>3
<1>7. event' \in [Event -> EventRow] /\ SameEvents
  BY <1>6 DEF selectEvents, Attached, SameEvents
<1>8. TypeOK'
  BY <1>1, <1>2, <1>5, <1>7, EmissionKept DEF TypeOK, faultVars
<1>9. Emission' /\ Follows' /\ Attended'
  BY <1>2, <1>6, <1>7, EmissionKept, FollowsKept, AttendedKept DEF IInv
<1> QED
  BY <1>5, <1>8, <1>9 DEF IInv

LEMMA processNextSound ==
  ASSUME IInv, NEW w \in Worker, processNext(w)
  PROVE  IInv'
<1>1. UNCHANGED <<connection, unacked, own, changes, lock, accepted, faultVars>>
  BY DEF processNext
<1>2. TypeOK /\ worker[w] \in WorkerRow /\ worker[w].step = "PROCESS" /\ worker[w].batch \in SUBSET Event
  BY DEF IInv, TypeOK, WorkerRow, processNext
<1>3. PICK e \in worker[w].batch : /\ processEvent(e)
                                   /\ worker' = [worker EXCEPT ![w].batch = worker[w].batch \ {e}]
  BY <1>2 DEF processNext, TypeOK
<1>4. Processed
  BY <1>1, <1>2, <1>3, processSound
<1> DEFINE B == worker[w].batch \ {e}
<1>5. B \in SUBSET Event
  BY <1>2
<1>6. worker' = [worker EXCEPT ![w] = [worker[w] EXCEPT !.batch = B]]
  BY <1>2, <1>3 DEF TypeOK
<1> HIDE DEF B
<1>7. /\ [worker[w] EXCEPT !.batch = B] \in WorkerRow
      /\ [worker[w] EXCEPT !.batch = B].step = "PROCESS"
  BY <1>2, <1>5 DEF WorkerRow
<1>8. /\ worker' \in [Worker -> WorkerRow]
      /\ (\A op \in Operation : Sends(op)') /\ Armed'
  BY <1>1, <1>4, <1>6, <1>7, QuietStep DEF Processed
<1>9. TypeOK'
  BY <1>1, <1>2, <1>4, <1>8, EmissionKept DEF TypeOK, Processed, faultVars
<1>10. Emission' /\ Follows' /\ Attended'
  BY <1>4, EmissionKept DEF IInv, Processed
<1> QED
  BY <1>8, <1>9, <1>10 DEF IInv

LEMMA readDueSound ==
  ASSUME IInv, NEW w \in Worker, readDue(w)
  PROVE  IInv'
<1>1. PICK row \in WorkerRow : row.step \in {"RELEASE", "COMMANDS"} /\ worker' = [worker EXCEPT ![w] = row]
  BY GoesSound DEF readDue
<1> QED
  BY <1>1, MovesOn DEF readDue, orderVars, faultVars, IInv, TypeOK

LEMMA releaseDueSound ==
  ASSUME IInv, NEW w \in Worker, releaseDue(w)
  PROVE  IInv'
<1>1. UNCHANGED <<connection, event, unacked, order, own, changes, command, accepted, faultVars>>
  BY DEF releaseDue
<1>2. CASE connection.enabled /\ ~Releasable
  BY <1>1, <1>2, TickEndsSound DEF releaseDue, orderVars, faultVars, IInv, TypeOK
<1>3. CASE ~(connection.enabled /\ ~Releasable)
  <2>1. PICK row \in WorkerRow : row.step = "COMMANDS" /\ worker' = [worker EXCEPT ![w] = row]
    BY <1>3, GoesSound DEF releaseDue
  <2>2. /\ worker' \in [Worker -> WorkerRow]
        /\ (\A op \in Operation : Sends(op)') /\ Armed'
    BY <1>1, <2>1, QuietStep
  <2>3. lock' = lock /\ delivery' = IF connection.enabled THEN Released ELSE delivery
    BY <1>3 DEF releaseDue
  <2>4. TypeOK'
    BY <1>1, <2>2, <2>3, EventsAlone DEF IInv, TypeOK, faultVars, Released, OpenDelivery
  <2>5. Emission' /\ Follows' /\ Attended'
    BY <1>1, <1>3, <2>3, EventsAlone, AttendedKept DEF IInv, Released, Releasable, OpenDelivery
  <2> QED
    BY <2>2, <2>4, <2>5 DEF IInv
<1> QED
  BY <1>2, <1>3


(***************************************************************************)
(* Commands.                                                               *)
(***************************************************************************)
\* A step of the commands and of who sends them.
LEMMA OrdersAlone ==
  ASSUME IInv, UNCHANGED <<orderVars, lock, faultVars>>,
         command' \in [Operation -> CommandRow], accepted' \in [Operation -> Nat],
         worker' \in [Worker -> WorkerRow], \A op \in Operation : Sends(op)', Armed'
  PROVE  IInv'
<1>1. UNCHANGED <<connection, event, unacked, order, own, delivery, changes>>
  BY DEF orderVars
<1>2. TypeOK'
  BY <1>1, EventsAlone DEF IInv, TypeOK, faultVars
<1>3. Emission' /\ Follows' /\ Attended'
  BY <1>1, EventsAlone, AttendedKept DEF IInv
<1> QED
  BY <1>2, <1>3 DEF IInv

LEMMA requestActionSound ==
  ASSUME IInv, NEW op \in Operation, requestAction(op)
  PROVE  IInv'
<1>1. /\ command[op] \in CommandRow /\ command[op].status = "NONE" /\ command \in [Operation -> CommandRow]
      /\ accepted \in [Operation -> Nat] /\ worker \in [Worker -> WorkerRow]
  BY DEF requestAction, IInv, TypeOK
<1>2. UNCHANGED <<orderVars, worker, lock, accepted, faultVars>>
  BY DEF requestAction
<1>3. command' = [command EXCEPT ![op] = [command[op] EXCEPT !.status = "REQUESTED"]]
  BY <1>1 DEF requestAction
<1>4. [command[op] EXCEPT !.status = "REQUESTED"] \in CommandRow
  BY <1>1, CommandRows
<1>5. /\ command' \in [Operation -> CommandRow]
      /\ \A o \in Operation : command'[o].status \in Unsent => command[o].status \in Unsent
  BY <1>1, <1>3, <1>4 DEF Unsent
<1>6. (\A o \in Operation : Sends(o)') /\ Armed'
  BY <1>2, <1>5, NobodySends
<1> QED
  BY <1>1, <1>2, <1>5, <1>6, OrdersAlone

LEMMA startCommandsSound ==
  ASSUME IInv, NEW w \in Worker, startCommands(w)
  PROVE  IInv'
<1>1. PICK row \in WorkerRow : row.step = "CLAIM" /\ worker' = [worker EXCEPT ![w] = row]
  BY GoesSound DEF startCommands
<1>2. UNCHANGED <<orderVars, lock, accepted, faultVars>> /\ accepted \in [Operation -> Nat]
  BY DEF startCommands, IInv, TypeOK
<1>3. /\ command' \in [Operation -> CommandRow]
      /\ \A op \in Operation : command'[op].status \in Unsent => command[op].status \in Unsent
  <2>1. PICK late \in SUBSET {op \in Operation : command[op].status = "SENDING"} :
          command' = [op \in Operation |-> IF op \in late THEN GivenUp(command[op]) ELSE command[op]]
    BY DEF startCommands
  <2>2. \A op \in Operation :
          /\ command[op] \in CommandRow /\ GivenUp(command[op]) \in CommandRow
          /\ GivenUp(command[op]).status = "UNCERTAIN"
    BY CommandRows DEF GivenUp, IInv, TypeOK
  <2> QED
    BY <2>1, <2>2 DEF Unsent
<1>4. /\ worker' \in [Worker -> WorkerRow]
      /\ (\A op \in Operation : Sends(op)') /\ Armed'
  BY <1>1, <1>2, <1>3, QuietStep
<1> QED
  BY <1>2, <1>3, <1>4, OrdersAlone

\* Who claims is the only sender, of what iFood has not taken.
LEMMA claimSound ==
  ASSUME IfoodWorkerAssumption, IInv, NEW w \in Worker, NEW op \in Operation, claimCommand(w, op)
  PROVE  IInv'
<1>1. /\ worker[w] \in WorkerRow /\ worker[w].step = "CLAIM" /\ command[op] \in CommandRow
      /\ command[op].status = "REQUESTED" /\ command[op].attempts < MaxSends
      /\ command \in [Operation -> CommandRow] /\ worker \in [Worker -> WorkerRow]
      /\ accepted \in [Operation -> Nat]
  BY DEF claimCommand, Claimable, IInv, TypeOK
<1> DEFINE row == [worker[w] EXCEPT !.step = "SEND", !.operation = op]
           c == [status |-> "SENDING", attempts |-> command[op].attempts + 1]
<1>2. row \in WorkerRow /\ row.step = "SEND" /\ row.operation = op
  BY <1>1 DEF WorkerRow
<1>3. c \in CommandRow /\ c.status = "SENDING"
  BY <1>1 DEF CommandRow, IfoodWorkerAssumption
<1>4. /\ command' = [command EXCEPT ![op] = c] /\ worker' = [worker EXCEPT ![w] = row]
      /\ UNCHANGED <<orderVars, lock, accepted, faultVars>>
  BY <1>1 DEF claimCommand
<1> HIDE DEF row, c
<1>5. command' \in [Operation -> CommandRow] /\ worker' \in [Worker -> WorkerRow]
  BY <1>1, <1>2, <1>3, <1>4
<1>6. /\ worker'[w] = row /\ \A v \in Worker : v # w => worker'[v] = worker[v]
      /\ command'[op] = c /\ \A o \in Operation : o # op => command'[o] = command[o]
  BY <1>1, <1>4
<1>7. accepted[op] = 0 /\ \A v \in Worker : ~Sender(v, op)
  BY <1>1 DEF IInv, Sends, Unsent
<1>8. ASSUME NEW o \in Operation PROVE Sends(o)'
  <2>1. Sends(o) /\ accepted' = accepted
    BY <1>4 DEF IInv
  <2>2. CASE o = op
    <3>1. \A v \in Worker : Sender(v, o)' => v = w
      BY <1>6, <1>7, <2>2 DEF Sender
    <3> QED
      BY <1>3, <1>6, <1>7, <2>1, <2>2, <3>1 DEF Sends, Unsent
  <2>3. CASE o # op
    <3>1. \A v \in Worker : Sender(v, o)' => Sender(v, o) /\ worker'[v] = worker[v]
      BY <1>2, <1>6, <2>3 DEF Sender
    <3> QED
      BY <1>6, <2>1, <2>3, <3>1 DEF Sends
  <2> QED
    BY <2>2, <2>3
<1>9. Armed'
  BY <1>2, <1>6 DEF IInv, Armed
<1> QED
  BY <1>1, <1>4, <1>5, <1>8, <1>9, OrdersAlone

LEMMA endTickSound ==
  ASSUME IInv, NEW w \in Worker, endTick(w)
  PROVE  IInv'
BY TickEndsSound DEF endTick, faultVars, IInv, TypeOK

LEMMA sendSound ==
  ASSUME IInv, NEW w \in Worker, sendCommand(w)
  PROVE  IInv'
<1> DEFINE op == worker[w].operation
<1>1. /\ worker[w] \in WorkerRow /\ worker[w].step = "SEND" /\ command \in [Operation -> CommandRow]
      /\ worker \in [Worker -> WorkerRow] /\ accepted \in [Operation -> Nat]
  BY DEF sendCommand, IInv, TypeOK
<1>2. op \in Operation /\ Sender(w, op) /\ Sends(op) /\ accepted[op] = 0 /\ command[op].status \notin Unsent
  BY <1>1 DEF IInv, Armed, Sender, Sends
<1>3. PICK taken \in BOOLEAN, answer \in {"ACCEPTED", "REJECTED", "TOO_MANY", "LOST"} :
        /\ taken => answer \in {"ACCEPTED", "LOST"}
        /\ accepted' = IF taken THEN [accepted EXCEPT ![op] = accepted[op] + 1] ELSE accepted
        /\ worker' = [worker EXCEPT ![w].step = "RECORD", ![w].answer = answer]
  BY <1>1, <1>2 DEF sendCommand
<1> DEFINE row == [worker[w] EXCEPT !.step = "RECORD", !.answer = answer]
<1>4. row \in WorkerRow /\ row.step = "RECORD" /\ row.answer = answer /\ row.operation = op
  BY <1>1 DEF WorkerRow
<1>5. worker' = [worker EXCEPT ![w] = row] /\ UNCHANGED <<orderVars, command, lock, faultVars>>
  BY <1>1, <1>3 DEF sendCommand
<1> HIDE DEF row
<1>6. /\ worker' \in [Worker -> WorkerRow]
      /\ worker'[w] = row /\ \A v \in Worker : v # w => worker'[v] = worker[v]
  BY <1>1, <1>4, <1>5
<1> HIDE DEF op
<1>7. /\ accepted' \in [Operation -> Nat] /\ accepted'[op] <= 1 /\ (~taken => accepted'[op] = 0)
      /\ \A o \in Operation : o # op => accepted'[o] = accepted[o]
  BY <1>1, <1>2, <1>3
<1>8. ASSUME NEW o \in Operation PROVE Sends(o)'
  <2>1. Sends(o) /\ command' = command
    BY <1>5 DEF IInv
  <2>2. \A v \in Worker : Sender(v, o)' <=> Sender(v, o)
    BY <1>2, <1>4, <1>6 DEF Sender
  <2>3. CASE o = op
    <3>1. \A v \in Worker : Sender(v, o) => v = w
      BY <1>2, <2>3 DEF Sends
    <3>2. worker'[w].answer \in {"REJECTED", "TOO_MANY"} => ~taken
      BY <1>3, <1>4, <1>6
    <3>3. worker'[w].step # "SEND"
      BY <1>4, <1>6
    <3> QED
      BY <1>2, <1>7, <2>1, <2>2, <2>3, <3>1, <3>2, <3>3 DEF Sends
  <2>4. CASE o # op
    <3>1. \A v \in Worker : Sender(v, o) => worker'[v] = worker[v]
      BY <1>2, <1>6, <2>4 DEF Sender
    <3> QED
      BY <1>7, <2>1, <2>2, <2>4, <3>1 DEF Sends
  <2> QED
    BY <2>3, <2>4
<1>9. Armed'
  BY <1>2, <1>4, <1>6 DEF IInv, Armed
<1> QED
  BY <1>1, <1>5, <1>6, <1>7, <1>8, <1>9, OrdersAlone

\* What is requested again was refused, and loses its only sender.
LEMMA recordSound ==
  ASSUME IInv, NEW w \in Worker, recordOutcome(w)
  PROVE  IInv'
<1> DEFINE op == worker[w].operation
           s == Outcome(command[op], worker[w].answer)
           row == [Resting EXCEPT !.step = "CLAIM"]
<1>1. /\ worker[w] \in WorkerRow /\ worker[w].step = "RECORD" /\ command \in [Operation -> CommandRow]
      /\ worker \in [Worker -> WorkerRow] /\ accepted \in [Operation -> Nat]
  BY DEF recordOutcome, IInv, TypeOK
<1>2. op \in Operation /\ Sender(w, op) /\ Sends(op) /\ worker[w].answer # "NONE" /\ command[op] \in CommandRow
  BY <1>1 DEF IInv, Armed, Sender
<1>3. /\ s \in {"REQUEST_SENT", "REQUESTED", "ERROR", "UNCERTAIN"}
      /\ s = "REQUESTED" => worker[w].answer = "TOO_MANY"
  BY <1>1, <1>2 DEF WorkerRow, Outcome
<1>4. row \in WorkerRow /\ row.step = "CLAIM"
  BY DEF WorkerRow, Resting
<1>5. worker' = [worker EXCEPT ![w] = row] /\ UNCHANGED <<orderVars, lock, accepted, faultVars>>
  BY DEF recordOutcome
<1>6. command' = IF command[op].status = "SENDING"
                 THEN [command EXCEPT ![op] = [command[op] EXCEPT !.status = s]] ELSE command
  BY <1>1, <1>2 DEF recordOutcome
<1> HIDE DEF row, s
<1>7. /\ worker' \in [Worker -> WorkerRow]
      /\ worker'[w] = row /\ \A v \in Worker : v # w => worker'[v] = worker[v]
  BY <1>1, <1>4, <1>5
<1> HIDE DEF op
<1>8. [command[op] EXCEPT !.status = s] \in CommandRow /\ [command[op] EXCEPT !.status = s].status = s
  <2>1. s \in {"NONE", "REQUESTED", "SENDING", "REQUEST_SENT", "CONFIRMED", "ERROR", "UNCERTAIN"}
    BY <1>3
  <2> QED
    BY <1>2, <2>1, CommandRows
<1>9. /\ command' \in [Operation -> CommandRow]
      /\ \A o \in Operation : o # op => command'[o] = command[o]
      /\ command'[op].status = command[op].status \/ command'[op].status = s
  BY <1>1, <1>2, <1>6, <1>8
<1>10. ASSUME NEW o \in Operation PROVE Sends(o)'
  <2>1. Sends(o) /\ accepted' = accepted
    BY <1>5 DEF IInv
  <2>2. \A v \in Worker : Sender(v, o)' => Sender(v, o) /\ v # w /\ worker'[v] = worker[v]
    BY <1>4, <1>7 DEF Sender
  <2>3. CASE o = op
    <3>1. \A v \in Worker : ~Sender(v, o)'
      BY <1>2, <2>2, <2>3 DEF Sends
    <3>2. command'[o].status \in Unsent => accepted[o] = 0
      BY <1>1, <1>2, <1>3, <1>9, <2>3 DEF Sends, Unsent
    <3> QED
      BY <2>1, <3>1, <3>2 DEF Sends
  <2>4. CASE o # op
    BY <1>9, <2>1, <2>2, <2>4 DEF Sends
  <2> QED
    BY <2>3, <2>4
<1>11. Armed'
  BY <1>4, <1>7 DEF IInv, Armed
<1> QED
  BY <1>1, <1>5, <1>7, <1>9, <1>10, <1>11, OrdersAlone

(***************************************************************************)
(* Faults.                                                                 *)
(***************************************************************************)
LEMMA crashSound ==
  ASSUME IInv, NEW w \in Worker, crash(w)
  PROVE  IInv'
<1>1. crashes' \in Nat /\ overruns' \in Nat
  BY DEF crash, IInv, TypeOK
<1> QED
  BY <1>1, TickEndsSound DEF crash

LEMMA loseLockSound ==
  ASSUME IInv, NEW w \in Worker, loseLock(w)
  PROVE  IInv'
<1>1. /\ UNCHANGED <<connection, event, unacked, order, own, delivery, changes, command, worker, accepted, crashes>>
      /\ overruns' \in Nat /\ lock' = NoOne
  BY DEF loseLock, orderVars, IInv, TypeOK
<1>2. (\A op \in Operation : Sends(op)') /\ Armed'
  BY <1>1, NobodySends
<1>3. TypeOK'
  BY <1>1, EventsAlone DEF IInv, TypeOK
<1>4. Emission' /\ Follows' /\ Attended'
  BY <1>1, EventsAlone, AttendedKept DEF IInv
<1> QED
  BY <1>2, <1>3, <1>4 DEF IInv

(***************************************************************************)
(* The invariant, and what follows from it.                                *)
(***************************************************************************)
LEMMA OutsideSound ==
  ASSUME ExternalOrdersAssumption, IInv, Outside, Aside
  PROVE  IInv'
BY emitSound, webhookSound, reprocessSound, configureSound, departSound, endSound,
   createManualSound, releaseSound DEF Outside

LEMMA TicksSound ==
  ASSUME IfoodWorkerAssumption, IInv, NEW w \in Worker, Ticks(w)
  PROVE  IInv'
BY pollSound, acknowledgeSound, selectSound, processNextSound, readDueSound, releaseDueSound,
   startCommandsSound, claimSound, endTickSound, sendSound, recordSound DEF Ticks

LEMMA NextSound ==
  ASSUME ExternalOrdersAssumption, IfoodWorkerAssumption, IInv, [Next]_vars
  PROVE  IInv'
<1>1. CASE Outside /\ UNCHANGED <<lock, accepted, faultVars>>
  BY <1>1, OutsideSound DEF Aside
<1>2. ASSUME NEW op \in Operation, requestAction(op) PROVE IInv'
  BY <1>2, requestActionSound
<1>3. ASSUME NEW w \in Worker, Ticks(w) \/ crash(w) \/ loseLock(w) PROVE IInv'
  BY <1>3, TicksSound, crashSound, loseLockSound
<1>4. CASE UNCHANGED vars
  <2>1. UNCHANGED <<orderVars, lock, faultVars>> /\ UNCHANGED <<command, worker, accepted>>
    BY <1>4 DEF vars
  <2>2. (\A op \in Operation : Sends(op)') /\ Armed'
    BY <2>1, NobodySends
  <2> QED
    BY <2>1, <2>2, OrdersAlone DEF IInv, TypeOK
<1> QED
  BY <1>1, <1>2, <1>3, <1>4 DEF Next

LEMMA InitSound ==
  ASSUME ExternalOrdersAssumption, IfoodWorkerAssumption, Init
  PROVE  IInv
<1>1. /\ \A e \in Event : event[e].code = "NONE" /\ event[e].at = 0 /\ event[e].attempts = 0
                          /\ event[e].status = "ABSENT" /\ event[e].linked = FALSE
      /\ event \in [Event -> EventRow] /\ unacked = {}
      /\ order.status = "NONE" /\ order \in OrderRow /\ connection \in ConnectionRow
      /\ own \in BOOLEAN /\ delivery = "NONE" /\ changes = 0
      /\ \A op \in Operation : command[op].status = "NONE"
      /\ command \in [Operation -> CommandRow]
  <2>1. 0 \in Nat /\ 0 \in 0..MaxSends /\ FALSE \in BOOLEAN
    BY DEF IfoodWorkerAssumption
  <2>2. NotEmitted \in EventRow
    BY <2>1 DEF NotEmitted, EventRow
  <2>3. event = [e \in Event |-> NotEmitted] /\ command = [op \in Operation |-> [status |-> "NONE", attempts |-> 0]]
    BY DEF Init, OrdersInit
  <2>4. [status |-> "NONE", attempts |-> 0] \in CommandRow
    BY <2>1 DEF CommandRow
  <2>5. /\ unacked = {} /\ own \in BOOLEAN /\ delivery = "NONE" /\ changes = 0
        /\ order.status = "NONE" /\ order \in OrderRow
    BY <2>1 DEF Init, OrdersInit, OrderRow
  <2>6. connection \in ConnectionRow
    BY DEF Init, OrdersInit, ConnectionRow
  <2> QED
    BY <2>2, <2>3, <2>4, <2>5, <2>6 DEF NotEmitted
<1>2. /\ worker \in [Worker -> WorkerRow] /\ \A w \in Worker : worker[w].step = "IDLE"
      /\ lock = NoOne /\ accepted \in [Operation -> Nat] /\ \A op \in Operation : accepted[op] = 0
      /\ crashes = 0 /\ overruns = 0
  <2>1. Resting \in WorkerRow /\ Resting.step = "IDLE"
    BY DEF Resting, WorkerRow
  <2> HIDE DEF Resting
  <2> QED
    BY <2>1 DEF Init
<1>3. TypeOK
  BY <1>1, <1>2 DEF TypeOK
<1>4. Emitted = {} /\ StatusEvents = {}
  BY <1>1, RankOrder DEF Emitted, StatusEvents
<1>5. Emission
  <2>1. 0 \in 0..MaxEvents /\ 1..0 = {}
    BY DEF ExternalOrdersAssumption
  <2> QED
    BY <1>4, <2>1 DEF Emission
<1>6. Follows /\ Attended
  BY <1>1, <1>4 DEF Follows, Attended, CancelledOrderIsClosed
<1>7. (\A op \in Operation : Sends(op)) /\ Armed
  BY <1>2 DEF Sends, Armed, Sender
<1> QED
  BY <1>3, <1>5, <1>6, <1>7 DEF IInv

LEMMA IfoodSound == Spec => []IInv
<1>1. Init => IInv
  BY InitSound, ExternalOrdersAssumption, IfoodWorkerAssumption
<1>2. IInv /\ [Next]_vars => IInv'
  BY NextSound, ExternalOrdersAssumption, IfoodWorkerAssumption
<1> QED
  BY <1>1, <1>2, PTL DEF Spec

\* Every variable of the integration keeps its type.
THEOREM IfoodTyped == Spec => []TypeOK
<1>1. IInv => TypeOK
  BY DEF IInv
<1> QED
  BY <1>1, IfoodSound, PTL

\* No command that iFood took is sent to it again: the worker that claims a command
\* (claimCommand of ifood.service.ts) is its only sender until it recorded the
\* outcome, also without the session lock and after others died.
THEOREM SentOnce == Spec => []NothingSentTwice
<1>1. IInv => NothingSentTwice
  BY DEF IInv, Sends, NothingSentTwice
<1> QED
  BY <1>1, IfoodSound, PTL

\* Once every status event was handled the order stands where the last one says,
\* whatever the order in which they were polled, pushed, retried or reprocessed; and
\* a cancelled order has no open delivery.
THEOREM OrderIsFollowed == Spec => []OrderFollowsIfood
<1>1. ASSUME IInv PROVE OrderFollowsIfood
  <2>1. ASSUME NEW e \in StatusEvents, \A f \in StatusEvents : f <= e, \A f \in StatusEvents : Done(f)
        PROVE  order.status = event[e].code
    <3>1. order.status # "NONE" /\ Rank[event[e].code] <= Rank[order.status]
      BY <1>1, <2>1 DEF IInv, Follows
    <3>2. PICK x \in StatusEvents : order.status = event[x].code
      BY <1>1, <3>1 DEF IInv, Follows
    <3>3. Rank[order.status] <= Rank[event[e].code]
      BY <1>1, <2>1, <3>2 DEF IInv, Emission
    <3>4. event[e].code \in ExternalStatus /\ order.status \in ExternalStatus
      BY <3>2 DEF StatusEvents
    <3>5. Rank[event[e].code] \in 0..5 /\ Rank[order.status] \in 0..5
      BY <3>4, RankOrder
    <3>6. Rank[event[e].code] = Rank[order.status]
      BY <3>1, <3>3, <3>5
    <3> QED
      BY <3>4, <3>6, RankOrder
  <2>2. CancelledOrderIsClosed
    BY <1>1 DEF IInv, Attended
  <2> QED
    BY <2>1, <2>2 DEF OrderFollowsIfood, Done
<1> QED
  BY <1>1, IfoodSound, PTL

(***************************************************************************)
(* What never goes back.                                                   *)
(***************************************************************************)
\* An order that stands further, and what iFood confirmed.
Onwards ==
  /\ order.status # "NONE" => Rank[order'.status] >= Rank[order.status]
  /\ \A op \in Operation : command[op].status = "CONFIRMED" => command'[op].status = "CONFIRMED"

LEMMA StatusOfOrder ==
  ASSUME TypeOK, order.status # "NONE"
  PROVE  Rank[order.status] \in Nat
<1>1. order.status \in ExternalStatus
  BY DEF TypeOK, OrderRow
<1> QED
  BY <1>1, RankOrder

LEMMA Stays ==
  ASSUME TypeOK, order' = order,
         \A op \in Operation : command[op].status = "CONFIRMED" => command'[op].status = "CONFIRMED"
  PROVE  Onwards
BY StatusOfOrder DEF Onwards

LEMMA ProcessOnwards ==
  ASSUME TypeOK, NEW e \in Event, processEvent(e)
  PROVE  Onwards
<1>1. CASE passedOver(e) \/ ignoreEvent(e) \/ failEvent(e)
  BY <1>1, Stays DEF passedOver, ignoreEvent, failEvent
<1>2. CASE cancellationRefused(e)
  <2>1. order' = order /\ command \in [Operation -> CommandRow]
    BY <1>2 DEF cancellationRefused, TypeOK
  <2>2. \/ command' = command
        \/ command' = [command EXCEPT !["CANCEL"] = Refused(command["CANCEL"])]
    BY <1>2, <2>1 DEF cancellationRefused
  <2>3. command["CANCEL"].status = "CONFIRMED" => Refused(command["CANCEL"]) = command["CANCEL"]
    BY DEF Refused
  <2> QED
    BY <2>1, <2>2, <2>3, Stays
<1>3. CASE applyEvent(e)
  <2>1. \A op \in Operation : command[op].status = "CONFIRMED" => command'[op].status = "CONFIRMED"
    <3>1. \A op \in Operation : command[op] \in CommandRow
      BY DEF TypeOK
    <3>2. \A op \in Operation : \/ command'[op] = command[op]
                                \/ command'[op] = [command[op] EXCEPT !.status = "CONFIRMED"]
      BY <1>3 DEF applyEvent
    <3>3. \A op \in Operation : [command[op] EXCEPT !.status = "CONFIRMED"].status = "CONFIRMED"
      BY <3>1 DEF CommandRow
    <3> QED
      BY <3>2, <3>3
  <2>2. CASE ~Advances(e)
    BY <1>3, <2>1, <2>2, Stays DEF applyEvent
  <2>3. CASE Advances(e)
    <3>1. order'.status = event[e].code
      BY <1>3, <2>3 DEF applyEvent
    <3>2. order.status # "NONE" => Rank[event[e].code] >= Rank[order.status]
      BY <2>3 DEF Advances, advancesExternalStatus
    <3> QED
      BY <2>1, <3>1, <3>2 DEF Onwards
  <2> QED
    BY <2>2, <2>3
<1> QED
  BY <1>1, <1>2, <1>3 DEF processEvent

LEMMA TicksOnwards ==
  ASSUME TypeOK, NEW w \in Worker, Ticks(w)
  PROVE  Onwards
<1> USE DEF TypeOK
<1>1. CASE poll(w) \/ acknowledge(w) \/ selectEvents(w)
  BY <1>1, Stays DEF poll, acknowledge, selectEvents
<1>2. CASE processNext(w)
  <2>1. worker[w].batch \subseteq Event
    BY DEF WorkerRow
  <2> QED
    BY <1>2, <2>1, ProcessOnwards DEF processNext
<1>3. CASE readDue(w) \/ releaseDue(w) \/ endTick(w) \/ sendCommand(w)
  BY <1>3, Stays DEF readDue, releaseDue, endTick, sendCommand, orderVars
<1>4. CASE startCommands(w)
  <2>1. PICK late \in SUBSET {op \in Operation : command[op].status = "SENDING"} :
          command' = [op \in Operation |-> IF op \in late THEN GivenUp(command[op]) ELSE command[op]]
    BY <1>4 DEF startCommands
  <2>2. order' = order
    BY <1>4 DEF startCommands, orderVars
  <2> QED
    BY <2>1, <2>2, Stays
<1>5. ASSUME NEW op \in Operation, claimCommand(w, op) PROVE Onwards
  <2>1. order' = order /\ command[op].status = "REQUESTED" /\ command \in [Operation -> CommandRow]
    BY <1>5 DEF claimCommand, Claimable, orderVars
  <2>2. \A o \in Operation : o # op => command'[o] = command[o]
    BY <1>5, <2>1 DEF claimCommand
  <2> QED
    BY <2>1, <2>2, Stays
<1>6. CASE recordOutcome(w)
  <2> DEFINE op == worker[w].operation
  <2>1. order' = order /\ command \in [Operation -> CommandRow]
    BY <1>6 DEF recordOutcome, orderVars
  <2>2. command[op].status # "SENDING" => command' = command
    BY <1>6 DEF recordOutcome
  <2>3. \A o \in Operation : o # op => command'[o] = command[o]
    BY <1>6, <2>1 DEF recordOutcome
  <2> QED
    BY <2>1, <2>2, <2>3, Stays
<1> QED
  BY <1>1, <1>2, <1>3, <1>4, <1>5, <1>6 DEF Ticks

LEMMA OutsideOnwards ==
  ASSUME TypeOK, Outside
  PROVE  Onwards
<1>1. order' = order
  BY DEF Outside, emitEvent, webhook, reprocess, configureConnection, departDelivery, endDelivery,
         createManualDelivery, releaseDelivery
<1>2. \/ command' = command
      \/ command["DISPATCH"].status = "NONE" /\ command' = [command EXCEPT !["DISPATCH"].status = "REQUESTED"]
  BY DEF Outside, emitEvent, webhook, reprocess, configureConnection, departDelivery, endDelivery,
         createManualDelivery, releaseDelivery
<1> QED
  BY <1>1, <1>2, Stays DEF TypeOK

\* No step moves an order back, or takes a confirmation of iFood back: not a late
\* event, nor a refused cancellation, a command given up after two minutes or the
\* outcome that a slow worker records.
THEOREM NothingWentBack == Spec => NothingGoesBack
<1>1. ASSUME TypeOK, [Next]_vars PROVE Onwards \/ UNCHANGED vars
  <2>1. CASE Outside
    BY <1>1, <2>1, OutsideOnwards
  <2>2. ASSUME NEW op \in Operation, requestAction(op) PROVE Onwards
    BY <1>1, <2>2, Stays DEF requestAction, orderVars, TypeOK
  <2>3. ASSUME NEW w \in Worker, Ticks(w) \/ crash(w) \/ loseLock(w) PROVE Onwards
    BY <1>1, <2>3, TicksOnwards, Stays DEF crash, loseLock, orderVars
  <2> QED
    BY <1>1, <2>1, <2>2, <2>3 DEF Next
<1>2. Onwards <=> (/\ order.status # "NONE" => Rank[order'.status] >= Rank[order.status]
                   /\ \A op \in Operation : command[op].status = "CONFIRMED" => command'[op].status = "CONFIRMED")
  BY DEF Onwards
<1> QED
  BY <1>1, <1>2, IfoodTyped, PTL DEF Spec, NothingGoesBack

=============================================================================

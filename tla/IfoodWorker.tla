---------------------------- MODULE IfoodWorker ----------------------------
(***************************************************************************)
(* The dedicated worker of the iFood integration (ifood.worker.ts and the  *)
(* methods it calls), the commands the store asks for, and what becomes of *)
(* them at iFood.  One session lock of the database lets one worker tick;  *)
(* a worker whose session broke goes on without it.  The worker may die    *)
(* between any two statements.                                             *)
(***************************************************************************)
EXTENDS ExternalOrders

CONSTANTS MaxSends,      \* attempts of a command, 5 in the code
          MaxCrashes,    \* bounds the deaths of workers
          MaxOverruns    \* bounds the locks lost by a running worker

ASSUME IfoodWorkerAssumption ==
  MaxSends \in Nat \ {0} /\ MaxCrashes \in Nat /\ MaxOverruns \in Nat

VARIABLES lock, accepted, crashes, overruns

orderVars == <<connection, event, unacked, order, own, delivery, changes>>
faultVars == <<crashes, overruns>>
vars == <<orderVars, command, worker, lock, accepted, faultVars>>

CommandRow == [status : {"NONE", "REQUESTED", "SENDING", "REQUEST_SENT", "CONFIRMED", "ERROR", "UNCERTAIN"},
               attempts : 0..MaxSends]
WorkerRow == [step : {"IDLE", "ACK", "EVENTS", "PROCESS", "RELEASE", "COMMANDS", "CLAIM", "SEND", "RECORD"},
              batch : SUBSET Event,
              operation : Operation \cup {"NONE"},
              answer : {"NONE", "ACCEPTED", "REJECTED", "TOO_MANY", "LOST"}]

TypeOK ==
  /\ connection \in ConnectionRow
  /\ event \in [Event -> EventRow] /\ unacked \subseteq Emitted
  /\ order \in OrderRow /\ own \in BOOLEAN
  /\ delivery \in OpenDelivery \cup {"NONE", "CANCELLED", "DELIVERED", "DELIVERY_FAILED"}
  /\ command \in [Operation -> CommandRow] /\ accepted \in [Operation -> Nat]
  /\ worker \in [Worker -> WorkerRow] /\ lock \in Worker \cup {NoOne}
  /\ changes \in Nat /\ crashes \in Nat /\ overruns \in Nat

Init ==
  /\ OrdersInit
  /\ worker = [w \in Worker |-> Resting]
  /\ lock = NoOne
  /\ accepted = [op \in Operation |-> 0]
  /\ crashes = 0 /\ overruns = 0

Goes(w, from, to) == worker[w].step = from /\ worker' = [worker EXCEPT ![w].step = to]

\* The tick ends: the worker forgets what it read and gives its lock back.
TickEnds(w) ==
  /\ worker' = [worker EXCEPT ![w] = Resting]
  /\ lock' = IF lock = w THEN NoOne ELSE lock

(***************************************************************************)
(* Polling.                                                                *)
(***************************************************************************)
\* The lock, and the poll: what iFood has not been told to forget is stored.  A poll
\* that fails, or is not yet due, leaves everything to the next tick.
poll(w) ==
  /\ worker[w].step = "IDLE" /\ lock = NoOne
  /\ lock' = w
  /\ \/ /\ connection.enabled /\ unacked # {}
        /\ event' = Ingested(unacked)
        /\ worker' = [worker EXCEPT ![w].step = "ACK", ![w].batch = unacked]
     \/ event' = event /\ worker' = [worker EXCEPT ![w].step = "EVENTS"]
  /\ UNCHANGED <<connection, unacked, order, own, delivery, changes, command, accepted, faultVars>>

\* An acknowledgement that gets lost is one of a worker that died before it.
acknowledge(w) ==
  /\ worker[w].step = "ACK"
  /\ worker' = [worker EXCEPT ![w].step = "EVENTS", ![w].batch = {}]
  /\ unacked' = unacked \ worker[w].batch
  /\ UNCHANGED <<connection, event, order, own, delivery, changes, command, lock, accepted, faultVars>>

(***************************************************************************)
(* Events.                                                                 *)
(***************************************************************************)
\* Events that came before their connection are attached to it once it is enabled.
Attached ==
  [e \in Event |-> IF connection.enabled /\ ~event[e].linked /\ event[e].status \notin {"ABSENT", "EMITTED"}
                   THEN [event[e] EXCEPT !.linked = TRUE, !.status = "RECEIVED", !.attempts = 0]
                   ELSE event[e]]

\* Then new events are selected, and those whose next attempt is due.
selectEvents(w) ==
  /\ worker[w].step = "EVENTS"
  /\ event' = Attached
  /\ \E resting \in SUBSET {e \in Event : event'[e].status = "ERROR"} :
       worker' = [worker EXCEPT ![w].step = "PROCESS",
                                ![w].batch = {e \in Event : Selectable(event'[e])} \ resting]
  /\ UNCHANGED <<connection, unacked, order, own, delivery, changes, command, lock, accepted, faultVars>>

\* ORDER BY event_created_at: the earliest of the batch, in any order within a moment.
processNext(w) ==
  /\ worker[w].step = "PROCESS"
  /\ \E e \in worker[w].batch :
       /\ \A f \in worker[w].batch : event[e].at <= event[f].at
       /\ processEvent(e)
       /\ worker' = [worker EXCEPT ![w].batch = @ \ {e}]
  /\ UNCHANGED <<connection, unacked, own, changes, lock, accepted, faultVars>>

(***************************************************************************)
(* Release of deliveries.                                                  *)
(***************************************************************************)
readDue(w) ==
  /\ worker[w].step = "PROCESS" /\ worker[w].batch = {}
  /\ \/ Due /\ Goes(w, "PROCESS", "RELEASE")
     \/ ~(Due /\ connection.mode = "IMMEDIATE") /\ Goes(w, "PROCESS", "COMMANDS")
  /\ UNCHANGED <<orderVars, command, lock, accepted, faultVars>>

\* The conditions are asked again, except for the mode; an order that is not
\* releasable any more ends the tick.
releaseDue(w) ==
  /\ worker[w].step = "RELEASE"
  /\ IF connection.enabled /\ ~Releasable
     THEN TickEnds(w) /\ UNCHANGED delivery
     ELSE /\ Goes(w, "RELEASE", "COMMANDS")
          /\ delivery' = IF connection.enabled THEN Released ELSE delivery
          /\ UNCHANGED lock
  /\ UNCHANGED <<connection, event, unacked, order, own, changes, command, accepted, faultVars>>

(***************************************************************************)
(* Commands.                                                               *)
(***************************************************************************)
Allowed(op) ==
  CASE op = "CONFIRM" -> order.status = "PLACED"
    [] op = "PREPARE" -> order.status \in {"CONFIRMED", "PREPARATION_STARTED"}
    [] op = "CANCEL" -> TRUE
    [] op = "DISPATCH" -> FALSE

\* The locked part of requestAction; its first part only reads.
requestAction(op) ==
  /\ connection.enabled /\ own /\ order.status \notin Closed \cup {"NONE"}
  /\ Allowed(op)
  /\ command[op].status = "NONE"
  /\ command' = [command EXCEPT ![op].status = "REQUESTED"]
  /\ UNCHANGED <<orderVars, worker, lock, accepted, faultVars>>

\* Mutant: what was being sent for two minutes is requested again.
RequestedAgain(c) == [c EXCEPT !.status = "REQUESTED"]

GivenUp(c) == [c EXCEPT !.status = "UNCERTAIN"]

\* A command in SENDING for two minutes; no clock orders it with a slow sender.
startCommands(w) ==
  /\ Goes(w, "COMMANDS", "CLAIM")
  /\ \E late \in SUBSET {op \in Operation : command[op].status = "SENDING"} :
       command' = [op \in Operation |-> IF op \in late THEN GivenUp(command[op]) ELSE command[op]]
  /\ UNCHANGED <<orderVars, lock, accepted, faultVars>>

Claimable(op) ==
  /\ command[op].status = "REQUESTED" /\ command[op].attempts < MaxSends
  /\ connection.enabled /\ own /\ order.status \notin Closed

claimCommand(w, op) ==
  /\ worker[w].step = "CLAIM" /\ Claimable(op)
  /\ command' = [command EXCEPT ![op] = [status |-> "SENDING", attempts |-> @.attempts + 1]]
  /\ worker' = [worker EXCEPT ![w].step = "SEND", ![w].operation = op]
  /\ UNCHANGED <<orderVars, lock, accepted, faultVars>>

\* No command left whose time has come.
endTick(w) ==
  /\ worker[w].step = "CLAIM"
  /\ \A op \in Operation : Claimable(op) => command[op].attempts > 0
  /\ TickEnds(w)
  /\ UNCHANGED <<orderVars, command, accepted, faultVars>>

\* iFood takes the request or refuses it, and the answer comes or is lost.
sendCommand(w) ==
  LET op == worker[w].operation
  IN /\ worker[w].step = "SEND"
     /\ \E taken \in BOOLEAN, answer \in {"ACCEPTED", "REJECTED", "TOO_MANY", "LOST"} :
          /\ answer = "ACCEPTED" => taken
          /\ taken => answer \in {"ACCEPTED", "LOST"}
          /\ accepted' = IF taken THEN [accepted EXCEPT ![op] = @ + 1] ELSE accepted
          /\ worker' = [worker EXCEPT ![w].step = "RECORD", ![w].answer = answer]
     /\ UNCHANGED <<orderVars, command, lock, faultVars>>

\* Only a command that is still SENDING takes the outcome.
Outcome(c, answer) ==
  CASE answer = "ACCEPTED" -> "REQUEST_SENT"
    [] answer = "TOO_MANY" -> IF c.attempts < MaxSends THEN "REQUESTED" ELSE "ERROR"
    [] answer = "REJECTED" -> "ERROR"
    [] answer = "LOST" -> "UNCERTAIN"

recordOutcome(w) ==
  LET op == worker[w].operation
  IN /\ worker[w].step = "RECORD"
     /\ command' = IF command[op].status = "SENDING"
                   THEN [command EXCEPT ![op].status = Outcome(command[op], worker[w].answer)]
                   ELSE command
     /\ worker' = [worker EXCEPT ![w] = [Resting EXCEPT !.step = "CLAIM"]]
     /\ UNCHANGED <<orderVars, lock, accepted, faultVars>>

(***************************************************************************)
(* Faults.                                                                 *)
(***************************************************************************)
crash(w) ==
  /\ crashes < MaxCrashes /\ worker[w].step # "IDLE"
  /\ TickEnds(w)
  /\ crashes' = crashes + 1
  /\ UNCHANGED <<orderVars, command, accepted, overruns>>

\* The session that holds the lock breaks; the tick goes on with the pool.
loseLock(w) ==
  /\ overruns < MaxOverruns /\ lock = w
  /\ lock' = NoOne
  /\ overruns' = overruns + 1
  /\ UNCHANGED <<orderVars, command, worker, accepted, crashes>>

Ticks(w) ==
  \/ poll(w) \/ acknowledge(w) \/ selectEvents(w) \/ processNext(w)
  \/ readDue(w) \/ releaseDue(w)
  \/ startCommands(w) \/ (\E op \in Operation : claimCommand(w, op)) \/ endTick(w)
  \/ sendCommand(w) \/ recordOutcome(w)

Connections ==
  [exists : {TRUE}, enabled : BOOLEAN, import : BOOLEAN, create : BOOLEAN, mode : Modes]

Outside ==
  \/ \E e \in Event, code \in Codes, at \in 1..MaxEvents :
       emitEvent(e, code, at, accepted["CANCEL"] > 0)
  \/ \E e \in Event : webhook(e) \/ reprocess(e)
  \/ \E input \in Connections : configureConnection(input)
  \/ departDelivery \/ endDelivery
  \/ createManualDelivery \/ releaseDelivery

Next ==
  \/ Outside /\ UNCHANGED <<lock, accepted, faultVars>>
  \/ \E op \in Operation : requestAction(op)
  \/ \E w \in Worker : Ticks(w) \/ crash(w) \/ loseLock(w)

Spec == Init /\ [][Next]_vars

(***************************************************************************)
(* Properties.                                                             *)
(***************************************************************************)
\* A command that iFood took is not sent to it again, through lost answers,
\* repeated refusals of the rate limit, dead workers and workers without lock
\* (docs/ifood-integration.md: an uncertain command is not sent again blindly).
NothingSentTwice == \A op \in Operation : accepted[op] <= 1

\* A cancelled order leaves no delivery open: the cancellation closes the one
\* there is, and none is made or released for it later.
CancelledOrderIsClosed == order.status = "CANCELLED" => delivery \notin OpenDelivery

\* When all status events of iFood were handled, in whatever order they arrived
\* and were retried, the order stands where the last of them says; and so does its
\* delivery when the order is cancelled.
OrderFollowsIfood ==
  /\ /\ StatusEvents # {}
     /\ \A e \in StatusEvents : event[e].linked /\ event[e].status \in {"PROCESSED", "IGNORED"}
     => \A e \in StatusEvents : (\A f \in StatusEvents : f <= e) => order.status = event[e].code
  /\ CancelledOrderIsClosed

\* An order never falls back to an earlier status, and a command confirmed by
\* iFood is never reported as refused, uncertain or pending by what comes later.
NothingGoesBack ==
  [][/\ order.status # "NONE" => Rank[order'.status] >= Rank[order.status]
     /\ \A op \in Operation : command[op].status = "CONFIRMED" => command'[op].status = "CONFIRMED"]_vars
=============================================================================

------------------------------- MODULE Outbox -------------------------------
(***************************************************************************)
(* The transactional outbox and the notification worker that drains it:    *)
(* claim with a lease, process, settle or retry with backoff, dead letters *)
(* and their replay, the tracking messages it sends to customers, and the  *)
(* provider's status callbacks.                                            *)
(*                                                                         *)
(* Each statement or transaction of the worker is one step, so that other  *)
(* workers, callbacks, crashes and the clock come between them.  Time is   *)
(* the flag due: whether available_at has passed.                          *)
(*                                                                         *)
(* Left out: the content of messages, tenants, Web Push subscriptions (a   *)
(* push event is handled or fails as a whole).                             *)
(***************************************************************************)
EXTENDS Naturals, FiniteSets

CONSTANTS
  Events,       \* outbox events, numbered in the order of occurred_at
  Messages,     \* rows of message_deliveries
  Workers,      \* worker processes
  None,         \* no event or no message
  MaxAttempts,  \* OUTBOX_MAX_ATTEMPTS
  MaxCrashes,   \* bound: crashes of workers
  MaxOverruns,  \* bound: times a worker goes on with an event it no longer holds
  MaxLosses     \* bound: successes the worker does not learn of or fails to record

ASSUME OutboxAssumption ==
  /\ Events \subseteq Nat
  /\ None \notin Events \cup Messages
  /\ MaxAttempts \in Nat \ {0}
  /\ {MaxCrashes, MaxOverruns, MaxLosses} \subseteq Nat

VARIABLES
  event,        \* outbox_events
  letter,       \* outbox_dead_letters by original_event_id; attempts 0: no row
  message,      \* message_deliveries; provider numbers provider_message_id
  receipts,     \* message_webhook_receipts
  worker,       \* where each worker is and what it keeps in memory
  sends,        \* how often the provider accepted each message
  handled,      \* history: processEvent returned for this event
  crashes, overruns, losses

vars == <<event, letter, message, receipts, worker, sends, handled,
          crashes, overruns, losses>>
faults == <<crashes, overruns, losses>>

EventStatus == {"ABSENT", "WAITING", "PROCESSED"}   \* processed_at IS NULL: WAITING
MessageStatus == {"PENDING", "PROCESSING", "RETRYING", "SENT", "DELIVERED", "FAILED"}
Callback == {"sent", "delivered", "failed"}
WorkerStep == {"idle", "claimed", "read", "sending", "accepted", "rejected", "handled", "failed"}

EventRow == [status : EventStatus, message : Messages \cup {None}, attempts : Nat,
             dead : BOOLEAN, due : BOOLEAN]
LetterRow == [attempts : Nat, replay : Events \cup {None}]
MessageRow == [status : MessageStatus \cup {"NONE"}, attempts : Nat, provider : Nat]
WorkerRow == [pc : WorkerStep, event : Events \cup {None}, attempts : Nat, attempt : Nat]

Idle == [pc |-> "idle", event |-> None, attempts |-> 0, attempt |-> 0]

(* Whom a worker serves at the moment.                                     *)
Target(w) == event[worker[w].event].message

Init ==
  /\ event = [e \in Events |-> [status |-> "ABSENT", message |-> None, attempts |-> 0,
                                dead |-> FALSE, due |-> FALSE]]
  /\ letter = [e \in Events |-> [attempts |-> 0, replay |-> None]]
  /\ message = [m \in Messages |-> [status |-> "NONE", attempts |-> 0, provider |-> 0]]
  /\ receipts = {}
  /\ worker = [w \in Workers |-> Idle]
  /\ sends = [m \in Messages |-> 0]
  /\ handled = [e \in Events |-> FALSE]
  /\ crashes = 0 /\ overruns = 0 /\ losses = 0

(* A new row: available at once.                                           *)
Inserted(e, m) ==
  [event EXCEPT ![e] = [status |-> "WAITING", message |-> m, attempts |-> 0,
                        dead |-> FALSE, due |-> TRUE]]

-----------------------------------------------------------------------------
(* The producers.                                                          *)

(* queueTrackingMessage: the message and its event in one transaction.     *)
queueTrackingMessage(e, m) ==
  /\ event[e].status = "ABSENT"
  /\ message[m].status = "NONE"
  /\ message' = [message EXCEPT ![m].status = "PENDING"]
  /\ event' = Inserted(e, m)
  /\ UNCHANGED <<letter, receipts, worker, sends, handled, faults>>

(* publishEvent of the domain services: an event for Web Push.             *)
publishEvent(e) ==
  /\ event[e].status = "ABSENT"
  /\ event' = Inserted(e, None)
  /\ UNCHANGED <<letter, message, receipts, worker, sends, handled, faults>>

(* replayDeadLetter: a new event for the same aggregate, once per letter.  *)
replayDeadLetter(e, copy) ==
  /\ letter[e].attempts > 0
  /\ letter[e].replay = None
  /\ event[copy].status = "ABSENT"
  /\ event' = Inserted(copy, event[e].message)
  /\ letter' = [letter EXCEPT ![e].replay = copy]
  /\ UNCHANGED <<message, receipts, worker, sends, handled, faults>>

-----------------------------------------------------------------------------
(* The worker.                                                             *)

Goto(w, pc) == worker' = [worker EXCEPT ![w].pc = pc]

Holders(e) == {w \in Workers : worker[w].pc # "idle" /\ worker[w].event = e}

ClaimableUnderLease(e) ==          \* faulty: available_at is not compared
  event[e].status = "WAITING"

ClaimableInBudget(e) ==            \* faulty: gives up events nobody buried
  event[e].status = "WAITING" /\ event[e].due /\ event[e].attempts < MaxAttempts

(* processed_at IS NULL AND available_at <= now().                         *)
Claimable(e) == event[e].status = "WAITING" /\ event[e].due

(* claimEvent: the oldest event that is due, or one behind rows that the   *)
(* transaction of another worker locks (SKIP LOCKED); attempts counts      *)
(* claims, and available_at becomes the end of the lease.                  *)
claimEvent(w) ==
  \E e \in Events :
    /\ worker[w].pc = "idle"
    /\ Claimable(e)
    /\ \A f \in Events : Claimable(f) => e <= f \/ Holders(f) # {}
    /\ event' = [event EXCEPT ![e].attempts = @ + 1, ![e].due = FALSE]
    /\ worker' = [worker EXCEPT ![w] = [pc |-> "claimed", event |-> e,
                                        attempts |-> event[e].attempts + 1, attempt |-> 0]]
    /\ UNCHANGED <<letter, message, receipts, sends, handled, faults>>

(* processEvent returns.                                                   *)
Return(w) ==
  /\ Goto(w, "handled")
  /\ handled' = [handled EXCEPT ![worker[w].event] = TRUE]

processPushQuietly(w) ==           \* faulty: a failure is caught and forgotten
  /\ worker[w].pc = "claimed"
  /\ Target(w) = None
  /\ \/ Return(w)
     \/ Goto(w, "handled") /\ UNCHANGED handled
  /\ UNCHANGED <<event, letter, message, receipts, sends, faults>>

(* processPush and processCustomerPush.                                    *)
processPush(w) ==
  /\ worker[w].pc = "claimed"
  /\ Target(w) = None
  /\ \/ Return(w)
     \/ Goto(w, "failed") /\ UNCHANGED handled
  /\ UNCHANGED <<event, letter, message, receipts, sends, faults>>

SentOrBeingSent(m) ==              \* faulty: trusts a worker that may be gone
  message[m].status \in {"PROCESSING", "SENT", "DELIVERED"}

AlreadySent(m) == message[m].status \in {"SENT", "DELIVERED"}

(* processMessage reads the message.  One that is sent already needs no    *)
(* more; one that cannot be decrypted fails as it is.                      *)
readMessage(w) ==
  /\ worker[w].pc = "claimed"
  /\ Target(w) # None
  /\ \/ /\ AlreadySent(Target(w))
        /\ Return(w)
     \/ /\ ~AlreadySent(Target(w))
        /\ worker' = [worker EXCEPT ![w].pc = "read",
                                    ![w].attempt = message[Target(w)].attempts + 1]
        /\ UNCHANGED handled
     \/ /\ ~AlreadySent(Target(w))
        /\ Goto(w, "failed")
        /\ UNCHANGED handled
  /\ UNCHANGED <<event, letter, message, receipts, sends, faults>>

(* It writes back the attempt it computed from what it read.               *)
startAttempt(w) ==
  /\ worker[w].pc = "read"
  /\ message' = [message EXCEPT ![Target(w)].status = "PROCESSING",
                                ![Target(w)].attempts = worker[w].attempt]
  /\ Goto(w, "sending")
  /\ UNCHANGED <<event, letter, receipts, sends, handled, faults>>

(* sendWhatsApp or sendSms: accepted, rejected, or accepted with an answer *)
(* that never arrives (the request times out after ten seconds).           *)
sendToProvider(w) ==
  /\ worker[w].pc = "sending"
  /\ \/ /\ Goto(w, "accepted")
        /\ sends' = [sends EXCEPT ![Target(w)] = @ + 1]
        /\ UNCHANGED losses
     \/ /\ Goto(w, "rejected")
        /\ UNCHANGED <<sends, losses>>
     \/ /\ losses < MaxLosses
        /\ Goto(w, "rejected")
        /\ sends' = [sends EXCEPT ![Target(w)] = @ + 1]
        /\ losses' = losses + 1
  /\ UNCHANGED <<event, letter, message, receipts, handled, crashes, overruns>>

(* The transaction that records the success; if it fails, or commits but   *)
(* its answer is lost, the catch takes the send for a rejection.           *)
recordSent(w) ==
  LET sent == [message EXCEPT ![Target(w)].status = "SENT",
                              ![Target(w)].provider = sends[Target(w)]]
  IN /\ worker[w].pc = "accepted"
     /\ \/ /\ message' = sent
           /\ Return(w)
           /\ UNCHANGED losses
        \/ /\ losses < MaxLosses
           /\ losses' = losses + 1
           /\ Goto(w, "rejected")
           /\ message' \in {message, sent}
           /\ UNCHANGED handled
     /\ UNCHANGED <<event, letter, receipts, sends, crashes, overruns>>

(* The transaction of the catch, which may fail too; then the error goes   *)
(* up either way.                                                          *)
recordRejection(w) ==
  /\ worker[w].pc = "rejected"
  /\ \/ message' = [message EXCEPT ![Target(w)].status = "RETRYING"]
     \/ UNCHANGED message
  /\ Goto(w, "failed")
  /\ UNCHANGED <<event, letter, receipts, sends, handled, faults>>

(* markProcessed goes by the id of the event alone: no worker checks that  *)
(* it still holds the lease.  It stands inside the try: when it fails, or  *)
(* commits and its answer is lost, the catch goes on to markRetry.         *)
markProcessed(w) ==
  LET processed == [event EXCEPT ![worker[w].event].status = "PROCESSED"]
  IN /\ worker[w].pc = "handled"
     /\ \/ /\ event' = processed
           /\ worker' = [worker EXCEPT ![w] = Idle]
           /\ UNCHANGED faults
        \/ /\ losses < MaxLosses
           /\ losses' = losses + 1
           /\ Goto(w, "failed")
           /\ UNCHANGED <<event, crashes, overruns>>
        \/ /\ overruns < MaxOverruns
           /\ overruns' = overruns + 1
           /\ event' = processed
           /\ Goto(w, "failed")
           /\ UNCHANGED <<crashes, losses>>
     /\ UNCHANGED <<letter, message, receipts, sends, handled>>

ExhaustedEarly(w) ==               \* faulty: counts the attempt to come
  worker[w].attempts + 1 >= MaxAttempts

Exhausted(w) == worker[w].attempts >= MaxAttempts

(* markRetry, with the attempts the worker claimed: a new available_at, or *)
(* the end of the event, its dead letter and its message.                  *)
markRetry(w) ==
  LET e == worker[w].event
      terminal == Exhausted(w)
  IN /\ worker[w].pc = "failed"
     /\ event' = [event EXCEPT ![e].status = IF terminal THEN "PROCESSED" ELSE "WAITING",
                               ![e].dead = terminal,
                               ![e].due = IF terminal THEN @ ELSE FALSE]
     /\ letter' = IF terminal THEN [letter EXCEPT ![e].attempts = worker[w].attempts]
                  ELSE letter
     /\ message' = IF terminal /\ Target(w) # None
                   THEN [message EXCEPT ![Target(w)].status = "FAILED"]
                   ELSE message
     /\ worker' = [worker EXCEPT ![w] = Idle]
     /\ UNCHANGED <<receipts, sends, handled, faults>>

(* The process dies, or markRetry itself fails: the memory is lost.        *)
Crash(w) ==
  /\ worker[w].pc # "idle"
  /\ crashes < MaxCrashes
  /\ crashes' = crashes + 1
  /\ worker' = [worker EXCEPT ![w] = Idle]
  /\ UNCHANGED <<event, letter, message, receipts, sends, handled, overruns, losses>>

-----------------------------------------------------------------------------
(* The clock and the provider.                                             *)

BecomesDue(e) ==
  /\ event[e].status = "WAITING"
  /\ ~event[e].due
  /\ event' = [event EXCEPT ![e].due = TRUE]
  /\ UNCHANGED <<letter, message, receipts, worker, sends, handled, crashes, losses>>

(* A backoff ends, or the lease of a worker that is gone.                  *)
TimePasses(e) ==
  /\ Holders(e) = {}
  /\ BecomesDue(e)
  /\ UNCHANGED overruns

(* The lease ends while a worker still works on the event.                 *)
LeaseExpires(e) ==
  /\ Holders(e) # {}
  /\ overruns < MaxOverruns
  /\ overruns' = overruns + 1
  /\ BecomesDue(e)

(* applyStatus: the callback of the provider for the message it knows by   *)
(* provider_message_id, each once, whatever the order they arrive in.      *)
applyStatus(m, status) ==
  LET receipt == <<m, message[m].provider, status>>
  IN /\ message[m].provider > 0
     /\ receipt \notin receipts
     /\ receipts' = receipts \cup {receipt}
     /\ message' = [message EXCEPT ![m].status =
          CASE status = "sent" -> "SENT"
            [] status = "delivered" -> "DELIVERED"
            [] status = "failed" -> "FAILED"]
     /\ UNCHANGED <<event, letter, worker, sends, handled, faults>>

Work(w) ==
  \/ claimEvent(w) \/ processPush(w) \/ readMessage(w) \/ startAttempt(w)
  \/ sendToProvider(w) \/ recordSent(w) \/ recordRejection(w)
  \/ markProcessed(w) \/ markRetry(w)

Next ==
  \/ \E e \in Events :
       \/ \E m \in Messages : queueTrackingMessage(e, m)
       \/ publishEvent(e)
       \/ \E copy \in Events : replayDeadLetter(e, copy)
       \/ TimePasses(e)
       \/ LeaseExpires(e)
  \/ \E w \in Workers : Work(w) \/ Crash(w)
  \/ \E m \in Messages, status \in Callback : applyStatus(m, status)

(* Workers keep working (a restarted process ticks again) and time passes. *)
(* Nothing obliges producers, operators, the provider or the lease clock.  *)
Fairness ==
  /\ \A w \in Workers : WF_vars(Work(w))
  /\ \A e \in Events : WF_vars(TimePasses(e))

Spec == Init /\ [][Next]_vars /\ Fairness

-----------------------------------------------------------------------------
TypeOK ==
  /\ event \in [Events -> EventRow]
  /\ letter \in [Events -> LetterRow]
  /\ message \in [Messages -> MessageRow]
  /\ receipts \subseteq Messages \X Nat \X Callback
  /\ worker \in [Workers -> WorkerRow]
  /\ \A w \in Workers : worker[w].pc # "idle" =>
       worker[w].event \in Events /\ event[worker[w].event].status # "ABSENT"
  /\ sends \in [Messages -> Nat]
  /\ handled \in [Events -> BOOLEAN]
  /\ crashes \in Nat /\ overruns \in Nat /\ losses \in Nat

(* A dead event has its dead letter, is never claimed again, and was given *)
(* every attempt of the configuration; no event has a letter before it has *)
(* used them up, however workers overlap; and an event is claimed more     *)
(* often only because crashes and overruns left claims unanswered.         *)
DeadLettersAreEarned ==
  \A e \in Events :
    /\ event[e].dead => event[e].status = "PROCESSED" /\ letter[e].attempts > 0
    /\ letter[e].attempts > 0 => /\ letter[e].attempts >= MaxAttempts
                                 /\ event[e].attempts >= letter[e].attempts
    /\ overruns = 0 /\ letter[e].attempts > 0 => event[e].dead
    /\ event[e].attempts <= MaxAttempts + crashes + overruns

(* A customer receives the same link again only when a worker crashed, a   *)
(* worker overran its lease or the success of a send was lost.             *)
NoNeedlessCopies ==
  \A m \in Messages : sends[m] <= 1 + crashes + overruns + losses

FailedByProvider(m) == <<m, message[m].provider, "failed">> \in receipts

(* What the store reads about a message is what happened to it.  Sent and  *)
(* delivered messages were accepted by the provider.  With no overrun, a   *)
(* processed event leaves its message sent, unless the provider reported a *)
(* failure; a dead one leaves it failed, unless it was replayed or the     *)
(* provider reported on an earlier copy.  And no message is reported as    *)
(* failed that the customer has, unless something crashed, overran or was  *)
(* lost or the provider said so.                                           *)
MessageTellsTheOutcome ==
  \A m \in Messages :
    /\ message[m].status \in {"SENT", "DELIVERED"} => sends[m] > 0
    /\ overruns = 0 => \A e \in Events : event[e].message = m /\ event[e].status = "PROCESSED" =>
         \/ message[m].status \in {"SENT", "DELIVERED"} /\ sends[m] > 0
         \/ message[m].status = "FAILED" /\ (event[e].dead \/ FailedByProvider(m))
         \/ letter[e].replay # None
    /\ message[m].status = "FAILED" /\ crashes + overruns + losses = 0 =>
         sends[m] = 0 \/ FailedByProvider(m)

(* Every committed event is settled in the end and stays settled, also     *)
(* when workers crash, overrun their leases or reopen it finitely often.   *)
EventuallySettled ==
  \A e \in Events :
    event[e].status = "WAITING" ~> [](event[e].status = "PROCESSED")

(* The outbox implements at-least-once processing, as long as nothing is   *)
(* overrun.                                                                *)
Promise == INSTANCE AtLeastOnce WITH
  job <- [e \in Events |->
            IF event[e].status # "PROCESSED" THEN event[e].status
            ELSE IF event[e].dead THEN "DEAD" ELSE "DONE"]

ImplementsAtLeastOnce == Promise!Spec

=============================================================================

---------------------------- MODULE OutboxProofs ----------------------------
(***************************************************************************)
(* What is sent and what is done only once in spite of retries.            *)
(*                                                                         *)
(* For any events, messages, workers and numbers of faults: the typing of  *)
(* the outbox, its three safety properties, and that every step is a step  *)
(* of AtLeastOnce as long as nothing is overrun.  For any calls, keys and  *)
(* requests: the same of idempotent requests (last section).               *)
(*                                                                         *)
(* Copies and claims are counted by what may still cause one without a     *)
(* further fault: an event that is free to be claimed, a dead letter that  *)
(* may be replayed, a worker that has not sent or may put its event back.  *)
(* Each step passes such a chance on; only a fault makes a new one.        *)
(***************************************************************************)
EXTENDS Outbox, Idempotency, FiniteSetTheorems, TLAPS

Busy(w) == worker[w].pc # "idle"

(* What a worker has in memory was claimed.                                *)
ClaimsAreCounted ==
  \A w \in Workers : Busy(w) =>
    /\ worker[w].attempts \in 1 .. event[worker[w].event].attempts
    /\ worker[w].pc \in {"read", "sending", "accepted", "rejected"} => Target(w) \in Messages
    /\ worker[w].pc = "handled" => handled[worker[w].event]

(* A letter is written with all attempts used up.                          *)
LettersAreLate ==
  \A e \in Events :
    /\ event[e].dead => event[e].status = "PROCESSED" /\ letter[e].attempts > 0
    /\ letter[e].attempts > 0 => letter[e].attempts \in MaxAttempts .. event[e].attempts
    /\ letter[e].replay # None => letter[e].attempts > 0
    /\ event[e].status = "ABSENT" => letter[e].attempts = 0 /\ event[e].message = None

(* Of the events of one message, all but one were replayed.                *)
OneIsCurrent ==
  \A e, f \in Events :
    /\ e # f
    /\ event[e].message = event[f].message
    /\ event[e].message \in Messages
    => letter[e].replay # None \/ letter[f].replay # None

(* What is recorded of a message was sent.                                 *)
SendsComeFirst ==
  /\ \A m \in Messages :
       /\ message[m].status \in {"SENT", "DELIVERED"} => sends[m] > 0
       /\ message[m].provider <= sends[m]
       /\ message[m].status = "NONE" =>
            sends[m] = 0 /\ \A e \in Events : event[e].message # m
  /\ \A w \in Workers : worker[w].pc = "accepted" => sends[Target(w)] > 0

(* With no overrun a worker has its event for itself, the event is open,   *)
(* and a letter is the end of its event.                                   *)
LeasesHold ==
  overruns = 0 =>
    /\ \A w \in Workers : Busy(w) =>
         /\ event[worker[w].event].status = "WAITING"
         /\ ~event[worker[w].event].due
         /\ \A v \in Workers : Busy(v) /\ worker[v].event = worker[w].event => v = w
    /\ \A e \in Events : letter[e].attempts > 0 => event[e].dead

Reported(m) ==
  \/ message[m].status \in {"SENT", "DELIVERED"}
  \/ message[m].status = "FAILED" /\ FailedByProvider(m)

(* With no overrun, what was handled is reported until somebody replays it. *)
OutcomeIsTold ==
  overruns = 0 =>
    /\ \A w \in Workers : worker[w].pc = "handled" /\ Target(w) \in Messages => Reported(Target(w))
    /\ \A e \in Events :
         event[e].message \in Messages /\ event[e].status = "PROCESSED" =>
           \/ Reported(event[e].message)
           \/ event[e].dead /\ message[event[e].message].status = "FAILED"
           \/ letter[e].replay # None

(* The chances of another send of m, and of another claim of e.            *)
Free(e) == event[e].status = "WAITING" /\ (event[e].due \/ Holders(e) = {})
Unsent == {"claimed", "read", "sending", "rejected", "failed"}

FreeEvents(m) == {e \in Events : event[e].message = m /\ Free(e)}
OpenLetters(m) == {e \in Events : event[e].message = m /\ letter[e].attempts > 0 /\ letter[e].replay = None}
Senders(m) == {w \in Workers : worker[w].pc \in Unsent /\ Target(w) = m}

Reopeners(e) == {w \in Holders(e) : worker[w].attempts < MaxAttempts}
Claims(e) == (IF Free(e) THEN 1 ELSE 0) + Cardinality(Reopeners(e))

SendsAreCounted ==
  \A m \in Messages :
    /\ IsFiniteSet(FreeEvents(m)) /\ IsFiniteSet(OpenLetters(m)) /\ IsFiniteSet(Senders(m))
    /\ sends[m] + Cardinality(FreeEvents(m)) + Cardinality(OpenLetters(m)) + Cardinality(Senders(m))
         <= 1 + crashes + overruns + losses

ClaimsAreBounded ==
  \A e \in Events :
    /\ IsFiniteSet(Reopeners(e))
    /\ Claims(e) <= 1 + (crashes + overruns)
    /\ event[e].attempts >= MaxAttempts =>
         event[e].attempts + Claims(e) <= MaxAttempts + (crashes + overruns)

(* Without a fault nobody is told of a failure after a send.               *)
FailuresAreTrue ==
  crashes + overruns + losses = 0 =>
    /\ \A w \in Workers : worker[w].pc = "sending" => message[Target(w)].status = "PROCESSING"
    /\ \A m \in Messages :
         message[m].status = "FAILED" => sends[m] = 0 \/ FailedByProvider(m)

RecordsInv == TypeOK /\ ClaimsAreCounted /\ LettersAreLate /\ OneIsCurrent /\ SendsComeFirst
LeaseInv == RecordsInv /\ LeasesHold /\ OutcomeIsTold
IInv == LeaseInv /\ SendsAreCounted /\ ClaimsAreBounded /\ FailuresAreTrue

-----------------------------------------------------------------------------
\* Moving a worker on keeps the type of its row and what it holds.
LEMMA GotoTypes ==
  ASSUME TypeOK, NEW w \in Workers, Busy(w), NEW pc \in WorkerStep, Goto(w, pc)
  PROVE  /\ worker' \in [Workers -> WorkerRow]
         /\ worker'[w] = [worker[w] EXCEPT !.pc = pc]
         /\ \A v \in Workers : v # w => worker'[v] = worker[v]
         /\ \A v \in Workers : worker'[v].event = worker[v].event
         /\ \A v \in Workers : Busy(v)' => Busy(v)
  BY DEF TypeOK, Goto, Busy, WorkerRow, WorkerStep

\* The tables keep their types, whoever writes them.
LEMMA OutboxTypes == TypeOK /\ ClaimsAreCounted /\ [Next]_vars => TypeOK'
<1> SUFFICES ASSUME TypeOK, ClaimsAreCounted, [Next]_vars PROVE TypeOK'
  OBVIOUS
<1> USE OutboxAssumption DEF TypeOK
<1>a. \A w \in Workers : Busy(w) => worker[w].event \in Events /\ event[worker[w].event] \in EventRow
  BY DEF Busy
<1>b. \A w \in Workers : worker[w].pc \in {"read", "sending", "accepted", "rejected"} =>
        Busy(w) /\ Target(w) \in Messages
  BY DEF ClaimsAreCounted, Busy
<1>c. ASSUME UNCHANGED <<letter, receipts>>, message' \in [Messages -> MessageRow],
             event' \in [Events -> EventRow],
             \A e \in Events : event'[e].status = "ABSENT" => event[e].status = "ABSENT",
             worker' \in [Workers -> WorkerRow],
             \A v \in Workers : Busy(v)' => Busy(v) /\ worker'[v].event = worker[v].event,
             sends' \in [Messages -> Nat], handled' \in [Events -> BOOLEAN],
             crashes' \in Nat, overruns' \in Nat, losses' \in Nat
      PROVE  TypeOK'
  BY <1>c DEF Busy
<1>1. ASSUME NEW e \in Events, NEW m \in Messages, queueTrackingMessage(e, m) PROVE TypeOK'
  BY <1>1 DEF queueTrackingMessage, Inserted, EventRow, MessageRow, EventStatus, MessageStatus, faults
<1>2. ASSUME NEW e \in Events, publishEvent(e) PROVE TypeOK'
  BY <1>2 DEF publishEvent, Inserted, EventRow, EventStatus, faults
<1>3. ASSUME NEW e \in Events, NEW copy \in Events, replayDeadLetter(e, copy) PROVE TypeOK'
  BY <1>3 DEF replayDeadLetter, Inserted, EventRow, LetterRow, EventStatus, faults
<1>4. ASSUME NEW e \in Events, TimePasses(e) \/ LeaseExpires(e) PROVE TypeOK'
  <2>1. /\ event' = [event EXCEPT ![e].due = TRUE]
        /\ overruns' \in Nat
        /\ UNCHANGED <<letter, message, receipts, worker, sends, handled, crashes, losses>>
    BY <1>4 DEF TimePasses, LeaseExpires, BecomesDue
  <2>2. /\ event' \in [Events -> EventRow]
        /\ \A f \in Events : event'[f].status = event[f].status
    <3>1. [event[e] EXCEPT !.due = TRUE] \in EventRow
      BY DEF EventRow
    <3>2. [event[e] EXCEPT !.due = TRUE].status = event[e].status
      BY DEF EventRow
    <3> QED
      BY <2>1, <3>1, <3>2
  <2> QED
    BY <1>c, <2>1, <2>2 DEF Busy
<1>5. ASSUME NEW w \in Workers, claimEvent(w) PROVE TypeOK'
  BY <1>5 DEF claimEvent, Claimable, EventRow, WorkerRow, WorkerStep, faults
<1>6. ASSUME NEW w \in Workers, processPush(w) \/ readMessage(w) PROVE TypeOK'
  <2>1. /\ UNCHANGED <<event, letter, message, receipts, sends, faults>>
        /\ Busy(w)
        /\ handled' \in [Events -> BOOLEAN]
    BY <1>6 DEF processPush, readMessage, Return, Busy
  <2>2. /\ worker' \in [Workers -> WorkerRow]
        /\ \A v \in Workers : Busy(v)' => Busy(v) /\ worker'[v].event = worker[v].event
    <3>1. CASE Goto(w, "handled") \/ Goto(w, "failed")
      BY <2>1, <3>1, GotoTypes DEF WorkerStep
    <3>2. CASE /\ Target(w) # None /\ readMessage(w)
               /\ worker' = [worker EXCEPT ![w].pc = "read",
                                           ![w].attempt = message[Target(w)].attempts + 1]
      <4>1. message[Target(w)].attempts + 1 \in Nat
        BY <1>a, <2>1, <3>2 DEF Target, EventRow, MessageRow
      <4>2. worker'[w] = [worker[w] EXCEPT !.pc = "read", !.attempt = message[Target(w)].attempts + 1]
        BY <3>2
      <4>3. worker'[w] \in WorkerRow /\ worker'[w].event = worker[w].event
        <5> DEFINE n == message[Target(w)].attempts + 1
        <5> HIDE DEF n, TypeOK
        <5>1. worker[w] \in WorkerRow
          BY DEF TypeOK
        <5>2. n \in Nat /\ worker'[w] = [worker[w] EXCEPT !.pc = "read", !.attempt = n]
          BY <4>1, <4>2 DEF n
        <5> QED
          BY <5>1, <5>2 DEF WorkerRow, WorkerStep
      <4>4. DOMAIN worker' = Workers /\ worker' = [v \in Workers |-> worker'[v]]
            /\ \A v \in Workers : v # w => worker'[v] = worker[v]
        BY <3>2
      <4> QED
        BY <2>1, <4>3, <4>4 DEF Busy
    <3> QED
      BY <1>6, <3>1, <3>2 DEF processPush, readMessage, Return
  <2> QED
    BY <1>c, <2>1, <2>2 DEF faults
<1>7. ASSUME NEW w \in Workers, NEW pc \in WorkerStep, Busy(w), Goto(w, pc),
             message' \in [Messages -> MessageRow], sends' \in [Messages -> Nat],
             handled' \in [Events -> BOOLEAN], losses' \in Nat,
             UNCHANGED <<event, letter, receipts, crashes, overruns>>
      PROVE  TypeOK'
  BY <1>7, <1>c, GotoTypes
<1>8. ASSUME NEW w \in Workers, startAttempt(w) \/ recordSent(w) \/ recordRejection(w) \/ sendToProvider(w)
      PROVE  TypeOK'
  <2>1. Target(w) \in Messages /\ Busy(w)
    BY <1>8, <1>b DEF startAttempt, recordSent, recordRejection, sendToProvider
  <2>2. worker[w].attempt \in Nat /\ sends[Target(w)] \in Nat
    BY <2>1 DEF WorkerRow
  <2>3. CASE startAttempt(w)
    <3>1. message' \in [Messages -> MessageRow]
      BY <2>1, <2>2, <2>3 DEF startAttempt, MessageRow, MessageStatus
    <3> QED
      BY <1>7, <2>1, <2>3, <3>1 DEF startAttempt, WorkerStep, faults
  <2>4. CASE recordRejection(w)
    BY <1>7, <2>1, <2>4 DEF recordRejection, MessageRow, MessageStatus, WorkerStep, faults
  <2>5. CASE sendToProvider(w)
    <3>1. sends' \in [Messages -> Nat] /\ losses' \in Nat
      BY <2>1, <2>2, <2>5 DEF sendToProvider
    <3>2. UNCHANGED <<event, letter, message, receipts, handled, crashes, overruns>>
          /\ (Goto(w, "accepted") \/ Goto(w, "rejected"))
      BY <2>5 DEF sendToProvider
    <3>3. \A pc \in WorkerStep : Goto(w, pc) => TypeOK'
      BY <1>7, <2>1, <3>1, <3>2
    <3> QED
      BY <3>2, <3>3 DEF WorkerStep
  <2>6. CASE recordSent(w)
    <3>1. [message EXCEPT ![Target(w)].status = "SENT", ![Target(w)].provider = sends[Target(w)]]
            \in [Messages -> MessageRow]
      BY <2>1, <2>2 DEF MessageRow, MessageStatus
    <3> DEFINE sent == [message EXCEPT ![Target(w)].status = "SENT",
                                       ![Target(w)].provider = sends[Target(w)]]
    <3> HIDE DEF sent
    <3>2. /\ message' = message \/ message' = sent
          /\ handled' = handled \/ handled' = [handled EXCEPT ![worker[w].event] = TRUE]
          /\ losses' = losses \/ losses' = losses + 1
      BY <2>6 DEF recordSent, Return, sent
    <3>3. message' \in [Messages -> MessageRow] /\ handled' \in [Events -> BOOLEAN] /\ losses' \in Nat
      <4>1. message' \in [Messages -> MessageRow]
        BY <3>1, <3>2 DEF sent
      <4>2. losses' \in Nat
        BY <3>2
      <4>3. [handled EXCEPT ![worker[w].event] = TRUE] \in [Events -> BOOLEAN]
        OBVIOUS
      <4>4. handled' \in [Events -> BOOLEAN]
        BY <3>2, <4>3
      <4> QED
        BY <4>1, <4>2, <4>4
    <3> QED
      BY <1>7, <2>1, <2>6, <3>3 DEF recordSent, Return, WorkerStep
  <2> QED
    BY <1>8, <2>3, <2>4, <2>5, <2>6
<1>9. ASSUME NEW w \in Workers, markProcessed(w) PROVE TypeOK'
  <2>1. Busy(w)
    BY <1>9 DEF markProcessed, Busy
  <2>2. /\ event' \in [Events -> EventRow]
        /\ \A e \in Events : event'[e].status = "ABSENT" => event[e].status = "ABSENT"
    BY <1>9, <1>a, <2>1 DEF markProcessed, EventRow, EventStatus
  <2>3. /\ worker' \in [Workers -> WorkerRow]
        /\ \A v \in Workers : Busy(v)' => Busy(v) /\ worker'[v].event = worker[v].event
    <3>1. CASE worker' = [worker EXCEPT ![w] = Idle]
      BY <3>1 DEF Idle, WorkerRow, WorkerStep, Busy
    <3>2. CASE Goto(w, "failed")
      BY <2>1, <3>2, GotoTypes DEF WorkerStep
    <3> QED
      BY <1>9, <3>1, <3>2 DEF markProcessed
  <2> QED
    BY <1>9, <1>c, <2>2, <2>3 DEF markProcessed, faults
<1>10. ASSUME NEW w \in Workers, markRetry(w) PROVE TypeOK'
  <2> DEFINE e == worker[w].event
  <2>1. e \in Events /\ worker[w].attempts \in Nat
    BY <1>10, <1>a DEF markRetry, Busy, WorkerRow
  <2>2. /\ event' \in [Events -> EventRow]
        /\ \A f \in Events : event'[f].status = "ABSENT" => event[f].status = "ABSENT"
    BY <1>10, <2>1 DEF markRetry, EventRow, EventStatus, Exhausted
  <2>3. letter' \in [Events -> LetterRow]
    BY <1>10, <2>1 DEF markRetry, LetterRow
  <2>4. message' \in [Messages -> MessageRow]
    BY <1>10 DEF markRetry, MessageRow, MessageStatus
  <2>5. /\ worker' \in [Workers -> WorkerRow]
        /\ \A v \in Workers : Busy(v)' => Busy(v) /\ worker'[v].event = worker[v].event
    BY <1>10 DEF markRetry, Idle, WorkerRow, WorkerStep, Busy
  <2> QED
    BY <1>10, <2>2, <2>3, <2>4, <2>5 DEF markRetry, faults, Busy
<1>11. ASSUME NEW w \in Workers, Crash(w) PROVE TypeOK'
  BY <1>11, <1>c DEF Crash, Idle, WorkerRow, WorkerStep, Busy
<1>12. ASSUME NEW m \in Messages, NEW status \in Callback, applyStatus(m, status) PROVE TypeOK'
  <2>1. message' \in [Messages -> MessageRow]
    BY <1>12 DEF applyStatus, Callback, MessageRow, MessageStatus
  <2>2. receipts' \subseteq Messages \X Nat \X Callback
    BY <1>12 DEF applyStatus, MessageRow
  <2> QED
    BY <1>12, <2>1, <2>2 DEF applyStatus, faults
<1>13. CASE UNCHANGED vars
  BY <1>13 DEF vars
<1> QED
  BY <1>1, <1>2, <1>3, <1>4, <1>5, <1>6, <1>8, <1>9, <1>10, <1>11, <1>12, <1>13 DEF Next, Work

\* A step of a worker between claim and settlement, seen from outside: it keeps its event.
Works(w) ==
  processPush(w) \/ readMessage(w) \/ startAttempt(w) \/ sendToProvider(w) \/ recordSent(w) \/ recordRejection(w)

\* A working worker keeps its event, and the tables of events and letters with it.
LEMMA WorkKeepsTheEvent ==
  ASSUME TypeOK, NEW w \in Workers, Works(w)
  PROVE  /\ UNCHANGED <<event, letter, receipts, crashes, overruns>>
         /\ Busy(w) /\ Busy(w)'
         /\ worker'[w].event = worker[w].event
         /\ worker'[w].attempts = worker[w].attempts
         /\ \A v \in Workers : v # w => worker'[v] = worker[v]
         /\ \A v \in Workers : Target(v)' = Target(v)
         /\ worker'[w].pc \notin {"idle", "claimed"}
         /\ \A e \in Events : handled[e] => handled'[e]
         /\ worker'[w].pc \in {"read", "sending", "accepted", "rejected"} =>
              \/ worker[w].pc \in {"read", "sending", "accepted"}
              \/ Target(w) # None
         /\ worker'[w].pc = "handled" => handled'[worker[w].event]
<1> DEFINE Kept == /\ worker'[w].event = worker[w].event
                   /\ worker'[w].attempts = worker[w].attempts
                   /\ \A v \in Workers : v # w => worker'[v] = worker[v]
<1>1. ASSUME NEW pc, Goto(w, pc) PROVE Kept /\ worker'[w].pc = pc
  BY <1>1 DEF TypeOK, Goto, WorkerRow
<1>2. ASSUME NEW n, worker' = [worker EXCEPT ![w].pc = "read", ![w].attempt = n]
      PROVE  Kept /\ worker'[w].pc = "read"
  BY <1>2 DEF TypeOK, WorkerRow
<1>3. Busy(w) /\ UNCHANGED <<event, letter, receipts, crashes, overruns>>
  BY DEF Works, Busy, processPush, readMessage, startAttempt, sendToProvider, recordSent,
         recordRejection, faults
<1>4. /\ UNCHANGED handled \/ handled' = [handled EXCEPT ![worker[w].event] = TRUE]
      /\ worker'[w].pc = "handled" => handled' = [handled EXCEPT ![worker[w].event] = TRUE]
  BY <1>1, <1>2 DEF Works, processPush, readMessage, startAttempt, sendToProvider, recordSent,
         recordRejection, faults, Return
<1>5. /\ Kept
      /\ worker'[w].pc \in {"read", "sending", "accepted", "rejected", "handled", "failed"}
      /\ worker'[w].pc \in {"read", "sending", "accepted", "rejected"} =>
           worker[w].pc \in {"read", "sending", "accepted"} \/ Target(w) # None
  BY <1>1, <1>2 DEF Works, processPush, readMessage, startAttempt, sendToProvider, recordSent,
         recordRejection, Return
<1>6. \A v \in Workers : Target(v)' = Target(v)
  BY <1>3, <1>5 DEF Target
<1>7. worker[w].event \in Events
  BY <1>3 DEF TypeOK, Busy
<1>8. /\ \A e \in Events : handled[e] => handled'[e]
      /\ worker'[w].pc = "handled" => handled'[worker[w].event]
  BY <1>4, <1>7 DEF TypeOK
<1> QED
  BY <1>3, <1>5, <1>6, <1>8 DEF Busy

\* A worker ends: by markProcessed, markRetry or a crash.
LEMMA IdleAgain ==
  ASSUME TypeOK, NEW w \in Workers, worker' = [worker EXCEPT ![w] = Idle]
  PROVE  /\ ~Busy(w)' /\ worker'[w] = Idle
         /\ \A v \in Workers : v # w => worker'[v] = worker[v]
  BY DEF TypeOK, Busy, Idle

\* A new event is fresh and nobody holds it.
LEMMA InsertedIsFresh ==
  ASSUME TypeOK, NEW e \in Events, event[e].status = "ABSENT", NEW m, event' = Inserted(e, m)
  PROVE  /\ event'[e] = [status |-> "WAITING", message |-> m, attempts |-> 0, dead |-> FALSE, due |-> TRUE]
         /\ event'[e].message = m /\ event'[e].status = "WAITING"
         /\ \A f \in Events : f # e => event'[f] = event[f]
         /\ \A w \in Workers : Busy(w) => worker[w].event # e
  BY DEF TypeOK, Inserted, Busy

\* A claim takes an event that is due for a worker that was idle.
ClaimedBy(w, e) ==
  /\ ~Busy(w) /\ Busy(w)'
  /\ event[e].status = "WAITING" /\ event[e].due
  /\ event'[e].status = "WAITING" /\ ~event'[e].due
  /\ event'[e].attempts = event[e].attempts + 1
  /\ event'[e].message = event[e].message
  /\ event'[e].dead = event[e].dead
  /\ \A f \in Events : f # e => event'[f] = event[f]
  /\ worker'[w] = [pc |-> "claimed", event |-> e, attempts |-> event[e].attempts + 1, attempt |-> 0]
  /\ \A v \in Workers : v # w => worker'[v] = worker[v]
  /\ UNCHANGED <<letter, message, receipts, sends, handled, crashes, overruns, losses>>

\* claimEvent claims one event in this sense.
LEMMA ClaimOfOne ==
  ASSUME TypeOK, NEW w \in Workers, claimEvent(w)
  PROVE  \E e \in Events : ClaimedBy(w, e)
<1>1. PICK e \in Events :
        /\ worker[w].pc = "idle" /\ Claimable(e)
        /\ event' = [event EXCEPT ![e].attempts = @ + 1, ![e].due = FALSE]
        /\ worker' = [worker EXCEPT ![w] = [pc |-> "claimed", event |-> e,
                                            attempts |-> event[e].attempts + 1, attempt |-> 0]]
        /\ UNCHANGED <<letter, message, receipts, sends, handled, faults>>
  BY DEF claimEvent
<1>2. event'[e] = [event[e] EXCEPT !.attempts = @ + 1, !.due = FALSE]
  BY <1>1 DEF TypeOK, EventRow
<1>3. \A f \in Events : f # e => event'[f] = event[f]
  BY <1>1 DEF TypeOK
<1>4. /\ worker'[w] = [pc |-> "claimed", event |-> e, attempts |-> event[e].attempts + 1, attempt |-> 0]
      /\ \A v \in Workers : v # w => worker'[v] = worker[v]
  BY <1>1 DEF TypeOK
<1>5. /\ event'[e].attempts = event[e].attempts + 1 /\ ~event'[e].due
      /\ event'[e].message = event[e].message /\ event'[e].dead = event[e].dead
      /\ event'[e].status = "WAITING" /\ event[e].status = "WAITING" /\ event[e].due
  BY <1>1, <1>2 DEF TypeOK, EventRow, Claimable
<1>6. ~Busy(w) /\ Busy(w)'
  BY <1>1, <1>4 DEF Busy
<1> QED
  BY <1>1, <1>3, <1>4, <1>5, <1>6 DEF ClaimedBy, faults

\* What markProcessed writes: the status, unless it fails, and the worker ends or goes on to markRetry.
LEMMA ProcessedOne ==
  ASSUME TypeOK, NEW w \in Workers, markProcessed(w)
  PROVE  /\ Busy(w) /\ worker[w].pc = "handled" /\ worker[w].event \in Events
         /\ \A f \in Events : f # worker[w].event => event'[f] = event[f]
         /\ \/ event'[worker[w].event] = [event[worker[w].event] EXCEPT !.status = "PROCESSED"]
            \/ UNCHANGED event /\ losses' = losses + 1
         /\ \A v \in Workers : v # w => worker'[v] = worker[v]
         /\ \/ worker'[w] = Idle /\ UNCHANGED faults
                 /\ event'[worker[w].event] = [event[worker[w].event] EXCEPT !.status = "PROCESSED"]
            \/ /\ worker'[w] = [worker[w] EXCEPT !.pc = "failed"]
               /\ crashes' = crashes /\ overruns' >= overruns /\ losses' >= losses
               /\ overruns' + losses' = overruns + losses + 1
               /\ overruns' = overruns => UNCHANGED event
         /\ UNCHANGED <<letter, message, receipts, sends, handled>>
<1> DEFINE e == worker[w].event
<1>1. Busy(w) /\ worker[w].pc = "handled" /\ e \in Events /\ UNCHANGED <<letter, message, receipts, sends, handled>>
  BY DEF markProcessed, Busy, TypeOK
<1> DEFINE processed == [event EXCEPT ![e].status = "PROCESSED"]
<1>2. /\ processed[e] = [event[e] EXCEPT !.status = "PROCESSED"]
      /\ \A f \in Events : f # e => processed[f] = event[f]
  BY <1>1 DEF TypeOK
<1>3. ASSUME worker' = [worker EXCEPT ![w] = Idle]
      PROVE  worker'[w] = Idle /\ \A v \in Workers : v # w => worker'[v] = worker[v]
  BY <1>3 DEF TypeOK
<1>4. ASSUME Goto(w, "failed")
      PROVE  /\ worker'[w] = [worker[w] EXCEPT !.pc = "failed"]
             /\ \A v \in Workers : v # w => worker'[v] = worker[v]
  BY <1>4 DEF TypeOK, Goto
<1> HIDE DEF processed
<1>5. \/ event' = processed /\ worker' = [worker EXCEPT ![w] = Idle] /\ UNCHANGED faults
      \/ losses' = losses + 1 /\ Goto(w, "failed") /\ UNCHANGED <<event, crashes, overruns>>
      \/ overruns' = overruns + 1 /\ event' = processed /\ Goto(w, "failed") /\ UNCHANGED <<crashes, losses>>
  BY DEF markProcessed, processed
<1>6. crashes \in Nat /\ overruns \in Nat /\ losses \in Nat
  BY DEF TypeOK
<1>7. CASE event' = processed /\ worker' = [worker EXCEPT ![w] = Idle] /\ UNCHANGED faults
  BY <1>1, <1>2, <1>3, <1>7
<1>8. CASE losses' = losses + 1 /\ Goto(w, "failed") /\ UNCHANGED <<event, crashes, overruns>>
  BY <1>1, <1>4, <1>6, <1>8
<1>9. CASE overruns' = overruns + 1 /\ event' = processed /\ Goto(w, "failed") /\ UNCHANGED <<crashes, losses>>
  BY <1>1, <1>2, <1>4, <1>6, <1>9
<1> QED
  BY <1>5, <1>7, <1>8, <1>9

\* What markRetry writes: the event waits again, or is dead, with a letter and a failed message.
LEMMA RetriedOne ==
  ASSUME TypeOK, NEW w \in Workers, markRetry(w)
  PROVE  /\ Busy(w) /\ worker[w].pc = "failed" /\ worker[w].event \in Events
         /\ worker'[w] = Idle
         /\ \A v \in Workers : v # w => worker'[v] = worker[v]
         /\ \A f \in Events : f # worker[w].event => event'[f] = event[f] /\ letter'[f] = letter[f]
         /\ event'[worker[w].event].message = event[worker[w].event].message /\ event'[worker[w].event].attempts = event[worker[w].event].attempts
         /\ letter'[worker[w].event].replay = letter[worker[w].event].replay
         /\ Exhausted(w) => /\ event'[worker[w].event].status = "PROCESSED" /\ event'[worker[w].event].dead
                            /\ letter'[worker[w].event].attempts = worker[w].attempts
         /\ ~Exhausted(w) => /\ event'[worker[w].event].status = "WAITING" /\ ~event'[worker[w].event].dead /\ ~event'[worker[w].event].due
                             /\ UNCHANGED <<letter, message>>
         /\ \A m \in Messages : IF Exhausted(w) /\ event[worker[w].event].message = m
                                THEN message'[m] = [message[m] EXCEPT !.status = "FAILED"]
                                ELSE message'[m] = message[m]
         /\ UNCHANGED <<receipts, sends, handled, faults>>
<1> DEFINE e == worker[w].event
<1>1. Busy(w) /\ worker[w].pc = "failed" /\ e \in Events /\ UNCHANGED <<receipts, sends, handled, faults>>
  BY DEF markRetry, Busy, TypeOK
<1>2. /\ worker'[w] = Idle
      /\ \A v \in Workers : v # w => worker'[v] = worker[v]
  BY DEF markRetry, TypeOK
<1>3. \A f \in Events : f # e => event'[f] = event[f] /\ letter'[f] = letter[f]
  BY DEF markRetry, TypeOK
<1>4. /\ event'[e] = [event[e] EXCEPT !.status = IF Exhausted(w) THEN "PROCESSED" ELSE "WAITING",
                                      !.dead = Exhausted(w),
                                      !.due = IF Exhausted(w) THEN @ ELSE FALSE]
      /\ Exhausted(w) => letter'[e] = [letter[e] EXCEPT !.attempts = worker[w].attempts]
      /\ ~Exhausted(w) => UNCHANGED <<letter, message>>
  BY <1>1 DEF markRetry, TypeOK
<1>5. /\ event'[e].message = event[e].message /\ event'[e].attempts = event[e].attempts
      /\ letter'[e].replay = letter[e].replay
      /\ Exhausted(w) => /\ event'[e].status = "PROCESSED" /\ event'[e].dead
                         /\ letter'[e].attempts = worker[w].attempts
      /\ ~Exhausted(w) => event'[e].status = "WAITING" /\ ~event'[e].dead /\ ~event'[e].due
  BY <1>1, <1>4 DEF TypeOK, EventRow, LetterRow
<1>6. message' = IF Exhausted(w) /\ event[e].message # None
                 THEN [message EXCEPT ![event[e].message].status = "FAILED"] ELSE message
  BY DEF markRetry, Target
<1>7. \A m \in Messages : IF Exhausted(w) /\ event[e].message = m
                          THEN message'[m] = [message[m] EXCEPT !.status = "FAILED"]
                          ELSE message'[m] = message[m]
  BY <1>6, OutboxAssumption DEF TypeOK
<1> QED
  BY <1>1, <1>2, <1>3, <1>4, <1>5, <1>7

\* What workers have in memory was claimed, whoever steps.
LEMMA ClaimsStep == RecordsInv /\ [Next]_vars => ClaimsAreCounted'
<1> SUFFICES ASSUME RecordsInv, [Next]_vars PROVE ClaimsAreCounted'
  OBVIOUS
<1>0. TypeOK /\ ClaimsAreCounted /\ TypeOK'
  BY OutboxTypes DEF RecordsInv
<1>1. \A w \in Workers : Busy(w) =>
        /\ worker[w].event \in Events
        /\ worker[w].attempts \in 1 .. event[worker[w].event].attempts
        /\ worker[w].pc \in {"read", "sending", "accepted", "rejected"} => Target(w) \in Messages
        /\ worker[w].pc = "handled" => handled[worker[w].event]
  BY <1>0 DEF TypeOK, ClaimsAreCounted, Busy
<1>2. /\ \A e \in Events : event[e].attempts \in Nat /\ event'[e].attempts \in Nat
      /\ \A w \in Workers : worker'[w].attempts \in Nat
      /\ \A e \in Events : event[e].message \in Messages \cup {None}
  BY <1>0 DEF TypeOK, EventRow, WorkerRow
<1> DEFINE Fine(w) ==
      Busy(w)' => /\ worker'[w].attempts \in 1 .. event'[worker'[w].event].attempts
                  /\ worker'[w].pc \in {"read", "sending", "accepted", "rejected"} => Target(w)' \in Messages
                  /\ worker'[w].pc = "handled" => handled'[worker'[w].event]
<1> SUFFICES \A w \in Workers : Fine(w)
  BY DEF ClaimsAreCounted
<1>a. ASSUME NEW w \in Workers, worker'[w] = worker[w],
             Busy(w) => LET e == worker[w].event IN
               /\ event'[e].attempts >= event[e].attempts
               /\ event'[e].message = event[e].message
               /\ handled[e] => handled'[e]
      PROVE  Fine(w)
  BY <1>a, <1>1, <1>2 DEF Target, Busy
<1>c. ASSUME NEW w \in Workers, ~Busy(w)' PROVE Fine(w)
  BY <1>c
<1> HIDE DEF Fine
<1>b. ASSUME NEW e \in Events, event[e].status = "ABSENT", NEW m, event' = Inserted(e, m),
             UNCHANGED <<worker, handled>>, NEW w \in Workers
      PROVE  Fine(w)
  <2>1. Busy(w) => event'[worker[w].event] = event[worker[w].event]
    BY <1>b, <1>0, <1>1, InsertedIsFresh
  <2> QED
    BY <2>1, <1>a, <1>b, <1>1, <1>2
<1>3. ASSUME NEW e \in Events, TimePasses(e) \/ LeaseExpires(e), NEW w \in Workers PROVE Fine(w)
  <2>1. \A f \in Events : event'[f].attempts = event[f].attempts /\ event'[f].message = event[f].message
    BY <1>0, <1>3 DEF TimePasses, LeaseExpires, BecomesDue, TypeOK, EventRow
  <2>2. UNCHANGED <<worker, handled>>
    BY <1>3 DEF TimePasses, LeaseExpires, BecomesDue
  <2> QED
    BY <1>a, <1>1, <1>2, <2>1, <2>2
<1>4. ASSUME NEW w \in Workers, claimEvent(w), NEW v \in Workers PROVE Fine(v)
  <2>1. PICK e \in Events : ClaimedBy(w, e)
    BY <1>0, <1>4, ClaimOfOne
  <2>2. /\ event'[e].attempts = event[e].attempts + 1 /\ event'[e].message = event[e].message
        /\ \A f \in Events : f # e => event'[f] = event[f]
        /\ worker'[w] = [pc |-> "claimed", event |-> e, attempts |-> event[e].attempts + 1, attempt |-> 0]
        /\ \A x \in Workers : x # w => worker'[x] = worker[x]
        /\ UNCHANGED handled
    BY <2>1 DEF ClaimedBy
  <2>3. \A f \in Events : event'[f].attempts >= event[f].attempts /\ event'[f].message = event[f].message
    <3>1. \A f \in Events : f # e => event'[f].attempts >= event[f].attempts
      BY <1>2, <2>2
    <3>2. event'[e].attempts >= event[e].attempts
      BY <1>2, <2>2
    <3> QED
      BY <2>2, <3>1, <3>2
  <2>4. Fine(w)
    <3>1. /\ worker'[w].event = e /\ worker'[w].pc = "claimed"
          /\ worker'[w].attempts = event[e].attempts + 1
      BY <2>2
    <3>2. event[e].attempts + 1 \in 1 .. event[e].attempts + 1
      BY <1>2
    <3> QED
      BY <2>2, <3>1, <3>2 DEF Fine
  <2> QED
    BY <1>a, <1>1, <1>2, <2>2, <2>3, <2>4
<1>5. ASSUME NEW w \in Workers, Works(w), NEW v \in Workers PROVE Fine(v)
  <2>1. v # w => Fine(v)
    BY <1>0, <1>1, <1>2, <1>5, <1>a, WorkKeepsTheEvent
  <2>2. Fine(w)
    BY <1>0, <1>1, <1>2, <1>5, WorkKeepsTheEvent DEF Fine, Target
  <2> QED
    BY <2>1, <2>2
<1>6. ASSUME NEW w \in Workers, markProcessed(w), NEW v \in Workers PROVE Fine(v)
  <2> DEFINE e == worker[w].event
  <2>1. /\ \A f \in Events : f # e => event'[f] = event[f]
        /\ event'[e] = [event[e] EXCEPT !.status = "PROCESSED"] \/ UNCHANGED event
        /\ \A x \in Workers : x # w => worker'[x] = worker[x]
        /\ worker'[w] = Idle \/ worker'[w] = [worker[w] EXCEPT !.pc = "failed"]
        /\ UNCHANGED handled /\ Busy(w) /\ e \in Events
    BY <1>0, <1>6, ProcessedOne
  <2>2. event'[e].attempts = event[e].attempts /\ event'[e].message = event[e].message
    BY <1>0, <2>1 DEF TypeOK, EventRow
  <2>3. \A f \in Events : event'[f].attempts = event[f].attempts /\ event'[f].message = event[f].message
    BY <2>1, <2>2
  <2>4. \/ worker'[w].pc = "idle"
        \/ worker'[w].pc = "failed" /\ worker'[w].event = e /\ worker'[w].attempts = worker[w].attempts
    BY <1>0, <2>1 DEF Idle, TypeOK, WorkerRow
  <2>5. Fine(w)
    BY <1>1, <1>2, <2>1, <2>3, <2>4 DEF Fine, Busy
  <2> QED
    BY <1>a, <1>1, <1>2, <2>1, <2>3, <2>5
<1>7. ASSUME NEW w \in Workers, markRetry(w), NEW v \in Workers PROVE Fine(v)
  <2>1. /\ \A f \in Events : event'[f].attempts = event[f].attempts /\ event'[f].message = event[f].message
        /\ worker'[w] = Idle
        /\ \A x \in Workers : x # w => worker'[x] = worker[x]
        /\ UNCHANGED handled
    BY <1>0, <1>7, RetriedOne
  <2>2. ~Busy(w)'
    BY <2>1 DEF Busy, Idle
  <2> QED
    BY <1>a, <1>c, <1>1, <1>2, <2>1, <2>2
<1>8. ASSUME NEW w \in Workers, Crash(w), NEW v \in Workers PROVE Fine(v)
  <2>1. worker' = [worker EXCEPT ![w] = Idle] /\ UNCHANGED <<event, handled>>
    BY <1>8 DEF Crash
  <2>2. ~Busy(w)' /\ \A x \in Workers : x # w => worker'[x] = worker[x]
    BY <1>0, <2>1, IdleAgain
  <2>3. \A f \in Events : event'[f] = event[f] /\ handled'[f] = handled[f]
    BY <2>1
  <2>4. v # w => Fine(v)
    BY <1>1, <1>2, <1>a, <2>2, <2>3
  <2> QED
    BY <1>c, <2>2, <2>4
<1>9. ASSUME UNCHANGED <<event, worker, handled>>, NEW w \in Workers PROVE Fine(w)
  BY <1>9, <1>1, <1>2, <1>a
<1> QED
  BY <1>b, <1>3, <1>4, <1>5, <1>6, <1>7, <1>8, <1>9
     DEF Next, Work, Works, queueTrackingMessage, publishEvent, replayDeadLetter, applyStatus, vars

\* The producers of events: the two services and the operator.
Produces(e) ==
  (\E m \in Messages : queueTrackingMessage(e, m)) \/ publishEvent(e) \/ \E copy \in Events : replayDeadLetter(e, copy)

\* Nobody else changes the message of an event or the replay of a letter.
LEMMA EventsKeepTheirMessage ==
  ASSUME TypeOK, [Next]_vars, ~\E e \in Events : Produces(e)
  PROVE  \A f \in Events : event'[f].message = event[f].message /\ letter'[f].replay = letter[f].replay
<1> DEFINE Kept(f) == event'[f].message = event[f].message /\ letter'[f].replay = letter[f].replay
<1> SUFFICES ASSUME NEW f \in Events PROVE Kept(f)
  OBVIOUS
<1>1. ASSUME NEW e \in Events, TimePasses(e) \/ LeaseExpires(e) PROVE Kept(f)
  BY <1>1 DEF TimePasses, LeaseExpires, BecomesDue, TypeOK, EventRow
<1>2. ASSUME NEW w \in Workers, claimEvent(w) PROVE Kept(f)
  <2>1. PICK e \in Events : ClaimedBy(w, e)
    BY <1>2, ClaimOfOne
  <2> QED
    BY <2>1 DEF ClaimedBy
<1>3. ASSUME NEW w \in Workers, Works(w) PROVE Kept(f)
  BY <1>3, WorkKeepsTheEvent
<1>4. ASSUME NEW w \in Workers, markProcessed(w) PROVE Kept(f)
  <2>1. /\ \A x \in Events : x # worker[w].event => event'[x] = event[x]
        /\ event'[worker[w].event] = [event[worker[w].event] EXCEPT !.status = "PROCESSED"] \/ UNCHANGED event
        /\ worker[w].event \in Events /\ UNCHANGED letter
    BY <1>4, ProcessedOne
  <2> QED
    BY <2>1 DEF TypeOK, EventRow
<1>5. ASSUME NEW w \in Workers, markRetry(w) PROVE Kept(f)
  BY <1>5, RetriedOne
<1>6. ASSUME NEW w \in Workers, Crash(w) PROVE Kept(f)
  BY <1>6 DEF Crash
<1>7. ASSUME UNCHANGED <<event, letter>> PROVE Kept(f)
  BY <1>7
<1> HIDE DEF Kept
<1> QED
  BY <1>1, <1>2, <1>3, <1>4, <1>5, <1>6, <1>7 DEF Next, Work, Works, applyStatus, Produces, vars

\* Letters are late, whoever steps.
LEMMA LettersStep == RecordsInv /\ [Next]_vars => LettersAreLate'
<1> SUFFICES ASSUME RecordsInv, [Next]_vars PROVE LettersAreLate'
  OBVIOUS
<1>0. TypeOK /\ ClaimsAreCounted /\ LettersAreLate /\ TypeOK'
  BY OutboxTypes DEF RecordsInv
<1> DEFINE Late(e) ==
      /\ event[e].dead => event[e].status = "PROCESSED" /\ letter[e].attempts > 0
      /\ letter[e].attempts > 0 => letter[e].attempts \in MaxAttempts .. event[e].attempts
      /\ letter[e].replay # None => letter[e].attempts > 0
      /\ event[e].status = "ABSENT" => letter[e].attempts = 0 /\ event[e].message = None
<1>1. \A e \in Events : Late(e)
  BY <1>0 DEF LettersAreLate
<1> SUFFICES ASSUME NEW f \in Events PROVE Late(f)'
  BY DEF LettersAreLate
<1>2. /\ event[f].attempts \in Nat /\ letter[f].attempts \in Nat
      /\ event[f].status \in EventStatus /\ event[f].dead \in BOOLEAN
  BY <1>0 DEF TypeOK, EventRow, LetterRow
<1>a. ASSUME event'[f] = event[f], letter'[f] = letter[f] PROVE Late(f)'
  BY <1>a, <1>1
<1>3. ASSUME NEW e \in Events, event[e].status = "ABSENT", NEW m, event' = Inserted(e, m), UNCHANGED letter
      PROVE Late(f)'
  <2>1. CASE f # e
    BY <1>0, <1>a, <1>3, <2>1, InsertedIsFresh
  <2>2. CASE f = e
    <3>1. event'[f] = [status |-> "WAITING", message |-> m, attempts |-> 0, dead |-> FALSE, due |-> TRUE]
      BY <1>0, <1>3, <2>2, InsertedIsFresh
    <3>2. letter'[f].attempts = 0 /\ letter'[f].replay = None
      BY <1>1, <1>3, <2>2
    <3> QED
      BY <3>1, <3>2
  <2> QED
    BY <2>1, <2>2
<1>4. ASSUME NEW e \in Events, NEW copy \in Events, replayDeadLetter(e, copy) PROVE Late(f)'
  <2>1. /\ letter[e].attempts > 0 /\ event[copy].status = "ABSENT" /\ letter[copy].attempts = 0
        /\ event' = Inserted(copy, event[e].message)
        /\ letter' = [letter EXCEPT ![e].replay = copy]
    BY <1>1, <1>4 DEF replayDeadLetter
  <2>2. /\ letter'[e].attempts = letter[e].attempts
        /\ \A x \in Events : x # e => letter'[x] = letter[x]
    BY <1>0, <2>1 DEF TypeOK, LetterRow
  <2>3. /\ event'[copy] = [status |-> "WAITING", message |-> event[e].message, attempts |-> 0, dead |-> FALSE, due |-> TRUE]
        /\ \A x \in Events : x # copy => event'[x] = event[x]
    BY <1>0, <2>1, InsertedIsFresh
  <2>4. e # copy
    BY <2>1
  <2>5. CASE f = copy
    <3>1. letter'[f] = letter[f] /\ letter[f].attempts = 0 /\ letter[f].replay = None
      BY <1>1, <2>1, <2>2, <2>4, <2>5
    <3> QED
      BY <2>3, <2>5, <3>1
  <2>6. CASE f = e
    BY <1>1, <2>1, <2>2, <2>3, <2>4, <2>6
  <2>7. CASE f # e /\ f # copy
    BY <1>a, <2>2, <2>3, <2>7
  <2> QED
    BY <2>5, <2>6, <2>7
<1>5. ASSUME UNCHANGED letter, event'[f].attempts >= event[f].attempts, event'[f].dead = event[f].dead,
             event'[f].message = event[f].message, event[f].dead => event'[f].status = "PROCESSED",
             event'[f].status = "ABSENT" <=> event[f].status = "ABSENT"
      PROVE  Late(f)'
  <2>1. event'[f].attempts \in Nat
    BY <1>0 DEF TypeOK, EventRow
  <2> QED
    BY <1>1, <1>2, <1>5, <2>1, OutboxAssumption
<1> HIDE DEF Late
<1>6. ASSUME NEW e \in Events, TimePasses(e) \/ LeaseExpires(e) PROVE Late(f)'
  <2>1. event' = [event EXCEPT ![e].due = TRUE] /\ UNCHANGED letter
    BY <1>6 DEF TimePasses, LeaseExpires, BecomesDue
  <2>2. /\ event'[f].attempts = event[f].attempts /\ event'[f].dead = event[f].dead
        /\ event'[f].message = event[f].message /\ event'[f].status = event[f].status
    BY <1>0, <2>1 DEF TypeOK, EventRow
  <2> QED
    BY <1>1, <1>2, <1>5, <2>1, <2>2 DEF Late
<1>7. ASSUME NEW w \in Workers, claimEvent(w) PROVE Late(f)'
  <2>1. PICK e \in Events : ClaimedBy(w, e)
    BY <1>0, <1>7, ClaimOfOne
  <2>2. event[f].attempts + 1 >= event[f].attempts
    BY <1>2
  <2> QED
    BY <1>1, <1>2, <1>5, <1>a, <2>1, <2>2 DEF Late, ClaimedBy
<1>8. ASSUME NEW w \in Workers, Works(w) PROVE Late(f)'
  BY <1>0, <1>8, <1>a, WorkKeepsTheEvent
<1>9. ASSUME NEW w \in Workers, markProcessed(w) PROVE Late(f)'
  <2> DEFINE e == worker[w].event
  <2>1. /\ \A x \in Events : x # e => event'[x] = event[x]
        /\ event'[e] = [event[e] EXCEPT !.status = "PROCESSED"] \/ UNCHANGED event
        /\ e \in Events /\ UNCHANGED letter
        /\ Busy(w)
    BY <1>0, <1>9, ProcessedOne
  <2>2. event[e].status # "ABSENT"
    BY <1>0, <2>1 DEF TypeOK, Busy
  <2>3. CASE f = e /\ event'[e] = [event[e] EXCEPT !.status = "PROCESSED"]
    <3>1. /\ event'[f].attempts = event[f].attempts /\ event'[f].dead = event[f].dead
          /\ event'[f].message = event[f].message /\ event'[f].status = "PROCESSED"
      BY <1>0, <2>3 DEF TypeOK, EventRow
    <3> QED
      BY <1>2, <1>5, <2>1, <2>2, <2>3, <3>1
  <2> QED
    BY <1>a, <2>1, <2>3
<1>10. ASSUME NEW w \in Workers, markRetry(w) PROVE Late(f)'
  <2> DEFINE e == worker[w].event
  <2>1. Busy(w) /\ e \in Events
    BY <1>0, <1>10, RetriedOne
  <2>2. /\ worker[w].attempts \in 1 .. event[e].attempts /\ event[e].status # "ABSENT"
        /\ worker[w].attempts \in Nat
    BY <1>0, <2>1 DEF ClaimsAreCounted, TypeOK, Busy, WorkerRow
  <2>3. CASE f # e
    BY <1>0, <1>10, <1>a, <2>3, RetriedOne
  <2>4. CASE f = e /\ Exhausted(w)
    <3>1. /\ event'[f].status = "PROCESSED" /\ event'[f].dead
          /\ event'[f].attempts = event[f].attempts
          /\ letter'[f].attempts = worker[w].attempts
      BY <1>0, <1>10, <2>4, RetriedOne
    <3>2. worker[w].attempts >= MaxAttempts /\ worker[w].attempts > 0
      BY <2>2, <2>4 DEF Exhausted
    <3> QED
      BY <1>2, <2>2, <2>4, <3>1, <3>2, OutboxAssumption DEF Late
  <2>5. CASE f = e /\ ~Exhausted(w)
    <3>1. /\ event'[f].status = "WAITING" /\ ~event'[f].dead
          /\ event'[f].attempts = event[f].attempts
          /\ letter'[f] = letter[f]
      BY <1>0, <1>10, <2>5, RetriedOne
    <3> QED
      BY <1>1, <3>1 DEF Late
  <2> QED
    BY <2>3, <2>4, <2>5
<1>11. ASSUME UNCHANGED <<event, letter>> PROVE Late(f)'
  BY <1>a, <1>11
<1> QED
  BY <1>3, <1>4, <1>6, <1>7, <1>8, <1>9, <1>10, <1>11
     DEF Next, Work, Works, Crash, queueTrackingMessage, publishEvent, applyStatus, vars

\* At most one event of a message is current, whoever steps.
LEMMA CurrentStep == RecordsInv /\ [Next]_vars => OneIsCurrent'
<1> SUFFICES ASSUME RecordsInv, [Next]_vars PROVE OneIsCurrent'
  OBVIOUS
<1>0. TypeOK /\ OneIsCurrent /\ LettersAreLate /\ SendsComeFirst
  BY DEF RecordsInv
<1>1. ASSUME NEW e \in Events, NEW m \in Messages, queueTrackingMessage(e, m) PROVE OneIsCurrent'
  <2>1. /\ event[e].status = "ABSENT" /\ event' = Inserted(e, m) /\ UNCHANGED letter
        /\ \A f \in Events : event[f].message # m
    BY <1>0, <1>1 DEF queueTrackingMessage, SendsComeFirst
  <2>2. event'[e].message = m /\ \A f \in Events : f # e => event'[f] = event[f]
    BY <1>0, <2>1, InsertedIsFresh
  <2> QED
    BY <1>0, <2>1, <2>2 DEF OneIsCurrent
<1>2. ASSUME NEW e \in Events, publishEvent(e) PROVE OneIsCurrent'
  <2>1. event[e].status = "ABSENT" /\ event' = Inserted(e, None) /\ UNCHANGED letter
    BY <1>2 DEF publishEvent
  <2>2. event'[e].message = None /\ \A f \in Events : f # e => event'[f] = event[f]
    BY <1>0, <2>1, InsertedIsFresh
  <2> QED
    BY <1>0, <2>1, <2>2, OutboxAssumption DEF OneIsCurrent
<1>3. ASSUME NEW e \in Events, NEW copy \in Events, replayDeadLetter(e, copy) PROVE OneIsCurrent'
  <2>1. /\ letter[e].attempts > 0 /\ letter[e].replay = None /\ event[copy].status = "ABSENT"
        /\ event' = Inserted(copy, event[e].message)
        /\ letter' = [letter EXCEPT ![e].replay = copy]
    BY <1>3 DEF replayDeadLetter
  <2>2. /\ letter'[e].replay # None
        /\ \A x \in Events : x # e => letter'[x] = letter[x]
    BY <1>0, <2>1, OutboxAssumption DEF TypeOK, LetterRow
  <2>3. /\ event'[copy].message = event[e].message
        /\ \A x \in Events : x # copy => event'[x] = event[x]
    BY <1>0, <2>1, InsertedIsFresh
  <2>4. \A x \in Events : x # e /\ event[x].message = event[e].message /\ event[e].message \in Messages
          => letter[x].replay # None
    BY <1>0, <2>1 DEF OneIsCurrent
  <2> QED
    BY <1>0, <2>2, <2>3, <2>4 DEF OneIsCurrent
<1>4. CASE \A f \in Events : event'[f].message = event[f].message /\ letter'[f].replay = letter[f].replay
  BY <1>0, <1>4 DEF OneIsCurrent
<1> QED
  BY <1>0, <1>1, <1>2, <1>3, <1>4, EventsKeepTheirMessage DEF Produces

\* What a working worker does to its message m and to the count of its sends.
Sent(m) == message'[m].status = "SENT" /\ message'[m].provider = sends[m]
Marked(m, status) == message'[m].status = status /\ message'[m].provider = message[m].provider

Progress(w, m) ==
  LET from == worker[w].pc
      to == worker'[w].pc
  IN \/ /\ from = "claimed" /\ UNCHANGED <<message, sends, losses>>
        /\ \/ to \in {"read", "failed"}
           \/ to = "handled" /\ (m \in Messages => AlreadySent(m))
     \/ /\ from = "read" /\ to = "sending" /\ Marked(m, "PROCESSING") /\ UNCHANGED <<sends, losses>>
     \/ /\ from = "sending" /\ UNCHANGED message
        /\ \/ to \in {"accepted", "rejected"} /\ sends'[m] = sends[m] + 1
              /\ losses' = losses + (IF to = "rejected" THEN 1 ELSE 0)
           \/ to = "rejected" /\ UNCHANGED <<sends, losses>>
     \/ /\ from = "accepted" /\ UNCHANGED sends
        /\ \/ to = "handled" /\ Sent(m) /\ UNCHANGED losses
           \/ to = "rejected" /\ (Sent(m) \/ message'[m] = message[m]) /\ losses' = losses + 1
     \/ /\ from = "rejected" /\ to = "failed" /\ UNCHANGED <<sends, losses>>
        /\ Marked(m, "RETRYING") \/ message'[m] = message[m]

\* Every such step is one of these moves, and touches no other message.
LEMMA WorkIsProgress ==
  ASSUME TypeOK, ClaimsAreCounted, NEW w \in Workers, Works(w)
  PROVE  /\ Progress(w, Target(w))
         /\ \A m \in Messages : m # Target(w) => message'[m] = message[m] /\ sends'[m] = sends[m]
         /\ worker[w].pc # "claimed" => Target(w) \in Messages
<1> DEFINE m == Target(w)
           Others == \A x \in Messages : x # m => message'[x] = message[x] /\ sends'[x] = sends[x]
<1>1. worker[w].pc \in {"read", "sending", "accepted", "rejected"} => m \in Messages
  BY DEF ClaimsAreCounted, Busy
<1>2. ASSUME NEW pc, Goto(w, pc) PROVE worker'[w].pc = pc
  BY <1>2 DEF TypeOK, Goto
<1> HIDE DEF m
<1>3. CASE processPush(w)
  <2>1. m \notin Messages
    BY <1>3, OutboxAssumption DEF processPush, m
  <2>2. /\ worker[w].pc = "claimed" /\ worker'[w].pc \in {"handled", "failed"}
        /\ UNCHANGED <<message, sends, losses>>
    BY <1>2, <1>3 DEF processPush, Return, faults
  <2> QED
    BY <2>1, <2>2 DEF Progress, m
<1>4. CASE readMessage(w)
  <2>1. worker' = [worker EXCEPT ![w].pc = "read", ![w].attempt = message[m].attempts + 1]
          => worker'[w].pc = "read"
    BY DEF TypeOK, WorkerRow
  <2>2. /\ worker[w].pc = "claimed" /\ UNCHANGED <<message, sends, losses>>
        /\ \/ AlreadySent(m) /\ Goto(w, "handled")
           \/ worker' = [worker EXCEPT ![w].pc = "read", ![w].attempt = message[m].attempts + 1]
           \/ Goto(w, "failed")
    BY <1>4 DEF readMessage, Return, faults, m
  <2>3. worker'[w].pc \in {"read", "failed"} \/ (worker'[w].pc = "handled" /\ AlreadySent(m))
    <3>1. CASE AlreadySent(m) /\ Goto(w, "handled")
      BY <1>2, <3>1
    <3>2. CASE worker' = [worker EXCEPT ![w].pc = "read", ![w].attempt = message[m].attempts + 1]
      <4>1. worker'[w].pc = "read"
        BY <2>1, <3>2
      <4> QED
        BY <4>1
    <3>3. CASE Goto(w, "failed")
      <4>1. worker'[w].pc = "failed"
        BY <1>2, <3>3
      <4> QED
        BY <4>1
    <3> QED
      BY <2>2, <3>1, <3>2, <3>3
  <2> QED
    BY <2>2, <2>3 DEF Progress, m
<1>5. CASE startAttempt(w)
  <2>1. /\ worker[w].pc = "read" /\ worker'[w].pc = "sending" /\ UNCHANGED <<sends, losses>>
        /\ message' = [message EXCEPT ![m].status = "PROCESSING", ![m].attempts = worker[w].attempt]
    BY <1>2, <1>5 DEF startAttempt, faults, m
  <2>2. Others /\ Marked(m, "PROCESSING")
    BY <1>1, <2>1 DEF TypeOK, MessageRow, Marked
  <2> QED
    BY <1>1, <2>1, <2>2 DEF Progress, m
<1>6. CASE sendToProvider(w)
  <2>1. /\ worker[w].pc = "sending" /\ UNCHANGED message
        /\ \/ /\ worker'[w].pc = "accepted" /\ sends' = [sends EXCEPT ![m] = @ + 1] /\ losses' = losses
           \/ /\ worker'[w].pc = "rejected" /\ UNCHANGED <<sends, losses>>
           \/ /\ worker'[w].pc = "rejected" /\ sends' = [sends EXCEPT ![m] = @ + 1] /\ losses' = losses + 1
    BY <1>2, <1>6 DEF sendToProvider, m
  <2>2. Others /\ (sends' = [sends EXCEPT ![m] = @ + 1] => sends'[m] = sends[m] + 1)
    BY <1>1, <2>1 DEF TypeOK
  <2>3. losses \in Nat
    BY DEF TypeOK
  <2> QED
    BY <1>1, <2>1, <2>2, <2>3 DEF Progress, m
<1>7. CASE recordSent(w)
  <2> DEFINE sent == [message EXCEPT ![m].status = "SENT", ![m].provider = sends[m]]
  <2> HIDE DEF sent
  <2>1. /\ worker[w].pc = "accepted" /\ UNCHANGED sends
        /\ \/ worker'[w].pc = "handled" /\ message' = sent /\ UNCHANGED losses
           \/ worker'[w].pc = "rejected" /\ (message' = sent \/ message' = message) /\ losses' = losses + 1
    BY <1>2, <1>7 DEF recordSent, Return, sent, m
  <2>2. /\ message' = sent => Sent(m)
        /\ \A x \in Messages : x # m => message'[x] = message[x]
    BY <1>1, <2>1 DEF TypeOK, MessageRow, Sent, sent
  <2> QED
    BY <1>1, <2>1, <2>2 DEF Progress, m
<1>8. CASE recordRejection(w)
  <2>1. /\ worker[w].pc = "rejected" /\ worker'[w].pc = "failed" /\ UNCHANGED <<sends, losses>>
        /\ message' = [message EXCEPT ![m].status = "RETRYING"] \/ message' = message
    BY <1>2, <1>8 DEF recordRejection, faults, m
  <2>2. Others /\ (message'[m] = message[m] \/ Marked(m, "RETRYING"))
    BY <1>1, <2>1 DEF TypeOK, MessageRow, Marked
  <2> QED
    BY <1>1, <2>1, <2>2 DEF Progress, m
<1> QED
  BY <1>3, <1>4, <1>5, <1>6, <1>7, <1>8 DEF Works

\* What is recorded of a message was sent, whoever steps.
LEMMA SendsStep == RecordsInv /\ [Next]_vars => SendsComeFirst'
<1> SUFFICES ASSUME RecordsInv, [Next]_vars PROVE SendsComeFirst'
  OBVIOUS
<1>0. TypeOK /\ TypeOK' /\ ClaimsAreCounted /\ SendsComeFirst /\ LettersAreLate
  BY OutboxTypes DEF RecordsInv
<1> DEFINE Known(m) ==
      /\ message[m].status \in {"SENT", "DELIVERED"} => sends[m] > 0
      /\ message[m].provider <= sends[m]
      /\ message[m].status = "NONE" => sends[m] = 0 /\ \A e \in Events : event[e].message # m
    Accepted(w) == worker[w].pc = "accepted" => sends[Target(w)] > 0
<1>1. (\A m \in Messages : Known(m)) /\ \A w \in Workers : Accepted(w)
  BY <1>0 DEF SendsComeFirst
<1>2. /\ \A m \in Messages : /\ sends[m] \in Nat /\ sends'[m] \in Nat
                             /\ message[m].provider \in Nat /\ message'[m].provider \in Nat
      /\ \A e \in Events : event[e].message \in Messages \cup {None}
      /\ \A w \in Workers : worker[w].pc = "accepted" => Busy(w) /\ worker[w].event \in Events /\ Target(w) \in Messages
  BY <1>0 DEF TypeOK, MessageRow, EventRow, ClaimsAreCounted, Busy
<1> SUFFICES (\A m \in Messages : Known(m)') /\ \A w \in Workers : Accepted(w)'
  BY DEF SendsComeFirst
<1>a. ASSUME NEW m \in Messages, message'[m] = message[m], sends'[m] = sends[m],
             \A e \in Events : event'[e].message = event[e].message
                               \/ event'[e].message = None \/ message[event'[e].message].status # "NONE"
      PROVE  Known(m)'
  BY <1>a, <1>1, OutboxAssumption
<1>b. ASSUME NEW w \in Workers, worker'[w] = worker[w], Busy(w) => Target(w)' = Target(w),
             \A m \in Messages : sends'[m] >= sends[m]
      PROVE  Accepted(w)'
  BY <1>b, <1>1, <1>2
<1>c. ASSUME NEW w \in Workers, ~Busy(w)' PROVE Accepted(w)'
  BY <1>c DEF Busy
<1>d. \A m \in Messages : sends[m] >= sends[m]
  BY <1>2
<1> HIDE DEF Accepted
<1>p. ASSUME NEW e \in Events, event[e].status = "ABSENT", NEW m \in Messages \cup {None}, event' = Inserted(e, m),
             UNCHANGED <<worker, sends>>, NEW w \in Workers
      PROVE  Accepted(w)'
  <2>1. Busy(w) => event'[worker[w].event] = event[worker[w].event]
    BY <1>p, <1>0, InsertedIsFresh DEF TypeOK, Busy
  <2> QED
    BY <1>b, <1>d, <1>p, <2>1 DEF Target
<1>3. ASSUME NEW e \in Events, NEW m \in Messages, queueTrackingMessage(e, m), NEW x \in Messages PROVE Known(x)'
  <2>1. /\ event[e].status = "ABSENT" /\ event' = Inserted(e, m) /\ message[m].status = "NONE"
        /\ message' = [message EXCEPT ![m].status = "PENDING"] /\ UNCHANGED sends
    BY <1>3 DEF queueTrackingMessage
  <2>2. event'[e].message = m /\ \A f \in Events : f # e => event'[f] = event[f]
    BY <1>0, <2>1, InsertedIsFresh
  <2>3. /\ message'[m].status = "PENDING" /\ message'[m].provider = message[m].provider
        /\ \A y \in Messages : y # m => message'[y] = message[y]
    BY <1>0, <2>1 DEF TypeOK, MessageRow
  <2>4. CASE x = m
    BY <1>1, <2>1, <2>3, <2>4
  <2>5. CASE x # m
    BY <1>1, <2>1, <2>2, <2>3, <2>5
  <2> QED
    BY <2>4, <2>5
<1>4. ASSUME NEW e \in Events, publishEvent(e), NEW x \in Messages PROVE Known(x)'
  <2>1. /\ event[e].status = "ABSENT" /\ event' = Inserted(e, None) /\ UNCHANGED <<message, sends>>
    BY <1>4 DEF publishEvent
  <2>2. event'[e].message = None /\ \A f \in Events : f # e => event'[f] = event[f]
    BY <1>0, <2>1, InsertedIsFresh
  <2> QED
    BY <1>a, <2>1, <2>2
<1>5. ASSUME NEW e \in Events, NEW copy \in Events, replayDeadLetter(e, copy), NEW x \in Messages PROVE Known(x)'
  <2>1. /\ event[copy].status = "ABSENT" /\ event' = Inserted(copy, event[e].message) /\ UNCHANGED <<message, sends>>
    BY <1>5 DEF replayDeadLetter
  <2>2. /\ event'[copy].message = event[e].message
        /\ \A f \in Events : f # copy => event'[f] = event[f]
    BY <1>0, <2>1, InsertedIsFresh
  <2>3. event[e].message = None \/ message[event[e].message].status # "NONE"
    BY <1>1, <1>2
  <2> QED
    BY <1>a, <2>1, <2>2, <2>3
<1>6. ASSUME \A e \in Events : event'[e].message = event[e].message PROVE \A w \in Workers : Busy(w) => Target(w) = event'[worker[w].event].message
  BY <1>0, <1>6 DEF TypeOK, Busy, Target
<1>7. ASSUME NEW w \in Workers, ~\E e \in Events : Produces(e), Works(w), NEW x \in Messages
      PROVE  Known(x)' /\ \A v \in Workers : Accepted(v)'
  <2> DEFINE t == Target(w)
  <2>1. /\ UNCHANGED event /\ \A y \in Workers : Target(y)' = Target(y)
        /\ \A y \in Workers : y # w => worker'[y] = worker[y]
    BY <1>0, <1>7, WorkKeepsTheEvent
  <2>2. /\ Progress(w, t) /\ \A y \in Messages : y # t => message'[y] = message[y] /\ sends'[y] = sends[y]
        /\ worker[w].pc # "claimed" => t \in Messages
    BY <1>0, <1>7, WorkIsProgress
  <2>3. x # t => Known(x)'
    BY <1>a, <2>1, <2>2
  <2>4. t \in Messages => /\ sends'[t] >= sends[t]
                          /\ worker'[w].pc = "accepted" => sends'[t] > 0
                          /\ worker[w].pc # "claimed" => message'[t] = message[t] \/ message'[t].status # "NONE"
                          /\ message'[t].provider = message[t].provider \/ message'[t].provider = sends[t]
                          /\ message'[t].status \in {"SENT", "DELIVERED"} =>
                               message[t].status \in {"SENT", "DELIVERED"} \/ worker[w].pc = "accepted"
    BY <1>2, <2>2 DEF Progress, Sent, Marked
  <2>5. ASSUME x = t PROVE Known(x)'
    <3>1. t = event[worker[w].event].message /\ worker[w].event \in Events
      BY <1>0, <1>7, WorkKeepsTheEvent DEF Target, TypeOK, Busy
    <3>2. message[x].status # "NONE"
      BY <1>1, <2>5, <3>1
    <3>3. message'[x].status # "NONE"
      BY <2>2, <2>5, <3>2 DEF Progress, Sent, Marked
    <3>4. worker[w].pc = "accepted" => sends[x] > 0
      BY <1>1, <2>5 DEF Accepted
    <3> QED
      BY <1>1, <1>2, <2>4, <2>5, <3>3, <3>4
  <2>6. Accepted(w)'
    BY <2>1, <2>2, <2>4 DEF Progress, Accepted
  <2>7. \A m \in Messages : sends'[m] >= sends[m]
    BY <1>2, <2>2, <2>4
  <2>8. \A v \in Workers : v # w => Accepted(v)'
    BY <1>b, <2>1, <2>7
  <2> QED
    BY <2>3, <2>5, <2>6, <2>8
<1>8. ASSUME NEW w \in Workers, markRetry(w), NEW x \in Messages
      PROVE  Known(x)' /\ \A v \in Workers : Accepted(v)'
  <2>1. /\ \A f \in Events : event'[f].message = event[f].message
        /\ worker'[w] = Idle /\ \A y \in Workers : y # w => worker'[y] = worker[y]
        /\ UNCHANGED sends
        /\ \/ message'[x] = [message[x] EXCEPT !.status = "FAILED"]
           \/ message'[x] = message[x]
    BY <1>0, <1>8, RetriedOne
  <2>2. \/ message'[x].status = "FAILED" /\ message'[x].provider = message[x].provider
        \/ message'[x] = message[x]
    BY <1>0, <2>1 DEF TypeOK, MessageRow
  <2>3. Known(x)'
    BY <1>1, <2>1, <2>2
  <2>4. ~Busy(w)'
    BY <2>1 DEF Busy, Idle
  <2>5. \A v \in Workers : Busy(v) => event'[worker[v].event].message = event[worker[v].event].message
    BY <1>0, <2>1 DEF TypeOK, Busy
  <2> QED
    BY <1>b, <1>c, <1>d, <2>1, <2>3, <2>4, <2>5 DEF Target
<1>9. ASSUME NEW m \in Messages, NEW status \in Callback, applyStatus(m, status), NEW x \in Messages
      PROVE  Known(x)' /\ \A v \in Workers : Accepted(v)'
  <2>1. /\ message[m].provider > 0 /\ UNCHANGED <<event, worker, sends>>
        /\ \E s \in {"SENT", "DELIVERED", "FAILED"} : message' = [message EXCEPT ![m].status = s]
    BY <1>9 DEF applyStatus, Callback
  <2>2. /\ message'[m].provider = message[m].provider /\ message'[m].status # "NONE"
        /\ \A y \in Messages : y # m => message'[y] = message[y]
    BY <1>0, <2>1 DEF TypeOK, MessageRow
  <2>3. sends[m] > 0
    BY <1>1, <1>2, <2>1
  <2> QED
    BY <1>1, <1>a, <1>b, <1>d, <2>1, <2>2, <2>3 DEF Target
<1>10. ASSUME UNCHANGED <<message, sends>>, \A e \in Events : event'[e].message = event[e].message, NEW x \in Messages
       PROVE Known(x)'
  BY <1>10, <1>1
<1>11. ASSUME UNCHANGED <<message, sends>>, \A e \in Events : event'[e].message = event[e].message, NEW v \in Workers,
              worker'[v] = worker[v] \/ worker'[v].pc # "accepted"
       PROVE Accepted(v)'
  <2>1. Busy(v) => event'[worker[v].event].message = event[worker[v].event].message
    BY <1>0, <1>11 DEF TypeOK, Busy
  <2> QED
    BY <1>11, <1>b, <1>d, <2>1 DEF Target, Accepted
<1>12. ASSUME NEW w \in Workers, claimEvent(w) \/ markProcessed(w) \/ Crash(w), NEW v \in Workers
       PROVE  UNCHANGED <<message, sends>> /\ (worker'[v] = worker[v] \/ worker'[v].pc # "accepted")
  <2>1. CASE claimEvent(w)
    <3>1. PICK e \in Events : ClaimedBy(w, e)
      BY <1>0, <2>1, ClaimOfOne
    <3> QED
      BY <3>1 DEF ClaimedBy
  <2>2. CASE markProcessed(w)
    <3>1. worker[w] \in WorkerRow
      BY <1>0 DEF TypeOK
    <3>2. /\ UNCHANGED <<message, sends>> /\ \A y \in Workers : y # w => worker'[y] = worker[y]
          /\ worker'[w] = Idle \/ worker'[w] = [worker[w] EXCEPT !.pc = "failed"]
      BY <1>0, <2>2, ProcessedOne
    <3>3. worker'[w].pc # "accepted"
      BY <3>1, <3>2 DEF Idle, WorkerRow
    <3> QED
      BY <3>2, <3>3
  <2>3. CASE Crash(w)
    BY <1>0, <2>3, IdleAgain DEF Crash, Idle
  <2> QED
    BY <1>12, <2>1, <2>2, <2>3
<1>13. ASSUME ~\E e \in Events : Produces(e), NEW x \in Messages
       PROVE  Known(x)' /\ \A v \in Workers : Accepted(v)'
  <2>1. \A e \in Events : event'[e].message = event[e].message
    BY <1>0, <1>13, EventsKeepTheirMessage
  <2>2. CASE UNCHANGED <<message, sends, worker>>
    BY <1>10, <1>11, <2>1, <2>2
  <2>3. CASE \E w \in Workers : claimEvent(w) \/ markProcessed(w) \/ Crash(w)
    BY <1>10, <1>11, <1>12, <2>1, <2>3
  <2> HIDE DEF Known
  <2> QED
    BY <1>7, <1>8, <1>9, <1>13, <2>2, <2>3
       DEF Next, Work, Works, Produces, TimePasses, LeaseExpires, BecomesDue, vars
<1>14. ASSUME NEW e \in Events, Produces(e), NEW x \in Messages
       PROVE  Known(x)' /\ \A v \in Workers : Accepted(v)'
  <2>1. Known(x)'
    BY <1>3, <1>4, <1>5, <1>14 DEF Produces
  <2>2. PICK m \in Messages \cup {None}, f \in Events :
          event[f].status = "ABSENT" /\ event' = Inserted(f, m) /\ UNCHANGED <<worker, sends>>
    <3>1. CASE \E m \in Messages : queueTrackingMessage(e, m)
      BY <3>1 DEF queueTrackingMessage
    <3>2. CASE publishEvent(e)
      BY <3>2 DEF publishEvent
    <3>3. CASE \E copy \in Events : replayDeadLetter(e, copy)
      BY <1>2, <3>3 DEF replayDeadLetter
    <3> QED
      BY <1>14, <3>1, <3>2, <3>3 DEF Produces
  <2> QED
    BY <1>p, <2>1, <2>2
<1> HIDE DEF Known
<1>15. ASSUME NEW x \in Messages PROVE Known(x)' /\ \A v \in Workers : Accepted(v)'
  BY <1>13, <1>14
<1>16. ASSUME Messages = {}, NEW v \in Workers PROVE Accepted(v)'
  BY <1>16, ClaimsStep DEF Accepted, ClaimsAreCounted, Busy
<1> QED
  BY <1>15, <1>16

\* The records stay consistent, whoever steps.
LEMMA RecordsStep == RecordsInv /\ [Next]_vars => RecordsInv'
  BY OutboxTypes, ClaimsStep, LettersStep, CurrentStep, SendsStep DEF RecordsInv


\* An event becomes due: nothing else of it changes.
LEMMA TickOfOne ==
  ASSUME TypeOK, NEW e \in Events, BecomesDue(e)
  PROVE  /\ event[e].status = "WAITING" /\ ~event[e].due
         /\ event'[e].status = "WAITING" /\ event'[e].due
         /\ event'[e].message = event[e].message /\ event'[e].attempts = event[e].attempts
         /\ event'[e].dead = event[e].dead
         /\ \A f \in Events : f # e => event'[f] = event[f]
         /\ UNCHANGED <<letter, message, receipts, worker, sends, handled, crashes, losses>>
<1>1. event'[e] = [event[e] EXCEPT !.due = TRUE] /\ \A f \in Events : f # e => event'[f] = event[f]
  BY DEF BecomesDue, TypeOK
<1> QED
  BY <1>1 DEF BecomesDue, TypeOK, EventRow

\* Faults are counted, never forgotten.
LEMMA FaultsGrow ==
  ASSUME TypeOK, [Next]_vars
  PROVE  crashes' >= crashes /\ overruns' >= overruns /\ losses' >= losses
<1>1. crashes \in Nat /\ overruns \in Nat /\ losses \in Nat
  BY DEF TypeOK
<1> DEFINE Grow == crashes' >= crashes /\ overruns' >= overruns /\ losses' >= losses
<1>2. CASE UNCHANGED <<crashes, overruns, losses>>
  BY <1>1, <1>2
<1>3. ASSUME NEW e \in Events, TimePasses(e) \/ LeaseExpires(e) PROVE Grow
  BY <1>1, <1>3 DEF TimePasses, LeaseExpires, BecomesDue
<1>4. ASSUME NEW w \in Workers, Works(w) PROVE Grow
  BY <1>1, <1>4 DEF Works, processPush, readMessage, startAttempt, sendToProvider, recordSent, recordRejection, faults
<1>5. ASSUME NEW w \in Workers, markProcessed(w) \/ Crash(w) PROVE Grow
  <2>1. CASE markProcessed(w)
    <3>1. \/ UNCHANGED <<crashes, overruns, losses>>
          \/ crashes' = crashes /\ overruns' >= overruns /\ losses' >= losses
      BY <2>1, ProcessedOne DEF faults
    <3> QED
      BY <1>1, <3>1
  <2>2. CASE Crash(w)
    BY <1>1, <2>2 DEF Crash
  <2> QED
    BY <1>5, <2>1, <2>2
<1> HIDE DEF Grow
<1>6. ASSUME UNCHANGED <<crashes, overruns, losses>> PROVE Grow
  BY <1>1, <1>6 DEF Grow
<1>7. Grow
  BY <1>3, <1>4, <1>5, <1>6
     DEF Next, Work, Works, faults, vars, queueTrackingMessage, publishEvent, replayDeadLetter, applyStatus,
         claimEvent, markRetry
<1> QED
  BY <1>7 DEF Grow

\* With no overrun, whoever works on a message works on it alone.
LEMMA WorksAlone ==
  ASSUME LeaseInv, overruns = 0, NEW w \in Workers, Busy(w), Target(w) \in Messages
  PROVE  /\ worker[w].event \in Events
         /\ letter[worker[w].event].replay = None
         /\ \A f \in Events : f # worker[w].event /\ event[f].message = Target(w) => letter[f].replay # None
         /\ \A v \in Workers : v # w /\ Busy(v) => Target(v) # Target(w)
<1>1. \A v \in Workers : Busy(v) => /\ worker[v].event \in Events /\ letter[worker[v].event].replay = None
                                    /\ worker[v].event = worker[w].event => v = w
  BY DEF LeaseInv, RecordsInv, LeasesHold, LettersAreLate, TypeOK, Busy
<1>2. \A f \in Events : f # worker[w].event /\ event[f].message = Target(w) => letter[f].replay # None
  BY <1>1 DEF LeaseInv, RecordsInv, OneIsCurrent, Target
<1> QED
  BY <1>1, <1>2 DEF Target

\* Leases hold until the first overrun, whoever steps.
LEMMA HoldStep == LeaseInv /\ [Next]_vars => LeasesHold'
<1> SUFFICES ASSUME LeaseInv, [Next]_vars, overruns' = 0 PROVE LeasesHold'
  BY DEF LeasesHold
<1>0. TypeOK /\ LettersAreLate /\ LeasesHold
  BY DEF LeaseInv, RecordsInv
<1>1. overruns = 0 /\ overruns \in Nat
  BY <1>0, FaultsGrow DEF TypeOK
<1> DEFINE Held(w) == Busy(w) => /\ event[worker[w].event].status = "WAITING"
                                 /\ ~event[worker[w].event].due
                                 /\ \A v \in Workers : Busy(v) /\ worker[v].event = worker[w].event => v = w
           Ended(e) == letter[e].attempts > 0 => event[e].dead
<1>2. (\A w \in Workers : Held(w)) /\ \A e \in Events : Ended(e)
  BY <1>0, <1>1 DEF LeasesHold
<1>3. \A w \in Workers : Busy(w) => worker[w].event \in Events /\ ~event[worker[w].event].dead
  BY <1>0, <1>2 DEF TypeOK, Busy, LettersAreLate
<1> SUFFICES (\A w \in Workers : Held(w)') /\ \A e \in Events : Ended(e)'
  BY DEF LeasesHold
<1>a. ASSUME UNCHANGED worker, NEW e \in Events, \A f \in Events : f # e => event'[f] = event[f],
             \A w \in Workers : Busy(w) => worker[w].event # e
      PROVE  \A w \in Workers : Held(w)'
  BY <1>2, <1>3, <1>a DEF Busy
<1>b. ASSUME NEW w \in Workers, ~Busy(w)', \A v \in Workers : v # w => worker'[v] = worker[v],
             \A f \in Events : f # worker[w].event => event'[f] = event[f],
             Busy(w)
      PROVE  \A v \in Workers : Held(v)'
  BY <1>2, <1>3, <1>b DEF Busy
<1>c. ASSUME \A v \in Workers : worker'[v].event = worker[v].event /\ (Busy(v)' => Busy(v)), UNCHANGED event
      PROVE  \A v \in Workers : Held(v)'
  BY <1>2, <1>c
<1>d. ASSUME \A e \in Events : letter'[e].attempts = letter[e].attempts /\ event'[e].dead = event[e].dead
      PROVE  \A e \in Events : Ended(e)'
  BY <1>2, <1>d
<1>4. ASSUME NEW e \in Events, event[e].status = "ABSENT", NEW m, event' = Inserted(e, m), UNCHANGED worker,
             \A f \in Events : letter'[f].attempts = letter[f].attempts
      PROVE  (\A w \in Workers : Held(w)') /\ \A f \in Events : Ended(f)'
  <2>1. /\ \A f \in Events : f # e => event'[f] = event[f]
        /\ \A w \in Workers : Busy(w) => worker[w].event # e
        /\ letter[e].attempts = 0
    BY <1>0, <1>4, InsertedIsFresh DEF LettersAreLate
  <2>2. \A f \in Events : Ended(f)'
    BY <1>2, <1>4, <2>1
  <2> QED
    BY <1>4, <1>a, <2>1, <2>2
<1>5. ASSUME NEW e \in Events, NEW copy \in Events, replayDeadLetter(e, copy)
      PROVE  \A f \in Events : letter'[f].attempts = letter[f].attempts
  BY <1>0, <1>5 DEF replayDeadLetter, TypeOK, LetterRow
<1>6. ASSUME NEW e \in Events, TimePasses(e) \/ LeaseExpires(e)
      PROVE  (\A w \in Workers : Held(w)') /\ \A f \in Events : Ended(f)'
  <2>1. Holders(e) = {} /\ BecomesDue(e)
    BY <1>1, <1>6 DEF TimePasses, LeaseExpires
  <2>2. \A w \in Workers : Busy(w) => worker[w].event # e
    BY <2>1 DEF Holders, Busy
  <2> QED
    BY <1>0, <1>a, <1>d, <2>1, <2>2, TickOfOne
<1>7. ASSUME NEW w \in Workers, claimEvent(w)
      PROVE  (\A v \in Workers : Held(v)') /\ \A f \in Events : Ended(f)'
  <2>1. PICK e \in Events : ClaimedBy(w, e)
    BY <1>0, <1>7, ClaimOfOne
  <2>2. \A f \in Events : letter'[f].attempts = letter[f].attempts /\ event'[f].dead = event[f].dead
    BY <2>1 DEF ClaimedBy
  <2>3. \A v \in Workers : Busy(v) => worker[v].event # e /\ v # w
    BY <1>2, <2>1 DEF ClaimedBy
  <2>4. /\ worker'[w].event = e /\ event'[e].status = "WAITING" /\ ~event'[e].due
        /\ \A v \in Workers : v # w => worker'[v] = worker[v]
        /\ \A f \in Events : f # e => event'[f] = event[f]
    BY <2>1 DEF ClaimedBy
  <2>5. \A v \in Workers : v # w => (Busy(v)' <=> Busy(v))
    BY <2>4 DEF Busy
  <2>6. Held(w)'
    BY <2>3, <2>4, <2>5
  <2>7. ASSUME NEW v \in Workers, v # w PROVE Held(v)'
    BY <1>2, <1>3, <2>3, <2>4, <2>5, <2>7
  <2> QED
    BY <1>d, <2>2, <2>6, <2>7
<1>8. ASSUME NEW w \in Workers, Works(w) PROVE (\A v \in Workers : Held(v)') /\ \A f \in Events : Ended(f)'
  <2>1. /\ UNCHANGED <<event, letter>>
        /\ \A v \in Workers : worker'[v].event = worker[v].event /\ (Busy(v)' => Busy(v))
    BY <1>0, <1>8, WorkKeepsTheEvent DEF Busy
  <2> QED
    BY <1>c, <1>d, <2>1
<1>9. ASSUME NEW w \in Workers, markProcessed(w) PROVE (\A v \in Workers : Held(v)') /\ \A f \in Events : Ended(f)'
  <2> DEFINE e == worker[w].event
  <2>1. /\ \A f \in Events : f # e => event'[f] = event[f]
        /\ event'[e] = [event[e] EXCEPT !.status = "PROCESSED"] \/ UNCHANGED event
        /\ \A v \in Workers : v # w => worker'[v] = worker[v]
        /\ \/ worker'[w] = Idle
           \/ worker'[w] = [worker[w] EXCEPT !.pc = "failed"] /\ UNCHANGED event
        /\ e \in Events /\ Busy(w) /\ UNCHANGED letter
    BY <1>0, <1>1, <1>9, ProcessedOne
  <2>2. event'[e].dead = event[e].dead
    BY <1>0, <2>1 DEF TypeOK, EventRow
  <2>3. \A f \in Events : Ended(f)'
    BY <1>d, <2>1, <2>2
  <2>4. CASE worker'[w] = Idle
    BY <1>b, <2>1, <2>3, <2>4 DEF Busy, Idle
  <2>5. CASE worker'[w] = [worker[w] EXCEPT !.pc = "failed"] /\ UNCHANGED event
    <3>1. worker'[w].event = e
      BY <1>0, <2>5 DEF TypeOK, WorkerRow
    <3>2. \A v \in Workers : worker'[v].event = worker[v].event /\ (Busy(v)' => Busy(v))
      BY <2>1, <3>1 DEF Busy
    <3> QED
      BY <1>c, <2>3, <2>5, <3>2
  <2> QED
    BY <2>1, <2>4, <2>5
<1>10. ASSUME NEW w \in Workers, markRetry(w) PROVE (\A v \in Workers : Held(v)') /\ \A f \in Events : Ended(f)'
  <2> DEFINE e == worker[w].event
  <2>1. /\ Busy(w) /\ e \in Events
        /\ worker'[w] = Idle /\ \A v \in Workers : v # w => worker'[v] = worker[v]
        /\ \A f \in Events : f # e => event'[f] = event[f] /\ letter'[f] = letter[f]
        /\ Exhausted(w) => event'[e].dead
        /\ ~Exhausted(w) => UNCHANGED letter
    BY <1>0, <1>10, RetriedOne
  <2>2. ASSUME NEW f \in Events, f = e PROVE Ended(f)'
    <3>1. CASE Exhausted(w)
      BY <2>1, <2>2, <3>1
    <3>2. CASE ~Exhausted(w)
      <4>1. letter'[e] = letter[e] /\ ~event[e].dead
        BY <1>3, <2>1, <3>2
      <4>2. ~(letter[e].attempts > 0)
        BY <1>2, <2>1, <4>1
      <4> QED
        BY <2>2, <4>1, <4>2
    <3> QED
      BY <3>1, <3>2
  <2>3. ASSUME NEW f \in Events PROVE Ended(f)'
    <3>1. f # e => event'[f] = event[f] /\ letter'[f] = letter[f]
      BY <2>1
    <3>2. f # e => Ended(f)'
      BY <1>2, <3>1
    <3> QED
      BY <2>2, <3>2
  <2>4. ~Busy(w)'
    BY <2>1 DEF Busy, Idle
  <2> QED
    BY <1>b, <2>1, <2>3, <2>4
<1>11. ASSUME NEW w \in Workers, Crash(w) PROVE (\A v \in Workers : Held(v)') /\ \A f \in Events : Ended(f)'
  <2>1. Busy(w) /\ UNCHANGED <<event, letter>> /\ worker' = [worker EXCEPT ![w] = Idle]
    BY <1>11 DEF Crash, Busy
  <2> QED
    BY <1>0, <1>b, <1>d, <2>1, IdleAgain
<1>12. CASE UNCHANGED <<event, worker, letter>>
  BY <1>12, <1>c, <1>d DEF Busy
<1> HIDE DEF Held, Ended
<1> QED
  BY <1>4, <1>5, <1>6, <1>7, <1>8, <1>9, <1>10, <1>11, <1>12
     DEF Next, Work, Works, queueTrackingMessage, publishEvent, replayDeadLetter, applyStatus, vars

\* With no overrun the outcome of every message is told, whoever steps.
LEMMA ToldStep == LeaseInv /\ [Next]_vars => OutcomeIsTold'
<1> SUFFICES ASSUME LeaseInv, [Next]_vars, overruns' = 0 PROVE OutcomeIsTold'
  BY DEF OutcomeIsTold
<1>0. /\ TypeOK /\ ClaimsAreCounted /\ LettersAreLate /\ OneIsCurrent /\ SendsComeFirst /\ LeasesHold /\ OutcomeIsTold
      /\ RecordsInv
  BY DEF LeaseInv, RecordsInv
<1>1. overruns = 0 /\ overruns \in Nat
  BY <1>0, FaultsGrow DEF TypeOK
<1> DEFINE Told(w) == worker[w].pc = "handled" /\ Target(w) \in Messages => Reported(Target(w))
           Settled(e) == event[e].message \in Messages /\ event[e].status = "PROCESSED" =>
                           \/ Reported(event[e].message)
                           \/ event[e].dead /\ message[event[e].message].status = "FAILED"
                           \/ letter[e].replay # None
           AllTold == (\A w \in Workers : Told(w)) /\ \A e \in Events : Settled(e)
<1>2. AllTold
  BY <1>0, <1>1 DEF OutcomeIsTold
<1>3. \A w \in Workers : Busy(w) => worker[w].event \in Events /\ event[worker[w].event].status = "WAITING"
  BY <1>0, <1>1 DEF TypeOK, LeasesHold, Busy
<1>4. \A w \in Workers : worker[w].pc = "handled" => Busy(w)
  BY DEF Busy
<1> SUFFICES AllTold'
  BY DEF OutcomeIsTold
\* Nothing is taken back: what was reported or failed stays so, what was handled before was told.
<1>a. ASSUME \A x \in Messages : message'[x] = message[x], receipts \subseteq receipts',
             \A e \in Events : \/ event'[e].status # "PROCESSED"
                               \/ /\ event'[e].message = event[e].message /\ event'[e].status = event[e].status
                                  /\ event'[e].dead = event[e].dead
                                  /\ letter[e].replay # None => letter'[e].replay # None,
             \A w \in Workers : worker'[w].pc = "handled" => worker[w].pc = "handled" /\ Target(w)' = Target(w)
      PROVE  AllTold'
  BY <1>2, <1>a DEF Reported, FailedByProvider
<1>5. ASSUME NEW e \in Events, event[e].status = "ABSENT", NEW m, event' = Inserted(e, m), UNCHANGED worker
      PROVE  /\ \A f \in Events : event'[f].status # "PROCESSED" \/ event'[f] = event[f]
             /\ \A w \in Workers : worker'[w].pc = "handled" => worker[w].pc = "handled" /\ Target(w)' = Target(w)
  <2>1. event'[e].status = "WAITING" /\ \A f \in Events : f # e => event'[f] = event[f]
    BY <1>0, <1>5, InsertedIsFresh
  <2>2. \A w \in Workers : Busy(w) => worker[w].event # e
    BY <1>0, <1>5, InsertedIsFresh
  <2> QED
    BY <1>3, <1>4, <1>5, <2>1, <2>2 DEF Target
<1>6. ASSUME NEW e \in Events, NEW m \in Messages, queueTrackingMessage(e, m) PROVE AllTold'
  <2>1. /\ event[e].status = "ABSENT" /\ event' = Inserted(e, m) /\ UNCHANGED <<letter, receipts, worker>>
        /\ \A x \in Messages : x # m => message'[x] = message[x]
        /\ \A f \in Events : event[f].message # m
    BY <1>0, <1>6 DEF queueTrackingMessage, TypeOK, SendsComeFirst
  <2>2. \A w \in Workers : Busy(w) => Target(w) # m
    BY <1>3, <2>1 DEF Target
  <2>3. /\ \A f \in Events : event'[f].status # "PROCESSED" \/ event'[f] = event[f]
        /\ \A w \in Workers : worker'[w].pc = "handled" => worker[w].pc = "handled" /\ Target(w)' = Target(w)
    BY <1>5, <2>1
  <2>4. ASSUME NEW w \in Workers PROVE Told(w)'
    BY <1>2, <1>4, <2>1, <2>2, <2>3, <2>4 DEF Reported, FailedByProvider
  <2>5. ASSUME NEW f \in Events PROVE Settled(f)'
    BY <1>2, <2>1, <2>3, <2>5 DEF Reported, FailedByProvider
  <2> QED
    BY <2>4, <2>5
<1>7. ASSUME NEW e \in Events, publishEvent(e) PROVE AllTold'
  <2>1. event[e].status = "ABSENT" /\ event' = Inserted(e, None) /\ UNCHANGED <<letter, message, receipts, worker>>
    BY <1>7 DEF publishEvent
  <2> QED
    BY <1>5, <1>a, <2>1
<1>8. ASSUME NEW e \in Events, NEW copy \in Events, replayDeadLetter(e, copy) PROVE AllTold'
  <2>1. /\ event[copy].status = "ABSENT" /\ event' = Inserted(copy, event[e].message)
        /\ UNCHANGED <<message, receipts, worker>>
        /\ letter' = [letter EXCEPT ![e].replay = copy]
    BY <1>8 DEF replayDeadLetter
  <2>2. \A f \in Events : letter[f].replay # None => letter'[f].replay # None
    BY <2>1, OutboxAssumption, <1>0 DEF TypeOK, LetterRow
  <2> QED
    BY <1>5, <1>a, <2>1, <2>2
<1>9. ASSUME NEW e \in Events, BecomesDue(e) PROVE AllTold'
  <2>1. /\ event'[e].status = "WAITING" /\ event'[e].message = event[e].message
        /\ \A f \in Events : f # e => event'[f] = event[f]
        /\ UNCHANGED <<letter, message, receipts, worker>>
    BY <1>0, <1>9, TickOfOne
  <2>2. \A w \in Workers : worker'[w].pc = "handled" => worker[w].pc = "handled" /\ Target(w)' = Target(w)
    BY <1>3, <1>4, <2>1 DEF Target
  <2> QED
    BY <1>a, <2>1, <2>2
<1>10. ASSUME NEW w \in Workers, claimEvent(w) PROVE AllTold'
  <2>1. PICK e \in Events : ClaimedBy(w, e)
    BY <1>0, <1>10, ClaimOfOne
  <2>2. /\ event'[e].status = "WAITING" /\ event'[e].message = event[e].message
        /\ \A f \in Events : f # e => event'[f] = event[f]
        /\ \A v \in Workers : v # w => worker'[v] = worker[v]
        /\ worker'[w].pc = "claimed"
        /\ UNCHANGED <<letter, message, receipts>>
    BY <2>1 DEF ClaimedBy
  <2>3. \A v \in Workers : worker'[v].pc = "handled" => worker[v].pc = "handled" /\ Target(v)' = Target(v)
    BY <1>3, <1>4, <2>2 DEF Target
  <2> QED
    BY <1>a, <2>2, <2>3
\* A step that rewrites one message leaves the others and their events alone.
<1>b. ASSUME NEW w \in Workers, Busy(w), UNCHANGED receipts,
             \A v \in Workers : v # w => worker'[v] = worker[v],
             \A f \in Events : f # worker[w].event => event'[f] = event[f] /\ letter'[f] = letter[f],
             event'[worker[w].event].message = event[worker[w].event].message,
             \A x \in Messages : x # Target(w) => message'[x] = message[x]
      PROVE  /\ \A v \in Workers : v # w => Told(v)'
             /\ \A f \in Events : f # worker[w].event => Settled(f)'
  <2>1. ASSUME Target(w) \in Messages
        PROVE  /\ \A f \in Events : f # worker[w].event /\ event[f].message = Target(w) => letter[f].replay # None
               /\ \A v \in Workers : v # w /\ Busy(v) => Target(v) # Target(w)
    BY <1>1, <1>b, <2>1, WorksAlone
  <2>2. \A f \in Events : event'[f].message = event[f].message
    BY <1>b
  <2>3. ASSUME NEW v \in Workers, v # w PROVE Told(v)'
    <3>1. Busy(v) => Target(v)' = Target(v)
      BY <1>3, <1>b, <2>2, <2>3 DEF Target
    <3>2. Told(v)
      BY <1>2
    <3>3. Busy(v) /\ Target(v) \in Messages => message'[Target(v)] = message[Target(v)]
      BY <1>b, <2>1, <2>3
    <3>4. worker'[v] = worker[v] /\ receipts' = receipts
      BY <1>b, <2>3
    <3> QED
      BY <1>4, <3>1, <3>2, <3>3, <3>4 DEF Reported, FailedByProvider
  <2>4. ASSUME NEW f \in Events, f # worker[w].event PROVE Settled(f)'
    <3>1. event[f].message = Target(w) /\ event[f].message \in Messages => letter[f].replay # None
      BY <2>1, <2>4
    <3>2. event[f].message # Target(w) /\ event[f].message \in Messages => message'[event[f].message] = message[event[f].message]
      BY <1>b
    <3>3. event'[f] = event[f] /\ letter'[f] = letter[f] /\ receipts' = receipts
      BY <1>b, <2>4
    <3>4. Settled(f)
      BY <1>2
    <3> QED
      BY <3>1, <3>2, <3>3, <3>4 DEF Reported, FailedByProvider
  <2> QED
    BY <2>3, <2>4
<1>11. ASSUME NEW w \in Workers, Works(w) PROVE AllTold'
  <2> DEFINE t == Target(w)
  <2>1. /\ UNCHANGED <<event, letter, receipts>> /\ Busy(w)
        /\ Target(w)' = Target(w)
        /\ \A v \in Workers : v # w => worker'[v] = worker[v]
    BY <1>0, <1>11, WorkKeepsTheEvent
  <2>2. /\ Progress(w, t) /\ \A x \in Messages : x # t => message'[x] = message[x]
    BY <1>0, <1>11, WorkIsProgress
  <2>3. Told(w)'
    <3>1. worker'[w].pc = "handled" /\ t \in Messages => message'[t].status \in {"SENT", "DELIVERED"}
      BY <2>2 DEF Progress, Sent, AlreadySent
    <3> QED
      BY <2>1, <3>1 DEF Reported
  <2>4. ASSUME NEW f \in Events, f = worker[w].event PROVE Settled(f)'
    BY <1>3, <2>1, <2>4
  <2>5. /\ \A v \in Workers : v # w => Told(v)'
        /\ \A f \in Events : f # worker[w].event => Settled(f)'
    BY <1>b, <2>1, <2>2
  <2> QED
    BY <2>3, <2>4, <2>5
<1>12. ASSUME NEW w \in Workers, markProcessed(w) PROVE AllTold'
  <2>1. /\ Busy(w) /\ worker[w].pc = "handled"
        /\ \A f \in Events : f # worker[w].event => event'[f] = event[f]
        /\ event'[worker[w].event] = [event[worker[w].event] EXCEPT !.status = "PROCESSED"] \/ UNCHANGED event
        /\ \A v \in Workers : v # w => worker'[v] = worker[v]
        /\ UNCHANGED <<letter, message, receipts>>
    BY <1>0, <1>12, ProcessedOne
  <2>2. event'[worker[w].event].message = event[worker[w].event].message
    BY <1>0, <1>3, <2>1 DEF TypeOK, EventRow
  <2>3. worker'[w].pc # "handled"
    <3>1. worker[w] \in WorkerRow /\ (worker'[w] = Idle \/ worker'[w] = [worker[w] EXCEPT !.pc = "failed"])
      BY <1>0, <1>12, ProcessedOne DEF TypeOK
    <3> QED
      BY <3>1 DEF Idle, WorkerRow
  <2>4. ASSUME NEW f \in Events, f = worker[w].event PROVE Settled(f)'
    <3>1. event[f].message \in Messages => Reported(event[f].message)
      BY <1>2, <2>1, <2>4 DEF Target
    <3> QED
      BY <2>1, <2>2, <2>4, <3>1 DEF Reported, FailedByProvider
  <2>5. /\ \A v \in Workers : v # w => Told(v)'
        /\ \A f \in Events : f # worker[w].event => Settled(f)'
    BY <1>b, <2>1, <2>2
  <2> QED
    BY <2>3, <2>4, <2>5
<1>13. ASSUME NEW w \in Workers, markRetry(w) PROVE AllTold'
  <2>1. /\ Busy(w) /\ worker'[w] = Idle
        /\ \A v \in Workers : v # w => worker'[v] = worker[v]
        /\ \A f \in Events : f # worker[w].event => event'[f] = event[f] /\ letter'[f] = letter[f]
        /\ event'[worker[w].event].message = event[worker[w].event].message
        /\ Exhausted(w) => event'[worker[w].event].dead
        /\ ~Exhausted(w) => event'[worker[w].event].status = "WAITING"
        /\ UNCHANGED receipts
    BY <1>0, <1>13, RetriedOne
  <2>2. \A x \in Messages : IF Exhausted(w) /\ Target(w) = x
                            THEN message'[x] = [message[x] EXCEPT !.status = "FAILED"]
                            ELSE message'[x] = message[x]
    BY <1>0, <1>13, RetriedOne DEF Target
  <2>3. ASSUME NEW f \in Events, f = worker[w].event PROVE Settled(f)'
    <3>1. Exhausted(w) /\ event[f].message \in Messages => message'[event[f].message].status = "FAILED"
      BY <1>0, <2>2, <2>3 DEF Target, TypeOK, MessageRow
    <3> QED
      BY <2>1, <2>3, <3>1
  <2>4. /\ \A v \in Workers : v # w => Told(v)'
        /\ \A f \in Events : f # worker[w].event => Settled(f)'
    BY <1>b, <2>1, <2>2
  <2>5. Told(w)'
    BY <2>1 DEF Idle
  <2> QED
    BY <2>3, <2>4, <2>5
<1>14. ASSUME NEW w \in Workers, Crash(w) PROVE AllTold'
  <2>1. UNCHANGED <<event, letter, message, receipts>> /\ worker' = [worker EXCEPT ![w] = Idle]
    BY <1>14 DEF Crash
  <2>2. worker'[w] = Idle /\ \A v \in Workers : v # w => worker'[v] = worker[v]
    BY <1>0, <2>1, IdleAgain
  <2>3. \A v \in Workers : worker'[v].pc = "handled" => worker[v].pc = "handled" /\ Target(v)' = Target(v)
    BY <2>1, <2>2 DEF Target, Idle
  <2> QED
    BY <1>a, <2>1, <2>3
<1>15. ASSUME NEW m \in Messages, NEW status \in Callback, applyStatus(m, status) PROVE AllTold'
  <2>1. /\ UNCHANGED <<event, letter, worker>>
        /\ receipts' = receipts \cup {<<m, message[m].provider, status>>}
        /\ message' = [message EXCEPT ![m].status = CASE status = "sent" -> "SENT"
                                                     [] status = "delivered" -> "DELIVERED"
                                                     [] status = "failed" -> "FAILED"]
    BY <1>15 DEF applyStatus
  <2>2. /\ \A x \in Messages : x # m => message'[x] = message[x]
        /\ message'[m].provider = message[m].provider
        /\ message'[m].status = CASE status = "sent" -> "SENT"
                                  [] status = "delivered" -> "DELIVERED"
                                  [] status = "failed" -> "FAILED"
    BY <1>0, <2>1 DEF TypeOK, MessageRow
  <2>3. Reported(m)'
    BY <2>1, <2>2 DEF Reported, FailedByProvider, Callback
  <2>4. ASSUME NEW x \in Messages, Reported(x) PROVE Reported(x)'
    <3>1. x # m => message'[x] = message[x]
      BY <2>2
    <3>2. FailedByProvider(x) /\ message'[x] = message[x] => FailedByProvider(x)'
      BY <2>1 DEF FailedByProvider
    <3>3. x # m => Reported(x)'
      BY <2>4, <3>1, <3>2 DEF Reported
    <3> QED
      BY <2>3, <3>3
  <2>5. \A v \in Workers : Target(v)' = Target(v)
    BY <2>1 DEF Target
  <2>6. ASSUME NEW v \in Workers PROVE Told(v)'
    BY <1>2, <2>1, <2>4, <2>5
  <2>7. ASSUME NEW f \in Events PROVE Settled(f)'
    BY <1>2, <2>1, <2>2, <2>3, <2>4
  <2> QED
    BY <2>6, <2>7
<1>16. CASE UNCHANGED vars
  BY <1>16, <1>a DEF vars, Target
<1> HIDE DEF AllTold
<1> QED
  BY <1>6, <1>7, <1>8, <1>9, <1>10, <1>11, <1>12, <1>13, <1>14, <1>15, <1>16
     DEF Next, Work, Works, TimePasses, LeaseExpires

\* So do the leases and what is told of the outcomes.
LEMMA LeaseStep == LeaseInv /\ [Next]_vars => LeaseInv'
  BY RecordsStep, HoldStep, ToldStep DEF LeaseInv

\* A part of a finite set is no larger than the set.
LEMMA NoMore ==
  ASSUME NEW S, IsFiniteSet(S), NEW T, T \subseteq S
  PROVE  IsFiniteSet(T) /\ Cardinality(T) \in Nat /\ Cardinality(S) \in Nat /\ Cardinality(T) <= Cardinality(S)
  BY FS_Subset, FS_CardinalityType

\* One member more adds one at most.
LEMMA OneMore ==
  ASSUME NEW S, IsFiniteSet(S), NEW y, NEW T, T \subseteq S \cup {y}
  PROVE  IsFiniteSet(T) /\ Cardinality(T) \in Nat /\ Cardinality(S) \in Nat /\ Cardinality(T) <= Cardinality(S) + 1
<1>1. /\ IsFiniteSet(S \cup {y}) /\ Cardinality(S) \in Nat
      /\ Cardinality(S \cup {y}) = Cardinality(S) \/ Cardinality(S \cup {y}) = Cardinality(S) + 1
  BY FS_AddElement, FS_CardinalityType
<1>2. /\ IsFiniteSet(T) /\ Cardinality(T) \in Nat /\ Cardinality(T) <= Cardinality(S \cup {y})
  BY <1>1, NoMore
<1> QED
  BY <1>1, <1>2

\* One member less takes one away at least.
LEMMA OneLess ==
  ASSUME NEW S, IsFiniteSet(S), NEW x \in S, NEW T, T \subseteq S \ {x}
  PROVE  IsFiniteSet(T) /\ Cardinality(T) \in Nat /\ Cardinality(S) \in Nat /\ Cardinality(T) <= Cardinality(S) - 1
<1>1. IsFiniteSet(S \ {x}) /\ Cardinality(S \ {x}) = Cardinality(S) - 1 /\ Cardinality(S) \in Nat
  BY FS_RemoveElement, FS_CardinalityType
<1> QED
  BY <1>1, NoMore

\* A step of one worker changes the holders of its event alone.
LEMMA HoldersOfOthers ==
  ASSUME NEW w \in Workers, NEW e,
         \A v \in Workers : v # w => worker'[v] = worker[v],
         Busy(w) => worker[w].event = e,
         Busy(w)' => worker'[w].event = e
  PROVE  \A f \in Events : f # e => Holders(f)' = Holders(f)
  BY DEF Holders, Busy

\* What such a step does to the chances of a message.
LEMMA OtherEvents ==
  ASSUME TypeOK, NEW m, NEW e,
         \A f \in Events : f # e => event'[f] = event[f] /\ Holders(f)' = Holders(f)
  PROVE  /\ FreeEvents(m)' \subseteq FreeEvents(m) \cup {e}
         /\ ~(event'[e].message = m /\ Free(e)') => FreeEvents(m)' \subseteq FreeEvents(m) \ {e}
         /\ event[e].message = m /\ Free(e) => FreeEvents(m)' \subseteq FreeEvents(m)
  BY DEF FreeEvents, Free

\* The workers that may still send, likewise.
LEMMA OtherWorkers ==
  ASSUME TypeOK, NEW m, NEW w,
         \A v \in Workers : v # w => worker'[v] = worker[v],
         \A v \in Workers : v # w /\ Busy(v) => Target(v)' = Target(v)
  PROVE  /\ Senders(m)' \subseteq Senders(m) \cup {w}
         /\ ~(worker'[w].pc \in Unsent /\ Target(w)' = m) => Senders(m)' \subseteq Senders(m) \ {w}
         /\ w \in Senders(m) => Senders(m)' \subseteq Senders(m)
<1>1. ASSUME NEW v \in Workers, v # w, v \in Senders(m)' PROVE v \in Senders(m)
  BY <1>1 DEF Senders, Unsent, Busy
<1> QED
  BY <1>1 DEF Senders

\* A set that keeps within, gains or loses one member.
AddsOne(T, U) == \E y : T \subseteq U \cup {y}
DropsOne(T, U) == \E y \in U : T \subseteq U \ {y}

\* The sizes follow the members.
LEMMA SizesFollow ==
  ASSUME NEW T, NEW U, IsFiniteSet(U), T \subseteq U \/ AddsOne(T, U) \/ DropsOne(T, U)
  PROVE  /\ IsFiniteSet(T) /\ Cardinality(T) \in Nat /\ Cardinality(U) \in Nat
         /\ Cardinality(T) <= Cardinality(U) + 1
         /\ T \subseteq U => Cardinality(T) <= Cardinality(U)
         /\ DropsOne(T, U) => Cardinality(T) <= Cardinality(U) - 1
<1>1. T \subseteq U => IsFiniteSet(T) /\ Cardinality(T) \in Nat /\ Cardinality(T) <= Cardinality(U)
  BY NoMore
<1>2. ASSUME AddsOne(T, U)
      PROVE  IsFiniteSet(T) /\ Cardinality(T) \in Nat /\ Cardinality(T) <= Cardinality(U) + 1
  <2>1. PICK y : T \subseteq U \cup {y}
    BY <1>2 DEF AddsOne
  <2> QED
    BY <2>1, OneMore
<1>3. ASSUME DropsOne(T, U) PROVE T \subseteq U /\ Cardinality(T) <= Cardinality(U) - 1
  <2>1. PICK y \in U : T \subseteq U \ {y}
    BY <1>3 DEF DropsOne
  <2> QED
    BY <2>1, OneLess
<1>4. Cardinality(U) \in Nat
  BY FS_CardinalityType
<1> QED
  BY <1>1, <1>2, <1>3, <1>4

\* Sums of counters grow with them.
LEMMA SumsGrow ==
  ASSUME NEW a \in Nat, NEW b \in Nat, NEW c \in Nat, NEW x \in Nat, NEW y \in Nat, NEW z \in Nat,
         x >= a, y >= b, z >= c
  PROVE  a + b + c \in Nat /\ x + y + z \in Nat /\ x + y + z >= a + b + c
  OBVIOUS

\* No step makes a new chance to send a message again, unless a fault pays for it.
LEMMA CountStep ==
  ASSUME TypeOK, TypeOK', ClaimsAreCounted, LettersAreLate, SendsComeFirst, SendsAreCounted, [Next]_vars
  PROVE  SendsAreCounted'
<1> SUFFICES ASSUME NEW m \in Messages
             PROVE  (/\ IsFiniteSet(FreeEvents(m)) /\ IsFiniteSet(OpenLetters(m)) /\ IsFiniteSet(Senders(m))
                     /\ sends[m] + Cardinality(FreeEvents(m)) + Cardinality(OpenLetters(m)) + Cardinality(Senders(m))
                          <= 1 + crashes + overruns + losses)'
  BY DEF SendsAreCounted
<1> DEFINE Good == /\ IsFiniteSet(FreeEvents(m)) /\ IsFiniteSet(OpenLetters(m)) /\ IsFiniteSet(Senders(m))
                   /\ sends[m] + Cardinality(FreeEvents(m)) + Cardinality(OpenLetters(m)) + Cardinality(Senders(m))
                        <= 1 + crashes + overruns + losses
           faulty == crashes + overruns + losses
<1>0. /\ Good
      /\ sends[m] \in Nat /\ sends'[m] \in Nat /\ m # None
      /\ crashes \in Nat /\ overruns \in Nat /\ losses \in Nat
      /\ crashes' \in Nat /\ overruns' \in Nat /\ losses' \in Nat
  BY OutboxAssumption DEF SendsAreCounted, TypeOK
<1>a. /\ Cardinality(FreeEvents(m)) \in Nat
      /\ FreeEvents(m)' \subseteq FreeEvents(m) \/ AddsOne(FreeEvents(m)', FreeEvents(m)) \/ DropsOne(FreeEvents(m)', FreeEvents(m)) =>
           IsFiniteSet(FreeEvents(m)') /\ Cardinality(FreeEvents(m)') \in Nat /\ Cardinality(FreeEvents(m)') <= Cardinality(FreeEvents(m)) + 1
      /\ FreeEvents(m)' \subseteq FreeEvents(m) => Cardinality(FreeEvents(m)') <= Cardinality(FreeEvents(m))
      /\ DropsOne(FreeEvents(m)', FreeEvents(m)) => Cardinality(FreeEvents(m)') <= Cardinality(FreeEvents(m)) - 1
  BY <1>0, SizesFollow, FS_CardinalityType
<1>b. /\ Cardinality(OpenLetters(m)) \in Nat
      /\ OpenLetters(m)' \subseteq OpenLetters(m) \/ AddsOne(OpenLetters(m)', OpenLetters(m)) \/ DropsOne(OpenLetters(m)', OpenLetters(m)) =>
           IsFiniteSet(OpenLetters(m)') /\ Cardinality(OpenLetters(m)') \in Nat /\ Cardinality(OpenLetters(m)') <= Cardinality(OpenLetters(m)) + 1
      /\ OpenLetters(m)' \subseteq OpenLetters(m) => Cardinality(OpenLetters(m)') <= Cardinality(OpenLetters(m))
      /\ DropsOne(OpenLetters(m)', OpenLetters(m)) => Cardinality(OpenLetters(m)') <= Cardinality(OpenLetters(m)) - 1
  BY <1>0, SizesFollow, FS_CardinalityType
<1>c. /\ Cardinality(Senders(m)) \in Nat
      /\ Senders(m)' \subseteq Senders(m) \/ AddsOne(Senders(m)', Senders(m)) \/ DropsOne(Senders(m)', Senders(m)) =>
           IsFiniteSet(Senders(m)') /\ Cardinality(Senders(m)') \in Nat /\ Cardinality(Senders(m)') <= Cardinality(Senders(m)) + 1
      /\ Senders(m)' \subseteq Senders(m) => Cardinality(Senders(m)') <= Cardinality(Senders(m))
      /\ DropsOne(Senders(m)', Senders(m)) => Cardinality(Senders(m)') <= Cardinality(Senders(m)) - 1
  BY <1>0, SizesFollow, FS_CardinalityType
<1>n. faulty \in Nat /\ faulty' \in Nat /\ faulty' >= faulty
  <2>1. crashes' >= crashes /\ overruns' >= overruns /\ losses' >= losses
    BY FaultsGrow
  <2>2. /\ crashes \in Nat /\ overruns \in Nat /\ losses \in Nat
        /\ crashes' \in Nat /\ overruns' \in Nat /\ losses' \in Nat
    BY <1>0
  <2> QED
    BY <2>1, <2>2, SumsGrow
<1>s. Good' <=> /\ IsFiniteSet(FreeEvents(m)') /\ IsFiniteSet(OpenLetters(m)') /\ IsFiniteSet(Senders(m)')
                /\ sends'[m] + Cardinality(FreeEvents(m)') + Cardinality(OpenLetters(m)') + Cardinality(Senders(m)') <= 1 + faulty'
  BY <1>0
<1>t. sends[m] + Cardinality(FreeEvents(m)) + Cardinality(OpenLetters(m)) + Cardinality(Senders(m)) <= 1 + faulty
  BY <1>0
<1> HIDE DEF Good, faulty
\* All that can happen to the sum, each kind of step once.
<1>u. ASSUME \/ FreeEvents(m)' \subseteq FreeEvents(m) /\ OpenLetters(m)' \subseteq OpenLetters(m)
             \/ AddsOne(FreeEvents(m)', FreeEvents(m)) /\ DropsOne(OpenLetters(m)', OpenLetters(m)),
             Senders(m)' \subseteq Senders(m), sends'[m] = sends[m]
      PROVE  Good'
  BY <1>0, <1>a, <1>b, <1>c, <1>n, <1>s, <1>t, <1>u
<1>v. ASSUME \/ FreeEvents(m)' \subseteq FreeEvents(m) /\ OpenLetters(m)' \subseteq OpenLetters(m) /\ sends'[m] = sends[m] + 1
             \/ AddsOne(FreeEvents(m)', FreeEvents(m)) /\ OpenLetters(m)' \subseteq OpenLetters(m) /\ sends'[m] = sends[m]
             \/ FreeEvents(m)' \subseteq FreeEvents(m) /\ AddsOne(OpenLetters(m)', OpenLetters(m)) /\ sends'[m] = sends[m],
             \/ DropsOne(Senders(m)', Senders(m))
             \/ Senders(m)' \subseteq Senders(m) /\ faulty' >= faulty + 1
      PROVE  Good'
  BY <1>0, <1>a, <1>b, <1>c, <1>n, <1>s, <1>t, <1>v
<1>w. ASSUME AddsOne(Senders(m)', Senders(m)), OpenLetters(m)' \subseteq OpenLetters(m), sends'[m] = sends[m],
             \/ DropsOne(FreeEvents(m)', FreeEvents(m))
             \/ FreeEvents(m)' \subseteq FreeEvents(m) /\ faulty' >= faulty + 1
      PROVE  Good'
  BY <1>0, <1>a, <1>b, <1>c, <1>n, <1>s, <1>t, <1>w
<1>d. ASSUME FreeEvents(m)' \subseteq FreeEvents(m), OpenLetters(m)' \subseteq OpenLetters(m),
             Senders(m)' \subseteq Senders(m), sends'[m] = sends[m]
      PROVE  Good'
  BY <1>d, <1>u
<1>e. \A w \in Workers : Busy(w) => worker[w].event \in Events /\ event[worker[w].event].status # "ABSENT"
  BY DEF TypeOK, Busy
<1>f. ASSUME UNCHANGED event, NEW w \in Workers, \A v \in Workers : v # w => worker'[v] = worker[v]
      PROVE  \A v \in Workers : v # w /\ Busy(v) => Target(v)' = Target(v)
  BY <1>f DEF Target
<1>g. ASSUME \A f \in Events : event'[f].message = event[f].message, NEW w \in Workers,
             \A v \in Workers : v # w => worker'[v] = worker[v]
      PROVE  \A v \in Workers : v # w /\ Busy(v) => Target(v)' = Target(v)
  BY <1>e, <1>g DEF Target
<1>h. ASSUME UNCHANGED worker, \A w \in Workers : Busy(w) => event'[worker[w].event].message = event[worker[w].event].message
      PROVE  Senders(m)' \subseteq Senders(m)
  BY <1>h DEF Senders, Unsent, Target, Busy
<1>i. ASSUME UNCHANGED worker PROVE \A f \in Events : Holders(f)' = Holders(f)
  BY <1>i DEF Holders
<1>j. ASSUME \A f \in Events : event'[f].message = event[f].message, UNCHANGED letter
      PROVE  OpenLetters(m)' \subseteq OpenLetters(m)
  BY <1>j DEF OpenLetters
<1>1. ASSUME NEW e \in Events, NEW x \in Messages, queueTrackingMessage(e, x) PROVE Good'
  <2>1. /\ event[e].status = "ABSENT" /\ event' = Inserted(e, x) /\ UNCHANGED <<letter, worker, sends>>
        /\ sends[x] = 0 /\ \A f \in Events : event[f].message # x
    BY <1>1 DEF queueTrackingMessage, SendsComeFirst
  <2>2. /\ event'[e].message = x /\ \A f \in Events : f # e => event'[f] = event[f]
        /\ \A w \in Workers : Busy(w) => worker[w].event # e
        /\ letter[e].attempts = 0
    BY <2>1, InsertedIsFresh DEF LettersAreLate
  <2>3. Senders(m)' \subseteq Senders(m)
    BY <1>e, <1>h, <2>1, <2>2
  <2>4. OpenLetters(m)' \subseteq OpenLetters(m)
    BY <2>1, <2>2 DEF OpenLetters
  <2>5. CASE x # m
    BY <1>d, <1>i, <2>1, <2>2, <2>3, <2>4, <2>5, OtherEvents
  <2>6. CASE x = m
    <3>1. /\ FreeEvents(m) = {} /\ OpenLetters(m) = {} /\ Senders(m) = {}
      BY <1>e, <2>1, <2>6 DEF FreeEvents, OpenLetters, Senders, Unsent, Target, Busy
    <3>2. FreeEvents(m)' \subseteq {e}
      BY <1>i, <2>1, <2>2, <3>1, OtherEvents
    <3>3. IsFiniteSet(FreeEvents(m)') /\ Cardinality(FreeEvents(m)') <= 1 /\ Cardinality(FreeEvents(m)') \in Nat
      <4>1. IsFiniteSet({e}) /\ Cardinality({e}) = 1
        BY FS_Singleton
      <4> QED
        BY <3>2, <4>1, NoMore
    <3>4. OpenLetters(m)' = {} /\ Senders(m)' = {} /\ sends'[m] = 0
      BY <2>1, <2>3, <2>4, <2>6, <3>1
    <3> QED
      BY <1>n, <1>s, <3>3, <3>4, FS_EmptySet
  <2> QED
    BY <2>5, <2>6
<1>2. ASSUME NEW e \in Events, publishEvent(e) PROVE Good'
  <2>1. event[e].status = "ABSENT" /\ event' = Inserted(e, None) /\ UNCHANGED <<letter, worker, sends>>
    BY <1>2 DEF publishEvent
  <2>2. /\ event'[e].message = None /\ \A f \in Events : f # e => event'[f] = event[f]
        /\ \A w \in Workers : Busy(w) => worker[w].event # e
        /\ letter[e].attempts = 0
    BY <2>1, InsertedIsFresh DEF LettersAreLate
  <2>3. Senders(m)' \subseteq Senders(m)
    BY <1>e, <1>h, <2>1, <2>2
  <2>4. OpenLetters(m)' \subseteq OpenLetters(m)
    BY <2>1, <2>2 DEF OpenLetters
  <2> QED
    BY <1>0, <1>d, <1>i, <2>1, <2>2, <2>3, <2>4, OtherEvents
<1>3. ASSUME NEW e \in Events, NEW copy \in Events, replayDeadLetter(e, copy) PROVE Good'
  <2>1. /\ letter[e].attempts > 0 /\ letter[e].replay = None /\ event[copy].status = "ABSENT"
        /\ event' = Inserted(copy, event[e].message) /\ UNCHANGED <<worker, sends>>
        /\ letter' = [letter EXCEPT ![e].replay = copy]
    BY <1>3 DEF replayDeadLetter
  <2>2. /\ event'[copy].message = event[e].message /\ \A f \in Events : f # copy => event'[f] = event[f]
        /\ \A w \in Workers : Busy(w) => worker[w].event # copy
        /\ letter[copy].attempts = 0 /\ e # copy
    <3>1. /\ event'[copy].message = event[e].message /\ \A f \in Events : f # copy => event'[f] = event[f]
          /\ \A w \in Workers : Busy(w) => worker[w].event # copy
      BY <2>1, InsertedIsFresh
    <3>2. letter[copy].attempts = 0
      BY <2>1 DEF LettersAreLate
    <3>3. e # copy
      BY <2>1, <3>2
    <3> QED
      BY <3>1, <3>2, <3>3
  <2>3. letter'[e].replay # None /\ \A f \in Events : f # e => letter'[f] = letter[f]
    BY <2>1, OutboxAssumption DEF TypeOK, LetterRow
  <2>4. Senders(m)' \subseteq Senders(m)
    BY <1>e, <1>h, <2>1, <2>2
  <2>5. OpenLetters(m)' \subseteq OpenLetters(m) \ {e}
    BY <2>2, <2>3 DEF OpenLetters
  <2>6. CASE event[e].message # m
    BY <1>d, <1>i, <2>1, <2>2, <2>4, <2>5, <2>6, OtherEvents
  <2>7. CASE event[e].message = m
    <3>1. e \in OpenLetters(m)
      BY <2>1, <2>7 DEF OpenLetters
    <3>2. FreeEvents(m)' \subseteq FreeEvents(m) \cup {copy}
      BY <1>i, <2>1, <2>2, OtherEvents
    <3>3. AddsOne(FreeEvents(m)', FreeEvents(m)) /\ DropsOne(OpenLetters(m)', OpenLetters(m))
          /\ Senders(m)' \subseteq Senders(m)
      BY <2>4, <2>5, <3>1, <3>2 DEF AddsOne, DropsOne
    <3> QED
      BY <1>u, <2>1, <3>3
  <2> QED
    BY <2>6, <2>7
<1>4. ASSUME NEW e \in Events, TimePasses(e) \/ LeaseExpires(e) PROVE Good'
  <2>1. /\ event[e].status = "WAITING"
        /\ \A f \in Events : event'[f].message = event[f].message
        /\ \A f \in Events : f # e => event'[f] = event[f]
        /\ UNCHANGED <<letter, worker, sends>>
    BY <1>4, TickOfOne DEF TimePasses, LeaseExpires
  <2>2. Senders(m)' \subseteq Senders(m) /\ OpenLetters(m)' \subseteq OpenLetters(m)
    BY <1>e, <1>h, <1>j, <2>1
  <2>3. CASE TimePasses(e)
    <3>1. Free(e)
      BY <2>1, <2>3 DEF TimePasses, Free
    <3>2. FreeEvents(m)' \subseteq FreeEvents(m)
      <4>1. CASE event[e].message = m
        BY <1>i, <2>1, <3>1, <4>1, OtherEvents
      <4>2. CASE event[e].message # m
        BY <1>i, <2>1, <4>2, OtherEvents
      <4> QED
        BY <4>1, <4>2
    <3> QED
      BY <1>d, <2>1, <2>2, <3>2
  <2>4. CASE LeaseExpires(e)
    <3>1. overruns' = overruns + 1 /\ UNCHANGED <<crashes, losses>>
      BY <2>4 DEF LeaseExpires, BecomesDue
    <3>2. FreeEvents(m)' \subseteq FreeEvents(m) \cup {e}
      BY <1>i, <2>1, OtherEvents
    <3>3. AddsOne(FreeEvents(m)', FreeEvents(m)) /\ OpenLetters(m)' \subseteq OpenLetters(m)
          /\ Senders(m)' \subseteq Senders(m)
      BY <2>2, <3>2 DEF AddsOne, DropsOne
    <3>4. faulty' >= faulty + 1
      BY <1>0, <2>1, <3>1 DEF faulty
    <3> QED
      BY <1>v, <2>1, <3>3, <3>4
  <2> QED
    BY <1>4, <2>3, <2>4
<1>5. ASSUME NEW w \in Workers, claimEvent(w) PROVE Good'
  <2>1. PICK e \in Events : ClaimedBy(w, e)
    BY <1>5, ClaimOfOne
  <2>2. /\ ~Busy(w) /\ worker'[w].pc = "claimed" /\ worker'[w].event = e
        /\ event[e].status = "WAITING" /\ event[e].due /\ ~event'[e].due
        /\ \A f \in Events : event'[f].message = event[f].message
        /\ \A f \in Events : f # e => event'[f] = event[f]
        /\ \A v \in Workers : v # w => worker'[v] = worker[v]
        /\ UNCHANGED <<letter, sends>>
    BY <2>1 DEF ClaimedBy
  <2>3. /\ OpenLetters(m)' \subseteq OpenLetters(m)
        /\ \A v \in Workers : v # w /\ Busy(v) => Target(v)' = Target(v)
    BY <1>g, <1>j, <2>2
  <2>4. /\ \A f \in Events : f # e => Holders(f)' = Holders(f)
        /\ w \in Holders(e)'
    <3>1. \A f \in Events : f # e => Holders(f)' = Holders(f)
      BY <2>2, HoldersOfOthers
    <3> QED
      BY <2>2, <3>1 DEF Holders
  <2>5. Free(e) /\ ~Free(e)'
    BY <2>2, <2>4 DEF Free
  <2>6. FreeEvents(m)' \subseteq FreeEvents(m) \ {e}
    BY <2>2, <2>4, <2>5, OtherEvents
  <2>7. CASE event[e].message = m
    <3>1. e \in FreeEvents(m)
      BY <2>5, <2>7 DEF FreeEvents
    <3>2. Senders(m)' \subseteq Senders(m) \cup {w}
      BY <2>2, <2>3, OtherWorkers
    <3>3. DropsOne(FreeEvents(m)', FreeEvents(m)) /\ OpenLetters(m)' \subseteq OpenLetters(m)
          /\ AddsOne(Senders(m)', Senders(m))
      BY <2>3, <2>6, <3>1, <3>2 DEF AddsOne, DropsOne
    <3> QED
      BY <1>w, <2>2, <3>3
  <2>8. CASE event[e].message # m
    <3>1. Target(w)' # m
      BY <2>2, <2>8 DEF Target
    <3>2. Senders(m)' \subseteq Senders(m)
      BY <2>2, <2>3, <3>1, OtherWorkers
    <3> QED
      BY <1>d, <2>2, <2>3, <2>6, <3>2
  <2> QED
    BY <2>7, <2>8
<1>6. ASSUME NEW w \in Workers, Works(w) PROVE Good'
  <2>1. /\ UNCHANGED <<event, letter, crashes, overruns>> /\ Busy(w) /\ Busy(w)' /\ worker'[w].event = worker[w].event
        /\ \A v \in Workers : v # w => worker'[v] = worker[v]
        /\ \A v \in Workers : Target(v)' = Target(v)
    BY <1>6, WorkKeepsTheEvent
  <2>2. /\ Progress(w, Target(w))
        /\ \A x \in Messages : x # Target(w) => sends'[x] = sends[x]
    BY <1>6, WorkIsProgress
  <2>3. \A f \in Events : Holders(f)' = Holders(f)
    BY <2>1 DEF Holders, Busy
  <2>4. FreeEvents(m)' \subseteq FreeEvents(m) /\ OpenLetters(m)' \subseteq OpenLetters(m)
    BY <1>j, <2>1, <2>3 DEF FreeEvents, Free
  <2>5. FreeEvents(m)' \subseteq FreeEvents(m) /\ OpenLetters(m)' \subseteq OpenLetters(m)
    BY <2>4 DEF AddsOne, DropsOne
  <2>6. CASE Target(w) # m
    <3>1. Senders(m)' \subseteq Senders(m)
      BY <2>1, <2>6, OtherWorkers
    <3> QED
      BY <1>d, <2>2, <2>4, <2>6, <3>1
  <2>7. CASE Target(w) = m
    <3>1. CASE sends'[m] = sends[m] /\ worker[w].pc \in Unsent
      <4>1. w \in Senders(m)
        BY <2>7, <3>1 DEF Senders
      <4> QED
        BY <1>d, <2>1, <2>4, <3>1, <4>1, OtherWorkers
    <3>2. CASE sends'[m] = sends[m] /\ worker'[w].pc \notin Unsent
      <4>1. Senders(m)' \subseteq Senders(m)
        BY <2>1, <3>2, OtherWorkers
      <4> QED
        BY <1>d, <2>4, <3>2, <4>1
    <3>3. CASE worker[w].pc = "sending" /\ worker'[w].pc = "accepted" /\ sends'[m] = sends[m] + 1
      <4>1. w \in Senders(m)
        BY <2>7, <3>3 DEF Senders, Unsent
      <4>2. Senders(m)' \subseteq Senders(m) \ {w}
        <5>1. worker'[w].pc \notin Unsent
          BY <3>3 DEF Unsent
        <5> QED
          BY <2>1, <5>1, OtherWorkers
      <4>3. DropsOne(Senders(m)', Senders(m))
        BY <4>1, <4>2 DEF AddsOne, DropsOne
      <4> QED
        BY <1>v, <2>5, <3>3, <4>3
    <3>4. CASE worker[w].pc = "sending" /\ losses' = losses + 1 /\ sends'[m] = sends[m] + 1
      <4>1. w \in Senders(m)
        BY <2>7, <3>4 DEF Senders, Unsent
      <4>2. Senders(m)' \subseteq Senders(m)
        BY <2>1, <4>1, OtherWorkers DEF AddsOne, DropsOne
      <4>3. faulty' >= faulty + 1
        BY <1>0, <2>1, <3>4 DEF faulty
      <4> QED
        BY <1>v, <2>5, <3>4, <4>2, <4>3
    <3>5. CASE sends'[m] = sends[m] /\ losses' = losses + 1
      <4>1. AddsOne(Senders(m)', Senders(m))
        BY <2>1, OtherWorkers DEF AddsOne, DropsOne
      <4>2. faulty' >= faulty + 1
        BY <1>0, <2>1, <3>5 DEF faulty
      <4> QED
        BY <1>w, <2>5, <3>5, <4>1, <4>2
    <3> QED
      BY <2>2, <2>7, <3>1, <3>2, <3>3, <3>4, <3>5 DEF Progress, Unsent
  <2> QED
    BY <2>6, <2>7
<1>k. ASSUME NEW w \in Workers, Busy(w), Busy(w)' => worker'[w].event = worker[w].event,
             \A v \in Workers : v # w => worker'[v] = worker[v],
             \A f \in Events : f # worker[w].event => event'[f] = event[f]
      PROVE  \A f \in Events : f # worker[w].event => event'[f] = event[f] /\ Holders(f)' = Holders(f)
  BY <1>k, HoldersOfOthers
<1>7. ASSUME NEW w \in Workers, markProcessed(w) PROVE Good'
  <2> DEFINE e == worker[w].event
  <2>1. /\ Busy(w) /\ e \in Events
        /\ \A f \in Events : f # e => event'[f] = event[f]
        /\ \/ event'[e] = [event[e] EXCEPT !.status = "PROCESSED"]
           \/ UNCHANGED event /\ worker'[w] = [worker[w] EXCEPT !.pc = "failed"]
        /\ \A v \in Workers : v # w => worker'[v] = worker[v]
        /\ \/ worker'[w] = Idle
           \/ /\ worker'[w] = [worker[w] EXCEPT !.pc = "failed"]
              /\ crashes' = crashes /\ overruns' + losses' = overruns + losses + 1
        /\ UNCHANGED <<letter, sends>>
    BY <1>7, ProcessedOne
  <2>2. \A f \in Events : event'[f].message = event[f].message
    <3>1. event'[e].message = event[e].message
      BY <2>1 DEF TypeOK, EventRow
    <3> QED
      BY <2>1, <3>1
  <2>3. /\ OpenLetters(m)' \subseteq OpenLetters(m)
        /\ \A v \in Workers : v # w /\ Busy(v) => Target(v)' = Target(v)
    BY <1>g, <1>j, <2>1, <2>2
  <2>4. worker'[w] = [worker[w] EXCEPT !.pc = "failed"] => worker'[w].event = e /\ worker'[w].pc = "failed"
    BY DEF TypeOK, WorkerRow
  <2>5. FreeEvents(m)' \subseteq FreeEvents(m)
    <3>1. \A f \in Events : f # e => event'[f] = event[f] /\ Holders(f)' = Holders(f)
      BY <1>k, <2>1, <2>4 DEF Busy, Idle
    <3>2. CASE event'[e] = [event[e] EXCEPT !.status = "PROCESSED"]
      <4>1. event'[e].status = "PROCESSED"
        BY <2>1, <3>2 DEF TypeOK, EventRow
      <4>2. ASSUME NEW f \in Events, f \in FreeEvents(m)' PROVE f \in FreeEvents(m)
        BY <3>1, <4>1, <4>2 DEF FreeEvents, Free
      <4> QED
        BY <4>2 DEF FreeEvents
    <3>3. CASE UNCHANGED event /\ worker'[w] = [worker[w] EXCEPT !.pc = "failed"]
      <4>1. \A v \in Workers : (Busy(v)' <=> Busy(v)) /\ worker'[v].event = worker[v].event
        BY <2>1, <2>4, <3>3 DEF Busy
      <4>2. \A f \in Events : Holders(f)' = Holders(f)
        BY <4>1 DEF Holders, Busy
      <4> QED
        BY <3>3, <4>2 DEF FreeEvents, Free
    <3> QED
      BY <2>1, <3>2, <3>3
  <2>6. CASE worker'[w] = Idle
    <3>1. worker'[w].pc \notin Unsent
      BY <2>6 DEF Idle, Unsent
    <3>2. Senders(m)' \subseteq Senders(m)
      BY <2>1, <2>3, <3>1, OtherWorkers
    <3> QED
      BY <1>d, <2>1, <2>3, <2>5, <3>2
  <2>7. CASE crashes' = crashes /\ overruns' + losses' = overruns + losses + 1
    <3>1. AddsOne(Senders(m)', Senders(m)) /\ FreeEvents(m)' \subseteq FreeEvents(m)
          /\ OpenLetters(m)' \subseteq OpenLetters(m)
      BY <2>1, <2>3, <2>5, OtherWorkers DEF AddsOne, DropsOne
    <3>2. faulty' >= faulty + 1
      BY <1>0, <2>1, <2>7 DEF faulty
    <3> QED
      BY <1>w, <2>1, <3>1, <3>2
  <2> QED
    BY <2>1, <2>6, <2>7
<1>8. ASSUME NEW w \in Workers, markRetry(w) PROVE Good'
  <2> DEFINE e == worker[w].event
  <2>1. /\ Busy(w) /\ e \in Events /\ worker[w].pc = "failed"
        /\ worker'[w] = Idle
        /\ \A v \in Workers : v # w => worker'[v] = worker[v]
        /\ \A f \in Events : f # e => event'[f] = event[f] /\ letter'[f] = letter[f]
        /\ \A f \in Events : event'[f].message = event[f].message
        /\ letter'[e].replay = letter[e].replay
        /\ Exhausted(w) => event'[e].status = "PROCESSED"
        /\ ~Exhausted(w) => UNCHANGED letter
        /\ UNCHANGED sends
    BY <1>8, RetriedOne
  <2>2. /\ ~Busy(w)' /\ worker'[w].pc \notin Unsent
        /\ \A v \in Workers : v # w /\ Busy(v) => Target(v)' = Target(v)
    BY <1>g, <2>1 DEF Busy, Idle, Unsent
  <2>3. Senders(m)' \subseteq Senders(m) \ {w}
    BY <2>1, <2>2, OtherWorkers
  <2>4. \A f \in Events : f # e => event'[f] = event[f] /\ Holders(f)' = Holders(f)
    BY <1>k, <2>1, <2>2
  <2>5. CASE event[e].message # m
    <3>1. FreeEvents(m)' \subseteq FreeEvents(m)
      BY <2>1, <2>4, <2>5 DEF FreeEvents, Free
    <3>2. OpenLetters(m)' \subseteq OpenLetters(m)
      BY <2>1, <2>5 DEF OpenLetters
    <3> QED
      BY <1>d, <2>1, <2>3, <3>1, <3>2
  <2>6. CASE event[e].message = m
    <3>1. w \in Senders(m)
      BY <2>1, <2>6 DEF Senders, Target, Unsent
    <3>2. DropsOne(Senders(m)', Senders(m))
      BY <2>3, <3>1 DEF AddsOne, DropsOne
    <3>3. CASE Exhausted(w)
      <4>1. FreeEvents(m)' \subseteq FreeEvents(m)
        BY <2>1, <2>4, <3>3 DEF FreeEvents, Free
      <4>2. OpenLetters(m)' \subseteq OpenLetters(m) \cup {e}
        BY <2>1 DEF OpenLetters
      <4>3. FreeEvents(m)' \subseteq FreeEvents(m) /\ AddsOne(OpenLetters(m)', OpenLetters(m))
        BY <4>1, <4>2 DEF AddsOne, DropsOne
      <4> QED
        BY <1>v, <2>1, <3>2, <4>3
    <3>4. CASE ~Exhausted(w)
      <4>1. FreeEvents(m)' \subseteq FreeEvents(m) \cup {e}
        BY <2>4 DEF FreeEvents, Free
      <4>2. OpenLetters(m)' \subseteq OpenLetters(m)
        BY <1>j, <2>1, <3>4
      <4>3. AddsOne(FreeEvents(m)', FreeEvents(m)) /\ OpenLetters(m)' \subseteq OpenLetters(m)
        BY <4>1, <4>2 DEF AddsOne, DropsOne
      <4> QED
        BY <1>v, <2>1, <3>2, <4>3
    <3> QED
      BY <3>3, <3>4
  <2> QED
    BY <2>5, <2>6
<1>9. ASSUME NEW w \in Workers, Crash(w) PROVE Good'
  <2> DEFINE e == worker[w].event
  <2>1. /\ UNCHANGED <<event, letter, sends, overruns, losses>> /\ crashes' = crashes + 1
        /\ Busy(w) /\ worker' = [worker EXCEPT ![w] = Idle]
    BY <1>9 DEF Crash, Busy
  <2>2. ~Busy(w)' /\ worker'[w] = Idle /\ \A v \in Workers : v # w => worker'[v] = worker[v]
    BY <2>1, IdleAgain
  <2>3. worker'[w].pc \notin Unsent
    BY <2>2 DEF Idle, Unsent
  <2>4. Senders(m)' \subseteq Senders(m)
    BY <1>f, <2>1, <2>2, <2>3, OtherWorkers
  <2>5. FreeEvents(m)' \subseteq FreeEvents(m) \cup {e}
    BY <1>k, <2>1, <2>2 DEF FreeEvents, Free
  <2>6. OpenLetters(m)' \subseteq OpenLetters(m)
    BY <1>j, <2>1
  <2>7. Senders(m)' \subseteq Senders(m) /\ AddsOne(FreeEvents(m)', FreeEvents(m))
        /\ OpenLetters(m)' \subseteq OpenLetters(m)
    BY <2>4, <2>5, <2>6 DEF AddsOne, DropsOne
  <2>8. faulty' >= faulty + 1
    BY <1>0, <2>1 DEF faulty
  <2> QED
    BY <1>v, <2>1, <2>7, <2>8
<1>10. ASSUME UNCHANGED <<event, letter, worker, sends>> PROVE Good'
  <2>1. Senders(m)' \subseteq Senders(m) /\ OpenLetters(m)' \subseteq OpenLetters(m)
    BY <1>10, <1>h, <1>j
  <2>2. FreeEvents(m)' \subseteq FreeEvents(m)
    BY <1>10, <1>i DEF FreeEvents, Free
  <2>3. sends'[m] = sends[m]
    BY <1>10
  <2> QED
    BY <1>d, <2>1, <2>2, <2>3
<1>11. Good'
  <2>1. ASSUME \E w \in Workers : Work(w) \/ Crash(w) PROVE Good'
    BY <1>5, <1>6, <1>7, <1>8, <1>9, <2>1 DEF Work, Works
  <2>2. ASSUME \E x \in Messages, status \in Callback : applyStatus(x, status) PROVE Good'
    BY <1>10, <2>2 DEF applyStatus
  <2>3. ASSUME UNCHANGED vars PROVE Good'
    BY <1>10, <2>3 DEF vars
  <2> QED
    BY <1>1, <1>2, <1>3, <1>4, <2>1, <2>2, <2>3 DEF Next
<1> QED
  BY <1>11 DEF Good

\* The claims that may still be put back, in a step of one worker.
LEMMA OtherReopeners ==
  ASSUME NEW e, NEW w, \A v \in Workers : v # w => worker'[v] = worker[v]
  PROVE  /\ Reopeners(e)' \subseteq Reopeners(e) \cup {w}
         /\ ~(Busy(w)' /\ worker'[w].event = e /\ worker'[w].attempts < MaxAttempts) =>
              Reopeners(e)' \subseteq Reopeners(e) \ {w}
         /\ w \in Reopeners(e) => Reopeners(e)' \subseteq Reopeners(e)
  BY DEF Reopeners, Holders, Busy

\* No step makes a new chance to claim an event again, unless a crash or an overrun pays for it.
LEMMA BoundStep ==
  ASSUME TypeOK, TypeOK', ClaimsAreCounted, ClaimsAreBounded, [Next]_vars
  PROVE  ClaimsAreBounded'
<1> DEFINE faulty == crashes + overruns
           Good(e) == /\ IsFiniteSet(Reopeners(e))
                      /\ Claims(e) <= 1 + faulty
                      /\ event[e].attempts >= MaxAttempts => event[e].attempts + Claims(e) <= MaxAttempts + faulty
<1> SUFFICES ASSUME NEW e \in Events PROVE Good(e)'
  BY DEF ClaimsAreBounded
<1>0. /\ crashes \in Nat /\ overruns \in Nat /\ crashes' \in Nat /\ overruns' \in Nat
      /\ event[e].attempts \in Nat /\ event'[e].attempts \in Nat /\ MaxAttempts \in Nat /\ MaxAttempts > 0
  BY OutboxAssumption DEF TypeOK, EventRow
<1>1. faulty \in Nat /\ faulty' \in Nat /\ faulty' >= faulty
  <2>1. crashes' >= crashes /\ overruns' >= overruns
    BY FaultsGrow
  <2>2. \A a, b, x, y \in Nat : x >= a /\ y >= b => a + b \in Nat /\ x + y \in Nat /\ x + y >= a + b
    OBVIOUS
  <2> QED
    BY <1>0, <2>1, <2>2
<1>2. Good(e)
  BY DEF ClaimsAreBounded
<1>3. \A w \in Workers : Busy(w) =>
        /\ worker[w].event \in Events /\ event[worker[w].event].status # "ABSENT"
        /\ worker[w].attempts \in Nat
  BY DEF TypeOK, Busy, WorkerRow
<1>4. Cardinality(Reopeners(e)) \in Nat /\ IsFiniteSet(Reopeners(e))
  BY <1>2, FS_CardinalityType
<1>5. /\ Reopeners(e)' \subseteq Reopeners(e) \/ AddsOne(Reopeners(e)', Reopeners(e)) \/ DropsOne(Reopeners(e)', Reopeners(e)) =>
           IsFiniteSet(Reopeners(e)') /\ Cardinality(Reopeners(e)') \in Nat /\ Cardinality(Reopeners(e)') <= Cardinality(Reopeners(e)) + 1
      /\ Reopeners(e)' \subseteq Reopeners(e) => Cardinality(Reopeners(e)') <= Cardinality(Reopeners(e))
      /\ DropsOne(Reopeners(e)', Reopeners(e)) => Cardinality(Reopeners(e)') <= Cardinality(Reopeners(e)) - 1
  BY <1>4, SizesFollow
<1>6. /\ Claims(e) = (IF Free(e) THEN 1 ELSE 0) + Cardinality(Reopeners(e))
      /\ Claims(e)' = (IF Free(e)' THEN 1 ELSE 0) + Cardinality(Reopeners(e)')
  BY DEF Claims
<1>7. Good(e)' <=> /\ IsFiniteSet(Reopeners(e)')
                   /\ Claims(e)' <= 1 + faulty'
                   /\ event'[e].attempts >= MaxAttempts => event'[e].attempts + Claims(e)' <= MaxAttempts + faulty'
  OBVIOUS
<1> HIDE DEF faulty, Good
<1>8. /\ Claims(e) <= 1 + faulty
      /\ event[e].attempts >= MaxAttempts => event[e].attempts + Claims(e) <= MaxAttempts + faulty
  BY <1>2 DEF Good
<1>a. ASSUME event'[e].attempts = event[e].attempts,
             \/ Reopeners(e)' \subseteq Reopeners(e) /\ (Free(e)' => Free(e))
             \/ Reopeners(e)' \subseteq Reopeners(e) /\ faulty' >= faulty + 1
             \/ DropsOne(Reopeners(e)', Reopeners(e))
      PROVE  Good(e)'
  <2>1. /\ IsFiniteSet(Reopeners(e)') /\ Cardinality(Reopeners(e)') \in Nat
        /\ \/ Cardinality(Reopeners(e)') <= Cardinality(Reopeners(e)) /\ (Free(e)' => Free(e))
           \/ Cardinality(Reopeners(e)') <= Cardinality(Reopeners(e)) /\ faulty' >= faulty + 1
           \/ Cardinality(Reopeners(e)') <= Cardinality(Reopeners(e)) - 1
    BY <1>4, <1>5, <1>a
  <2>2. /\ Claims(e) \in Nat /\ Claims(e)' \in Nat
        /\ Claims(e)' <= Claims(e) \/ (Claims(e)' <= Claims(e) + 1 /\ faulty' >= faulty + 1)
    <3>1. CASE Free(e)'
      BY <1>4, <1>6, <2>1, <3>1
    <3>2. CASE ~Free(e)'
      BY <1>4, <1>6, <2>1, <3>2
    <3> QED
      BY <3>1, <3>2
  <2> QED
    BY <1>0, <1>1, <1>7, <1>8, <1>a, <2>1, <2>2
<1>b. ASSUME event'[e] = event[e], Holders(e)' = Holders(e), Reopeners(e)' \subseteq Reopeners(e)
      PROVE  Good(e)'
  BY <1>a, <1>b DEF Free
<1>c. ASSUME UNCHANGED worker PROVE Holders(e)' = Holders(e) /\ Reopeners(e)' \subseteq Reopeners(e)
  BY <1>c DEF Holders, Reopeners
<1>d. ASSUME NEW f \in Events, event[f].status = "ABSENT", NEW m, event' = Inserted(f, m), UNCHANGED worker
      PROVE  Good(e)'
  <2>1. /\ event'[f].attempts = 0 /\ \A x \in Events : x # f => event'[x] = event[x]
        /\ \A w \in Workers : Busy(w) => worker[w].event # f
    <3>1. /\ event'[f] = [status |-> "WAITING", message |-> m, attempts |-> 0, dead |-> FALSE, due |-> TRUE]
          /\ \A x \in Events : x # f => event'[x] = event[x]
          /\ \A w \in Workers : Busy(w) => worker[w].event # f
      BY <1>d, InsertedIsFresh
    <3> QED
      BY <3>1
  <2>2. CASE e # f
    BY <1>b, <1>c, <1>d, <2>1, <2>2
  <2>3. CASE e = f
    <3>1. Reopeners(e) = {} /\ IsFiniteSet({}) /\ Cardinality({}) = 0
      BY <2>1, <2>3, FS_EmptySet DEF Reopeners, Holders, Busy
    <3>2. IsFiniteSet(Reopeners(e)') /\ Cardinality(Reopeners(e)') = 0
      BY <1>c, <1>d, <3>1
    <3>3. Claims(e)' <= 1 /\ Claims(e)' \in Nat
      BY <1>6, <3>2
    <3> QED
      BY <1>0, <1>1, <1>7, <2>1, <2>3, <3>2, <3>3
  <2> QED
    BY <2>2, <2>3
<1>9. ASSUME NEW f \in Events, TimePasses(f) \/ LeaseExpires(f) PROVE Good(e)'
  <2>1. /\ event[f].status = "WAITING" /\ event'[f].attempts = event[f].attempts
        /\ \A x \in Events : x # f => event'[x] = event[x]
        /\ UNCHANGED worker
    BY <1>9, TickOfOne DEF TimePasses, LeaseExpires
  <2>2. Holders(e)' = Holders(e) /\ Reopeners(e)' \subseteq Reopeners(e)
    BY <1>c, <2>1
  <2>3. CASE e # f
    BY <1>b, <2>1, <2>2, <2>3
  <2>4. CASE e = f /\ TimePasses(f)
    BY <1>a, <2>1, <2>2, <2>4 DEF TimePasses, Free
  <2>5. CASE e = f /\ LeaseExpires(f)
    <3>1. faulty' >= faulty + 1
      BY <1>0, <2>5 DEF LeaseExpires, BecomesDue, faulty
    <3> QED
      BY <1>a, <2>1, <2>2, <2>5, <3>1
  <2> QED
    BY <1>9, <2>3, <2>4, <2>5
<1>10. ASSUME NEW w \in Workers, claimEvent(w) PROVE Good(e)'
  <2>1. PICK f \in Events : ClaimedBy(w, f)
    BY <1>10, ClaimOfOne
  <2>2. /\ ~Busy(w) /\ Busy(w)' /\ worker'[w].event = f /\ worker'[w].attempts = event[f].attempts + 1
        /\ event'[f].attempts = event[f].attempts + 1
        /\ event[f].status = "WAITING" /\ event[f].due /\ ~event'[f].due
        /\ \A x \in Events : x # f => event'[x] = event[x]
        /\ \A v \in Workers : v # w => worker'[v] = worker[v]
        /\ UNCHANGED <<crashes, overruns>>
    BY <2>1 DEF ClaimedBy
  <2>3. CASE e # f
    <3>1. Holders(e)' = Holders(e)
      BY <2>2, <2>3, HoldersOfOthers
    <3>2. Reopeners(e)' \subseteq Reopeners(e)
      BY <2>2, <2>3, OtherReopeners
    <3> QED
      BY <1>b, <2>2, <2>3, <3>1, <3>2
  <2>4. CASE e = f
    <3>1. Free(e) /\ ~Free(e)'
      BY <2>2, <2>4 DEF Free, Holders, Busy
    <3>2. AddsOne(Reopeners(e)', Reopeners(e))
      BY <2>2, OtherReopeners DEF AddsOne
    <3>3. event[e].attempts + 1 >= MaxAttempts => Reopeners(e)' \subseteq Reopeners(e)
      BY <1>0, <2>2, <2>4, OtherReopeners
    <3>4. faulty' = faulty
      BY <2>2 DEF faulty
    <3>5. event'[e].attempts = event[e].attempts + 1
      BY <2>2, <2>4
    <3>6. /\ Claims(e) = 1 + Cardinality(Reopeners(e)) /\ Claims(e)' = Cardinality(Reopeners(e)') /\ Cardinality(Reopeners(e)') \in Nat /\ Cardinality(Reopeners(e)') <= Cardinality(Reopeners(e)) + 1
          /\ event[e].attempts + 1 >= MaxAttempts => Cardinality(Reopeners(e)') <= Cardinality(Reopeners(e))
          /\ IsFiniteSet(Reopeners(e)')
      BY <1>4, <1>5, <1>6, <3>1, <3>2, <3>3
    <3> QED
      BY <1>0, <1>1, <1>4, <1>7, <1>8, <3>4, <3>5, <3>6
  <2> QED
    BY <2>3, <2>4
<1>11. ASSUME NEW w \in Workers, Works(w) PROVE Good(e)'
  <2>1. /\ UNCHANGED event /\ Busy(w) /\ Busy(w)'
        /\ worker'[w].event = worker[w].event /\ worker'[w].attempts = worker[w].attempts
        /\ \A v \in Workers : v # w => worker'[v] = worker[v]
    BY <1>11, WorkKeepsTheEvent
  <2>2. Holders(e)' = Holders(e) /\ Reopeners(e)' \subseteq Reopeners(e)
    BY <2>1 DEF Holders, Reopeners, Busy
  <2> QED
    BY <1>b, <2>1, <2>2
<1>12. ASSUME NEW w \in Workers, markProcessed(w) PROVE Good(e)'
  <2>1. /\ Busy(w) /\ worker[w].event \in Events
        /\ \A f \in Events : f # worker[w].event => event'[f] = event[f]
        /\ \/ event'[worker[w].event] = [event[worker[w].event] EXCEPT !.status = "PROCESSED"]
           \/ UNCHANGED event /\ worker'[w] = [worker[w] EXCEPT !.pc = "failed"]
        /\ \A v \in Workers : v # w => worker'[v] = worker[v]
        /\ \/ worker'[w] = Idle
           \/ worker'[w] = [worker[w] EXCEPT !.pc = "failed"]
    BY <1>12, ProcessedOne
  <2>2. worker'[w] = [worker[w] EXCEPT !.pc = "failed"] =>
          Busy(w)' /\ worker'[w].event = worker[w].event /\ worker'[w].attempts = worker[w].attempts
    BY DEF TypeOK, WorkerRow, Busy
  <2>3. worker'[w] = Idle => ~Busy(w)'
    BY DEF Busy, Idle
  <2>4. Reopeners(e)' \subseteq Reopeners(e)
    BY <2>1, <2>2, <2>3 DEF Reopeners, Holders, Busy
  <2>5. CASE e # worker[w].event
    <3>1. Holders(e)' = Holders(e)
      BY <2>1, <2>2, <2>3, <2>5, HoldersOfOthers
    <3> QED
      BY <1>b, <2>1, <2>4, <2>5, <3>1
  <2>6. CASE e = worker[w].event
    <3>1. event'[e].attempts = event[e].attempts
      BY <2>1, <2>6 DEF TypeOK, EventRow
    <3>2. CASE UNCHANGED event /\ worker'[w] = [worker[w] EXCEPT !.pc = "failed"]
      <4>1. Holders(e)' = Holders(e)
        BY <2>1, <2>2, <3>2 DEF Holders, Busy
      <4> QED
        BY <1>b, <2>4, <3>2, <4>1
    <3>3. CASE event'[worker[w].event] = [event[worker[w].event] EXCEPT !.status = "PROCESSED"]
      <4>1. event'[e].status = "PROCESSED"
        BY <2>1, <2>6, <3>3 DEF TypeOK, EventRow
      <4>2. ~Free(e)'
        BY <4>1 DEF Free
      <4> QED
        BY <1>a, <2>4, <3>1, <4>2
    <3> QED
      BY <2>1, <3>2, <3>3
  <2> QED
    BY <2>5, <2>6
<1>13. ASSUME NEW w \in Workers, markRetry(w) PROVE Good(e)'
  <2>1. /\ Busy(w) /\ worker[w].event \in Events /\ worker'[w] = Idle
        /\ \A v \in Workers : v # w => worker'[v] = worker[v]
        /\ \A f \in Events : f # worker[w].event => event'[f] = event[f]
        /\ event'[worker[w].event].attempts = event[worker[w].event].attempts
        /\ Exhausted(w) => event'[worker[w].event].status = "PROCESSED"
    BY <1>13, RetriedOne
  <2>2. ~Busy(w)'
    BY <2>1 DEF Busy, Idle
  <2>3. Reopeners(e)' \subseteq Reopeners(e) \ {w}
    BY <2>1, <2>2, OtherReopeners
  <2>4. CASE e # worker[w].event
    <3>1. Holders(e)' = Holders(e)
      BY <2>1, <2>2, <2>4, HoldersOfOthers
    <3> QED
      BY <1>b, <2>1, <2>3, <2>4, <3>1
  <2>5. CASE e = worker[w].event /\ Exhausted(w)
    <3>1. ~Free(e)'
      BY <2>1, <2>5 DEF Free
    <3> QED
      BY <1>a, <2>1, <2>3, <2>5, <3>1
  <2>6. CASE e = worker[w].event /\ ~Exhausted(w)
    <3>1. w \in Reopeners(e)
      BY <1>0, <1>3, <2>1, <2>6 DEF Reopeners, Holders, Busy, Exhausted
    <3>2. DropsOne(Reopeners(e)', Reopeners(e))
      BY <2>3, <3>1 DEF DropsOne
    <3> QED
      BY <1>a, <2>1, <2>6, <3>2
  <2> QED
    BY <2>4, <2>5, <2>6
<1>14. ASSUME NEW w \in Workers, Crash(w) PROVE Good(e)'
  <2>1. /\ UNCHANGED <<event, overruns>> /\ crashes' = crashes + 1 /\ worker' = [worker EXCEPT ![w] = Idle]
    BY <1>14 DEF Crash
  <2>2. ~Busy(w)' /\ \A v \in Workers : v # w => worker'[v] = worker[v]
    BY <2>1, IdleAgain
  <2>3. Reopeners(e)' \subseteq Reopeners(e)
    BY <2>2, OtherReopeners
  <2>4. faulty' >= faulty + 1
    BY <1>0, <2>1 DEF faulty
  <2> QED
    BY <1>a, <2>1, <2>3, <2>4
<1>15. ASSUME UNCHANGED <<event, worker>> PROVE Good(e)'
  BY <1>15, <1>b, <1>c
<1>16. ASSUME \E w \in Workers : Work(w) \/ Crash(w) PROVE Good(e)'
  BY <1>10, <1>11, <1>12, <1>13, <1>14, <1>16 DEF Work, Works
<1>17. ASSUME NEW f \in Events, Produces(f) PROVE Good(e)'
  BY <1>d, <1>17 DEF Produces, queueTrackingMessage, publishEvent, replayDeadLetter
<1>18. ASSUME UNCHANGED vars \/ \E x \in Messages, status \in Callback : applyStatus(x, status) PROVE Good(e)'
  BY <1>15, <1>18 DEF vars, applyStatus
<1> QED
  BY <1>9, <1>16, <1>17, <1>18 DEF Next, Produces

\* Counters that sum to zero are zero.
LEMMA NoFaults ==
  ASSUME NEW a \in Nat, NEW b \in Nat, NEW c \in Nat, a + b + c = 0
  PROVE  a = 0 /\ b = 0 /\ c = 0
  OBVIOUS

\* Without a fault, who may still send a message has not sent it yet.
LEMMA SentOnce ==
  ASSUME TypeOK, SendsAreCounted, crashes = 0, overruns = 0, losses = 0,
         NEW m \in Messages, NEW w \in Senders(m)
  PROVE  sends[m] = 0
<1>1. /\ IsFiniteSet(FreeEvents(m)) /\ IsFiniteSet(OpenLetters(m)) /\ IsFiniteSet(Senders(m))
      /\ sends[m] + Cardinality(FreeEvents(m)) + Cardinality(OpenLetters(m)) + Cardinality(Senders(m)) <= 1
  BY DEF SendsAreCounted
<1>2. /\ Cardinality(FreeEvents(m)) \in Nat /\ Cardinality(OpenLetters(m)) \in Nat /\ Cardinality(Senders(m)) \in Nat
      /\ Cardinality(Senders(m)) # 0
  BY <1>1, FS_CardinalityType, FS_EmptySet
<1>3. sends[m] \in Nat
  BY DEF TypeOK
<1>4. \A s, a, b, c \in Nat : s + a + b + c <= 1 /\ c # 0 => s = 0
  OBVIOUS
<1> QED
  BY <1>1, <1>2, <1>3, <1>4

\* Without a fault nobody is told of a failure after a send, whoever steps.
LEMMA TrueStep == IInv /\ [Next]_vars => FailuresAreTrue'
<1> SUFFICES ASSUME IInv, [Next]_vars, crashes' + overruns' + losses' = 0 PROVE FailuresAreTrue'
  BY DEF FailuresAreTrue
<1>0. /\ TypeOK /\ TypeOK' /\ ClaimsAreCounted /\ SendsComeFirst /\ FailuresAreTrue /\ SendsAreCounted /\ LeaseInv
      /\ OneIsCurrent
  BY OutboxTypes DEF IInv, LeaseInv, RecordsInv
<1>1. crashes' = 0 /\ overruns' = 0 /\ losses' = 0
  <2>1. crashes' \in Nat /\ overruns' \in Nat /\ losses' \in Nat
    BY <1>0 DEF TypeOK
  <2> QED
    BY <2>1, NoFaults
<1>2. crashes = 0 /\ overruns = 0 /\ losses = 0
  <2>1. crashes \in Nat /\ overruns \in Nat /\ losses \in Nat
    BY <1>0 DEF TypeOK
  <2> QED
    BY <1>0, <1>1, <2>1, FaultsGrow
<1> DEFINE Sending(w) == worker[w].pc = "sending" => message[Target(w)].status = "PROCESSING"
           Honest(m) == message[m].status = "FAILED" => sends[m] = 0 \/ FailedByProvider(m)
           AllTrue == (\A w \in Workers : Sending(w)) /\ \A m \in Messages : Honest(m)
<1>3. AllTrue
  BY <1>0, <1>2 DEF FailuresAreTrue
<1> SUFFICES AllTrue'
  BY DEF FailuresAreTrue
<1>4. \A w \in Workers : worker[w].pc = "sending" => Busy(w) /\ worker[w].event \in Events /\ Target(w) \in Messages
  BY <1>0 DEF TypeOK, Busy, ClaimsAreCounted
<1>a. ASSUME \A x \in Messages : message'[x] = message[x] /\ sends'[x] = sends[x], receipts \subseteq receipts',
             \A w \in Workers : worker'[w].pc = "sending" => worker[w].pc = "sending" /\ Target(w)' = Target(w)
      PROVE  AllTrue'
  BY <1>3, <1>4, <1>a DEF FailedByProvider
<1>b. ASSUME UNCHANGED worker, \A w \in Workers : Busy(w) => event'[worker[w].event].message = event[worker[w].event].message
      PROVE  \A w \in Workers : worker'[w].pc = "sending" => worker[w].pc = "sending" /\ Target(w)' = Target(w)
  BY <1>b, <1>4 DEF Target
<1>c. ASSUME NEW e \in Events, event[e].status = "ABSENT", NEW m, event' = Inserted(e, m), UNCHANGED worker
      PROVE  \A w \in Workers : worker'[w].pc = "sending" => worker[w].pc = "sending" /\ Target(w)' = Target(w)
  <2>1. /\ \A f \in Events : f # e => event'[f] = event[f]
        /\ \A w \in Workers : Busy(w) => worker[w].event # e
    BY <1>0, <1>c, InsertedIsFresh
  <2>2. \A w \in Workers : Busy(w) => worker[w].event \in Events
    BY <1>0 DEF TypeOK, Busy
  <2> QED
    BY <1>b, <1>c, <2>1, <2>2
<1>5. ASSUME NEW e \in Events, NEW m \in Messages, queueTrackingMessage(e, m) PROVE AllTrue'
  <2>1. /\ event[e].status = "ABSENT" /\ event' = Inserted(e, m) /\ UNCHANGED <<receipts, worker, sends>>
        /\ \A x \in Messages : x # m => message'[x] = message[x]
        /\ message'[m].status = "PENDING"
        /\ \A f \in Events : event[f].message # m
    BY <1>0, <1>5 DEF queueTrackingMessage, TypeOK, SendsComeFirst, MessageRow
  <2>2. \A w \in Workers : worker'[w].pc = "sending" => worker[w].pc = "sending" /\ Target(w)' = Target(w)
    BY <1>c, <2>1
  <2>3. \A w \in Workers : worker[w].pc = "sending" => Target(w) # m
    BY <1>4, <2>1 DEF Target
  <2>4. ASSUME NEW w \in Workers PROVE Sending(w)'
    BY <1>3, <1>4, <2>1, <2>2, <2>3
  <2>5. ASSUME NEW x \in Messages PROVE Honest(x)'
    BY <1>3, <2>1 DEF FailedByProvider
  <2> QED
    BY <2>4, <2>5
<1>6. ASSUME NEW e \in Events, publishEvent(e) \/ \E copy \in Events : replayDeadLetter(e, copy) PROVE AllTrue'
  <2>1. /\ UNCHANGED <<message, receipts, worker, sends>>
        /\ \E f \in Events, x \in Messages \cup {None} : event[f].status = "ABSENT" /\ event' = Inserted(f, x)
    <3>1. CASE publishEvent(e)
      BY <3>1 DEF publishEvent
    <3>2. CASE \E copy \in Events : replayDeadLetter(e, copy)
      BY <1>0, <3>2 DEF replayDeadLetter, TypeOK, EventRow
    <3> QED
      BY <1>6, <3>1, <3>2
  <2>2. \A w \in Workers : worker'[w].pc = "sending" => worker[w].pc = "sending" /\ Target(w)' = Target(w)
    BY <1>c, <2>1
  <2> QED
    BY <1>a, <2>1, <2>2
<1>7. ASSUME NEW e \in Events, TimePasses(e) \/ LeaseExpires(e) PROVE AllTrue'
  <2>1. /\ \A f \in Events : event'[f].message = event[f].message
        /\ UNCHANGED <<message, receipts, worker, sends>>
    BY <1>0, <1>7, TickOfOne DEF TimePasses, LeaseExpires
  <2>2. \A w \in Workers : Busy(w) => event'[worker[w].event].message = event[worker[w].event].message
    BY <1>0, <2>1 DEF TypeOK, Busy
  <2> QED
    BY <1>a, <1>b, <2>1, <2>2
<1>8. ASSUME NEW w \in Workers, claimEvent(w) PROVE AllTrue'
  <2>1. PICK e \in Events : ClaimedBy(w, e)
    BY <1>0, <1>8, ClaimOfOne
  <2>2. /\ \A f \in Events : event'[f].message = event[f].message
        /\ \A v \in Workers : v # w => worker'[v] = worker[v]
        /\ worker'[w].pc = "claimed"
        /\ UNCHANGED <<message, receipts, sends>>
    BY <2>1 DEF ClaimedBy
  <2>3. \A v \in Workers : worker'[v].pc = "sending" => worker[v].pc = "sending" /\ Target(v)' = Target(v)
    BY <1>4, <2>2 DEF Target
  <2> QED
    BY <1>a, <2>2, <2>3
<1>9. ASSUME NEW w \in Workers, Works(w) PROVE AllTrue'
  <2> DEFINE t == Target(w)
  <2>1. /\ UNCHANGED <<event, receipts>> /\ Busy(w)
        /\ \A v \in Workers : v # w => worker'[v] = worker[v]
        /\ \A v \in Workers : Target(v)' = Target(v)
    BY <1>0, <1>9, WorkKeepsTheEvent
  <2>2. /\ Progress(w, t) /\ \A x \in Messages : x # t => message'[x] = message[x] /\ sends'[x] = sends[x]
    BY <1>0, <1>9, WorkIsProgress
  <2>3. t \in Messages => \A v \in Workers : v # w /\ Busy(v) => Target(v) # t
    BY <1>0, <1>2, <2>1, WorksAlone
  <2>4. Sending(w)'
    <3>1. worker'[w].pc = "sending" => message'[t].status = "PROCESSING"
      BY <2>2 DEF Progress, Marked
    <3> QED
      BY <2>1, <3>1
  <2>5. ASSUME NEW v \in Workers, v # w PROVE Sending(v)'
    <3>1. worker[v].pc = "sending" => message'[Target(v)] = message[Target(v)]
      BY <1>4, <2>2, <2>3, <2>5
    <3> QED
      BY <1>3, <2>1, <2>5, <3>1
  <2>6. ASSUME NEW x \in Messages PROVE Honest(x)'
    <3>1. CASE x # t
      BY <1>3, <2>1, <2>2, <3>1 DEF FailedByProvider
    <3>2. CASE x = t
      <4>1. Progress(w, x) /\ Honest(x)
        BY <1>3, <2>2, <3>2
      <4>2. worker[w].pc = "sending" => message[x].status = "PROCESSING"
        BY <1>3, <3>2
      <4>3. losses' # losses + 1
        BY <1>1, <1>2
      <4>4. \/ message'[x].status # "FAILED"
            \/ message'[x] = message[x] /\ sends'[x] = sends[x]
            \/ Marked(x, "RETRYING")
        BY <4>1, <4>2, <4>3 DEF Progress, Sent, Marked
      <4> QED
        BY <2>1, <4>1, <4>4 DEF FailedByProvider, Marked
    <3> QED
      BY <3>1, <3>2
  <2> QED
    BY <2>4, <2>5, <2>6
<1>10. ASSUME NEW w \in Workers, markProcessed(w) PROVE AllTrue'
  <2>1. /\ UNCHANGED <<message, receipts, sends>>
        /\ \A f \in Events : f # worker[w].event => event'[f] = event[f]
        /\ event'[worker[w].event] = [event[worker[w].event] EXCEPT !.status = "PROCESSED"] \/ UNCHANGED event
        /\ worker[w].event \in Events
        /\ \A v \in Workers : v # w => worker'[v] = worker[v]
        /\ worker'[w] = Idle \/ worker'[w] = [worker[w] EXCEPT !.pc = "failed"]
    BY <1>0, <1>10, ProcessedOne
  <2>2. event'[worker[w].event].message = event[worker[w].event].message
    BY <1>0, <2>1 DEF TypeOK, EventRow
  <2>3. worker'[w].pc # "sending"
    <3>1. worker[w] \in WorkerRow
      BY <1>0 DEF TypeOK
    <3> QED
      BY <2>1, <3>1 DEF Idle, WorkerRow
  <2>4. \A v \in Workers : worker'[v].pc = "sending" => worker[v].pc = "sending" /\ Target(v)' = Target(v)
    BY <1>4, <2>1, <2>2, <2>3 DEF Target
  <2> QED
    BY <1>a, <2>1, <2>4
<1>11. ASSUME NEW w \in Workers, markRetry(w) PROVE AllTrue'
  <2>1. /\ Busy(w) /\ worker[w].pc = "failed" /\ worker'[w] = Idle /\ worker[w].event \in Events
        /\ \A v \in Workers : v # w => worker'[v] = worker[v]
        /\ \A f \in Events : event'[f].message = event[f].message
        /\ UNCHANGED <<receipts, sends>>
    BY <1>0, <1>11, RetriedOne
  <2>2. \A x \in Messages : x # Target(w) => message'[x] = message[x]
    BY <1>0, <1>11, RetriedOne DEF Target
  <2>3. Target(w) \in Messages => \A v \in Workers : v # w /\ Busy(v) => Target(v) # Target(w)
    BY <1>0, <1>2, <2>1, WorksAlone
  <2>4. ASSUME NEW v \in Workers PROVE Sending(v)'
    <3>1. CASE v = w
      BY <2>1, <3>1 DEF Idle
    <3>2. CASE v # w
      <4>1. worker[v].pc = "sending" => Target(v)' = Target(v) /\ message'[Target(v)] = message[Target(v)]
        BY <1>4, <2>1, <2>2, <2>3, <3>2 DEF Target
      <4> QED
        BY <1>3, <2>1, <3>2, <4>1
    <3> QED
      BY <3>1, <3>2
  <2>5. ASSUME NEW x \in Messages PROVE Honest(x)'
    <3>1. CASE x # Target(w)
      BY <1>3, <2>1, <2>2, <3>1 DEF FailedByProvider
    <3>2. CASE x = Target(w)
      <4>1. w \in Senders(x)
        BY <2>1, <3>2 DEF Senders, Unsent
      <4>2. sends[x] = 0
        BY <1>0, <1>2, <4>1, SentOnce
      <4> QED
        BY <2>1, <4>2
    <3> QED
      BY <3>1, <3>2
  <2> QED
    BY <2>4, <2>5
<1>12. ASSUME NEW w \in Workers, Crash(w) PROVE AllTrue'
  BY <1>1, <1>2, <1>12 DEF Crash
<1>13. ASSUME NEW m \in Messages, NEW status \in Callback, applyStatus(m, status) PROVE AllTrue'
  <2>1. /\ message[m].provider > 0 /\ UNCHANGED <<event, worker, sends>>
        /\ receipts' = receipts \cup {<<m, message[m].provider, status>>}
        /\ message' = [message EXCEPT ![m].status = CASE status = "sent" -> "SENT"
                                                     [] status = "delivered" -> "DELIVERED"
                                                     [] status = "failed" -> "FAILED"]
    BY <1>13 DEF applyStatus
  <2>2. /\ \A x \in Messages : x # m => message'[x] = message[x]
        /\ message'[m].provider = message[m].provider
        /\ message'[m].status = CASE status = "sent" -> "SENT"
                                  [] status = "delivered" -> "DELIVERED"
                                  [] status = "failed" -> "FAILED"
    BY <1>0, <2>1 DEF TypeOK, MessageRow
  <2>3. Honest(m)'
    BY <2>1, <2>2 DEF FailedByProvider, Callback
  <2>4. ASSUME NEW x \in Messages, x # m PROVE Honest(x)'
    BY <1>3, <2>1, <2>2, <2>4 DEF FailedByProvider
  <2>5. sends[m] > 0
    BY <1>0, <2>1 DEF SendsComeFirst, TypeOK, MessageRow
  <2>6. \A v \in Workers : worker[v].pc = "sending" => Target(v) # m
    <3>1. SUFFICES ASSUME NEW v \in Workers, worker[v].pc = "sending", Target(v) = m PROVE FALSE
      OBVIOUS
    <3>2. v \in Senders(m)
      BY <3>1 DEF Senders, Unsent
    <3>3. sends[m] = 0
      BY <1>0, <1>2, <3>2, SentOnce
    <3> QED
      BY <2>5, <3>3
  <2>7. ASSUME NEW v \in Workers PROVE Sending(v)'
    BY <1>3, <1>4, <2>1, <2>2, <2>6 DEF Target
  <2> QED
    BY <2>3, <2>4, <2>7
<1>14. ASSUME UNCHANGED vars PROVE AllTrue'
  BY <1>14, <1>a DEF vars, Target
<1> HIDE DEF AllTrue
<1>15. ASSUME \E w \in Workers : Work(w) \/ Crash(w) PROVE AllTrue'
  BY <1>8, <1>9, <1>10, <1>11, <1>12, <1>15 DEF Work, Works
<1> QED
  BY <1>5, <1>6, <1>7, <1>13, <1>14, <1>15 DEF Next

\* Everything holds at the start.
LEMMA InvInit == Init => IInv
<1> SUFFICES ASSUME Init PROVE IInv
  OBVIOUS
<1> USE OutboxAssumption
<1>1. TypeOK
  BY DEF Init, TypeOK, Idle, EventRow, LetterRow, MessageRow, WorkerRow, EventStatus, MessageStatus, WorkerStep
<1>2. /\ \A w \in Workers : worker[w].pc = "idle"
      /\ \A e \in Events : event[e].status = "ABSENT" /\ event[e].message = None /\ event[e].attempts = 0 /\ ~event[e].dead
      /\ \A e \in Events : letter[e].attempts = 0 /\ letter[e].replay = None
      /\ \A m \in Messages : message[m].status = "NONE" /\ message[m].provider = 0 /\ sends[m] = 0
      /\ crashes = 0 /\ overruns = 0 /\ losses = 0
  BY DEF Init, Idle
<1>3. ClaimsAreCounted /\ LettersAreLate /\ OneIsCurrent /\ SendsComeFirst
  BY <1>2 DEF ClaimsAreCounted, LettersAreLate, OneIsCurrent, SendsComeFirst, Busy
<1>4. LeasesHold /\ OutcomeIsTold
  BY <1>2 DEF LeasesHold, OutcomeIsTold, Busy
<1>5. SendsAreCounted
  <2>1. ASSUME NEW m \in Messages PROVE FreeEvents(m) = {} /\ OpenLetters(m) = {} /\ Senders(m) = {}
    BY <1>2 DEF FreeEvents, OpenLetters, Senders, Unsent, Free
  <2>2. IsFiniteSet({}) /\ Cardinality({}) = 0
    BY FS_EmptySet
  <2>3. ASSUME NEW m \in Messages
        PROVE  /\ IsFiniteSet(FreeEvents(m)) /\ IsFiniteSet(OpenLetters(m)) /\ IsFiniteSet(Senders(m))
               /\ Cardinality(FreeEvents(m)) = 0 /\ Cardinality(OpenLetters(m)) = 0 /\ Cardinality(Senders(m)) = 0
    BY <2>1, <2>2
  <2> QED
    BY <1>2, <2>3 DEF SendsAreCounted
<1>6. ClaimsAreBounded
  <2>1. ASSUME NEW e \in Events PROVE Reopeners(e) = {} /\ ~Free(e)
    BY <1>2 DEF Reopeners, Holders, Free
  <2>2. IsFiniteSet({}) /\ Cardinality({}) = 0
    BY FS_EmptySet
  <2>3. ASSUME NEW e \in Events PROVE IsFiniteSet(Reopeners(e)) /\ Claims(e) = 0
    BY <2>1, <2>2 DEF Claims
  <2> QED
    BY <1>2, <2>3 DEF ClaimsAreBounded
<1>7. FailuresAreTrue
  BY <1>2 DEF FailuresAreTrue
<1> QED
  BY <1>1, <1>3, <1>4, <1>5, <1>6, <1>7 DEF IInv, LeaseInv, RecordsInv

\* Each step keeps everything.
LEMMA InvStep == IInv /\ [Next]_vars => IInv'
<1> SUFFICES ASSUME IInv, [Next]_vars PROVE IInv'
  OBVIOUS
<1>1. LeaseInv' /\ TypeOK'
  BY LeaseStep DEF IInv, LeaseInv, RecordsInv
<1>2. SendsAreCounted'
  BY <1>1, CountStep DEF IInv, LeaseInv, RecordsInv
<1>3. ClaimsAreBounded'
  BY <1>1, BoundStep DEF IInv, LeaseInv, RecordsInv
<1> QED
  BY <1>1, <1>2, <1>3, TrueStep DEF IInv

\* In every reachable state the whole invariant holds.
THEOREM OutboxInvariant == Spec => []IInv
  BY InvInit, InvStep, PTL DEF Spec

\* The tables, the workers' memory and the histories keep their types.
THEOREM OutboxTypeCorrect == Spec => []TypeOK
<1>1. IInv => TypeOK
  BY DEF IInv, LeaseInv, RecordsInv
<1> QED
  BY <1>1, OutboxInvariant, PTL

\* markRetry buries no event before its attempts are used up, a dead event
\* has its letter and is closed, and claims beyond the maximum are paid for
\* by crashes and overruns: for any number of workers and events.
THEOREM DeadLettersEarned == Spec => []DeadLettersAreEarned
<1>1. IInv => DeadLettersAreEarned
  <2> SUFFICES ASSUME IInv, NEW e \in Events
               PROVE  /\ event[e].dead => event[e].status = "PROCESSED" /\ letter[e].attempts > 0
                      /\ letter[e].attempts > 0 => /\ letter[e].attempts >= MaxAttempts
                                                   /\ event[e].attempts >= letter[e].attempts
                      /\ overruns = 0 /\ letter[e].attempts > 0 => event[e].dead
                      /\ event[e].attempts <= MaxAttempts + crashes + overruns
    BY DEF DeadLettersAreEarned
  <2>1. LettersAreLate /\ LeasesHold /\ ClaimsAreBounded /\ TypeOK
    BY DEF IInv, LeaseInv, RecordsInv
  <2>2. /\ event[e].attempts \in Nat /\ letter[e].attempts \in Nat /\ MaxAttempts \in Nat
        /\ crashes \in Nat /\ overruns \in Nat
    BY <2>1, OutboxAssumption DEF TypeOK, EventRow, LetterRow
  <2>3. /\ event[e].dead => event[e].status = "PROCESSED" /\ letter[e].attempts > 0
        /\ letter[e].attempts > 0 => letter[e].attempts \in MaxAttempts .. event[e].attempts
    BY <2>1 DEF LettersAreLate
  <2>4. overruns = 0 /\ letter[e].attempts > 0 => event[e].dead
    BY <2>1 DEF LeasesHold
  <2>5. event[e].attempts <= MaxAttempts + crashes + overruns
    <3>1. Claims(e) \in Nat
      BY <2>1, FS_CardinalityType DEF ClaimsAreBounded, Claims
    <3>2. event[e].attempts >= MaxAttempts => event[e].attempts + Claims(e) <= MaxAttempts + (crashes + overruns)
      BY <2>1 DEF ClaimsAreBounded
    <3> QED
      BY <2>2, <3>1, <3>2
  <2> QED
    BY <2>2, <2>3, <2>4, <2>5
<1> QED
  BY <1>1, OutboxInvariant, PTL

\* A customer gets as many copies of a message as there were crashes,
\* overruns and lost answers, and one, whoever claims, retries or replays.
THEOREM FewCopies == Spec => []NoNeedlessCopies
<1>1. IInv => NoNeedlessCopies
  <2> SUFFICES ASSUME IInv, NEW m \in Messages PROVE sends[m] <= 1 + crashes + overruns + losses
    BY DEF NoNeedlessCopies
  <2>1. /\ sends[m] \in Nat /\ crashes \in Nat /\ overruns \in Nat /\ losses \in Nat
    BY DEF IInv, LeaseInv, RecordsInv, TypeOK
  <2>2. /\ Cardinality(FreeEvents(m)) \in Nat /\ Cardinality(OpenLetters(m)) \in Nat /\ Cardinality(Senders(m)) \in Nat
        /\ sends[m] + Cardinality(FreeEvents(m)) + Cardinality(OpenLetters(m)) + Cardinality(Senders(m))
             <= 1 + crashes + overruns + losses
    BY FS_CardinalityType DEF IInv, SendsAreCounted
  <2> QED
    BY <2>1, <2>2
<1> QED
  BY <1>1, OutboxInvariant, PTL

\* What the store reads about a message is what happened to it.
THEOREM OutcomeTold == Spec => []MessageTellsTheOutcome
<1>1. IInv => MessageTellsTheOutcome
  <2> SUFFICES ASSUME IInv, NEW m \in Messages
               PROVE  /\ message[m].status \in {"SENT", "DELIVERED"} => sends[m] > 0
                      /\ overruns = 0 => \A e \in Events : event[e].message = m /\ event[e].status = "PROCESSED" =>
                           \/ message[m].status \in {"SENT", "DELIVERED"} /\ sends[m] > 0
                           \/ message[m].status = "FAILED" /\ (event[e].dead \/ FailedByProvider(m))
                           \/ letter[e].replay # None
                      /\ message[m].status = "FAILED" /\ crashes + overruns + losses = 0 =>
                           sends[m] = 0 \/ FailedByProvider(m)
    BY DEF MessageTellsTheOutcome
  <2>1. SendsComeFirst /\ OutcomeIsTold /\ FailuresAreTrue
    BY DEF IInv, LeaseInv, RecordsInv
  <2>2. message[m].status \in {"SENT", "DELIVERED"} => sends[m] > 0
    BY <2>1 DEF SendsComeFirst
  <2>3. ASSUME overruns = 0, NEW e \in Events, event[e].message = m, event[e].status = "PROCESSED"
        PROVE  \/ message[m].status \in {"SENT", "DELIVERED"} /\ sends[m] > 0
               \/ message[m].status = "FAILED" /\ (event[e].dead \/ FailedByProvider(m))
               \/ letter[e].replay # None
    BY <2>1, <2>2, <2>3 DEF OutcomeIsTold, Reported
  <2>4. message[m].status = "FAILED" /\ crashes + overruns + losses = 0 => sends[m] = 0 \/ FailedByProvider(m)
    BY <2>1 DEF FailuresAreTrue
  <2> QED
    BY <2>2, <2>3, <2>4
<1> QED
  BY <1>1, OutboxInvariant, PTL

-----------------------------------------------------------------------------
(* The refinement, step by step.                                           *)

Job(e) ==
  IF event[e].status # "PROCESSED" THEN event[e].status
  ELSE IF event[e].dead THEN "DEAD" ELSE "DONE"

\* Nothing of the promise moves.
LEMMA Stutters ==
  ASSUME \A e \in Events : Job(e)' = Job(e), UNCHANGED handled
  PROVE  UNCHANGED Promise!vars
  BY DEF Promise!vars, Job

\* One event moves, the others and what was handled stay.
LEMMA OneJobMoves ==
  ASSUME NEW e \in Events, UNCHANGED handled, \A f \in Events : f # e => event'[f] = event[f],
         \/ Job(e) = "ABSENT" /\ Job(e)' = "WAITING"
         \/ Job(e) = "WAITING" /\ Job(e)' = "DEAD"
         \/ Job(e) = "WAITING" /\ Job(e)' = "DONE" /\ handled[e]
  PROVE  Promise!Next
<1> DEFINE job == [f \in Events |-> Job(f)]
<1>1. ASSUME NEW s, Job(e)' = s PROVE job' = [job EXCEPT ![e] = s]
  BY <1>1 DEF Job
<1>2. job[e] = Job(e)
  OBVIOUS
<1>3. CASE Job(e) = "ABSENT" /\ Job(e)' = "WAITING"
  <2>1. Promise!Submit(e)
    BY <1>1, <1>2, <1>3 DEF Promise!Submit, Job
  <2> QED
    BY <2>1 DEF Promise!Next
<1>4. CASE Job(e) = "WAITING" /\ Job(e)' = "DEAD"
  <2>1. Promise!GiveUp(e)
    BY <1>1, <1>2, <1>4 DEF Promise!GiveUp, Job
  <2> QED
    BY <2>1 DEF Promise!Next
<1>5. CASE Job(e) = "WAITING" /\ Job(e)' = "DONE" /\ handled[e]
  <2>1. Promise!Finish(e)
    BY <1>1, <1>2, <1>5 DEF Promise!Finish, Job
  <2> QED
    BY <2>1 DEF Promise!Next
<1> QED
  BY <1>3, <1>4, <1>5

\* With no overrun every step of the outbox is a step of the promise, or none.
LEMMA StepsKeepThePromise == LeaseInv /\ overruns = 0 /\ overruns' = 0 /\ [Next]_vars => [Promise!Next]_(Promise!vars)
<1> SUFFICES ASSUME LeaseInv, overruns = 0, overruns' = 0, [Next]_vars
             PROVE  Promise!Next \/ UNCHANGED Promise!vars
  OBVIOUS
<1>0. TypeOK /\ ClaimsAreCounted /\ LettersAreLate /\ LeasesHold
  BY DEF LeaseInv, RecordsInv
<1> DEFINE Kept == Promise!Next \/ UNCHANGED Promise!vars
<1>1. \A w \in Workers : Busy(w) => /\ worker[w].event \in Events
                                    /\ event[worker[w].event].status = "WAITING"
                                    /\ ~event[worker[w].event].dead
  BY <1>0 DEF TypeOK, LeasesHold, LettersAreLate, Busy
<1>a. ASSUME UNCHANGED handled, \A e \in Events : event'[e].status = event[e].status /\ event'[e].dead = event[e].dead
      PROVE  Kept
  BY <1>a, Stutters DEF Job
<1>b. ASSUME NEW e \in Events, event[e].status = "ABSENT", NEW m, event' = Inserted(e, m), UNCHANGED handled PROVE Kept
  <2>1. event'[e].status = "WAITING" /\ \A f \in Events : f # e => event'[f] = event[f]
    BY <1>0, <1>b, InsertedIsFresh
  <2> QED
    BY <1>b, <2>1, OneJobMoves DEF Job
<1>2. ASSUME NEW e \in Events, Produces(e) PROVE Kept
  <2>1. \E f \in Events : \E m : event[f].status = "ABSENT" /\ event' = Inserted(f, m) /\ UNCHANGED handled
    BY <1>2 DEF Produces, queueTrackingMessage, publishEvent, replayDeadLetter
  <2> QED
    BY <1>b, <2>1
<1>3. ASSUME NEW e \in Events, TimePasses(e) \/ LeaseExpires(e) PROVE Kept
  <2>1. /\ event'[e].status = event[e].status /\ event'[e].dead = event[e].dead
        /\ \A f \in Events : f # e => event'[f] = event[f]
        /\ UNCHANGED handled
    BY <1>0, <1>3, TickOfOne DEF TimePasses, LeaseExpires
  <2> QED
    BY <1>a, <2>1
<1>4. ASSUME NEW w \in Workers, claimEvent(w) PROVE Kept
  <2>1. PICK e \in Events : ClaimedBy(w, e)
    BY <1>0, <1>4, ClaimOfOne
  <2> QED
    BY <1>a, <2>1 DEF ClaimedBy
<1>5. ASSUME NEW w \in Workers, Works(w) PROVE Kept
  <2> DEFINE e == worker[w].event
  <2>1. UNCHANGED event /\ Busy(w)
    BY <1>0, <1>5, WorkKeepsTheEvent
  <2>2. UNCHANGED handled \/ handled' = [handled EXCEPT ![e] = TRUE]
    BY <1>5 DEF Works, processPush, readMessage, startAttempt, sendToProvider, recordSent, recordRejection,
                faults, Return
  <2>3. CASE UNCHANGED handled
    BY <1>a, <2>1, <2>3
  <2>4. CASE handled' = [handled EXCEPT ![e] = TRUE]
    <3>1. e \in Events /\ Job(e) = "WAITING"
      BY <1>1, <2>1 DEF Job
    <3>2. Promise!Handle(e)
      BY <2>1, <2>4, <3>1 DEF Promise!Handle, Job
    <3> QED
      BY <3>1, <3>2 DEF Promise!Next
  <2> QED
    BY <2>2, <2>3, <2>4
<1>6. ASSUME NEW w \in Workers, markProcessed(w) PROVE Kept
  <2> DEFINE e == worker[w].event
  <2>1. /\ Busy(w) /\ worker[w].pc = "handled" /\ e \in Events
        /\ \A f \in Events : f # e => event'[f] = event[f]
        /\ event'[e] = [event[e] EXCEPT !.status = "PROCESSED"] \/ UNCHANGED event
        /\ UNCHANGED handled
    BY <1>0, <1>6, ProcessedOne
  <2>2. handled[e] /\ event[e].status = "WAITING" /\ ~event[e].dead
    BY <1>0, <1>1, <2>1 DEF ClaimsAreCounted
  <2>3. CASE event'[e] = [event[e] EXCEPT !.status = "PROCESSED"]
    <3>1. event'[e].status = "PROCESSED" /\ ~event'[e].dead
      BY <1>0, <2>1, <2>2, <2>3 DEF TypeOK, EventRow
    <3>2. Job(e) = "WAITING" /\ (IF event'[e].status # "PROCESSED" THEN event'[e].status
                                 ELSE IF event'[e].dead THEN "DEAD" ELSE "DONE") = "DONE"
      BY <2>2, <3>1 DEF Job
    <3>3. \A f \in Events : f = e => Job(f) = "WAITING" /\ Job(f)' = "DONE" /\ handled[f]
      BY <2>2, <3>2 DEF Job
    <3>4. \A f \in Events : f = e => \A x \in Events : x # f => event'[x] = event[x]
      BY <2>1
    <3> HIDE DEF e
    <3> QED
      BY <2>1, <3>3, <3>4, OneJobMoves
  <2>4. CASE UNCHANGED event
    BY <1>a, <2>1, <2>4
  <2> QED
    BY <2>1, <2>3, <2>4
<1>7. ASSUME NEW w \in Workers, markRetry(w) PROVE Kept
  <2> DEFINE e == worker[w].event
  <2>1. /\ Busy(w) /\ e \in Events
        /\ \A f \in Events : f # e => event'[f] = event[f]
        /\ Exhausted(w) => event'[e].status = "PROCESSED" /\ event'[e].dead
        /\ ~Exhausted(w) => event'[e].status = "WAITING" /\ ~event'[e].dead
        /\ UNCHANGED handled
    BY <1>0, <1>7, RetriedOne DEF faults
  <2>2. event[e].status = "WAITING" /\ ~event[e].dead
    BY <1>1, <2>1
  <2>3. CASE Exhausted(w)
    <3>1. \A f \in Events : f = e => Job(f) = "WAITING" /\ Job(f)' = "DEAD"
      BY <2>1, <2>2, <2>3 DEF Job
    <3>2. \A f \in Events : f = e => \A x \in Events : x # f => event'[x] = event[x]
      BY <2>1
    <3> HIDE DEF e
    <3> QED
      BY <2>1, <3>1, <3>2, OneJobMoves
  <2>4. CASE ~Exhausted(w)
    <3>1. \A f \in Events : Job(f)' = Job(f)
      BY <2>1, <2>2, <2>4 DEF Job
    <3> QED
      BY <2>1, <3>1, Stutters
  <2> QED
    BY <2>3, <2>4
<1>8. ASSUME UNCHANGED <<event, handled>> PROVE Kept
  BY <1>a, <1>8
<1> HIDE DEF Kept
<1>9. ASSUME \E w \in Workers : Work(w) \/ Crash(w) PROVE Kept
  BY <1>4, <1>5, <1>6, <1>7, <1>8, <1>9 DEF Work, Works, Crash
<1>10. ASSUME UNCHANGED vars \/ \E m \in Messages, status \in Callback : applyStatus(m, status) PROVE Kept
  BY <1>8, <1>10 DEF vars, applyStatus
<1>11. Kept
  BY <1>2, <1>3, <1>9, <1>10 DEF Next, Produces
<1> QED
  BY <1>11 DEF Kept

\* As long as no worker goes on with an event it no longer holds, the
\* outbox implements at-least-once processing: nothing is done that was not
\* handled to the end, and what is settled stays settled.  (Promise!Settles
\* is liveness and stays with the model checker.)
THEOREM AtLeastOnceKept ==
  Spec /\ [](overruns = 0) => Promise!Init /\ [][Promise!Next]_(Promise!vars)
<1>1. Init => Promise!Init
  BY DEF Init, Promise!Init
<1>2. IInv /\ overruns = 0 /\ (overruns = 0)' /\ [Next]_vars => [Promise!Next]_(Promise!vars)
  BY StepsKeepThePromise DEF IInv
<1> QED
  BY <1>1, <1>2, OutboxInvariant, PTL DEF Spec

-----------------------------------------------------------------------------
(***************************************************************************)
(* Idempotent requests: the type invariant, at most one execution at a     *)
(* time, at most one committed effect and one answer per key.  All three   *)
(* follow from KeysInv, which says what holding the row of a key means at  *)
(* each step of a call.                                                    *)
(***************************************************************************)
(* The row a call works on is its own.                                     *)
RowsAreHeld ==
  \A c \in Calls :
    /\ call[c] \in {"locked", "executed"} => holder[KeyOf[c]] = c /\ stored[KeyOf[c]] = NoCall
    /\ call[c] \in {"found", "mismatched"} => holder[KeyOf[c]] = c /\ stored[KeyOf[c]] # NoCall
    /\ call[c] = "found" => RequestOf[stored[KeyOf[c]]] = RequestOf[c]
    /\ call[c] = "inserted" /\ holder[KeyOf[c]] = c => stored[KeyOf[c]] = NoCall

(* A row is held only by a call of its key whose transaction is open.      *)
HoldersAreOpen ==
  \A k \in Keys : holder[k] # NoCall =>
    /\ KeyOf[holder[k]] = k
    /\ call[holder[k]] \in {"inserted", "locked", "executed", "found", "mismatched"}

(* Stored answers, effects and calls agree; until a purge, every effect is *)
(* the stored answer of its key.                                           *)
EffectsAreStored ==
  /\ \A k \in Keys : stored[k] # NoCall => stored[k] \in effects /\ KeyOf[stored[k]] = k
  /\ \A c \in effects : call[c] \in {"committed", "answered", "failed"}
  /\ \A c \in Calls : call[c] = "committed" => c \in effects
  /\ purges = 0 => \A c \in effects : stored[KeyOf[c]] = c

(* Replies repeat the committed answer of the same request.                *)
RepliesAreStored ==
  \A c \in Calls : reply[c] # NoCall =>
    /\ reply[c] \in effects
    /\ KeyOf[reply[c]] = KeyOf[c]
    /\ RequestOf[reply[c]] = RequestOf[c]

KeysInv == KeysTypeOK /\ RowsAreHeld /\ HoldersAreOpen /\ EffectsAreStored /\ RepliesAreStored

LEMMA KeysBegin == KeysInit => KeysInv
  BY IdempotencyAssumption
     DEF KeysInit, KeysInv, KeysTypeOK, RowsAreHeld, HoldersAreOpen, EffectsAreStored,
         RepliesAreStored, Step, Open, Closed

LEMMA KeysStep == KeysInv /\ [KeysNext]_keyVars => KeysInv'
<1> SUFFICES ASSUME KeysInv, [KeysNext]_keyVars PROVE KeysInv'
  OBVIOUS
<1> USE IdempotencyAssumption
    DEF KeysInv, KeysTypeOK, RowsAreHeld, HoldersAreOpen, EffectsAreStored,
        RepliesAreStored, Step, Open, Closed
<1>1. ASSUME NEW c \in Calls, Begin(c) PROVE KeysInv'
  BY <1>1 DEF Begin, StepTo
<1>2. ASSUME NEW c \in Calls, InsertKey(c) PROVE KeysInv'
  BY <1>2 DEF InsertKey, StepTo
<1>3. ASSUME NEW c \in Calls, SelectForUpdate(c) PROVE KeysInv'
  BY <1>3 DEF SelectForUpdate, SameRequest, StepTo
<1>4. ASSUME NEW c \in Calls, Execute(c) PROVE KeysInv'
  BY <1>4 DEF Execute, StepTo
<1>5. ASSUME NEW c \in Calls, Commit(c) PROVE KeysInv'
  BY <1>5 DEF Commit, StepTo, Released
<1>6. ASSUME NEW c \in Calls, Answer(c) PROVE KeysInv'
  BY <1>6 DEF Answer, StepTo, Released
<1>7. ASSUME NEW c \in Calls, Refuse(c) PROVE KeysInv'
  BY <1>7 DEF Refuse, StepTo, Released
<1>8. ASSUME NEW c \in Calls, Fail(c) PROVE KeysInv'
  BY <1>8 DEF Fail, StepTo, Released
<1>9. ASSUME NEW k \in Keys, Purge(k) PROVE KeysInv'
  BY <1>9 DEF Purge
<1>10. CASE UNCHANGED keyVars
  BY <1>10 DEF keyVars
<1> QED
  BY <1>1, <1>2, <1>3, <1>4, <1>5, <1>6, <1>7, <1>8, <1>9, <1>10 DEF KeysNext, Serve

LEMMA KeysKept == KeysSpec => []KeysInv
  BY KeysBegin, KeysStep, PTL DEF KeysSpec

(* Every variable keeps its type.                                          *)
THEOREM TypeCorrect == KeysSpec => []KeysTypeOK
  BY KeysKept, PTL DEF KeysInv

(* At most one committed execution of a key until the key expires.         *)
THEOREM AtMostOnce == KeysSpec => []EffectOnce
<1>1. KeysInv => EffectOnce
  BY DEF KeysInv, KeysTypeOK, EffectsAreStored, EffectOnce
<1> QED
  BY <1>1, KeysKept, PTL

(* One answer per key, that of the same request, with its effects.         *)
THEOREM AnswersAgree == KeysSpec => []SameAnswer
<1>1. KeysInv => SameAnswer
  BY DEF KeysInv, KeysTypeOK, EffectsAreStored, RepliesAreStored, SameAnswer
<1> QED
  BY <1>1, KeysKept, PTL

(* Executions of one key exclude each other and come before its answer.    *)
THEOREM MutualExclusion == KeysSpec => []ExecutesAlone
<1>1. KeysInv => ExecutesAlone
  BY DEF KeysInv, RowsAreHeld, ExecutesAlone
<1> QED
  BY <1>1, KeysKept, PTL

=============================================================================

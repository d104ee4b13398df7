----------------------------- MODULE Idempotency -----------------------------
(***************************************************************************)
(* withIdempotency (and withPlatformIdempotency, which is the same but for *)
(* the table and the tenant): how repeated calls with one Idempotency-Key  *)
(* share one execution.  A call is one HTTP request; a client that retries *)
(* makes another call with the same key.  Each statement of the database   *)
(* transaction is a step; PostgreSQL makes a statement wait for the row    *)
(* that another transaction inserted or locked, and undoes everything a    *)
(* transaction did when it fails.                                          *)
(*                                                                         *)
(* An answer is named by the call that computed it, and so is the row of   *)
(* idempotency_keys that stores it.                                        *)
(***************************************************************************)
EXTENDS Naturals

CONSTANTS
  Calls,        \* HTTP requests
  Keys,         \* (tenant_id, idempotency_key, operation)
  Requests,     \* the user and the payload of a call: actor_user_id, request_hash
  KeyOf,        \* the key of each call
  RequestOf,    \* the request of each call
  NoCall,       \* no call
  MaxPurges     \* bound: rows that retention deletes after they expired

ASSUME IdempotencyAssumption ==
  /\ KeyOf \in [Calls -> Keys]
  /\ RequestOf \in [Calls -> Requests]
  /\ NoCall \notin Calls
  /\ MaxPurges \in Nat

VARIABLES
  call,         \* how far each call is
  stored,       \* committed rows of idempotency_keys: the call that stored the answer
  holder,       \* the transaction that inserted the row of a key or locked it
  effects,      \* the calls whose state changes are committed
  reply,        \* the answer each client received
  purges

keyVars == <<call, stored, holder, effects, reply, purges>>

Open == {"begun", "inserted", "locked", "executed", "found", "mismatched"}
Closed == {"answered", "refused", "failed"}
Step == {"new", "committed"} \cup Open \cup Closed

KeysInit ==
  /\ call = [c \in Calls |-> "new"]
  /\ stored = [k \in Keys |-> NoCall]
  /\ holder = [k \in Keys |-> NoCall]
  /\ effects = {}
  /\ reply = [c \in Calls |-> NoCall]
  /\ purges = 0

StepTo(c, step) == call' = [call EXCEPT ![c] = step]

ReleasedOnSuccess(c) ==            \* faulty: a rollback keeps its row
  [k \in Keys |-> IF holder[k] = c /\ call[c] \in {"executed", "found", "mismatched"}
                  THEN NoCall ELSE holder[k]]

(* The end of the transaction of c gives up its row.                       *)
Released(c) == [k \in Keys |-> IF holder[k] = c THEN NoCall ELSE holder[k]]

Begin(c) ==
  /\ call[c] = "new"
  /\ StepTo(c, "begun")
  /\ UNCHANGED <<stored, holder, effects, reply, purges>>

(* INSERT ... ON CONFLICT DO NOTHING: nothing when the row is committed,   *)
(* otherwise it waits for the transaction that is inserting it.            *)
InsertKey(c) ==
  LET k == KeyOf[c]
  IN /\ call[c] = "begun"
     /\ stored[k] = NoCall => holder[k] = NoCall
     /\ holder' = IF stored[k] = NoCall THEN [holder EXCEPT ![k] = c] ELSE holder
     /\ StepTo(c, "inserted")
     /\ UNCHANGED <<stored, effects, reply, purges>>

SameKey(c, d) ==                   \* faulty: trusts the key alone
  KeyOf[c] = KeyOf[d]

(* The stored actor and hash are those of the call.                        *)
SameRequest(c, d) == RequestOf[c] = RequestOf[d]

(* SELECT ... FOR UPDATE and the decision on what it returns.  The row may *)
(* be gone: then storedResult.rows[0] is undefined and the call fails.     *)
SelectForUpdate(c) ==
  LET k == KeyOf[c]
      other == stored[k]
  IN /\ call[c] = "inserted"
     /\ \/ /\ holder[k] = c
           /\ StepTo(c, "locked")
           /\ UNCHANGED holder
        \/ /\ other # NoCall
           /\ holder[k] = NoCall
           /\ holder' = [holder EXCEPT ![k] = c]
           /\ StepTo(c, IF SameRequest(other, c) THEN "found" ELSE "mismatched")
        \/ /\ other = NoCall
           /\ holder[k] # c
           /\ StepTo(c, "failed")
           /\ UNCHANGED holder
     /\ UNCHANGED <<stored, effects, reply, purges>>

ExecuteOutside(c) ==               \* faulty: on a connection of its own
  /\ call[c] = "locked"
  /\ effects' = effects \cup {c}
  /\ StepTo(c, "executed")
  /\ UNCHANGED <<stored, holder, reply, purges>>

(* execute() and the UPDATE that keeps its answer.                         *)
Execute(c) ==
  /\ call[c] = "locked"
  /\ StepTo(c, "executed")
  /\ UNCHANGED <<stored, holder, effects, reply, purges>>

(* COMMIT makes the state changes and the stored answer visible at once.   *)
Commit(c) ==
  /\ call[c] = "executed"
  /\ stored' = [stored EXCEPT ![KeyOf[c]] = c]
  /\ holder' = Released(c)
  /\ effects' = effects \cup {c}
  /\ StepTo(c, "committed")
  /\ UNCHANGED <<reply, purges>>

(* The answer of an execution, or the stored answer of another call.       *)
Answer(c) ==
  /\ \/ /\ call[c] = "committed"
        /\ reply' = [reply EXCEPT ![c] = c]
     \/ /\ call[c] = "found"
        /\ reply' = [reply EXCEPT ![c] = stored[KeyOf[c]]]
  /\ holder' = Released(c)
  /\ StepTo(c, "answered")
  /\ UNCHANGED <<stored, effects, purges>>

(* 409: the key belongs to another request.                                *)
Refuse(c) ==
  /\ call[c] = "mismatched"
  /\ holder' = Released(c)
  /\ StepTo(c, "refused")
  /\ UNCHANGED <<stored, effects, reply, purges>>

(* execute() throws, the connection breaks or the process dies: the        *)
(* transaction is rolled back, the row it inserted included.  After the    *)
(* commit only the answer is lost.                                         *)
Fail(c) ==
  /\ call[c] \in Open \cup {"committed"}
  /\ holder' = Released(c)
  /\ StepTo(c, "failed")
  /\ UNCHANGED <<stored, effects, reply, purges>>

(* enforceRetentionPolicies deletes a row once expires_at has passed; the  *)
(* DELETE waits for whoever locks it.                                      *)
Purge(k) ==
  /\ stored[k] # NoCall
  /\ holder[k] = NoCall
  /\ purges < MaxPurges
  /\ purges' = purges + 1
  /\ stored' = [stored EXCEPT ![k] = NoCall]
  /\ UNCHANGED <<call, holder, effects, reply>>

Serve(c) ==
  InsertKey(c) \/ SelectForUpdate(c) \/ Execute(c) \/ Commit(c) \/ Answer(c) \/ Refuse(c)

KeysNext ==
  \/ \E c \in Calls : Begin(c) \/ Serve(c) \/ Fail(c)
  \/ \E k \in Keys : Purge(k)

(* The server works on every call it has begun.                            *)
KeysSpec == KeysInit /\ [][KeysNext]_keyVars /\ \A c \in Calls : WF_keyVars(Serve(c))

-----------------------------------------------------------------------------
KeysTypeOK ==
  /\ call \in [Calls -> Step]
  /\ stored \in [Keys -> Calls \cup {NoCall}]
  /\ holder \in [Keys -> Calls \cup {NoCall}]
  /\ effects \subseteq Calls
  /\ reply \in [Calls -> Calls \cup {NoCall}]
  /\ purges \in Nat

(* Until a key expires, its calls change the state at most once, however   *)
(* many of them run at the same time, fail or are retried.                 *)
EffectOnce ==
  purges = 0 => \A c, d \in effects : KeyOf[c] = KeyOf[d] => c = d

(* Every client of a key that gets an answer gets the same one, that of a  *)
(* call with its own key and request whose effects are committed.          *)
SameAnswer ==
  \A c \in Calls : reply[c] # NoCall =>
    /\ reply[c] \in effects
    /\ KeyOf[reply[c]] = KeyOf[c]
    /\ RequestOf[reply[c]] = RequestOf[c]
    /\ purges = 0 => \A d \in Calls : reply[d] # NoCall /\ KeyOf[c] = KeyOf[d]
                                        => reply[c] = reply[d]

(* No two calls of a key are between their decision to execute and their   *)
(* commit, and none is while the key already has its answer.               *)
ExecutesAlone ==
  \A c \in Calls : call[c] \in {"locked", "executed"} =>
    /\ stored[KeyOf[c]] = NoCall
    /\ \A d \in Calls : KeyOf[d] = KeyOf[c] /\ call[d] \in {"locked", "executed"} => c = d

(* No call waits for ever for the row of another, whatever fails.          *)
EveryCallEnds == \A c \in Calls : call[c] = "begun" ~> call[c] \in Closed

=============================================================================

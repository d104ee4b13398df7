----------------------------- MODULE LiveVideo -----------------------------
(***************************************************************************)
(* Live sessions of one store and their video (modules/commerce/live*.ts,  *)
(* integrations/ivs): the studio connects in two transactions, the stream  *)
(* key lives at the provider, and the worker takes it away.  Every writer  *)
(* but disconnect locks the row of the store, so a transaction is one      *)
(* step; calls of the provider happen inside a transaction that may still  *)
(* be undone.  The store has one channel.                                  *)
(***************************************************************************)
EXTENDS Naturals, FiniteSets

CONSTANTS Live, Studio,   \* sessions; studios, each an owner with its lease token
          Quota           \* monthly_live_limit of the plan

ASSUME LiveVideoAssumption == Quota \in Nat

VARIABLES live,       \* commerce_live_sessions
          video,      \* commerce_live_video
          key,        \* the sessions whose stream key exists at the provider
          knows,      \* <<s, l>>: studio s was given the existing key of l
          connecting, \* the session for which a studio is between its transactions
          published

liveVars == <<live, video, key, knows, connecting, published>>

Nowhere == "NOWHERE"
NotSaved == [status |-> "NONE", started |-> FALSE, over |-> FALSE]
NoVideo == [state |-> "NONE", studio |-> Nowhere, valid |-> FALSE, shutdown |-> FALSE]

LiveTypeOK ==
  /\ live \in [Live -> [status : {"NONE", "WAITING", "LIVE", "ENDED"},
                        started : BOOLEAN, over : BOOLEAN]]
  /\ video \in [Live -> [state : {"NONE", "PREPARING", "READY", "STOPPED"},
                         studio : Studio \cup {Nowhere}, valid : BOOLEAN, shutdown : BOOLEAN]]
  /\ key \subseteq Live
  /\ knows \subseteq Studio \X key
  /\ connecting \in [Studio -> Live \cup {Nowhere}]
  /\ published \in BOOLEAN

LiveInit ==
  /\ live = [l \in Live |-> NotSaved]
  /\ video = [l \in Live |-> NoVideo]
  /\ key = {} /\ knows = {}
  /\ connecting = [s \in Studio |-> Nowhere]
  /\ published = TRUE

(***************************************************************************)
(* Sessions.                                                               *)
(***************************************************************************)
\* expireLiveStore, first in every handler: deadline and subscription.
Expired == [l \in Live |-> IF live[l].status = "LIVE" /\ live[l].over
                           THEN [live[l] EXCEPT !.status = "ENDED"] ELSE live[l]]

saveLive(l) ==
  /\ live[l].status = "NONE"
  /\ live' = [Expired EXCEPT ![l].status = "WAITING"]
  /\ UNCHANGED <<video, key, knows, connecting, published>>

\* liveEntitlement: sessions with a started_at count, whatever became of them.  (A bound: one
\* month.)
Used == Cardinality({k \in Live : live[k].started})

\* over is meaningful from here on.
startLive(l) ==
  /\ live[l].status = "WAITING" /\ published
  /\ Used < Quota
  /\ \A k \in Live : Expired[k].status # "LIVE"
  /\ live' = [Expired EXCEPT ![l].status = "LIVE", ![l].started = TRUE]
  /\ UNCHANGED <<video, key, knows, connecting, published>>

endLive(l) ==
  /\ live[l].status \in {"WAITING", "LIVE"}
  /\ live' = [Expired EXCEPT ![l].status = "ENDED"]
  /\ UNCHANGED <<video, key, knows, connecting, published>>

expireCommerceLives ==
  /\ Expired # live
  /\ live' = Expired
  /\ UNCHANGED <<video, key, knows, connecting, published>>

\* The deadline comes, or the subscription ends.
timeIsOver(l) ==
  /\ live[l].status = "LIVE" /\ ~live[l].over
  /\ live' = [live EXCEPT ![l].over = TRUE]
  /\ UNCHANGED <<video, key, knows, connecting, published>>

publishCatalogue ==
  /\ published' = ~published
  /\ UNCHANGED <<live, video, key, knows, connecting>>

(***************************************************************************)
(* The studio.                                                             *)
(***************************************************************************)
\* requireRunning.
Running(l) == live[l].status = "LIVE" /\ ~live[l].over /\ published

Stored(l) == video[l].state # "NONE"
Held(l, s) == video[l].studio = s /\ ~video[l].shutdown

\* First transaction of connect: the intent is committed before anything exists at
\* the provider.  The channel takes one video that is not stopped
\* (commerce_video_channel_active).
prepareVideo(s, l) ==
  /\ connecting[s] = Nowhere /\ Running(l)
  /\ video[l].state \in {"PREPARING", "READY"} => Held(l, s) /\ video[l].valid
  /\ \A k \in Live \ {l} : video[k].state \in {"NONE", "STOPPED"}
  /\ video' = [video EXCEPT ![l] = [state |-> "PREPARING", studio |-> s, valid |-> TRUE, shutdown |-> FALSE]]
  /\ connecting' = [connecting EXCEPT ![s] = l]
  /\ UNCHANGED <<live, key, knows, published>>

\* Mutant: the second transaction does not look at the lease token again.
StillMineUnlessStopped(s, l) == video[l].state \in {"PREPARING", "READY"} /\ ~video[l].shutdown

StillMine(s, l) == video[l].state \in {"PREPARING", "READY"} /\ Held(l, s)

\* provider.key gives the key of the session that exists or creates it, and refuses a
\* channel with another key.  The transaction commits, or is undone after that, or
\* the provider or the process fails first.
receiveKey(s) ==
  LET l == connecting[s]
  IN /\ l # Nowhere
     /\ connecting' = [connecting EXCEPT ![s] = Nowhere]
     /\ \/ UNCHANGED <<video, key, knows>>
        \/ /\ Running(l) /\ StillMine(s, l) /\ key \subseteq {l}
           /\ key' = {l}
           /\ \/ UNCHANGED <<video, knows>>
              \/ /\ video' = [video EXCEPT ![l].state = "READY", ![l].valid = TRUE]
                 /\ knows' = knows \cup {<<s, l>>}
     /\ UNCHANGED <<live, published>>

heartbeat(s, l) ==
  /\ Running(l) /\ video[l].state = "READY" /\ Held(l, s) /\ video[l].valid
  /\ video' = [video EXCEPT ![l].valid = TRUE]
  /\ UNCHANGED <<live, key, knows, connecting, published>>

\* Any manager; without the lock of the store.
disconnect(l) ==
  /\ Stored(l)
  /\ video' = [video EXCEPT ![l].shutdown = TRUE]
  /\ UNCHANGED <<live, key, knows, connecting, published>>

leaseEnds(l) ==
  /\ video[l].valid
  /\ video' = [video EXCEPT ![l].valid = FALSE]
  /\ UNCHANGED <<live, key, knows, connecting, published>>

(***************************************************************************)
(* The worker.                                                             *)
(***************************************************************************)
\* Mutant: only what a studio or the end of its lease gave up.
AbandonedByStudio(l) ==
  /\ video[l].state \in {"PREPARING", "READY"}
  /\ video[l].shutdown

Abandoned(l) ==
  /\ video[l].state \in {"PREPARING", "READY"}
  /\ video[l].shutdown \/ ~video[l].valid \/ ~Running(l)

\* provider.stop deletes the key and disconnects, unless the channel has another key.
Stops(l) == Abandoned(l) /\ key \subseteq {l} /\ key' = {} /\ knows' = {}

stopVideo(l) ==
  /\ Stops(l)
  /\ video' = [video EXCEPT ![l].state = "STOPPED", ![l].shutdown = FALSE]
  /\ UNCHANGED <<live, connecting, published>>

\* The key is gone, but the provider fails after that or the transaction is lost.
stopUnrecorded(l) ==
  /\ Stops(l)
  /\ UNCHANGED <<live, video, connecting, published>>

LiveNext ==
  \/ \E l \in Live : saveLive(l) \/ startLive(l) \/ endLive(l) \/ timeIsOver(l)
  \/ expireCommerceLives \/ publishCatalogue
  \/ \E s \in Studio : receiveKey(s) \/ \E l \in Live : prepareVideo(s, l) \/ heartbeat(s, l)
  \/ \E l \in Live : disconnect(l) \/ leaseEnds(l) \/ stopVideo(l) \/ stopUnrecorded(l)

\* The worker ticks for ever, and a stop that is tried again and again succeeds.
LiveFairness == \A l \in Live : WF_liveVars(stopVideo(l))

(***************************************************************************)
(* Properties.                                                             *)
(***************************************************************************)
\* A key at the provider always has a row by which the worker finds it (the comment of
\* connect: a crash after the key was created is recoverable), and no two studios were
\* given the key that exists.
StreamKeysAreAccounted ==
  /\ \A l \in key : video[l].state \in {"PREPARING", "READY"}
  /\ \A known, other \in knows : known = other

\* A session that is not running any more loses its key, whatever failed on the way.
StreamsEnd == \A l \in Live : (l \in key /\ live[l].status = "ENDED") ~> l \notin key
=============================================================================

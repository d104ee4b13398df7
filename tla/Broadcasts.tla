----------------------------- MODULE Broadcasts -----------------------------
(***************************************************************************)
(* Who may follow deliveries while they happen: tracking links             *)
(* (modules/tracking), sockets of customers and of the operation, the      *)
(* occurrences a courier reports (modules/driver-events), and the          *)
(* publications of positions and occurrences                               *)
(* (realtime/location-realtime.ts).  A publication visits the sockets of   *)
(* its rooms one after the other; a socket is a connection, so that one    *)
(* which comes back is another one.                                        *)
(***************************************************************************)
EXTENDS Naturals, FiniteSets

CONSTANTS Parcel,       \* deliveries of one store
          Link,         \* tracking tokens
          Viewer,       \* sockets
          Publication,  \* publications under way
          Occurrence,   \* occurrences of one kind, by one courier
          Staff         \* the credential of the operation: an access token and its scope

ASSUME BroadcastsAssumption == Staff \notin Link

VARIABLES
  link,     \* tracking_tokens
  parcel,   \* parcel[p]: under way, delivered, or delivered longer than the grace ago
  active,   \* is the tenant active?
  scope,    \* is the access token unexpired and its scope current?
  viewer,   \* viewer[v]: its credential, admitted by use or joined to its room
  pub,      \* pub[q]: what is published, to whom still, and who was just cleared
  good,     \* good[q]: credentials that were good at some moment of q (history)
  event     \* event[e]: the delivery and status of an occurrence; NEW until its commit

followVars == <<link, parcel, active, scope, viewer, pub, good>>
broadcastVars == <<followVars, event>>

Out == [credential |-> {}, step |-> "OUT"]
Silent == [parcel |-> {}, visible |-> FALSE, step |-> "NONE", todo |-> {}, cleared |-> {}]

BroadcastsTypeOK ==
  /\ link \in [Link -> [parcel : SUBSET Parcel, state : {"NONE", "VALID", "EXPIRED", "REVOKED"}]]
  /\ parcel \in [Parcel -> {"OPEN", "DELIVERED", "CLOSED"}]
  /\ active \in BOOLEAN /\ scope \in BOOLEAN
  /\ viewer \in [Viewer -> [credential : SUBSET (Link \cup {Staff}), step : {"OUT", "ADMITTED", "JOINED"}]]
  /\ pub \in [Publication -> [parcel : SUBSET Parcel, visible : BOOLEAN, step : {"NONE", "STAFF", "PUBLIC"},
                              todo : SUBSET Viewer, cleared : SUBSET Viewer]]
  /\ good \in [Publication -> SUBSET (Link \cup {Staff})]
  /\ event \in [Occurrence -> [parcel : SUBSET Parcel, status : {"NONE", "NEW", "OPEN", "RESOLVED", "CANCELLED"}]]

BroadcastsInit ==
  /\ link = [l \in Link |-> [parcel |-> {}, state |-> "NONE"]]
  /\ parcel = [p \in Parcel |-> "OPEN"]
  /\ active = TRUE /\ scope = TRUE
  /\ viewer = [v \in Viewer |-> Out]
  /\ pub = [q \in Publication |-> Silent]
  /\ good = [q \in Publication |-> {}]
  /\ event = [e \in Occurrence |-> [parcel |-> {}, status |-> "NONE"]]

\* resolvePublicTrackingSocket and, for the operation, verifyAccessToken with
\* tenant_session_is_current.
Good(c) ==
  IF c = Staff THEN active /\ scope
  ELSE active /\ link[c].state = "VALID" /\ \A p \in link[c].parcel : parcel[p] # "CLOSED"

GoodOnes == {c \in Link \cup {Staff} : Good(c)}

(***************************************************************************)
(* Links and what ends them.                                               *)
(***************************************************************************)
Revoked(p) == [l \in Link |-> IF p \in link[l].parcel THEN [link[l] EXCEPT !.state = "REVOKED"] ELSE link[l]]

issueTrackingLink(l, p) ==
  /\ link[l].state = "NONE" /\ parcel[p] # "CLOSED" /\ active
  /\ link' = [Revoked(p) EXCEPT ![l] = [parcel |-> {p}, state |-> "VALID"]]
  /\ UNCHANGED <<parcel, active, scope, viewer, pub>>

revokeTrackingLink(p) ==
  /\ active /\ Revoked(p) # link /\ link' = Revoked(p)
  /\ UNCHANGED <<parcel, active, scope, viewer, pub>>

linkExpires(l) ==
  /\ link[l].state = "VALID" /\ link' = [link EXCEPT ![l].state = "EXPIRED"]
  /\ UNCHANGED <<parcel, active, scope, viewer, pub>>

\* The delivery is delivered, unless an occurrence that is being reported shares its row;
\* later the time of grace is over.
parcelMoves(p) ==
  /\ parcel[p] # "CLOSED" /\ \A e \in Occurrence : event[e] # [parcel |-> {p}, status |-> "NEW"]
  /\ parcel' = [parcel EXCEPT ![p] = IF @ = "OPEN" THEN "DELIVERED" ELSE "CLOSED"]
  /\ UNCHANGED <<link, active, scope, viewer, pub>>

setTenantStatus ==
  /\ active' = ~active
  /\ UNCHANGED <<link, parcel, scope, viewer, pub>>

\* A role, a store or the person is taken away or given back, or the token expires.
scopeChanges ==
  /\ scope' = ~scope
  /\ UNCHANGED <<link, parcel, active, viewer, pub>>

(***************************************************************************)
(* Sockets.                                                                *)
(***************************************************************************)
admit(v, c) ==
  /\ viewer[v] = Out /\ Good(c)
  /\ viewer' = [viewer EXCEPT ![v] = [credential |-> {c}, step |-> "ADMITTED"]]
  /\ UNCHANGED <<link, parcel, active, scope, pub>>

joinRoom(v) ==
  /\ viewer[v].step = "ADMITTED"
  /\ viewer' = [viewer EXCEPT ![v].step = "JOINED"]
  /\ UNCHANGED <<link, parcel, active, scope, pub>>

Gone(v) ==
  /\ viewer' = [viewer EXCEPT ![v] = Out]
  /\ pub' = [q \in Publication |-> [pub[q] EXCEPT !.todo = @ \ {v}, !.cleared = @ \ {v}]]

leave(v) ==
  /\ viewer[v].step # "OUT" /\ Gone(v)
  /\ UNCHANGED <<link, parcel, active, scope>>

(***************************************************************************)
(* Publications.                                                           *)
(***************************************************************************)
\* fetchSockets: the operation's room, and the room of delivery p.
StaffRoom == {v \in Viewer : viewer[v].step = "JOINED" /\ viewer[v].credential = {Staff}}
TrackingRoom(p) == {v \in Viewer : viewer[v].step = "JOINED"
                                     /\ \E l \in viewer[v].credential \ {Staff} : p \in link[l].parcel}

\* A position or a driver event; the operation comes first.
startPublication(q, p, visible) ==
  /\ pub[q] = Silent
  /\ pub' = [pub EXCEPT ![q] = [Silent EXCEPT !.parcel = {p}, !.visible = visible, !.step = "STAFF", !.todo = StaffRoom]]
  /\ UNCHANGED <<link, parcel, active, scope, viewer>>

publishToCustomers(q) ==
  /\ pub[q].step = "STAFF" /\ pub[q].todo = {}
  /\ \E p \in pub[q].parcel :
       pub' = [pub EXCEPT ![q] = IF pub[q].visible THEN [@ EXCEPT !.step = "PUBLIC", !.todo = TrackingRoom(p)] ELSE Silent]
  /\ UNCHANGED <<link, parcel, active, scope, viewer>>

\* Mutant: the room is the authorization.
StillAllowedInRoom(v) == viewer[v].step = "JOINED"

\* The credential is resolved again for every socket of every publication.
StillAllowed(v) == viewer[v].credential \subseteq GoodOnes

revalidate(q, v) ==
  /\ v \in pub[q].todo /\ pub[q].cleared = {}
  /\ IF StillAllowed(v)
     THEN pub' = [pub EXCEPT ![q].cleared = {v}] /\ UNCHANGED viewer
     ELSE Gone(v)
  /\ UNCHANGED <<link, parcel, active, scope>>

\* After the transaction that looked; what ended meanwhile is not seen.
emit(q) ==
  /\ pub[q].cleared # {}
  /\ pub' = [pub EXCEPT ![q].todo = @ \ pub[q].cleared, ![q].cleared = {}]
  /\ UNCHANGED <<link, parcel, active, scope, viewer>>

publicationEnds(q) ==
  /\ pub[q].step = "PUBLIC" /\ pub[q].todo = {}
  /\ pub' = [pub EXCEPT ![q] = Silent]
  /\ UNCHANGED <<link, parcel, active, scope, viewer>>

(***************************************************************************)
(* Occurrences.                                                            *)
(***************************************************************************)
\* The row of the courier stays locked from here to the commit.
eventContext(p) ==
  /\ parcel[p] = "OPEN"
  /\ \A e \in Occurrence : event[e].status # "NEW"

\* One that is open in the same operation refuses another of its kind.
createDriverEvent(e, p) ==
  /\ event[e].status = "NONE" /\ eventContext(p)
  /\ \A f \in Occurrence : event[f] # [parcel |-> {p}, status |-> "OPEN"]
  /\ event' = [event EXCEPT ![e] = [parcel |-> {p}, status |-> "NEW"]]
  /\ UNCHANGED <<link, parcel, active, scope, viewer, pub>>

\* The commit, with the history and the event of the outbox; or an error undoes it all.
recordChange(e, as) ==
  /\ event[e].status = "NEW"
  /\ event' = [event EXCEPT ![e] = IF as = "OPEN" THEN [@ EXCEPT !.status = "OPEN"] ELSE [parcel |-> {}, status |-> "NONE"]]
  /\ UNCHANGED <<link, parcel, active, scope, viewer, pub>>

\* By the courier or the operation; only the operation cancels.
closeDriverEvent(e, as) ==
  /\ event[e].status = "OPEN"
  /\ event' = [event EXCEPT ![e].status = as]
  /\ UNCHANGED <<link, parcel, active, scope, viewer, pub>>

\* After the commit, and again on a retry: what it tells was read just before.
publishCommitted(q, e) ==
  /\ event[e].status \notin {"NONE", "NEW"}
  /\ \E p \in event[e].parcel, visible \in BOOLEAN : startPublication(q, p, visible)
  /\ UNCHANGED event

Follow ==
  \/ \E p \in Parcel : revokeTrackingLink(p) \/ parcelMoves(p) \/ \E l \in Link : issueTrackingLink(l, p)
  \/ \E l \in Link : linkExpires(l)
  \/ setTenantStatus \/ scopeChanges
  \/ \E v \in Viewer : joinRoom(v) \/ leave(v) \/ \E c \in Link \cup {Staff} : admit(v, c)
  \/ \E q \in Publication :
       \/ \E p \in Parcel, visible \in BOOLEAN : startPublication(q, p, visible)
       \/ publishToCustomers(q) \/ emit(q) \/ publicationEnds(q)
       \/ \E v \in Viewer : revalidate(q, v)

Report ==
  \E e \in Occurrence :
    \/ \E p \in Parcel : createDriverEvent(e, p)
    \/ \E as \in {"OPEN", "NONE"} : recordChange(e, as)
    \/ \E as \in {"RESOLVED", "CANCELLED"} : closeDriverEvent(e, as)
    \/ \E q \in Publication : publishCommitted(q, e)

BroadcastsNext ==
  /\ (Follow /\ UNCHANGED event) \/ Report
  /\ good' = [q \in Publication |->
       IF pub'[q] = Silent THEN {} ELSE good[q] \cup GoodOnes \cup GoodOnes']

(***************************************************************************)
(* Properties.                                                             *)
(***************************************************************************)
\* Nothing is sent to a socket whose link or access ended before the publication began,
\* although it joined its room when it was good ("a room joined before revocation is not
\* an authorization cache").
EndedViewersGetNothing ==
  \A q \in Publication : \A v \in pub[q].cleared : viewer[v].credential \subseteq good[q]

\* An operation has at most one open occurrence of a kind, from however many phones or retries
\* its courier reports it.
OneOpenOccurrence ==
  \A e, f \in Occurrence :
    event[e].status = "OPEN" /\ event[f].status = "OPEN" /\ event[e].parcel = event[f].parcel => e = f
=============================================================================

------------------------------ MODULE Sessions ------------------------------
(***************************************************************************)
(* The sessions of one person: those of a company (refresh_sessions,       *)
(* auth/auth.service.ts), those of the account (identity_sessions,         *)
(* auth/identity.service.ts) and, of an administrator of the platform,     *)
(* those of platform/platform-auth.service.ts, who never stops being one.  *)
(* Each renewal retires the session presented and mints its successor;     *)
(* presenting a retired one ends them all.  The transactions of several    *)
(* requests interleave statement by statement: a row stays locked to its   *)
(* end, a statement that revokes many rows sees those committed when it    *)
(* began and waits for the locks on them.                                  *)
(***************************************************************************)
EXTENDS Accounts

CONSTANTS MaxSessions,   \* bounds how many sessions are minted
          Request        \* requests that may be under way at once

ASSUME MaxSessionsAssumption == MaxSessions \in Nat

VARIABLES session,   \* kind, state and the sign-in it descends from
          txn        \* the open transaction of each request

sessionVars == <<session, txn>>

Session == 1..MaxSessions
NoSession == 0
Kind == {"UNIT", "IDENTITY", "PLATFORM"}
Fresh == [kind |-> "NONE", state |-> "FREE", login |-> NoSession]
Idle == [op |-> "IDLE", holds |-> {}, doomed |-> {}, status |-> "NONE"]

SessionsTypeOK ==
  /\ session \in [Session -> {Fresh} \cup
                   [kind : Kind, state : {"LIVE", "REVOKED", "EXPIRED"}, login : Session]]
  /\ txn \in [Request -> [op : {"IDLE", "ROTATE", "REVOKE", "UPDATE", "RESET_UNITS", "RESET"},
                          holds : SUBSET Session, doomed : SUBSET Session,
                          status : MembershipStatus \cup {"NONE"}]]

SessionsInit ==
  /\ session = [s \in Session |-> Fresh]
  /\ txn = [r \in Request |-> Idle]

LiveOf(kinds) == {s \in Session : session[s].state = "LIVE" /\ session[s].kind \in kinds}
Unused(s) == session[s] = Fresh /\ \A t \in 1..(s - 1) : session[t] # Fresh
LockedFor(r, s) == \E q \in Request \ {r} : s \in txn[q].holds
Unlocked(s) == \A q \in Request : s \notin txn[q].holds
Allowed(kind) ==
  CASE kind = "UNIT" -> Entitled
    [] kind = "IDENTITY" -> verified /\ HasAccount
    [] kind = "PLATFORM" -> TRUE

Revoked(doomed) ==
  [s \in Session |-> IF s \in doomed /\ session[s].state = "LIVE"
                       THEN [session[s] EXCEPT !.state = "REVOKED"] ELSE session[s]]

(***************************************************************************)
(* A sign-in mints a session that descends from nobody.                    *)
(***************************************************************************)
Mint(s, kind, login) == [kind |-> kind, state |-> "LIVE", login |-> login]

login(s) ==
  /\ Unused(s)
  /\ Allowed("UNIT")
  /\ session' = [session EXCEPT ![s] = Mint(s, "UNIT", s)]
  /\ UNCHANGED <<accountVars, txn>>

signInIdentity(s) ==
  /\ Unused(s)
  /\ Allowed("IDENTITY")
  /\ session' = [session EXCEPT ![s] = Mint(s, "IDENTITY", s)]
  /\ UNCHANGED <<accountVars, txn>>

platformLogin(s) ==
  /\ Unused(s)
  /\ Allowed("PLATFORM")
  /\ session' = [session EXCEPT ![s] = Mint(s, "PLATFORM", s)]
  /\ UNCHANGED <<accountVars, txn>>

enterUnit(s) ==
  /\ Unused(s)
  /\ LiveOf({"IDENTITY"}) # {}
  /\ Allowed("UNIT")
  /\ session' = [session EXCEPT ![s] = Mint(s, "UNIT", s)]
  /\ UNCHANGED <<accountVars, txn>>

(***************************************************************************)
(* Renewal: the row of the session presented is read under its lock.       *)
(***************************************************************************)
\* Mutant: the state of the session is read before its lock is granted.
RotatesUnlocked(r, s) == session[s].state = "LIVE"

Rotates(r, s) == session[s].state = "LIVE" /\ ~LockedFor(r, s)

Renew(r, s) ==
  /\ txn[r] = Idle
  /\ Rotates(r, s)
  /\ Allowed(session[s].kind)
  /\ txn' = [txn EXCEPT ![r] = [Idle EXCEPT !.op = "ROTATE", !.holds = {s}]]
  /\ UNCHANGED <<accountVars, session>>

commitRefresh(r, heir) ==
  /\ txn[r].op = "ROTATE"
  /\ Unused(heir)
  /\ \E s \in txn[r].holds :
       session' = [session EXCEPT ![s].state = "REVOKED",
                                  ![heir] = Mint(heir, session[s].kind, session[s].login)]
  /\ txn' = [txn EXCEPT ![r] = Idle]
  /\ UNCHANGED accountVars

\* A retired session comes back: the answer of its renewal was lost, or
\* somebody kept a copy.  Every session of its kind is to end.
Reuse(r, s) ==
  /\ txn[r] = Idle
  /\ session[s].state = "REVOKED"
  /\ ~LockedFor(r, s)
  /\ txn' = [txn EXCEPT ![r] = [Idle EXCEPT !.op = "REVOKE", !.holds = {s},
                                            !.doomed = LiveOf({session[s].kind})]]
  /\ UNCHANGED <<accountVars, session>>

beginRefresh(r, s) == session[s].kind # "PLATFORM" /\ Renew(r, s)

reuseDetected(r, s) == session[s].kind # "PLATFORM" /\ Reuse(r, s)

\* The same scheme over platform_refresh_sessions.
platformRefresh(r, s) == session[s].kind = "PLATFORM" /\ (Renew(r, s) \/ Reuse(r, s))

(***************************************************************************)
(* Other reasons to end sessions.                                          *)
(***************************************************************************)
changeOwnPassword(r, own) ==
  /\ txn[r] = Idle
  /\ own \in LiveOf({"IDENTITY"})
  /\ txn' = [txn EXCEPT ![r] = [Idle EXCEPT !.op = "REVOKE",
                                            !.doomed = LiveOf({"IDENTITY"}) \ {own}]]
  /\ UNCHANGED <<accountVars, session>>

\* The link is locked to the end of the transaction.
\* revoke_identity_credentials: the sessions of companies first, then those
\* of the account, by two statements.
resetPassword(r) ==
  /\ txn[r] = Idle
  /\ "RESET_PASSWORD" \in links
  /\ links' = links \ {"RESET_PASSWORD"}
  /\ txn' = [txn EXCEPT ![r] = [Idle EXCEPT !.op = "RESET_UNITS", !.doomed = LiveOf({"UNIT"})]]
  /\ UNCHANGED <<verified, member, profile, registration, availability, located, announced, announcing, session>>

resetIdentities(r) ==
  /\ txn[r].op = "RESET_UNITS"
  /\ \A s \in txn[r].doomed : ~LockedFor(r, s)
  /\ txn' = [txn EXCEPT ![r].op = "RESET", ![r].holds = txn[r].doomed \cap LiveOf({"UNIT"}),
                        ![r].doomed = LiveOf({"IDENTITY"})]
  /\ UNCHANGED <<accountVars, session>>

\* PATCH /users/:userId and PATCH /couriers/:courierId.
updateMember(r, status) ==
  /\ txn[r] = Idle
  /\ member # Absent
  /\ \A q \in Request : txn[q].op # "UPDATE"
  /\ txn' = [txn EXCEPT ![r] = [Idle EXCEPT !.op = "UPDATE", !.status = status,
                                            !.doomed = LiveOf({"UNIT"})]]
  /\ UNCHANGED <<accountVars, session>>

finishRevocation(r) ==
  /\ txn[r].op \in {"REVOKE", "UPDATE", "RESET"}
  /\ \A s \in txn[r].doomed : ~LockedFor(r, s)
  /\ session' = Revoked(txn[r].doomed \cup txn[r].holds)
  /\ txn' = [txn EXCEPT ![r] = Idle]
  /\ IF txn[r].op = "RESET"
       THEN /\ verified' = TRUE
            /\ ReviewBegins
            /\ UNCHANGED <<links, member, profile, announcing>>
       ELSE /\ member' = IF txn[r].op = "UPDATE" THEN [member EXCEPT !.status = txn[r].status] ELSE member
            /\ UNCHANGED <<verified, links, profile, registration, availability, located, announced, announcing>>

\* An error or a lost connection undoes what a request had not committed.
abort(r) ==
  /\ txn[r] # Idle
  /\ txn' = [txn EXCEPT ![r] = Idle]
  /\ links' = IF txn[r].op \in {"RESET_UNITS", "RESET"} THEN links \cup {"RESET_PASSWORD"} ELSE links
  /\ UNCHANGED <<verified, member, profile, registration, availability, located, announced, announcing, session>>

logout(s) ==
  /\ session[s].kind = "UNIT"
  /\ session[s].state = "LIVE"
  /\ Unlocked(s)
  /\ session' = Revoked({s})
  /\ UNCHANGED <<accountVars, txn>>

logoutIdentity(s) ==
  /\ session[s].kind = "IDENTITY"
  /\ session[s].state # "FREE"
  /\ Unlocked(s)
  /\ session' = Revoked({s})
  /\ IF registration = "NONE" THEN PreferencesStay
       ELSE WritePreferences(registration, "OFFLINE", FALSE)
  /\ UNCHANGED <<verified, links, member, profile, announcing, txn>>

platformLogout(s) ==
  /\ session[s].kind = "PLATFORM" /\ session[s].state = "LIVE"
  /\ Unlocked(s)
  /\ session' = Revoked({s})
  /\ UNCHANGED <<accountVars, txn>>

sessionExpires(s) ==
  /\ session[s].state \in {"LIVE", "REVOKED"}
  /\ Unlocked(s)
  /\ session' = [session EXCEPT ![s].state = "EXPIRED"]
  /\ UNCHANGED <<accountVars, txn>>

SessionsNext ==
  \/ \E s \in Session : login(s) \/ signInIdentity(s) \/ enterUnit(s) \/ platformLogin(s)
  \/ \E r \in Request, s \in Session :
       \/ beginRefresh(r, s) \/ commitRefresh(r, s) \/ reuseDetected(r, s) \/ platformRefresh(r, s)
       \/ changeOwnPassword(r, s)
  \/ \E r \in Request : resetPassword(r) \/ resetIdentities(r) \/ finishRevocation(r) \/ abort(r)
  \/ \E r \in Request, status \in MembershipStatus : updateMember(r, status)
  \/ \E s \in Session : logout(s) \/ logoutIdentity(s) \/ platformLogout(s) \/ sessionExpires(s)

(***************************************************************************)
(* A sign-in has one living session at any time, however often and from    *)
(* however many requests at once it is renewed, revoked or presented       *)
(* again: two renewals of one session must not both leave an heir, or the  *)
(* copy of a token would live beside the original and its reuse would      *)
(* never be noticed.                                                       *)
(***************************************************************************)
OneHeirPerLogin ==
  \A s, t \in Session :
    session[s].state = "LIVE" /\ session[t].state = "LIVE" /\ session[s].login = session[t].login => s = t
=============================================================================

------------------------------ MODULE MCPeople ------------------------------
(***************************************************************************)
(* People on small sets.                                                   *)
(***************************************************************************)
EXTENDS People, TLC

CONSTANTS r1, r2, q1, d1, d2, m1, m2, s1, s2, b1

MCRequest == {r1, r2}
MCRequirement == {q1}
MCDispute == {d1, d2}
MCPerson == {m1, m2}
MCLinked == {s1, s2}
MCBlock == {b1}
MCBlocker == {m1}

\* Requests are interchangeable: no property names one, none is a liveness
\* property.
Interchangeable == Permutations(MCRequest)

Open == {r \in Request : txn[r] # Idle}

\* A person entered by the company, without a registration, signs in up to
\* MaxSessions times; at most one session expires.
Entered ==
  /\ registration = "NONE" /\ ~announcing /\ ~announced
  /\ Cardinality({s \in Session : session[s].state = "EXPIRED"}) <= 1
  /\ "VERIFY_EMAIL" \notin links
  /\ member.role = "COURIER" /\ member.status # "ARCHIVED"
  /\ \A r \in Request : txn[r].status # "ARCHIVED"

\* A person with a registration signs in once; changes of the password and of
\* the membership come before.
Registered == session[2] = Fresh /\ Open = {}

\* An administrator of the platform has nothing to do with companies.
Platform ==
  \A s \in Session : session[s].kind = "PLATFORM" =>
    AccountsInit /\ \A t \in Session : session[t].kind \in {"PLATFORM", "NONE"}

AccessBounds == session[1] # Fresh => session[1].kind = "PLATFORM" \/ Entered \/ Registered
UnsignedBounds == session[1] = Fresh => Cardinality(Open) <= 1

Bounds == (Platform /\ AccessBounds /\ UnsignedBounds)'
=============================================================================

----------------------------- MODULE Reputation -----------------------------
(***************************************************************************)
(* What companies hold against a courier (modules/reputation): disputes    *)
(* about one accepted offer, and whether he is offered deliveries.         *)
(*                                                                         *)
(* Reviewing, resolving and adding evidence read a dispute without a lock  *)
(* and write it later in the same transaction, so two managers may both    *)
(* act on what they read; the partial unique index and the CHECK of        *)
(* migration 0016 refuse some of the writes.                               *)
(*                                                                         *)
(* The rule of eligibility, blocks and the record of rides, is written     *)
(* twice: as courier_is_marketplace_eligible of migration 0016, which      *)
(* decides, and in listCourierReputation, which explains the decision to   *)
(* whoever asks: the first divides numerics, the second doubles, and a     *)
(* store operator is not told of the blocks on the whole company.          *)
(***************************************************************************)
EXTENDS Naturals, FiniteSets

CONSTANTS Dispute,   \* identities of disputes, bounds how many are opened
          Person,    \* those taking part in them, courier and managers
          Linked,    \* stores with an active link to the courier
          Block,     \* identities of blocks, bounds how many are set
          Blocker,   \* managers
          MaxRides,  \* bounds the rides accepted
          Decimals, Doubles   \* steps from 0 to 1 of a quotient of numerics, and of doubles

\* Only couriers with an active link are listed.  Blocks are not called like the other
\* reasons.  A numeric keeps 16 digits or more and a double 53 bits: enough for any count
\* of rides below 10^14.
ASSUME ReputationAssumption ==
  /\ Linked # {}
  /\ Block \cap {"COMPLETION", "PUNCTUALITY", "NO_ELIGIBLE_STORE"} = {}
  /\ MaxRides \in Nat
  /\ \A steps \in {Decimals, Doubles} : steps \in Nat /\ steps >= 10 * MaxRides

VARIABLES dispute, deciding,         \* disputes, and what is being decided on what was read
          block, blocking, record    \* blocks, the one a manager is setting, the rides

disputeVars == <<dispute, deciding>>
eligibilityVars == <<block, blocking, record>>

(***************************************************************************)
(* Disputes.                                                               *)
(***************************************************************************)
Outcome == {"STORE_FAVORED", "COURIER_FAVORED"}
NoOutcome == "NONE"
Unopened == [status |-> "NONE", outcome |-> NoOutcome, due |-> FALSE, evidence |-> FALSE]

DisputesTypeOK ==
  /\ dispute \in [Dispute -> [status : {"NONE", "OPEN", "UNDER_REVIEW", "RESOLVED"},
                              outcome : Outcome \cup {NoOutcome}, due : BOOLEAN, evidence : BOOLEAN]]
  /\ deciding \in [Person -> {<<>>} \cup ({"REVIEW", "RESOLVE", "EVIDENCE"} \X Dispute)]

DisputesInit ==
  /\ dispute = [d \in Dispute |-> Unopened]
  /\ deciding = [p \in Person |-> <<>>]

Pending(d) == dispute[d].status \in {"OPEN", "UNDER_REVIEW"}

\* CHECK ((status = 'RESOLVED') = (outcome IS NOT NULL AND ...))
Checked(row) == row.status = "RESOLVED" <=> row.outcome # NoOutcome

openOfferDispute(d) ==
  /\ dispute[d].status = "NONE"
  /\ \A e \in Dispute : ~Pending(e)
  /\ \E evidence \in BOOLEAN :
       dispute' = [dispute EXCEPT ![d] = [Unopened EXCEPT !.status = "OPEN", !.evidence = evidence]]
  /\ UNCHANGED deciding

responseIsDue(d) ==
  /\ Pending(d)
  /\ ~dispute[d].due
  /\ dispute' = [dispute EXCEPT ![d].due = TRUE]
  /\ UNCHANGED deciding

\* Mutant: a dispute may be resolved again.
PermitsAgain(op, row, manager) ==
  CASE op = "REVIEW"   -> row.status = "OPEN"
    [] op = "RESOLVE"  -> TRUE
    [] op = "EVIDENCE" -> row.status # "RESOLVED" /\ (manager \/ ~row.due)

(***************************************************************************)
(* What each operation asks of the dispute it read.  A manager may add     *)
(* evidence at any time before the end, the others only in time.           *)
(***************************************************************************)
Permits(op, row, manager) ==
  CASE op = "REVIEW"   -> row.status = "OPEN"
    [] op = "RESOLVE"  -> row.status # "RESOLVED"
    [] op = "EVIDENCE" -> row.status # "RESOLVED" /\ (manager \/ ~row.due)

loadDispute(p, op, d) ==
  /\ deciding[p] = <<>>
  /\ dispute[d].status # "NONE"
  /\ \E manager \in IF op = "EVIDENCE" THEN BOOLEAN ELSE {TRUE} : Permits(op, dispute[d], manager)
  /\ deciding' = [deciding EXCEPT ![p] = <<op, d>>]
  /\ UNCHANGED dispute

Written(op, row, outcome) ==
  CASE op = "REVIEW"   -> [row EXCEPT !.status = "UNDER_REVIEW"]
    [] op = "RESOLVE"  -> [row EXCEPT !.status = "RESOLVED", !.outcome = outcome]
    [] op = "EVIDENCE" -> [row EXCEPT !.evidence = TRUE]

writeDispute(p, outcome) ==
  /\ deciding[p] # <<>>
  /\ LET op == deciding[p][1]
         d == deciding[p][2]
         row == Written(op, dispute[d], outcome)
     IN dispute' = IF Checked(row) THEN [dispute EXCEPT ![d] = row] ELSE dispute
  /\ deciding' = [deciding EXCEPT ![p] = <<>>]

DisputesNext ==
  \/ \E d \in Dispute : openOfferDispute(d) \/ responseIsDue(d)
  \/ \E p \in Person, d \in Dispute, op \in {"REVIEW", "RESOLVE", "EVIDENCE"} : loadDispute(p, op, d)
  \/ \E p \in Person, outcome \in Outcome : writeDispute(p, outcome)

(***************************************************************************)
(* Eligibility.                                                            *)
(***************************************************************************)
EveryStore == "ALL"
Scope == Linked \cup {EveryStore}
NoBlock == [scope |-> EveryStore, state |-> "NONE"]

EligibilityTypeOK ==
  /\ block \in [Block -> [scope : Scope, state : {"NONE", "SET", "ENDED"}]]
  /\ blocking \in [Blocker -> {"NONE"} \cup Scope]
  /\ record \in [completed : 0..MaxRides, cancelled : 0..MaxRides,
                 sampled : 0..MaxRides, onTime : 0..MaxRides]

EligibilityInit ==
  /\ block = [b \in Block |-> NoBlock]
  /\ blocking = [m \in Blocker |-> "NONE"]
  /\ record = [completed |-> 0, cancelled |-> 0, sampled |-> 0, onTime |-> 0]

SetIn(scopes) == {b \in Block : block[b].state = "SET" /\ block[b].scope \in scopes}

\* The quotient k / n as it is kept, at the step nearest to it.
Rate(k, n, steps) == (2 * k * steps + n) \div (2 * n)

(***************************************************************************)
(* The deciding rule.                                                      *)
(***************************************************************************)
Accountable == record.completed + record.cancelled
MinimumSample == 5

\* Mutant: a courier exactly at the minimum rate is refused.
ReliableAbove == Accountable < MinimumSample
                 \/ Rate(record.completed, Accountable, Decimals) > Rate(8, 10, Decimals)

Reliable == Accountable < MinimumSample
            \/ Rate(record.completed, Accountable, Decimals) >= Rate(8, 10, Decimals)
Punctual == record.sampled < MinimumSample
            \/ Rate(record.onTime, record.sampled, Decimals) >= Rate(7, 10, Decimals)

courierIsMarketplaceEligible(store) ==
  /\ SetIn({store, EveryStore}) = {}
  /\ Reliable
  /\ Punctual

(***************************************************************************)
(* The explanation, to a viewer of the stores and of the scopes of blocks  *)
(* that his role lets him see.                                             *)
(***************************************************************************)
\* Managers, and the courier himself.
Everything == [stores |-> Linked, scopes |-> Scope]

\* An operator: those of his stores that the courier is linked to.
Operators == {[stores |-> own, scopes |-> own] : own \in (SUBSET Linked) \ {{}}}

eligibleStoreIds(viewer) == {store \in viewer.stores : courierIsMarketplaceEligible(store)}

LowCompletion == Accountable >= 5 /\ Rate(record.completed, Accountable, Doubles) < Rate(8, 10, Doubles)
LowPunctuality == record.sampled >= 5 /\ Rate(record.onTime, record.sampled, Doubles) < Rate(7, 10, Doubles)

RateReasons == {reason \in {"COMPLETION", "PUNCTUALITY"} :
                  IF reason = "COMPLETION" THEN LowCompletion ELSE LowPunctuality}

NoReasonKnown == "NO_ELIGIBLE_STORE"

eligibilityReasons(viewer) ==
  LET found == SetIn(viewer.scopes) \cup RateReasons
  IN IF found = {} /\ eligibleStoreIds(viewer) = {} THEN {NoReasonKnown} ELSE found

(***************************************************************************)
(* Operations.                                                             *)
(***************************************************************************)
\* The look for a block in force on the same scope takes no lock.
checkDuplicate(m, scope) ==
  /\ blocking[m] = "NONE"
  /\ SetIn({scope}) = {}
  /\ blocking' = [blocking EXCEPT ![m] = scope]
  /\ UNCHANGED <<block, record>>

createMarketplaceBlock(m, b) ==
  /\ blocking[m] # "NONE"
  /\ block[b].state = "NONE"
  /\ block' = [block EXCEPT ![b] = [scope |-> blocking[m], state |-> "SET"]]
  /\ blocking' = [blocking EXCEPT ![m] = "NONE"]
  /\ UNCHANGED record

\* Revoked by a manager, or past the time set for it.
revokeMarketplaceBlock(b) ==
  /\ block[b].state = "SET"
  /\ block' = [block EXCEPT ![b].state = "ENDED"]
  /\ UNCHANGED <<blocking, record>>

\* What the offers of the courier come to: completed, within a window for
\* the delivery or without one, or given back by the courier.
rideCompleted ==
  /\ Accountable < MaxRides
  /\ \E sampled \in {0, 1} : \E onTime \in 0..sampled :
       record' = [record EXCEPT !.completed = @ + 1, !.sampled = @ + sampled, !.onTime = @ + onTime]
  /\ UNCHANGED <<block, blocking>>

rideGivenBack ==
  /\ Accountable < MaxRides
  /\ record' = [record EXCEPT !.cancelled = @ + 1]
  /\ UNCHANGED <<block, blocking>>

EligibilityNext ==
  \/ \E m \in Blocker, scope \in Scope : checkDuplicate(m, scope)
  \/ \E m \in Blocker, b \in Block : createMarketplaceBlock(m, b)
  \/ \E b \in Block : revokeMarketplaceBlock(b)
  \/ rideCompleted \/ rideGivenBack

(***************************************************************************)
(* A resolved dispute stays resolved, although the manager who starts its  *)
(* review may have read it before it was.  Its outcome is final once those *)
(* have ended who read it, to resolve it, before it was resolved: nobody   *)
(* joins them, and the outcome changes only as one of them writes and is   *)
(* gone.  A new dispute on the same offer is opened only beside resolved   *)
(* ones.                                                                   *)
(***************************************************************************)
Resolving(d) == {p \in Person : deciding[p] = <<"RESOLVE", d>>}

VerdictStands ==
  [][ \A d \in Dispute :
        /\ dispute[d].status = "RESOLVED" =>
             /\ dispute'[d].status = "RESOLVED"
             /\ Resolving(d)' \subseteq Resolving(d)
             /\ dispute'[d].outcome # dispute[d].outcome => Resolving(d)' # Resolving(d)
        /\ \A e \in Dispute : d # e => ~(Pending(d)' /\ Pending(e)') ]_disputeVars

(***************************************************************************)
(* The explanation fits the decision for whoever asks, at every count of   *)
(* rides: no reason is shown exactly when the courier is offered           *)
(* deliveries in every store the viewer sees; a rate is shown only when he *)
(* is offered none anywhere; and the answer that no store is eligible,     *)
(* without a reason, is given only to an operator, about a block on the    *)
(* whole company.                                                          *)
(***************************************************************************)
EligibilityIsExplained ==
  \A viewer \in Operators \cup {Everything} :
    LET shown == eligibilityReasons(viewer)
    IN /\ shown = {} <=> eligibleStoreIds(viewer) = viewer.stores
       /\ shown \cap RateReasons # {} => eligibleStoreIds(Everything) = {}
       /\ NoReasonKnown \in shown => viewer # Everything /\ SetIn({EveryStore}) # {}
=============================================================================

------------------------------- MODULE People -------------------------------
(***************************************************************************)
(* What a company and the platform keep about one person: account,         *)
(* membership, registration and sessions (Sessions, which extends          *)
(* Accounts), onboarding papers (Papers), disputes and eligibility for     *)
(* offers (Reputation); and what a unit of the company owes (Billing).     *)
(* The last three share no variable with the others.                       *)
(***************************************************************************)
EXTENDS Sessions, Papers, Reputation, Billing

access == <<accountVars, sessionVars>>
vars == <<access, paperVars, disputeVars, eligibilityVars, billingVars>>

TypeOK ==
  /\ AccountsTypeOK
  /\ SessionsTypeOK
  /\ PapersTypeOK
  /\ DisputesTypeOK
  /\ EligibilityTypeOK
  /\ BillingTypeOK

Init == AccountsInit /\ SessionsInit /\ PapersInit /\ DisputesInit /\ EligibilityInit /\ BillingInit

(***************************************************************************)
(* A bound: as nothing is shared, each part moves while the others rest.   *)
(***************************************************************************)
AccessInit == AccountsInit /\ SessionsInit

Next ==
  \/ /\ PapersInit /\ DisputesInit /\ EligibilityInit /\ BillingInit
     /\ \/ AccountsNext /\ UNCHANGED sessionVars
        \/ SessionsNext
     /\ UNCHANGED <<paperVars, disputeVars, eligibilityVars, billingVars>>
  \/ /\ AccessInit /\ DisputesInit /\ EligibilityInit /\ BillingInit
     /\ PapersNext /\ UNCHANGED <<access, disputeVars, eligibilityVars, billingVars>>
  \/ /\ AccessInit /\ PapersInit /\ EligibilityInit /\ BillingInit
     /\ DisputesNext /\ UNCHANGED <<access, paperVars, eligibilityVars, billingVars>>
  \/ /\ AccessInit /\ PapersInit /\ DisputesInit /\ BillingInit
     /\ EligibilityNext /\ UNCHANGED <<access, paperVars, disputeVars, billingVars>>
  \/ /\ AccessInit /\ PapersInit /\ DisputesInit /\ EligibilityInit
     /\ BillingNext /\ UNCHANGED <<access, paperVars, disputeVars, eligibilityVars>>

Spec == Init /\ [][Next]_vars

----------------------------------------------------------------------------
\* Who comes late changes nothing that was decided: neither the review of a paper that has
\* been replaced nor the start of a dispute's review.  A late resolution is the exception:
\* a manager who read the dispute before another resolved it writes over the outcome.
DecisionsStand == OldPapersChangeNothing /\ VerdictStands
=============================================================================

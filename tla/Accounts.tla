------------------------------ MODULE Accounts ------------------------------
(***************************************************************************)
(* One person of the directory: the account and its one-time links         *)
(* (auth/identity.service.ts), the membership in a company                 *)
(* (users/user.routes.ts, couriers/courier.routes.ts), the profile and the *)
(* registration of a courier (couriers/courier-account.routes.ts) and what *)
(* the company is told about the courier's availability                    *)
(* (shifts/courier-availability.service.ts and the trigger of migration    *)
(* 0032).                                                                  *)
(***************************************************************************)
EXTENDS Naturals, FiniteSets

VARIABLES verified,       \* users.email_verified_at is set
          links,          \* kinds of which an unconsumed, valid link exists
          member,         \* the row of tenant_users: role and status
          profile,        \* courier_profiles.status
          registration,   \* courier_service_preferences.registration_status
          availability,   \* courier_service_preferences.availability_status
          located,        \* location_expires_at is in the future
          announced,      \* courier_availability.status is AVAILABLE
          announcing      \* setCourierAvailability has passed its checks

accountVars == <<verified, links, member, profile, registration,
                 availability, located, announced, announcing>>

LinkKind == {"VERIFY_EMAIL", "RESET_PASSWORD"}
MembershipStatus == {"ACTIVE", "BLOCKED", "ARCHIVED"}
Absent == [role |-> "NONE", status |-> "NONE"]

AccountsTypeOK ==
  /\ verified \in BOOLEAN
  /\ links \subseteq LinkKind
  /\ member \in {Absent} \cup [role : {"COURIER", "STORE_OPERATOR"}, status : MembershipStatus]
  /\ profile \in {"NONE", "PENDING", "ACTIVE", "BLOCKED"}
  /\ registration \in {"NONE", "EMAIL_PENDING", "IN_REVIEW", "APPROVED", "REJECTED", "SUSPENDED"}
  /\ availability \in {"OFFLINE", "AVAILABLE", "PAUSED"}
  /\ located \in BOOLEAN
  /\ announced \in BOOLEAN
  /\ announcing \in BOOLEAN

AccountsInit ==
  /\ verified = FALSE
  /\ links = {}
  /\ member = Absent
  /\ profile = "NONE"
  /\ registration = "NONE"
  /\ availability = "OFFLINE"
  /\ located = FALSE
  /\ announced = FALSE
  /\ announcing = FALSE

HasAccount == member # Absent \/ profile # "NONE"

\* has_store_access: a link of a courier is active exactly while the
\* membership is (activateLinks), the access of an operator does not depend
\* on the profile.
Entitled ==
  /\ verified
  /\ member.status = "ACTIVE"
  /\ member.role = "COURIER" => profile = "ACTIVE"

(***************************************************************************)
(* Every write to the preferences ends in sync_global_availability, which  *)
(* withdraws the announcement and renews it only for an approved, located  *)
(* and linked courier.                                                     *)
(***************************************************************************)
\* Mutant: the trigger trusts the availability it is given.
AnnouncesUnreviewed(reg, avail, loc) ==
  avail = "AVAILABLE" /\ loc /\ member = [role |-> "COURIER", status |-> "ACTIVE"]

Announces(reg, avail, loc) ==
  /\ reg = "APPROVED"
  /\ avail = "AVAILABLE"
  /\ loc
  /\ profile = "ACTIVE"
  /\ member = [role |-> "COURIER", status |-> "ACTIVE"]

WritePreferences(reg, avail, loc) ==
  /\ registration' = reg
  /\ availability' = avail
  /\ located' = loc
  /\ announced' = Announces(reg, avail, loc)

PreferencesStay == UNCHANGED <<registration, availability, located, announced>>

\* A row written by the identity module, if there is one.
ReviewBegins ==
  IF registration = "EMAIL_PENDING"
    THEN WritePreferences("IN_REVIEW", availability, located)
    ELSE PreferencesStay

(***************************************************************************)
(* How a person comes into the directory.                                  *)
(***************************************************************************)
register ==
  /\ ~HasAccount
  /\ profile' = "PENDING"
  /\ registration' = "EMAIL_PENDING"
  /\ links' = {"VERIFY_EMAIL"}
  /\ UNCHANGED <<verified, member, availability, located, announced, announcing>>

\* An account made by a company counts as verified (the column's default,
\* migration 0032).
createUser ==
  /\ ~HasAccount
  /\ verified' = TRUE
  /\ member' = [role |-> "STORE_OPERATOR", status |-> "ACTIVE"]
  /\ UNCHANGED <<links, profile, registration, availability, located, announced, announcing>>

createCourier ==
  /\ ~HasAccount
  /\ verified' = TRUE
  /\ member' = [role |-> "COURIER", status |-> "ACTIVE"]
  /\ profile' = "ACTIVE"
  /\ UNCHANGED <<links, registration, availability, located, announced, announcing>>

linkUser ==
  /\ HasAccount
  /\ member = Absent
  /\ member' = [role |-> "STORE_OPERATOR", status |-> "ACTIVE"]
  /\ UNCHANGED <<verified, links, profile, registration, availability, located, announced, announcing>>

linkCourier ==
  /\ profile \notin {"NONE", "BLOCKED"}
  /\ member = Absent
  /\ member' = [role |-> "COURIER", status |-> "ACTIVE"]
  /\ UNCHANGED <<verified, links, profile, registration, availability, located, announced, announcing>>

(***************************************************************************)
(* One-time links.                                                         *)
(***************************************************************************)
createIdentityAction(kind) ==
  /\ HasAccount
  /\ kind = "VERIFY_EMAIL" => ~verified
  /\ links' = links \cup {kind}
  /\ UNCHANGED <<verified, member, profile, registration, availability, located, announced, announcing>>

linkExpires(kind) ==
  /\ kind \in links
  /\ links' = links \ {kind}
  /\ UNCHANGED <<verified, member, profile, registration, availability, located, announced, announcing>>

\* What consuming a link does to the account; a reset also ends the sessions,
\* see Sessions.resetPassword.
consume(kind) ==
  /\ kind \in links
  /\ verified' = TRUE
  /\ links' = links \ {kind}
  /\ ReviewBegins
  /\ UNCHANGED <<member, profile, announcing>>

verifyEmail ==
  consume("VERIFY_EMAIL")

(***************************************************************************)
(* The registration of a courier and its review by the platform.           *)
(***************************************************************************)
savePreferences ==
  /\ profile # "NONE"
  /\ IF registration = "NONE"
       THEN WritePreferences(IF profile = "ACTIVE" THEN "APPROVED" ELSE "IN_REVIEW", "OFFLINE", FALSE)
       ELSE WritePreferences(registration, availability, located)
  /\ UNCHANGED <<verified, links, member, profile, announcing>>

Reviewed(status) == IF status = "APPROVED" THEN "ACTIVE" ELSE "BLOCKED"

review(status) ==
  /\ registration # "NONE"
  /\ verified
  /\ WritePreferences(status, "OFFLINE", FALSE)
  /\ profile' = Reviewed(status)
  /\ UNCHANGED <<verified, links, member, announcing>>

(***************************************************************************)
(* Availability.  The courier's own account locks both rows; the request   *)
(* of the company's application reads them without a lock and writes later.*)
(***************************************************************************)
startAvailability ==
  /\ profile = "ACTIVE"
  /\ registration = "APPROVED"
  /\ WritePreferences(registration, "AVAILABLE", TRUE)
  /\ UNCHANGED <<verified, links, member, profile, announcing>>

endAvailability(status) ==
  /\ registration # "NONE"
  /\ WritePreferences(registration, status, FALSE)
  /\ UNCHANGED <<verified, links, member, profile, announcing>>

checkAvailability ==
  /\ ~announcing
  /\ Entitled
  /\ member.role = "COURIER"
  /\ registration \in {"NONE", "APPROVED"}
  /\ announcing' = TRUE
  /\ UNCHANGED <<verified, links, member, profile, registration, availability, located, announced>>

\* The announcement is written first; the write to the preferences, when the
\* row exists, lets the trigger have the last word.
setCourierAvailability ==
  /\ announcing
  /\ announcing' = FALSE
  /\ IF registration = "NONE"
       THEN announced' = TRUE /\ UNCHANGED <<registration, availability, located>>
       ELSE WritePreferences(registration, "AVAILABLE", TRUE)
  /\ UNCHANGED <<verified, links, member, profile>>

withdrawAvailability ==
  /\ Entitled
  /\ member.role = "COURIER"
  /\ IF registration = "NONE"
       THEN announced' = FALSE /\ UNCHANGED <<registration, availability, located>>
       ELSE WritePreferences(registration, "OFFLINE", FALSE)
  /\ UNCHANGED <<verified, links, member, profile, announcing>>

locationExpires ==
  /\ located
  /\ located' = FALSE
  /\ UNCHANGED <<verified, links, member, profile, registration, availability, announced, announcing>>

AccountsNext ==
  \/ register \/ createUser \/ createCourier \/ linkUser \/ linkCourier
  \/ \E kind \in LinkKind : createIdentityAction(kind) \/ linkExpires(kind)
  \/ verifyEmail
  \/ savePreferences
  \/ \E status \in {"APPROVED", "REJECTED", "SUSPENDED"} : review(status)
  \/ startAvailability
  \/ \E status \in {"PAUSED", "OFFLINE"} : endAvailability(status)
  \/ checkAvailability \/ setCourierAvailability \/ withdrawAvailability
  \/ locationExpires

(***************************************************************************)
(* What the platform decided about a courier, what the profile says and    *)
(* what companies are told agree: once there is a registration, the        *)
(* profile is active exactly when it is approved, and a courier announced  *)
(* as available is active and not under, or refused by, a review.  The     *)
(* review, the link, the courier and the company's application write these *)
(* rows in separate transactions, one of them on what it read before.      *)
(***************************************************************************)
StandingAgrees ==
  /\ registration # "NONE" => (registration = "APPROVED" <=> profile = "ACTIVE")
  /\ announced => profile = "ACTIVE" /\ registration \in {"NONE", "APPROVED"}
=============================================================================

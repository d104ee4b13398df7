------------------------------- MODULE Papers -------------------------------
(***************************************************************************)
(* The onboarding papers of one courier of a company                       *)
(* (onboarding/onboarding.service.ts): the requirements a manager keeps,   *)
(* the documents the courier sends for them, their review and the          *)
(* readiness shown to both.  Documents are numbered in the order sent; for *)
(* each requirement only the newest one counts, while every pending one    *)
(* stays in the review queue.                                              *)
(***************************************************************************)
EXTENDS Naturals, FiniteSets

CONSTANTS Requirement,
          MaxDocuments   \* bounds the documents sent

ASSUME MaxDocumentsAssumption == MaxDocuments \in Nat

VARIABLES requirement, document

paperVars == <<requirement, document>>

Document == 1..MaxDocuments
Unsent == [req |-> "NONE", status |-> "NONE", expired |-> FALSE]
NoRequirement == [active |-> FALSE, required |-> FALSE, requiresReview |-> FALSE]

PapersTypeOK ==
  /\ requirement \in [Requirement -> [active : BOOLEAN, required : BOOLEAN, requiresReview : BOOLEAN]]
  /\ document \in [Document -> {Unsent} \cup
       [req : Requirement, status : {"PENDING", "APPROVED", "REJECTED"}, expired : BOOLEAN]]

PapersInit ==
  /\ requirement = [q \in Requirement |-> NoRequirement]
  /\ document = [d \in Document |-> Unsent]

SentFor(q) == {d \in Document : document[d].req = q}

\* Mutant: any document of the requirement counts, not the newest.
CountsAny(d) == TRUE

Counts(d) == \A e \in SentFor(document[d].req) : e <= d

Fulfilled(q) ==
  \E d \in SentFor(q) : Counts(d) /\ document[d].status = "APPROVED" /\ ~document[d].expired

Active == {q \in Requirement : requirement[q].active}

Readiness ==
  IF Active = {} THEN "NOT_CONFIGURED"
  ELSE IF \A q \in Active : requirement[q].required => Fulfilled(q) THEN "READY"
  ELSE "INCOMPLETE"

ReviewQueue == {d \in Document : document[d].status = "PENDING" /\ ~document[d].expired}

(***************************************************************************)
(* Handlers.                                                               *)
(***************************************************************************)
saveRequirement(q, input) ==
  /\ requirement[q] # input
  /\ requirement' = [requirement EXCEPT ![q] = input]
  /\ UNCHANGED document

uploadMyDocument(d, q) ==
  /\ document[d] = Unsent
  /\ \A e \in 1..(d - 1) : document[e] # Unsent
  /\ requirement[q].active
  /\ document' = [document EXCEPT ![d] =
       [req |-> q, expired |-> FALSE,
        status |-> IF requirement[q].requiresReview THEN "PENDING" ELSE "APPROVED"]]
  /\ UNCHANGED requirement

reviewDocument(d, verdict) ==
  /\ document[d].status = "PENDING"
  /\ ~document[d].expired
  /\ document' = [document EXCEPT ![d].status = verdict]
  /\ UNCHANGED requirement

dateOfExpiryPasses(d) ==
  /\ document[d] # Unsent
  /\ ~document[d].expired
  /\ document' = [document EXCEPT ![d].expired = TRUE]
  /\ UNCHANGED requirement

PapersNext ==
  \/ \E q \in Requirement, active, required, requiresReview \in BOOLEAN :
       saveRequirement(q, [active |-> active, required |-> required, requiresReview |-> requiresReview])
  \/ \E d \in Document, q \in Requirement : uploadMyDocument(d, q)
  \/ \E d \in Document, verdict \in {"APPROVED", "REJECTED"} : reviewDocument(d, verdict)
  \/ \E d \in Document : dateOfExpiryPasses(d)

(***************************************************************************)
(* A decision about papers changes a courier's readiness only if it was    *)
(* about the newest paper of an active requirement: the late review, or    *)
(* the expiry, of a paper that has been replaced neither makes a courier   *)
(* ready nor takes it back.                                                *)
(***************************************************************************)
OldPapersChangeNothing ==
  [][ \A d \in Document :
        /\ document[d] # Unsent
        /\ document'[d] # document[d]
        /\ \E e \in SentFor(document[d].req) : e > d
        => Readiness' = Readiness ]_paperVars
=============================================================================

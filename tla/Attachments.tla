---------------------------- MODULE Attachments ----------------------------
(***************************************************************************)
(* Files that rows of the database name and the object storage keeps: the  *)
(* logo and the gallery of a catalogue (modules/commerce/media.routes.ts), *)
(* proofs and evidence (modules/proofs, modules/incidents), papers of a    *)
(* courier (modules/onboarding) and pictures of a customer                 *)
(* (modules/customers).  An upload puts its object, under a key of its     *)
(* own, inside the transaction that writes its row; the storage, the       *)
(* transaction, its answer or the process may fail at any point.  Whatever *)
(* is uploaded belongs to one store, product, delivery or customer.        *)
(***************************************************************************)
EXTENDS Naturals, FiniteSets

CONSTANTS Upload,      \* requests for an upload
          Picture,     \* what they show, known by its checksum
          GalleryRoom  \* images of a product, 6 in the code

ASSUME AttachmentsAssumption == GalleryRoom \in Nat

VARIABLES upload,   \* upload[u]: what is sent, and how far its handler is
          written,  \* uploads whose row is committed
          current,  \* those whose row names the file that is shown now
          object,   \* uploads whose object is in the storage
          unheard   \* uploads whose handler saw an error after its row was committed

fileVars == <<upload, written, current, object, unheard>>

Kinds == {"LOGO", "IMAGE", "PROOF", "PAPER", "PHOTO"}
NotSent == [kind |-> "NONE", picture |-> "NONE", replaces |-> {}, step |-> "NONE"]

FilesTypeOK ==
  /\ upload \in [Upload -> {NotSent} \cup
                  [kind : Kinds, picture : Picture, replaces : SUBSET Upload,
                   step : {"WRITING", "REPLACING", "FAILED", "ENDED"}]]
  /\ current \subseteq written /\ written \subseteq Upload
  /\ object \subseteq Upload /\ unheard \subseteq Upload

FilesInit ==
  /\ upload = [u \in Upload |-> NotSent]
  /\ written = {} /\ current = {} /\ object = {} /\ unheard = {}

Shown(kind) == {u \in current : upload[u].kind = kind}

\* One row of the parent keeps a single file of these kinds.
Single == {"LOGO", "PHOTO"}

\* The parent's row is locked until the end of the transaction; proofs and papers
\* lock nothing.
Locked == {"LOGO", "IMAGE", "PHOTO"}

Stands(u, step) == upload' = [upload EXCEPT ![u].step = step]

(***************************************************************************)
(* The transaction.                                                        *)
(***************************************************************************)
Send(u, kind, picture, step) ==
  upload' = [upload EXCEPT ![u] = [kind |-> kind, picture |-> picture, step |-> step,
                                   replaces |-> IF kind = "PHOTO" THEN Shown(kind) ELSE {}]]

\* A proof whose picture the delivery has is answered with the row that exists.
Reused(kind, picture) == kind = "PROOF" /\ \E w \in written : upload[w].kind = kind /\ upload[w].picture = picture

\* The object is put, or the storage fails before or after it is there, which only the
\* handler of proofs takes for no object at all.
putObject(u, kind, picture) ==
  /\ upload[u] = NotSent
  /\ kind \in Locked => \A w \in Upload : upload[w].kind = kind => upload[w].step # "WRITING"
  /\ kind = "IMAGE" => Cardinality(Shown("IMAGE")) < GalleryRoom
  /\ IF Reused(kind, picture)
     THEN Send(u, kind, picture, "ENDED") /\ UNCHANGED object
     ELSE \/ Send(u, kind, picture, "WRITING") /\ object' = object \cup {u}
          \/ Send(u, kind, picture, IF kind = "PROOF" THEN "ENDED" ELSE "FAILED")
             /\ object' \in {object, object \cup {u}}
  /\ UNCHANGED <<written, current, unheard>>

Written(u) ==
  /\ upload[u].step = "WRITING" /\ ~Reused(upload[u].kind, upload[u].picture)
  /\ written' = written \cup {u}
  /\ current' = (IF upload[u].kind \in Single THEN current \ Shown(upload[u].kind) ELSE current) \cup {u}
  /\ UNCHANGED object

\* After its COMMIT the customer's handler still removes the previous picture.
commitRow(u) ==
  /\ Written(u)
  /\ Stands(u, IF upload[u].replaces # {} THEN "REPLACING" ELSE "ENDED")
  /\ UNCHANGED unheard

\* The row is committed; the answer is lost.
commitUnheard(u) ==
  /\ Written(u) /\ Stands(u, "FAILED")
  /\ unheard' = unheard \cup {u}

\* A statement, the unique index or the COMMIT fails.
rollBack(u) ==
  /\ upload[u].step = "WRITING" /\ Stands(u, "FAILED")
  /\ UNCHANGED <<written, current, object, unheard>>

removePrevious(u) ==
  /\ upload[u].step = "REPLACING"
  /\ \E removed \in BOOLEAN :
       /\ Stands(u, IF removed THEN "ENDED" ELSE "FAILED")
       /\ object' = IF removed THEN object \ upload[u].replaces ELSE object
       /\ unheard' = IF removed THEN unheard ELSE unheard \cup {u}
  /\ UNCHANGED <<written, current>>

(***************************************************************************)
(* The handler of errors.                                                  *)
(***************************************************************************)
\* Mutant: what failed is removed at once.
GivenUpAtOnce(u) == TRUE

\* The handlers of the catalogue look, in a new transaction, whether the row was
\* committed after all; the others do not.
GivenUp(u) ==
  CASE upload[u].kind = "LOGO"  -> u \notin current
    [] upload[u].kind = "IMAGE" -> u \notin written
    [] OTHER                    -> TRUE

\* Both the look and the removal may fail.
cleanUp(u) ==
  /\ upload[u].step = "FAILED" /\ Stands(u, "ENDED")
  /\ \/ UNCHANGED object
     \/ GivenUp(u) /\ object' = object \ {u}
  /\ UNCHANGED <<written, current, unheard>>

\* The process dies, and with it the transaction that it has open.
processDies(u) ==
  /\ upload[u].step \in {"WRITING", "REPLACING", "FAILED"} /\ Stands(u, "ENDED")
  /\ UNCHANGED <<written, current, object, unheard>>

(***************************************************************************)
(* The manager removes files; their objects stay.                          *)
(***************************************************************************)
removeLogo ==
  /\ Shown("LOGO") # {} /\ \A u \in Upload : upload[u].kind = "LOGO" => upload[u].step # "WRITING"
  /\ current' = current \ Shown("LOGO")
  /\ UNCHANGED <<upload, written, object, unheard>>

organizeImages(kept) ==
  /\ kept \subseteq Shown("IMAGE") /\ kept # Shown("IMAGE")
  /\ \A u \in Upload : upload[u].kind = "IMAGE" => upload[u].step # "WRITING"
  /\ current' = (current \ Shown("IMAGE")) \cup kept
  /\ UNCHANGED <<upload, written, object, unheard>>

FilesNext ==
  \/ \E u \in Upload :
       \/ \E kind \in Kinds, picture \in Picture : putObject(u, kind, picture)
       \/ commitRow(u) \/ commitUnheard(u) \/ rollBack(u) \/ removePrevious(u)
       \/ cleanUp(u) \/ processDies(u)
  \/ removeLogo \/ \E kept \in SUBSET Upload : organizeImages(kept)

(***************************************************************************)
(* Properties.                                                             *)
(***************************************************************************)
\* Whoever may see the row asks the storage for what it names.
Opens(u) == u \in object

\* A file that is shown can be opened: in the catalogue whatever failed ("Never delete
\* an object until a fresh DB read proves it was not committed."), elsewhere unless its
\* handler saw an error after the row was committed.
ShownFilesOpen ==
  \A u \in current : Opens(u) \/ (upload[u].kind \notin {"LOGO", "IMAGE"} /\ u \in unheard)
=============================================================================

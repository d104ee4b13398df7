--------------------------- MODULE CommerceProofs ---------------------------
(***************************************************************************)
(* Files, bank access and sales of a shop, each proved by itself and then  *)
(* of Commerce, which lets one part move while the others rest.            *)
(***************************************************************************)
EXTENDS Commerce, FiniteSetTheorems, TLAPS

FilesSpec == FilesInit /\ [][FilesNext]_fileVars

BankSpec == BankInit /\ [][BankNext]_bankVars

(***************************************************************************)
(* Files.                                                                  *)
(***************************************************************************)
\* What makes the removal of an object harmless.  A row is written once, with its object in
\* place; a picture to be replaced is the one shown as long as the row of the customer is
\* locked, and is shown no more when its object is removed; and where errors are not looked
\* into, a handler that failed over a committed row is remembered.
Careful ==
  /\ \A u \in Upload : upload[u].step = "WRITING" => u \in object /\ u \notin written
  /\ \A u \in Upload : u \in written => upload[u].kind \in Kinds
  /\ \A u \in Upload : upload[u].replaces \subseteq {w \in written : upload[w].kind = "PHOTO"}
  /\ \A u \in Upload : upload[u].step = "WRITING" /\ upload[u].kind = "PHOTO" => upload[u].replaces = Shown("PHOTO")
  /\ \A u \in Upload : upload[u].step = "WRITING" /\ upload[u].replaces # {} => upload[u].kind = "PHOTO"
  /\ \A u \in Upload : upload[u].step = "REPLACING" => upload[u].kind = "PHOTO" /\ upload[u].replaces \cap current = {}
  /\ \A u, w \in Upload :
       /\ upload[u].step = "WRITING" /\ upload[u].kind = "PHOTO"
       /\ upload[w].step = "WRITING" /\ upload[w].kind = "PHOTO"
       => u = w
  /\ \A u \in Upload : upload[u].step = "FAILED" /\ u \in written /\ upload[u].kind \notin {"LOGO", "IMAGE"} => u \in unheard

FilesInv == FilesTypeOK /\ Careful /\ ShownFilesOpen

\* The tables keep their types: the handler of an upload, its errors and the manager.
LEMMA FilesTypes == FilesTypeOK /\ [FilesNext]_fileVars => FilesTypeOK'
<1> SUFFICES ASSUME FilesTypeOK, [FilesNext]_fileVars PROVE FilesTypeOK'
  OBVIOUS
<1> USE DEF FilesTypeOK, Kinds, Shown, Send, Stands, Written
<1>1. ASSUME NEW u \in Upload, NEW kind \in Kinds, NEW picture \in Picture, putObject(u, kind, picture)
      PROVE FilesTypeOK'
  <2>1. \E step \in {"WRITING", "FAILED", "ENDED"} : Send(u, kind, picture, step)
    BY <1>1 DEF putObject
  <2>2. upload' \in [Upload -> {NotSent} \cup
                  [kind : Kinds, picture : Picture, replaces : SUBSET Upload,
                   step : {"WRITING", "REPLACING", "FAILED", "ENDED"}]]
    BY <2>1
  <2>3. object' \subseteq Upload /\ UNCHANGED <<written, current, unheard>>
    BY <1>1 DEF putObject
  <2> QED BY <2>2, <2>3
<1>2. ASSUME NEW u \in Upload, NEW step \in {"REPLACING", "FAILED", "ENDED"}, upload[u].step # "NONE", Stands(u, step)
      PROVE upload' \in [Upload -> {NotSent} \cup
                  [kind : Kinds, picture : Picture, replaces : SUBSET Upload,
                   step : {"WRITING", "REPLACING", "FAILED", "ENDED"}]]
  BY <1>2 DEF NotSent
<1>3. ASSUME NEW u \in Upload, commitRow(u) \/ commitUnheard(u) \/ rollBack(u) \/ removePrevious(u) \/ cleanUp(u) \/ processDies(u)
      PROVE FilesTypeOK'
  <2>1. upload[u].step # "NONE" /\ \E step \in {"REPLACING", "FAILED", "ENDED"} : Stands(u, step)
    BY <1>3 DEF commitRow, commitUnheard, rollBack, removePrevious, cleanUp, processDies
  <2>2. upload' \in [Upload -> {NotSent} \cup
                  [kind : Kinds, picture : Picture, replaces : SUBSET Upload,
                   step : {"WRITING", "REPLACING", "FAILED", "ENDED"}]]
    BY <2>1, <1>2
  <2>3. (current \subseteq written /\ written \subseteq Upload /\ object \subseteq Upload /\ unheard \subseteq Upload)'
    BY <1>3 DEF commitRow, commitUnheard, rollBack, removePrevious, cleanUp, processDies
  <2> QED BY <2>2, <2>3
<1>4. CASE removeLogo \/ \E kept \in SUBSET Upload : organizeImages(kept)
  BY <1>4 DEF removeLogo, organizeImages
<1>5. CASE UNCHANGED fileVars
  BY <1>5 DEF fileVars
<1> QED BY <1>1, <1>3, <1>4, <1>5 DEF FilesNext

\* Upload by upload: the transaction, the handler of errors, and the manager.
LEMMA FilesStep == FilesInv /\ [FilesNext]_fileVars => FilesInv'
<1> SUFFICES ASSUME FilesInv, [FilesNext]_fileVars PROVE Careful' /\ ShownFilesOpen'
  BY FilesTypes DEF FilesInv
<1> USE DEF FilesInv, FilesTypeOK, Careful, ShownFilesOpen, Opens, Shown, Kinds
<1>1. ASSUME NEW u \in Upload, NEW kind \in Kinds, NEW picture \in Picture, putObject(u, kind, picture)
      PROVE Careful' /\ ShownFilesOpen'
  <2>1. /\ upload[u] = NotSent /\ u \notin written
        /\ UNCHANGED <<written, current, unheard>> /\ object \subseteq object'
        /\ kind \in Locked => \A w \in Upload : upload[w].kind = kind => upload[w].step # "WRITING"
    BY <1>1 DEF putObject, NotSent
  <2>2. PICK step \in {"WRITING", "FAILED", "ENDED"} :
          Send(u, kind, picture, step) /\ (step = "WRITING" => u \in object')
    BY <1>1 DEF putObject
  <2>3. \A w \in Upload : w # u => upload'[w] = upload[w]
    BY <2>2 DEF Send
  <2>4. /\ upload'[u].kind = kind /\ upload'[u].step = step
        /\ upload'[u].replaces = IF kind = "PHOTO" THEN Shown("PHOTO") ELSE {}
    <3> HIDE DEF Careful, ShownFilesOpen, Shown
    <3> QED BY <2>2 DEF Send
  <2>5. {w \in current : upload'[w].kind = "PHOTO"} = Shown("PHOTO")
    BY <2>1, <2>3
  <2> QED BY <2>1, <2>2, <2>3, <2>4, <2>5 DEF Locked, NotSent
<1>2. ASSUME NEW u \in Upload, NEW step \in {"REPLACING", "FAILED", "ENDED"}, Stands(u, step), upload[u].step # "NONE"
      PROVE /\ \A w \in Upload : w # u => upload'[w] = upload[w]
            /\ upload'[u].step = step /\ upload'[u].kind = upload[u].kind
            /\ upload'[u].replaces = upload[u].replaces
            /\ \A w \in Upload : upload'[w].kind = upload[w].kind
  <2> HIDE DEF Careful, ShownFilesOpen, Shown
  <2>1. upload[u] \in [kind : Kinds, picture : Picture, replaces : SUBSET Upload,
                   step : {"WRITING", "REPLACING", "FAILED", "ENDED"}]
    BY <1>2 DEF NotSent
  <2>2. upload' = [upload EXCEPT ![u] = [upload[u] EXCEPT !.step = step]]
    BY <1>2 DEF Stands
  <2>3. upload'[u] = [upload[u] EXCEPT !.step = step]
    BY <2>2
  <2> QED BY <2>1, <2>2, <2>3
\* Its row appears; no other upload of its kind is open.
<1>3. ASSUME NEW u \in Upload, Written(u), NEW step \in {"REPLACING", "FAILED", "ENDED"}, Stands(u, step),
             step = "REPLACING" => upload[u].replaces # {},
             unheard \subseteq unheard', step = "FAILED" => u \in unheard'
      PROVE Careful' /\ ShownFilesOpen'
  <2>1. /\ upload[u].step = "WRITING" /\ upload[u].kind \in Kinds
        /\ written' = written \cup {u} /\ object' = object
        /\ current' = (IF upload[u].kind \in Single THEN current \ Shown(upload[u].kind) ELSE current) \cup {u}
    BY <1>3 DEF Written, NotSent
  <2>2. /\ \A w \in Upload : w # u => upload'[w] = upload[w]
        /\ upload'[u].step = step /\ upload'[u].kind = upload[u].kind
        /\ upload'[u].replaces = upload[u].replaces
        /\ \A w \in Upload : upload'[w].kind = upload[w].kind
    BY <2>1, <1>2, <1>3
  <2>3. upload[u].kind # "PHOTO" => {w \in current' : upload'[w].kind = "PHOTO"} = Shown("PHOTO")
    BY <2>1, <2>2 DEF Single
  <2>4. upload[u].kind = "PHOTO" => \A w \in Upload : w # u /\ upload[w].step = "WRITING" => upload[w].kind # "PHOTO"
    BY <2>1
  <2>5. upload[u].replaces \cap current' = {}
    BY <2>1 DEF Single
  <2>6. ShownFilesOpen'
    BY <1>3, <2>1, <2>2
  <2> QED BY <1>3, <2>1, <2>2, <2>3, <2>4, <2>5, <2>6
<1>4. ASSUME NEW u \in Upload, commitRow(u) \/ commitUnheard(u) PROVE Careful' /\ ShownFilesOpen'
  <2>1. CASE commitRow(u)
    BY <2>1, <1>3 DEF commitRow
  <2>2. CASE commitUnheard(u)
    BY <2>2, <1>3 DEF commitUnheard
  <2> QED BY <1>4, <2>1, <2>2
\* Nothing is written, and an object goes only if no row that is shown needs it.
<1>5. ASSUME NEW u \in Upload, NEW step \in {"FAILED", "ENDED"}, Stands(u, step),
             upload[u].step \in {"WRITING", "REPLACING", "FAILED"},
             UNCHANGED <<written, current>>, unheard \subseteq unheard',
             step = "FAILED" /\ u \in written => u \in unheard',
             \A w \in object \ object' :
               /\ w # u => w \in written /\ w \notin current
               /\ w = u => w \notin current \/ (upload[w].kind \notin {"LOGO", "IMAGE"} /\ w \in unheard)
             , u \notin object' => upload[u].step # "WRITING"
      PROVE Careful' /\ ShownFilesOpen'
  <2>1. /\ \A w \in Upload : w # u => upload'[w] = upload[w]
        /\ upload'[u].step = step /\ upload'[u].kind = upload[u].kind
        /\ upload'[u].replaces = upload[u].replaces
        /\ \A w \in Upload : upload'[w].kind = upload[w].kind
    BY <1>2, <1>5
  <2>2. {w \in current' : upload'[w].kind = "PHOTO"} = Shown("PHOTO")
    BY <1>5, <2>1
  <2> QED BY <1>5, <2>1, <2>2
<1>6. ASSUME NEW u \in Upload, rollBack(u) \/ processDies(u) PROVE Careful' /\ ShownFilesOpen'
  BY <1>5, <1>6 DEF rollBack, processDies
<1>7. ASSUME NEW u \in Upload, removePrevious(u) PROVE Careful' /\ ShownFilesOpen'
  BY <1>5, <1>7 DEF removePrevious
<1>8. ASSUME NEW u \in Upload, cleanUp(u) PROVE Careful' /\ ShownFilesOpen'
  BY <1>5, <1>8 DEF cleanUp, GivenUp
<1>9. CASE removeLogo \/ \E kept \in SUBSET Upload : organizeImages(kept)
  <2>1. /\ UNCHANGED <<upload, written, object, unheard>> /\ current' \subseteq current
        /\ \A w \in current \ current' : upload[w].kind # "PHOTO"
    BY <1>9 DEF removeLogo, organizeImages
  <2>2. {w \in current' : upload'[w].kind = "PHOTO"} = Shown("PHOTO")
    BY <2>1
  <2> QED BY <2>1, <2>2
<1>10. CASE UNCHANGED fileVars
  BY <1>10 DEF fileVars
<1> QED BY <1>1, <1>4, <1>6, <1>7, <1>8, <1>9, <1>10 DEF FilesNext

LEMMA FilesKept == FilesSpec => []FilesInv
<1>1. FilesInit => FilesInv
  BY DEF FilesInit, FilesInv, FilesTypeOK, Careful, ShownFilesOpen, NotSent, Shown
<1> QED BY <1>1, FilesStep, PTL DEF FilesSpec

\* The files by themselves: what is shown can be opened.
LEMMA FilesOpen == FilesSpec => []ShownFilesOpen
<1>1. FilesInv => ShownFilesOpen
  BY DEF FilesInv
<1> QED BY <1>1, FilesKept, PTL

\* Safety of files, of the whole of commerce: a file that is shown can be opened, in the
\* catalogue whatever failed (the handler of errors looks whether the row was committed before it
\* removes the object), for any number of uploads at once.
THEOREM CommerceFilesOpen == Spec => []ShownFilesOpen
<1>1. Init => FilesInit
  BY DEF Init
<1>2. [Next]_vars => [FilesNext]_fileVars
  BY DEF Next, vars
<1> QED BY <1>1, <1>2, FilesOpen, PTL DEF Spec, FilesSpec

(***************************************************************************)
(* Bank access.                                                            *)
(***************************************************************************)
\* The attempt of the session is the last that began, and none got further than it unless it
\* began before; the connection is of no later binding than the present one.
NewestFirst ==
  /\ \A t \in Attempt : attempt[t].step \in {"NONE", "READ"} => attempt[t].turn = 0
  /\ \A t \in Attempt : attempt[t].turn <= Cardinality(Begun)
  /\ \A t \in Attempt : session.attempt = {t} => attempt[t].turn = Cardinality(Begun)
  /\ connection.turn <= Cardinality(Begun)
  /\ connection.version <= binding.version

\* A connection in the hands of a worker, and a charge that may be paid, keep the binding as it is.
BoundAsCharged ==
  /\ binding.application # {} => \E a \in Application : binding.application = {a}
  /\ \A p \in Payment : payment[p].status \in {"NONE", "CREATED"} => payment[p].version = 0 /\ payment[p].recent
  /\ \A p \in Payment : holds[p] # 0 =>
       /\ holds[p] = binding.version /\ companyServiceConfigured
       /\ payment[p].status \in {"CREATED", "EXPIRED"} /\ payment[p].version = 0 /\ payment[p].recent
  /\ \A p \in Payment : Chargeable(p) => payment[p].version = binding.version /\ companyServiceConfigured

BankInv == BankTypeOK /\ NewestFirst /\ ConnectionIsTheNewest /\ BoundAsCharged

\* What an authorisation does leaves payments alone, and the other way round.
Authorises(t) == createState(t) \/ begin(t) \/ consume(t) \/ exchangeCode(t) \/ save(t)
Pays(p) == approved(p) \/ readConnection(p) \/ requestWith(p) \/ paymentEnds(p) \/ settle(p)

\* One more has begun: the count of those begun grows by one and stays within all attempts.
LEMMA OneMoreBegun ==
  ASSUME BankTypeOK, NEW t \in Attempt, attempt[t].turn = 0
  PROVE  /\ IsFiniteSet(Begun) /\ Cardinality(Begun) \in Nat
         /\ Cardinality(Begun \cup {t}) = Cardinality(Begun) + 1
         /\ 1 + Cardinality(Begun) <= Cardinality(Attempt)
<1>1. IsFiniteSet(Begun) /\ IsFiniteSet(Attempt) /\ Begun \subseteq Attempt /\ t \notin Begun
  BY FS_Subset, BankAccessAssumption DEF Begun
<1>2. Cardinality(Begun) \in Nat /\ Cardinality(Begun \cup {t}) = Cardinality(Begun) + 1
  BY <1>1, FS_AddElement, FS_CardinalityType
<1>3. Cardinality(Begun \cup {t}) <= Cardinality(Attempt)
  BY <1>1, FS_Subset
<1> QED BY <1>1, <1>2, <1>3

\* What begin writes.
LEMMA BeginWrites ==
  ASSUME BankTypeOK, NewestFirst, NEW t \in Attempt, begin(t)
  PROVE  /\ attempt[t].turn = 0 /\ Cardinality(Begun) \in Nat
         /\ attempt' = [attempt EXCEPT ![t].step = "SENT", ![t].turn = 1 + Cardinality(Begun)]
         /\ attempt'[t].step = "SENT" /\ attempt'[t].turn = 1 + Cardinality(Begun)
         /\ 1 + Cardinality(Begun) \in 0..Cardinality(Attempt)
         /\ Cardinality(Begun') = 1 + Cardinality(Begun)
<1>1. attempt[t].step = "READ" /\ attempt[t].turn = 0
  BY DEF begin, NewestFirst
<1>2. attempt' = [attempt EXCEPT ![t].step = "SENT", ![t].turn = 1 + Cardinality(Begun)]
  BY DEF begin
<1>3. attempt'[t].step = "SENT" /\ attempt'[t].turn = 1 + Cardinality(Begun)
  BY <1>2 DEF BankTypeOK
<1>4. /\ Cardinality(Begun) \in Nat /\ Cardinality(Begun \cup {t}) = Cardinality(Begun) + 1
      /\ 1 + Cardinality(Begun) <= Cardinality(Attempt)
  BY <1>1, OneMoreBegun
<1>5. Begun' = Begun \cup {t}
  <2>1. \A u \in Attempt : u # t => attempt'[u] = attempt[u]
    BY <1>2 DEF BankTypeOK
  <2>2. attempt'[t].turn > 0
    BY <1>3, <1>4
  <2> QED BY <2>1, <2>2 DEF Begun
<1>6. 1 + Cardinality(Begun) \in 0..Cardinality(Attempt)
  BY <1>4, FS_CardinalityType, BankAccessAssumption
<1> QED BY <1>1, <1>2, <1>3, <1>4, <1>5, <1>6

\* The tables of the bank access keep their types; a save writes the count of its attempt.
LEMMA BankTypes == BankTypeOK /\ NewestFirst /\ [BankNext]_bankVars => BankTypeOK'
<1> SUFFICES ASSUME BankTypeOK, NewestFirst, [BankNext]_bankVars PROVE BankTypeOK'
  OBVIOUS
<1> USE BankAccessAssumption DEF BankTypeOK
<1>0. Cardinality(Attempt) \in Nat
  BY FS_CardinalityType
<1>1. ASSUME NEW a \in Application, NEW enabled \in BOOLEAN, bindCompany(a, enabled) PROVE BankTypeOK'
  BY <1>1 DEF bindCompany
<1>2. ASSUME NEW t \in Attempt, createState(t) PROVE BankTypeOK'
  BY <1>0, <1>2 DEF createState
<1>3. ASSUME NEW t \in Attempt, begin(t) PROVE BankTypeOK'
  <2>1. session' \in [attempt : SUBSET Attempt, consumed : BOOLEAN, valid : BOOLEAN]
        /\ UNCHANGED <<binding, connection, payment, holds>>
    BY <1>3 DEF begin
  <2>3. /\ attempt' = [attempt EXCEPT ![t].step = "SENT", ![t].turn = 1 + Cardinality(Begun)]
        /\ 1 + Cardinality(Begun) \in 0..Cardinality(Attempt)
    BY <1>3, BeginWrites
  <2>4. attempt' \in [Attempt -> [step : {"NONE", "READ", "SENT", "CONSUMED", "GRANTED", "SAVED", "ENDED"},
                                  saw : [version : 0..MaxVersion, application : SUBSET Application, enabled : BOOLEAN],
                                  turn : 0..Cardinality(Attempt)]]
    <3> DEFINE turns == 0..Cardinality(Attempt)
               n == 1 + Cardinality(Begun)
    <3>1. n \in turns /\ attempt' = [attempt EXCEPT ![t].step = "SENT", ![t].turn = n]
      BY <2>3
    <3>2. attempt \in [Attempt -> [step : {"NONE", "READ", "SENT", "CONSUMED", "GRANTED", "SAVED", "ENDED"},
                                  saw : [version : 0..MaxVersion, application : SUBSET Application, enabled : BOOLEAN],
                                  turn : turns]]
      OBVIOUS
    <3> HIDE DEF turns, n, BankTypeOK
    <3> QED BY <3>1, <3>2 DEF turns
  <2> QED BY <2>1, <2>4
<1>4. ASSUME NEW t \in Attempt, consume(t) \/ exchangeCode(t) PROVE BankTypeOK'
  <2>1. \E step \in {"CONSUMED", "GRANTED", "ENDED"} : attempt' = [attempt EXCEPT ![t].step = step]
    BY <1>4 DEF consume, exchangeCode, Goes
  <2>2. /\ session' \in [attempt : SUBSET Attempt, consumed : BOOLEAN, valid : BOOLEAN]
        /\ UNCHANGED <<binding, connection, payment, holds>>
    BY <1>4 DEF consume, exchangeCode
  <2> QED BY <2>1, <2>2
<1>5. ASSUME NEW t \in Attempt, save(t) PROVE BankTypeOK'
  BY <1>0, <1>5 DEF save, Goes
<1>6. CASE sessionExpires \/ UNCHANGED bankVars
  BY <1>6 DEF sessionExpires, bankVars
<1>7. ASSUME NEW p \in Payment, Pays(p) PROVE BankTypeOK'
  <2>1. UNCHANGED <<binding, attempt, session, connection>>
    BY <1>7 DEF Pays, approved, readConnection, requestWith, paymentEnds, settle
  <2>2. holds' \in [Payment -> 0..MaxVersion]
    BY <1>7 DEF Pays, approved, readConnection, requestWith, paymentEnds, settle
  <2>3. payment' \in [Payment -> [status : {"NONE", "CREATED", "REQUESTED", "EXPIRED", "PAID", "REFUND"},
                                  version : 0..MaxVersion, recent : BOOLEAN]]
    <3>1. CASE approved(p)
      BY <3>1 DEF approved
    <3>2. CASE readConnection(p)
      BY <3>2 DEF readConnection
    <3>3. CASE requestWith(p)
      BY <3>3 DEF requestWith
    <3>4. CASE paymentEnds(p)
      <4>1. CASE payment' = [payment EXCEPT ![p].status = "EXPIRED"]
        BY <4>1
      <4>2. CASE payment' = [payment EXCEPT ![p].recent = FALSE]
        BY <4>2
      <4> QED BY <3>4, <4>1, <4>2 DEF paymentEnds
    <3>5. CASE settle(p)
      <4>1. PICK as \in {"PAID", "REFUND"} : payment' = [payment EXCEPT ![p].status = as]
        BY <3>5 DEF settle
      <4> QED BY <4>1
    <3> QED BY <1>7, <3>1, <3>2, <3>3, <3>4, <3>5 DEF Pays
  <2> QED BY <2>1, <2>2, <2>3
<1> QED BY <1>1, <1>2, <1>3, <1>4, <1>5, <1>6, <1>7 DEF BankNext, Pays

\* The order of the authorisations.
LEMMA NewestStep == BankInv /\ [BankNext]_bankVars => NewestFirst' /\ ConnectionIsTheNewest'
<1> SUFFICES ASSUME BankInv, [BankNext]_bankVars PROVE NewestFirst' /\ ConnectionIsTheNewest'
  OBVIOUS
<1> USE BankAccessAssumption DEF BankInv, BankTypeOK
<1>0. Cardinality(Attempt) \in Nat
  BY FS_CardinalityType
<1>1. ASSUME NEW a \in Application, NEW enabled \in BOOLEAN, bindCompany(a, enabled)
      PROVE NewestFirst' /\ ConnectionIsTheNewest'
  BY <1>1 DEF bindCompany, NewestFirst, ConnectionIsTheNewest, Begun
\* Steps after which the same attempts have begun, with the same turns.
<1>2. ASSUME NEW t \in Attempt, NEW step \in {"READ", "CONSUMED", "GRANTED", "SAVED", "ENDED"},
             \A u \in Attempt : attempt'[u].turn = attempt[u].turn /\ (u # t => attempt'[u].step = attempt[u].step),
             attempt'[t].step = step, step = "READ" => attempt[t].turn = 0,
             step = "SAVED" => connection'.turn >= attempt[t].turn,
             session'.attempt = session.attempt, binding' = binding,
             connection'.turn >= connection.turn, connection'.turn <= Cardinality(Begun),
             connection' = connection \/ connection' = [version |-> binding.version, application |-> binding.application, turn |-> attempt[t].turn]
      PROVE NewestFirst' /\ ConnectionIsTheNewest'
  <2>1. Begun' = Begun
    BY <1>2 DEF Begun
  <2>2. connection'.turn \in 0..Cardinality(Attempt) /\ connection.turn \in 0..Cardinality(Attempt)
        /\ \A u \in Attempt : attempt[u].turn \in 0..Cardinality(Attempt)
    BY <1>2
  <2>3. NewestFirst'
    BY <1>2, <2>1 DEF NewestFirst
  <2>4. ConnectionIsTheNewest'
    BY <1>0, <1>2, <2>2 DEF ConnectionIsTheNewest
  <2> QED BY <2>3, <2>4
<1>3. ASSUME NEW t \in Attempt, createState(t) PROVE NewestFirst' /\ ConnectionIsTheNewest'
  <2>1. attempt[t].turn = 0 /\ attempt'[t].turn = 0 /\ attempt'[t].step = "READ"
        /\ \A u \in Attempt : u # t => attempt'[u] = attempt[u]
    BY <1>3 DEF createState, NewestFirst
  <2>2. UNCHANGED <<binding, session, connection>>
    BY <1>3 DEF createState
  <2>3. connection.turn \in 0..Cardinality(Attempt) /\ connection.turn <= Cardinality(Begun)
    BY DEF NewestFirst
  <2> QED BY <1>0, <1>2, <2>1, <2>2, <2>3
<1>4. ASSUME NEW t \in Attempt, begin(t) PROVE NewestFirst' /\ ConnectionIsTheNewest'
  <2>1. /\ attempt[t].turn = 0 /\ Cardinality(Begun) \in Nat /\ Cardinality(Begun') = 1 + Cardinality(Begun)
        /\ attempt'[t].step = "SENT" /\ attempt'[t].turn = 1 + Cardinality(Begun)
    BY <1>4, BeginWrites
  <2>2. \A u \in Attempt : u # t => attempt'[u] = attempt[u]
    BY <1>4 DEF begin
  <2>3. session'.attempt = {t} /\ UNCHANGED <<binding, connection>>
    BY <1>4 DEF begin
  <2>4. connection.turn \in 0..Cardinality(Attempt) /\ \A u \in Attempt : attempt[u].turn \in 0..Cardinality(Attempt)
    OBVIOUS
  <2>5. NewestFirst'
    <3>1. \A u \in Attempt : attempt[u].turn <= Cardinality(Begun)
      BY DEF NewestFirst
    <3>2. \A u \in Attempt : attempt'[u].turn <= Cardinality(Begun')
      BY <1>0, <2>1, <2>2, <2>4, <3>1
    <3>3. \A u \in Attempt : session'.attempt = {u} => u = t
      BY <2>3
    <3>4. connection'.turn <= Cardinality(Begun') /\ connection'.version <= binding'.version
      BY <2>1, <2>3, <2>4 DEF NewestFirst
    <3>5. \A u \in Attempt : attempt'[u].step \in {"NONE", "READ"} => attempt'[u].turn = 0
      BY <2>1, <2>2 DEF NewestFirst
    <3> QED BY <2>1, <2>2, <3>2, <3>3, <3>4, <3>5 DEF NewestFirst
  <2> QED BY <2>1, <2>2, <2>3, <2>5 DEF ConnectionIsTheNewest
<1>5. ASSUME NEW t \in Attempt, NEW step \in {"CONSUMED", "GRANTED", "ENDED"},
             attempt' = [attempt EXCEPT ![t].step = step], session'.attempt = session.attempt,
             UNCHANGED <<binding, connection>>
      PROVE NewestFirst' /\ ConnectionIsTheNewest'
  <2>1. /\ attempt'[t].turn = attempt[t].turn /\ attempt'[t].step = step
        /\ \A u \in Attempt : u # t => attempt'[u] = attempt[u]
    BY <1>5
  <2>2. connection.turn \in 0..Cardinality(Attempt) /\ connection.turn <= Cardinality(Begun)
    BY DEF NewestFirst
  <2> QED BY <1>0, <1>2, <1>5, <2>1, <2>2
<1>6. ASSUME NEW t \in Attempt, consume(t) \/ exchangeCode(t) PROVE NewestFirst' /\ ConnectionIsTheNewest'
  <2>1. \E step \in {"CONSUMED", "GRANTED", "ENDED"} : attempt' = [attempt EXCEPT ![t].step = step]
    BY <1>6 DEF consume, exchangeCode, Goes
  <2>2. session'.attempt = session.attempt /\ UNCHANGED <<binding, connection>>
    BY <1>6 DEF consume, exchangeCode
  <2> QED BY <1>5, <2>1, <2>2
<1>7. ASSUME NEW t \in Attempt, save(t) PROVE NewestFirst' /\ ConnectionIsTheNewest'
  <2>1. /\ attempt'[t].turn = attempt[t].turn /\ attempt'[t].step = "SAVED"
        /\ \A u \in Attempt : u # t => attempt'[u] = attempt[u]
    BY <1>7 DEF save, Goes
  <2>2. attempt[t].turn = Cardinality(Begun) /\ connection.turn <= Cardinality(Begun)
    BY <1>7 DEF save, StillNewest, NewestFirst
  <2>3. /\ session' = session /\ binding' = binding
        /\ connection' = [version |-> binding.version, application |-> binding.application, turn |-> attempt[t].turn]
    BY <1>7 DEF save
  <2>4. connection.turn \in 0..Cardinality(Attempt) /\ attempt[t].turn \in 0..Cardinality(Attempt)
    OBVIOUS
  <2> QED BY <1>0, <1>2, <2>1, <2>2, <2>3, <2>4
<1>8. CASE UNCHANGED <<binding, attempt, connection>> /\ session'.attempt = session.attempt
  BY <1>8 DEF NewestFirst, ConnectionIsTheNewest, Begun
<1>9. ASSUME NEW p \in Payment, Pays(p) PROVE UNCHANGED <<binding, attempt, session, connection>>
  BY <1>9 DEF Pays, approved, readConnection, requestWith, paymentEnds, settle
<1>10. sessionExpires \/ UNCHANGED bankVars => UNCHANGED <<binding, attempt, connection>> /\ session'.attempt = session.attempt
  BY DEF sessionExpires, bankVars
<1> QED BY <1>1, <1>3, <1>4, <1>6, <1>7, <1>8, <1>9, <1>10 DEF BankNext, Pays

\* The binding moves only when no payment is pending; what is pending was begun under it.
LEMMA BoundStep == BankInv /\ [BankNext]_bankVars => BoundAsCharged'
<1> SUFFICES ASSUME BankInv, [BankNext]_bankVars PROVE BoundAsCharged'
  OBVIOUS
<1> USE DEF BankInv, BankTypeOK, BoundAsCharged, companyServiceConfigured
<1>1. ASSUME NEW a \in Application, NEW enabled \in BOOLEAN, bindCompany(a, enabled) PROVE BoundAsCharged'
  <2>1. binding'.application = {a} /\ UNCHANGED <<payment, holds>> /\ \A p \in Payment : ~Pending(p)
    BY <1>1 DEF bindCompany
  <2>2. \A p \in Payment : holds[p] = 0 /\ ~Chargeable(p)
    BY <2>1 DEF Pending, Chargeable
  <2> QED BY <2>1, <2>2 DEF Pending, Chargeable
<1>2. CASE UNCHANGED <<binding, payment, holds>>
  BY <1>2 DEF Pending, Chargeable
\* A step of one payment, judged by what it leaves of it.
<1>9. ASSUME NEW p \in Payment, binding' = binding,
             \A q \in Payment : q # p => payment'[q] = payment[q] /\ holds'[q] = holds[q],
             payment'[p].status \in {"NONE", "CREATED"} => payment'[p].version = 0 /\ payment'[p].recent,
             holds'[p] # 0 => /\ holds'[p] = binding.version /\ companyServiceConfigured
                              /\ payment'[p].status \in {"CREATED", "EXPIRED"}
                              /\ payment'[p].version = 0 /\ payment'[p].recent,
             Chargeable(p)' => payment'[p].version = binding.version /\ companyServiceConfigured
      PROVE BoundAsCharged'
  <2>1. \A q \in Payment : q # p => (Chargeable(q) <=> Chargeable(q)')
    BY <1>9 DEF Chargeable
  <2> QED BY <1>9, <2>1
<1>3. ASSUME NEW p \in Payment, approved(p) PROVE BoundAsCharged'
  <2>1. binding' = binding /\ holds' = holds /\ payment[p].status = "NONE"
        /\ payment'[p].status = "CREATED" /\ payment'[p].version = payment[p].version
        /\ payment'[p].recent = payment[p].recent /\ \A q \in Payment : q # p => payment'[q] = payment[q]
    BY <1>3 DEF approved
  <2>2. holds[p] = 0
    BY <2>1
  <2> QED BY <1>9, <2>1, <2>2 DEF Chargeable
<1>4. ASSUME NEW p \in Payment, readConnection(p) PROVE BoundAsCharged'
  <2>1. binding' = binding /\ payment' = payment /\ payment[p].status = "CREATED" /\ companyServiceConfigured
        /\ holds'[p] = binding.version /\ \A q \in Payment : q # p => holds'[q] = holds[q]
    BY <1>4 DEF readConnection, pixConnection
  <2> QED BY <1>9, <2>1 DEF Chargeable
<1>5. ASSUME NEW p \in Payment, requestWith(p) PROVE BoundAsCharged'
  <2>1. binding' = binding /\ holds'[p] = 0 /\ holds[p] = binding.version /\ companyServiceConfigured
        /\ \A q \in Payment : q # p => holds'[q] = holds[q] /\ payment'[q] = payment[q]
    BY <1>5 DEF requestWith
  <2>2. \/ payment'[p] = payment[p]
        \/ payment'[p].status = "REQUESTED" /\ payment'[p].version = binding.version
    BY <1>5, <2>1 DEF requestWith
  <2> QED BY <1>9, <2>1, <2>2 DEF Chargeable
<1>6. ASSUME NEW p \in Payment, paymentEnds(p) PROVE BoundAsCharged'
  <2>1. binding' = binding /\ holds' = holds /\ \A q \in Payment : q # p => payment'[q] = payment[q]
    BY <1>6 DEF paymentEnds
  <2>2. /\ payment'[p].version = payment[p].version /\ payment'[p].status = "EXPIRED"
        /\ \/ payment[p].status \in {"CREATED", "REQUESTED"} /\ payment'[p].recent = payment[p].recent
           \/ payment[p].status = "EXPIRED" /\ holds[p] = 0 /\ payment'[p].recent = FALSE
    BY <1>6 DEF paymentEnds
  <2> QED BY <1>9, <2>1, <2>2 DEF Chargeable
<1>7. ASSUME NEW p \in Payment, settle(p) PROVE BoundAsCharged'
  <2>1. binding' = binding /\ holds' = holds /\ \A q \in Payment : q # p => payment'[q] = payment[q]
    BY <1>7 DEF settle
  <2>2. payment'[p].status \in {"PAID", "REFUND"} /\ payment[p].version # 0
    <3>1. PICK as \in {"PAID", "REFUND"} : payment' = [payment EXCEPT ![p].status = as]
      BY <1>7 DEF settle
    <3> QED BY <1>7, <3>1 DEF settle, Chargeable
  <2> QED BY <1>9, <2>1, <2>2 DEF Chargeable
<1>8. (\E t \in Attempt : Authorises(t)) \/ sessionExpires \/ UNCHANGED bankVars => UNCHANGED <<binding, payment, holds>>
  BY DEF Authorises, createState, begin, consume, exchangeCode, save, sessionExpires, bankVars
<1> QED BY <1>1, <1>2, <1>3, <1>4, <1>5, <1>6, <1>7, <1>8 DEF BankNext, Authorises

LEMMA AccessKept == BankSpec => []BankInv
<1>1. BankInit => BankInv
  <2> SUFFICES ASSUME BankInit PROVE BankInv
    OBVIOUS
  <2> USE DEF BankInit, Unbound, NotTried, NoSession, NoConnection, NoPayment
  <2>1. Cardinality(Attempt) \in Nat
    BY FS_CardinalityType, BankAccessAssumption
  <2>2. BankTypeOK
    BY <2>1, BankAccessAssumption DEF BankTypeOK
  <2>3. Begun = {}
    BY DEF Begun
  <2>6. Cardinality(Begun) = 0
    BY <2>3, FS_EmptySet
  <2>4. NewestFirst /\ ConnectionIsTheNewest
    BY <2>6 DEF NewestFirst, ConnectionIsTheNewest
  <2>5. BoundAsCharged
    BY DEF BoundAsCharged, Chargeable, companyServiceConfigured
  <2> QED BY <2>2, <2>4, <2>5 DEF BankInv
<1>2. BankInv /\ [BankNext]_bankVars => BankInv'
  BY BankTypes, NewestStep, BoundStep DEF BankInv
<1> QED BY <1>1, <1>2, PTL DEF BankSpec

\* The bank access by itself: the newest connection, and charges that keep their account.
LEMMA AccessIsSound == BankSpec => [](ConnectionIsTheNewest /\ ChargesKeepTheirAccount)
<1>1. BankInv => ConnectionIsTheNewest /\ ChargesKeepTheirAccount
  BY DEF BankInv, BoundAsCharged, ChargesKeepTheirAccount, Matches, companyServiceConfigured
<1> QED BY <1>1, AccessKept, PTL

\* Safety of the bank access, of the whole of commerce: the connection is that of the newest
\* authorisation (an older callback does not replace it), and no open charge is left with another
\* account when the platform binds the company anew, for any number of attempts and payments.
THEOREM CommerceAccessIsSound == Spec => [](ConnectionIsTheNewest /\ ChargesKeepTheirAccount)
<1>1. Init => BankInit
  BY DEF Init
<1>2. [Next]_vars => [BankNext]_bankVars
  BY DEF Next, vars
<1> QED BY <1>1, <1>2, AccessIsSound, PTL DEF Spec, BankSpec

(***************************************************************************)
(* Sales: counting the pieces of an order.                                 *)
(***************************************************************************)
\* Pieces, of orders that are given.
PiecesOf(os, S) == UNION {{k} \X (1..os[k].quantity) : k \in {j \in S : os[j].stocked}}

Rows == [Carts -> Order \cup {NoOrder}]
In(os, C) == {k \in Carts : os[k] # NoOrder /\ os[k].status \in C}
Count(os, C) == Cardinality(PiecesOf(os, In(os, C)))

\* What the order o adds to the count of the orders in C.
Share(o, C) == IF o # NoOrder /\ o.status \in C /\ o.stocked THEN o.quantity ELSE 0

LEMMA OrderFields ==
  ASSUME NEW o \in Order
  PROVE  /\ o # NoOrder /\ o.quantity \in Nat \ {0} /\ o.stocked \in BOOLEAN
         /\ o.status \in Holding \cup Released \cup Ended
         /\ o.method \in {"PIX", "CARD_PRESENT"} /\ o.fulfillment \in {"PICKUP", "DELIVERY"} /\ o.approved \in BOOLEAN
BY CommerceConstants, NoOrderIsNoRow DEF Order

LEMMA UpTo ==
  ASSUME NEW n \in Nat
  PROVE  IsFiniteSet(1..n) /\ Cardinality(1..n) = n
<1>1. IsFiniteSet(1..n) /\ Cardinality(1..n) = IF 1 > n THEN 0 ELSE n - 1 + 1
  BY FS_Interval, 1 \in Int, n \in Int
<1> QED
  BY <1>1

LEMMA PiecesIn ==
  ASSUME NEW os \in Rows, NEW S \in SUBSET Carts, \A k \in S : os[k] # NoOrder
  PROVE  /\ IsFiniteSet(PiecesOf(os, S)) /\ Cardinality(PiecesOf(os, S)) \in Nat
         /\ \A u : u \in PiecesOf(os, S) <=> \E k \in S : os[k].stocked /\ \E i \in 1..os[k].quantity : u = <<k, i>>
<1>1. \A k \in S : os[k].quantity \in Nat /\ os[k].stocked \in BOOLEAN
  BY OrderFields DEF Rows
<1> DEFINE Stocked == {j \in S : os[j].stocked}
           Piles == {{k} \X (1..os[k].quantity) : k \in Stocked}
           f == [k \in Stocked |-> {k} \X (1..os[k].quantity)]
<1>2. IsFiniteSet(Stocked)
  BY FS_Subset, CommerceConstants
<1>3. IsFiniteSet(Piles)
  <2>1. f \in Surjection(Stocked, Piles)
    BY DEF Surjection
  <2> QED
    BY <1>2, <2>1, FS_Surjection
<1>4. \A T \in Piles : IsFiniteSet(T)
  <2> SUFFICES ASSUME NEW k \in Stocked PROVE IsFiniteSet({k} \X (1..os[k].quantity))
    OBVIOUS
  <2>1. IsFiniteSet({k}) /\ IsFiniteSet(1..os[k].quantity)
    BY <1>1, FS_Singleton, UpTo
  <2> QED
    BY <2>1, FS_Product
<1>5. IsFiniteSet(PiecesOf(os, S))
  BY <1>3, <1>4, FS_UNION DEF PiecesOf
<1>6. ASSUME NEW u
      PROVE  u \in PiecesOf(os, S) <=> \E k \in S : os[k].stocked /\ \E i \in 1..os[k].quantity : u = <<k, i>>
  BY DEF PiecesOf
<1> QED
  BY <1>5, <1>6, FS_CardinalityType

\* Orders that have nothing to do with each other add up.
LEMMA PiecesSplit ==
  ASSUME NEW os \in Rows, NEW S \in SUBSET Carts, NEW T \in SUBSET Carts, S \cap T = {},
         \A k \in S \cup T : os[k] # NoOrder
  PROVE  Cardinality(PiecesOf(os, S \cup T)) = Cardinality(PiecesOf(os, S)) + Cardinality(PiecesOf(os, T))
<1> DEFINE A == PiecesOf(os, S)
           B == PiecesOf(os, T)
<1>1. /\ IsFiniteSet(A) /\ Cardinality(A) \in Nat
      /\ \A u : u \in A <=> \E k \in S : os[k].stocked /\ \E i \in 1..os[k].quantity : u = <<k, i>>
  BY PiecesIn
<1>2. /\ IsFiniteSet(B) /\ Cardinality(B) \in Nat
      /\ \A u : u \in B <=> \E k \in T : os[k].stocked /\ \E i \in 1..os[k].quantity : u = <<k, i>>
  BY PiecesIn
<1>3. \A u : u \in PiecesOf(os, S \cup T) <=>
             \E k \in S \cup T : os[k].stocked /\ \E i \in 1..os[k].quantity : u = <<k, i>>
  BY PiecesIn
<1> HIDE DEF A, B
<1>4. PiecesOf(os, S \cup T) = A \cup B
  BY <1>1, <1>2, <1>3
<1>5. A \cap B = {}
  <2> SUFFICES ASSUME NEW u \in A, u \in B PROVE FALSE
    OBVIOUS
  <2>1. PICK k \in S : \E i \in 1..os[k].quantity : u = <<k, i>>
    BY <1>1
  <2>2. PICK l \in T : \E i \in 1..os[l].quantity : u = <<l, i>>
    BY <1>2
  <2>3. k = l
    BY <2>1, <2>2
  <2> QED
    BY <2>3
<1>6. Cardinality(A \cup B) = Cardinality(A) + Cardinality(B) - 0
  BY <1>1, <1>2, <1>5, FS_Union, FS_EmptySet
<1>7. Cardinality(A \cup B) = Cardinality(A) + Cardinality(B)
  BY <1>1, <1>2, <1>6
<1> QED
  BY <1>4, <1>7 DEF A, B

\* The pieces of one order.
LEMMA PiecesOne ==
  ASSUME NEW os \in Rows, NEW k \in Carts, os[k] # NoOrder
  PROVE  Cardinality(PiecesOf(os, {k})) = IF os[k].stocked THEN os[k].quantity ELSE 0
<1>1. os[k].quantity \in Nat
  BY OrderFields DEF Rows
<1>2. CASE os[k].stocked
  <2>1. PiecesOf(os, {k}) = {k} \X (1..os[k].quantity)
    BY <1>2 DEF PiecesOf
  <2>2. IsFiniteSet(1..os[k].quantity) /\ Cardinality(1..os[k].quantity) = os[k].quantity
    BY <1>1, UpTo
  <2>3. IsFiniteSet({k}) /\ Cardinality({k}) = 1
    BY FS_Singleton
  <2>4. Cardinality({k} \X (1..os[k].quantity)) = 1 * os[k].quantity
    BY <2>2, <2>3, FS_Product
  <2> QED
    BY <1>1, <1>2, <2>1, <2>4
<1>3. CASE ~os[k].stocked
  <2>1. PiecesOf(os, {k}) = {}
    BY <1>3 DEF PiecesOf
  <2> QED
    BY <1>3, <2>1, FS_EmptySet
<1> QED
  BY <1>2, <1>3

\* A change of other fields, or of other orders, changes no piece.
LEMMA PiecesSame ==
  ASSUME NEW os, NEW os2, NEW S,
         \A k \in S : os2[k].quantity = os[k].quantity /\ os2[k].stocked = os[k].stocked
  PROVE  PiecesOf(os2, S) = PiecesOf(os, S)
BY DEF PiecesOf

\* The count without one order, and what that order adds to it.
LEMMA CountWithout ==
  ASSUME NEW os \in Rows, NEW k \in Carts, NEW C
  PROVE  /\ Cardinality(PiecesOf(os, In(os, C) \ {k})) \in Nat /\ Share(os[k], C) \in Nat
         /\ Count(os, C) = Cardinality(PiecesOf(os, In(os, C) \ {k})) + Share(os[k], C)
<1> DEFINE R == In(os, C) \ {k}
<1>1. R \in SUBSET Carts /\ \A j \in R : os[j] # NoOrder
  BY DEF In
<1>2. Cardinality(PiecesOf(os, R)) \in Nat
  BY <1>1, PiecesIn
<1>3. Share(os[k], C) \in Nat
  BY OrderFields DEF Rows, Share
<1>4. CASE k \in In(os, C)
  <2>1. os[k] # NoOrder /\ In(os, C) = R \cup {k} /\ R \cap {k} = {} /\ {k} \in SUBSET Carts
    BY <1>4 DEF In
  <2> HIDE DEF R
  <2>2. Count(os, C) = Cardinality(PiecesOf(os, R)) + Cardinality(PiecesOf(os, {k}))
    BY <1>1, <2>1, PiecesSplit DEF Count
  <2>3. Cardinality(PiecesOf(os, {k})) = Share(os[k], C)
    BY <1>4, <2>1, PiecesOne DEF Share, In
  <2> QED
    BY <1>2, <1>3, <2>2, <2>3 DEF R
<1>5. CASE k \notin In(os, C)
  <2>1. In(os, C) = R /\ Share(os[k], C) = 0
    BY <1>5 DEF In, Share
  <2> QED
    BY <1>2, <2>1 DEF Count
<1> QED
  BY <1>4, <1>5

\* One order becomes another or appears.
LEMMA CountMoves ==
  ASSUME NEW os \in Rows, NEW k \in Carts, NEW o \in Order \cup {NoOrder}, NEW C
  PROVE  /\ [os EXCEPT ![k] = o] \in Rows
         /\ Count(os, C) \in Nat /\ Share(os[k], C) \in Nat /\ Share(o, C) \in Nat
         /\ Count([os EXCEPT ![k] = o], C) = Count(os, C) - Share(os[k], C) + Share(o, C)
         /\ Count(os, C) >= Share(os[k], C)
<1> DEFINE new == [os EXCEPT ![k] = o]
<1>1. new \in Rows /\ new[k] = o /\ \A j \in Carts \ {k} : new[j] = os[j]
  BY DEF Rows
<1> HIDE DEF new
<1>2. In(new, C) \ {k} = In(os, C) \ {k}
  BY <1>1 DEF In
<1>3. PiecesOf(new, In(new, C) \ {k}) = PiecesOf(os, In(os, C) \ {k})
  <2>1. \A j \in In(os, C) \ {k} : new[j] = os[j]
    BY <1>1 DEF In
  <2>2. PiecesOf(new, In(os, C) \ {k}) = PiecesOf(os, In(os, C) \ {k})
    BY <2>1, PiecesSame
  <2> QED
    BY <1>2, <2>2
<1>4. /\ Cardinality(PiecesOf(os, In(os, C) \ {k})) \in Nat /\ Share(os[k], C) \in Nat
      /\ Count(os, C) = Cardinality(PiecesOf(os, In(os, C) \ {k})) + Share(os[k], C)
  BY CountWithout
<1>5. /\ Share(o, C) \in Nat
      /\ Count(new, C) = Cardinality(PiecesOf(os, In(os, C) \ {k})) + Share(o, C)
  BY <1>1, <1>3, CountWithout
<1> QED
  BY <1>1, <1>4, <1>5 DEF new

(***************************************************************************)
(* Sales: the account of the stock.                                        *)
(***************************************************************************)
Gone == Released \cup {"COMPLETED"}

\* StockIsAccounted, of a balance and orders that are given.
Balanced(b, os) ==
  /\ b = [onHand |-> b.onHand, reserved |-> b.reserved]
  /\ b.reserved = Count(os, Holding)
  /\ b.onHand = adjusted - Count(os, Gone)
  /\ b.reserved <= b.onHand

\* The steps of an order that Moved and Freed are about.
Onward(from, to) ==
  \/ from \in Holding /\ to \in Holding \cup {"CONFIRMED", "CANCELLED"}
  \/ from \in Released /\ to \in {"READY_PICKUP", "COMPLETED", "CANCELLED"}

LEMMA MovesAccounted ==
  ASSUME adjusted \in Int, NEW os \in Rows, NEW b, Balanced(b, os), NEW k \in Carts, os[k] # NoOrder,
         NEW o \in Order, o.quantity = os[k].quantity, o.stocked = os[k].stocked,
         Onward(os[k].status, o.status)
  PROVE  Balanced([onHand |-> b.onHand + Moved(os[k], o.status), reserved |-> b.reserved - Freed(os[k], o.status)],
                   [os EXCEPT ![k] = o])
<1> DEFINE new == [os EXCEPT ![k] = o]
           q == IF o.stocked THEN o.quantity ELSE 0
           s == os[k].status
           m == Moved(os[k], o.status)
           f == Freed(os[k], o.status)
<1>1. os[k] \in Order /\ o # NoOrder /\ q \in Nat
  BY OrderFields DEF Rows
<1>2. /\ Share(os[k], Holding) = (IF s \in Holding THEN q ELSE 0)
      /\ Share(o, Holding) = (IF o.status \in Holding THEN q ELSE 0)
      /\ Share(os[k], Gone) = (IF s \in Gone THEN q ELSE 0)
      /\ Share(o, Gone) = (IF o.status \in Gone THEN q ELSE 0)
  BY <1>1 DEF Share
<1>3. /\ m = (IF o.status = "CONFIRMED" THEN -q ELSE IF o.status = "CANCELLED" /\ s \in Released THEN q ELSE 0)
      /\ f = (IF o.status \in {"CONFIRMED", "CANCELLED"} /\ s \in Holding THEN q ELSE 0)
  BY <1>1 DEF Moved, Freed
<1>4. /\ Count(os, Holding) \in Nat /\ Count(os, Gone) \in Nat
      /\ Count(new, Holding) = Count(os, Holding) - Share(os[k], Holding) + Share(o, Holding)
      /\ Count(new, Gone) = Count(os, Gone) - Share(os[k], Gone) + Share(o, Gone)
  BY CountMoves
<1> HIDE DEF new, q, s, m, f
<1>5. b.onHand \in Int /\ b.reserved \in Int
  BY <1>4 DEF Balanced
<1>6. s \in Holding \cup Released /\ (s \in Holding <=> s \notin Gone)
  BY DEF Onward, Holding, Released, Gone, s
<1>7. CASE s \in Holding /\ o.status \in Holding
  <2>1. o.status \notin Gone \cup {"CONFIRMED", "CANCELLED"} /\ s \notin Gone
    BY <1>7 DEF Gone, Holding, Released
  <2>2. m = 0 /\ f = 0 /\ Count(new, Holding) = Count(os, Holding) /\ Count(new, Gone) = Count(os, Gone)
    BY <1>1, <1>2, <1>3, <1>4, <1>7, <2>1
  <2> QED
    BY <1>4, <1>5, <2>2 DEF Balanced, new, m, f
<1>8. CASE s \in Holding /\ o.status = "CONFIRMED"
  <2>1. o.status \in Gone /\ o.status \notin Holding /\ s \notin Gone
    BY <1>8 DEF Gone, Holding, Released
  <2>2. m = -q /\ f = q /\ Count(new, Holding) = Count(os, Holding) - q /\ Count(new, Gone) = Count(os, Gone) + q
    BY <1>1, <1>2, <1>3, <1>4, <1>8, <2>1
  <2> QED
    BY <1>1, <1>4, <1>5, <2>2 DEF Balanced, new, m, f
<1>9. CASE s \in Holding /\ o.status = "CANCELLED"
  <2>1. o.status \notin Gone \cup Holding /\ s \notin Gone \cup Released
    BY <1>9 DEF Gone, Holding, Released
  <2>2. m = 0 /\ f = q /\ Count(new, Holding) = Count(os, Holding) - q /\ Count(new, Gone) = Count(os, Gone)
    BY <1>1, <1>2, <1>3, <1>4, <1>9, <2>1
  <2> QED
    BY <1>1, <1>4, <1>5, <2>2 DEF Balanced, new, m, f
<1>10. CASE s \in Released /\ o.status \in {"READY_PICKUP", "COMPLETED"}
  <2>1. o.status \in Gone /\ o.status \notin Holding /\ s \in Gone /\ s \notin Holding
        /\ o.status \notin {"CONFIRMED", "CANCELLED"}
    BY <1>10 DEF Gone, Holding, Released
  <2>2. m = 0 /\ f = 0 /\ Count(new, Holding) = Count(os, Holding) /\ Count(new, Gone) = Count(os, Gone)
    BY <1>1, <1>2, <1>3, <1>4, <1>10, <2>1
  <2> QED
    BY <1>4, <1>5, <2>2 DEF Balanced, new, m, f
<1>11. CASE s \in Released /\ o.status = "CANCELLED"
  <2>1. o.status \notin Gone \cup Holding /\ s \in Gone /\ s \notin Holding
    BY <1>11 DEF Gone, Holding, Released
  <2>2. m = q /\ f = 0 /\ Count(new, Holding) = Count(os, Holding) /\ Count(new, Gone) = Count(os, Gone) - q
    BY <1>1, <1>2, <1>3, <1>4, <1>11, <2>1
  <2> QED
    BY <1>1, <1>4, <1>5, <2>2 DEF Balanced, new, m, f
<1> QED
  BY <1>7, <1>8, <1>9, <1>10, <1>11 DEF Onward, s

\* An order that is placed reserves what it is about.
LEMMA PlacedAccounted ==
  ASSUME adjusted \in Int, NEW os \in Rows, NEW b, Balanced(b, os), NEW k \in Carts, os[k] = NoOrder,
         NEW o \in Order, o.status = "RECEIVED", NEW n \in Nat, n = (IF o.stocked THEN o.quantity ELSE 0),
         b.reserved + n <= b.onHand
  PROVE  Balanced([b EXCEPT !.reserved = @ + n], [os EXCEPT ![k] = o])
<1> DEFINE new == [os EXCEPT ![k] = o]
<1>1. /\ Share(os[k], Holding) = 0 /\ Share(os[k], Gone) = 0
      /\ Share(o, Holding) = n /\ Share(o, Gone) = 0
  BY OrderFields DEF Share, Holding, Gone, Released
<1>2. /\ Count(os, Holding) \in Nat /\ Count(os, Gone) \in Nat
      /\ Count(new, Holding) = Count(os, Holding) - Share(os[k], Holding) + Share(o, Holding)
      /\ Count(new, Gone) = Count(os, Gone) - Share(os[k], Gone) + Share(o, Gone)
  BY CountMoves
<1> HIDE DEF new
<1>3. Count(new, Holding) = Count(os, Holding) + n /\ Count(new, Gone) = Count(os, Gone)
  BY <1>1, <1>2
<1>4. [b EXCEPT !.reserved = @ + n] = [onHand |-> b.onHand, reserved |-> b.reserved + n]
  BY DEF Balanced
<1>5. Balanced([onHand |-> b.onHand, reserved |-> b.reserved + n], new)
  BY <1>2, <1>3 DEF Balanced
<1> QED
  BY <1>4, <1>5 DEF new

\* Overdue orders give back what they held, and nothing else changes.
LEMMA KeptAccounted ==
  ASSUME orders \in Rows, Balanced(balance, orders), adjusted \in Int
  PROVE  /\ KeptOrders \in Rows /\ Balanced(KeptBalance, KeptOrders)
         /\ KeptBalance.onHand = balance.onHand
<1> DEFINE H == In(orders, Holding)
<1>1. \A k \in Carts : orders[k] # NoOrder => orders[k] \in Order
  BY DEF Rows
<1>2. ASSUME NEW k \in Carts
      PROVE  /\ KeptOrders[k] \in Order \cup {NoOrder}
             /\ k \notin Overdue => KeptOrders[k] = orders[k]
             /\ k \in Overdue => /\ KeptOrders[k] # NoOrder /\ KeptOrders[k].status = "EXPIRED"
                                 /\ KeptOrders[k].stocked = orders[k].stocked
                                 /\ KeptOrders[k].quantity = orders[k].quantity
  <2>1. CASE k \in Overdue
    <3>1. orders[k] \in Order /\ KeptOrders[k] = [orders[k] EXCEPT !.status = "EXPIRED"]
      BY <1>1, <2>1 DEF KeptOrders, Overdue, InStatus, Placed
    <3>2. KeptOrders[k] \in Order /\ KeptOrders[k].status = "EXPIRED"
          /\ KeptOrders[k].stocked = orders[k].stocked /\ KeptOrders[k].quantity = orders[k].quantity
      BY <3>1 DEF Order, Ended
    <3> QED
      BY <2>1, <3>2, OrderFields
  <2>2. CASE k \notin Overdue
    BY <2>2 DEF KeptOrders, Rows
  <2> QED
    BY <2>1, <2>2
<1>3. KeptOrders \in Rows
  BY <1>2 DEF Rows, KeptOrders
<1>4. Overdue \subseteq H /\ H \subseteq Carts /\ \A k \in H : orders[k] # NoOrder
  BY DEF Overdue, In, InStatus, Placed
<1>5. In(KeptOrders, Holding) = H \ Overdue
  BY <1>2, <1>4 DEF In, Holding
<1>6. In(KeptOrders, Gone) = In(orders, Gone) /\ In(orders, Gone) \cap Overdue = {}
  <2>1. \A k \in Overdue : orders[k].status \in Holding
    BY <1>4 DEF In
  <2>2. \A k \in Overdue : orders[k].status \notin Gone
    BY <2>1 DEF Holding, Gone, Released
  <2> QED
    BY <1>2, <2>2 DEF In, Gone, Released
<1>7. PiecesOf(KeptOrders, H \ Overdue) = PiecesOf(orders, H \ Overdue)
  <2>1. \A k \in H \ Overdue : KeptOrders[k] = orders[k]
    BY <1>2, <1>4
  <2> QED
    BY <2>1, PiecesSame
<1>8. PiecesOf(KeptOrders, In(orders, Gone)) = PiecesOf(orders, In(orders, Gone))
  <2>1. \A k \in In(orders, Gone) : KeptOrders[k] = orders[k]
    BY <1>2, <1>6 DEF In
  <2> QED
    BY <2>1, PiecesSame
<1>9. Count(orders, Holding) = Cardinality(PiecesOf(orders, H \ Overdue)) + Cardinality(PiecesOf(orders, Overdue))
  <2>1. (H \ Overdue) \cup Overdue = H /\ (H \ Overdue) \cap Overdue = {}
        /\ H \ Overdue \in SUBSET Carts /\ Overdue \in SUBSET Carts
        /\ \A k \in (H \ Overdue) \cup Overdue : orders[k] # NoOrder
    BY <1>4
  <2> HIDE DEF H
  <2>2. Cardinality(PiecesOf(orders, (H \ Overdue) \cup Overdue))
        = Cardinality(PiecesOf(orders, H \ Overdue)) + Cardinality(PiecesOf(orders, Overdue))
    BY <2>1, PiecesSplit
  <2> QED
    BY <2>1, <2>2 DEF Count, H
<1>10. Cardinality(PiecesOf(orders, H \ Overdue)) \in Nat /\ Cardinality(PiecesOf(orders, Overdue)) \in Nat
  BY <1>4, PiecesIn
<1>11. Units(Overdue) = Cardinality(PiecesOf(orders, Overdue))
  BY DEF Units, Pieces, PiecesOf
<1>12. Count(KeptOrders, Holding) = Count(orders, Holding) - Units(Overdue) /\ Units(Overdue) \in Nat
  BY <1>5, <1>7, <1>9, <1>10, <1>11 DEF Count
<1>13. Count(KeptOrders, Gone) = Count(orders, Gone)
  BY <1>6, <1>8 DEF Count
<1>14. KeptBalance = [onHand |-> balance.onHand, reserved |-> balance.reserved - Units(Overdue)]
  BY DEF KeptBalance, Balanced
<1>15. balance.reserved \in Nat /\ balance.onHand \in Int
  <2>1. Count(orders, Gone) \in Nat
    BY PiecesIn DEF Count, In
  <2> QED
    BY <1>9, <1>10, <2>1 DEF Balanced
<1> QED
  BY <1>3, <1>12, <1>13, <1>14, <1>15 DEF Balanced

(***************************************************************************)
(* Sales: what the rows of one cart say of each other.                     *)
(***************************************************************************)
WorkerStep == {"IDLE", "CREATE", "POST", "CREATED", "FAILED", "FIND", "SETTLE"}
BankRow == [posts : 0..1, charge : {"NONE", "ACTIVE"} \cup Paid]
DeliveryStep == {"NONE", "OPEN", "DELIVERED", "CANCELLED", "RETURNED"}
BookRow == [entry : {"NONE", "CASH_ONLY", "REVENUE"}, cash : 0..1]

\* Nobody has asked the bank for money.
NotAsked(p, w, b) == p.status = "NONE" /\ ~p.paid /\ w = "IDLE" /\ b.posts = 0

\* The order: PIX is asked for once the store approved it, and served once it was paid.
OrderAgrees(o, p, w, b) ==
  /\ ~(o.method = "PIX" /\ o.approved) => NotAsked(p, w, b)
  /\ o.method = "PIX" /\ ~o.approved => o.status \in {"RECEIVED", "CANCELLED", "EXPIRED"}
  /\ o.approved => o.status # "RECEIVED"
  /\ o.status = "WAITING_PAYMENT" => o.method = "PIX" /\ p.status # "NONE"
  /\ o.status \in Gone /\ o.method = "PIX" => p.paid /\ p.status = "PAID" /\ b.charge = "EXACT"
  /\ p.paid => (p.refund <=> o.status \notin Gone)

\* The worker: it has asked the bank at most once, and works for what is not paid.
WorkerAgrees(p, w, b) ==
  /\ w # "IDLE" => ~p.paid /\ p.status # "NONE"
  /\ p.status = "CREATED" => w \in {"IDLE", "CREATE"}
  /\ p.status = "CREATED" \/ w \in {"CREATE", "POST"} => b.posts = 0
  /\ b.posts = 0 => b.charge = "NONE"
  /\ w = "SETTLE" => b.charge \in Paid
  /\ p.paid => p.status \in {"PAID", "REVIEW_REQUIRED"}

\* The books.
BooksAgree(o, p, f) ==
  /\ f.entry = "REVENUE" <=> o.status = "COMPLETED"
  /\ o.method = "PIX" /\ (f.entry # "NONE" \/ f.cash > 0) => p.paid
  /\ p.paid => f.cash = 1

\* The delivery.
DeliveryAgrees(o, d) ==
  /\ d # "NONE" => o.fulfillment = "DELIVERY"
  /\ d \in {"OPEN", "RETURNED"} => o.status = "CONFIRMED"
  /\ d = "DELIVERED" => o.status \in {"CONFIRMED", "COMPLETED"}
  /\ d = "CANCELLED" => o.status \in {"CONFIRMED", "CANCELLED"}

RowsAgree(o, p, w, b, d, f) ==
  /\ o = NoOrder => NotAsked(p, w, b) /\ d = "NONE" /\ f.entry = "NONE" /\ f.cash = 0
  /\ o # NoOrder => OrderAgrees(o, p, w, b) /\ BooksAgree(o, p, f) /\ DeliveryAgrees(o, d)
  /\ WorkerAgrees(p, w, b)

\* An order that nobody decided on in time.
LEMMA RowsExpire ==
  ASSUME NEW o \in Order, NEW p \in Pix, NEW w \in WorkerStep, NEW b \in BankRow, NEW d \in DeliveryStep,
         NEW f \in BookRow, RowsAgree(o, p, w, b, d, f), o.status \in Holding
  PROVE  /\ [o EXCEPT !.status = "EXPIRED"] \in Order /\ Unpaid(p) \in Pix
         /\ RowsAgree([o EXCEPT !.status = "EXPIRED"], Unpaid(p), w, b, d, f)
<1> DEFINE o2 == [o EXCEPT !.status = "EXPIRED"]
           p2 == Unpaid(p)
<1>1. /\ o2 \in Order /\ o2.status = "EXPIRED" /\ o2.method = o.method /\ o2.fulfillment = o.fulfillment
      /\ o2.approved = o.approved
  BY DEF Order, Ended
<1>2. o # NoOrder /\ o2 # NoOrder
  BY <1>1, OrderFields
<1>3. /\ p2 \in Pix /\ p2.paid = p.paid /\ p2.refund = p.refund
      /\ p2.status = p.status \/ (p2.status = "EXPIRED" /\ ~p.paid /\ p.status # "NONE")
  BY DEF Pix, Unpaid
<1> HIDE DEF o2, p2
<1>5. OrderAgrees(o2, p2, w, b)
  BY <1>1, <1>2, <1>3 DEF RowsAgree, OrderAgrees, NotAsked, Gone, Released, Holding
<1>6. BooksAgree(o2, p2, f) /\ DeliveryAgrees(o2, d)
  BY <1>1, <1>2, <1>3 DEF RowsAgree, BooksAgree, DeliveryAgrees, Holding
<1>7. WorkerAgrees(p2, w, b)
  BY <1>3 DEF RowsAgree, WorkerAgrees
<1> QED
  BY <1>1, <1>2, <1>3, <1>5, <1>6, <1>7 DEF RowsAgree, o2, p2

\* The changes that the store and the worker of deliveries make.
OrderGoes(o, d, next) ==
  \/ o.status = "RECEIVED" /\ next = "CONFIRMED" /\ o.method = "CARD_PRESENT"
  \/ o.status \in Holding /\ next = "CANCELLED"
  \/ o.status = "CONFIRMED" /\ o.fulfillment = "PICKUP" /\ next \in {"READY_PICKUP", "CANCELLED"}
  \/ o.status = "READY_PICKUP" /\ next \in {"COMPLETED", "CANCELLED"}
  \/ o.status = "CONFIRMED" /\ d \in {"NONE", "CANCELLED"} /\ next = "CANCELLED"
  \/ o.status = "CONFIRMED" /\ d = "DELIVERED" /\ next = "COMPLETED"

OrderAs(o, next) == [o EXCEPT !.status = next, !.approved = o.approved \/ next = "CONFIRMED"]
PixAs(p, next) == IF next = "CANCELLED" THEN Cancelled(p) ELSE p

LEMMA RowsApply ==
  ASSUME NEW o \in Order, NEW p \in Pix, NEW w \in WorkerStep, NEW b \in BankRow, NEW d \in DeliveryStep,
         NEW f \in BookRow, RowsAgree(o, p, w, b, d, f), NEW next, OrderGoes(o, d, next)
  PROVE  /\ OrderAs(o, next) \in Order /\ PixAs(p, next) \in Pix /\ Recognized(f, next) \in BookRow
         /\ RowsAgree(OrderAs(o, next), PixAs(p, next), w, b, d, Recognized(f, next))
<1> DEFINE o2 == OrderAs(o, next)
           p2 == PixAs(p, next)
           f2 == Recognized(f, next)
<1>1. next \in {"CONFIRMED", "READY_PICKUP", "COMPLETED", "CANCELLED"}
  BY DEF OrderGoes
<1>2. /\ o2 \in Order /\ o2.status = next /\ o2.method = o.method /\ o2.fulfillment = o.fulfillment
      /\ o2.approved = (o.approved \/ next = "CONFIRMED")
  BY <1>1 DEF Order, Ended, Released, OrderAs
<1>3. o # NoOrder /\ o2 # NoOrder
  BY <1>2, OrderFields
<1>4. /\ p2 \in Pix /\ p2.paid = p.paid
      /\ p2.status = p.status \/ (p2.status = "EXPIRED" /\ ~p.paid /\ p.status # "NONE")
      /\ next # "CANCELLED" => p2 = p
      /\ next = "CANCELLED" => (p2.refund <=> p.paid)
  BY DEF Pix, Unpaid, Cancelled, PixAs
<1>5. /\ f2 \in BookRow /\ f2.cash = f.cash
      /\ f2.entry = (IF next = "COMPLETED" THEN "REVENUE" ELSE f.entry)
  BY DEF BookRow, Recognized
<1>6. OrderAgrees(o, p, w, b) /\ BooksAgree(o, p, f) /\ DeliveryAgrees(o, d) /\ WorkerAgrees(p, w, b)
  BY <1>3 DEF RowsAgree
<1>7. /\ o.status \in Holding \cup Released /\ o.status # "COMPLETED"
      /\ next = "CONFIRMED" => o.method = "CARD_PRESENT"
      /\ next \in {"READY_PICKUP", "COMPLETED"} => o.status \in Released
  BY DEF OrderGoes, Holding, Released
<1>8. o.status \in Released => o.status \in Gone
  BY DEF Gone
<1> HIDE DEF o2, p2, f2
<1>9. OrderAgrees(o2, p2, w, b)
  BY <1>1, <1>2, <1>4, <1>6, <1>7, <1>8 DEF OrderAgrees, NotAsked, Gone, Released, Holding
<1>10. BooksAgree(o2, p2, f2)
  BY <1>1, <1>2, <1>4, <1>5, <1>6, <1>7, <1>8 DEF OrderAgrees, NotAsked, BooksAgree
<1>11. DeliveryAgrees(o2, d)
  BY <1>1, <1>2, <1>6 DEF DeliveryAgrees, OrderGoes, Holding
<1>12. WorkerAgrees(p2, w, b)
  BY <1>4, <1>6 DEF WorkerAgrees
<1> QED
  BY <1>2, <1>3, <1>4, <1>5, <1>9, <1>10, <1>11, <1>12 DEF RowsAgree, o2, p2, f2

(***************************************************************************)
(* Sales: the inductive invariant.                                         *)
(***************************************************************************)
SaleAgrees(k) == RowsAgree(orders[k], pix[k], worker[k], bank[k], delivery[k], books[k])

Agreeing(os, ps) == \A j \in Carts : RowsAgree(os[j], ps[j], worker[j], bank[j], delivery[j], books[j])

SaleRows ==
  /\ orders \in Rows /\ pix \in [Carts -> Pix] /\ worker \in [Carts -> WorkerStep] /\ bank \in [Carts -> BankRow]
  /\ delivery \in [Carts -> DeliveryStep] /\ books \in [Carts -> BookRow]

SaleRest ==
  /\ mode \in {"STOCKED", "MADE_TO_ORDER"} /\ adjusted \in 0..MaxStock
  /\ cart \in [Carts -> {0} \cup Quantity] /\ due \in [Carts -> BOOLEAN]

SaleInv == SaleRest /\ SaleRows /\ Balanced(balance, orders) /\ \A k \in Carts : SaleAgrees(k)

\* The rows once the overdue orders are expired.
LEMMA KeptAgree ==
  ASSUME SaleInv
  PROVE  /\ KeptOrders \in Rows /\ KeptPix \in [Carts -> Pix] /\ Balanced(KeptBalance, KeptOrders)
         /\ \A k \in Carts \ Overdue : KeptOrders[k] = orders[k] /\ KeptPix[k] = pix[k]
         /\ Agreeing(KeptOrders, KeptPix)
<1>1. KeptOrders \in Rows /\ Balanced(KeptBalance, KeptOrders)
  BY KeptAccounted DEF SaleInv, SaleRows, SaleRest
<1>2. \A k \in Carts \ Overdue : KeptOrders[k] = orders[k] /\ KeptPix[k] = pix[k]
  BY DEF KeptOrders, KeptPix
<1>3. ASSUME NEW k \in Carts
      PROVE  KeptPix[k] \in Pix /\ RowsAgree(KeptOrders[k], KeptPix[k], worker[k], bank[k], delivery[k], books[k])
  <2>1. CASE k \in Overdue
    <3>1. orders[k] \in Order /\ orders[k].status \in Holding
      BY <2>1 DEF Overdue, InStatus, Placed, SaleInv, SaleRows, Rows
    <3>2. KeptOrders[k] = [orders[k] EXCEPT !.status = "EXPIRED"] /\ KeptPix[k] = Unpaid(pix[k])
      BY <2>1 DEF KeptOrders, KeptPix
    <3>3. /\ pix[k] \in Pix /\ worker[k] \in WorkerStep /\ bank[k] \in BankRow /\ delivery[k] \in DeliveryStep
          /\ books[k] \in BookRow /\ RowsAgree(orders[k], pix[k], worker[k], bank[k], delivery[k], books[k])
      BY DEF SaleInv, SaleRows, SaleAgrees
    <3> QED
      BY <3>1, <3>2, <3>3, RowsExpire
  <2>2. CASE k \notin Overdue
    BY <1>2, <2>2 DEF SaleInv, SaleRows, SaleAgrees
  <2> QED
    BY <2>1, <2>2
<1>4. KeptPix \in [Carts -> Pix]
  BY <1>3 DEF KeptPix
<1> QED
  BY <1>1, <1>2, <1>3, <1>4 DEF Agreeing

\* A step that writes the rows of one cart.
LEMMA OneCart ==
  ASSUME SaleRows, NEW os \in Rows, NEW ps \in [Carts -> Pix],
         Agreeing(os, ps), NEW k \in Carts, NEW o \in Order \cup {NoOrder}, NEW p \in Pix, NEW w \in WorkerStep, NEW b \in BankRow,
         NEW d \in DeliveryStep, NEW f \in BookRow, RowsAgree(o, p, w, b, d, f),
         orders' = [os EXCEPT ![k] = o], pix' = [ps EXCEPT ![k] = p], worker' = [worker EXCEPT ![k] = w],
         bank' = [bank EXCEPT ![k] = b], delivery' = [delivery EXCEPT ![k] = d], books' = [books EXCEPT ![k] = f]
  PROVE  SaleRows' /\ \A j \in Carts : SaleAgrees(j)'
<1>1. SaleRows'
  BY DEF SaleRows, Rows
<1>2. /\ orders'[k] = o /\ pix'[k] = p /\ worker'[k] = w /\ bank'[k] = b /\ delivery'[k] = d /\ books'[k] = f
      /\ \A j \in Carts \ {k} : /\ orders'[j] = os[j] /\ pix'[j] = ps[j] /\ worker'[j] = worker[j]
                                /\ bank'[j] = bank[j] /\ delivery'[j] = delivery[j] /\ books'[j] = books[j]
  BY DEF SaleRows, Rows
<1>3. ASSUME NEW j \in Carts PROVE SaleAgrees(j)'
  BY <1>2 DEF SaleAgrees, Agreeing
<1> QED
  BY <1>1, <1>3

\* A row that is written as it was.
LEMMA Rewritten ==
  ASSUME SaleRows, NEW k \in Carts
  PROVE  /\ orders = [orders EXCEPT ![k] = orders[k]] /\ pix = [pix EXCEPT ![k] = pix[k]]
         /\ worker = [worker EXCEPT ![k] = worker[k]] /\ bank = [bank EXCEPT ![k] = bank[k]]
         /\ delivery = [delivery EXCEPT ![k] = delivery[k]] /\ books = [books EXCEPT ![k] = books[k]]
         /\ orders[k] \in Order \cup {NoOrder} /\ pix[k] \in Pix /\ worker[k] \in WorkerStep /\ bank[k] \in BankRow
         /\ delivery[k] \in DeliveryStep /\ books[k] \in BookRow
BY DEF SaleRows, Rows

\* Carts, stock and time touch no row of an order.
LEMMA SaleRestStep ==
  ASSUME SaleInv,
         \/ \E k \in Carts, q \in {0} \cup Quantity : cartChange(k, q)
         \/ \E n \in -MaxStock..MaxStock : adjustInventory(n)
         \/ saveProduct
         \/ \E k \in Carts : deadlinePasses(k)
         \/ UNCHANGED saleVars
  PROVE  SaleInv'
<1>1. UNCHANGED <<orders, pix, worker, bank, delivery, books>>
  BY DEF cartChange, adjustInventory, saveProduct, deadlinePasses, stockVars, pixVars, orderVars, saleVars
<1>2. SaleRows' /\ \A k \in Carts : SaleAgrees(k)'
  BY <1>1 DEF SaleInv, SaleRows, SaleAgrees
<1>3. Count(orders, Holding)' = Count(orders, Holding) /\ Count(orders, Gone)' = Count(orders, Gone)
  BY <1>1 DEF Count, PiecesOf, In
<1>4. Count(orders, Holding) \in Nat /\ Count(orders, Gone) \in Nat
  BY PiecesIn DEF Count, In, SaleInv, SaleRows
<1>5. CASE \E n \in -MaxStock..MaxStock : adjustInventory(n)
  <2>1. PICK n \in -MaxStock..MaxStock : adjustInventory(n)
    BY <1>5
  <2>2. MaxStock \in Nat /\ n \in Int
    BY CommerceConstants
  <2>3. /\ balance' = [onHand |-> balance.onHand + n, reserved |-> balance.reserved]
        /\ adjusted' = adjusted + n /\ adjusted' \in 0..MaxStock /\ balance.onHand + n >= balance.reserved
    BY <2>1 DEF adjustInventory, SaleInv, Balanced
  <2>4. Balanced(balance, orders)'
    BY <1>1, <1>3, <1>4, <2>2, <2>3 DEF SaleInv, SaleRest, Balanced
  <2>5. SaleRest'
    BY <2>1, <2>3 DEF adjustInventory, orderVars, SaleInv, SaleRest
  <2> QED
    BY <1>2, <2>4, <2>5 DEF SaleInv
<1>6. CASE ~ \E n \in -MaxStock..MaxStock : adjustInventory(n)
  <2>1. UNCHANGED <<balance, adjusted>>
    BY <1>6 DEF cartChange, saveProduct, deadlinePasses, stockVars, saleVars
  <2>2. Balanced(balance, orders)'
    BY <1>3, <2>1 DEF SaleInv, Balanced
  <2>3. SaleRest'
    BY <1>6, <2>1 DEF cartChange, saveProduct, deadlinePasses, stockVars, orderVars, saleVars, SaleInv, SaleRest
  <2> QED
    BY <1>2, <2>2, <2>3 DEF SaleInv
<1> QED
  BY <1>5, <1>6

\* Overdue orders expire by themselves.
LEMMA expireSound ==
  ASSUME SaleInv, expireCommerceOrders
  PROVE  SaleInv'
<1>1. SaleRows' /\ Balanced(balance, orders)'
  BY KeptAgree DEF expireCommerceOrders, SaleInv, SaleRows, Balanced, Count, PiecesOf, In
<1>2. \A k \in Carts : SaleAgrees(k)'
  BY KeptAgree DEF expireCommerceOrders, SaleAgrees, Agreeing
<1> QED
  BY <1>1, <1>2 DEF expireCommerceOrders, SaleInv, SaleRest

LEMMA checkoutSound ==
  ASSUME SaleInv, NEW k \in Carts, NEW fulfillment \in {"PICKUP", "DELIVERY"}, NEW method \in {"PIX", "CARD_PRESENT"},
         checkout(k, fulfillment, method)
  PROVE  SaleInv'
<1> DEFINE o == [status |-> "RECEIVED", fulfillment |-> fulfillment, method |-> method, quantity |-> cart[k],
                 stocked |-> mode = "STOCKED", approved |-> FALSE]
           n == IF mode = "STOCKED" THEN cart[k] ELSE 0
<1>1. /\ orders[k] = NoOrder /\ Sells(k)
      /\ orders' = [KeptOrders EXCEPT ![k] = o]
      /\ balance' = [KeptBalance EXCEPT !.reserved = @ + n]
      /\ pix' = KeptPix /\ UNCHANGED <<mode, adjusted, cart, due, worker, bank, delivery, books>>
  BY DEF checkout
<1>2. /\ o \in Order /\ o.status = "RECEIVED" /\ o.method = method /\ ~o.approved
      /\ n \in Nat /\ n = (IF o.stocked THEN o.quantity ELSE 0)
  <2>1. cart[k] \in {0} \cup Quantity /\ Quantity \subseteq Nat \ {0}
    BY CommerceConstants DEF SaleInv, SaleRest
  <2>2. cart[k] \in Quantity /\ cart[k] \in Nat
    BY <1>1, <2>1 DEF Sells
  <2> QED
    BY <2>2 DEF Order, Holding
<1>3. k \in Carts \ Overdue /\ KeptOrders[k] = NoOrder /\ KeptPix[k] = pix[k]
  BY <1>1, KeptAgree DEF Overdue, InStatus, Placed
<1>4. KeptBalance.reserved + n <= KeptBalance.onHand
  <2>1. /\ Count(KeptOrders, Holding) \in Nat /\ Count(KeptOrders, Gone) \in Nat /\ adjusted \in Int
    BY KeptAgree, PiecesIn DEF Count, In, SaleInv, SaleRest
  <2>2. KeptBalance.reserved \in Int /\ KeptBalance.onHand \in Int /\ KeptBalance.reserved <= KeptBalance.onHand
    BY <2>1, KeptAgree DEF Balanced
  <2> QED
    BY <1>1, <1>2, <2>2 DEF Sells
<1> HIDE DEF o, n
<1>5. Balanced(balance, orders)'
  <2>1. adjusted \in Int
    BY DEF SaleInv, SaleRest
  <2>2. Balanced([KeptBalance EXCEPT !.reserved = @ + n], [KeptOrders EXCEPT ![k] = o])
    BY <1>2, <1>3, <1>4, <2>1, KeptAgree, PlacedAccounted
  <2> QED
    BY <1>1, <2>2 DEF Balanced, Count, PiecesOf, In
<1>6. /\ pix[k] \in Pix /\ worker[k] \in WorkerStep /\ bank[k] \in BankRow /\ delivery[k] \in DeliveryStep
      /\ books[k] \in BookRow
      /\ RowsAgree(NoOrder, pix[k], worker[k], bank[k], delivery[k], books[k])
  BY <1>1 DEF SaleInv, SaleRows, SaleAgrees
<1>7. RowsAgree(o, pix[k], worker[k], bank[k], delivery[k], books[k])
  BY <1>2, <1>6, OrderFields DEF RowsAgree, OrderAgrees, BooksAgree, DeliveryAgrees, WorkerAgrees, NotAsked, BookRow, Gone, Released
<1>8. SaleRows' /\ \A j \in Carts : SaleAgrees(j)'
  <2>1. SaleRows /\ KeptOrders \in Rows /\ KeptPix \in [Carts -> Pix] /\ o \in Order \cup {NoOrder}
    BY <1>2, KeptAgree DEF SaleInv
  <2>2. Agreeing(KeptOrders, KeptPix)
    BY KeptAgree
  <2>3. /\ pix' = [KeptPix EXCEPT ![k] = pix[k]] /\ worker' = [worker EXCEPT ![k] = worker[k]]
        /\ bank' = [bank EXCEPT ![k] = bank[k]] /\ delivery' = [delivery EXCEPT ![k] = delivery[k]]
        /\ books' = [books EXCEPT ![k] = books[k]]
    BY <1>1, <1>3, <2>1, Rewritten
  <2>4. /\ pix[k] \in Pix /\ worker[k] \in WorkerStep /\ bank[k] \in BankRow /\ delivery[k] \in DeliveryStep
        /\ books[k] \in BookRow /\ orders' = [KeptOrders EXCEPT ![k] = o]
    BY <1>1, <1>6
  <2> QED
    BY <1>7, <2>1, <2>2, <2>3, <2>4, OneCart
<1> QED
  BY <1>1, <1>5, <1>8 DEF SaleInv, SaleRest

\* commerce_apply_approved_state, of the order o of k among rows that agree.
LEMMA ApplySound ==
  ASSUME SaleInv, NEW os \in Rows, NEW ps \in [Carts -> Pix], NEW bal, Balanced(bal, os),
         Agreeing(os, ps), NEW k \in Carts, os[k] # NoOrder, NEW next, OrderGoes(os[k], delivery[k], next),
         Apply(k, [os[k] EXCEPT !.approved = os[k].approved \/ next = "CONFIRMED"], next, bal, os, ps),
         UNCHANGED <<mode, adjusted, cart, worker, bank, delivery>>, due' \in [Carts -> BOOLEAN]
  PROVE  SaleInv'
<1> DEFINE o == [os[k] EXCEPT !.approved = os[k].approved \/ next = "CONFIRMED"]
           o2 == OrderAs(os[k], next)
           p2 == PixAs(ps[k], next)
           f2 == Recognized(books[k], next)
<1>1. os[k] \in Order /\ ps[k] \in Pix
  BY DEF Rows
<1>2. /\ worker[k] \in WorkerStep /\ bank[k] \in BankRow /\ delivery[k] \in DeliveryStep /\ books[k] \in BookRow
  BY DEF SaleInv, SaleRows
<1>3. o2 \in Order /\ p2 \in Pix /\ f2 \in BookRow /\ RowsAgree(o2, p2, worker[k], bank[k], delivery[k], f2)
  <2>2. RowsAgree(os[k], ps[k], worker[k], bank[k], delivery[k], books[k])
    BY DEF Agreeing
  <2> QED
    BY <1>1, <1>2, <2>2, RowsApply
<1>4. /\ [o EXCEPT !.status = next] = o2 /\ o.status = os[k].status /\ o.stocked = os[k].stocked
      /\ o.quantity = os[k].quantity
      /\ o2.status = next /\ o2.quantity = os[k].quantity /\ o2.stocked = os[k].stocked
  BY <1>1 DEF Order, OrderAs
<1>5. /\ balance' = [onHand |-> bal.onHand + Moved(o, next), reserved |-> bal.reserved - Freed(o, next)]
      /\ orders' = [os EXCEPT ![k] = o2]
      /\ pix' = [ps EXCEPT ![k] = p2]
      /\ books' = [books EXCEPT ![k] = f2]
  <2>1. next # "CANCELLED" => ps = [ps EXCEPT ![k] = ps[k]]
    OBVIOUS
  <2> QED
    BY <1>4, <2>1 DEF Apply, PixAs
<1>6. Moved(o, next) = Moved(os[k], next) /\ Freed(o, next) = Freed(os[k], next)
  BY <1>4 DEF Moved, Freed
<1> HIDE DEF o, o2, p2, f2
<1>7. SaleRows' /\ \A j \in Carts : SaleAgrees(j)'
  <2>1. SaleRows /\ o2 \in Order \cup {NoOrder}
    BY <1>3 DEF SaleInv
  <2>2. /\ worker' = [worker EXCEPT ![k] = worker[k]] /\ bank' = [bank EXCEPT ![k] = bank[k]]
        /\ delivery' = [delivery EXCEPT ![k] = delivery[k]]
    BY <2>1, Rewritten
  <2> QED
    BY <1>2, <1>3, <1>5, <2>1, <2>2, OneCart
<1>8. Balanced(balance, orders)'
  <2>1. Onward(os[k].status, next)
    BY <1>1 DEF OrderGoes, Onward, Holding, Released
  <2>2. adjusted \in Int
    BY DEF SaleInv, SaleRest
  <2>3. Balanced([onHand |-> bal.onHand + Moved(os[k], next), reserved |-> bal.reserved - Freed(os[k], next)],
                 [os EXCEPT ![k] = o2])
    BY <1>3, <1>4, <2>1, <2>2, MovesAccounted
  <2> QED
    BY <1>5, <1>6, <2>3 DEF Balanced, Count, PiecesOf, In
<1> QED
  BY <1>7, <1>8 DEF SaleInv, SaleRest

LEMMA transitionSound ==
  ASSUME SaleInv, NEW k \in Carts, NEW next \in Released \cup Ended, transition(k, next)
  PROVE  SaleInv'
<1>1. /\ k \in Placed \ Overdue /\ next \in Legal(k, orders[k])
      /\ UNCHANGED <<mode, adjusted, cart, worker, bank, delivery>>
  BY DEF transition
<1>2. /\ orders[k] \in Order /\ orders[k] # NoOrder /\ KeptOrders[k] = orders[k] /\ KeptPix[k] = pix[k]
      /\ pix[k] \in Pix /\ worker[k] \in WorkerStep /\ bank[k] \in BankRow /\ delivery[k] \in DeliveryStep
      /\ books[k] \in BookRow /\ RowsAgree(orders[k], pix[k], worker[k], bank[k], delivery[k], books[k])
  BY <1>1, KeptAgree DEF Placed, SaleInv, SaleRows, SaleAgrees, Rows
<1>3. KeptOrders \in Rows /\ KeptPix \in [Carts -> Pix] /\ Balanced(KeptBalance, KeptOrders)
      /\ Agreeing(KeptOrders, KeptPix)
  BY KeptAgree
<1>4. CASE orders[k].method = "PIX" /\ next = "CONFIRMED"
  <2> DEFINE o == [orders[k] EXCEPT !.status = "WAITING_PAYMENT", !.approved = TRUE]
             p == [NoPix EXCEPT !.status = "CREATED"]
  <2>1. /\ orders' = [KeptOrders EXCEPT ![k] = o] /\ pix' = [KeptPix EXCEPT ![k] = p]
        /\ due' = [due EXCEPT ![k] = FALSE] /\ balance' = KeptBalance /\ books' = books
    <3>1. approveForPix(k)
      BY <1>4 DEF transition
    <3> QED
      BY <1>2, <1>3, <3>1 DEF approveForPix, Rows
  <2>2. orders[k].status = "RECEIVED"
    BY <1>1, <1>4, <1>2, OrderFields DEF Legal, Holding, Released, Ended
  <2>3. /\ o \in Order /\ o.status = "WAITING_PAYMENT" /\ o.approved /\ o.method = "PIX"
        /\ o.fulfillment = orders[k].fulfillment /\ o.quantity = orders[k].quantity /\ o.stocked = orders[k].stocked
    BY <1>2, <1>4 DEF Order, Holding
  <2>4. p \in Pix /\ p.status = "CREATED" /\ ~p.paid
    BY DEF Pix, NoPix
  <2>5. o # NoOrder
    BY <2>3, OrderFields
  <2> HIDE DEF o, p
  <2>6. RowsAgree(o, p, worker[k], bank[k], delivery[k], books[k])
    BY <1>2, <1>4, <2>2, <2>3, <2>4, <2>5 DEF RowsAgree, OrderAgrees, BooksAgree, DeliveryAgrees, WorkerAgrees, NotAsked,
       Gone, Released
  <2>7. SaleRows' /\ \A j \in Carts : SaleAgrees(j)'
    <3>1. SaleRows /\ o \in Order \cup {NoOrder}
      BY <2>3 DEF SaleInv
    <3>2. /\ worker' = [worker EXCEPT ![k] = worker[k]] /\ bank' = [bank EXCEPT ![k] = bank[k]]
          /\ delivery' = [delivery EXCEPT ![k] = delivery[k]] /\ books' = [books EXCEPT ![k] = books[k]]
      BY <1>1, <2>1, <3>1, Rewritten
    <3> QED
      BY <1>2, <1>3, <2>1, <2>4, <2>6, <3>1, <3>2, OneCart
  <2>8. Balanced(balance, orders)'
    <3>1. adjusted \in Int
      BY DEF SaleInv, SaleRest
    <3>2. Onward(KeptOrders[k].status, o.status)
      BY <1>2, <2>2, <2>3 DEF Onward, Holding
    <3>3. Balanced([onHand |-> KeptBalance.onHand + Moved(orders[k], o.status),
                    reserved |-> KeptBalance.reserved - Freed(orders[k], o.status)], [KeptOrders EXCEPT ![k] = o])
      BY <1>2, <1>3, <2>3, <3>1, <3>2, MovesAccounted
    <3>4. Moved(orders[k], o.status) = 0 /\ Freed(orders[k], o.status) = 0
      BY <2>3 DEF Moved, Freed
    <3>5. KeptBalance.onHand \in Int /\ KeptBalance.reserved \in Int
      <4>1. Count(KeptOrders, Holding) \in Nat /\ Count(KeptOrders, Gone) \in Nat
        BY <1>3, PiecesIn DEF Count, In
      <4> QED
        BY <1>3, <3>1, <4>1 DEF Balanced
    <3>6. Balanced(KeptBalance, [KeptOrders EXCEPT ![k] = o])
      BY <1>3, <3>3, <3>4, <3>5 DEF Balanced
    <3> QED
      BY <1>1, <2>1, <3>6 DEF Balanced, Count, PiecesOf, In
  <2> QED
    BY <1>1, <2>1, <2>7, <2>8 DEF SaleInv, SaleRest
<1>5. CASE ~(orders[k].method = "PIX" /\ next = "CONFIRMED")
  <2>1. /\ Apply(k, [KeptOrders[k] EXCEPT !.approved = KeptOrders[k].approved \/ next = "CONFIRMED"], next,
                 KeptBalance, KeptOrders, KeptPix)
        /\ due' = due
    BY <1>2, <1>5 DEF transition
  <2>2. OrderGoes(orders[k], delivery[k], next)
    <3>1. DeliveryAgrees(orders[k], delivery[k])
      BY <1>2 DEF RowsAgree
    <3>2. orders[k].status \in Holding \cup Released \cup Ended /\ orders[k].method \in {"PIX", "CARD_PRESENT"}
          /\ orders[k].fulfillment \in {"PICKUP", "DELIVERY"}
      BY <1>2, OrderFields
    <3> QED
      BY <1>1, <1>5, <3>1, <3>2 DEF Legal, OrderGoes, DeliveryAgrees, Holding, Released, Ended
  <2>3. due' \in [Carts -> BOOLEAN]
    BY <2>1 DEF SaleInv, SaleRest
  <2> QED
    BY <1>1, <1>2, <1>3, <2>1, <2>2, <2>3, ApplySound
<1> QED
  BY <1>4, <1>5

\* A step that writes the rows of one cart beside its order, and no stock.
LEMMA OneRow ==
  ASSUME SaleInv, NEW k \in Carts, NEW p \in Pix, NEW w \in WorkerStep, NEW b \in BankRow, NEW d \in DeliveryStep,
         NEW f \in BookRow, RowsAgree(orders[k], p, w, b, d, f), UNCHANGED <<stockVars, orderVars>>,
         pix' = [pix EXCEPT ![k] = p], worker' = [worker EXCEPT ![k] = w],
         bank' = [bank EXCEPT ![k] = b], delivery' = [delivery EXCEPT ![k] = d], books' = [books EXCEPT ![k] = f]
  PROVE  SaleInv'
<1>1. SaleRows /\ orders \in Rows /\ pix \in [Carts -> Pix] /\ Agreeing(orders, pix)
  BY DEF SaleInv, SaleRows, SaleAgrees, Agreeing
<1>2. orders' = [orders EXCEPT ![k] = orders[k]] /\ orders[k] \in Order \cup {NoOrder}
  BY <1>1, Rewritten DEF orderVars
<1>3. SaleRows' /\ \A j \in Carts : SaleAgrees(j)'
  BY <1>1, <1>2, OneCart
<1>4. Balanced(balance, orders)' /\ SaleRest'
  BY DEF SaleInv, SaleRest, Balanced, Count, PiecesOf, In, stockVars, orderVars
<1> QED
  BY <1>3, <1>4 DEF SaleInv

LEMMA fulfillSound ==
  ASSUME SaleInv, NEW k \in Carts, fulfillCommerceOrder(k)
  PROVE  SaleInv'
<1>1. /\ orders[k] \in Order /\ orders[k] # NoOrder /\ orders[k].status = "CONFIRMED" /\ orders[k].fulfillment = "DELIVERY"
      /\ UNCHANGED <<mode, adjusted, cart, due, worker, bank>>
  BY DEF fulfillCommerceOrder, ToFulfill, InStatus, Placed, SaleInv, SaleRows, Rows
<1>2. /\ pix[k] \in Pix /\ worker[k] \in WorkerStep /\ bank[k] \in BankRow /\ delivery[k] \in DeliveryStep
      /\ books[k] \in BookRow /\ RowsAgree(orders[k], pix[k], worker[k], bank[k], delivery[k], books[k])
      /\ SaleRows /\ orders \in Rows /\ pix \in [Carts -> Pix] /\ Balanced(balance, orders) /\ Agreeing(orders, pix)
  BY DEF SaleInv, SaleRows, SaleAgrees, Agreeing
<1>3. CASE delivery[k] \in DOMAIN Outcome
  <2>1. delivery[k] \in {"DELIVERED", "CANCELLED"}
        /\ Outcome[delivery[k]] = (IF delivery[k] = "DELIVERED" THEN "COMPLETED" ELSE "CANCELLED")
    BY <1>3 DEF Outcome
  <2> DEFINE next == Outcome[delivery[k]]
  <2>2. Apply(k, orders[k], next, balance, orders, pix) /\ UNCHANGED delivery
    BY <1>3, <2>1 DEF fulfillCommerceOrder
  <2>3. orders[k] = [orders[k] EXCEPT !.approved = orders[k].approved \/ next = "CONFIRMED"]
    BY <1>1, <2>1 DEF Order
  <2>4. OrderGoes(orders[k], delivery[k], next)
    BY <1>1, <2>1 DEF OrderGoes
  <2>5. due' \in [Carts -> BOOLEAN]
    BY <1>1 DEF SaleInv, SaleRest
  <2> HIDE DEF next
  <2>6. Apply(k, [orders[k] EXCEPT !.approved = orders[k].approved \/ next = "CONFIRMED"], next, balance, orders, pix)
    BY <2>2, <2>3
  <2> QED
    BY <1>1, <1>2, <2>2, <2>4, <2>5, <2>6, ApplySound
<1>4. CASE delivery[k] \notin DOMAIN Outcome
  <2>1. delivery[k] = "NONE" /\ delivery' = [delivery EXCEPT ![k] = "OPEN"] /\ UNCHANGED <<balance, orders, pix, books>>
    BY <1>4 DEF fulfillCommerceOrder
  <2>2. RowsAgree(orders[k], pix[k], worker[k], bank[k], "OPEN", books[k])
    BY <1>1, <1>2 DEF RowsAgree, DeliveryAgrees
  <2>3. /\ pix' = [pix EXCEPT ![k] = pix[k]] /\ worker' = [worker EXCEPT ![k] = worker[k]]
        /\ bank' = [bank EXCEPT ![k] = bank[k]] /\ books' = [books EXCEPT ![k] = books[k]]
        /\ "OPEN" \in DeliveryStep /\ UNCHANGED <<stockVars, orderVars>>
    BY <1>1, <1>2, <2>1, Rewritten DEF DeliveryStep, stockVars, orderVars
  <2>4. /\ pix[k] \in Pix /\ worker[k] \in WorkerStep /\ bank[k] \in BankRow /\ books[k] \in BookRow
    BY <1>2
  <2> QED
    BY <2>1, <2>2, <2>3, <2>4, OneRow
<1> QED
  BY <1>3, <1>4

\* The end of a delivery and the money that the manager records.
LEMMA outsideSound ==
  ASSUME SaleInv, NEW k \in Carts,
         deliveryEnds(k) \/ settleFinanceEntry(k) \/ reverseFinanceSettlement(k) \/ customerPays(k)
  PROVE  SaleInv'
<1>1. /\ orders[k] \in Order \cup {NoOrder} /\ pix[k] \in Pix /\ worker[k] \in WorkerStep /\ bank[k] \in BankRow
      /\ delivery[k] \in DeliveryStep /\ books[k] \in BookRow
      /\ RowsAgree(orders[k], pix[k], worker[k], bank[k], delivery[k], books[k]) /\ SaleRows
  BY DEF SaleInv, SaleRows, SaleAgrees, Rows
<1>2. /\ pix = [pix EXCEPT ![k] = pix[k]] /\ worker = [worker EXCEPT ![k] = worker[k]]
      /\ bank = [bank EXCEPT ![k] = bank[k]]
      /\ delivery = [delivery EXCEPT ![k] = delivery[k]] /\ books = [books EXCEPT ![k] = books[k]]
  BY <1>1, Rewritten
<1>3. CASE deliveryEnds(k)
  <2>1. PICK as \in {"DELIVERED", "CANCELLED", "RETURNED"} :
             delivery[k] = "OPEN" /\ delivery' = [delivery EXCEPT ![k] = as]
             /\ UNCHANGED <<stockVars, orderVars, pixVars, books>>
    BY <1>3 DEF deliveryEnds
  <2>2. RowsAgree(orders[k], pix[k], worker[k], bank[k], as, books[k]) /\ as \in DeliveryStep
    BY <1>1, <2>1 DEF RowsAgree, DeliveryAgrees, DeliveryStep
  <2>3. /\ pix' = [pix EXCEPT ![k] = pix[k]] /\ worker' = [worker EXCEPT ![k] = worker[k]]
        /\ bank' = [bank EXCEPT ![k] = bank[k]] /\ books' = [books EXCEPT ![k] = books[k]]
        /\ UNCHANGED <<stockVars, orderVars>>
    BY <1>2, <2>1 DEF pixVars
  <2>4. pix[k] \in Pix /\ worker[k] \in WorkerStep /\ bank[k] \in BankRow /\ books[k] \in BookRow
    BY <1>1
  <2> QED
    BY <2>1, <2>2, <2>3, <2>4, OneRow
<1>4. CASE settleFinanceEntry(k) \/ reverseFinanceSettlement(k)
  <2> DEFINE n == IF settleFinanceEntry(k) THEN books[k].cash + 1 ELSE books[k].cash - 1
             f == [books[k] EXCEPT !.cash = n]
  <2>1. /\ books' = [books EXCEPT ![k] = f] /\ UNCHANGED <<stockVars, orderVars, pixVars, delivery>>
        /\ settleFinanceEntry(k) => books[k].cash = 0 /\ books[k].entry # "NONE"
        /\ ~settleFinanceEntry(k) => books[k].cash > 0 /\ orders[k].method # "PIX" /\ orders[k] # NoOrder
    BY <1>1, <1>4 DEF settleFinanceEntry, reverseFinanceSettlement, Open, SaleRows, Placed
  <2>2. f \in BookRow /\ f.entry = books[k].entry /\ f.cash = n
    BY <1>1, <2>1 DEF BookRow
  <2> HIDE DEF f
  <2>3. RowsAgree(orders[k], pix[k], worker[k], bank[k], delivery[k], f)
    <3>1. orders[k] # NoOrder /\ BooksAgree(orders[k], pix[k], books[k]) /\ OrderAgrees(orders[k], pix[k], worker[k], bank[k])
      BY <1>1, <2>1 DEF RowsAgree
    <3>2. ~pix[k].paid /\ orders[k].method # "PIX"
      <4>1. orders[k].method # "PIX"
        BY <2>1, <3>1 DEF BooksAgree
      <4> QED
        BY <3>1, <4>1 DEF OrderAgrees, NotAsked
    <3>3. BooksAgree(orders[k], pix[k], f)
      BY <2>2, <3>1, <3>2 DEF BooksAgree
    <3> QED
      BY <1>1, <3>1, <3>3 DEF RowsAgree
  <2>4. /\ pix' = [pix EXCEPT ![k] = pix[k]] /\ worker' = [worker EXCEPT ![k] = worker[k]]
        /\ bank' = [bank EXCEPT ![k] = bank[k]] /\ delivery' = [delivery EXCEPT ![k] = delivery[k]]
        /\ UNCHANGED <<stockVars, orderVars>>
    BY <1>2, <2>1 DEF pixVars
  <2>5. pix[k] \in Pix /\ worker[k] \in WorkerStep /\ bank[k] \in BankRow /\ delivery[k] \in DeliveryStep
        /\ books' = [books EXCEPT ![k] = f]
    BY <1>1, <2>1
  <2> QED
    BY <2>2, <2>3, <2>4, <2>5, OneRow
<1>5. CASE customerPays(k)
  <2>1. PICK as \in Paid : /\ bank[k].charge = "ACTIVE" /\ bank' = [bank EXCEPT ![k].charge = as]
                           /\ UNCHANGED <<stockVars, orderVars, pix, worker, delivery, books>>
    BY <1>5 DEF customerPays
  <2> DEFINE b == [bank[k] EXCEPT !.charge = as]
  <2>2. b \in BankRow /\ b.charge = as /\ b.posts = bank[k].posts /\ bank' = [bank EXCEPT ![k] = b]
    BY <1>1, <2>1 DEF BankRow, SaleRows
  <2> HIDE DEF b
  <2>3. RowsAgree(orders[k], pix[k], worker[k], b, delivery[k], books[k])
    BY <1>1, <2>1, <2>2 DEF RowsAgree, OrderAgrees, WorkerAgrees, NotAsked, Paid
  <2>4. /\ pix' = [pix EXCEPT ![k] = pix[k]] /\ worker' = [worker EXCEPT ![k] = worker[k]]
        /\ delivery' = [delivery EXCEPT ![k] = delivery[k]] /\ books' = [books EXCEPT ![k] = books[k]]
        /\ UNCHANGED <<stockVars, orderVars>>
    BY <1>2, <2>1
  <2>5. pix[k] \in Pix /\ worker[k] \in WorkerStep /\ delivery[k] \in DeliveryStep /\ books[k] \in BookRow
    BY <1>1
  <2> QED
    BY <2>2, <2>3, <2>4, <2>5, OneRow
<1> QED
  BY <1>3, <1>4, <1>5

\* Before its payment is recorded, an order of PIX agrees with whatever the worker does.
LEMMA RowsWork ==
  ASSUME NEW o \in Order \cup {NoOrder}, NEW p \in Pix, NEW w \in WorkerStep, NEW b \in BankRow, NEW d \in DeliveryStep,
         NEW f \in BookRow, RowsAgree(o, p, w, b, d, f), p.status # "NONE", ~p.paid,
         NEW p2 \in Pix, NEW w2 \in WorkerStep, NEW b2 \in BankRow, p2.status # "NONE", ~p2.paid, WorkerAgrees(p2, w2, b2)
  PROVE  /\ o \in Order /\ o.method = "PIX" /\ o.approved /\ o.status \notin Gone /\ f.entry = "NONE" /\ f.cash = 0
         /\ RowsAgree(o, p2, w2, b2, d, f)
<1>1. o # NoOrder
  BY DEF RowsAgree, NotAsked
<1>2. OrderAgrees(o, p, w, b) /\ BooksAgree(o, p, f) /\ DeliveryAgrees(o, d)
  BY <1>1 DEF RowsAgree
<1>3. o.method = "PIX" /\ o.approved /\ o.status \notin Gone
  BY <1>2 DEF OrderAgrees, NotAsked
<1>4. f.entry = "NONE" /\ f.cash = 0
  BY <1>2, <1>3 DEF BooksAgree, BookRow
<1>5. OrderAgrees(o, p2, w2, b2)
  BY <1>2, <1>3 DEF OrderAgrees
<1>6. BooksAgree(o, p2, f)
  BY <1>2, <1>3, <1>4 DEF BooksAgree
<1> QED
  BY <1>1, <1>2, <1>3, <1>4, <1>5, <1>6 DEF RowsAgree

LEMMA PixWritten ==
  ASSUME NEW p \in Pix, NEW s \in {"PAID", "REVIEW_REQUIRED"}, NEW g \in BOOLEAN
  PROVE  /\ [p EXCEPT !.paid = TRUE, !.refund = g, !.status = s] \in Pix
         /\ [p EXCEPT !.paid = TRUE, !.refund = g, !.status = s].status = s
         /\ [p EXCEPT !.paid = TRUE, !.refund = g, !.status = s].paid
         /\ [p EXCEPT !.paid = TRUE, !.refund = g, !.status = s].refund = g
BY DEF Pix

\* Every statement of the PIX worker before the settlement, and its death.
LEMMA workerSound ==
  ASSUME SaleInv, NEW k \in Carts,
         \/ readPayment(k) \/ requestCharge(k) \/ postCharge(k) \/ recordCharge(k) \/ recordFailure(k)
         \/ findCharge(k) \/ crash(k)
  PROVE  SaleInv'
<1>1. /\ orders[k] \in Order \cup {NoOrder} /\ pix[k] \in Pix /\ worker[k] \in WorkerStep /\ bank[k] \in BankRow
      /\ delivery[k] \in DeliveryStep /\ books[k] \in BookRow
      /\ RowsAgree(orders[k], pix[k], worker[k], bank[k], delivery[k], books[k])
      /\ SaleRows /\ WorkerAgrees(pix[k], worker[k], bank[k])
  BY DEF SaleInv, SaleRows, SaleAgrees, Rows, RowsAgree
<1>2. /\ pix = [pix EXCEPT ![k] = pix[k]] /\ bank = [bank EXCEPT ![k] = bank[k]]
      /\ delivery = [delivery EXCEPT ![k] = delivery[k]] /\ books = [books EXCEPT ![k] = books[k]]
  BY <1>1, Rewritten
<1>3. /\ UNCHANGED <<stockVars, orderVars>> /\ delivery' = [delivery EXCEPT ![k] = delivery[k]]
      /\ books' = [books EXCEPT ![k] = books[k]]
  BY <1>2 DEF readPayment, requestCharge, postCharge, recordCharge, recordFailure, findCharge, crash
<1>4. pix[k].status # "NONE" /\ ~pix[k].paid
  BY <1>1 DEF readPayment, requestCharge, postCharge, recordCharge, recordFailure, findCharge, crash, Works, WorkerAgrees
<1>5. ASSUME NEW p \in Pix, NEW w \in WorkerStep, NEW b \in BankRow, p.status # "NONE", ~p.paid, WorkerAgrees(p, w, b),
             pix' = [pix EXCEPT ![k] = p], worker' = [worker EXCEPT ![k] = w], bank' = [bank EXCEPT ![k] = b]
      PROVE  SaleInv'
  <2>1. RowsAgree(orders[k], p, w, b, delivery[k], books[k])
    BY <1>1, <1>4, <1>5, RowsWork
  <2>2. delivery[k] \in DeliveryStep /\ books[k] \in BookRow
    BY <1>1
  <2> QED
    BY <1>3, <1>5, <2>1, <2>2, OneRow
<1>6. ASSUME NEW w \in WorkerStep, worker' = [worker EXCEPT ![k] = w], UNCHANGED <<pix, bank>>,
             WorkerAgrees(pix[k], w, bank[k])
      PROVE  SaleInv'
  BY <1>1, <1>2, <1>4, <1>5, <1>6
<1>7. CASE readPayment(k)
  <2>1. PICK w \in {"CREATE", "FIND"} : worker' = [worker EXCEPT ![k] = w]
                                        /\ (w = "CREATE" <=> pix[k].status = "CREATED") /\ worker[k] = "IDLE"
    BY <1>7 DEF readPayment, Works
  <2>2. WorkerAgrees(pix[k], w, bank[k]) /\ w \in WorkerStep
    BY <1>1, <1>4, <2>1 DEF WorkerAgrees, WorkerStep
  <2> QED
    BY <1>6, <1>7, <2>1, <2>2 DEF readPayment
<1>8. CASE findCharge(k)
  <2> DEFINE w == IF bank[k].charge \in Paid THEN "SETTLE" ELSE "IDLE"
  <2>1. worker[k] = "FIND" /\ worker' = [worker EXCEPT ![k] = w] /\ UNCHANGED <<pix, bank>>
    BY <1>8 DEF findCharge, Works
  <2>2. WorkerAgrees(pix[k], w, bank[k]) /\ w \in WorkerStep
    BY <1>1, <1>4, <2>1 DEF WorkerAgrees, WorkerStep
  <2> QED
    BY <1>6, <2>1, <2>2
<1>9. CASE crash(k)
  <2>1. worker[k] # "IDLE" /\ worker' = [worker EXCEPT ![k] = "IDLE"] /\ UNCHANGED <<pix, bank>>
    BY <1>9 DEF crash, Works
  <2>2. WorkerAgrees(pix[k], "IDLE", bank[k]) /\ "IDLE" \in WorkerStep
    BY <1>1, <1>4, <2>1 DEF WorkerAgrees, WorkerStep
  <2> QED
    BY <1>6, <2>1, <2>2
<1>10. CASE requestCharge(k)
  <2> DEFINE p == Requested(pix[k])
  <2>1. /\ worker[k] = "CREATE" /\ worker' = [worker EXCEPT ![k] = "POST"] /\ bank' = [bank EXCEPT ![k] = bank[k]]
        /\ pix' = [pix EXCEPT ![k] = p]
    BY <1>2, <1>10 DEF requestCharge, Works
  <2>2. p \in Pix /\ p.status = "REQUESTED" /\ p.paid = pix[k].paid /\ "POST" \in WorkerStep
    BY <1>1 DEF Pix, Requested, WorkerStep
  <2> HIDE DEF p
  <2>3. WorkerAgrees(p, "POST", bank[k])
    BY <1>1, <1>4, <2>1, <2>2 DEF WorkerAgrees
  <2> QED
    BY <1>1, <1>4, <1>5, <2>1, <2>2, <2>3
<1>11. CASE postCharge(k)
  <2>1. PICK charge \in {"NONE", "ACTIVE"}, answer \in {"CREATED", "FAILED"} :
             /\ worker[k] = "POST" /\ worker' = [worker EXCEPT ![k] = answer] /\ pix' = pix
             /\ bank' = [bank EXCEPT ![k] = [posts |-> bank[k].posts + 1,
                                             charge |-> IF charge = "ACTIVE" THEN charge ELSE bank[k].charge]]
    BY <1>1, <1>11 DEF postCharge, Works, SaleRows
  <2>2. bank[k].posts = 0 /\ bank[k].charge = "NONE"
    BY <1>1, <2>1 DEF WorkerAgrees
  <2> DEFINE b == [posts |-> 1, charge |-> charge]
  <2>3. b \in BankRow /\ b.posts = 1 /\ b.charge \notin Paid /\ bank' = [bank EXCEPT ![k] = b]
    <3>1. (IF charge = "ACTIVE" THEN charge ELSE bank[k].charge) = charge /\ bank[k].posts + 1 = 1
      BY <2>1, <2>2
    <3>2. bank' = [bank EXCEPT ![k] = b]
      BY <2>1, <3>1
    <3>3. charge \in {"NONE", "ACTIVE"} \cup Paid /\ charge \notin Paid
      BY <2>1 DEF Paid
    <3>4. b \in BankRow
      BY <3>3 DEF BankRow
    <3> QED
      BY <3>2, <3>3, <3>4
  <2> HIDE DEF b
  <2>4. WorkerAgrees(pix[k], answer, b) /\ answer \in WorkerStep
    BY <1>1, <1>4, <2>1, <2>3 DEF WorkerAgrees, WorkerStep
  <2>5. pix' = [pix EXCEPT ![k] = pix[k]]
    BY <1>2, <2>1
  <2> QED
    BY <1>1, <1>4, <1>5, <2>1, <2>3, <2>4, <2>5
<1>12. CASE recordCharge(k) \/ recordFailure(k)
  <2>1. PICK s \in {"EXPIRED", "PENDING", "REVIEW_REQUIRED"} :
             /\ worker[k] \in {"CREATED", "FAILED"} /\ worker' = [worker EXCEPT ![k] = "IDLE"] /\ bank' = bank
             /\ pix' = [pix EXCEPT ![k].status = s]
    BY <1>12 DEF recordCharge, recordFailure, Works
  <2> DEFINE p == [pix[k] EXCEPT !.status = s]
  <2>2. p \in Pix /\ p.status = s /\ p.paid = pix[k].paid /\ pix' = [pix EXCEPT ![k] = p] /\ "IDLE" \in WorkerStep
    BY <1>1, <2>1 DEF Pix, SaleRows, WorkerStep
  <2> HIDE DEF p
  <2>3. WorkerAgrees(p, "IDLE", bank[k])
    BY <1>1, <1>4, <2>1, <2>2 DEF WorkerAgrees
  <2>4. bank' = [bank EXCEPT ![k] = bank[k]]
    BY <1>2, <2>1
  <2> QED
    BY <1>1, <1>4, <1>5, <2>1, <2>2, <2>3, <2>4
<1> QED
  BY <1>7, <1>8, <1>9, <1>10, <1>11, <1>12

\* The payment is recorded.
LEMMA settleSound ==
  ASSUME SaleInv, NEW k \in Carts, settlePix(k)
  PROVE  SaleInv'
<1>1. /\ orders[k] \in Order \cup {NoOrder} /\ pix[k] \in Pix /\ worker[k] \in WorkerStep /\ bank[k] \in BankRow
      /\ delivery[k] \in DeliveryStep /\ books[k] \in BookRow
      /\ RowsAgree(orders[k], pix[k], worker[k], bank[k], delivery[k], books[k])
      /\ SaleRows /\ WorkerAgrees(pix[k], worker[k], bank[k]) /\ worker[k] = "SETTLE"
  BY DEF SaleInv, SaleRows, SaleAgrees, Rows, RowsAgree, settlePix, Works
<1>2. pix[k].status # "NONE" /\ ~pix[k].paid /\ bank[k].charge \in Paid
  BY <1>1 DEF WorkerAgrees
<1>3. /\ orders[k] \in Order /\ orders[k] # NoOrder /\ orders[k].method = "PIX" /\ orders[k].approved
      /\ orders[k].status \notin Gone /\ books[k].entry = "NONE" /\ books[k].cash = 0
  BY <1>1, <1>2, RowsWork, OrderFields
<1> DEFINE p == [pix[k] EXCEPT !.paid = TRUE, !.refund = ~Accepts(k),
                               !.status = IF Accepts(k) THEN "PAID" ELSE "REVIEW_REQUIRED"]
           f == [entry |-> "CASH_ONLY", cash |-> 1]
<1>4. /\ pix' = [pix EXCEPT ![k] = p] /\ books' = [books EXCEPT ![k] = f] /\ worker' = [worker EXCEPT ![k] = "IDLE"]
      /\ bank' = [bank EXCEPT ![k] = bank[k]] /\ delivery' = [delivery EXCEPT ![k] = delivery[k]]
      /\ UNCHANGED <<mode, adjusted, cart, due>>
  <2>1. [pix EXCEPT ![k].paid = TRUE, ![k].refund = ~Accepts(k),
                    ![k].status = IF Accepts(k) THEN "PAID" ELSE "REVIEW_REQUIRED"] = [pix EXCEPT ![k] = p]
    BY <1>1 DEF SaleRows
  <2>2. pix' = [pix EXCEPT ![k] = p]
    BY <1>2, <2>1 DEF settlePix
  <2>3. books' = [books EXCEPT ![k] = [entry |-> "CASH_ONLY", cash |-> books[k].cash + 1]]
    BY <1>1, <1>2 DEF settlePix, SaleRows
  <2>4. UNCHANGED <<mode, adjusted, cart, due, bank, delivery>> /\ worker' = [worker EXCEPT ![k] = "IDLE"]
    BY DEF settlePix, Works
  <2> HIDE DEF p
  <2> QED
    BY <1>1, <1>3, <2>2, <2>3, <2>4, Rewritten
<1>5. /\ p \in Pix /\ p.paid /\ (p.refund <=> ~Accepts(k)) /\ p.status = (IF Accepts(k) THEN "PAID" ELSE "REVIEW_REQUIRED")
      /\ f \in BookRow /\ f.entry = "CASH_ONLY" /\ f.cash = 1 /\ "IDLE" \in WorkerStep
  <2>1. f \in BookRow /\ f.entry = "CASH_ONLY" /\ f.cash = 1 /\ "IDLE" \in WorkerStep
    BY DEF BookRow, WorkerStep
  <2> HIDE DEF f
  <2>2. CASE Accepts(k)
    <3>1. p = [pix[k] EXCEPT !.paid = TRUE, !.refund = FALSE, !.status = "PAID"]
      BY <2>2
    <3> HIDE DEF p
    <3>2. p \in Pix /\ p.status = "PAID" /\ p.paid /\ ~p.refund
      BY <1>1, <3>1, PixWritten
    <3> QED
      BY <2>1, <2>2, <3>2
  <2>3. CASE ~Accepts(k)
    <3>1. p = [pix[k] EXCEPT !.paid = TRUE, !.refund = TRUE, !.status = "REVIEW_REQUIRED"]
      BY <2>3
    <3> HIDE DEF p
    <3>2. p \in Pix /\ p.status = "REVIEW_REQUIRED" /\ p.paid /\ p.refund
      BY <1>1, <3>1, PixWritten
    <3> QED
      BY <2>1, <2>3, <3>2
  <2> QED
    BY <2>2, <2>3
<1>6. WorkerAgrees(p, "IDLE", bank[k])
  BY <1>1, <1>2, <1>5 DEF WorkerAgrees
<1>7. DeliveryAgrees(orders[k], delivery[k])
  BY <1>1, <1>3 DEF RowsAgree
<1> HIDE DEF p, f
<1>8. CASE ~Accepts(k)
  <2>1. UNCHANGED <<stockVars, orderVars>>
    BY <1>2, <1>4, <1>8 DEF settlePix, stockVars, orderVars
  <2>3. RowsAgree(orders[k], p, "IDLE", bank[k], delivery[k], f)
    <3>1. OrderAgrees(orders[k], pix[k], worker[k], bank[k])
      BY <1>1, <1>3 DEF RowsAgree
    <3>2. OrderAgrees(orders[k], p, "IDLE", bank[k])
      BY <1>3, <1>5, <1>8, <3>1 DEF OrderAgrees
    <3>3. BooksAgree(orders[k], p, f)
      BY <1>3, <1>5 DEF BooksAgree, Gone
    <3> QED
      BY <1>3, <1>6, <1>7, <3>2, <3>3 DEF RowsAgree
  <2> QED
    BY <1>1, <1>4, <1>5, <2>1, <2>3, OneRow
<1>9. CASE Accepts(k)
  <2> DEFINE o == [orders[k] EXCEPT !.status = "CONFIRMED"]
  <2>1. /\ balance' = [onHand |-> balance.onHand + Moved(orders[k], "CONFIRMED"),
                       reserved |-> balance.reserved - Freed(orders[k], "CONFIRMED")]
        /\ orders' = [orders EXCEPT ![k] = o]
        /\ orders[k].status = "WAITING_PAYMENT" /\ bank[k].charge = "EXACT"
    BY <1>1, <1>2, <1>9 DEF settlePix, Accepts, SaleRows, Rows
  <2>2. /\ o \in Order /\ o.status = "CONFIRMED" /\ o.method = "PIX" /\ o.approved /\ o.fulfillment = orders[k].fulfillment
        /\ o.quantity = orders[k].quantity /\ o.stocked = orders[k].stocked
    BY <1>3 DEF Order, Released
  <2>3. o # NoOrder
    BY <2>2, OrderFields
  <2> HIDE DEF o
  <2>4. RowsAgree(o, p, "IDLE", bank[k], delivery[k], f)
    BY <1>5, <1>6, <1>7, <1>9, <2>1, <2>2, <2>3 DEF RowsAgree, OrderAgrees, BooksAgree, DeliveryAgrees, Gone, Released
  <2>5. SaleRows' /\ \A j \in Carts : SaleAgrees(j)'
    <3>1. SaleRows /\ orders \in Rows /\ pix \in [Carts -> Pix] /\ Agreeing(orders, pix) /\ o \in Order \cup {NoOrder}
      BY <2>2 DEF SaleInv, SaleRows, SaleAgrees, Agreeing
    <3>2. bank[k] \in BankRow /\ delivery[k] \in DeliveryStep /\ orders' = [orders EXCEPT ![k] = o]
      BY <1>1, <2>1
    <3> QED
      BY <1>4, <1>5, <2>4, <3>1, <3>2, OneCart
  <2>6. Balanced(balance, orders)'
    <3>1. adjusted \in Int /\ orders \in Rows /\ Balanced(balance, orders)
      BY DEF SaleInv, SaleRest, SaleRows
    <3>2. Onward(orders[k].status, o.status)
      BY <2>1, <2>2 DEF Onward, Holding
    <3>3. Balanced([onHand |-> balance.onHand + Moved(orders[k], o.status),
                    reserved |-> balance.reserved - Freed(orders[k], o.status)], [orders EXCEPT ![k] = o])
      BY <1>3, <2>2, <3>1, <3>2, MovesAccounted
    <3> QED
      BY <1>4, <2>1, <2>2, <3>3 DEF Balanced, Count, PiecesOf, In
  <2> QED
    BY <1>4, <2>5, <2>6 DEF SaleInv, SaleRest
<1> QED
  BY <1>8, <1>9

\* That a payment is old says nothing of the other rows.
LEMMA windowSound ==
  ASSUME SaleInv, NEW k \in Carts, windowPasses(k)
  PROVE  SaleInv'
<1> DEFINE p == [pix[k] EXCEPT !.old = TRUE]
<1>1. /\ SaleRows /\ pix[k] \in Pix /\ worker[k] \in WorkerStep /\ bank[k] \in BankRow
      /\ delivery[k] \in DeliveryStep /\ books[k] \in BookRow
      /\ RowsAgree(orders[k], pix[k], worker[k], bank[k], delivery[k], books[k])
  BY DEF SaleInv, SaleRows, SaleAgrees, Rows
<1>2. p \in Pix /\ p.status = pix[k].status /\ p.paid = pix[k].paid /\ p.refund = pix[k].refund
  BY <1>1 DEF Pix
<1>3. /\ pix' = [pix EXCEPT ![k] = p] /\ worker' = [worker EXCEPT ![k] = worker[k]]
      /\ bank' = [bank EXCEPT ![k] = bank[k]] /\ delivery' = [delivery EXCEPT ![k] = delivery[k]]
      /\ books' = [books EXCEPT ![k] = books[k]] /\ UNCHANGED <<stockVars, orderVars>>
  BY <1>1, Rewritten DEF windowPasses, SaleRows
<1> HIDE DEF p
<1>4. RowsAgree(orders[k], p, worker[k], bank[k], delivery[k], books[k])
  BY <1>1, <1>2 DEF RowsAgree, OrderAgrees, WorkerAgrees, BooksAgree, NotAsked
<1> QED
  BY <1>1, <1>2, <1>3, <1>4, OneRow

LEMMA SaleStep ==
  ASSUME SaleInv, [SaleNext]_saleVars
  PROVE  SaleInv'
<1>1. ASSUME Shopping PROVE SaleInv'
  BY <1>1, checkoutSound, SaleRestStep DEF Shopping
<1>2. ASSUME Store PROVE SaleInv'
  BY <1>2, transitionSound, SaleRestStep, outsideSound DEF Store
<1>3. ASSUME NEW k \in Carts, PixWorker(k) PROVE SaleInv'
  BY <1>3, workerSound, settleSound DEF PixWorker
<1>4. ASSUME NEW k \in Carts, Outside(k) PROVE SaleInv'
  BY <1>4, SaleRestStep, outsideSound, windowSound DEF Outside
<1> QED
  BY <1>1, <1>2, <1>3, <1>4, expireSound, fulfillSound, SaleRestStep DEF SaleNext

LEMMA SaleBegins ==
  ASSUME SaleInit
  PROVE  SaleInv
<1>1. /\ orders = [k \in Carts |-> NoOrder] /\ pix = [k \in Carts |-> NoPix] /\ worker = [k \in Carts |-> "IDLE"]
      /\ bank = [k \in Carts |-> [posts |-> 0, charge |-> "NONE"]] /\ delivery = [k \in Carts |-> "NONE"]
      /\ books = [k \in Carts |-> [entry |-> "NONE", cash |-> 0]]
      /\ balance = [onHand |-> 0, reserved |-> 0] /\ adjusted = 0
  BY DEF SaleInit
<1>2. NoPix \in Pix /\ NoPix.status = "NONE" /\ ~NoPix.paid
  BY DEF NoPix, Pix
<1>3. SaleRows
  BY <1>1, <1>2 DEF SaleRows, Rows, WorkerStep, BankRow, DeliveryStep, BookRow
<1>4. ASSUME NEW k \in Carts PROVE SaleAgrees(k)
  <2>1. /\ orders[k] = NoOrder /\ pix[k].status = "NONE" /\ ~pix[k].paid /\ worker[k] = "IDLE" /\ bank[k].posts = 0
        /\ bank[k].charge = "NONE" /\ delivery[k] = "NONE" /\ books[k].entry = "NONE" /\ books[k].cash = 0
    BY <1>1, <1>2
  <2> QED
    BY <2>1 DEF SaleAgrees, RowsAgree, NotAsked, WorkerAgrees
<1>5. Balanced(balance, orders)
  <2>1. In(orders, Holding) = {} /\ In(orders, Gone) = {}
    BY <1>1 DEF In
  <2>2. PiecesOf(orders, {}) = {}
    BY DEF PiecesOf
  <2>3. Count(orders, Holding) = 0 /\ Count(orders, Gone) = 0
    BY <2>1, <2>2, FS_EmptySet DEF Count
  <2> QED
    BY <1>1, <2>3 DEF Balanced
<1>6. SaleRest
  BY CommerceConstants DEF SaleInit, SaleRest
<1> QED
  BY <1>3, <1>4, <1>5, <1>6 DEF SaleInv

\* What the runs check is in the invariant.
LEMMA SaleTypes ==
  ASSUME SaleInv
  PROVE  SaleTypeOK /\ StockIsAccounted
<1>1. Count(orders, Holding) \in Nat /\ Count(orders, Gone) \in Nat
  BY PiecesIn DEF Count, In, SaleInv, SaleRows
<1>2. balance \in [onHand : 0..MaxStock, reserved : 0..MaxStock]
  <2>1. balance.onHand \in 0..MaxStock /\ balance.reserved \in 0..MaxStock
    BY <1>1, CommerceConstants DEF SaleInv, SaleRest, Balanced
  <2> QED
    BY <2>1 DEF SaleInv, Balanced
<1>3. In(orders, Holding) = InStatus(Holding) /\ In(orders, Gone) = InStatus(Gone)
  BY DEF In, InStatus, Placed
<1>4. Count(orders, Holding) = Units(InStatus(Holding)) /\ Count(orders, Gone) = Units(InStatus(Gone))
  BY <1>3 DEF Count, Units, Pieces, PiecesOf
<1>5. StockIsAccounted
  BY <1>4 DEF SaleInv, Balanced, StockIsAccounted, Gone
<1>6. SaleTypeOK
  BY <1>2 DEF SaleInv, SaleRest, SaleRows, Rows, SaleTypeOK, WorkerStep, BankRow, DeliveryStep, BookRow
<1> QED
  BY <1>5, <1>6

LEMMA SaleMeans ==
  ASSUME SaleInv
  PROVE  MoneyIsHonoured /\ OneChargePerOrder /\ SaleIsSettled
<1>1. ASSUME NEW k \in Placed
      PROVE  /\ k \in Carts /\ orders[k] \in Order /\ books[k] \in BookRow /\ delivery[k] \in DeliveryStep
             /\ OrderAgrees(orders[k], pix[k], worker[k], bank[k]) /\ BooksAgree(orders[k], pix[k], books[k])
             /\ DeliveryAgrees(orders[k], delivery[k])
  BY DEF SaleInv, SaleRows, Rows, SaleAgrees, RowsAgree, Placed
<1>2. MoneyIsHonoured
  BY <1>1 DEF MoneyIsHonoured, OrderAgrees, Gone
<1>3. OneChargePerOrder
  <2> SUFFICES ASSUME NEW k \in Carts PROVE bank[k].posts <= 1 /\ (bank[k].posts = 1 => orders[k].approved)
    BY DEF OneChargePerOrder
  <2>1. bank[k].posts \in 0..1
    BY DEF SaleInv, SaleRows, BankRow
  <2>2. CASE k \in Placed
    BY <1>1, <2>1, <2>2 DEF OrderAgrees, NotAsked
  <2>3. CASE k \notin Placed
    <3>1. bank[k].posts = 0
      BY <2>3 DEF Placed, SaleInv, SaleAgrees, RowsAgree, NotAsked
    <3> QED
      BY <3>1
  <2> QED
    BY <2>2, <2>3
<1>4. BooksMatchTheSale
  <2> SUFFICES ASSUME NEW k \in Placed
               PROVE  /\ books[k].entry = "REVENUE" <=> orders[k].status = "COMPLETED"
                      /\ books[k].cash <= 1 /\ (pix[k].paid => books[k].cash = 1)
                      /\ books[k].cash > 0 /\ ~pix[k].paid => orders[k].method = "CARD_PRESENT"
    BY DEF BooksMatchTheSale
  <2>1. books[k].cash \in 0..1 /\ orders[k].method \in {"PIX", "CARD_PRESENT"}
    BY <1>1, OrderFields DEF BookRow
  <2> QED
    BY <1>1, <2>1 DEF BooksAgree
<1>5. DeliveryAgreesWithOrder
  <2> SUFFICES ASSUME NEW k \in InStatus(Ended)
               PROVE  \/ delivery[k] = "NONE"
                      \/ <<orders[k].status, delivery[k]>> \in {<<"COMPLETED", "DELIVERED">>, <<"CANCELLED", "CANCELLED">>}
    BY DEF DeliveryAgreesWithOrder
  <2>1. k \in Placed /\ orders[k].status \in Ended
    BY DEF InStatus
  <2> QED
    BY <1>1, <2>1 DEF DeliveryAgrees, DeliveryStep, Ended
<1> QED
  BY <1>2, <1>3, <1>4, <1>5 DEF SaleIsSettled

SaleSpec == SaleInit /\ [][SaleNext]_saleVars

\* The sales by themselves.
LEMMA SaleKept == SaleSpec => []SaleInv
BY SaleBegins, SaleStep, PTL DEF SaleSpec

LEMMA CommerceSells == Spec => []SaleInv
<1>1. Init => SaleInit
  BY DEF Init
<1>2. [Next]_vars => [SaleNext]_saleVars
  BY DEF Next, vars
<1> QED BY <1>1, <1>2, SaleKept, PTL DEF Spec, SaleSpec

\* Safety of the stock: nothing leaks and nothing is sold twice, for any number of carts, quantities
\* and products that change between counted and made to order.
THEOREM CommerceStock == Spec => []StockIsAccounted
BY CommerceSells, SaleTypes, PTL

\* Safety of the money: what the bank confirmed released an order that is served or is marked to be
\* given back, whoever cancelled or let expire the order while the worker looked for the payment.
THEOREM CommerceMoney == Spec => []MoneyIsHonoured
BY CommerceSells, SaleMeans, PTL

\* The order, its delivery and its entries in the books agree once they are over.
THEOREM CommerceSettles == Spec => []SaleIsSettled
BY CommerceSells, SaleMeans, PTL

\* Safety of the charges: one request for a charge per order, after the store approved it and however
\* often the worker crashed; with the connection authorised last; from the account it was made in.
THEOREM CommerceCharges == Spec => []ChargesAreSound
BY CommerceSells, SaleMeans, CommerceAccessIsSound, PTL DEF ChargesAreSound

\* Types, of all that the shop keeps.
THEOREM CommerceTypes == Spec => []TypeOK
<1>1. Init => SaleInit /\ FilesInit /\ BankInit
  BY DEF Init
<1>2. [Next]_vars => [FilesNext]_fileVars /\ [BankNext]_bankVars
  BY DEF Next, vars
<1>3. FilesInv => FilesTypeOK
  BY DEF FilesInv
<1>4. BankInv => BankTypeOK
  BY DEF BankInv
<1>5. FilesSpec => []FilesInv
  BY FilesKept
<1>6. BankSpec => []BankInv
  BY AccessKept
<1>7. SaleTypeOK /\ FilesTypeOK /\ BankTypeOK => TypeOK
  BY DEF TypeOK
<1> QED
  BY <1>1, <1>2, <1>3, <1>4, <1>5, <1>6, <1>7, CommerceSells, SaleTypes, PTL DEF Spec, FilesSpec, BankSpec
=============================================================================

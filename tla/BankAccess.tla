----------------------------- MODULE BankAccess -----------------------------
(***************************************************************************)
(* The access to the bank account of one company (integrations/btg): the    *)
(* platform binds the company to an application, a manager authorises it at *)
(* the bank in a browser, and workers charge with the connection that comes *)
(* of it.  An authorisation is three transactions and a request to the bank *)
(* in between; several of them, and changes of the binding, may overlap.    *)
(* Only the production mode is modelled; a payment is what the binding and  *)
(* the webhook look at (Orders has the rest of it).                         *)
(***************************************************************************)
EXTENDS Naturals, FiniteSets

CONSTANTS Application,  \* revisions of an application, immutable: a client of the bank each
          Attempt,      \* authorisations
          Payment,      \* payments by PIX
          MaxVersion    \* a bound: bindings

ASSUME BankAccessAssumption == MaxVersion \in Nat /\ IsFiniteSet(Attempt)

VARIABLES
  binding,     \* company_service_settings: version, application, enabled
  attempt,     \* attempt[t]: how far it is, the binding it saw, its turn among those begun
  session,     \* btg_authorization_sessions: the attempt begun last
  connection,  \* btg_authorizations
  payment,     \* commerce_pix_payments
  holds        \* holds[p]: the version of the connection that a worker has for p

bankVars == <<binding, attempt, session, connection, payment, holds>>

Unbound == [version |-> 0, application |-> {}, enabled |-> FALSE]
NotTried == [step |-> "NONE", saw |-> Unbound, turn |-> 0]
NoSession == [attempt |-> {}, consumed |-> FALSE, valid |-> FALSE]
NoConnection == [version |-> 0, application |-> {}, turn |-> 0]
NoPayment == [status |-> "NONE", version |-> 0, recent |-> TRUE]

BankTypeOK ==
  LET Bindings == [version : 0..MaxVersion, application : SUBSET Application, enabled : BOOLEAN]
  IN  /\ binding \in Bindings
      /\ attempt \in [Attempt -> [step : {"NONE", "READ", "SENT", "CONSUMED", "GRANTED", "SAVED", "ENDED"},
                                  saw : Bindings, turn : 0..Cardinality(Attempt)]]
      /\ session \in [attempt : SUBSET Attempt, consumed : BOOLEAN, valid : BOOLEAN]
      /\ connection \in [version : 0..MaxVersion, application : SUBSET Application,
                         turn : 0..Cardinality(Attempt)]
      /\ payment \in [Payment -> [status : {"NONE", "CREATED", "REQUESTED", "EXPIRED", "PAID", "REFUND"},
                                  version : 0..MaxVersion, recent : BOOLEAN]]
      /\ holds \in [Payment -> 0..MaxVersion]

BankInit ==
  /\ binding = Unbound /\ session = NoSession /\ connection = NoConnection
  /\ attempt = [t \in Attempt |-> NotTried]
  /\ payment = [p \in Payment |-> NoPayment] /\ holds = [p \in Payment |-> 0]

(***************************************************************************)
(* The platform binds the company.                                         *)
(***************************************************************************)
\* btg_activation_has_pending.  REQUESTED stands for PENDING and REVIEW_REQUIRED too.
Pending(p) ==
  \/ payment[p].status \in {"CREATED", "REQUESTED", "REFUND"}
  \/ payment[p].status = "EXPIRED" /\ payment[p].recent

\* The stores of the company are locked: no payment appears meanwhile.
bindCompany(a, enabled) ==
  /\ binding.version < MaxVersion
  /\ \A p \in Payment : ~Pending(p)
  /\ binding' = [version |-> binding.version + 1, application |-> {a}, enabled |-> enabled]
  /\ UNCHANGED <<attempt, session, connection, payment, holds>>

(***************************************************************************)
(* A manager authorises.                                                   *)
(***************************************************************************)
\* resolveCompanyService finds the application that is bound, never an older one.
companyServiceConfigured == binding.enabled /\ binding.application # {}

Goes(t, from, to) == attempt[t].step = from /\ attempt' = [attempt EXCEPT ![t].step = to]

\* The ticket carries the configuration that it saw.
createState(t) ==
  /\ attempt[t].step = "NONE" /\ companyServiceConfigured
  /\ attempt' = [attempt EXCEPT ![t] = [step |-> "READ", saw |-> binding, turn |-> 0]]
  /\ UNCHANGED <<binding, session, connection, payment, holds>>

\* First in the three transactions of the store, which lock the binding for it.
assertStateCredentials(t) == attempt[t].saw = binding

Begun == {t \in Attempt : attempt[t].turn > 0}

begin(t) ==
  /\ attempt[t].step = "READ" /\ assertStateCredentials(t)
  /\ attempt' = [attempt EXCEPT ![t].step = "SENT", ![t].turn = 1 + Cardinality(Begun)]
  /\ session' = [attempt |-> {t}, consumed |-> FALSE, valid |-> TRUE]
  /\ UNCHANGED <<binding, connection, payment, holds>>

sessionExpires ==
  /\ session.valid /\ session' = [session EXCEPT !.valid = FALSE]
  /\ UNCHANGED <<binding, attempt, connection, payment, holds>>

\* The callback, once: its consumption is committed before any request to the bank, which
\* may have refused.
consume(t) ==
  /\ assertStateCredentials(t)
  /\ session.attempt = {t} /\ session.valid /\ ~session.consumed
  /\ session' = [session EXCEPT !.consumed = TRUE]
  /\ Goes(t, "SENT", "CONSUMED") \/ Goes(t, "SENT", "ENDED")
  /\ UNCHANGED <<binding, connection, payment, holds>>

exchangeCode(t) ==
  /\ Goes(t, "CONSUMED", "GRANTED") \/ Goes(t, "CONSUMED", "ENDED")
  /\ UNCHANGED <<binding, session, connection, payment, holds>>

\* Mutant: the tokens are kept whatever was begun meanwhile.
StillNewestAnyway(t) == session.consumed /\ session.valid

StillNewest(t) == session.attempt = {t} /\ session.consumed /\ session.valid

save(t) ==
  /\ attempt[t].step = "GRANTED" /\ assertStateCredentials(t) /\ StillNewest(t)
  /\ Goes(t, "GRANTED", "SAVED")
  /\ connection' = [version |-> binding.version, application |-> binding.application,
                    turn |-> attempt[t].turn]
  /\ UNCHANGED <<binding, session, payment, holds>>

(***************************************************************************)
(* Payments.                                                               *)
(***************************************************************************)
\* The connection is of the present binding.  Tokens about to expire are renewed under its
\* lock, or there is none; neither changes what is modelled.
pixConnection ==
  /\ companyServiceConfigured /\ connection.version = binding.version
  /\ connection.application = binding.application

approved(p) ==
  /\ payment[p].status = "NONE" /\ payment' = [payment EXCEPT ![p].status = "CREATED"]
  /\ UNCHANGED <<binding, attempt, session, connection, holds>>

readConnection(p) ==
  /\ payment[p].status = "CREATED" /\ holds[p] = 0 /\ pixConnection
  /\ holds' = [holds EXCEPT ![p] = binding.version]
  /\ UNCHANGED <<binding, attempt, session, connection, payment>>

\* The statement before the POST looks at nothing again; or the worker gives up.
requestWith(p) ==
  /\ holds[p] # 0 /\ holds' = [holds EXCEPT ![p] = 0]
  /\ \/ UNCHANGED payment
     \/ payment' = [payment EXCEPT ![p].status = "REQUESTED", ![p].version = holds[p]]
  /\ UNCHANGED <<binding, attempt, session, connection>>

\* Time is over, or somebody cancels the order; seven days after its creation nobody looks
\* for a payment any more.  A bound: a worker holds a connection for less.
paymentEnds(p) ==
  /\ \/ /\ payment[p].status \in {"CREATED", "REQUESTED"}
        /\ payment' = [payment EXCEPT ![p].status = "EXPIRED"]
     \/ /\ payment[p].status = "EXPIRED" /\ payment[p].recent /\ holds[p] = 0
        /\ payment' = [payment EXCEPT ![p].recent = FALSE]
  /\ UNCHANGED <<binding, attempt, session, connection, holds>>

\* May the bank still tell of money for p?
Chargeable(p) == payment[p].version # 0 /\ payment[p].status \in {"REQUESTED", "EXPIRED"} /\ payment[p].recent

\* The charge is found paid: it releases its order, or is to be given back.
settle(p) ==
  /\ Chargeable(p) /\ pixConnection
  /\ \E as \in {"PAID", "REFUND"} : payment' = [payment EXCEPT ![p].status = as]
  /\ UNCHANGED <<binding, attempt, session, connection, holds>>

BankNext ==
  \/ \E a \in Application, enabled \in BOOLEAN : bindCompany(a, enabled)
  \/ \E t \in Attempt : createState(t) \/ begin(t) \/ consume(t) \/ exchangeCode(t) \/ save(t)
  \/ sessionExpires
  \/ \E p \in Payment : approved(p) \/ readConnection(p) \/ requestWith(p) \/ paymentEnds(p) \/ settle(p)

(***************************************************************************)
(* Properties.                                                             *)
(***************************************************************************)
\* The payments that the webhook finds for a charge of the application a.
Matches(a, p) ==
  binding.enabled /\ binding.application = {a} /\ Chargeable(p) /\ payment[p].version = binding.version

\* "an older callback cannot replace a newer connection", and what was granted to another
\* application never serves the one that is bound.
ConnectionIsTheNewest ==
  /\ \A t \in Attempt : attempt[t].step = "SAVED" => connection.turn >= attempt[t].turn
  /\ connection.version = binding.version => connection.application = binding.application

\* "Credential changes cannot redirect or settle an existing payment for another account":
\* as long as money may come for a charge, the company stays bound as it was when the
\* charge was requested, so that the webhook of that application finds it.
ChargesKeepTheirAccount ==
  \A p \in Payment : Chargeable(p) => \E a \in Application : Matches(a, p)
=============================================================================

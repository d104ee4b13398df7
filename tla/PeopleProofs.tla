---------------------------- MODULE PeopleProofs ----------------------------
(***************************************************************************)
(* Safety of what is kept about one person and about the invoices of a     *)
(* unit, for any number of requests, sessions, papers, disputes, managers, *)
(* rides, invoices and days.  Each part is proved from its own steps; the  *)
(* last section says that the steps of People are steps of the parts.      *)
(***************************************************************************)
EXTENDS People, FiniteSetTheorems, WellFoundedInduction, TLAPS

(***************************************************************************)
(* Billing.                                                                *)
(***************************************************************************)
\* Who is delinquent was told a day before his time was over.
Announced == \A k \in Charge : invoice[k].status = "DELINQUENT" => invoice[k].notified < invoice[k].suspension

\* A block in force is not under a waiver, and has its reason.
HeldForDebt ==
  /\ hold.blocked => hold.exists
  /\ hold.blocked /\ ~hold.released => hold.waiver <= day /\ Delinquent(invoice) # {}

BillingInv == BillingTypeOK /\ Announced /\ HeldForDebt

\* A block that begins.
BeginsEarned ==
  ~Blocked /\ Blocked' =>
    \E k \in Delinquent(invoice') : invoice'[k].notified < day /\ invoice'[k].suspension <= day

LEMMA MaxOfTwo ==
  ASSUME NEW a \in Nat, NEW b \in Nat
  PROVE  Max({a, b}) \in Nat /\ Max({a, b}) >= a
<1>1. \E x \in {a, b} : \A y \in {a, b} : x >= y
  <2>1. CASE a >= b
    BY <2>1
  <2>2. CASE ~(a >= b)
    BY <2>2
  <2> QED
    BY <2>1, <2>2
<1>2. Max({a, b}) \in {a, b} /\ \A y \in {a, b} : Max({a, b}) >= y
  BY <1>1 DEF Max
<1> QED
  BY <1>2

LEMMA LeastOf ==
  ASSUME NEW T \in SUBSET Nat, T # {}
  PROVE  Min(T) \in T
<1>1. PICK n \in T : TRUE
  OBVIOUS
<1> DEFINE Small == {i \in T : i <= n}
           Below(i) == {j \in 0..n : j < i}
           Initials == {Below(i) : i \in Small}
<1>2. Initials \subseteq FiniteSubsetsOf(0..n) /\ Initials # {}
  <2>1. IsFiniteSet(0..n)
    BY FS_Interval
  <2>2. \A i \in Small : Below(i) \subseteq 0..n /\ IsFiniteSet(Below(i))
    BY <2>1, FS_Subset
  <2>3. n \in Small
    OBVIOUS
  <2> HIDE DEF Below, Small
  <2> QED
    BY <2>2, <2>3 DEF FiniteSubsetsOf
<1>3. PICK A \in Initials : \A B \in Initials : <<B, A>> \notin StrictSubsetOrdering(0..n)
  BY <1>2, WFMin, FS_StrictSubsetOrderingWellFounded
<1>4. PICK m \in Small : A = Below(m)
  OBVIOUS
<1>5. ASSUME NEW i \in Small, i < m PROVE FALSE
  <2>1. Below(i) \subseteq Below(m) /\ i \in Below(m) /\ i \notin Below(i)
    BY <1>5
  <2>2. Below(i) \in SUBSET (0..n) /\ Below(m) \in SUBSET (0..n)
    OBVIOUS
  <2> HIDE DEF Below
  <2>3. <<Below(i), Below(m)>> \in StrictSubsetOrdering(0..n)
    BY <2>1, <2>2 DEF StrictSubsetOrdering
  <2> QED
    BY <1>3, <1>4, <2>3
<1>6. m \in T /\ \A y \in T : m <= y
  BY <1>5
<1> QED
  BY <1>6 DEF Min

LEMMA AgedRow ==
  ASSUME BillingAssumption, BillingTypeOK, NEW row \in InvoiceRow,
         row.status = "DELINQUENT" => row.notified < row.suspension
  PROVE  /\ Aged(row) \in InvoiceRow
         /\ Aged(row).status = "DELINQUENT" => Aged(row).notified < Aged(row).suspension
<1>1. /\ day \in Nat /\ terms.grace \in Nat
      /\ row.due \in Nat /\ row.total \in {0, Total} /\ row.paid \in 0..Total /\ row.paid <= row.total
      /\ row.notified \in Nat /\ row.suspension \in Nat
  <2>1. day \in Nat /\ terms.grace \in Nat
    <3>1. terms \in Profiles => terms.grace \in Nat
      BY DEF BillingAssumption, Profiles
    <3>2. terms = NoProfile => terms.grace \in Nat
      BY DEF NoProfile
    <3> QED
      BY <3>1, <3>2 DEF BillingTypeOK
  <2> QED
    BY <2>1 DEF InvoiceRow
<1> DEFINE until == Max({day + 1, row.due + terms.grace})
<1>2. until \in Nat /\ day < until
  <2>1. day + 1 \in Nat /\ row.due + terms.grace \in Nat
    BY <1>1
  <2>2. until \in Nat /\ until >= day + 1
    BY <2>1, MaxOfTwo
  <2> QED
    BY <1>1, <2>2
<1>3. Aged(row) = row \/ Aged(row) = [row EXCEPT !.status = "OVERDUE"]
      \/ Aged(row) = [row EXCEPT !.status = "DELINQUENT", !.notified = day, !.suspension = until]
  BY DEF Aged
<1> HIDE DEF until
<1>4. CASE Aged(row) = row
  BY <1>4
<1>5. CASE Aged(row) = [row EXCEPT !.status = "OVERDUE"]
  BY <1>5 DEF InvoiceRow
<1>6. CASE Aged(row) = [row EXCEPT !.status = "DELINQUENT", !.notified = day, !.suspension = until]
  BY <1>1, <1>2, <1>6 DEF InvoiceRow
<1> QED
  BY <1>3, <1>4, <1>5, <1>6

\* The rows are written, and the hold is reconciled with them.
LEMMA Reconciles ==
  ASSUME BillingAssumption, BillingInv, UNCHANGED <<terms, day>>, invoice' \in [Charge -> InvoiceRow], Announced',
         hold' = Reconciled(invoice')
  PROVE  BillingInv' /\ (Blocked' => Blocked)
<1>1. Never \in Nat
  BY DEF Never, BillingAssumption
<1>2. CASE Delinquent(invoice') = {} /\ ~hold.released
  <2>1. hold' = [hold EXCEPT !.released = hold.exists, !.scheduled = Never]
    BY <1>2 DEF Reconciled
  <2> QED
    BY <1>1, <1>2, <2>1 DEF BillingInv, BillingTypeOK, HoldRow, HeldForDebt, Blocked
<1>3. CASE ~(Delinquent(invoice') = {} /\ ~hold.released)
  BY <1>3 DEF Reconciled, BillingInv, BillingTypeOK, HeldForDebt, Blocked
<1> QED
  BY <1>2, <1>3

LEMMA Rows ==
  ASSUME BillingAssumption
  PROVE  /\ NotDrawn \in InvoiceRow /\ NotDrawn.status = "NONE"
         /\ \A due \in Nat, total \in {0, Total} :
              Draft(due, total) \in InvoiceRow /\ Draft(due, total).status = "DRAFT"
<1>1. Never \in Nat /\ Total \in Nat
  BY DEF Never, Total, BillingAssumption
<1>2. NotDrawn \in InvoiceRow /\ NotDrawn.status = "NONE"
  BY <1>1 DEF NotDrawn, InvoiceRow
<1>3. ASSUME NEW due \in Nat, NEW total \in {0, Total}
      PROVE  Draft(due, total) \in InvoiceRow /\ Draft(due, total).status = "DRAFT"
  <2>1. NotDrawn.paid = 0
    BY DEF NotDrawn
  <2>2. 0 \in 0..Total /\ 0 <= total
    BY <1>1
  <2> QED
    BY <1>2, <2>1, <2>2 DEF Draft, InvoiceRow
<1> QED
  BY <1>2, <1>3

\* Rows other than those of delinquent invoices.
LEMMA Drafts ==
  ASSUME BillingInv, UNCHANGED <<terms, hold, day>>, invoice' \in [Charge -> InvoiceRow],
         \A k \in Charge :
           invoice'[k] # invoice[k] => invoice[k].status # "DELINQUENT" /\ invoice'[k].status # "DELINQUENT"
  PROVE  BillingInv' /\ BeginsEarned
<1>1. Delinquent(invoice') = Delinquent(invoice)
  BY DEF Delinquent
<1>2. Announced'
  BY DEF BillingInv, Announced
<1> QED
  BY <1>1, <1>2 DEF BillingInv, BillingTypeOK, HeldForDebt, BeginsEarned, Blocked

LEMMA createInvoiceSound ==
  ASSUME BillingAssumption, BillingInv, NEW k \in Charge, NEW due \in Dues, createInvoice(k, due)
  PROVE  BillingInv' /\ BeginsEarned
<1>1. Draft(due, Total) \in InvoiceRow /\ Draft(due, Total).status = "DRAFT"
  BY Rows DEF BillingAssumption
<1> QED
  BY <1>1, Drafts DEF createInvoice, BillingInv, BillingTypeOK

LEMMA editInvoiceSound ==
  ASSUME BillingAssumption, BillingInv, NEW k \in Charge, NEW to \in Charge, NEW due \in Dues,
         editInvoice(k, to, due)
  PROVE  BillingInv' /\ BeginsEarned
<1> DEFINE draft == Draft(due, Total)
<1>1. draft \in InvoiceRow /\ draft.status = "DRAFT" /\ NotDrawn \in InvoiceRow /\ NotDrawn.status = "NONE"
  BY Rows DEF BillingAssumption
<1>2. /\ invoice \in [Charge -> InvoiceRow]
      /\ invoice' = [[invoice EXCEPT ![k] = NotDrawn] EXCEPT ![to] = draft]
      /\ UNCHANGED <<terms, hold, day>>
      /\ invoice[k].status = "DRAFT" /\ (to = k \/ invoice[to].status = "NONE")
  BY DEF editInvoice, BillingInv, BillingTypeOK
<1> HIDE DEF draft, NotDrawn
<1>3. invoice' \in [Charge -> InvoiceRow]
  BY <1>1, <1>2
<1>4. \A j \in Charge : \/ invoice'[j] = invoice[j]
                        \/ j \in {k, to} /\ invoice'[j] \in {NotDrawn, draft}
  BY <1>1, <1>2
<1>5. \A j \in Charge : invoice'[j] # invoice[j] =>
        invoice[j].status # "DELINQUENT" /\ invoice'[j].status # "DELINQUENT"
  BY <1>1, <1>2, <1>4
<1> QED
  BY <1>2, <1>3, <1>5, Drafts

\* One row is written, and the hold is reconciled.
LEMMA WritesSound ==
  ASSUME BillingAssumption, BillingInv, NEW k \in Charge, NEW row \in InvoiceRow, Writes(k, row),
         row.status = "DELINQUENT" => row.notified < row.suspension
  PROVE  BillingInv' /\ BeginsEarned
<1>1. invoice' \in [Charge -> InvoiceRow] /\ Announced'
  BY DEF Writes, BillingInv, BillingTypeOK, Announced
<1> QED
  BY <1>1, Reconciles DEF Writes, BeginsEarned

LEMMA issueInvoiceSound ==
  ASSUME BillingAssumption, BillingInv, NEW k \in Charge, issueInvoice(k)
  PROVE  BillingInv' /\ BeginsEarned
<1> DEFINE row == [invoice[k] EXCEPT !.status = "ISSUED"]
<1>1. row \in InvoiceRow /\ row.status = "ISSUED" /\ Writes(k, row)
  BY DEF issueInvoice, BillingInv, BillingTypeOK, InvoiceRow
<1> HIDE DEF row
<1> QED
  BY <1>1, WritesSound

LEMMA cancelInvoiceSound ==
  ASSUME BillingAssumption, BillingInv, NEW k \in Charge, cancelInvoice(k)
  PROVE  BillingInv' /\ BeginsEarned
<1> DEFINE row == [invoice[k] EXCEPT !.status = "CANCELLED"]
<1>1. row \in InvoiceRow /\ row.status = "CANCELLED" /\ Writes(k, row)
  BY DEF cancelInvoice, BillingInv, BillingTypeOK, InvoiceRow
<1> HIDE DEF row
<1> QED
  BY <1>1, WritesSound

LEMMA paymentSound ==
  ASSUME BillingAssumption, BillingInv, NEW k \in Charge, NEW amount \in 1..Total,
         registerInvoicePayment(k, amount)
  PROVE  BillingInv' /\ BeginsEarned
<1> DEFINE balance == invoice[k].total - invoice[k].paid
           row == [invoice[k] EXCEPT !.paid = invoice[k].paid + amount,
                                     !.status = IF amount = balance THEN "PAID" ELSE invoice[k].status]
<1>1. /\ invoice[k] \in InvoiceRow /\ amount \in Nat /\ amount <= balance
      /\ invoice[k].total \in {0, 2} /\ invoice[k].paid \in 0..2 /\ invoice[k].paid <= invoice[k].total
      /\ invoice[k].notified \in Nat /\ invoice[k].suspension \in Nat
  BY DEF registerInvoicePayment, BillingInv, BillingTypeOK, InvoiceRow, Total
<1>2. invoice[k].paid + amount \in 0..2 /\ invoice[k].paid + amount <= invoice[k].total
  BY <1>1
<1>3. /\ row \in InvoiceRow /\ row.status \in {"PAID", invoice[k].status}
      /\ row.notified = invoice[k].notified /\ row.suspension = invoice[k].suspension
  BY <1>1, <1>2 DEF InvoiceRow, Total
<1>4. Writes(k, row)
  BY <1>1 DEF registerInvoicePayment
<1> HIDE DEF row
<1> QED
  BY <1>3, <1>4, WritesSound DEF BillingInv, Announced

LEMMA waiveSound ==
  ASSUME BillingAssumption, BillingInv, NEW until \in 1..MaxDay + 1, waiveHold(until)
  PROVE  BillingInv' /\ BeginsEarned
<1>1. /\ hold' = [hold EXCEPT !.exists = TRUE, !.waiver = until, !.released = TRUE]
      /\ UNCHANGED <<terms, invoice, day>> /\ until \in Nat
  BY DEF waiveHold, BillingAssumption
<1>2. hold' \in HoldRow /\ hold'.released /\ hold'.exists
  BY <1>1 DEF BillingInv, BillingTypeOK, HoldRow
<1> QED
  BY <1>1, <1>2 DEF BillingInv, BillingTypeOK, Announced, HeldForDebt, BeginsEarned, Blocked

LEMMA batchSound ==
  ASSUME BillingAssumption, BillingInv, processBillingBatch
  PROVE  BillingInv' /\ BeginsEarned
<1>1. PICK begun \in BOOLEAN : invoice' = [k \in Charge |-> Aged(Drawn(begun)[k])]
  BY DEF processBillingBatch
<1>2. ASSUME NEW k \in Charge
      PROVE  /\ Drawn(begun)[k] \in InvoiceRow
             /\ Drawn(begun)[k].status = "DELINQUENT" => Drawn(begun)[k].notified < Drawn(begun)[k].suspension
  <2>1. terms.due \in Nat /\ terms.amount \in {0, Total}
    <3>1. terms \in Profiles => terms.due \in Nat /\ terms.amount \in {0, Total}
      BY DEF BillingAssumption, Profiles
    <3>2. terms = NoProfile => terms.due \in Nat /\ terms.amount \in {0, Total}
      BY DEF NoProfile
    <3> QED
      BY <3>1, <3>2 DEF BillingInv, BillingTypeOK
  <2>2. Draft(terms.due, terms.amount) \in InvoiceRow /\ Draft(terms.due, terms.amount).status = "DRAFT"
    BY <2>1, Rows
  <2>3. Drawn(begun)[k] \in {invoice[k], Draft(terms.due, terms.amount)}
    BY DEF Drawn, BillingInv, BillingTypeOK
  <2> QED
    BY <2>2, <2>3 DEF BillingInv, BillingTypeOK, Announced
<1>3. invoice' \in [Charge -> InvoiceRow] /\ Announced'
  <2>1. \A k \in Charge : /\ Aged(Drawn(begun)[k]) \in InvoiceRow
                          /\ Aged(Drawn(begun)[k]).status = "DELINQUENT" =>
                               Aged(Drawn(begun)[k]).notified < Aged(Drawn(begun)[k]).suspension
    BY <1>2, AgedRow DEF BillingInv
  <2> QED
    BY <1>1, <2>1 DEF Announced
<1> DEFINE deadlines == {invoice'[k].suspension : k \in Delinquent(invoice')}
<1>4. hold' = IF deadlines # {} THEN Enforced(Min(deadlines)) ELSE Reconciled(invoice')
  BY DEF processBillingBatch
<1>5. UNCHANGED <<terms, day>> /\ day \in Nat /\ hold \in HoldRow
  BY DEF processBillingBatch, BillingInv, BillingTypeOK
<1>6. CASE deadlines = {}
  BY <1>3, <1>4, <1>5, <1>6, Reconciles DEF BeginsEarned
<1>7. CASE deadlines # {}
  <2>1. deadlines \in SUBSET Nat
    BY <1>3 DEF Delinquent, InvoiceRow
  <2>2. Min(deadlines) \in deadlines
    BY <1>7, <2>1, LeastOf
  <2>3. PICK k \in Delinquent(invoice') : invoice'[k].suspension = Min(deadlines)
    BY <2>2
  <2> DEFINE at == Min(deadlines)
  <2>4. at \in Nat /\ hold' = Enforced(at) /\ k \in Charge
    BY <1>4, <1>7, <2>1, <2>2 DEF Delinquent
  <2>5. invoice'[k].notified \in Nat /\ invoice'[k].notified < at
    BY <1>3, <2>3, <2>4 DEF Announced, Delinquent, InvoiceRow
  <2> HIDE DEF at, deadlines
  <2>6. /\ hold' \in HoldRow /\ hold'.exists /\ hold'.waiver = hold.waiver
        /\ \/ hold'.blocked = hold.blocked /\ hold'.released = hold.released
           \/ at <= day /\ hold.waiver <= day
    BY <1>5, <2>4 DEF Enforced, HoldRow
  <2>7. HeldForDebt'
    <3>1. Delinquent(invoice') # {}
      BY <2>3
    <3> QED
      BY <1>5, <2>6, <3>1 DEF BillingInv, HeldForDebt
  <2>8. BeginsEarned
    <3> SUFFICES ASSUME ~Blocked, Blocked' PROVE invoice'[k].notified < day /\ invoice'[k].suspension <= day
      BY <2>3 DEF BeginsEarned
    <3>1. at <= day
      BY <1>5, <2>6 DEF Blocked
    <3> QED
      BY <1>5, <2>3, <2>4, <2>5, <3>1 DEF at
  <2> QED
    BY <1>3, <1>5, <2>6, <2>7, <2>8 DEF BillingInv, BillingTypeOK
<1> QED
  BY <1>6, <1>7

LEMMA dayPassesSound ==
  ASSUME BillingAssumption, BillingInv, dayPasses
  PROVE  BillingInv' /\ BeginsEarned
<1>1. /\ day \in Nat /\ hold.waiver \in Nat /\ day' = day + 1 /\ day' \in 0..MaxDay
      /\ UNCHANGED <<terms, invoice, hold>>
  BY DEF dayPasses, BillingInv, BillingTypeOK, BillingAssumption, HoldRow
<1>2. HeldForDebt' /\ (Blocked' => Blocked)
  BY <1>1 DEF BillingInv, HeldForDebt, Blocked
<1> QED
  BY <1>1, <1>2 DEF BillingInv, BillingTypeOK, Announced, BeginsEarned

LEMMA BillingStep ==
  ASSUME BillingAssumption, BillingInv, [BillingNext]_billingVars
  PROVE  BillingInv' /\ BeginsEarned
<1>1. ASSUME NEW input \in Profiles, saveBillingProfile(input) PROVE BillingInv' /\ BeginsEarned
  BY <1>1 DEF saveBillingProfile, BillingInv, BillingTypeOK, Announced, HeldForDebt, BeginsEarned, Blocked
<1>2. CASE UNCHANGED billingVars
  BY <1>2 DEF billingVars, BillingInv, BillingTypeOK, Announced, HeldForDebt, BeginsEarned, Blocked
<1> QED
  BY <1>1, <1>2, createInvoiceSound, editInvoiceSound, issueInvoiceSound, cancelInvoiceSound, paymentSound,
     waiveSound, batchSound, dayPassesSound DEF BillingNext

LEMMA BillingBegins ==
  ASSUME BillingAssumption, BillingInit
  PROVE  BillingInv
<1>1. NotDrawn \in InvoiceRow /\ NotDrawn.status = "NONE" /\ Never \in Nat /\ 0 \in 0..MaxDay
  BY Rows DEF Never, BillingAssumption
<1>2. NoHold \in HoldRow /\ NoHold.blocked = FALSE
  BY <1>1 DEF NoHold, HoldRow
<1> HIDE DEF NotDrawn, NoHold
<1> QED
  BY <1>1, <1>2 DEF BillingInit, BillingInv, BillingTypeOK, Announced, HeldForDebt

(***************************************************************************)
(* Disputes.                                                               *)
(***************************************************************************)
\* No row breaks its CHECK, one dispute at most is pending, and nobody decides on a
\* dispute that was not opened.
DisputesInv ==
  /\ DisputesTypeOK
  /\ \A d \in Dispute : Checked(dispute[d])
  /\ \A d, e \in Dispute : Pending(d) /\ Pending(e) => d = e
  /\ \A p \in Person : deciding[p] # <<>> => dispute[deciding[p][2]].status # "NONE"

NoneReopened ==
  \A d \in Dispute :
    /\ dispute[d].status = "RESOLVED" => dispute'[d].status = "RESOLVED"
    /\ \A e \in Dispute : d # e => ~(Pending(d)' /\ Pending(e)')

\* Only those who read a dispute before it was resolved may write over the outcome.
OutcomeFinal ==
  \A d \in Dispute : dispute[d].status = "RESOLVED" =>
    /\ Resolving(d)' \subseteq Resolving(d)
    /\ dispute'[d].outcome # dispute[d].outcome => Resolving(d)' # Resolving(d)

VerdictKept ==
  \A d \in Dispute :
    /\ dispute[d].status = "RESOLVED" =>
         /\ dispute'[d].status = "RESOLVED"
         /\ Resolving(d)' \subseteq Resolving(d)
         /\ dispute'[d].outcome # dispute[d].outcome => Resolving(d)' # Resolving(d)
    /\ \A e \in Dispute : d # e => ~(Pending(d)' /\ Pending(e)')

LEMMA VerdictParts ==
  ASSUME NoneReopened, OutcomeFinal
  PROVE  VerdictKept
BY DEF NoneReopened, OutcomeFinal, VerdictKept

DisputeRow == [status : {"NONE", "OPEN", "UNDER_REVIEW", "RESOLVED"},
               outcome : Outcome \cup {NoOutcome}, due : BOOLEAN, evidence : BOOLEAN]

\* One row is written, within its CHECK, and never takes a dispute back.
LEMMA DisputeWritten ==
  ASSUME DisputesInv, NEW d \in Dispute, NEW row \in DisputeRow,
         dispute' = [dispute EXCEPT ![d] = row],
         deciding' = deciding \/ \E p \in Person : deciding' = [deciding EXCEPT ![p] = <<>>],
         Checked(row), row.status # "NONE",
         dispute[d].status = "RESOLVED" => row.status = "RESOLVED",
         row.status # "RESOLVED" => Pending(d) \/ \A e \in Dispute : ~Pending(e)
  PROVE  DisputesInv' /\ NoneReopened
<1>1. /\ dispute \in [Dispute -> DisputeRow] /\ dispute' \in [Dispute -> DisputeRow]
      /\ dispute'[d] = row /\ \A e \in Dispute : e # d => dispute'[e] = dispute[e]
  BY DEF DisputesInv, DisputesTypeOK, DisputeRow
<1>2. \A e \in Dispute : Pending(e)' => Pending(e) \/ (e = d /\ row.status # "RESOLVED")
  BY <1>1 DEF Pending
<1>3. \A e, f \in Dispute : Pending(e)' /\ Pending(f)' => e = f
  <2> SUFFICES ASSUME NEW e \in Dispute, NEW f \in Dispute, Pending(e)', Pending(f)', e # f PROVE FALSE
    OBVIOUS
  <2>1. CASE Pending(e) /\ Pending(f)
    BY <2>1 DEF DisputesInv
  <2>2. CASE ~(Pending(e) /\ Pending(f))
    <3>1. row.status # "RESOLVED" /\ d \in {e, f} /\ ~Pending(d) /\ \E g \in {e, f} : g # d /\ Pending(g)
      BY <1>2, <2>2
    <3> QED
      BY <3>1
  <2> QED
    BY <2>1, <2>2
<1>4. \A e \in Dispute : Checked(dispute'[e]) /\ (dispute[e].status # "NONE" => dispute'[e].status # "NONE")
                         /\ (dispute[e].status = "RESOLVED" => dispute'[e].status = "RESOLVED")
  BY <1>1 DEF DisputesInv
<1>5. \A p \in Person : deciding'[p] # <<>> => dispute'[deciding'[p][2]].status # "NONE"
  <2>0. \A p \in Person : deciding'[p] \in {deciding[p], <<>>}
    BY DEF DisputesInv, DisputesTypeOK
  <2> SUFFICES ASSUME NEW p \in Person, deciding[p] # <<>> PROVE dispute'[deciding[p][2]].status # "NONE"
    BY <2>0
  <2>1. deciding[p][2] \in Dispute /\ dispute[deciding[p][2]].status # "NONE"
    BY DEF DisputesInv, DisputesTypeOK
  <2> QED
    BY <1>4, <2>1
<1>6. DisputesTypeOK'
  BY <1>1 DEF DisputesInv, DisputesTypeOK, DisputeRow
<1> QED
  BY <1>3, <1>4, <1>5, <1>6 DEF DisputesInv, NoneReopened

LEMMA openSound ==
  ASSUME DisputesInv, NEW d \in Dispute, openOfferDispute(d)
  PROVE  DisputesInv' /\ VerdictKept
<1>1. PICK evidence \in BOOLEAN :
        dispute' = [dispute EXCEPT ![d] = [Unopened EXCEPT !.status = "OPEN", !.evidence = evidence]]
  BY DEF openOfferDispute
<1> DEFINE row == [Unopened EXCEPT !.status = "OPEN", !.evidence = evidence]
<1>2. row \in DisputeRow /\ row.status = "OPEN" /\ Checked(row)
  BY DEF DisputeRow, Unopened, Checked
<1>3. dispute[d].status # "RESOLVED" /\ (\A e \in Dispute : ~Pending(e)) /\ deciding' = deciding
  BY DEF openOfferDispute
<1>4. dispute' = [dispute EXCEPT ![d] = row]
  BY <1>1
<1> HIDE DEF row
<1>5. OutcomeFinal
  BY <1>3, <1>4 DEF OutcomeFinal, Resolving, DisputesInv, DisputesTypeOK
<1> QED
  BY <1>2, <1>3, <1>4, <1>5, DisputeWritten, VerdictParts

LEMMA dueSound ==
  ASSUME DisputesInv, NEW d \in Dispute, responseIsDue(d)
  PROVE  DisputesInv' /\ VerdictKept
<1> DEFINE row == [dispute[d] EXCEPT !.due = TRUE]
<1>1. dispute[d] \in DisputeRow /\ Checked(dispute[d]) /\ dispute \in [Dispute -> DisputeRow]
  BY DEF DisputesInv, DisputesTypeOK, DisputeRow
<1>2. row \in DisputeRow /\ row.status = dispute[d].status /\ row.outcome = dispute[d].outcome
  BY <1>1 DEF DisputeRow
<1>3. dispute' = [dispute EXCEPT ![d] = row] /\ UNCHANGED deciding /\ Pending(d)
  BY <1>1 DEF responseIsDue
<1>4. Checked(row) /\ row.status # "NONE"
  BY <1>1, <1>2, <1>3 DEF Checked, Pending
<1> HIDE DEF row
<1>5. OutcomeFinal
  BY <1>1, <1>2, <1>3 DEF OutcomeFinal, Resolving
<1> QED
  BY <1>2, <1>3, <1>4, <1>5, DisputeWritten, VerdictParts

LEMMA loadSound ==
  ASSUME DisputesInv, NEW p \in Person, NEW op \in {"REVIEW", "RESOLVE", "EVIDENCE"}, NEW d \in Dispute,
         loadDispute(p, op, d)
  PROVE  DisputesInv' /\ VerdictKept
<1>1. /\ deciding' = [deciding EXCEPT ![p] = <<op, d>>] /\ UNCHANGED dispute
      /\ dispute[d].status # "NONE" /\ (op = "RESOLVE" => dispute[d].status # "RESOLVED")
  BY DEF loadDispute, Permits
<1>2. DisputesTypeOK'
  BY <1>1 DEF DisputesInv, DisputesTypeOK
<1>3. \A q \in Person : deciding'[q] # <<>> => dispute[deciding'[q][2]].status # "NONE"
  BY <1>1 DEF DisputesInv, DisputesTypeOK
<1>4. OutcomeFinal
  <2> SUFFICES ASSUME NEW e \in Dispute, dispute[e].status = "RESOLVED" PROVE Resolving(e)' \subseteq Resolving(e)
    BY <1>1 DEF OutcomeFinal
  <2> SUFFICES ASSUME NEW q \in Person, deciding'[q] = <<"RESOLVE", e>> PROVE deciding[q] = <<"RESOLVE", e>>
    BY DEF Resolving
  <2>1. deciding \in [Person -> {<<>>} \cup ({"REVIEW", "RESOLVE", "EVIDENCE"} \X Dispute)]
    BY DEF DisputesInv, DisputesTypeOK
  <2>2. CASE q = p
    BY <1>1, <2>1, <2>2
  <2>3. CASE q # p
    BY <1>1, <2>1, <2>3
  <2> QED
    BY <2>2, <2>3
<1> QED
  BY <1>1, <1>2, <1>3, <1>4, VerdictParts DEF DisputesInv, NoneReopened, Pending

\* Whatever was read before, a row that does not fit its CHECK is not written.
LEMMA writeSound ==
  ASSUME DisputesInv, NEW p \in Person, NEW outcome \in Outcome, writeDispute(p, outcome)
  PROVE  DisputesInv' /\ VerdictKept
<1> DEFINE op == deciding[p][1]
           d == deciding[p][2]
           row == Written(op, dispute[d], outcome)
<1>1. /\ op \in {"REVIEW", "RESOLVE", "EVIDENCE"} /\ d \in Dispute
      /\ dispute[d] \in DisputeRow /\ dispute[d].status # "NONE" /\ Checked(dispute[d])
      /\ dispute' = IF Checked(row) THEN [dispute EXCEPT ![d] = row] ELSE dispute
      /\ deciding' = [deciding EXCEPT ![p] = <<>>]
  BY DEF writeDispute, DisputesInv, DisputesTypeOK, DisputeRow
<1>2. outcome # NoOutcome
  BY DEF Outcome, NoOutcome
<1>3. /\ row \in DisputeRow
      /\ \/ op = "REVIEW" /\ row.status = "UNDER_REVIEW" /\ row.outcome = dispute[d].outcome
         \/ op = "RESOLVE" /\ row.status = "RESOLVED"
         \/ op = "EVIDENCE" /\ row.status = dispute[d].status
  BY <1>1 DEF Written, DisputeRow
<1>8. op # "RESOLVE" => row.outcome = dispute[d].outcome
  BY <1>1 DEF Written, DisputeRow
<1> HIDE DEF op, d, row
<1>4. /\ Checked(row) => (dispute[d].status = "RESOLVED" => row.status = "RESOLVED")
      /\ row.status # "RESOLVED" => Pending(d) \/ dispute[d].status = "RESOLVED"
      /\ row.status # "NONE"
  BY <1>1, <1>3 DEF Checked, Pending, DisputeRow
<1>7. OutcomeFinal
  <2> SUFFICES ASSUME NEW e \in Dispute, dispute[e].status = "RESOLVED"
               PROVE  /\ Resolving(e)' \subseteq Resolving(e)
                      /\ dispute'[e].outcome # dispute[e].outcome => Resolving(e)' # Resolving(e)
    BY DEF OutcomeFinal
  <2>1. \A q \in Person : deciding'[q] \in {deciding[q], <<>>}
    BY <1>1 DEF DisputesInv, DisputesTypeOK
  <2>2. Resolving(e)' \subseteq Resolving(e)
    <3>1. <<"RESOLVE", e>> # <<>>
      OBVIOUS
    <3> QED
      BY <2>1, <3>1 DEF Resolving
  <2>3. ASSUME dispute'[e].outcome # dispute[e].outcome PROVE Resolving(e)' # Resolving(e)
    <3>1. e = d /\ Checked(row) /\ dispute'[d] = row
      BY <1>1, <2>3 DEF DisputesInv, DisputesTypeOK
    <3>2. op = "RESOLVE"
      BY <1>1, <1>3, <2>3, <3>1, <1>8
    <3>3. deciding[p] = <<"RESOLVE", e>> /\ deciding'[p] = <<>>
      <4>1. deciding[p] \in {"REVIEW", "RESOLVE", "EVIDENCE"} \X Dispute
        BY DEF writeDispute, DisputesInv, DisputesTypeOK
      <4>2. deciding'[p] = <<>>
        BY <1>1 DEF DisputesInv, DisputesTypeOK
      <4> QED
        BY <3>1, <3>2, <4>1, <4>2 DEF op, d
    <3>4. p \in Resolving(e) /\ p \notin Resolving(e)'
      BY <3>3 DEF Resolving
    <3> QED
      BY <3>4
  <2> QED
    BY <2>2, <2>3
<1>5. CASE Checked(row)
  <2>1. dispute' = [dispute EXCEPT ![d] = row] /\ (row.status # "RESOLVED" => Pending(d))
    BY <1>1, <1>4, <1>5
  <2> QED
    BY <1>1, <1>3, <1>4, <1>5, <1>7, <2>1, DisputeWritten, VerdictParts
<1>6. CASE ~Checked(row)
  <2>1. dispute' = dispute
    BY <1>1, <1>6
  <2>2. DisputesTypeOK' /\ \A q \in Person : deciding'[q] \in {deciding[q], <<>>}
    BY <1>1, <2>1 DEF DisputesInv, DisputesTypeOK
  <2> QED
    BY <1>7, <2>1, <2>2, VerdictParts DEF DisputesInv, NoneReopened, Pending
<1> QED
  BY <1>5, <1>6

LEMMA DisputesStep ==
  ASSUME DisputesInv, [DisputesNext]_disputeVars
  PROVE  DisputesInv' /\ VerdictKept
<1>1. CASE UNCHANGED disputeVars
  BY <1>1 DEF disputeVars, DisputesInv, DisputesTypeOK, Checked, Pending, VerdictKept,
     Resolving
<1> QED
  BY <1>1, openSound, dueSound, loadSound, writeSound DEF DisputesNext

LEMMA DisputesBegin ==
  ASSUME DisputesInit
  PROVE  DisputesInv
<1>1. Unopened \in DisputeRow /\ Unopened.status = "NONE" /\ Unopened.outcome = NoOutcome
  BY DEF Unopened, DisputeRow
<1>2. Checked(Unopened)
  BY <1>1 DEF Checked
<1> HIDE DEF Unopened
<1> QED
  BY <1>1, <1>2 DEF DisputesInit, DisputesInv, DisputesTypeOK, DisputeRow, Pending

(***************************************************************************)
(* Eligibility.                                                            *)
(***************************************************************************)
RidesCounted == record.sampled <= record.completed /\ record.onTime <= record.sampled
                /\ record.completed + record.cancelled <= MaxRides

EligibilityInv == EligibilityTypeOK /\ RidesCounted

LEMMA EligibilityStep ==
  ASSUME ReputationAssumption, EligibilityInv, [EligibilityNext]_eligibilityVars
  PROVE  EligibilityInv'
<1> USE DEF EligibilityInv, EligibilityTypeOK, RidesCounted
<1>1. ASSUME NEW m \in Blocker, NEW scope \in Scope, checkDuplicate(m, scope) PROVE EligibilityInv'
  BY <1>1 DEF checkDuplicate
<1>2. ASSUME NEW m \in Blocker, NEW b \in Block, createMarketplaceBlock(m, b) PROVE EligibilityInv'
  BY <1>2 DEF createMarketplaceBlock
<1>3. ASSUME NEW b \in Block, revokeMarketplaceBlock(b) PROVE EligibilityInv'
  BY <1>3 DEF revokeMarketplaceBlock
<1>4. CASE rideCompleted
  <2>1. PICK sampled \in {0, 1} : \E onTime \in 0..sampled :
          record' = [record EXCEPT !.completed = record.completed + 1, !.sampled = record.sampled + sampled,
                                   !.onTime = record.onTime + onTime]
    BY <1>4 DEF rideCompleted
  <2>2. PICK onTime \in 0..sampled :
          record' = [record EXCEPT !.completed = record.completed + 1, !.sampled = record.sampled + sampled,
                                   !.onTime = record.onTime + onTime]
    BY <2>1
  <2>3. /\ MaxRides \in Nat /\ record.completed \in Nat /\ record.cancelled \in Nat
        /\ record.sampled \in Nat /\ record.onTime \in Nat
        /\ record.completed + record.cancelled < MaxRides
    BY <1>4 DEF rideCompleted, Accountable, ReputationAssumption
  <2>4. /\ record.completed + 1 \in 0..MaxRides /\ record.sampled + sampled \in 0..MaxRides
        /\ record.onTime + onTime \in 0..MaxRides
        /\ record.sampled + sampled <= record.completed + 1
        /\ record.onTime + onTime <= record.sampled + sampled
        /\ (record.completed + 1) + record.cancelled <= MaxRides
    BY <2>3
  <2>5. record' \in [completed : 0..MaxRides, cancelled : 0..MaxRides, sampled : 0..MaxRides, onTime : 0..MaxRides]
    BY <2>2, <2>4
  <2>6. /\ record'.completed = record.completed + 1 /\ record'.cancelled = record.cancelled
        /\ record'.sampled = record.sampled + sampled /\ record'.onTime = record.onTime + onTime
    BY <2>2
  <2> QED
    BY <1>4, <2>4, <2>5, <2>6 DEF rideCompleted
<1>5. CASE rideGivenBack
  <2>1. /\ MaxRides \in Nat /\ record.completed \in Nat /\ record.cancelled \in Nat
        /\ record.completed + record.cancelled < MaxRides
    BY <1>5 DEF rideGivenBack, Accountable, ReputationAssumption
  <2>2. record.cancelled + 1 \in 0..MaxRides /\ record.completed + (record.cancelled + 1) <= MaxRides
    BY <2>1
  <2> QED
    BY <1>5, <2>2 DEF rideGivenBack
<1>6. CASE UNCHANGED eligibilityVars
  BY <1>6 DEF eligibilityVars
<1> QED
  BY <1>1, <1>2, <1>3, <1>4, <1>5, <1>6 DEF EligibilityNext

LEMMA EligibilityBegins ==
  ASSUME ReputationAssumption, EligibilityInit
  PROVE  EligibilityInv
BY DEF EligibilityInit, EligibilityInv, EligibilityTypeOK, RidesCounted, ReputationAssumption, NoBlock, Scope

\* What a whole quotient is.
LEMMA Quotient ==
  ASSUME NEW a \in Nat, NEW b \in Nat, b > 0
  PROVE  /\ a \div b \in Nat
         /\ b * (a \div b) <= a /\ a < b * (a \div b) + b
OBVIOUS

LEMMA Times ==
  ASSUME NEW x \in Int, NEW y \in Int, NEW z \in Nat
  PROVE  /\ x <= y => x * z <= y * z
         /\ x < y /\ z > 0 => x * z < y * z
OBVIOUS

LEMMA Cancel ==
  ASSUME NEW x \in Int, NEW y \in Int, NEW z \in Nat, z > 0, x * z < y * z
  PROVE  x < y
OBVIOUS

\* A rounded quotient, multiplied out with the divisor of another.
LEMMA RoundedTimes ==
  ASSUME NEW n \in Nat, NEW m \in Nat, NEW k \in Nat, NEW steps \in Nat, n > 0, m > 0
  PROVE  /\ Rate(k, n, steps) \in Nat
         /\ 2 * (Rate(k, n, steps) * (m * n)) <= 2 * ((k * m) * steps) + m * n
         /\ 2 * ((k * m) * steps) < 2 * (Rate(k, n, steps) * (m * n)) + m * n
<1> DEFINE a == 2 * k * steps + n
           q == Rate(k, n, steps)
<1>1. q \in Nat /\ (2 * n) * q <= a /\ a < (2 * n) * q + 2 * n /\ a \in Nat
  <2>1. a \in Nat /\ 2 * n \in Nat /\ 2 * n > 0 /\ q = a \div (2 * n)
    BY DEF Rate
  <2> HIDE DEF a, q
  <2>2. a \div (2 * n) \in Nat /\ (2 * n) * (a \div (2 * n)) <= a /\ a < (2 * n) * (a \div (2 * n)) + 2 * n
    BY <2>1, Quotient
  <2> QED
    BY <2>1, <2>2
<1> HIDE DEF q
<1>2. ((2 * n) * q) * m <= a * m /\ a * m < ((2 * n) * q + 2 * n) * m
  <2>1. (2 * n) * q \in Int /\ a \in Int /\ (2 * n) * q + 2 * n \in Int
    BY <1>1
  <2> QED
    BY <1>1, <2>1, Times
<1>3. /\ ((2 * n) * q) * m = 2 * (q * (m * n))
      /\ a * m = 2 * ((k * m) * steps) + m * n
      /\ ((2 * n) * q + 2 * n) * m = 2 * (q * (m * n)) + 2 * (m * n)
  BY <1>1
<1>4. m * n \in Nat /\ (k * m) * steps \in Nat /\ q * (m * n) \in Nat
  BY <1>1
<1> HIDE DEF a
<1>5. /\ 2 * (q * (m * n)) <= 2 * ((k * m) * steps) + m * n
      /\ 2 * ((k * m) * steps) < 2 * (q * (m * n)) + m * n
  BY <1>2, <1>3, <1>4
<1> QED
  BY <1>1, <1>5 DEF q

\* Rounding to steps finer than the counts moves no quotient past another.
LEMMA RoundingKeepsOrder ==
  ASSUME NEW n \in Nat, NEW m \in Nat, n > 0, m > 0, NEW k \in Nat, NEW j \in Nat,
         NEW steps \in Nat, steps >= m * n
  PROVE  /\ Rate(k, n, steps) \in Nat /\ Rate(j, m, steps) \in Nat
         /\ Rate(k, n, steps) >= Rate(j, m, steps) <=> k * m >= j * n
<1> DEFINE q == Rate(k, n, steps)
           w == Rate(j, m, steps)
           A == (k * m) * steps
           B == (j * n) * steps
           D == m * n
<1>1. /\ q \in Nat /\ 2 * (q * D) <= 2 * A + D /\ 2 * A < 2 * (q * D) + D
      /\ w \in Nat /\ 2 * (w * D) <= 2 * B + D /\ 2 * B < 2 * (w * D) + D
  <2>1. m * n = n * m
    OBVIOUS
  <2> QED
    BY <2>1, RoundedTimes
<1>2. D \in Nat /\ D > 0 /\ A \in Nat /\ B \in Nat /\ steps >= D /\ k * m \in Nat /\ j * n \in Nat
  <2>1. m * n > 0
    OBVIOUS
  <2> QED
    BY <2>1
<1>3. /\ k * m >= j * n => A >= B
      /\ j * n >= k * m + 1 => B >= A + steps
  <2>1. j * n <= k * m => (j * n) * steps <= (k * m) * steps
    BY <1>2, Times
  <2>2. k * m + 1 <= j * n => (k * m + 1) * steps <= (j * n) * steps
    <3>1. k * m + 1 \in Int /\ j * n \in Int
      BY <1>2
    <3> QED
      BY <3>1, Times
  <2>3. (k * m + 1) * steps = (k * m) * steps + steps
    BY <1>2
  <2> QED
    BY <1>2, <2>1, <2>2, <2>3
<1> HIDE DEF q, w, A, B, D
<1>4. q * D \in Nat /\ w * D \in Nat /\ (q + 1) * D = q * D + D
  BY <1>1, <1>2
<1>5. ASSUME k * m >= j * n PROVE q >= w
  <2>1. w * D < (q + 1) * D
    BY <1>1, <1>2, <1>3, <1>4, <1>5
  <2>2. w < q + 1
    BY <1>1, <1>2, <2>1, Cancel
  <2> QED
    BY <1>1, <2>2
<1>6. ASSUME ~(k * m >= j * n) PROVE q < w
  <2>1. q * D < w * D
    BY <1>1, <1>2, <1>3, <1>4, <1>6
  <2> QED
    BY <1>1, <1>2, <2>1, Cancel
<1>7. (q >= w) <=> (k * m >= j * n)
  BY <1>1, <1>5, <1>6
<1> QED
  BY <1>1, <1>7 DEF q, w

LEMMA RateBelow ==
  ASSUME ReputationAssumption, NEW n \in Nat, n > 0, n <= MaxRides, NEW k \in Nat, NEW j \in Nat
  PROVE  Rate(k, n, Doubles) < Rate(j, 10, Doubles) <=> ~(Rate(k, n, Decimals) >= Rate(j, 10, Decimals))
<1>1. \A steps \in {Decimals, Doubles} : steps \in Nat /\ steps >= 10 * n
  <2>1. MaxRides \in Nat /\ 10 * MaxRides >= 10 * n
    BY DEF ReputationAssumption
  <2>2. \A steps \in {Decimals, Doubles} : steps \in Nat /\ steps >= 10 * MaxRides
    BY DEF ReputationAssumption
  <2> QED
    BY <2>1, <2>2
<1> DEFINE Ordered(steps) == /\ Rate(k, n, steps) \in Nat /\ Rate(j, 10, steps) \in Nat
                             /\ Rate(k, n, steps) >= Rate(j, 10, steps) <=> k * 10 >= j * n
<1>2. ASSUME NEW steps \in Nat, steps >= 10 * n PROVE Ordered(steps)
  <2>1. 10 \in Nat /\ 10 > 0
    OBVIOUS
  <2> QED
    BY <1>2, <2>1, RoundingKeepsOrder
<1>3. Ordered(Decimals) /\ Ordered(Doubles)
  BY <1>1, <1>2
<1> QED
  BY <1>3

\* Both versions of the rule of rates are one.
LEMMA RatesAgree ==
  ASSUME ReputationAssumption, EligibilityInv
  PROVE  RateReasons = {} <=> Reliable /\ Punctual
<1>1. /\ record.completed \in Nat /\ record.onTime \in Nat
      /\ Accountable \in Nat /\ Accountable <= MaxRides
      /\ record.sampled \in Nat /\ record.sampled <= MaxRides /\ MaxRides \in Nat
  BY DEF EligibilityInv, EligibilityTypeOK, RidesCounted, Accountable, ReputationAssumption
<1>2. LowCompletion <=> ~Reliable
  <2>1. CASE Accountable < 5
    BY <1>1, <2>1 DEF LowCompletion, Reliable, MinimumSample
  <2>2. CASE ~(Accountable < 5)
    <3>1. Rate(record.completed, Accountable, Doubles) < Rate(8, 10, Doubles)
            <=> ~(Rate(record.completed, Accountable, Decimals) >= Rate(8, 10, Decimals))
      BY <1>1, <2>2, RateBelow
    <3> QED
      BY <1>1, <2>2, <3>1 DEF LowCompletion, Reliable, MinimumSample
  <2> QED
    BY <2>1, <2>2
<1>3. LowPunctuality <=> ~Punctual
  <2>1. CASE record.sampled < 5
    BY <1>1, <2>1 DEF LowPunctuality, Punctual, MinimumSample
  <2>2. CASE ~(record.sampled < 5)
    <3>1. Rate(record.onTime, record.sampled, Doubles) < Rate(7, 10, Doubles)
            <=> ~(Rate(record.onTime, record.sampled, Decimals) >= Rate(7, 10, Decimals))
      BY <1>1, <2>2, RateBelow
    <3> QED
      BY <1>1, <2>2, <3>1 DEF LowPunctuality, Punctual, MinimumSample
  <2> QED
    BY <2>1, <2>2
<1>4. RateReasons = {} <=> ~LowCompletion /\ ~LowPunctuality
  BY DEF RateReasons
<1> QED
  BY <1>2, <1>3, <1>4

LEMMA Explained ==
  ASSUME ReputationAssumption, EligibilityInv
  PROVE  EligibilityIsExplained
<1> SUFFICES ASSUME NEW viewer \in Operators \cup {Everything}
             PROVE  /\ eligibilityReasons(viewer) = {} <=> eligibleStoreIds(viewer) = viewer.stores
                    /\ eligibilityReasons(viewer) \cap RateReasons # {} => eligibleStoreIds(Everything) = {}
                    /\ NoReasonKnown \in eligibilityReasons(viewer) =>
                         viewer # Everything /\ SetIn({EveryStore}) # {}
  BY DEF EligibilityIsExplained
<1> DEFINE found == SetIn(viewer.scopes) \cup RateReasons
           eligible == eligibleStoreIds(viewer)
<1>1. /\ viewer.stores # {} /\ viewer.stores \subseteq Linked /\ viewer.stores \subseteq viewer.scopes
      /\ viewer.scopes \subseteq viewer.stores \cup {EveryStore}
  <2>1. CASE viewer = Everything
    <3>1. viewer.stores = Linked /\ viewer.scopes = Linked \cup {EveryStore}
      BY <2>1 DEF Everything, Scope
    <3> QED
      BY <3>1 DEF ReputationAssumption
  <2>2. CASE viewer \in Operators
    <3>1. PICK own \in (SUBSET Linked) \ {{}} : viewer = [stores |-> own, scopes |-> own]
      BY <2>2 DEF Operators
    <3> QED
      BY <3>1
  <2> QED
    BY <2>1, <2>2
<1>2. eligibilityReasons(viewer) = IF found = {} /\ eligible = {} THEN {NoReasonKnown} ELSE found
  BY DEF eligibilityReasons
<1>3. \A store : store \in eligible <=> store \in viewer.stores /\ SetIn({store, EveryStore}) = {} /\ RateReasons = {}
  BY RatesAgree DEF eligibleStoreIds, courierIsMarketplaceEligible
<1>4. \A scopes, b : b \in SetIn(scopes) <=> b \in Block /\ block[b].state = "SET" /\ block[b].scope \in scopes
  BY DEF SetIn
<1>5. NoReasonKnown \notin found
  BY <1>4 DEF RateReasons, NoReasonKnown, ReputationAssumption
<1>6. RateReasons # {} => eligibleStoreIds(Everything) = {}
  BY RatesAgree DEF eligibleStoreIds, courierIsMarketplaceEligible
<1> HIDE DEF eligible, NoReasonKnown
<1>7. eligible # {} => SetIn({EveryStore}) = {}
  <2> SUFFICES ASSUME NEW store \in eligible, NEW b \in SetIn({EveryStore}) PROVE FALSE
    OBVIOUS
  <2>1. b \in SetIn({store, EveryStore})
    BY <1>4
  <2> QED
    BY <1>3, <2>1
<1>8. eligibilityReasons(viewer) = {} <=> eligible = viewer.stores
  <2>1. ASSUME found = {}, eligible # {} PROVE eligible = viewer.stores
    <3>1. \A store \in viewer.stores : SetIn({store, EveryStore}) = {}
      BY <1>1, <1>4, <1>7, <2>1
    <3> QED
      BY <1>3, <2>1, <3>1
  <2>2. ASSUME eligible = viewer.stores PROVE found = {} /\ eligible # {}
    <3>1. eligible # {} /\ RateReasons = {} /\ SetIn({EveryStore}) = {}
      BY <1>1, <1>3, <1>7, <2>2
    <3>2. SetIn(viewer.scopes) = {}
      <4> SUFFICES ASSUME NEW b \in SetIn(viewer.scopes) PROVE FALSE
        OBVIOUS
      <4>1. block[b].scope \in viewer.stores
        BY <1>1, <1>4, <3>1
      <4>2. b \in SetIn({block[b].scope, EveryStore})
        BY <1>4
      <4> QED
        BY <1>3, <2>2, <4>1, <4>2
    <3> QED
      BY <3>1, <3>2
  <2> QED
    BY <1>2, <2>1, <2>2
<1>9. ASSUME NoReasonKnown \in eligibilityReasons(viewer)
      PROVE  viewer # Everything /\ SetIn({EveryStore}) # {}
  <2>1. found = {} /\ eligible = {}
    BY <1>2, <1>5, <1>9
  <2>2. PICK store \in viewer.stores : SetIn({store, EveryStore}) # {}
    BY <1>1, <1>3, <2>1
  <2>3. SetIn({EveryStore}) # {}
    BY <1>1, <1>4, <2>1, <2>2
  <2>4. EveryStore \notin viewer.scopes
    BY <1>4, <2>1, <2>3
  <2> QED
    BY <2>3, <2>4 DEF Everything, Scope
<1> QED
  BY <1>6, <1>8, <1>9 DEF eligible

(***************************************************************************)
(* Papers.                                                                 *)
(***************************************************************************)
PaperRow == {Unsent} \cup [req : Requirement, status : {"PENDING", "APPROVED", "REJECTED"}, expired : BOOLEAN]

\* The effect of one step: a paper that was replaced does not count.
LatePaperIgnored ==
  \A d \in Document :
    /\ document[d] # Unsent
    /\ document'[d] # document[d]
    /\ \E e \in SentFor(document[d].req) : e > d
    => Readiness' = Readiness

\* A paper that was sent gets another status or expires.
LEMMA LatePaper ==
  ASSUME PapersTypeOK, NEW d \in Document, NEW row, row.req = document[d].req,
         document' = [document EXCEPT ![d] = row], requirement' = requirement,
         \E e \in SentFor(document[d].req) : e > d
  PROVE  Readiness' = Readiness
<1>1. /\ \A q \in Document : document'[q].req = document[q].req
      /\ \A e \in Document : e # d => document'[e] = document[e]
  BY DEF PapersTypeOK
<1>2. \A q : SentFor(q)' = SentFor(q) /\ SentFor(q) \subseteq Document
  BY <1>1 DEF SentFor
<1>3. ~Counts(d) /\ \A e \in Document : Counts(e)' <=> Counts(e)
  <2>1. d \in Nat /\ Document \subseteq Nat
    BY DEF Document
  <2>2. PICK f \in SentFor(document[d].req) : f > d
    OBVIOUS
  <2>3. f \in Nat
    BY <1>2, <2>1, <2>2
  <2>4. ~Counts(d)
    BY <2>1, <2>2, <2>3 DEF Counts
  <2>5. \A e \in Document : Counts(e)' <=> Counts(e)
    BY <1>1 DEF Counts, SentFor
  <2> QED
    BY <2>4, <2>5
<1>4. \A q : Fulfilled(q)' <=> Fulfilled(q)
  BY <1>1, <1>2, <1>3 DEF Fulfilled
<1> QED
  BY <1>4 DEF Readiness, Active

LEMMA PapersStep ==
  ASSUME PapersTypeOK, [PapersNext]_paperVars
  PROVE  PapersTypeOK' /\ LatePaperIgnored
<1>0. document \in [Document -> PaperRow] /\ Requirement = Requirement
  BY DEF PapersTypeOK, PaperRow
<1>1. ASSUME NEW q \in Requirement, NEW input \in [active : BOOLEAN, required : BOOLEAN, requiresReview : BOOLEAN],
             saveRequirement(q, input)
      PROVE  PapersTypeOK' /\ LatePaperIgnored
  BY <1>1 DEF saveRequirement, PapersTypeOK, LatePaperIgnored
<1>2. ASSUME NEW d \in Document, NEW q \in Requirement, uploadMyDocument(d, q)
      PROVE  PapersTypeOK' /\ LatePaperIgnored
  BY <1>2 DEF uploadMyDocument, PapersTypeOK, LatePaperIgnored
<1>3. ASSUME NEW d \in Document, NEW verdict \in {"APPROVED", "REJECTED"}, reviewDocument(d, verdict)
      PROVE  PapersTypeOK' /\ LatePaperIgnored
  <2> DEFINE row == [document[d] EXCEPT !.status = verdict]
  <2>1. /\ document[d] \in PaperRow /\ document[d].status = "PENDING"
        /\ document' = [document EXCEPT ![d] = row] /\ requirement' = requirement
    BY <1>0, <1>3 DEF reviewDocument
  <2>2. row \in PaperRow /\ row.req = document[d].req
    BY <2>1 DEF PaperRow, Unsent
  <2> HIDE DEF row
  <2>3. PapersTypeOK'
    BY <2>1, <2>2 DEF PapersTypeOK, PaperRow
  <2>4. \A e \in Document : e # d => document'[e] = document[e]
    BY <1>0, <2>1
  <2>5. LatePaperIgnored
    BY <2>1, <2>2, <2>4, LatePaper DEF LatePaperIgnored
  <2> QED
    BY <2>3, <2>5
<1>4. ASSUME NEW d \in Document, dateOfExpiryPasses(d)
      PROVE  PapersTypeOK' /\ LatePaperIgnored
  <2> DEFINE row == [document[d] EXCEPT !.expired = TRUE]
  <2>1. /\ document[d] \in PaperRow /\ document[d] # Unsent
        /\ document' = [document EXCEPT ![d] = row] /\ requirement' = requirement
    BY <1>0, <1>4 DEF dateOfExpiryPasses
  <2>2. row \in PaperRow /\ row.req = document[d].req
    BY <2>1 DEF PaperRow
  <2> HIDE DEF row
  <2>3. PapersTypeOK'
    BY <2>1, <2>2 DEF PapersTypeOK, PaperRow
  <2>4. \A e \in Document : e # d => document'[e] = document[e]
    BY <1>0, <2>1
  <2>5. LatePaperIgnored
    BY <2>1, <2>2, <2>4, LatePaper DEF LatePaperIgnored
  <2> QED
    BY <2>3, <2>5
<1>5. CASE UNCHANGED paperVars
  BY <1>5 DEF paperVars, PapersTypeOK, LatePaperIgnored
<1> QED
  BY <1>1, <1>2, <1>3, <1>4, <1>5 DEF PapersNext

LEMMA PapersBegin ==
  ASSUME PapersInit
  PROVE  PapersTypeOK
BY DEF PapersInit, PapersTypeOK, NoRequirement

(***************************************************************************)
(* Accounts.                                                               *)
(***************************************************************************)
\* A registration has its profile, and what the company's application read before it
\* announces a courier holds as long as there is no registration.
Standing ==
  /\ StandingAgrees
  /\ profile = "NONE" => registration = "NONE"
  /\ announcing /\ registration = "NONE" => profile = "ACTIVE"

\* A membership is only blocked or archived where there is one.
Updates == \A r \in Request : txn[r].op = "UPDATE" => member # Absent /\ txn[r].status \in MembershipStatus

\* Every write to the preferences ends in the trigger.
LEMMA PreferencesStanding ==
  ASSUME Standing, NEW reg, NEW avail, NEW loc, WritePreferences(reg, avail, loc),
         reg # "NONE", profile' # "NONE", reg = "APPROVED" <=> profile' = "ACTIVE",
         profile' = profile \/ avail # "AVAILABLE"
  PROVE  Standing'
BY DEF Standing, StandingAgrees, WritePreferences, Announces

LEMMA ReviewStanding ==
  ASSUME Standing, ReviewBegins, UNCHANGED <<profile, announcing>>
  PROVE  Standing'
<1>1. CASE registration = "EMAIL_PENDING"
  <2>1. WritePreferences("IN_REVIEW", availability, located) /\ profile # "ACTIVE" /\ profile # "NONE"
    BY <1>1 DEF ReviewBegins, Standing, StandingAgrees
  <2> QED
    BY <2>1, PreferencesStanding
<1>2. CASE registration # "EMAIL_PENDING"
  BY <1>2 DEF ReviewBegins, PreferencesStay, Standing, StandingAgrees
<1> QED
  BY <1>1, <1>2

LEMMA AccountsStanding ==
  ASSUME Standing, AccountsNext
  PROVE  Standing'
<1> USE DEF Standing, StandingAgrees
<1>1. CASE register \/ createUser \/ createCourier \/ linkUser \/ linkCourier
  BY <1>1 DEF register, createUser, createCourier, linkUser, linkCourier, HasAccount
<1>2. ASSUME NEW kind \in LinkKind, createIdentityAction(kind) \/ linkExpires(kind) PROVE Standing'
  BY <1>2 DEF createIdentityAction, linkExpires
<1>3. CASE verifyEmail
  BY <1>3, ReviewStanding DEF verifyEmail, consume
<1>4. CASE savePreferences
  BY <1>4 DEF savePreferences, WritePreferences, Announces
<1>5. ASSUME NEW status \in {"APPROVED", "REJECTED", "SUSPENDED"}, review(status) PROVE Standing'
  BY <1>5 DEF review, Reviewed, WritePreferences, Announces
<1>6. CASE startAvailability
  BY <1>6 DEF startAvailability, WritePreferences, Announces
<1>7. ASSUME NEW status \in {"PAUSED", "OFFLINE"}, endAvailability(status) PROVE Standing'
  BY <1>7 DEF endAvailability, WritePreferences, Announces
<1>8. CASE checkAvailability
  BY <1>8 DEF checkAvailability, Entitled
<1>9. CASE setCourierAvailability
  BY <1>9 DEF setCourierAvailability, WritePreferences, Announces
<1>10. CASE withdrawAvailability
  BY <1>10 DEF withdrawAvailability, WritePreferences, Announces
<1>11. CASE locationExpires
  BY <1>11 DEF locationExpires
<1> QED
  BY <1>1, <1>2, <1>3, <1>4, <1>5, <1>6, <1>7, <1>8, <1>9, <1>10, <1>11 DEF AccountsNext

Preferences ==
  /\ registration \in {"NONE", "EMAIL_PENDING", "IN_REVIEW", "APPROVED", "REJECTED", "SUSPENDED"}
  /\ availability \in {"OFFLINE", "AVAILABLE", "PAUSED"}
  /\ located \in BOOLEAN /\ announced \in BOOLEAN

LEMMA WrittenTyped ==
  ASSUME NEW reg \in {"NONE", "EMAIL_PENDING", "IN_REVIEW", "APPROVED", "REJECTED", "SUSPENDED"},
         NEW avail \in {"OFFLINE", "AVAILABLE", "PAUSED"}, NEW loc \in BOOLEAN, WritePreferences(reg, avail, loc)
  PROVE  Preferences'
<1>1. Announces(reg, avail, loc) \in BOOLEAN
  BY DEF Announces
<1> QED
  BY <1>1 DEF WritePreferences, Preferences

LEMMA PreferencesTyped ==
  ASSUME AccountsTypeOK, ReviewBegins
  PROVE  Preferences'
BY WrittenTyped DEF ReviewBegins, PreferencesStay, AccountsTypeOK, Preferences

LEMMA AccountsTyped ==
  ASSUME AccountsTypeOK, AccountsNext
  PROVE  AccountsTypeOK' /\ (member # Absent => member' # Absent)
<1> USE DEF AccountsTypeOK, MembershipStatus
<1>1. CASE register \/ createUser \/ createCourier \/ linkUser \/ linkCourier
  <2>1. "VERIFY_EMAIL" \in LinkKind /\ Absent.role = "NONE"
    BY DEF LinkKind, Absent
  <2>2. CASE register
    BY <2>1, <2>2 DEF register
  <2>3. CASE createUser
    BY <2>1, <2>3 DEF createUser
  <2>4. CASE createCourier
    BY <2>1, <2>4 DEF createCourier
  <2>5. CASE linkUser
    BY <2>1, <2>5 DEF linkUser
  <2>6. CASE linkCourier
    BY <2>1, <2>6 DEF linkCourier
  <2> QED
    BY <1>1, <2>2, <2>3, <2>4, <2>5, <2>6
<1>2. ASSUME NEW kind \in LinkKind, createIdentityAction(kind) \/ linkExpires(kind)
      PROVE  AccountsTypeOK' /\ member' = member
  BY <1>2 DEF createIdentityAction, linkExpires
<1>3. CASE verifyEmail
  BY <1>3, PreferencesTyped DEF verifyEmail, consume, Preferences
<1>4. CASE savePreferences
  <2>1. Preferences'
    <3>1. CASE registration = "NONE" /\ profile = "ACTIVE"
      BY <1>4, <3>1, WrittenTyped DEF savePreferences
    <3>2. CASE registration = "NONE" /\ profile # "ACTIVE"
      BY <1>4, <3>2, WrittenTyped DEF savePreferences
    <3>3. CASE registration # "NONE"
      BY <1>4, <3>3, WrittenTyped DEF savePreferences
    <3> QED
      BY <3>1, <3>2, <3>3
  <2> QED
    BY <1>4, <2>1 DEF savePreferences, Preferences
<1>5. ASSUME NEW status \in {"APPROVED", "REJECTED", "SUSPENDED"}, review(status)
      PROVE  AccountsTypeOK' /\ member' = member
  <2>1. Preferences'
    BY <1>5, WrittenTyped DEF review
  <2> QED
    BY <1>5, <2>1 DEF review, Reviewed, Preferences
<1>6. CASE startAvailability
  <2>1. Preferences'
    BY <1>6, WrittenTyped DEF startAvailability
  <2> QED
    BY <1>6, <2>1 DEF startAvailability, Preferences
<1>7. ASSUME NEW status \in {"PAUSED", "OFFLINE"}, endAvailability(status)
      PROVE  AccountsTypeOK' /\ member' = member
  <2>1. Preferences'
    BY <1>7, WrittenTyped DEF endAvailability
  <2> QED
    BY <1>7, <2>1 DEF endAvailability, Preferences
<1>8. CASE checkAvailability \/ locationExpires
  BY <1>8 DEF checkAvailability, locationExpires
<1>9. CASE setCourierAvailability
  <2>1. Preferences'
    BY <1>9, WrittenTyped DEF setCourierAvailability, Preferences
  <2> QED
    BY <1>9, <2>1 DEF setCourierAvailability, Preferences
<1>10. CASE withdrawAvailability
  <2>1. Preferences'
    BY <1>10, WrittenTyped DEF withdrawAvailability, Preferences
  <2> QED
    BY <1>10, <2>1 DEF withdrawAvailability, Preferences
<1> QED
  BY <1>1, <1>2, <1>3, <1>4, <1>5, <1>6, <1>7, <1>8, <1>9, <1>10 DEF AccountsNext

(***************************************************************************)
(* Sessions.                                                               *)
(***************************************************************************)
SessionRow == [kind : Kind, state : {"LIVE", "REVOKED", "EXPIRED"}, login : Session]
TxnRow == [op : {"IDLE", "ROTATE", "REVOKE", "UPDATE", "RESET_UNITS", "RESET"},
           holds : SUBSET Session, doomed : SUBSET Session, status : MembershipStatus \cup {"NONE"}]

\* A sign-in that is renewed was made; numbers are not used again.
KnownLogins ==
  \A s \in Session : session[s] # Fresh => session[session[s].login] # Fresh

\* A row is locked by one request at most, and who renews a session holds it alive.
Locks == \A r, q \in Request : \A s \in txn[r].holds : s \in txn[q].holds => r = q

Rotating ==
  \A r \in Request : txn[r].op = "ROTATE" =>
    \E s \in Session : txn[r].holds = {s} /\ session[s].state = "LIVE"

SessionsInv == SessionsTypeOK /\ KnownLogins /\ OneHeirPerLogin /\ Locks /\ Rotating

LEMMA SessionTypes ==
  ASSUME MaxSessionsAssumption
  PROVE  /\ SessionsTypeOK <=> session \in [Session -> {Fresh} \cup SessionRow] /\ txn \in [Request -> TxnRow]
         /\ Fresh \notin SessionRow /\ Fresh.state = "FREE" /\ NoSession \notin Session
         /\ Idle \in TxnRow /\ Idle.op = "IDLE" /\ Idle.holds = {} /\ Idle.doomed = {}
<1>1. NoSession \notin Session
  BY DEF Session, NoSession, MaxSessionsAssumption
<1>2. Fresh \notin SessionRow /\ Fresh.state = "FREE"
  BY DEF Fresh, SessionRow, Kind
<1>3. Idle \in TxnRow /\ Idle.op = "IDLE" /\ Idle.holds = {} /\ Idle.doomed = {}
  BY DEF Idle, TxnRow
<1> QED
  BY <1>1, <1>2, <1>3 DEF SessionsTypeOK, SessionRow, TxnRow

\* Sessions end, and none begins.
LEMMA Ending ==
  ASSUME MaxSessionsAssumption, SessionsInv, session' \in [Session -> {Fresh} \cup SessionRow],
         \A s \in Session : \/ session'[s] = session[s]
                            \/ /\ session[s] # Fresh /\ session'[s] # Fresh
                               /\ session'[s].login = session[s].login /\ session'[s].state # "LIVE"
  PROVE  KnownLogins' /\ OneHeirPerLogin'
<1>1. session \in [Session -> {Fresh} \cup SessionRow]
  BY SessionTypes DEF SessionsInv
<1>2. \A s \in Session : session[s] # Fresh => session[s].login \in Session
  BY <1>1 DEF SessionRow
<1>3. \A s \in Session : (session'[s] # Fresh <=> session[s] # Fresh) /\ session'[s].login = session[s].login
  OBVIOUS
<1>4. KnownLogins'
  BY <1>2, <1>3 DEF SessionsInv, KnownLogins
<1>5. \A s \in Session : session'[s].state = "LIVE" => session[s].state = "LIVE"
  OBVIOUS
<1> QED
  BY <1>3, <1>4, <1>5 DEF SessionsInv, OneHeirPerLogin

\* A session begins, beside or instead of the one it descends from.
LEMMA Beginning ==
  ASSUME MaxSessionsAssumption, SessionsInv, session' \in [Session -> {Fresh} \cup SessionRow],
         NEW s \in Session, session[s] = Fresh, session'[s] # Fresh,
         \A t \in Session : t # s =>
           \/ session'[t] = session[t]
           \/ /\ session[t] # Fresh /\ session'[t] # Fresh
              /\ session'[t].login = session[t].login /\ session'[t].state # "LIVE",
         \/ session'[s].login = s
         \/ \E t \in Session : /\ session[t].state = "LIVE" /\ session'[t].state # "LIVE"
                               /\ session'[s].login = session[t].login
  PROVE  KnownLogins' /\ OneHeirPerLogin'
<1>1. session \in [Session -> {Fresh} \cup SessionRow] /\ Fresh.state = "FREE"
  BY SessionTypes DEF SessionsInv
<1>2. \A t \in Session : session[t] # Fresh => session[t].login \in Session /\ session[t].login # s
  BY <1>1 DEF SessionRow, SessionsInv, KnownLogins
<1>3. \A t \in Session : t # s =>
        /\ (session'[t] # Fresh <=> session[t] # Fresh) /\ session'[t].login = session[t].login
        /\ session'[t].state = "LIVE" => session[t].state = "LIVE"
  OBVIOUS
<1>4. session'[s].login = s \/ \E t \in Session : session[t] # Fresh /\ session'[s].login = session[t].login
  BY <1>1
<1>5. KnownLogins'
  <2>1. ASSUME NEW t \in Session, session'[t] # Fresh, t # s PROVE session'[session'[t].login] # Fresh
    BY <1>2, <1>3, <2>1 DEF SessionsInv, KnownLogins
  <2>2. session'[session'[s].login] # Fresh
    BY <1>2, <1>3, <1>4 DEF SessionsInv, KnownLogins
  <2> QED
    BY <2>1, <2>2 DEF KnownLogins
<1>6. ASSUME NEW t \in Session, t # s, session'[t].state = "LIVE" PROVE session'[t].login # session'[s].login
  <2>1. session[t].state = "LIVE" /\ session[t] # Fresh /\ session'[t].login = session[t].login
    BY <1>1, <1>3, <1>6
  <2>2. CASE session'[s].login = s
    BY <1>2, <2>1, <2>2
  <2>3. ASSUME NEW u \in Session, session[u].state = "LIVE", session'[u].state # "LIVE",
               session'[s].login = session[u].login
        PROVE  session'[t].login # session'[s].login
    BY <1>6, <2>1, <2>3 DEF SessionsInv, OneHeirPerLogin
  <2> QED
    BY <2>2, <2>3
<1>7. \A t, u \in Session : /\ t # s /\ u # s /\ session'[t].state = "LIVE" /\ session'[u].state = "LIVE"
                            /\ session'[t].login = session'[u].login
                            => t = u
  BY <1>3 DEF SessionsInv, OneHeirPerLogin
<1> QED
  BY <1>5, <1>6, <1>7 DEF OneHeirPerLogin

\* The transaction of one request goes on, over rows that no other one holds.
LEMMA Transacts ==
  ASSUME MaxSessionsAssumption, SessionsInv, NEW r \in Request, NEW row \in TxnRow, txn' = [txn EXCEPT ![r] = row],
         \A s \in row.holds : ~LockedFor(r, s),
         row.op = "ROTATE" => \E s \in Session : row.holds = {s} /\ session'[s].state = "LIVE",
         \A q \in Request \ {r} : \A s \in txn[q].holds : session[s].state = "LIVE" => session'[s] = session[s]
  PROVE  txn' \in [Request -> TxnRow] /\ Locks' /\ Rotating'
<1>1. txn \in [Request -> TxnRow]
  BY SessionTypes DEF SessionsInv
<1>2. txn'[r] = row /\ \A q \in Request : q # r => txn'[q] = txn[q]
  BY <1>1
<1>3. txn' \in [Request -> TxnRow]
  BY <1>1
<1>4. Locks'
  BY <1>2 DEF SessionsInv, Locks, LockedFor
<1>5. Rotating'
  BY <1>2 DEF SessionsInv, Rotating
<1> QED
  BY <1>3, <1>4, <1>5

\* No transaction moves.
LEMMA NoTransaction ==
  ASSUME SessionsInv, txn' = txn,
         \A q \in Request : \A s \in txn[q].holds : session[s].state = "LIVE" => session'[s] = session[s]
  PROVE  Locks' /\ Rotating'
BY DEF SessionsInv, Locks, Rotating

\* What a step of the sessions promises.
SessionsKept == SessionsInv' /\ Updates'

LEMMA KeptParts ==
  ASSUME MaxSessionsAssumption, session' \in [Session -> {Fresh} \cup SessionRow], txn' \in [Request -> TxnRow],
         KnownLogins', OneHeirPerLogin', Locks', Rotating', Updates'
  PROVE  SessionsKept
<1>1. SessionsTypeOK'
  BY DEF SessionsTypeOK, SessionRow, TxnRow
<1> QED
  BY <1>1 DEF SessionsKept, SessionsInv

\* A sign-in.
LEMMA MintSound ==
  ASSUME MaxSessionsAssumption, SessionsInv, Updates, NEW s \in Session, NEW kind \in Kind,
         Unused(s), session' = [session EXCEPT ![s] = Mint(s, kind, s)], UNCHANGED <<member, txn>>
  PROVE  SessionsKept
<1>1. /\ session \in [Session -> {Fresh} \cup SessionRow] /\ txn \in [Request -> TxnRow]
      /\ Fresh \notin SessionRow /\ Fresh.state = "FREE"
  BY SessionTypes DEF SessionsInv
<1>2. Mint(s, kind, s) \in SessionRow /\ Mint(s, kind, s).login = s
  BY DEF Mint, SessionRow
<1>3. session[s] = Fresh /\ session'[s] = Mint(s, kind, s) /\ \A t \in Session : t # s => session'[t] = session[t]
  BY <1>1 DEF Unused
<1>4. session' \in [Session -> {Fresh} \cup SessionRow]
  BY <1>1, <1>2
<1>5. KnownLogins' /\ OneHeirPerLogin'
  <2>1. session'[s] # Fresh /\ session'[s].login = s
    BY <1>1, <1>2, <1>3
  <2> QED
    BY <1>3, <1>4, <2>1, Beginning
<1>6. Locks' /\ Rotating'
  <2>1. \A q \in Request : \A t \in txn[q].holds : session[t].state = "LIVE" => session'[t] = session[t]
    BY <1>1, <1>3 DEF TxnRow
  <2> QED
    BY <2>1, NoTransaction
<1> QED
  BY <1>1, <1>4, <1>5, <1>6, KeptParts DEF Updates

\* A request that only begins, goes on or gives up.
LEMMA TxnSound ==
  ASSUME MaxSessionsAssumption, SessionsInv, Updates, NEW r \in Request, NEW row \in TxnRow,
         txn' = [txn EXCEPT ![r] = row], session' = session, member' = member,
         \A s \in row.holds : ~LockedFor(r, s),
         row.op = "ROTATE" => \E s \in Session : row.holds = {s} /\ session[s].state = "LIVE",
         row.op = "UPDATE" => member # Absent /\ row.status \in MembershipStatus
  PROVE  SessionsKept
<1>1. /\ session \in [Session -> {Fresh} \cup SessionRow] /\ txn \in [Request -> TxnRow]
  BY SessionTypes DEF SessionsInv
<1>2. txn' \in [Request -> TxnRow] /\ Locks' /\ Rotating'
  BY Transacts
<1>3. KnownLogins' /\ OneHeirPerLogin'
  BY <1>1, Ending
<1>4. Updates'
  BY <1>1 DEF Updates
<1> QED
  BY <1>1, <1>2, <1>3, <1>4, KeptParts

\* A session that nobody holds ends.
LEMMA EndSound ==
  ASSUME MaxSessionsAssumption, SessionsInv, Updates, NEW s \in Session, Unlocked(s), UNCHANGED <<member, txn>>,
         NEW state \in {"REVOKED", "EXPIRED"}, session[s] # Fresh,
         session' = session \/ session' = [session EXCEPT ![s] = [session[s] EXCEPT !.state = state]]
  PROVE  SessionsKept
<1>1. /\ session \in [Session -> {Fresh} \cup SessionRow] /\ txn \in [Request -> TxnRow]
      /\ Fresh \notin SessionRow
  BY SessionTypes DEF SessionsInv
<1> DEFINE row == [session[s] EXCEPT !.state = state]
<1>2. row \in SessionRow /\ row.state = state /\ row.login = session[s].login
  BY <1>1 DEF SessionRow
<1>3. session' = session \/ session' = [session EXCEPT ![s] = row]
  OBVIOUS
<1> HIDE DEF row
<1>4. /\ session' \in [Session -> {Fresh} \cup SessionRow]
      /\ \A t \in Session : t # s => session'[t] = session[t]
      /\ session'[s] \in {session[s], row}
  BY <1>1, <1>2, <1>3
<1>5. KnownLogins' /\ OneHeirPerLogin'
  BY <1>1, <1>2, <1>4, Ending
<1>6. Locks' /\ Rotating'
  <2>1. \A q \in Request : \A t \in txn[q].holds : t \in Session /\ t # s
    BY <1>1 DEF TxnRow, Unlocked
  <2> QED
    BY <1>4, <2>1, NoTransaction
<1> QED
  BY <1>1, <1>4, <1>5, <1>6, KeptParts DEF Updates

LEMMA RevokesOne ==
  ASSUME SessionsTypeOK, MaxSessionsAssumption, NEW s \in Session, session' = Revoked({s})
  PROVE  session' = session \/ session' = [session EXCEPT ![s] = [session[s] EXCEPT !.state = "REVOKED"]]
<1>1. session \in [Session -> {Fresh} \cup SessionRow]
  BY SessionTypes
<1>2. CASE session[s].state = "LIVE"
  <2>1. \A t \in Session : session'[t] = IF t = s THEN [session[s] EXCEPT !.state = "REVOKED"] ELSE session[t]
    BY <1>2 DEF Revoked
  <2> QED
    BY <1>1, <2>1 DEF Revoked
<1>3. CASE session[s].state # "LIVE"
  <2>1. \A t \in Session : session'[t] = session[t]
    BY <1>3 DEF Revoked
  <2> QED
    BY <1>1, <2>1 DEF Revoked
<1> QED
  BY <1>2, <1>3

(***************************************************************************)
(* The requests.                                                           *)
(***************************************************************************)
LEMMA SignInSound ==
  ASSUME MaxSessionsAssumption, SessionsInv, Updates, NEW s \in Session,
         login(s) \/ signInIdentity(s) \/ enterUnit(s) \/ platformLogin(s)
  PROVE  SessionsKept
<1>1. PICK kind \in Kind : Unused(s) /\ session' = [session EXCEPT ![s] = Mint(s, kind, s)]
  BY DEF login, signInIdentity, enterUnit, platformLogin, Kind
<1> QED
  BY <1>1, MintSound DEF login, signInIdentity, enterUnit, platformLogin, accountVars

LEMMA RenewSound ==
  ASSUME MaxSessionsAssumption, SessionsInv, Updates, NEW r \in Request, NEW s \in Session, Renew(r, s)
  PROVE  SessionsKept
<1> DEFINE row == [Idle EXCEPT !.op = "ROTATE", !.holds = {s}]
<1>1. row \in TxnRow /\ row.op = "ROTATE" /\ row.holds = {s}
  BY DEF Idle, TxnRow
<1>2. txn' = [txn EXCEPT ![r] = row] /\ session' = session /\ member' = member
  BY DEF Renew, accountVars
<1> HIDE DEF row
<1> QED
  BY <1>1, <1>2, TxnSound DEF Renew, Rotates

LEMMA ReuseSound ==
  ASSUME MaxSessionsAssumption, SessionsInv, Updates, NEW r \in Request, NEW s \in Session, Reuse(r, s)
  PROVE  SessionsKept
<1> DEFINE row == [Idle EXCEPT !.op = "REVOKE", !.holds = {s}, !.doomed = LiveOf({session[s].kind})]
<1>1. row \in TxnRow /\ row.op = "REVOKE" /\ row.holds = {s}
  BY DEF Idle, TxnRow, LiveOf
<1>2. txn' = [txn EXCEPT ![r] = row] /\ session' = session /\ member' = member
  BY DEF Reuse, accountVars
<1> HIDE DEF row
<1> QED
  BY <1>1, <1>2, TxnSound DEF Reuse

\* The heir takes the place of the session that the request holds alive.
LEMMA commitSound ==
  ASSUME MaxSessionsAssumption, SessionsInv, Updates, NEW r \in Request, NEW heir \in Session, commitRefresh(r, heir)
  PROVE  SessionsKept
<1>1. /\ session \in [Session -> {Fresh} \cup SessionRow] /\ txn \in [Request -> TxnRow]
      /\ Fresh \notin SessionRow /\ Fresh.state = "FREE"
      /\ Idle \in TxnRow /\ Idle.op = "IDLE" /\ Idle.holds = {}
  BY SessionTypes DEF SessionsInv
<1>2. PICK s \in Session : txn[r].holds = {s} /\ session[s].state = "LIVE"
  BY DEF commitRefresh, SessionsInv, Rotating
<1> DEFINE old == [session[s] EXCEPT !.state = "REVOKED"]
           new == Mint(heir, session[s].kind, session[s].login)
<1>3. session[heir] = Fresh /\ s # heir /\ session[s] \in SessionRow
  BY <1>1, <1>2 DEF commitRefresh, Unused
<1>4. /\ old \in SessionRow /\ old.state = "REVOKED" /\ old.login = session[s].login
      /\ new \in SessionRow /\ new.login = session[s].login
  BY <1>3 DEF SessionRow, Mint
<1>5. session' = [session EXCEPT ![s] = old, ![heir] = new]
  <2>1. session' = [session EXCEPT ![s].state = "REVOKED", ![heir] = new]
    BY <1>2 DEF commitRefresh
  <2> HIDE DEF new
  <2> QED
    BY <1>1, <2>1
<1> HIDE DEF old, new
<1>6. /\ session' \in [Session -> {Fresh} \cup SessionRow]
      /\ session'[s] = old /\ session'[heir] = new
      /\ \A t \in Session : t \notin {s, heir} => session'[t] = session[t]
  BY <1>1, <1>3, <1>4, <1>5
<1>7. KnownLogins' /\ OneHeirPerLogin'
  <2>1. session'[heir] # Fresh /\ session'[s] # Fresh /\ session[s] # Fresh
    BY <1>1, <1>3, <1>4, <1>6
  <2>2. \A t \in Session : t # heir =>
          \/ session'[t] = session[t]
          \/ /\ session[t] # Fresh /\ session'[t] # Fresh
             /\ session'[t].login = session[t].login /\ session'[t].state # "LIVE"
    BY <1>4, <1>6, <2>1
  <2>3. session[s].state = "LIVE" /\ session'[s].state # "LIVE" /\ session'[heir].login = session[s].login
    BY <1>2, <1>4, <1>6
  <2> QED
    BY <1>3, <1>6, <2>1, <2>2, <2>3, Beginning
<1>8. txn' = [txn EXCEPT ![r] = Idle] /\ member' = member
  BY DEF commitRefresh, accountVars
<1>9. \A q \in Request \ {r} : \A t \in txn[q].holds : session[t].state = "LIVE" => session'[t] = session[t]
  <2> SUFFICES ASSUME NEW q \in Request \ {r}, NEW t \in txn[q].holds, session[t].state = "LIVE"
               PROVE  session'[t] = session[t]
    OBVIOUS
  <2>1. t \in Session /\ t # s /\ t # heir
    BY <1>1, <1>2, <1>3 DEF SessionsInv, Locks, TxnRow
  <2> QED
    BY <1>6, <2>1
<1>10. txn' \in [Request -> TxnRow] /\ Locks' /\ Rotating'
  BY <1>1, <1>8, <1>9, Transacts
<1>11. Updates'
  BY <1>1, <1>8 DEF Updates
<1> QED
  BY <1>6, <1>7, <1>10, <1>11, KeptParts

LEMMA changePasswordSound ==
  ASSUME MaxSessionsAssumption, SessionsInv, Updates, NEW r \in Request, NEW own \in Session, changeOwnPassword(r, own)
  PROVE  SessionsKept
<1> DEFINE row == [Idle EXCEPT !.op = "REVOKE", !.doomed = LiveOf({"IDENTITY"}) \ {own}]
<1>1. row \in TxnRow /\ row.op = "REVOKE" /\ row.holds = {}
  BY DEF Idle, TxnRow, LiveOf
<1>2. txn' = [txn EXCEPT ![r] = row] /\ session' = session /\ member' = member
  BY DEF changeOwnPassword, accountVars
<1> HIDE DEF row
<1> QED
  BY <1>1, <1>2, TxnSound

LEMMA resetPasswordSound ==
  ASSUME MaxSessionsAssumption, SessionsInv, Updates, NEW r \in Request, resetPassword(r)
  PROVE  SessionsKept
<1> DEFINE row == [Idle EXCEPT !.op = "RESET_UNITS", !.doomed = LiveOf({"UNIT"})]
<1>1. row \in TxnRow /\ row.op = "RESET_UNITS" /\ row.holds = {}
  BY DEF Idle, TxnRow, LiveOf
<1>2. txn' = [txn EXCEPT ![r] = row] /\ session' = session /\ member' = member
  BY DEF resetPassword
<1> HIDE DEF row
<1> QED
  BY <1>1, <1>2, TxnSound

LEMMA resetIdentitiesSound ==
  ASSUME MaxSessionsAssumption, SessionsInv, Updates, NEW r \in Request, resetIdentities(r)
  PROVE  SessionsKept
<1>1. txn \in [Request -> TxnRow] /\ txn[r] \in TxnRow
  BY SessionTypes DEF SessionsInv
<1> DEFINE row == [txn[r] EXCEPT !.op = "RESET", !.holds = txn[r].doomed \cap LiveOf({"UNIT"}),
                                 !.doomed = LiveOf({"IDENTITY"})]
<1>2. LiveOf({"IDENTITY"}) \subseteq Session /\ txn[r].doomed \cap LiveOf({"UNIT"}) \subseteq Session
  BY DEF LiveOf
<1>3. row \in TxnRow /\ row.op = "RESET" /\ row.holds \subseteq txn[r].doomed
  BY <1>1, <1>2 DEF TxnRow
<1>4. txn' = [txn EXCEPT ![r] = row] /\ session' = session /\ member' = member
  BY <1>1 DEF resetIdentities, accountVars
<1>5. \A s \in txn[r].doomed : ~LockedFor(r, s)
  BY DEF resetIdentities
<1> HIDE DEF row
<1> QED
  BY <1>3, <1>4, <1>5, TxnSound

LEMMA updateMemberSound ==
  ASSUME MaxSessionsAssumption, SessionsInv, Updates, NEW r \in Request, NEW status \in MembershipStatus,
         updateMember(r, status)
  PROVE  SessionsKept
<1> DEFINE row == [Idle EXCEPT !.op = "UPDATE", !.status = status, !.doomed = LiveOf({"UNIT"})]
<1>1. row \in TxnRow /\ row.op = "UPDATE" /\ row.holds = {} /\ row.status = status
  BY DEF Idle, TxnRow, LiveOf
<1>2. txn' = [txn EXCEPT ![r] = row] /\ session' = session /\ member' = member /\ member # Absent
  BY DEF updateMember, accountVars
<1> HIDE DEF row
<1> QED
  BY <1>1, <1>2, TxnSound

LEMMA abortSound ==
  ASSUME MaxSessionsAssumption, SessionsInv, Updates, NEW r \in Request, abort(r)
  PROVE  SessionsKept
<1>1. Idle \in TxnRow /\ Idle.op = "IDLE" /\ Idle.holds = {}
  BY SessionTypes
<1>2. txn' = [txn EXCEPT ![r] = Idle] /\ session' = session /\ member' = member
  BY DEF abort
<1> QED
  BY <1>1, <1>2, TxnSound

\* Rows that others hold are waited for.
LEMMA finishSound ==
  ASSUME MaxSessionsAssumption, AccountsTypeOK, SessionsInv, Updates, NEW r \in Request, finishRevocation(r)
  PROVE  SessionsKept
<1>1. /\ session \in [Session -> {Fresh} \cup SessionRow] /\ txn \in [Request -> TxnRow]
      /\ Fresh \notin SessionRow /\ Fresh.state = "FREE"
      /\ Idle \in TxnRow /\ Idle.op = "IDLE" /\ Idle.holds = {}
  BY SessionTypes DEF SessionsInv
<1> DEFINE ended == txn[r].doomed \cup txn[r].holds
<1>2. session' = Revoked(ended) /\ txn' = [txn EXCEPT ![r] = Idle]
  BY DEF finishRevocation
<1>3. ASSUME NEW s \in Session
      PROVE  /\ session'[s] \in {Fresh} \cup SessionRow
             /\ \/ session'[s] = session[s]
                \/ /\ session[s] # Fresh /\ session'[s] # Fresh /\ s \in ended
                   /\ session'[s].login = session[s].login /\ session'[s].state # "LIVE"
  <2>1. CASE s \in ended /\ session[s].state = "LIVE"
    <3>1. session[s] \in SessionRow /\ session'[s] = [session[s] EXCEPT !.state = "REVOKED"]
      BY <1>1, <1>2, <2>1 DEF Revoked
    <3>2. /\ [session[s] EXCEPT !.state = "REVOKED"] \in SessionRow
          /\ [session[s] EXCEPT !.state = "REVOKED"].login = session[s].login
          /\ [session[s] EXCEPT !.state = "REVOKED"].state # "LIVE"
      BY <3>1 DEF SessionRow
    <3> QED
      BY <1>1, <2>1, <3>1, <3>2
  <2>2. CASE ~(s \in ended /\ session[s].state = "LIVE")
    BY <1>1, <1>2, <2>2 DEF Revoked
  <2> QED
    BY <2>1, <2>2
<1>4. session' \in [Session -> {Fresh} \cup SessionRow]
  BY <1>2, <1>3 DEF Revoked
<1>5. KnownLogins' /\ OneHeirPerLogin'
  BY <1>3, <1>4, Ending
<1>6. \A q \in Request \ {r} : \A t \in txn[q].holds : session[t].state = "LIVE" => session'[t] = session[t]
  <2> SUFFICES ASSUME NEW q \in Request \ {r}, NEW t \in txn[q].holds PROVE t \notin ended /\ t \in Session
    BY <1>3
  <2>1. t \notin txn[r].doomed
    BY DEF finishRevocation, LockedFor
  <2>2. t \notin txn[r].holds /\ t \in Session
    BY <1>1 DEF SessionsInv, Locks, TxnRow
  <2> QED
    BY <2>1, <2>2
<1>7. txn' \in [Request -> TxnRow] /\ Locks' /\ Rotating'
  BY <1>1, <1>2, <1>6, Transacts
<1>8. member # Absent => member' # Absent
  <2>1. \/ member' = member
        \/ txn[r].op = "UPDATE" /\ member' = [member EXCEPT !.status = txn[r].status]
    BY DEF finishRevocation
  <2> QED
    BY <2>1 DEF AccountsTypeOK, Absent
<1>9. Updates'
  BY <1>1, <1>2, <1>8 DEF Updates
<1> QED
  BY <1>4, <1>5, <1>7, <1>9, KeptParts

LEMMA LogoutSound ==
  ASSUME MaxSessionsAssumption, SessionsInv, Updates, NEW s \in Session,
         logout(s) \/ logoutIdentity(s) \/ platformLogout(s) \/ sessionExpires(s)
  PROVE  SessionsKept
<1>1. Fresh.state = "FREE"
  BY SessionTypes
<1>2. UNCHANGED <<member, txn>> /\ Unlocked(s) /\ session[s] # Fresh
  BY <1>1 DEF logout, logoutIdentity, platformLogout, sessionExpires, accountVars
<1>3. CASE session' = Revoked({s})
  BY <1>2, <1>3, RevokesOne, EndSound DEF SessionsInv
<1>4. CASE sessionExpires(s)
  <2>1. session' = [session EXCEPT ![s] = [session[s] EXCEPT !.state = "EXPIRED"]]
    BY <1>4 DEF sessionExpires, SessionsInv, SessionsTypeOK
  <2> QED
    BY <1>2, <2>1, EndSound
<1> QED
  BY <1>3, <1>4 DEF logout, logoutIdentity, platformLogout

LEMMA SessionsStep ==
  ASSUME MaxSessionsAssumption, AccountsTypeOK, SessionsInv, Updates, SessionsNext
  PROVE  SessionsKept
<1>1. ASSUME NEW r \in Request, NEW s \in Session,
             \/ beginRefresh(r, s) \/ commitRefresh(r, s) \/ reuseDetected(r, s) \/ platformRefresh(r, s)
             \/ changeOwnPassword(r, s)
      PROVE  SessionsKept
  BY <1>1, RenewSound, ReuseSound, commitSound, changePasswordSound DEF beginRefresh, reuseDetected, platformRefresh
<1>2. ASSUME NEW r \in Request, resetPassword(r) \/ resetIdentities(r) \/ finishRevocation(r) \/ abort(r)
      PROVE  SessionsKept
  BY <1>2, resetPasswordSound, resetIdentitiesSound, finishSound, abortSound
<1> QED
  BY <1>1, <1>2, SignInSound, updateMemberSound, LogoutSound DEF SessionsNext

(***************************************************************************)
(* What the sessions do to the account.                                    *)
(***************************************************************************)
LEMMA SessionsStanding ==
  ASSUME Standing, SessionsNext
  PROVE  Standing'
<1>1. CASE UNCHANGED <<profile, registration, announced, announcing>>
  BY <1>1 DEF Standing, StandingAgrees
<1>2. ASSUME NEW r \in Request, finishRevocation(r) PROVE Standing'
  BY <1>1, <1>2, ReviewStanding DEF finishRevocation
<1>3. ASSUME NEW s \in Session, logoutIdentity(s) PROVE Standing'
  BY <1>1, <1>3, PreferencesStanding DEF logoutIdentity, PreferencesStay, Standing, StandingAgrees
<1> QED
  BY <1>1, <1>2, <1>3 DEF SessionsNext, login, signInIdentity, enterUnit, platformLogin, beginRefresh, Renew,
     commitRefresh, reuseDetected, Reuse, platformRefresh, changeOwnPassword, resetPassword, resetIdentities,
     abort, updateMember, logout, platformLogout, sessionExpires, accountVars

LEMMA SessionsAccounts ==
  ASSUME AccountsTypeOK, Updates, SessionsNext
  PROVE  AccountsTypeOK'
<1>1. CASE UNCHANGED <<verified, member, profile, registration, availability, located, announced, announcing>>
           /\ links' \subseteq LinkKind
  BY <1>1 DEF AccountsTypeOK
<1>2. ASSUME NEW r \in Request, finishRevocation(r) PROVE AccountsTypeOK'
  <2>1. CASE txn[r].op = "RESET"
    BY <1>2, <2>1, PreferencesTyped DEF finishRevocation, Preferences, AccountsTypeOK
  <2>2. CASE txn[r].op = "UPDATE"
    <3>1. member' = [member EXCEPT !.status = txn[r].status] /\ txn[r].status \in MembershipStatus /\ member # Absent
      BY <1>2, <2>2 DEF finishRevocation, Updates
    <3>2. member' \in [role : {"COURIER", "STORE_OPERATOR"}, status : MembershipStatus]
      BY <3>1 DEF AccountsTypeOK
    <3> QED
      BY <1>2, <2>2, <3>2 DEF finishRevocation, AccountsTypeOK
  <2>3. CASE txn[r].op \notin {"RESET", "UPDATE"}
    BY <1>2, <2>3 DEF finishRevocation, AccountsTypeOK
  <2> QED
    BY <2>1, <2>2, <2>3
<1>3. ASSUME NEW s \in Session, logoutIdentity(s) PROVE AccountsTypeOK'
  <2>1. Preferences'
    BY <1>3, WrittenTyped DEF logoutIdentity, PreferencesStay, Preferences, AccountsTypeOK
  <2> QED
    BY <1>3, <2>1 DEF logoutIdentity, Preferences, AccountsTypeOK
<1>4. ASSUME NEW r \in Request, resetPassword(r) \/ abort(r) PROVE AccountsTypeOK'
  BY <1>4 DEF resetPassword, abort, AccountsTypeOK, LinkKind
<1> QED
  BY <1>1, <1>2, <1>3, <1>4 DEF SessionsNext, login, signInIdentity, enterUnit, platformLogin, beginRefresh, Renew,
     commitRefresh, reuseDetected, Reuse, platformRefresh, changeOwnPassword, resetIdentities,
     updateMember, logout, platformLogout, sessionExpires, accountVars, AccountsTypeOK

AccessInv == AccountsTypeOK /\ Standing /\ SessionsInv /\ Updates

LEMMA AccessStep ==
  ASSUME MaxSessionsAssumption, AccessInv, [(AccountsNext /\ UNCHANGED sessionVars) \/ SessionsNext]_access
  PROVE  AccessInv'
<1>1. CASE AccountsNext /\ UNCHANGED sessionVars
  <2>1. AccountsTypeOK' /\ Standing' /\ (member # Absent => member' # Absent)
    BY <1>1, AccountsTyped, AccountsStanding DEF AccessInv
  <2>2. SessionsInv' /\ Updates'
    BY <1>1, <2>1 DEF sessionVars, AccessInv, SessionsInv, SessionsTypeOK, KnownLogins, OneHeirPerLogin, Locks,
       Rotating, Updates
  <2> QED
    BY <2>1, <2>2 DEF AccessInv
<1>2. CASE SessionsNext
  BY <1>2, SessionsStep, SessionsStanding, SessionsAccounts DEF AccessInv, SessionsKept
<1>3. CASE UNCHANGED access
  BY <1>3 DEF access, accountVars, sessionVars, AccessInv, AccountsTypeOK, Standing, StandingAgrees, SessionsInv,
     SessionsTypeOK, KnownLogins, OneHeirPerLogin, Locks, Rotating, Updates
<1> QED
  BY <1>1, <1>2, <1>3

LEMMA AccessBegins ==
  ASSUME MaxSessionsAssumption, AccessInit
  PROVE  AccessInv
<1>1. /\ Fresh \notin SessionRow /\ Fresh.state = "FREE"
      /\ Idle \in TxnRow /\ Idle.op = "IDLE" /\ Idle.holds = {}
  BY SessionTypes
<1>2. session = [s \in Session |-> Fresh] /\ txn = [r \in Request |-> Idle]
  BY DEF AccessInit, SessionsInit
<1>3. SessionsTypeOK
  BY <1>1, <1>2, SessionTypes
<1> HIDE DEF Fresh, Idle
<1>4. SessionsInv /\ Updates
  BY <1>1, <1>2, <1>3 DEF SessionsInv, KnownLogins, OneHeirPerLogin, Locks, Rotating, Updates
<1>5. AccountsTypeOK /\ Standing
  BY DEF AccessInit, AccountsInit, AccountsTypeOK, Standing, StandingAgrees, Absent, MembershipStatus
<1> QED
  BY <1>4, <1>5 DEF AccessInv

(***************************************************************************)
(* The parts together.                                                     *)
(***************************************************************************)
AccessNext == (AccountsNext /\ UNCHANGED sessionVars) \/ SessionsNext

\* A step in which every part moves as it likes, not only while the others have not begun.
FreeNext ==
  /\ [AccessNext]_access
  /\ [PapersNext]_paperVars
  /\ [DisputesNext]_disputeVars
  /\ [EligibilityNext]_eligibilityVars
  /\ [BillingNext]_billingVars

Free == Init /\ [][FreeNext]_vars

PeopleInv ==
  /\ AccessInv
  /\ PapersTypeOK
  /\ DisputesInv
  /\ EligibilityInv
  /\ BillingInv

\* What a step of each part keeps.
PeopleMoves == LatePaperIgnored /\ VerdictKept /\ BeginsEarned

LEMMA StepIsFree ==
  ASSUME [Next]_vars
  PROVE  [FreeNext]_vars
<1> USE DEF FreeNext, AccessNext
<1>1. CASE UNCHANGED vars
  BY <1>1
<1>2. CASE ((AccountsNext /\ UNCHANGED sessionVars) \/ SessionsNext)
           /\ UNCHANGED <<paperVars, disputeVars, eligibilityVars, billingVars>>
  BY <1>2
<1>3. CASE PapersNext /\ UNCHANGED <<access, disputeVars, eligibilityVars, billingVars>>
  BY <1>3
<1>4. CASE DisputesNext /\ UNCHANGED <<access, paperVars, eligibilityVars, billingVars>>
  BY <1>4
<1>5. CASE EligibilityNext /\ UNCHANGED <<access, paperVars, disputeVars, billingVars>>
  BY <1>5
<1>6. CASE BillingNext /\ UNCHANGED <<access, paperVars, disputeVars, eligibilityVars>>
  BY <1>6
<1> QED
  BY <1>1, <1>2, <1>3, <1>4, <1>5, <1>6 DEF Next

LEMMA PeopleBegin ==
  ASSUME Init
  PROVE  PeopleInv
<1>1. AccessInit /\ PapersInit /\ DisputesInit /\ EligibilityInit /\ BillingInit
  BY DEF Init, AccessInit
<1>2. AccessInv /\ PapersTypeOK
  BY <1>1, AccessBegins, PapersBegin, MaxSessionsAssumption
<1>3. DisputesInv /\ EligibilityInv /\ BillingInv
  BY <1>1, DisputesBegin, EligibilityBegins, BillingBegins, ReputationAssumption, BillingAssumption
<1> QED
  BY <1>2, <1>3 DEF PeopleInv

LEMMA PeopleStep ==
  ASSUME PeopleInv, [FreeNext]_vars
  PROVE  PeopleInv' /\ PeopleMoves
<1>1. /\ [AccessNext]_access
      /\ [PapersNext]_paperVars
      /\ [DisputesNext]_disputeVars
      /\ [EligibilityNext]_eligibilityVars
      /\ [BillingNext]_billingVars
  BY DEF FreeNext, vars
<1>2. AccessInv'
  BY <1>1, AccessStep, MaxSessionsAssumption DEF PeopleInv, AccessNext
<1>3. PapersTypeOK' /\ LatePaperIgnored
  BY <1>1, PapersStep DEF PeopleInv
<1>4. DisputesInv' /\ VerdictKept
  BY <1>1, DisputesStep DEF PeopleInv
<1>5. EligibilityInv'
  BY <1>1, EligibilityStep, ReputationAssumption DEF PeopleInv
<1>6. BillingInv' /\ BeginsEarned
  BY <1>1, BillingStep, BillingAssumption DEF PeopleInv
<1> QED
  BY <1>2, <1>3, <1>4, <1>5, <1>6 DEF PeopleInv, PeopleMoves

\* What is proved of the parts when they move freely holds in the runs' specification, in
\* which each moves while the others rest.
LEMMA RestIsFree == Spec => Free
BY StepIsFree, PTL DEF Spec, Free

\* The inductive invariant of accounts, sessions, papers, disputes, blocks and invoices.
THEOREM PeopleInvariant == Free => []PeopleInv
BY PeopleBegin, PeopleStep, PTL DEF Free

\* Whatever is registered, signed in, uploaded, disputed, blocked or invoiced, in any order,
\* every row has its type: no status outside the CHECK constraints is ever written.
THEOREM PeopleTyped == Spec => []TypeOK
<1>1. PeopleInv => TypeOK
  BY DEF PeopleInv, AccessInv, SessionsInv, DisputesInv, EligibilityInv, BillingInv, TypeOK
<1> QED
  BY <1>1, PeopleInvariant, RestIsFree, PTL

\* The decision of the platform on a registration, the courier's profile and what company
\* applications announce about him agree, whoever of the platform, the company and the
\* courier writes between another's read and its write.
THEOREM StandingsAgree == Spec => []StandingAgrees
<1>1. PeopleInv => StandingAgrees
  BY DEF PeopleInv, AccessInv, Standing
<1> QED
  BY <1>1, PeopleInvariant, RestIsFree, PTL

\* However many requests renew, revoke and present again one sign-in, at most one living
\* session descends from it.
THEOREM OneHeir == Spec => []OneHeirPerLogin
<1>1. PeopleInv => OneHeirPerLogin
  BY DEF PeopleInv, AccessInv, SessionsInv
<1> QED
  BY <1>1, PeopleInvariant, RestIsFree, PTL

\* The rule that decides and the rule that explains, written apart with different
\* comparisons, agree at every count of rides and for every set of blocks.
THEOREM EligibilityExplained == Spec => []EligibilityIsExplained
<1>1. PeopleInv => EligibilityIsExplained
  BY Explained, ReputationAssumption DEF PeopleInv
<1> QED
  BY <1>1, PeopleInvariant, RestIsFree, PTL

\* The late review of a paper that was replaced changes no readiness, and a manager's
\* decision on what he read never reopens a dispute that another resolved.
THEOREM DecisionsKept == Spec => DecisionsStand
<1>1. PeopleMoves => [LatePaperIgnored]_paperVars /\ [VerdictKept]_disputeVars
  BY DEF PeopleMoves
<1>2. PeopleInv /\ [FreeNext]_vars => [LatePaperIgnored]_paperVars /\ [VerdictKept]_disputeVars
  BY <1>1, PeopleStep
<1>3. Spec => [][LatePaperIgnored]_paperVars /\ [][VerdictKept]_disputeVars
  BY <1>2, PeopleInvariant, RestIsFree, PTL DEF Free
<1>4. Spec => OldPapersChangeNothing
  BY <1>3 DEF OldPapersChangeNothing, LatePaperIgnored
<1>5. Spec => VerdictStands
  BY <1>3 DEF VerdictStands, VerdictKept
<1> QED
  BY <1>4, <1>5 DEF DecisionsStand

\* A unit is blocked only while it owes an invoice that is delinquent, and a block begins
\* only after the notice of an earlier day, in whatever order invoices are drawn, paid,
\* cancelled, waived and swept.
THEOREM BlocksAreEarned == Spec => BlockIsEarned
<1>1. PeopleInv => (Blocked => Delinquent(invoice) # {})
  BY DEF PeopleInv, BillingInv, HeldForDebt, Blocked
<1>2. PeopleInv /\ [FreeNext]_vars => [BeginsEarned]_billingVars
  BY PeopleStep DEF PeopleMoves
<1>3. Spec => [](Blocked => Delinquent(invoice) # {})
  BY <1>1, PeopleInvariant, RestIsFree, PTL
<1>4. Spec => [][BeginsEarned]_billingVars
  BY <1>2, PeopleInvariant, RestIsFree, PTL DEF Free
<1> QED
  BY <1>3, <1>4 DEF BlockIsEarned, BeginsEarned

=============================================================================

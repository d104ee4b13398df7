------------------------------ MODULE Billing ------------------------------
(***************************************************************************)
(* The invoices of one unit (modules/billing): its profile, the platform   *)
(* administrator who draws, issues, edits, cancels and receives, the       *)
(* monthly worker, and the financial hold that keeps the unit from new     *)
(* operations.  Every writer locks the row of the unit first, so that a    *)
(* handler is one step.  Time is counted in days, the 24 hours of notice   *)
(* as one; an amount is a number of instalments.                           *)
(***************************************************************************)
EXTENDS Naturals, FiniteSets, FiniteSetsExt

CONSTANTS Charge,           \* period and charge_type of an invoice, unique in the unit
          Subscription,     \* the charge the worker draws for the current month
          DelinquentAfter,  \* days of delay, 5 in the code
          Graces, Dues,     \* grace_days and days on which an invoice may fall due
          MaxDay

ASSUME BillingAssumption ==
  /\ Subscription \in Charge
  /\ DelinquentAfter \in Nat \ {0} /\ MaxDay \in Nat
  /\ Graces \subseteq Nat /\ Dues \subseteq Nat

VARIABLES
  terms,    \* unit_billing_profiles
  invoice,  \* tenant_invoices of the unit
  hold,     \* unit_financial_holds
  day

billingVars == <<terms, invoice, hold, day>>

Never == MaxDay + 2
Total == 2
Unpaid == {"ISSUED", "OVERDUE", "DELINQUENT"}

NotDrawn == [status |-> "NONE", due |-> 0, total |-> 0, paid |-> 0, notified |-> Never, suspension |-> Never]
Draft(due, total) == [NotDrawn EXCEPT !.status = "DRAFT", !.due = due, !.total = total]
NoHold == [exists |-> FALSE, scheduled |-> Never, blocked |-> FALSE, released |-> FALSE, waiver |-> 0]

Profiles == [exists : {TRUE}, enabled : BOOLEAN, grace : Graces, due : Dues, amount : {0, Total}]

NoProfile == [exists |-> FALSE, enabled |-> FALSE, grace |-> 0, due |-> 0, amount |-> 0]

InvoiceRow ==
  {row \in [status : {"NONE", "DRAFT", "ISSUED", "OVERDUE", "DELINQUENT", "PAID", "CANCELLED"},
            due : Nat, total : {0, Total}, paid : 0..Total, notified : Nat, suspension : Nat] :
     row.paid <= row.total}
HoldRow == [exists : BOOLEAN, scheduled : Nat, blocked : BOOLEAN, released : BOOLEAN, waiver : Nat]

BillingTypeOK ==
  /\ terms \in Profiles \cup {NoProfile}
  /\ invoice \in [Charge -> InvoiceRow]
  /\ hold \in HoldRow
  /\ day \in 0..MaxDay

BillingInit ==
  /\ terms = NoProfile
  /\ invoice = [k \in Charge |-> NotDrawn]
  /\ hold = NoHold
  /\ day = 0

\* The condition of unit_accepts_new_operations.
Blocked == hold.blocked /\ ~hold.released /\ hold.waiver <= day

Delinquent(rows) == {k \in Charge : rows[k].status = "DELINQUENT"}

\* Mutant: an invoice that is not overdue yet keeps the unit blocked, too.
ReconciledInFull(rows) ==
  IF \A k \in Charge : rows[k].status \notin Unpaid
  THEN [hold EXCEPT !.released = hold.exists, !.scheduled = Never]
  ELSE hold

\* reconcileFinancialHold, with the invoices as the handler leaves them.
Reconciled(rows) ==
  IF Delinquent(rows) = {} /\ ~hold.released
  THEN [hold EXCEPT !.released = hold.exists, !.scheduled = Never]
  ELSE hold

\* recordInvoiceState and reconcileFinancialHold.
Writes(k, row) ==
  /\ invoice' = [invoice EXCEPT ![k] = row]
  /\ hold' = Reconciled(invoice')
  /\ UNCHANGED <<terms, day>>

(***************************************************************************)
(* The platform administrator.                                             *)
(***************************************************************************)
saveBillingProfile(input) ==
  /\ terms # input
  /\ terms' = input
  /\ UNCHANGED <<invoice, hold, day>>

createInvoice(k, due) ==
  /\ terms.exists /\ invoice[k].status = "NONE"
  /\ invoice' = [invoice EXCEPT ![k] = Draft(due, Total)]
  /\ UNCHANGED <<terms, hold, day>>

\* A draft may also become one of another month or type that has none.
editInvoice(k, to, due) ==
  /\ invoice[k].status = "DRAFT"
  /\ to = k \/ invoice[to].status = "NONE"
  /\ invoice' = [[invoice EXCEPT ![k] = NotDrawn] EXCEPT ![to] = Draft(due, Total)]
  /\ UNCHANGED <<terms, hold, day>>

issueInvoice(k) ==
  /\ invoice[k].status = "DRAFT" /\ invoice[k].total > 0
  /\ Writes(k, [invoice[k] EXCEPT !.status = "ISSUED"])

cancelInvoice(k) ==
  /\ invoice[k].status \notin {"NONE", "PAID", "CANCELLED"} /\ invoice[k].paid = 0
  /\ Writes(k, [invoice[k] EXCEPT !.status = "CANCELLED"])

registerInvoicePayment(k, amount) ==
  LET row == invoice[k]
      balance == row.total - row.paid
  IN /\ row.status \in Unpaid
     /\ amount \in 1..balance
     /\ Writes(k, [row EXCEPT !.paid = @ + amount, !.status = IF amount = balance THEN "PAID" ELSE @])

\* Both waive and release: the hold is lifted until a day that is given.
waiveHold(until) ==
  /\ until > day
  /\ hold' = [hold EXCEPT !.exists = TRUE, !.waiver = until, !.released = TRUE]
  /\ UNCHANGED <<terms, invoice, day>>

(***************************************************************************)
(* The worker.                                                             *)
(***************************************************************************)
\* An invoice that is late is announced as delinquent, once, or as overdue.
Aged(row) ==
  IF row.status \in Unpaid /\ row.notified = Never /\ day >= row.due + DelinquentAfter
  THEN [row EXCEPT !.status = "DELINQUENT", !.notified = day,
                   !.suspension = Max({day + 1, row.due + terms.grace})]
  ELSE IF row.status = "ISSUED" /\ day > row.due
  THEN [row EXCEPT !.status = "OVERDUE"]
  ELSE row

\* The hold when the first of the deadlines is at.
Enforced(at) ==
  LET row == [hold EXCEPT !.exists = TRUE, !.scheduled = at]
  IN IF at <= day /\ row.waiver <= day /\ (~row.blocked \/ row.released)
     THEN [row EXCEPT !.blocked = TRUE, !.released = FALSE]
     ELSE row

\* The subscription may have begun or not (starts_on); one invoice per month and
\* charge, even if it was cancelled.
Drawn(begun) ==
  IF begun /\ terms.enabled /\ invoice[Subscription].status = "NONE"
  THEN [invoice EXCEPT ![Subscription] = Draft(terms.due, terms.amount)]
  ELSE invoice

processBillingBatch ==
  /\ terms.exists
  /\ \E begun \in BOOLEAN : invoice' = [k \in Charge |-> Aged(Drawn(begun)[k])]
  /\ LET deadlines == {invoice'[k].suspension : k \in Delinquent(invoice')}
     IN hold' = IF deadlines # {} THEN Enforced(Min(deadlines)) ELSE Reconciled(invoice')
  /\ UNCHANGED <<terms, day>>

dayPasses ==
  /\ day < MaxDay
  /\ day' = day + 1
  /\ UNCHANGED <<terms, invoice, hold>>

BillingNext ==
  \/ \E input \in Profiles : saveBillingProfile(input)
  \/ \E k \in Charge, due \in Dues : createInvoice(k, due) \/ \E to \in Charge : editInvoice(k, to, due)
  \/ \E k \in Charge : issueInvoice(k) \/ cancelInvoice(k) \/ \E amount \in 1..Total : registerInvoicePayment(k, amount)
  \/ \E until \in 1..MaxDay + 1 : waiveHold(until)
  \/ processBillingBatch
  \/ dayPasses

(***************************************************************************)
(* Properties.                                                             *)
(***************************************************************************)
\* A unit is kept from new operations only while an invoice of its own is
\* delinquent, through payments, cancellations, waivers, edits and new drafts; and
\* a block begins only on an invoice that was announced a day before and whose time
\* is over.
BlockIsEarned ==
  /\ [](Blocked => Delinquent(invoice) # {})
  /\ [][~Blocked /\ Blocked' =>
          \E k \in Delinquent(invoice') : invoice'[k].notified < day /\ invoice'[k].suspension <= day]_billingVars
=============================================================================

------------------------------- MODULE Orders -------------------------------
(***************************************************************************)
(* One variant of one store and the orders of the carts that hold it: the   *)
(* rows that checkout, stock, PIX and finance share, and what the bank and  *)
(* the courier do beside them.  Every writer of an order takes the advisory *)
(* lock of the store, so a call of the database is one step.  A cart has at *)
(* most one order and names it.                                             *)
(***************************************************************************)
EXTENDS Integers, FiniteSets

CONSTANTS
  Carts,
  NoOrder,
  MaxStock,  \* a bound: the most units that are ever entered
  Quantity,  \* a bound: the quantities that customers choose
  Plain      \* a bound: carts that are only collected and paid by card

ASSUME CommerceConstants ==
  IsFiniteSet(Carts) /\ MaxStock \in Nat /\ Quantity \subseteq Nat \ {0} /\ Plain \subseteq Carts

VARIABLES
  mode,      \* stock_mode of the product
  balance,   \* commerce_inventory_balances
  adjusted,  \* the sum of the manual rows of commerce_inventory_movements
  cart,      \* cart[k]: the quantity in the cart
  orders,    \* commerce_orders with its one item
  due,       \* due[k]: has reservation_expires_at passed?
  pix,       \* commerce_pix_payments
  worker,    \* worker[k]: where the process that holds the session lock of k stands
  bank,      \* bank[k]: requests for a charge that were sent, and the charge
  delivery,  \* the delivery of the order, created and linked in one transaction
  books      \* finance entry, open cash and sale of the order

stockVars == <<mode, balance, adjusted>>
orderVars == <<cart, orders, due>>
pixVars == <<pix, worker, bank>>
saleVars == <<stockVars, orderVars, pixVars, delivery, books>>

Holding == {"RECEIVED", "WAITING_PAYMENT"}
Released == {"CONFIRMED", "READY_PICKUP"}
Ended == {"COMPLETED", "CANCELLED", "EXPIRED"}
Paid == {"EXACT", "LATE", "WRONG"}

Order == [status : Holding \cup Released \cup Ended, fulfillment : {"PICKUP", "DELIVERY"},
          method : {"PIX", "CARD_PRESENT"}, quantity : Quantity, stocked : BOOLEAN, approved : BOOLEAN]

ASSUME NoOrderIsNoRow == NoOrder \notin Order

\* linked: tax_id and pix_key are stored, so that a later run can look for the charge.
\* old: created more than seven days ago, so that no run looks for it any more.
Pix == [status : {"NONE", "CREATED", "REQUESTED", "PENDING", "PAID", "EXPIRED", "REVIEW_REQUIRED"},
        linked : BOOLEAN, paid : BOOLEAN, refund : BOOLEAN, old : BOOLEAN]
NoPix == [status |-> "NONE", linked |-> FALSE, paid |-> FALSE, refund |-> FALSE, old |-> FALSE]

SaleTypeOK ==
  /\ mode \in {"STOCKED", "MADE_TO_ORDER"}
  /\ balance \in [onHand : 0..MaxStock, reserved : 0..MaxStock] /\ adjusted \in 0..MaxStock
  /\ cart \in [Carts -> {0} \cup Quantity]
  /\ orders \in [Carts -> Order \cup {NoOrder}] /\ due \in [Carts -> BOOLEAN]
  /\ pix \in [Carts -> Pix]
  /\ worker \in [Carts -> {"IDLE", "CREATE", "POST", "CREATED", "FAILED", "FIND", "SETTLE"}]
  /\ bank \in [Carts -> [posts : 0..1, charge : {"NONE", "ACTIVE"} \cup Paid]]
  /\ delivery \in [Carts -> {"NONE", "OPEN", "DELIVERED", "CANCELLED", "RETURNED"}]
  /\ books \in [Carts -> [entry : {"NONE", "CASH_ONLY", "REVENUE"}, cash : 0..1]]

SaleInit ==
  /\ mode = "STOCKED" /\ balance = [onHand |-> 0, reserved |-> 0] /\ adjusted = 0
  /\ cart = [k \in Carts |-> 0] /\ orders = [k \in Carts |-> NoOrder]
  /\ due = [k \in Carts |-> FALSE] /\ pix = [k \in Carts |-> NoPix]
  /\ worker = [k \in Carts |-> "IDLE"] /\ bank = [k \in Carts |-> [posts |-> 0, charge |-> "NONE"]]
  /\ delivery = [k \in Carts |-> "NONE"]
  /\ books = [k \in Carts |-> [entry |-> "NONE", cash |-> 0]]

Placed == {k \in Carts : orders[k] # NoOrder}
InStatus(S) == {k \in Placed : orders[k].status \in S}

\* How many pieces of counted stock the orders in S are about, each counted by itself.
Pieces(S) == UNION {{k} \X (1..orders[k].quantity) : k \in {j \in S : orders[j].stocked}}
Units(S) == Cardinality(Pieces(S))

----------------------------------------------------------------------------
(***************************************************************************)
(* Carts, checkout, expiry and the transitions of an order, and the manager *)
(* who moves stock.  A request whose version is stale is refused and is no  *)
(* step.                                                                    *)
(***************************************************************************)

\* What a change of the order's state does to the balance and to the books.
Moved(o, next) ==
  IF ~o.stocked THEN 0
  ELSE IF next = "CONFIRMED" THEN -o.quantity
  ELSE IF next = "CANCELLED" /\ o.status \in Released THEN o.quantity ELSE 0

Freed(o, next) ==
  IF o.stocked /\ next \in {"CONFIRMED", "CANCELLED"} /\ o.status \in Holding THEN o.quantity ELSE 0

Unpaid(p) == IF p.paid \/ p.status \in {"NONE", "REVIEW_REQUIRED"} THEN p ELSE [p EXCEPT !.status = "EXPIRED"]

\* Mutant: a cancelled order keeps its money.
CancelledQuietly(p) == Unpaid(p)

Cancelled(p) == [Unpaid(p) EXCEPT !.refund = p.paid]
Recognized(b, next) == IF next = "COMPLETED" THEN [b EXCEPT !.entry = "REVENUE"] ELSE b

\* commerce_apply_approved_state on the order o of k, given the balance b and the payments p.
Apply(k, o, next, b, os, p) ==
  /\ balance' = [onHand |-> b.onHand + Moved(o, next), reserved |-> b.reserved - Freed(o, next)]
  /\ orders' = [os EXCEPT ![k] = [o EXCEPT !.status = next]]
  /\ pix' = IF next = "CANCELLED" THEN [p EXCEPT ![k] = Cancelled(@)] ELSE p
  /\ books' = [books EXCEPT ![k] = Recognized(@, next)]

----------------------------------------------------------------------------
\* commerce_expire_store_orders, alone or at the start of a checkout or a transition.
Overdue == {k \in InStatus(Holding) : due[k]}

KeptBalance == [balance EXCEPT !.reserved = @ - Units(Overdue)]
KeptOrders == [k \in Carts |-> IF k \in Overdue THEN [orders[k] EXCEPT !.status = "EXPIRED"] ELSE orders[k]]
KeptPix == [k \in Carts |-> IF k \in Overdue THEN Unpaid(pix[k]) ELSE pix[k]]

expireCommerceOrders ==
  /\ Overdue # {}
  /\ balance' = KeptBalance /\ orders' = KeptOrders /\ pix' = KeptPix
  /\ UNCHANGED <<mode, adjusted, cart, due, worker, bank, delivery, books>>

----------------------------------------------------------------------------
Available == balance.onHand - balance.reserved

cartChange(k, q) ==
  /\ orders[k] = NoOrder /\ cart[k] # q
  /\ q > 0 /\ mode = "STOCKED" => q <= Available
  /\ cart' = [cart EXCEPT ![k] = q]
  /\ UNCHANGED <<stockVars, orders, due, pixVars, delivery, books>>
\* Is there enough for the cart once overdue orders have given theirs back?
Sells(k) ==
  cart[k] > 0 /\ (mode = "STOCKED" => cart[k] <= KeptBalance.onHand - KeptBalance.reserved)

checkout(k, fulfillment, method) ==
  /\ orders[k] = NoOrder /\ Sells(k)
  /\ k \in Plain => fulfillment = "PICKUP" /\ method = "CARD_PRESENT"
  /\ orders' = [KeptOrders EXCEPT ![k] =
       [status |-> "RECEIVED", fulfillment |-> fulfillment, method |-> method, quantity |-> cart[k],
        stocked |-> mode = "STOCKED", approved |-> FALSE]]
  /\ balance' = [KeptBalance EXCEPT !.reserved = @ + IF mode = "STOCKED" THEN cart[k] ELSE 0]
  /\ pix' = KeptPix
  /\ UNCHANGED <<mode, adjusted, cart, due, worker, bank, delivery, books>>

\* Mutant: an order is cancelled although its delivery is on its way.
LegalBesideDelivery(k, o) ==
  CASE o.status = "RECEIVED" -> {"CONFIRMED", "CANCELLED"}
    [] o.status = "CONFIRMED" /\ o.fulfillment = "PICKUP" -> {"READY_PICKUP", "CANCELLED"}
    [] o.status = "READY_PICKUP" -> {"COMPLETED", "CANCELLED"}
    [] OTHER -> IF o.status \in Ended THEN {} ELSE {"CANCELLED"}

\* The states that the manager may choose for o.
Legal(k, o) ==
  CASE o.status = "RECEIVED" -> {"CONFIRMED", "CANCELLED"}
    [] o.status = "WAITING_PAYMENT" -> {"CANCELLED"}
    [] o.status = "CONFIRMED" /\ o.fulfillment = "PICKUP" -> {"READY_PICKUP", "CANCELLED"}
    [] o.status = "READY_PICKUP" -> {"COMPLETED", "CANCELLED"}
    [] o.status = "CONFIRMED" /\ o.fulfillment = "DELIVERY" /\ delivery[k] = "NONE" -> {"CANCELLED"}
    [] OTHER -> {}

\* The store approves an order to be paid by PIX: a new deadline, and no charge yet.
approveForPix(k) ==
  /\ orders' = [KeptOrders EXCEPT ![k].status = "WAITING_PAYMENT", ![k].approved = TRUE]
  /\ due' = [due EXCEPT ![k] = FALSE]
  /\ pix' = [KeptPix EXCEPT ![k] = [NoPix EXCEPT !.status = "CREATED"]]
  /\ balance' = KeptBalance
  /\ UNCHANGED books

transition(k, next) ==
  /\ k \in Placed \ Overdue /\ next \in Legal(k, orders[k])
  /\ IF orders[k].method = "PIX" /\ next = "CONFIRMED"
     THEN approveForPix(k)
     ELSE /\ Apply(k, [orders[k] EXCEPT !.approved = @ \/ next = "CONFIRMED"], next, KeptBalance, KeptOrders, KeptPix)
          /\ UNCHANGED due
  /\ UNCHANGED <<mode, adjusted, cart, worker, bank, delivery>>

----------------------------------------------------------------------------
adjustInventory(n) ==
  /\ n # 0 /\ balance.onHand + n >= balance.reserved
  /\ adjusted + n \in 0..MaxStock
  /\ balance' = [balance EXCEPT !.onHand = @ + n] /\ adjusted' = adjusted + n
  /\ UNCHANGED <<mode, orderVars, pixVars, delivery, books>>

\* The product changes between counted stock and made to order while orders are open.
saveProduct ==
  /\ mode' = IF mode = "STOCKED" THEN "MADE_TO_ORDER" ELSE "STOCKED"
  /\ UNCHANGED <<balance, adjusted, orderVars, pixVars, delivery, books>>

\* The deadline of the reservation, and of the charge that was made with it, passes.
deadlinePasses(k) ==
  /\ k \in Placed /\ ~due[k]
  /\ orders[k].status \in Holding \/ (pix[k].status # "NONE" /\ ~pix[k].paid)
  /\ due' = [due EXCEPT ![k] = TRUE]
  /\ UNCHANGED <<stockVars, cart, orders, pixVars, delivery, books>>

\* Seven days after the payment was created.  (Bounds: the worker that expires orders has long
\* ended this one, and it is not told of payments that are over or that no run asked for.)
windowPasses(k) ==
  /\ k \in InStatus(Ended) /\ pix[k].linked /\ ~pix[k].paid /\ ~pix[k].old /\ due[k]
  /\ pix' = [pix EXCEPT ![k].old = TRUE]
  /\ UNCHANGED <<stockVars, orderVars, worker, bank, delivery, books>>

(***************************************************************************)
(* The worker that creates the charge of an order and looks for its         *)
(* payment, statement by statement: the session lock lets one process work  *)
(* on an order, but nothing stops the store from cancelling it, or its time *)
(* from ending, between two statements.  A run that finds the connection    *)
(* with the bank unusable ends with no effect and is no step.               *)
(***************************************************************************)
Works(k, from, to) == worker[k] = from /\ worker' = [worker EXCEPT ![k] = to]

\* maintainCommercePix takes a payment of the last seven days; processPixOrder reads its row
\* and the status of the order and checks the account.
readPayment(k) ==
  /\ pix[k].status # "NONE" /\ ~pix[k].paid /\ ~pix[k].old
  /\ IF pix[k].status = "CREATED"
     THEN orders[k].status = "WAITING_PAYMENT" /\ ~due[k] /\ Works(k, "IDLE", "CREATE")
     ELSE pix[k].linked /\ Works(k, "IDLE", "FIND")
  /\ UNCHANGED <<stockVars, orderVars, pix, bank, delivery, books>>

\* The statement before the POST does not look at the status again.
Requested(p) == [p EXCEPT !.status = "REQUESTED", !.linked = TRUE]

requestCharge(k) ==
  /\ Works(k, "CREATE", "POST")
  /\ pix' = [pix EXCEPT ![k] = Requested(@)]
  /\ UNCHANGED <<stockVars, orderVars, bank, delivery, books>>

\* The POST: the bank makes the charge or not, the answer is good or lost.
postCharge(k) ==
  \E charge \in {"NONE", "ACTIVE"}, answer \in {"CREATED", "FAILED"} :
    /\ answer = "CREATED" => charge = "ACTIVE"
    /\ Works(k, "POST", answer)
    /\ bank' = [bank EXCEPT ![k] =
                  [posts |-> @.posts + 1, charge |-> IF charge = "ACTIVE" THEN charge ELSE @.charge]]
    /\ UNCHANGED <<stockVars, orderVars, pix, delivery, books>>

recordCharge(k) ==
  /\ Works(k, "CREATED", "IDLE")
  /\ pix' = [pix EXCEPT ![k].status = IF due[k] THEN "EXPIRED" ELSE "PENDING"]
  /\ UNCHANGED <<stockVars, orderVars, bank, delivery, books>>

recordFailure(k) ==
  /\ Works(k, "FAILED", "IDLE")
  /\ pix' = [pix EXCEPT ![k].status = "REVIEW_REQUIRED"]
  /\ UNCHANGED <<stockVars, orderVars, bank, delivery, books>>

\* A known or possible charge is looked up; one that is paid will be settled.
findCharge(k) ==
  /\ Works(k, "FIND", IF bank[k].charge \in Paid THEN "SETTLE" ELSE "IDLE")
  /\ UNCHANGED <<stockVars, orderVars, pix, bank, delivery, books>>

\* Mutant: a payment in time releases the order whatever became of it.
AcceptsPaid(k) == bank[k].charge = "EXACT"

\* May the payment release the order?
Accepts(k) == orders[k].status = "WAITING_PAYMENT" /\ bank[k].charge = "EXACT"

\* commerce_pix_settle: the money is recorded in any case; it releases the order only if it
\* still waits.  The order passes through RECEIVED and is confirmed in the same transaction.
settlePix(k) ==
  /\ Works(k, "SETTLE", "IDLE")
  /\ LET p == [pix EXCEPT ![k].paid = TRUE, ![k].refund = ~Accepts(k),
                          ![k].status = IF Accepts(k) THEN "PAID" ELSE "REVIEW_REQUIRED"]
     IN  IF pix[k].paid THEN UNCHANGED <<balance, orders, pix, books>>
         ELSE /\ pix' = p
              /\ books' = [books EXCEPT ![k] = [entry |-> "CASH_ONLY", cash |-> @.cash + 1]]
              /\ IF Accepts(k)
                 THEN /\ balance' = [onHand |-> balance.onHand + Moved(orders[k], "CONFIRMED"),
                                     reserved |-> balance.reserved - Freed(orders[k], "CONFIRMED")]
                      /\ orders' = [orders EXCEPT ![k].status = "CONFIRMED"]
                 ELSE UNCHANGED <<balance, orders>>
  /\ UNCHANGED <<mode, adjusted, cart, due, bank, delivery>>

\* The process dies: PostgreSQL ends its session and frees the lock.
crash(k) ==
  /\ worker[k] # "IDLE" /\ Works(k, worker[k], "IDLE")
  /\ UNCHANGED <<stockVars, orderVars, pix, bank, delivery, books>>

\* Somebody pays a charge of the bank: in time or late, the amount of the order or another.
customerPays(k) ==
  \E as \in Paid :
    /\ bank[k].charge = "ACTIVE" /\ (as = "LATE" <=> due[k])
    /\ bank' = [bank EXCEPT ![k].charge = as]
    /\ UNCHANGED <<stockVars, orderVars, pix, worker, delivery, books>>
=============================================================================

------------------------------ MODULE Commerce ------------------------------
(***************************************************************************)
(* A store that sells one variant from its catalogue: orders, stock, PIX,   *)
(* the delivery of an order and its entries in the books; beside it the     *)
(* files it shows (Attachments) and its company's access to the bank        *)
(* (BankAccess), which share no variable with the sales.                    *)
(***************************************************************************)
EXTENDS Orders, Attachments, BankAccess

vars == <<saleVars, fileVars, bankVars>>

\* Which confirmed orders the fulfilment worker serves.
ToFulfill(k) ==
  /\ k \in InStatus({"CONFIRMED"}) /\ orders[k].fulfillment = "DELIVERY" /\ orders[k].approved
  /\ orders[k].method = "CARD_PRESENT" \/ pix[k].status = "PAID"

\* Mutant: a cancelled delivery leaves its order behind.
OutcomeUndone == [s \in {"DELIVERED"} |-> "COMPLETED"]

Outcome == [s \in {"DELIVERED", "CANCELLED"} |-> IF s = "DELIVERED" THEN "COMPLETED" ELSE "CANCELLED"]

fulfillCommerceOrder(k) ==
  /\ ToFulfill(k)
  /\ \/ /\ delivery[k] = "NONE" /\ delivery' = [delivery EXCEPT ![k] = "OPEN"]
        /\ UNCHANGED <<balance, orders, pix, books>>
     \/ /\ delivery[k] \in DOMAIN Outcome
        /\ Apply(k, orders[k], Outcome[delivery[k]], balance, orders, pix)
        /\ UNCHANGED delivery
  /\ UNCHANGED <<mode, adjusted, cart, due, worker, bank>>

\* The operation ends the delivery (module Deliveries has the ways there).
deliveryEnds(k) ==
  \E as \in {"DELIVERED", "CANCELLED", "RETURNED"} :
    /\ delivery[k] = "OPEN" /\ delivery' = [delivery EXCEPT ![k] = as]
    /\ UNCHANGED <<stockVars, orderVars, pixVars, books>>

\* The manager records money by hand, up to the open balance, and takes it back; what the
\* bank confirmed cannot be taken back.
Open(k) == books[k].entry # "NONE" /\ books[k].cash = 0

settleFinanceEntry(k) ==
  /\ Open(k) /\ books' = [books EXCEPT ![k].cash = @ + 1]
  /\ UNCHANGED <<stockVars, orderVars, pixVars, delivery>>

reverseFinanceSettlement(k) ==
  /\ k \in Placed /\ orders[k].method # "PIX" /\ books[k].cash > 0
  /\ books' = [books EXCEPT ![k].cash = @ - 1]
  /\ UNCHANGED <<stockVars, orderVars, pixVars, delivery>>

----------------------------------------------------------------------------
Shopping ==
  \/ \E k \in Carts, q \in {0} \cup Quantity : cartChange(k, q)
  \/ \E k \in Carts, f \in {"PICKUP", "DELIVERY"}, m \in {"PIX", "CARD_PRESENT"} : checkout(k, f, m)
Store ==
  \/ \E k \in Carts, next \in Released \cup Ended : transition(k, next)
  \/ \E n \in -MaxStock..MaxStock : adjustInventory(n)
  \/ saveProduct
  \/ \E k \in Carts : settleFinanceEntry(k) \/ reverseFinanceSettlement(k)
PixWorker(k) ==
  \/ readPayment(k) \/ requestCharge(k) \/ postCharge(k) \/ recordCharge(k) \/ recordFailure(k)
  \/ findCharge(k) \/ settlePix(k) \/ crash(k)
Outside(k) == deadlinePasses(k) \/ windowPasses(k) \/ customerPays(k) \/ deliveryEnds(k)

SaleNext ==
  \/ Shopping \/ Store \/ expireCommerceOrders
  \/ \E k \in Carts : PixWorker(k) \/ fulfillCommerceOrder(k) \/ Outside(k)

\* Every worker ticks for ever and comes to every payment that it may still look for.  Such a
\* run may find the bank unusable or crash, but not each time; nothing is asked of the worker
\* about a payment older than seven days, which it does not read.
SaleFairness ==
  \A k \in Carts :
    /\ WF_saleVars(readPayment(k)) /\ WF_saleVars(recordCharge(k)) /\ WF_saleVars(recordFailure(k))
    /\ SF_saleVars(findCharge(k)) /\ SF_saleVars(settlePix(k))
    /\ WF_saleVars(fulfillCommerceOrder(k))

----------------------------------------------------------------------------
TypeOK == SaleTypeOK /\ FilesTypeOK /\ BankTypeOK

Init == SaleInit /\ FilesInit /\ BankInit

\* A bound: as nothing is shared, each part moves while the others rest.
Next ==
  \/ FilesInit /\ BankInit /\ SaleNext /\ UNCHANGED <<fileVars, bankVars>>
  \/ SaleInit /\ BankInit /\ FilesNext /\ UNCHANGED <<saleVars, bankVars>>
  \/ SaleInit /\ FilesInit /\ BankNext /\ UNCHANGED <<saleVars, fileVars>>

Spec == Init /\ [][Next]_vars /\ SaleFairness

----------------------------------------------------------------------------
\* Nothing leaks and nothing is sold twice: what is reserved is what undecided orders hold,
\* and what is on hand is what the manager entered less what was released and not cancelled
\* -- however orders expire, are paid late or change between counted and made to order.
StockIsAccounted ==
  /\ balance.reserved = Units(InStatus(Holding))
  /\ balance.onHand = adjusted - Units(InStatus(Released \cup {"COMPLETED"}))
  /\ balance.reserved <= balance.onHand

\* Money that the bank confirmed either released an order that is served, or is marked to be
\* given back; and no order of PIX is served without it (docs/commerce-pix.md, "Pagamento
\* tardio, divergente e cancelamento").
MoneyIsHonoured ==
  \A k \in Placed :
    LET served == orders[k].status \in Released \cup {"COMPLETED"}
    IN  /\ pix[k].paid => (pix[k].refund <=> ~served)
        /\ served /\ orders[k].method = "PIX" => pix[k].status = "PAID" /\ bank[k].charge = "EXACT"

\* One request for a charge per order, and only after the store approved it, whatever crashes
\* between the request, the answer and the record (commerce_pix_payments.status = REQUESTED).
OneChargePerOrder ==
  \A k \in Carts : bank[k].posts <= 1 /\ (bank[k].posts = 1 => orders[k].approved)

\* What the store asks of the bank: one charge per order, with the connection that was
\* authorised last, and from the account in which the charge was made.
ChargesAreSound == OneChargePerOrder /\ ConnectionIsTheNewest /\ ChargesKeepTheirAccount

\* The books: revenue exactly for completed sales, confirmed bank money in cash exactly once
\* and for ever, and no sale of PIX that waits for cash.
BooksMatchTheSale ==
  \A k \in Placed :
    /\ books[k].entry = "REVENUE" <=> orders[k].status = "COMPLETED"
    /\ books[k].cash <= 1 /\ (pix[k].paid => books[k].cash = 1)
    /\ books[k].cash > 0 /\ ~pix[k].paid => orders[k].method = "CARD_PRESENT"

\* An order that was cancelled or completed agrees with its delivery: no courier carries a
\* cancelled order, and none is completed that was not delivered.
DeliveryAgreesWithOrder ==
  \A k \in InStatus(Ended) :
    delivery[k] = "NONE"
      \/ <<orders[k].status, delivery[k]>> \in {<<"COMPLETED", "DELIVERED">>, <<"CANCELLED", "CANCELLED">>}

\* What is over agrees everywhere: the order with its delivery and with the books, whichever
\* of the worker, the store and the manager came last.
SaleIsSettled == BooksMatchTheSale /\ DeliveryAgreesWithOrder

\* Is all that the bank and the operation did known to the order of k?  A payment that is older
\* than seven days is left to the operator (docs/commerce-pix.md, "conciliação operacional").
CaughtUp(k) ==
  /\ bank[k].charge \in Paid => pix[k].paid \/ pix[k].old
  /\ delivery[k] \in {"DELIVERED", "CANCELLED"} => orders[k] # NoOrder /\ orders[k].status \in Ended

\* The workers catch up with the world, however often they crash: a paid charge is recorded
\* unless seven days pass first, an ended delivery ends its order.  (A charge stays paid and a
\* delivery stays ended: outside the window, none is passed over.)
WorkersCatchUp == \A k \in Carts : []<>CaughtUp(k)
=============================================================================

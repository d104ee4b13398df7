----------------------------- MODULE Customers ------------------------------
(***************************************************************************)
(* Customers of the stores (modules/customers, signInCustomer and          *)
(* processCustomerPush): the profile a store keeps of a phone, the account *)
(* its owner activates from the tracking link of an order, the browsers on *)
(* which orders are followed, and the notices sent to them.  A browser may *)
(* be shared; the profiles of one phone belong to different companies.     *)
(***************************************************************************)
EXTENDS Naturals, FiniteSets

CONSTANTS Profile,   \* customer_profiles, once an order named their phone
          Phone, PhoneOf,
          Order,     \* deliveries
          Browser    \* push endpoints

ASSUME CustomersAssumption == PhoneOf \in [Profile -> Phone]

VARIABLES
  account,   \* phones with an account (users.customer_login_phone)
  owned,     \* profiles that belong to an account (customer_profiles.user_id)
  order,     \* order[o]: the profile its phone stands for, and the one it was given to
  browser,   \* browser[b]: the phone signed in
  row,       \* row[b]: profiles whose subscription of b is active
  subscriber,      \* subscriber[b]: the phone that asked for notices on b last (history)
  notice     \* the push event at work: its order and the rows still to serve

customerVars == <<account, owned, order, browser, row, subscriber, notice>>

Contact == {{}} \cup {{c} : c \in Profile}
Somebody == {{}} \cup {{ph} : ph \in Phone}
NoOrder == [contact |-> {}, named |-> FALSE, given |-> {}, stage |-> "NONE", link |-> "NONE"]
Nothing == [order |-> {}, todo |-> {}]

CustomersTypeOK ==
  /\ account \subseteq Phone /\ owned \subseteq Profile
  /\ order \in [Order -> [contact : Contact, named : BOOLEAN, given : Contact,
                          stage : {"NONE", "OPEN", "DONE"}, link : {"NONE", "VALID", "OVER"}]]
  /\ browser \in [Browser -> Somebody] /\ subscriber \in [Browser -> Somebody]
  /\ row \in [Browser -> SUBSET Profile]
  /\ notice \in [order : SUBSET Order, todo : SUBSET (Browser \X Profile)]

CustomersInit ==
  /\ account = {} /\ owned = {}
  /\ order = [o \in Order |-> NoOrder]
  /\ browser = [b \in Browser |-> {}] /\ subscriber = [b \in Browser |-> {}]
  /\ row = [b \in Browser |-> {}]
  /\ notice = Nothing

(***************************************************************************)
(* Orders.  Without a usable phone or name nobody is preregistered.        *)
(***************************************************************************)
preregisterCustomer(contact, named) == IF named THEN contact ELSE {}

createDelivery(o, contact, named) ==
  /\ order[o] = NoOrder
  /\ order' = [order EXCEPT ![o] = [contact |-> contact, named |-> named, stage |-> "OPEN", link |-> "NONE",
                                    given |-> preregisterCustomer(contact, named)]]
  /\ UNCHANGED <<account, owned, browser, row, subscriber, notice>>

deliveryEnds(o) ==
  /\ order[o].stage = "OPEN" /\ order' = [order EXCEPT ![o].stage = "DONE"]
  /\ UNCHANGED <<account, owned, browser, row, subscriber, notice>>

\* At the door the courier asks the customer of an iFood order for the number.
linkDeliveryCustomerWhatsapp(o, c) ==
  /\ order[o].stage = "DONE" /\ order[o].named
  /\ order[o].contact \subseteq {c}
  /\ order' = [order EXCEPT ![o].contact = {c}, ![o].given = preregisterCustomer({c}, TRUE)]
  /\ UNCHANGED <<account, owned, browser, row, subscriber, notice>>

\* A link is sent to the phone of the order; later it is revoked or its grace ends.
linkChanges(o) ==
  /\ order[o].contact # {} /\ order[o].link # "OVER"
  /\ order' = [order EXCEPT ![o].link = IF @ = "NONE" THEN "VALID" ELSE "OVER"]
  /\ UNCHANGED <<account, owned, browser, row, subscriber, notice>>

(***************************************************************************)
(* Accounts.                                                               *)
(***************************************************************************)
\* prepareCustomerActivation: whom the link of o speaks for.
Activates(o) == IF order[o].link = "VALID" THEN preregisterCustomer(order[o].contact, order[o].named) ELSE {}

\* linkActivationHistory: c is given its orders that nobody was given.
WithHistory(c) ==
  [o \in Order |-> IF order[o].given = {} /\ order[o].contact = {c} THEN [order[o] EXCEPT !.given = {c}] ELSE order[o]]

\* A first password, never a new one.
activateCustomer(o) ==
  /\ \E c \in Activates(o) :
       /\ c \notin owned /\ PhoneOf[c] \notin account
       /\ account' = account \cup {PhoneOf[c]}
       /\ owned' = owned \cup {c}
       /\ order' = WithHistory(c)
  /\ UNCHANGED <<browser, row, subscriber, notice>>

\* A link that still speaks for the phone brings its profile; one that speaks for another
\* phone ends the sign-in, one that is over does not matter.
signInCustomer(b, ph, with) ==
  /\ ph \in account
  /\ \A o \in with : \A c \in Activates(o) : PhoneOf[c] = ph
  /\ LET C == UNION {Activates(o) : o \in with}
     IN  /\ owned' = owned \cup C
         /\ order' = IF C = {} THEN order ELSE WithHistory(CHOOSE c \in C : TRUE)
  /\ browser' = [browser EXCEPT ![b] = {ph}]
  /\ UNCHANGED <<account, row, subscriber, notice>>

\* The subscription stays.
signOut(b) ==
  /\ browser[b] # {} /\ browser' = [browser EXCEPT ![b] = {}]
  /\ UNCHANGED <<account, owned, order, row, subscriber, notice>>

\* The profile of the account that changed last: any of them.
SessionScope(b) == {c \in owned : PhoneOf[c] \in browser[b]}

(***************************************************************************)
(* Subscriptions and notices.                                              *)
(***************************************************************************)
\* claim_customer_push_endpoint: what other people subscribed on b ends.
Claimed(b, c) == {d \in row[b] : d \in owned /\ PhoneOf[d] = PhoneOf[c]}

saveCustomerPush(b) ==
  /\ \E c \in SessionScope(b) :
       /\ row' = [row EXCEPT ![b] = Claimed(b, c) \cup {c}]
       /\ subscriber' = [subscriber EXCEPT ![b] = {PhoneOf[c]}]
  /\ UNCHANGED <<account, owned, order, browser, notice>>

removeCustomerPush(b) ==
  /\ \E c \in SessionScope(b) : row' = [row EXCEPT ![b] = @ \ {c}]
  /\ row' # row
  /\ UNCHANGED <<account, owned, order, browser, subscriber, notice>>

\* The rows of whom the order was given to and, if that is an account, of its other profiles;
\* one row for each browser.
RowsFor(o) ==
  {r \in Browser \X Profile :
     /\ r[2] \in row[r[1]]
     /\ \E c \in order[o].given : r[2] = c \/ ({r[2], c} \subseteq owned /\ PhoneOf[r[2]] = PhoneOf[c])}

beginNotice(o) ==
  /\ notice = Nothing /\ order[o].stage # "NONE"
  /\ \E R \in SUBSET RowsFor(o) :
       /\ \A b \in Browser : Cardinality({r \in R : r[1] = b}) = (IF \E r \in RowsFor(o) : r[1] = b THEN 1 ELSE 0)
       /\ R # {} /\ notice' = [order |-> {o}, todo |-> R]
  /\ UNCHANGED <<account, owned, order, browser, row, subscriber>>

Served(r) == notice' = IF notice.todo = {r} THEN Nothing ELSE [notice EXCEPT !.todo = @ \ {r}]

\* The push service takes the notice, does not know the browser any more, or cannot be
\* reached: then the attempt is over, and the next one asks for the rows again.
sendNotice(r, answer) ==
  /\ r \in notice.todo
  /\ IF answer = "UNAVAILABLE" THEN notice' = Nothing ELSE Served(r)
  /\ row' = IF answer = "GONE" THEN [row EXCEPT ![r[1]] = @ \ {r[2]}] ELSE row
  /\ UNCHANGED <<account, owned, order, browser, subscriber>>

CustomersNext ==
  \/ \E o \in Order :
       \/ \E contact \in Contact, named \in BOOLEAN : createDelivery(o, contact, named)
       \/ deliveryEnds(o) \/ linkChanges(o) \/ activateCustomer(o) \/ beginNotice(o)
       \/ \E c \in Profile : linkDeliveryCustomerWhatsapp(o, c)
  \/ \E b \in Browser :
       \/ \E ph \in Phone, with \in {{}} \cup {{o} : o \in Order} : signInCustomer(b, ph, with)
       \/ signOut(b) \/ saveCustomerPush(b) \/ removeCustomerPush(b)
  \/ \E r \in notice.todo, answer \in {"TAKEN", "GONE", "UNAVAILABLE"} : sendNotice(r, answer)

(***************************************************************************)
(* Properties.                                                             *)
(***************************************************************************)
\* Whatever an order is to say now goes to browsers where the person of its phone was the last
\* to ask for notices ("a shared phone/browser must not keep delivering another customer's
\* messages"), through whichever profile, link or sign-in the order came to him.
NoticesStayWithTheirOwner ==
  \A o \in Order : \A r \in RowsFor(o) : subscriber[r[1]] = {PhoneOf[c] : c \in order[o].contact}
=============================================================================

-------------------------- MODULE LiveViewsProofs ---------------------------
(***************************************************************************)
(* The position of the courier, who may look at it, the notices and the    *)
(* video, each proved by itself and then of LiveViews, which lets one part *)
(* move while the others rest.                                             *)
(***************************************************************************)
EXTENDS LiveViews, TLAPS

PresenceSpec == PresenceInit /\ [][PresenceNext]_presenceVars

BroadcastsSpec == BroadcastsInit /\ [][BroadcastsNext]_broadcastVars

CustomersSpec == CustomersInit /\ [][CustomersNext]_customerVars

LiveSpec == LiveInit /\ [][LiveNext]_liveVars

(***************************************************************************)
(* Notices.                                                                *)
(***************************************************************************)
\* An order is given to the profile of its phone, and a row is of the person who asked last.
GivenToItsPhone == \A o \in Order : \A c \in order[o].given : order[o].contact = {c}

RowsOfTheSubscriber == \A b \in Browser : \A d \in row[b] : subscriber[b] = {PhoneOf[d]}

CustomersInv == CustomersTypeOK /\ GivenToItsPhone /\ RowsOfTheSubscriber

LEMMA GivenStep == CustomersInv /\ [CustomersNext]_customerVars => order' \in
                     [Order -> [contact : Contact, named : BOOLEAN, given : Contact,
                          stage : {"NONE", "OPEN", "DONE"}, link : {"NONE", "VALID", "OVER"}]] /\ GivenToItsPhone'
<1> SUFFICES ASSUME CustomersInv, [CustomersNext]_customerVars
             PROVE  /\ order' \in [Order -> [contact : Contact, named : BOOLEAN, given : Contact,
                          stage : {"NONE", "OPEN", "DONE"}, link : {"NONE", "VALID", "OVER"}]]
                    /\ \A o \in Order : \A c \in order'[o].given : order'[o].contact = {c}
  BY DEF GivenToItsPhone
<1> DEFINE OrderRow == [contact : Contact, named : BOOLEAN, given : Contact,
                        stage : {"NONE", "OPEN", "DONE"}, link : {"NONE", "VALID", "OVER"}]
           Fits(x) == x \in OrderRow /\ \A c \in x.given : x.contact = {c}
<1>1. order \in [Order -> OrderRow] /\ \A o \in Order : Fits(order[o])
  BY DEF CustomersInv, CustomersTypeOK, GivenToItsPhone
<1>2. ASSUME NEW o \in Order, NEW x, Fits(x), order' = [order EXCEPT ![o] = x]
      PROVE  order' \in [Order -> OrderRow] /\ \A p \in Order : Fits(order'[p])
  BY <1>1, <1>2
<1>3. ASSUME order' = order
      PROVE  order' \in [Order -> OrderRow] /\ \A p \in Order : Fits(order'[p])
  BY <1>1, <1>3
<1>4. ASSUME NEW c \in Profile
      PROVE  WithHistory(c) \in [Order -> OrderRow] /\ \A p \in Order : Fits(WithHistory(c)[p])
  <2>1. ASSUME NEW p \in Order PROVE Fits(WithHistory(c)[p])
    <3>1. CASE order[p].given = {} /\ order[p].contact = {c}
      <4>1. WithHistory(c)[p] = [order[p] EXCEPT !.given = {c}]
        BY <3>1 DEF WithHistory
      <4>2. Fits([order[p] EXCEPT !.given = {c}])
        BY <1>1, <3>1 DEF Contact
      <4> QED BY <4>1, <4>2
    <3>2. CASE ~(order[p].given = {} /\ order[p].contact = {c})
      <4>1. WithHistory(c)[p] = order[p]
        BY <3>2 DEF WithHistory
      <4> QED BY <1>1, <4>1
    <3> QED BY <3>1, <3>2
  <2>2. WithHistory(c) = [p \in Order |-> WithHistory(c)[p]]
    BY DEF WithHistory
  <2> DEFINE H == WithHistory(c)
  <2> HIDE DEF H
  <2>3. H = [p \in Order |-> H[p]] /\ \A p \in Order : Fits(H[p])
    BY <2>1, <2>2 DEF H
  <2>4. H \in [Order -> OrderRow] /\ \A p \in Order : Fits(H[p])
    BY <2>3
  <2> QED BY <2>4 DEF H
<1>5. ASSUME NEW o \in Order, NEW contact \in Contact, NEW named \in BOOLEAN, createDelivery(o, contact, named)
      PROVE  order' \in [Order -> OrderRow] /\ \A p \in Order : Fits(order'[p])
  <2> DEFINE g == preregisterCustomer(contact, named)
             x == [contact |-> contact, named |-> named, given |-> g, stage |-> "OPEN", link |-> "NONE"]
  <2>1. order' = [order EXCEPT ![o] = x]
    BY <1>5 DEF createDelivery
  <2>2. g \in Contact /\ \A c \in g : contact = {c}
    BY DEF preregisterCustomer, Contact
  <2> HIDE DEF g
  <2>3. Fits(x)
    BY <2>2
  <2> QED BY <1>2, <2>1, <2>3
<1>6. ASSUME NEW o \in Order, deliveryEnds(o)
      PROVE  order' \in [Order -> OrderRow] /\ \A p \in Order : Fits(order'[p])
  <2> DEFINE x == [order[o] EXCEPT !.stage = "DONE"]
  <2>1. Fits(x)
    BY <1>1
  <2>2. order' = [order EXCEPT ![o] = x]
    BY <1>6, <1>1 DEF deliveryEnds
  <2> QED BY <1>2, <2>1, <2>2
<1>7. ASSUME NEW o \in Order, linkChanges(o)
      PROVE  order' \in [Order -> OrderRow] /\ \A p \in Order : Fits(order'[p])
  <2> DEFINE x == [order[o] EXCEPT !.link = IF @ = "NONE" THEN "VALID" ELSE "OVER"]
  <2>1. Fits(x)
    BY <1>1
  <2>2. order' = [order EXCEPT ![o] = x]
    BY <1>7, <1>1 DEF linkChanges
  <2> QED BY <1>2, <2>1, <2>2
<1>8. ASSUME NEW o \in Order, NEW c \in Profile, linkDeliveryCustomerWhatsapp(o, c)
      PROVE  order' \in [Order -> OrderRow] /\ \A p \in Order : Fits(order'[p])
  <2> DEFINE x == [order[o] EXCEPT !.contact = {c}, !.given = {c}]
  <2>1. Fits(x)
    BY <1>1 DEF Contact
  <2>2. order' = [order EXCEPT ![o] = x]
    BY <1>8, <1>1 DEF linkDeliveryCustomerWhatsapp, preregisterCustomer
  <2> QED BY <1>2, <2>1, <2>2
<1>9. ASSUME NEW o \in Order, Activates(o) # {} PROVE Activates(o) \subseteq Profile
  BY <1>1, <1>9 DEF Activates, preregisterCustomer, Contact
<1>10. ASSUME NEW o \in Order, activateCustomer(o)
      PROVE  order' \in [Order -> OrderRow] /\ \A p \in Order : Fits(order'[p])
  <2>1. PICK c \in Activates(o) : order' = WithHistory(c)
    BY <1>10 DEF activateCustomer
  <2> QED BY <1>4, <1>9, <2>1
<1>11. ASSUME NEW b \in Browser, NEW ph \in Phone, NEW with \in {{}} \cup {{o} : o \in Order}, signInCustomer(b, ph, with)
      PROVE  order' \in [Order -> OrderRow] /\ \A p \in Order : Fits(order'[p])
  <2> DEFINE C == UNION {Activates(o) : o \in with}
  <2>1. order' = IF C = {} THEN order ELSE WithHistory(CHOOSE c \in C : TRUE)
    BY <1>11 DEF signInCustomer
  <2>2. C \subseteq Profile
    BY <1>9
  <2>3. CASE C # {}
    <3> DEFINE chosen == CHOOSE c \in C : TRUE
    <3>1. chosen \in Profile
      BY <2>2, <2>3
    <3>2. order' = WithHistory(chosen)
      BY <2>1, <2>3
    <3> HIDE DEF chosen
    <3> QED BY <1>4, <3>1, <3>2
  <2> QED BY <1>3, <2>1, <2>3
<1>12. CASE order' = order
  BY <1>3, <1>12
<1> QED
  BY <1>5, <1>6, <1>7, <1>8, <1>10, <1>11, <1>12
     DEF CustomersNext, signOut, saveCustomerPush, removeCustomerPush, beginNotice, sendNotice, customerVars

\* Whoever saves a subscription ends those of other people on the browser, and nothing else adds a row.
LEMMA RowsStep == CustomersInv /\ [CustomersNext]_customerVars =>
                    row' \in [Browser -> SUBSET Profile] /\ subscriber' \in [Browser -> Somebody] /\ RowsOfTheSubscriber'
<1> SUFFICES ASSUME CustomersInv, [CustomersNext]_customerVars
             PROVE  /\ row' \in [Browser -> SUBSET Profile] /\ subscriber' \in [Browser -> Somebody]
                    /\ \A b \in Browser : \A d \in row'[b] : subscriber'[b] = {PhoneOf[d]}
  BY DEF RowsOfTheSubscriber
<1>1. /\ row \in [Browser -> SUBSET Profile] /\ subscriber \in [Browser -> Somebody] /\ owned \subseteq Profile
      /\ \A b \in Browser : \A d \in row[b] : subscriber[b] = {PhoneOf[d]}
  BY DEF CustomersInv, CustomersTypeOK, RowsOfTheSubscriber
<1>2. ASSUME NEW b \in Browser, saveCustomerPush(b)
      PROVE  /\ row' \in [Browser -> SUBSET Profile] /\ subscriber' \in [Browser -> Somebody]
             /\ \A e \in Browser : \A d \in row'[e] : subscriber'[e] = {PhoneOf[d]}
  <2>1. PICK c \in SessionScope(b) :
          /\ row' = [row EXCEPT ![b] = Claimed(b, c) \cup {c}] /\ subscriber' = [subscriber EXCEPT ![b] = {PhoneOf[c]}]
    BY <1>2 DEF saveCustomerPush
  <2>2. c \in Profile /\ PhoneOf[c] \in Phone
    BY <1>1, <2>1, CustomersAssumption DEF SessionScope
  <2>3. Claimed(b, c) \subseteq Profile /\ \A d \in Claimed(b, c) \cup {c} : PhoneOf[d] = PhoneOf[c]
    BY <1>1 DEF Claimed
  <2>4. row' \in [Browser -> SUBSET Profile] /\ subscriber' \in [Browser -> Somebody]
    BY <1>1, <2>1, <2>2, <2>3 DEF Somebody
  <2>5. ASSUME NEW e \in Browser, NEW d \in row'[e] PROVE subscriber'[e] = {PhoneOf[d]}
    BY <1>1, <2>1, <2>3, <2>5
  <2> QED BY <2>4, <2>5
<1>3. ASSUME subscriber' = subscriber, row' \in [Browser -> SUBSET Profile], \A b \in Browser : row'[b] \subseteq row[b]
      PROVE  /\ row' \in [Browser -> SUBSET Profile] /\ subscriber' \in [Browser -> Somebody]
             /\ \A e \in Browser : \A d \in row'[e] : subscriber'[e] = {PhoneOf[d]}
  BY <1>1, <1>3
<1>4. ASSUME NEW b \in Browser, removeCustomerPush(b)
      PROVE  subscriber' = subscriber /\ row' \in [Browser -> SUBSET Profile] /\ \A e \in Browser : row'[e] \subseteq row[e]
  BY <1>1, <1>4 DEF removeCustomerPush
<1>5. ASSUME NEW r \in notice.todo, NEW answer, sendNotice(r, answer)
      PROVE  subscriber' = subscriber /\ row' \in [Browser -> SUBSET Profile] /\ \A e \in Browser : row'[e] \subseteq row[e]
  BY <1>1, <1>5 DEF sendNotice
<1>6. CASE UNCHANGED <<row, subscriber>>
  BY <1>1, <1>6
<1> QED
  BY <1>2, <1>3, <1>4, <1>5, <1>6
     DEF CustomersNext, createDelivery, deliveryEnds, linkChanges, activateCustomer, linkDeliveryCustomerWhatsapp, signInCustomer,
         signOut, beginNotice, customerVars

\* Accounts, who is signed in where, and the notice at work.
LEMMA CustomersRest == CustomersInv /\ [CustomersNext]_customerVars =>
                         /\ account' \subseteq Phone /\ owned' \subseteq Profile
                         /\ browser' \in [Browser -> Somebody]
                         /\ notice' \in [order : SUBSET Order, todo : SUBSET (Browser \X Profile)]
<1> SUFFICES ASSUME CustomersInv, [CustomersNext]_customerVars
             PROVE  /\ account' \subseteq Phone /\ owned' \subseteq Profile
                    /\ browser' \in [Browser -> Somebody]
                    /\ notice' \in [order : SUBSET Order, todo : SUBSET (Browser \X Profile)]
  OBVIOUS
<1>1. CustomersTypeOK
  BY DEF CustomersInv
<1>2. ASSUME NEW o \in Order PROVE Activates(o) \subseteq Profile
  BY <1>1 DEF CustomersTypeOK, Activates, preregisterCustomer, Contact
<1>3. ASSUME NEW o \in Order, activateCustomer(o)
      PROVE  account' \subseteq Phone /\ owned' \subseteq Profile /\ UNCHANGED <<browser, notice>>
  BY <1>1, <1>2, <1>3, CustomersAssumption DEF activateCustomer, CustomersTypeOK
<1>4. ASSUME NEW b \in Browser, NEW ph \in Phone, NEW with \in {{}} \cup {{o} : o \in Order}, signInCustomer(b, ph, with)
      PROVE  owned' \subseteq Profile /\ browser' \in [Browser -> Somebody] /\ UNCHANGED <<account, notice>>
  <2>1. owned' = owned \cup UNION {Activates(o) : o \in with}
    BY <1>4 DEF signInCustomer
  <2>2. UNION {Activates(o) : o \in with} \subseteq Profile
    BY <1>2
  <2>3. browser' = [browser EXCEPT ![b] = {ph}] /\ UNCHANGED <<account, notice>>
    BY <1>4 DEF signInCustomer
  <2> QED BY <1>1, <2>1, <2>2, <2>3 DEF CustomersTypeOK, Somebody
<1>5. ASSUME NEW b \in Browser, signOut(b)
      PROVE  browser' \in [Browser -> Somebody] /\ UNCHANGED <<account, owned, notice>>
  BY <1>1, <1>5 DEF signOut, CustomersTypeOK, Somebody
<1>6. ASSUME NEW o \in Order, beginNotice(o)
      PROVE  notice' \in [order : SUBSET Order, todo : SUBSET (Browser \X Profile)] /\ UNCHANGED <<account, owned, browser>>
  <2>1. PICK R \in SUBSET RowsFor(o) : notice' = [order |-> {o}, todo |-> R]
    BY <1>6 DEF beginNotice
  <2>2. R \subseteq Browser \X Profile
    BY DEF RowsFor
  <2> QED BY <1>6, <2>1, <2>2 DEF beginNotice
<1>7. ASSUME NEW r \in notice.todo, NEW answer, sendNotice(r, answer)
      PROVE  notice' \in [order : SUBSET Order, todo : SUBSET (Browser \X Profile)] /\ UNCHANGED <<account, owned, browser>>
  <2>1. notice' = Nothing \/ notice' = [notice EXCEPT !.todo = @ \ {r}]
    BY <1>7 DEF sendNotice, Served
  <2> QED BY <1>1, <1>7, <2>1 DEF sendNotice, CustomersTypeOK, Nothing
<1>8. CASE UNCHANGED <<account, owned, browser, notice>>
  BY <1>1, <1>8 DEF CustomersTypeOK
<1> QED
  BY <1>1, <1>3, <1>4, <1>5, <1>6, <1>7, <1>8
     DEF CustomersTypeOK, CustomersNext, createDelivery, deliveryEnds, linkChanges, linkDeliveryCustomerWhatsapp, saveCustomerPush,
         removeCustomerPush, customerVars

LEMMA CustomersKept == CustomersSpec => []CustomersInv
<1>1. CustomersInit => CustomersInv
  BY DEF CustomersInit, CustomersInv, CustomersTypeOK, GivenToItsPhone, RowsOfTheSubscriber, NoOrder, Contact, Somebody, Nothing
<1>2. CustomersInv /\ [CustomersNext]_customerVars => CustomersInv'
  BY GivenStep, RowsStep, CustomersRest DEF CustomersInv, CustomersTypeOK
<1> QED BY <1>1, <1>2, PTL DEF CustomersSpec

LEMMA NoticesOwned == CustomersInv => NoticesStayWithTheirOwner
<1> SUFFICES ASSUME CustomersInv, NEW o \in Order, NEW r \in RowsFor(o)
             PROVE  subscriber[r[1]] = {PhoneOf[c] : c \in order[o].contact}
  BY DEF NoticesStayWithTheirOwner
<1>1. /\ r[1] \in Browser /\ r[2] \in row[r[1]]
      /\ \E c \in order[o].given : r[2] = c \/ ({r[2], c} \subseteq owned /\ PhoneOf[r[2]] = PhoneOf[c])
  BY DEF RowsFor
<1>2. PICK c \in order[o].given : PhoneOf[r[2]] = PhoneOf[c]
  BY <1>1
<1>3. order[o].contact = {c} /\ subscriber[r[1]] = {PhoneOf[r[2]]}
  BY <1>1, <1>2 DEF CustomersInv, GivenToItsPhone, RowsOfTheSubscriber
<1> QED BY <1>2, <1>3

(***************************************************************************)
(* Broadcasts.                                                             *)
(***************************************************************************)
\* Sockets that a publication still visits are in their room, and who was just cleared held
\* a credential that was good while it was going on.
VisitsJoined ==
  \A q \in Publication :
    /\ \A v \in pub[q].todo \cup pub[q].cleared : viewer[v].step = "JOINED"
    /\ \A v \in pub[q].cleared : viewer[v].credential \subseteq good[q]

\* One occurrence is being reported at most, and what it will be when it is open is alone.
Reported(e) == event[e].status \in {"NEW", "OPEN"}
OneReported ==
  /\ \A e, f \in Occurrence : event[e].status = "NEW" /\ event[f].status = "NEW" => e = f
  /\ \A e, f \in Occurrence : Reported(e) /\ Reported(f) /\ event[e].parcel = event[f].parcel => e = f

ViewerRow == [credential : SUBSET (Link \cup {Staff}), step : {"OUT", "ADMITTED", "JOINED"}]
PubRow == [parcel : SUBSET Parcel, visible : BOOLEAN, step : {"NONE", "STAFF", "PUBLIC"},
           todo : SUBSET Viewer, cleared : SUBSET Viewer]
EventRow == [parcel : SUBSET Parcel, status : {"NONE", "NEW", "OPEN", "RESOLVED", "CANCELLED"}]

BroadcastsInv == BroadcastsTypeOK /\ VisitsJoined /\ OneReported

\* Links, deliveries and access.
LEMMA LinksStep == BroadcastsInv /\ [BroadcastsNext]_broadcastVars =>
                     /\ link' \in [Link -> [parcel : SUBSET Parcel, state : {"NONE", "VALID", "EXPIRED", "REVOKED"}]]
                     /\ parcel' \in [Parcel -> {"OPEN", "DELIVERED", "CLOSED"}] /\ active' \in BOOLEAN /\ scope' \in BOOLEAN
<1> SUFFICES ASSUME BroadcastsInv, [BroadcastsNext]_broadcastVars
             PROVE  /\ link' \in [Link -> [parcel : SUBSET Parcel, state : {"NONE", "VALID", "EXPIRED", "REVOKED"}]]
                    /\ parcel' \in [Parcel -> {"OPEN", "DELIVERED", "CLOSED"}] /\ active' \in BOOLEAN /\ scope' \in BOOLEAN
  OBVIOUS
<1> DEFINE LinkRow == [parcel : SUBSET Parcel, state : {"NONE", "VALID", "EXPIRED", "REVOKED"}]
           Stage == {"OPEN", "DELIVERED", "CLOSED"}
<1>1. link \in [Link -> LinkRow] /\ parcel \in [Parcel -> Stage] /\ active \in BOOLEAN /\ scope \in BOOLEAN
  BY DEF BroadcastsInv, BroadcastsTypeOK
<1>2. ASSUME NEW p \in Parcel PROVE Revoked(p) \in [Link -> LinkRow]
  BY <1>1 DEF Revoked
<1>3. ASSUME NEW l \in Link, NEW p \in Parcel, issueTrackingLink(l, p)
      PROVE  link' \in [Link -> LinkRow] /\ UNCHANGED <<parcel, active, scope>>
  <2>1. [parcel |-> {p}, state |-> "VALID"] \in LinkRow
    OBVIOUS
  <2> QED BY <1>2, <1>3, <2>1 DEF issueTrackingLink
<1>4. ASSUME NEW p \in Parcel, revokeTrackingLink(p)
      PROVE  link' \in [Link -> LinkRow] /\ UNCHANGED <<parcel, active, scope>>
  BY <1>2, <1>4 DEF revokeTrackingLink
<1>5. ASSUME NEW l \in Link, linkExpires(l)
      PROVE  link' \in [Link -> LinkRow] /\ UNCHANGED <<parcel, active, scope>>
  BY <1>1, <1>5 DEF linkExpires
<1>6. ASSUME NEW p \in Parcel, parcelMoves(p)
      PROVE  parcel' \in [Parcel -> Stage] /\ UNCHANGED <<link, active, scope>>
  BY <1>1, <1>6 DEF parcelMoves
<1>7. setTenantStatus => active' \in BOOLEAN /\ UNCHANGED <<link, parcel, scope>>
  BY <1>1 DEF setTenantStatus
<1>8. scopeChanges => scope' \in BOOLEAN /\ UNCHANGED <<link, parcel, active>>
  BY <1>1 DEF scopeChanges
<1>9. CASE UNCHANGED <<link, parcel, active, scope>>
  BY <1>1, <1>9
<1>10. CASE Report
  <2>1. UNCHANGED <<link, parcel, active, scope>>
    BY <1>10 DEF Report, createDriverEvent, recordChange, closeDriverEvent, publishCommitted, startPublication
  <2> QED BY <1>9, <2>1
<1>11. CASE Follow
  BY <1>1, <1>3, <1>4, <1>5, <1>6, <1>7, <1>8, <1>9, <1>11
     DEF Follow, admit, joinRoom, leave, startPublication, publishToCustomers, emit, publicationEnds, revalidate
<1> QED
  BY <1>9, <1>10, <1>11 DEF BroadcastsNext, broadcastVars, followVars

\* Occurrences: the row of the courier is locked from the look at the open ones to the commit.
LEMMA EventsStep == BroadcastsInv /\ [BroadcastsNext]_broadcastVars => event' \in [Occurrence -> EventRow] /\ OneReported'
<1> SUFFICES ASSUME BroadcastsInv, [BroadcastsNext]_broadcastVars PROVE event' \in [Occurrence -> EventRow] /\ OneReported'
  OBVIOUS
<1>1. event \in [Occurrence -> EventRow] /\ OneReported
  BY DEF BroadcastsInv, BroadcastsTypeOK, EventRow
<1>2. ASSUME NEW e \in Occurrence, NEW p \in Parcel, createDriverEvent(e, p)
      PROVE  event' \in [Occurrence -> EventRow] /\ OneReported'
  <2>1. /\ event' = [event EXCEPT ![e] = [parcel |-> {p}, status |-> "NEW"]]
        /\ \A f \in Occurrence : event[f].status # "NEW" /\ event[f] # [parcel |-> {p}, status |-> "OPEN"]
    BY <1>2 DEF createDriverEvent, eventContext
  <2>2. event' \in [Occurrence -> EventRow]
    BY <1>1, <2>1 DEF EventRow
  <2>3. ASSUME NEW f \in Occurrence, f # e, Reported(f)' PROVE event'[f].status = "OPEN" /\ event'[f].parcel # {p}
    <3>1. event'[f] = event[f] /\ event[f].status = "OPEN" /\ event[f] \in EventRow
      BY <1>1, <2>1, <2>3 DEF Reported
    <3>2. event[f].parcel = {p} => event[f] = [parcel |-> {p}, status |-> "OPEN"]
      BY <3>1 DEF EventRow
    <3> QED BY <2>1, <3>1, <3>2
  <2>4. event'[e] = [parcel |-> {p}, status |-> "NEW"]
    BY <1>1, <2>1
  <2>5. \A f, g \in Occurrence \ {e} : event'[f] = event[f] /\ event'[g] = event[g]
    BY <1>1, <2>1
  <2>6. \A f, g \in Occurrence : event'[f].status = "NEW" /\ event'[g].status = "NEW" => f = g
    BY <2>3, <2>4 DEF Reported
  <2>7. ASSUME NEW f \in Occurrence, NEW g \in Occurrence, Reported(f)', Reported(g)', event'[f].parcel = event'[g].parcel
        PROVE  f = g
    <3>1. CASE f # e /\ g # e
      BY <1>1, <2>5, <2>7, <3>1 DEF OneReported, Reported
    <3>2. CASE f = e
      BY <2>3, <2>4, <2>7, <3>2
    <3>3. CASE g = e
      BY <2>3, <2>4, <2>7, <3>3
    <3> QED BY <3>1, <3>2, <3>3
  <2> QED BY <2>2, <2>6, <2>7 DEF OneReported
<1>3. ASSUME NEW e \in Occurrence, NEW x \in EventRow, event' = [event EXCEPT ![e] = x],
             x.status \notin {"NEW", "OPEN"} \/ (x.status = "OPEN" /\ Reported(e) /\ x.parcel = event[e].parcel)
      PROVE  event' \in [Occurrence -> EventRow] /\ OneReported'
  <2>1. event' \in [Occurrence -> EventRow] /\ event'[e] = x /\ \A f \in Occurrence \ {e} : event'[f] = event[f]
    BY <1>1, <1>3
  <2>2. \A f \in Occurrence : Reported(f)' => Reported(f) /\ event'[f].parcel = event[f].parcel
    BY <1>3, <2>1 DEF Reported
  <2>3. \A f \in Occurrence : event'[f].status = "NEW" => event[f].status = "NEW"
    BY <1>3, <2>1
  <2> QED BY <1>1, <2>1, <2>2, <2>3 DEF OneReported
<1>4. ASSUME NEW e \in Occurrence, NEW as \in {"OPEN", "NONE"}, recordChange(e, as)
      PROVE  event' \in [Occurrence -> EventRow] /\ OneReported'
  <2>1. event[e] \in EventRow /\ event[e].status = "NEW"
    BY <1>1, <1>4 DEF recordChange
  <2>2. CASE as = "OPEN"
    <3>1. event' = [event EXCEPT ![e] = [event[e] EXCEPT !.status = "OPEN"]]
      BY <1>4, <2>2 DEF recordChange
    <3> QED BY <1>3, <2>1, <3>1 DEF EventRow, Reported
  <2>3. CASE as = "NONE"
    <3>1. event' = [event EXCEPT ![e] = [parcel |-> {}, status |-> "NONE"]]
      BY <1>4, <2>3 DEF recordChange
    <3> QED BY <1>3, <3>1 DEF EventRow
  <2> QED BY <2>2, <2>3
<1>5. ASSUME NEW e \in Occurrence, NEW as \in {"RESOLVED", "CANCELLED"}, closeDriverEvent(e, as)
      PROVE  event' \in [Occurrence -> EventRow] /\ OneReported'
  <2>1. event[e] \in EventRow
    BY <1>1
  <2>2. event' = [event EXCEPT ![e] = [event[e] EXCEPT !.status = as]]
    BY <1>1, <1>5 DEF closeDriverEvent
  <2> QED BY <1>3, <2>1, <2>2 DEF EventRow
<1>6. CASE UNCHANGED event
  BY <1>1, <1>6 DEF OneReported, Reported
<1> QED
  BY <1>2, <1>4, <1>5, <1>6 DEF BroadcastsNext, Report, publishCommitted, broadcastVars

LEMMA NothingSaid == Silent \in PubRow /\ Silent.todo = {} /\ Silent.cleared = {}
BY DEF Silent, PubRow

\* A publication visits who is in the room now, and looks at his credential before it sends.
LEMMA VisitsStep == BroadcastsInv /\ [BroadcastsNext]_broadcastVars =>
                      /\ viewer' \in [Viewer -> ViewerRow] /\ pub' \in [Publication -> PubRow]
                      /\ good' \in [Publication -> SUBSET (Link \cup {Staff})] /\ VisitsJoined'
<1> SUFFICES ASSUME BroadcastsInv, [BroadcastsNext]_broadcastVars
             PROVE  /\ viewer' \in [Viewer -> ViewerRow] /\ pub' \in [Publication -> PubRow]
                    /\ good' \in [Publication -> SUBSET (Link \cup {Staff})] /\ VisitsJoined'
  OBVIOUS
<1> DEFINE Credential == Link \cup {Staff}
<1>1. /\ viewer \in [Viewer -> ViewerRow] /\ pub \in [Publication -> PubRow]
      /\ good \in [Publication -> SUBSET Credential] /\ VisitsJoined
  BY DEF BroadcastsInv, BroadcastsTypeOK, ViewerRow, PubRow
<1>2. CASE UNCHANGED broadcastVars
  BY <1>1, <1>2 DEF broadcastVars, followVars, VisitsJoined
<1> SUFFICES ASSUME BroadcastsNext
             PROVE  /\ viewer' \in [Viewer -> ViewerRow] /\ pub' \in [Publication -> PubRow]
                    /\ good' \in [Publication -> SUBSET Credential] /\ VisitsJoined'
  BY <1>2
<1>3. good' = [q \in Publication |-> IF pub'[q] = Silent THEN {} ELSE good[q] \cup GoodOnes \cup GoodOnes']
  BY DEF BroadcastsNext
<1>4. GoodOnes \subseteq Credential /\ GoodOnes' \subseteq Credential
  BY DEF GoodOnes
<1>5. good' \in [Publication -> SUBSET Credential]
  BY <1>1, <1>3, <1>4
<1>6. ASSUME NEW q \in Publication, NEW v \in pub'[q].cleared
      PROVE  good[q] \cup GoodOnes \subseteq good'[q]
  BY <1>3, <1>6 DEF Silent
<1>7. ASSUME viewer' \in [Viewer -> ViewerRow], pub' \in [Publication -> PubRow],
             \A q \in Publication : \A v \in pub'[q].todo \cup pub'[q].cleared : viewer'[v].step = "JOINED",
             \A q \in Publication : \A v \in pub'[q].cleared :
               viewer'[v].credential \subseteq GoodOnes \/ (v \in pub[q].cleared /\ viewer'[v].credential = viewer[v].credential)
      PROVE  viewer' \in [Viewer -> ViewerRow] /\ pub' \in [Publication -> PubRow] /\ VisitsJoined'
  <2>1. ASSUME NEW q \in Publication, NEW v \in pub'[q].cleared PROVE viewer'[v].credential \subseteq good'[q]
    <3>1. good[q] \cup GoodOnes \subseteq good'[q]
      BY <1>6
    <3>2. v \in pub[q].cleared => viewer[v].credential \subseteq good[q]
      BY <1>1 DEF VisitsJoined
    <3> QED BY <1>7, <3>1, <3>2
  <2> QED BY <1>7, <2>1 DEF VisitsJoined
\* The steps that change one publication and no socket.
<1>8. ASSUME NEW q \in Publication, NEW x \in PubRow, pub' = [pub EXCEPT ![q] = x], UNCHANGED viewer,
             \A v \in x.todo \cup x.cleared : viewer[v].step = "JOINED",
             \A v \in x.cleared : viewer[v].credential \subseteq GoodOnes \/ v \in pub[q].cleared
      PROVE  viewer' \in [Viewer -> ViewerRow] /\ pub' \in [Publication -> PubRow] /\ VisitsJoined'
  <2>1. pub' \in [Publication -> PubRow] /\ pub'[q] = x /\ \A r \in Publication \ {q} : pub'[r] = pub[r]
    BY <1>1, <1>8
  <2>2. \A r \in Publication : \A v \in pub'[r].todo \cup pub'[r].cleared : viewer'[v].step = "JOINED"
    BY <1>1, <1>8, <2>1 DEF VisitsJoined
  <2>3. \A r \in Publication : \A v \in pub'[r].cleared :
          viewer'[v].credential \subseteq GoodOnes \/ (v \in pub[r].cleared /\ viewer'[v].credential = viewer[v].credential)
    BY <1>8, <2>1
  <2> QED BY <1>1, <1>7, <1>8, <2>1, <2>2, <2>3
<1>9. ASSUME NEW q \in Publication, NEW p \in Parcel, NEW visible \in BOOLEAN, startPublication(q, p, visible)
      PROVE  viewer' \in [Viewer -> ViewerRow] /\ pub' \in [Publication -> PubRow] /\ VisitsJoined'
  <2> DEFINE x == [Silent EXCEPT !.parcel = {p}, !.visible = visible, !.step = "STAFF", !.todo = StaffRoom]
  <2>1. x \in PubRow /\ x.todo = StaffRoom /\ x.cleared = {}
    BY DEF Silent, PubRow, StaffRoom
  <2>2. pub' = [pub EXCEPT ![q] = x] /\ UNCHANGED viewer
    BY <1>9 DEF startPublication
  <2> HIDE DEF x
  <2> QED BY <1>8, <2>1, <2>2 DEF StaffRoom
<1>10. ASSUME NEW q \in Publication, publishToCustomers(q)
       PROVE  viewer' \in [Viewer -> ViewerRow] /\ pub' \in [Publication -> PubRow] /\ VisitsJoined'
  <2>1. PICK p \in pub[q].parcel :
          pub' = [pub EXCEPT ![q] = IF pub[q].visible THEN [pub[q] EXCEPT !.step = "PUBLIC", !.todo = TrackingRoom(p)] ELSE Silent]
    BY <1>10 DEF publishToCustomers
  <2>2. UNCHANGED viewer
    BY <1>10 DEF publishToCustomers
  <2>3. pub[q] \in PubRow
    BY <1>1
  <2>4. CASE pub[q].visible
    <3> DEFINE x == [pub[q] EXCEPT !.step = "PUBLIC", !.todo = TrackingRoom(p)]
    <3>1. x \in PubRow /\ x.todo = TrackingRoom(p) /\ x.cleared = pub[q].cleared
      BY <2>3 DEF PubRow, TrackingRoom
    <3>2. pub' = [pub EXCEPT ![q] = x]
      BY <2>1, <2>4
    <3> HIDE DEF x
    <3>3. \A v \in x.todo \cup x.cleared : viewer[v].step = "JOINED"
      BY <1>1, <3>1 DEF TrackingRoom, VisitsJoined
    <3> QED BY <1>8, <2>2, <3>1, <3>2, <3>3
  <2>5. CASE ~pub[q].visible
    <3>1. pub' = [pub EXCEPT ![q] = Silent]
      BY <2>1, <2>5
    <3> QED BY <1>8, <2>2, <3>1, NothingSaid
  <2> QED BY <2>4, <2>5
<1>11. ASSUME NEW q \in Publication, emit(q)
       PROVE  viewer' \in [Viewer -> ViewerRow] /\ pub' \in [Publication -> PubRow] /\ VisitsJoined'
  <2> DEFINE x == [pub[q] EXCEPT !.todo = pub[q].todo \ pub[q].cleared, !.cleared = {}]
  <2>1. pub[q] \in PubRow
    BY <1>1
  <2>2. x \in PubRow /\ x.todo \subseteq pub[q].todo /\ x.cleared = {}
    BY <2>1 DEF PubRow
  <2>3. pub' = [pub EXCEPT ![q] = x] /\ UNCHANGED viewer
    BY <1>1, <1>11 DEF emit, PubRow
  <2> HIDE DEF x
  <2> QED BY <1>1, <1>8, <2>2, <2>3 DEF VisitsJoined
<1>12. ASSUME NEW q \in Publication, publicationEnds(q)
       PROVE  viewer' \in [Viewer -> ViewerRow] /\ pub' \in [Publication -> PubRow] /\ VisitsJoined'
  <2>1. pub' = [pub EXCEPT ![q] = Silent] /\ UNCHANGED viewer
    BY <1>12 DEF publicationEnds
  <2> QED BY <1>8, <2>1, NothingSaid
<1>13. ASSUME NEW v \in Viewer, Gone(v)
       PROVE  viewer' \in [Viewer -> ViewerRow] /\ pub' \in [Publication -> PubRow] /\ VisitsJoined'
  <2>1. viewer' = [viewer EXCEPT ![v] = Out] /\ Out \in ViewerRow
    BY <1>13 DEF Gone, Out, ViewerRow
  <2>2. viewer' \in [Viewer -> ViewerRow] /\ \A w \in Viewer \ {v} : viewer'[w] = viewer[w]
    BY <1>1, <2>1
  <2>3. ASSUME NEW q \in Publication
        PROVE  /\ pub'[q] \in PubRow
               /\ pub'[q].todo = pub[q].todo \ {v} /\ pub'[q].cleared = pub[q].cleared \ {v}
    <3>1. pub'[q] = [pub[q] EXCEPT !.todo = pub[q].todo \ {v}, !.cleared = pub[q].cleared \ {v}] /\ pub[q] \in PubRow
      BY <1>1, <1>13 DEF Gone, PubRow
    <3> QED BY <3>1 DEF PubRow
  <2>4. pub' \in [Publication -> PubRow]
    BY <1>13, <2>3 DEF Gone
  <2>5. \A q \in Publication : pub[q].todo \cup pub[q].cleared \subseteq Viewer
    BY <1>1 DEF PubRow
  <2>6. \A q \in Publication : \A w \in pub'[q].todo \cup pub'[q].cleared : viewer'[w].step = "JOINED"
    BY <1>1, <2>2, <2>3, <2>5 DEF VisitsJoined
  <2>7. \A q \in Publication : \A w \in pub'[q].cleared : w \in pub[q].cleared /\ viewer'[w].credential = viewer[w].credential
    BY <2>2, <2>3, <2>5
  <2> QED BY <1>7, <2>2, <2>4, <2>6, <2>7
<1>14. ASSUME NEW q \in Publication, NEW v \in Viewer, revalidate(q, v)
       PROVE  viewer' \in [Viewer -> ViewerRow] /\ pub' \in [Publication -> PubRow] /\ VisitsJoined'
  <2>1. CASE StillAllowed(v)
    <3> DEFINE x == [pub[q] EXCEPT !.cleared = {v}]
    <3>1. pub[q] \in PubRow
      BY <1>1
    <3>2. x \in PubRow /\ x.todo = pub[q].todo /\ x.cleared = {v}
      BY <3>1 DEF PubRow
    <3>3. pub' = [pub EXCEPT ![q] = x] /\ UNCHANGED viewer /\ v \in pub[q].todo
      BY <1>14, <2>1 DEF revalidate
    <3> HIDE DEF x
    <3>4. \A w \in x.todo \cup x.cleared : viewer[w].step = "JOINED"
      BY <1>1, <3>2, <3>3 DEF VisitsJoined
    <3>5. \A w \in x.cleared : viewer[w].credential \subseteq GoodOnes
      BY <2>1, <3>2 DEF StillAllowed
    <3> QED BY <1>8, <3>2, <3>3, <3>4, <3>5
  <2>2. CASE ~StillAllowed(v)
    BY <1>13, <1>14, <2>2 DEF revalidate
  <2> QED BY <2>1, <2>2
<1>15. ASSUME NEW v \in Viewer, NEW x \in ViewerRow, viewer' = [viewer EXCEPT ![v] = x], UNCHANGED pub,
              viewer[v].step # "JOINED"
       PROVE  viewer' \in [Viewer -> ViewerRow] /\ pub' \in [Publication -> PubRow] /\ VisitsJoined'
  <2>1. viewer' \in [Viewer -> ViewerRow] /\ \A w \in Viewer \ {v} : viewer'[w] = viewer[w]
    BY <1>1, <1>15
  <2>2. \A q \in Publication : pub[q].todo \cup pub[q].cleared \subseteq Viewer \ {v}
    BY <1>1, <1>15 DEF PubRow, VisitsJoined
  <2>3. \A q \in Publication : \A w \in pub'[q].todo \cup pub'[q].cleared : viewer'[w].step = "JOINED"
    BY <1>1, <1>15, <2>1, <2>2 DEF VisitsJoined
  <2>4. \A q \in Publication : \A w \in pub'[q].cleared : w \in pub[q].cleared /\ viewer'[w].credential = viewer[w].credential
    BY <1>15, <2>1, <2>2
  <2> QED BY <1>1, <1>7, <1>15, <2>1, <2>3, <2>4
<1>16. ASSUME NEW v \in Viewer, NEW c \in Link \cup {Staff}, admit(v, c)
       PROVE  viewer' \in [Viewer -> ViewerRow] /\ pub' \in [Publication -> PubRow] /\ VisitsJoined'
  <2>1. [credential |-> {c}, step |-> "ADMITTED"] \in ViewerRow /\ viewer[v].step # "JOINED"
    BY <1>16 DEF admit, Out, ViewerRow
  <2> QED BY <1>15, <1>16, <2>1 DEF admit
<1>17. ASSUME NEW v \in Viewer, joinRoom(v)
       PROVE  viewer' \in [Viewer -> ViewerRow] /\ pub' \in [Publication -> PubRow] /\ VisitsJoined'
  <2>1. viewer[v] \in ViewerRow /\ [viewer[v] EXCEPT !.step = "JOINED"] \in ViewerRow
    BY <1>1 DEF ViewerRow
  <2>2. viewer' = [viewer EXCEPT ![v] = [viewer[v] EXCEPT !.step = "JOINED"]] /\ UNCHANGED pub /\ viewer[v].step # "JOINED"
    BY <1>17 DEF joinRoom
  <2> QED BY <1>15, <2>1, <2>2
<1>18. CASE UNCHANGED <<viewer, pub>>
  <2>1. \A q \in Publication : \A v \in pub'[q].todo \cup pub'[q].cleared : viewer'[v].step = "JOINED"
    BY <1>1, <1>18 DEF VisitsJoined
  <2>2. \A q \in Publication : \A v \in pub'[q].cleared : v \in pub[q].cleared /\ viewer'[v].credential = viewer[v].credential
    BY <1>18
  <2>3. viewer' \in [Viewer -> ViewerRow] /\ pub' \in [Publication -> PubRow]
    BY <1>1, <1>18
  <2> QED BY <1>5, <1>7, <2>1, <2>2, <2>3
<1>19. ASSUME NEW q \in Publication, NEW e \in Occurrence, publishCommitted(q, e)
       PROVE  viewer' \in [Viewer -> ViewerRow] /\ pub' \in [Publication -> PubRow] /\ VisitsJoined'
  <2>1. event[e].parcel \subseteq Parcel
    BY DEF BroadcastsInv, BroadcastsTypeOK
  <2> QED BY <1>9, <1>19, <2>1 DEF publishCommitted
<1>20. CASE Report
  BY <1>5, <1>18, <1>20, <1>19
     DEF Report, createDriverEvent, recordChange, closeDriverEvent
<1>21. CASE Follow
  BY <1>5, <1>9, <1>10, <1>11, <1>12, <1>13, <1>14, <1>16, <1>17, <1>18, <1>21
     DEF Follow, issueTrackingLink, revokeTrackingLink, linkExpires, parcelMoves, setTenantStatus, scopeChanges, leave
<1> QED
  BY <1>20, <1>21 DEF BroadcastsNext

LEMMA BroadcastsKept == BroadcastsSpec => []BroadcastsInv
<1>1. BroadcastsInit => BroadcastsInv
  <2> SUFFICES ASSUME BroadcastsInit PROVE BroadcastsInv
    OBVIOUS
  <2>1. BroadcastsTypeOK
    BY DEF BroadcastsInit, BroadcastsTypeOK, Out, Silent
  <2>2. VisitsJoined /\ OneReported
    BY DEF BroadcastsInit, VisitsJoined, OneReported, Reported, Silent
  <2> QED BY <2>1, <2>2 DEF BroadcastsInv
<1>2. BroadcastsInv /\ [BroadcastsNext]_broadcastVars => BroadcastsInv'
  BY LinksStep, EventsStep, VisitsStep DEF BroadcastsInv, BroadcastsTypeOK, ViewerRow, PubRow, EventRow
<1> QED BY <1>1, <1>2, PTL DEF BroadcastsSpec

LEMMA BroadcastsSafe == BroadcastsInv => EndedViewersGetNothing /\ OneOpenOccurrence
BY DEF BroadcastsInv, VisitsJoined, OneReported, Reported, EndedViewersGetNothing, OneOpenOccurrence

(***************************************************************************)
(* Presence.                                                               *)
(***************************************************************************)
\* A delivery that did not change since a point was captured is followed now exactly if it was
\* followed then; no two events share a moment.
FollowedNow(d) == Followed(d, [e \in Deliveries |-> dlv[e].status])
StagesKept ==
  \A t \in captured : t < now /\ \A d \in Deliveries : dlv[d].upd <= t => (d \in stages[t] <=> FollowedNow(d))

\* What is stored, waits or is shown is a captured point of its own stage.
Own(u) == u \in Update /\ u.at \in captured /\ OwnStage(u)
PointsOwn ==
  /\ \A u \in updates \cup blind : Own(u)
  /\ last # None => Own(last)
  /\ \A d \in Deliveries : cache[d] # None => Own(cache[d])

PresenceInv == PresenceTypeOK /\ StagesKept /\ PointsOwn

DeliveryRow == [status : ActiveStatus \cup {"DELIVERED"}, out : Times \cup {NoTime}, upd : Times]
DayRow == [status : DayStatus, since : Times \cup {NoTime}, pos : Times \cup {NoTime}]

DayTyped == day \in DayRow /\ native \in BOOLEAN /\ background \in Deliveries \cup {None}
PointsTyped ==
  /\ captured \subseteq Times /\ dayPoints \subseteq captured /\ receipts \subseteq captured
  /\ last \in Update \cup {None} /\ blind \subseteq Update /\ updates \subseteq Update
  /\ cache \in [Deliveries -> Update \cup {None}]
DeliveriesTyped ==
  /\ now \in Times /\ routed \in BOOLEAN /\ first \in Deliveries
  /\ dlv \in [Deliveries -> DeliveryRow] /\ stages \in [Times -> SUBSET Deliveries]

LEMMA PresenceTyped == PresenceTypeOK <=> DeliveriesTyped /\ DayTyped /\ PointsTyped
BY DEF PresenceTypeOK, DeliveriesTyped, DayTyped, PointsTyped, DeliveryRow, DayRow

LEMMA TypedNext == DeliveriesTyped' /\ DayTyped' /\ PointsTyped' => PresenceTypeOK'
BY DEF PresenceTypeOK, DeliveriesTyped, DayTyped, PointsTyped, DeliveryRow, DayRow

LEMMA Moments == now \in Times => now \in Nat /\ NoTime \in Nat /\ (now < MaxTime => now + 1 \in Times)
BY PresenceConstants DEF Times, NoTime

\* The answers of the courier and what his days and sessions become.
LEMMA DayStep ==
  ASSUME DeliveriesTyped, DayTyped,
         \/ getMyWorkdays \/ confirm \/ decline \/ checkIn \/ checkOut \/ reopenDeclinedWorkday
         \/ createWorkdayTrackingSession \/ revokeWorkdayTrackingSession \/ maintainWorkdays
         \/ revokeBackgroundTrackingSession \/ \E d \in Deliveries : createBackgroundTrackingSession(d)
  PROVE  DayTyped' /\ UNCHANGED <<now, deliveryVars, pointVars>>
<1> USE DEF DayTyped, DayRow
<1>1. \A s \in DayStatus : [day EXCEPT !.status = s] \in DayRow
  OBVIOUS
<1>2. ASSUME confirm \/ decline \/ reopenDeclinedWorkday PROVE DayTyped' /\ UNCHANGED <<now, deliveryVars, pointVars>>
  BY <1>1, <1>2 DEF confirm, decline, reopenDeclinedWorkday, DayOnly, DayStatus
<1>3. ASSUME checkIn PROVE DayTyped' /\ UNCHANGED <<now, deliveryVars, pointVars>>
  BY <1>3 DEF checkIn, DayOnly, DayStatus, DeliveriesTyped
<1>4. ASSUME checkOut PROVE DayTyped' /\ UNCHANGED <<now, deliveryVars, pointVars>>
  BY <1>4 DEF checkOut, DayStatus
<1>5. Reconciled \in DayRow
  <2>1. CASE now < Closes
    BY <1>1, <2>1 DEF Reconciled, DayStatus
  <2>2. CASE ~(now < Closes)
    <3> DEFINE s == IF day.status = "CHECKED_IN" THEN "COMPLETED"
                    ELSE IF day.status = "COMPLETED" THEN day.status ELSE "EXPIRED"
    <3>1. Reconciled = [day EXCEPT !.pos = NoTime, !.status = s]
      BY <2>2 DEF Reconciled
    <3>2. s \in DayStatus
      BY DEF DayStatus
    <3> HIDE DEF s
    <3> QED BY <3>1, <3>2
  <2> QED BY <2>1, <2>2
<1>6. ASSUME getMyWorkdays PROVE DayTyped' /\ UNCHANGED <<now, deliveryVars, pointVars>>
  BY <1>5, <1>6 DEF getMyWorkdays, DayOnly
<1>7. ASSUME maintainWorkdays PROVE DayTyped' /\ UNCHANGED <<now, deliveryVars, pointVars>>
  <2>1. day' = Reconciled /\ native' \in BOOLEAN /\ UNCHANGED <<now, deliveryVars, pointVars, background>>
    BY <1>7 DEF maintainWorkdays
  <2> QED BY <1>5, <2>1
<1>8. ASSUME createWorkdayTrackingSession \/ revokeWorkdayTrackingSession \/ revokeBackgroundTrackingSession
             \/ \E d \in Deliveries : createBackgroundTrackingSession(d)
      PROVE  DayTyped' /\ UNCHANGED <<now, deliveryVars, pointVars>>
  BY <1>8 DEF createWorkdayTrackingSession, revokeWorkdayTrackingSession, revokeBackgroundTrackingSession,
              createBackgroundTrackingSession
<1> QED BY <1>2, <1>3, <1>4, <1>6, <1>7, <1>8

\* The stops change at a moment of their own.
LEMMA MovesStep ==
  ASSUME DeliveriesTyped, StagesKept, PointsTyped, NEW status \in [Deliveries -> ActiveStatus \cup {"DELIVERED"}], Moves(status),
         first' \in Deliveries
  PROVE  DeliveriesTyped' /\ StagesKept'
<1>1. now \in Nat /\ now < MaxTime /\ now' = now + 1 /\ now' \in Times /\ UNCHANGED <<routed, stages, captured>>
  BY Moments DEF Moves, DeliveriesTyped, pointVars
<1>2. ASSUME NEW d \in Deliveries
      PROVE  /\ dlv'[d] \in DeliveryRow /\ dlv'[d].status = status[d]
             /\ status[d] = dlv[d].status \/ dlv'[d].upd = now
             /\ status[d] = dlv[d].status => dlv'[d].upd = dlv[d].upd
  <2>1. dlv[d] \in DeliveryRow
    BY DEF DeliveriesTyped
  <2>2. CASE status[d] = dlv[d].status
    BY <2>1, <2>2 DEF Moves
  <2>3. CASE status[d] # dlv[d].status
    <3>1. dlv'[d] = [status |-> status[d], upd |-> now, out |-> IF dlv[d].status = "COLLECTED" THEN now ELSE dlv[d].out]
      BY <2>3 DEF Moves
    <3>2. (IF dlv[d].status = "COLLECTED" THEN now ELSE dlv[d].out) \in Times \cup {NoTime}
      BY <2>1 DEF DeliveryRow, DeliveriesTyped
    <3> QED BY <2>3, <3>1, <3>2 DEF DeliveryRow, DeliveriesTyped
  <2> QED BY <2>2, <2>3
<1>3. dlv' \in [Deliveries -> DeliveryRow]
  <2>1. dlv' = [d \in Deliveries |-> dlv'[d]]
    BY DEF Moves
  <2> QED BY <1>2, <2>1
<1>4. \A d \in Deliveries :
        /\ FollowedNow(d) <=> (dlv[d].status = "NEXT_STOP" \/ (dlv[d].status = "IN_ROUTE" /\ ~routed))
        /\ FollowedNow(d)' <=> (dlv'[d].status = "NEXT_STOP" \/ (dlv'[d].status = "IN_ROUTE" /\ ~routed))
  BY <1>1 DEF FollowedNow, Followed
<1>5. ASSUME NEW t \in captured
      PROVE  t < now' /\ \A d \in Deliveries : dlv'[d].upd <= t => (d \in stages[t] <=> FollowedNow(d)')
  <2>1. t \in Nat /\ t < now
    BY <1>1 DEF StagesKept, PointsTyped, Times
  <2>2. ASSUME NEW d \in Deliveries, dlv'[d].upd <= t
        PROVE  d \in stages[t] <=> FollowedNow(d)'
    <3>1. dlv'[d].upd # now
      BY <1>1, <2>1, <2>2
    <3>2. dlv'[d].status = dlv[d].status /\ dlv[d].upd <= t
      BY <1>2, <2>2, <3>1
    <3>3. d \in stages[t] <=> FollowedNow(d)
      BY <3>2 DEF StagesKept
    <3> QED BY <1>4, <3>2, <3>3
  <2> QED BY <1>1, <2>1, <2>2
<1>6. StagesKept'
  BY <1>1, <1>5 DEF StagesKept
<1> QED BY <1>1, <1>3, <1>6 DEF DeliveriesTyped

LEMMA StopsStep ==
  ASSUME DeliveriesTyped, StagesKept, PointsTyped, startRoute \/ \E d \in Deliveries : startDelivery(d) \/ complete(d) \/ prioritize(d)
  PROVE  DeliveriesTyped' /\ StagesKept' /\ UNCHANGED <<stages, dayVars, pointVars>>
<1> DEFINE Statuses == [Deliveries -> ActiveStatus \cup {"DELIVERED"}]
<1>1. first \in Deliveries /\ \A d \in Deliveries : dlv[d].status \in ActiveStatus \cup {"DELIVERED"}
  BY DEF DeliveriesTyped, DeliveryRow
<1>2. ASSUME startRoute
      PROVE  \E status \in Statuses : Moves(status) /\ first' \in Deliveries
  <2> DEFINE status == [d \in Deliveries |-> IF d = first THEN "NEXT_STOP" ELSE "IN_ROUTE"]
  <2>1. status \in Statuses
    BY DEF ActiveStatus
  <2>2. Moves(status) /\ first' = first
    BY <1>2 DEF startRoute
  <2> HIDE DEF status
  <2> QED BY <1>1, <2>1, <2>2
<1>3. ASSUME NEW d \in Deliveries, startDelivery(d)
      PROVE  \E status \in Statuses : Moves(status) /\ first' \in Deliveries
  <2> DEFINE status == [e \in Deliveries |-> IF e = d THEN "IN_ROUTE" ELSE dlv[e].status]
  <2>1. status \in Statuses
    BY <1>1 DEF ActiveStatus
  <2>2. Moves(status) /\ first' = first
    BY <1>3 DEF startDelivery
  <2> HIDE DEF status
  <2> QED BY <1>1, <2>1, <2>2
<1>4. ASSUME NEW d \in Deliveries, prioritize(d)
      PROVE  \E status \in Statuses : Moves(status) /\ first' \in Deliveries
  <2> DEFINE status == [e \in Deliveries |-> IF e = d THEN "NEXT_STOP" ELSE IF e = first THEN "IN_ROUTE" ELSE dlv[e].status]
  <2>1. status \in Statuses
    BY <1>1 DEF ActiveStatus
  <2>2. Moves(status) /\ first' = d
    BY <1>4 DEF prioritize
  <2> HIDE DEF status
  <2> QED BY <1>1, <2>1, <2>2
<1>5. ASSUME NEW d \in Deliveries, complete(d)
      PROVE  \E status \in Statuses : Moves(status) /\ first' \in Deliveries
  <2> DEFINE alone == [e \in Deliveries |-> IF e = d THEN "DELIVERED" ELSE dlv[e].status]
             next(n) == [e \in Deliveries |-> IF e = d THEN "DELIVERED" ELSE IF e = n THEN "NEXT_STOP" ELSE dlv[e].status]
  <2>1. alone \in Statuses /\ \A n \in Deliveries : next(n) \in Statuses
    BY <1>1 DEF ActiveStatus
  <2>2. (Moves(alone) /\ first' = first) \/ \E n \in Deliveries : first' = n /\ Moves(next(n))
    BY <1>5 DEF complete
  <2> HIDE DEF alone, next
  <2> QED BY <1>1, <2>1, <2>2
<1>6. PICK status \in Statuses : Moves(status) /\ first' \in Deliveries
  BY <1>2, <1>3, <1>4, <1>5
<1>7. UNCHANGED <<stages, dayVars, pointVars>>
  BY <1>6 DEF Moves
<1> QED BY <1>6, <1>7, MovesStep

\* The device captures at a moment of its own.
LEMMA CaptureStep ==
  ASSUME PresenceInv, Capture \/ Tick
  PROVE  PresenceInv'
<1>1. DeliveriesTyped /\ DayTyped /\ PointsTyped /\ StagesKept /\ PointsOwn
  BY PresenceTyped DEF PresenceInv
<1>2. now \in Nat /\ now \in Times /\ now < MaxTime /\ now' = now + 1 /\ now' \in Times
  BY <1>1, Moments DEF Capture, Tick, DeliveriesTyped
<1>3. UNCHANGED <<routed, first, dlv, dayVars, dayPoints, receipts, last, blind, updates, cache>>
  BY DEF Capture, Tick, deliveryVars, pointVars
<1>4. DayTyped'
  BY <1>1, <1>3 DEF DayTyped, dayVars
<1>5. \A d \in Deliveries : FollowedNow(d)' <=> FollowedNow(d)
  BY <1>3 DEF FollowedNow, Followed
<1>6. captured \subseteq captured' /\ captured' \subseteq captured \cup {now} /\ (captured' # captured => captured' = captured \cup {now})
  BY DEF Capture, Tick, pointVars
<1>7. /\ stages' \in [Times -> SUBSET Deliveries]
      /\ \A t \in captured : stages'[t] = stages[t]
      /\ now \in captured' => \A d \in Deliveries : d \in stages'[now] <=> FollowedNow(d)
  <2>1. \A t \in captured : t \in Nat /\ t < now /\ t \in Times
    BY <1>1 DEF StagesKept, PointsTyped, Times
  <2>2. now \notin captured
    BY <1>2, <2>1
  <2>3. stages \in [Times -> SUBSET Deliveries]
    BY <1>1 DEF DeliveriesTyped
  <2>4. CASE Capture
    <3> DEFINE seen == {d \in Deliveries : FollowedNow(d)}
    <3>1. stages' = [stages EXCEPT ![now] = seen]
      BY <2>4 DEF Capture, FollowedNow
    <3>2. seen \subseteq Deliveries /\ \A d \in Deliveries : d \in seen <=> FollowedNow(d)
      OBVIOUS
    <3> HIDE DEF seen
    <3> QED BY <1>2, <2>1, <2>2, <2>3, <3>1, <3>2
  <2>5. CASE Tick
    <3>1. stages' = stages /\ captured' = captured
      BY <2>5 DEF Tick, deliveryVars, pointVars
    <3> QED BY <2>2, <2>3, <3>1
  <2> QED BY <2>4, <2>5
<1>8. DeliveriesTyped'
  BY <1>1, <1>2, <1>3, <1>7 DEF DeliveriesTyped
<1>9. PointsTyped'
  BY <1>1, <1>2, <1>3, <1>6 DEF PointsTyped
<1>10. StagesKept'
  <2> SUFFICES ASSUME NEW t \in captured'
               PROVE  t < now' /\ \A d \in Deliveries : dlv[d].upd <= t => (d \in stages'[t] <=> FollowedNow(d))
    BY <1>3, <1>5 DEF StagesKept
  <2>1. CASE t \in captured
    <3>1. t < now /\ \A d \in Deliveries : dlv[d].upd <= t => (d \in stages[t] <=> FollowedNow(d))
      BY <1>1, <2>1 DEF StagesKept
    <3>2. t \in Nat
      BY <1>1, <2>1 DEF PointsTyped, Times
    <3>3. t < now'
      BY <1>2, <3>1, <3>2
    <3>4. stages'[t] = stages[t]
      BY <1>7, <2>1
    <3> QED BY <3>1, <3>3, <3>4
  <2>2. CASE t = now
    BY <1>2, <1>7, <2>2
  <2> QED BY <1>6, <2>1, <2>2
<1>11. ASSUME NEW u, Own(u) PROVE Own(u)'
  BY <1>6, <1>7, <1>11 DEF Own, OwnStage
<1>12. PointsOwn'
  BY <1>1, <1>3, <1>11 DEF PointsOwn
<1> QED
  BY <1>4, <1>8, <1>9, <1>10, <1>12, TypedNext DEF PresenceInv

\* A point of the day goes to a delivery that did not change since it was captured.
LEMMA CurrentIsOwn ==
  ASSUME DeliveriesTyped, PointsTyped, StagesKept, NEW t \in captured, NEW d \in Current(t)
  PROVE  Own(UpdateOf(d, t, "SERVER"))
<1>1. d \in Deliveries /\ dlv[d].upd <= t /\ FollowedNow(d)
  BY DEF Current, FollowedNow
<1>2. d \in stages[t]
  BY <1>1 DEF StagesKept
<1>3. UpdateOf(d, t, "SERVER") \in Update
  BY <1>1 DEF UpdateOf, Update, PointsTyped
<1> QED BY <1>2, <1>3 DEF Own, OwnStage, UpdateOf

\* What a point that is stored changes.
LEMMA StoreStep ==
  ASSUME PointsTyped, PointsOwn, NEW u, Own(u), Store(u)
  PROVE  /\ receipts' \subseteq captured /\ updates' \subseteq Update /\ last' \in Update \cup {None}
         /\ \A w \in updates' : Own(w)
         /\ last' # None => Own(last')
<1>1. receipts' = receipts \cup {u.at} /\ updates' = updates \cup {u} /\ (last' = u \/ last' = last)
  BY DEF Store, Upsert
<1>2. u \in Update /\ u.at \in captured
  BY DEF Own
<1>3. receipts' \subseteq captured /\ updates' \subseteq Update /\ last' \in Update \cup {None}
  BY <1>1, <1>2 DEF PointsTyped
<1>4. \A w \in updates' : Own(w)
  BY <1>1 DEF PointsOwn
<1>5. last' # None => Own(last')
  <2>1. CASE last' = u
    BY <2>1
  <2>2. CASE last' = last
    BY <2>2 DEF PointsOwn
  <2> QED BY <1>1, <2>1, <2>2
<1> QED BY <1>3, <1>4, <1>5

\* The rest of a step that brings a point.
LEMMA PointArrives ==
  ASSUME PresenceInv, UNCHANGED <<now, deliveryVars, native, background, captured>>, DayTyped', dayPoints' \subseteq captured,
         receipts' \subseteq captured, updates' \subseteq Update, blind' \subseteq Update, last' \in Update \cup {None},
         cache' \in [Deliveries -> Update \cup {None}],
         \A w \in updates' \cup blind' : Own(w), last' # None => Own(last'),
         \A d \in Deliveries : cache'[d] # None => Own(cache'[d])
  PROVE  PresenceInv'
<1>1. DeliveriesTyped /\ PointsTyped /\ StagesKept
  BY PresenceTyped DEF PresenceInv
<1>2. DeliveriesTyped' /\ PointsTyped'
  BY <1>1 DEF DeliveriesTyped, PointsTyped, deliveryVars
<1>3. StagesKept'
  BY <1>1 DEF StagesKept, FollowedNow, Followed, deliveryVars
<1>4. ASSUME NEW w, Own(w) PROVE Own(w)'
  BY <1>4 DEF Own, OwnStage, deliveryVars
<1>5. PointsOwn'
  BY <1>4 DEF PointsOwn
<1>6. DayTyped'
  OBVIOUS
<1> QED BY <1>2, <1>3, <1>5, <1>6, TypedNext DEF PresenceInv

LEMMA DayPointStep ==
  ASSUME PresenceInv, NEW t \in Times, ingestWorkdayPoints(t)
  PROVE  PresenceInv'
<1>1. DeliveriesTyped /\ DayTyped /\ PointsTyped /\ StagesKept /\ PointsOwn
  BY PresenceTyped DEF PresenceInv
<1>2. /\ t \in captured /\ day' = [day EXCEPT !.pos = t] /\ dayPoints' = dayPoints \cup {t}
      /\ UNCHANGED <<now, deliveryVars, native, background, captured, blind, cache>>
  BY DEF ingestWorkdayPoints
<1>3. DayTyped' /\ dayPoints' \subseteq captured
  BY <1>1, <1>2 DEF DayTyped, DayRow, PointsTyped
<1>4. /\ receipts' \subseteq captured /\ updates' \subseteq Update /\ last' \in Update \cup {None}
      /\ \A w \in updates' : Own(w)
      /\ last' # None => Own(last')
  <2>1. CASE \E d \in Current(t) : Store(UpdateOf(d, t, "SERVER"))
    <3>1. PICK d \in Current(t) : Store(UpdateOf(d, t, "SERVER"))
      BY <2>1
    <3>2. Own(UpdateOf(d, t, "SERVER"))
      BY <1>1, <1>2, CurrentIsOwn
    <3> QED BY <1>1, <3>1, <3>2, StoreStep
  <2>2. CASE UNCHANGED <<receipts, last, updates>>
    BY <1>1, <2>2 DEF PointsTyped, PointsOwn
  <2> QED BY <2>1, <2>2 DEF ingestWorkdayPoints
<1>5. blind' \subseteq Update /\ cache' \in [Deliveries -> Update \cup {None}]
      /\ (\A w \in updates' \cup blind' : Own(w)) /\ \A d \in Deliveries : cache'[d] # None => Own(cache'[d])
  BY <1>1, <1>2, <1>4 DEF PointsTyped, PointsOwn
<1> QED BY <1>2, <1>3, <1>4, <1>5, PointArrives

LEMMA NamedPointStep ==
  ASSUME PresenceInv, NEW d \in Deliveries, NEW t \in Times, ingestLocations(d, t)
  PROVE  PresenceInv'
<1>1. DeliveriesTyped /\ DayTyped /\ PointsTyped /\ StagesKept /\ PointsOwn
  BY PresenceTyped DEF PresenceInv
<1> DEFINE u == UpdateOf(d, t, "CLIENT")
<1>2. t \in captured /\ UNCHANGED <<now, deliveryVars, dayVars, captured, dayPoints, cache>>
  BY DEF ingestLocations
<1>3. Own(u)
  BY <1>1, <1>2 DEF Own, OwnStage, UpdateOf, Update, PointsTyped
<1> HIDE DEF u
<1>4. /\ receipts' \subseteq captured /\ updates' \subseteq Update /\ last' \in Update \cup {None}
      /\ \A w \in updates' : Own(w)
      /\ last' # None => Own(last')
      /\ blind' \subseteq blind \cup {u}
  <2>1. CASE last = None
    <3>1. blind' = blind \cup {u} /\ UNCHANGED <<receipts, last, updates>>
      BY <2>1 DEF ingestLocations, u
    <3> QED BY <1>1, <3>1 DEF PointsTyped, PointsOwn
  <2>2. CASE last # None
    <3>1. Store(u) /\ UNCHANGED blind
      BY <2>2 DEF ingestLocations, u
    <3> QED BY <1>1, <1>3, <3>1, StoreStep
  <2> QED BY <2>1, <2>2
<1>5. blind' \subseteq Update /\ \A w \in updates' \cup blind' : Own(w)
  <2>1. u \in Update
    BY <1>3 DEF Own
  <2> QED BY <1>1, <1>3, <1>4, <2>1 DEF PointsTyped, PointsOwn
<1>6. DayTyped' /\ dayPoints' \subseteq captured /\ UNCHANGED <<native, background>>
      /\ cache' \in [Deliveries -> Update \cup {None}] /\ \A e \in Deliveries : cache'[e] # None => Own(cache'[e])
  BY <1>1, <1>2 DEF DayTyped, dayVars, PointsTyped, PointsOwn
<1> QED BY <1>2, <1>4, <1>5, <1>6, PointArrives

LEMMA BlindPointStep ==
  ASSUME PresenceInv, NEW u \in blind, writeWithoutPrevious(u)
  PROVE  PresenceInv'
<1>1. DeliveriesTyped /\ DayTyped /\ PointsTyped /\ StagesKept /\ PointsOwn
  BY PresenceTyped DEF PresenceInv
<1>2. blind' = blind \ {u} /\ UNCHANGED <<now, deliveryVars, dayVars, captured, dayPoints, cache>>
  BY DEF writeWithoutPrevious
<1>3. Own(u)
  BY <1>1 DEF PointsOwn
<1>4. /\ receipts' \subseteq captured /\ updates' \subseteq Update /\ last' \in Update \cup {None}
      /\ \A w \in updates' : Own(w)
      /\ last' # None => Own(last')
  <2>1. CASE Store(u)
    BY <1>1, <1>3, <2>1, StoreStep
  <2>2. CASE UNCHANGED <<receipts, last, updates>>
    BY <1>1, <2>2 DEF PointsTyped, PointsOwn
  <2> QED BY <2>1, <2>2 DEF writeWithoutPrevious
<1>5. blind' \subseteq Update /\ \A w \in updates' \cup blind' : Own(w)
  BY <1>1, <1>2, <1>4 DEF PointsTyped, PointsOwn
<1>6. DayTyped' /\ dayPoints' \subseteq captured /\ UNCHANGED <<native, background>>
      /\ cache' \in [Deliveries -> Update \cup {None}] /\ \A e \in Deliveries : cache'[e] # None => Own(cache'[e])
  BY <1>1, <1>2 DEF DayTyped, dayVars, PointsTyped, PointsOwn
<1> QED BY <1>2, <1>4, <1>5, <1>6, PointArrives

LEMMA PublishStep ==
  ASSUME PresenceInv, NEW u \in updates, publish(u)
  PROVE  PresenceInv'
<1>1. DeliveriesTyped /\ DayTyped /\ PointsTyped /\ StagesKept /\ PointsOwn
  BY PresenceTyped DEF PresenceInv
<1>2. /\ updates' = updates \ {u} /\ cache' = [cache EXCEPT ![u.delivery] = u]
      /\ UNCHANGED <<now, deliveryVars, dayVars, captured, dayPoints, receipts, last, blind>>
  BY DEF publish, Put
<1>3. Own(u) /\ u \in Update
  BY <1>1 DEF PointsOwn, PointsTyped
<1>4. cache' \in [Deliveries -> Update \cup {None}] /\ \A e \in Deliveries : cache'[e] # None => Own(cache'[e])
  BY <1>1, <1>2, <1>3 DEF PointsTyped, PointsOwn
<1>5. DayTyped' /\ UNCHANGED <<native, background>>
  BY <1>1, <1>2 DEF DayTyped, dayVars
<1>6. /\ dayPoints' \subseteq captured /\ receipts' \subseteq captured /\ updates' \subseteq Update /\ blind' \subseteq Update
      /\ last' \in Update \cup {None} /\ (\A w \in updates' \cup blind' : Own(w)) /\ (last' # None => Own(last'))
  BY <1>1, <1>2 DEF PointsTyped, PointsOwn
<1> QED BY <1>2, <1>4, <1>5, <1>6, PointArrives

\* What leaves points and their stages alone.
LEMMA PresenceCalm ==
  ASSUME PresenceInv, DeliveriesTyped', DayTyped', StagesKept', UNCHANGED <<stages, pointVars>>
  PROVE  PresenceInv'
<1>1. PointsTyped /\ PointsOwn
  BY PresenceTyped DEF PresenceInv
<1>2. PointsTyped'
  BY <1>1 DEF PointsTyped, pointVars
<1>3. PointsOwn'
  BY <1>1 DEF PointsOwn, Own, OwnStage, pointVars
<1> QED BY <1>2, <1>3, TypedNext DEF PresenceInv

LEMMA PresenceStep ==
  ASSUME PresenceInv, [PresenceNext]_presenceVars
  PROVE  PresenceInv'
<1>1. DeliveriesTyped /\ DayTyped /\ PointsTyped /\ StagesKept /\ PointsOwn
  BY PresenceTyped DEF PresenceInv
<1>2. ASSUME DayTyped', UNCHANGED <<now, deliveryVars, pointVars>> PROVE PresenceInv'
  <2>1. DeliveriesTyped' /\ StagesKept'
    BY <1>1, <1>2 DEF DeliveriesTyped, StagesKept, FollowedNow, Followed, deliveryVars, pointVars
  <2> QED BY <1>2, <2>1, PresenceCalm DEF deliveryVars
<1>3. CASE UNCHANGED presenceVars
  <2>1. DayTyped' /\ UNCHANGED <<now, deliveryVars, pointVars>>
    BY <1>1, <1>3 DEF DayTyped, dayVars, presenceVars
  <2> QED BY <1>2, <2>1
<1>4. CASE startRoute \/ \E d \in Deliveries : startDelivery(d) \/ complete(d) \/ prioritize(d)
  <2>1. DeliveriesTyped' /\ StagesKept' /\ UNCHANGED <<stages, dayVars, pointVars>>
    BY <1>1, <1>4, StopsStep
  <2>2. DayTyped'
    BY <1>1, <2>1 DEF DayTyped, dayVars
  <2> QED BY <2>1, <2>2, PresenceCalm
<1>5. CASE WorkdayRequest
  <2>1. CASE \/ getMyWorkdays \/ confirm \/ decline \/ checkIn \/ checkOut \/ reopenDeclinedWorkday
             \/ createWorkdayTrackingSession \/ revokeWorkdayTrackingSession
    BY <1>1, <1>2, <2>1, DayStep
  <2>2. CASE \E t \in Times : ingestWorkdayPoints(t) \/ ingestNativeWorkdayPoint(t)
    BY <2>2, DayPointStep DEF ingestNativeWorkdayPoint
  <2> QED BY <1>5, <2>1, <2>2 DEF WorkdayRequest
<1>6. CASE LocationRequest
  <2>1. CASE revokeBackgroundTrackingSession \/ \E d \in Deliveries : createBackgroundTrackingSession(d)
    BY <1>1, <1>2, <2>1, DayStep
  <2>2. ASSUME NEW t \in Times, ingestBackgroundLocation(t) PROVE PresenceInv'
    <3>1. background \in Deliveries /\ ingestLocations(background, t)
      BY <1>1, <2>2 DEF ingestBackgroundLocation, DayTyped
    <3> QED BY <3>1, NamedPointStep
  <2>3. ASSUME NEW t \in Times, NEW d \in Deliveries, ingestLocations(d, t) PROVE PresenceInv'
    BY <2>3, NamedPointStep
  <2> QED BY <1>6, <2>1, <2>2, <2>3 DEF LocationRequest
<1>7. CASE maintainWorkdays
  BY <1>1, <1>2, <1>7, DayStep
<1>8. CASE (\E u \in blind : writeWithoutPrevious(u)) \/ \E u \in updates : publish(u)
  BY <1>8, BlindPointStep, PublishStep
<1> QED
  BY <1>3, <1>4, <1>5, <1>6, <1>7, <1>8, CaptureStep DEF PresenceNext

LEMMA PresenceBegins == PresenceInit => PresenceInv
<1> SUFFICES ASSUME PresenceInit PROVE PresenceInv
  OBVIOUS
<1>1. DeliveriesTyped /\ DayTyped /\ PointsTyped
  <2>1. 0 \in Times
    BY PresenceConstants DEF Times
  <2>2. DeliveriesTyped
    <3>1. [status |-> "COLLECTED", out |-> NoTime, upd |-> 0] \in DeliveryRow
      BY <2>1 DEF DeliveryRow, ActiveStatus
    <3>2. stages \in [Times -> SUBSET Deliveries]
      BY DEF PresenceInit
    <3> QED BY <2>1, <3>1, <3>2 DEF PresenceInit, DeliveriesTyped
  <2>3. DayTyped
    <3>1. [status |-> "NONE", since |-> NoTime, pos |-> NoTime] \in DayRow
      BY DEF DayRow, DayStatus
    <3> QED BY <3>1 DEF PresenceInit, DayTyped
  <2>4. PointsTyped
    BY DEF PresenceInit, PointsTyped
  <2> QED BY <2>2, <2>3, <2>4
<1>2. StagesKept /\ PointsOwn
  BY DEF PresenceInit, StagesKept, PointsOwn
<1> QED BY <1>1, <1>2, PresenceTyped DEF PresenceInv

LEMMA PresenceKept == PresenceSpec => []PresenceInv
BY PresenceBegins, PresenceStep, PTL DEF PresenceSpec

LEMMA PresencePrivate == PresenceInv => CustomersSeeTheirOwnStage
BY DEF PresenceInv, PointsOwn, Own, CustomersSeeTheirOwnStage, getCustomerTracking, getPublicTracking, selectedLocation, Cached

\* The upsert looks at the moment of what it replaces.
LEMMA LastForward ==
  ASSUME PresenceInv, [PresenceNext]_presenceVars, last # None
  PROVE  last' # None /\ last'.at >= last.at
<1>1. last \in Update /\ last.at \in Nat /\ updates \subseteq Update /\ blind \subseteq Update
  BY DEF PresenceInv, PresenceTypeOK, Update, Times
<1>2. ASSUME NEW u \in Update, Upsert(u) PROVE last' # None /\ last'.at >= last.at
  <2>1. u.at \in Nat /\ u # None
    BY NoneIsNoUpdate DEF Update, Times
  <2> QED BY <1>1, <1>2, <2>1 DEF Upsert
<1>3. CASE UNCHANGED last
  BY <1>1, <1>3
<1>4. ASSUME NEW d \in Deliveries, NEW t \in Times, NEW who \in {"SERVER", "CLIENT"} PROVE UpdateOf(d, t, who) \in Update
  BY DEF UpdateOf, Update
<1>5. ASSUME NEW t \in Times, ingestWorkdayPoints(t) PROVE last' # None /\ last'.at >= last.at
  <2>1. CASE \E d \in Current(t) : Store(UpdateOf(d, t, "SERVER"))
    BY <1>2, <1>4, <2>1 DEF Store, Current
  <2> QED BY <1>3, <1>5, <2>1 DEF ingestWorkdayPoints
<1>6. ASSUME NEW t \in Times, NEW d \in Deliveries, ingestLocations(d, t) PROVE last' # None /\ last'.at >= last.at
  BY <1>2, <1>4, <1>6 DEF ingestLocations, Store
<1>7. ASSUME NEW t \in Times, ingestBackgroundLocation(t) PROVE last' # None /\ last'.at >= last.at
  <2>1. background \in Deliveries /\ ingestLocations(background, t)
    BY <1>7 DEF ingestBackgroundLocation, PresenceInv, PresenceTypeOK
  <2> QED BY <1>6, <2>1
<1>8. ASSUME NEW u \in blind, writeWithoutPrevious(u) PROVE last' # None /\ last'.at >= last.at
  BY <1>1, <1>2, <1>3, <1>8 DEF writeWithoutPrevious, Store
<1>9. CASE startRoute \/ (\E d \in Deliveries : startDelivery(d) \/ complete(d) \/ prioritize(d)) \/ Capture \/ Tick
  BY <1>3, <1>9 DEF startRoute, startDelivery, complete, prioritize, Moves, Capture, Tick, pointVars
<1>10. CASE \/ getMyWorkdays \/ confirm \/ decline \/ checkIn \/ checkOut \/ reopenDeclinedWorkday
            \/ createWorkdayTrackingSession \/ revokeWorkdayTrackingSession \/ maintainWorkdays
            \/ revokeBackgroundTrackingSession \/ \E d \in Deliveries : createBackgroundTrackingSession(d)
  <2>1. DeliveriesTyped /\ DayTyped
    BY PresenceTyped DEF PresenceInv
  <2>2. UNCHANGED pointVars
    BY <1>10, <2>1, DayStep
  <2> QED BY <1>3, <2>2 DEF pointVars
<1>11. CASE UNCHANGED presenceVars \/ \E u \in updates : publish(u)
  BY <1>3, <1>11 DEF publish, presenceVars, pointVars
<1> QED
  BY <1>5, <1>6, <1>7, <1>8, <1>9, <1>10, <1>11 DEF PresenceNext, WorkdayRequest, LocationRequest, ingestNativeWorkdayPoint

(***************************************************************************)
(* Video.                                                                  *)
(***************************************************************************)
\* The row of the key names the studio that was given it, and no second row takes the channel.
Accounted ==
  /\ \A l \in key : video[l].state \in {"PREPARING", "READY"}
  /\ \A l \in Live, k \in Live :
       video[l].state \in {"PREPARING", "READY"} /\ video[k].state \in {"PREPARING", "READY"} => l = k
  /\ \A known \in knows : known[1] = video[known[2]].studio

LiveInv == LiveTypeOK /\ Accounted

\* The rows of the studios and what the provider has keep their types.
LEMMA LiveTypes == LiveTypeOK /\ [LiveNext]_liveVars => LiveTypeOK'
<1> SUFFICES ASSUME LiveTypeOK, [LiveNext]_liveVars PROVE LiveTypeOK'
  OBVIOUS
<1> USE DEF LiveTypeOK
<1> DEFINE Row == [status : {"NONE", "WAITING", "LIVE", "ENDED"}, started : BOOLEAN, over : BOOLEAN]
<1>1. Expired \in [Live -> Row]
  BY DEF Expired
<1>2. ASSUME NEW l \in Live, saveLive(l) \/ startLive(l) \/ endLive(l) PROVE LiveTypeOK'
  <2>1. live' \in [Live -> Row]
    <3>1. CASE startLive(l)
      BY <1>1, <3>1 DEF startLive
    <3>2. CASE saveLive(l)
      BY <1>1, <3>2 DEF saveLive
    <3>3. CASE endLive(l)
      BY <1>1, <3>3 DEF endLive
    <3> QED BY <1>2, <3>1, <3>2, <3>3
  <2>2. UNCHANGED <<video, key, knows, connecting, published>>
    BY <1>2 DEF saveLive, startLive, endLive
  <2> QED BY <2>1, <2>2
<1>3. ASSUME NEW l \in Live, timeIsOver(l) PROVE LiveTypeOK'
  BY <1>3 DEF timeIsOver
<1>4. CASE expireCommerceLives \/ publishCatalogue
  BY <1>1, <1>4 DEF expireCommerceLives, publishCatalogue
<1>5. ASSUME NEW s \in Studio, receiveKey(s) PROVE LiveTypeOK'
  <2>1. connecting[s] \in Live
    BY <1>5 DEF receiveKey
  <2>2. connecting' \in [Studio -> Live \cup {Nowhere}] /\ UNCHANGED <<live, published>>
    BY <1>5 DEF receiveKey
  <2>3. (key \subseteq Live /\ knows \subseteq Studio \X key)'
    BY <1>5, <2>1 DEF receiveKey
  <2>4. video' \in [Live -> [state : {"NONE", "PREPARING", "READY", "STOPPED"},
                         studio : Studio \cup {Nowhere}, valid : BOOLEAN, shutdown : BOOLEAN]]
    BY <1>5, <2>1 DEF receiveKey
  <2> QED BY <2>2, <2>3, <2>4
<1>6. ASSUME NEW s \in Studio, NEW l \in Live, prepareVideo(s, l) \/ heartbeat(s, l) PROVE LiveTypeOK'
  <2>1. video' \in [Live -> [state : {"NONE", "PREPARING", "READY", "STOPPED"},
                         studio : Studio \cup {Nowhere}, valid : BOOLEAN, shutdown : BOOLEAN]]
    <3>1. CASE prepareVideo(s, l)
      BY <3>1 DEF prepareVideo
    <3>2. CASE heartbeat(s, l)
      BY <3>2 DEF heartbeat
    <3> QED BY <1>6, <3>1, <3>2
  <2>2. connecting' \in [Studio -> Live \cup {Nowhere}] /\ UNCHANGED <<live, key, knows, published>>
    BY <1>6 DEF prepareVideo, heartbeat
  <2> QED BY <2>1, <2>2
<1>7. ASSUME NEW l \in Live, disconnect(l) \/ leaseEnds(l) PROVE LiveTypeOK'
  <2>1. CASE disconnect(l)
    BY <2>1 DEF disconnect
  <2>2. CASE leaseEnds(l)
    BY <2>2 DEF leaseEnds
  <2> QED BY <1>7, <2>1, <2>2
<1>8. ASSUME NEW l \in Live, stopVideo(l) \/ stopUnrecorded(l) PROVE LiveTypeOK'
  <2>1. CASE stopVideo(l)
    BY <2>1 DEF stopVideo, Stops
  <2>2. CASE stopUnrecorded(l)
    BY <2>2 DEF stopUnrecorded, Stops
  <2> QED BY <1>8, <2>1, <2>2
<1>9. CASE UNCHANGED liveVars
  BY <1>9 DEF liveVars
<1> QED BY <1>2, <1>3, <1>4, <1>5, <1>6, <1>7, <1>8, <1>9 DEF LiveNext

\* Only the two transactions of a studio and the worker touch what is accounted for.
LEMMA LiveStep == LiveInv /\ [LiveNext]_liveVars => LiveInv'
<1> SUFFICES ASSUME LiveInv, [LiveNext]_liveVars PROVE Accounted'
  BY LiveTypes DEF LiveInv
<1> USE DEF LiveInv, LiveTypeOK, Accounted
<1>1. CASE UNCHANGED <<video, key, knows>>
  BY <1>1
<1>2. ASSUME NEW s \in Studio, NEW l \in Live, prepareVideo(s, l) PROVE Accounted'
  <2>1. /\ \A k \in Live : k # l => video'[k] = video[k] /\ video[k].state \notin {"PREPARING", "READY"}
        /\ video'[l].state = "PREPARING" /\ video'[l].studio = s /\ UNCHANGED <<key, knows>>
    BY <1>2 DEF prepareVideo
  <2>2. l \in key => video[l].studio = s
    BY <1>2 DEF prepareVideo, Held
  <2> QED BY <2>1, <2>2
<1>3. ASSUME NEW s \in Studio, receiveKey(s) PROVE Accounted'
  <2> DEFINE l == connecting[s]
  <2>1. CASE UNCHANGED <<video, key, knows>>
    BY <2>1
  <2>2. CASE /\ StillMine(s, l) /\ key \subseteq {l} /\ key' = {l}
             /\ \/ UNCHANGED <<video, knows>>
                \/ /\ video' = [video EXCEPT ![l].state = "READY", ![l].valid = TRUE]
                   /\ knows' = knows \cup {<<s, l>>}
    <3>1. l \in Live /\ video[l].state \in {"PREPARING", "READY"} /\ video[l].studio = s
      BY <1>3, <2>2 DEF StillMine, Held, receiveKey
    <3>2. \A k \in Live : k # l => video'[k] = video[k]
      BY <2>2
    <3>3. video'[l].state \in {"PREPARING", "READY"} /\ video'[l].studio = s
      BY <2>2, <3>1
    <3>4. \A known \in knows' : known[2] = l /\ known[1] = s
      BY <2>2, <3>1
    <3> QED BY <2>2, <3>1, <3>2, <3>3, <3>4
  <2> QED BY <1>3, <2>1, <2>2 DEF receiveKey
<1>4. ASSUME NEW s \in Studio, NEW l \in Live, heartbeat(s, l) PROVE Accounted'
  BY <1>4 DEF heartbeat
<1>5. ASSUME NEW l \in Live, disconnect(l) \/ leaseEnds(l) PROVE Accounted'
  <2>1. UNCHANGED <<key, knows>>
    BY <1>5 DEF disconnect, leaseEnds
  <2>2. \A k \in Live : video'[k].state = video[k].state /\ video'[k].studio = video[k].studio
    <3>1. CASE disconnect(l)
      BY <3>1 DEF disconnect
    <3>2. CASE leaseEnds(l)
      BY <3>2 DEF leaseEnds
    <3> QED BY <1>5, <3>1, <3>2
  <2> QED BY <2>1, <2>2
<1>6. ASSUME NEW l \in Live, stopVideo(l) \/ stopUnrecorded(l) PROVE Accounted'
  BY <1>6 DEF stopVideo, stopUnrecorded, Stops, Abandoned
<1>7. ASSUME NEW l \in Live, saveLive(l) \/ startLive(l) \/ endLive(l) \/ timeIsOver(l)
      PROVE UNCHANGED <<video, key, knows>>
  BY <1>7 DEF saveLive, startLive, endLive, timeIsOver
<1>8. expireCommerceLives \/ publishCatalogue \/ UNCHANGED liveVars => UNCHANGED <<video, key, knows>>
  BY DEF expireCommerceLives, publishCatalogue, liveVars
<1> QED BY <1>1, <1>2, <1>3, <1>4, <1>5, <1>6, <1>7, <1>8 DEF LiveNext

LEMMA LiveBegins == LiveInit => LiveInv
BY DEF LiveInit, LiveInv, LiveTypeOK, Accounted, NotSaved, NoVideo

LEMMA LiveKept == LiveSpec => []LiveInv
BY LiveBegins, LiveStep, PTL DEF LiveSpec

LEMMA KeysAccounted == LiveInv => StreamKeysAreAccounted
<1> SUFFICES ASSUME LiveInv, NEW known \in knows, NEW other \in knows PROVE known = other
  BY DEF LiveInv, Accounted, StreamKeysAreAccounted
<1>1. known \in Studio \X key /\ other \in Studio \X key /\ key \subseteq Live
  BY DEF LiveInv, LiveTypeOK
<1>2. known[2] = other[2]
  BY <1>1 DEF LiveInv, Accounted
<1>3. known[1] = other[1]
  BY <1>2 DEF LiveInv, Accounted
<1> QED BY <1>1, <1>2, <1>3

(***************************************************************************)
(* LiveViews.                                                              *)
(***************************************************************************)
\* A step of LiveViews is, for each part, a step of it or a stutter.
LEMMA ViewsStep ==
  [Next]_vars => /\ [PresenceNext]_presenceVars
                 /\ [BroadcastsNext]_broadcastVars
                 /\ [CustomersNext]_customerVars
                 /\ [LiveNext]_liveVars
BY DEF Next, vars

LEMMA ViewsParts == Spec => PresenceSpec /\ BroadcastsSpec /\ CustomersSpec /\ LiveSpec
<1>1. Init => PresenceInit /\ BroadcastsInit /\ CustomersInit /\ LiveInit
  BY DEF Init
<1> QED BY <1>1, ViewsStep, PTL DEF Spec, PresenceSpec, BroadcastsSpec, CustomersSpec, LiveSpec

\* Type correctness of the four parts, for any deliveries, links, viewers, profiles and studios.
THEOREM ViewsTypes == Spec => []TypeOK
<1>1. PresenceInv /\ BroadcastsInv /\ CustomersInv /\ LiveInv => TypeOK
  BY DEF PresenceInv, BroadcastsInv, CustomersInv, LiveInv, TypeOK
<1> QED BY <1>1, ViewsParts, PresenceKept, BroadcastsKept, CustomersKept, LiveKept, PTL

\* A customer is shown no position, and is published none, of a moment at which the courier was
\* not on the way to him (locations, workday-tracking.service.ts, tracking), whatever the number
\* of deliveries, points and the length of the day.
THEOREM OwnStageOnly == Spec => []CustomersSeeTheirOwnStage
BY ViewsParts, PresenceKept, PresencePrivate, PTL

\* The last position of the courier never goes back in time, whichever entrance stores it and
\* whatever waits between its read and its upsert.
THEOREM PositionForward == Spec => LastPositionNeverGoesBack
<1>1. PresenceInv /\ [PresenceNext]_presenceVars
      => [last # None => last' # None /\ last'.at >= last.at]_presenceVars
  BY LastForward
<1> QED BY <1>1, ViewsParts, PresenceKept, PTL DEF PresenceSpec, LastPositionNeverGoesBack

\* Nothing is published to a viewer whose link or access is over, a browser gets no notice of an
\* order of anyone but the person who subscribed there last, and no parcel has two open occurrences.
THEOREM FollowersServed == Spec => []FollowersGetTheirOwn
<1>1. BroadcastsInv /\ CustomersInv => FollowersGetTheirOwn
  BY BroadcastsSafe, NoticesOwned DEF FollowersGetTheirOwn
<1> QED BY <1>1, ViewsParts, BroadcastsKept, CustomersKept, PTL

\* A stream key always has a row that leads the worker to it, and one studio knows it at most,
\* for any number of sessions and studios.
THEOREM StreamsAccounted == Spec => []StreamKeysAreAccounted
BY KeysAccounted, ViewsParts, LiveKept, PTL

=============================================================================

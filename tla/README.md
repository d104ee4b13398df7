# Verification of rastreiaUDIServer

TLA+ modules, TLC configurations and TLAPS proofs about the delivery backend in `src/`
(Fastify, PostgreSQL, Redis, one notification worker). Everything is translated from the
TypeScript and SQL sources; `PROJECT.json` maps each definition to its lines.

## 1. Inventory

| Component | State | Operations | Interacts with | Hard behaviour | What makes it correct |
|---|---|---|---|---|---|
| **deliveries** `modules/deliveries` | `deliveries`, `delivery_status_history` | create, assign, unassign, collect, start, complete, fail, cancel, external cancel | called by routes, offers, incidents, iFood; publishes to the outbox | four services write the status column, three of them without the transition table | legal moves only, one responsible courier, a history that is one chain of moves |
| **offers** `modules/offers` | `delivery_offers`, `offer_candidates`, `offer_financial_entries` | publish, accept, revise, cancel, expire, settle | moves deliveries; settled by deliveries and routes | couriers race for an offer, offers race for a courier, expiry against acceptance | one winner, money follows the work |
| **routes** `modules/routes` | `routes`, `route_stops`, stored suggestion | create, reorder, optimise, apply suggestion, start, complete stop, prioritise | moves deliveries, settles offers; disturbed by fail, cancel and iFood | stops and deliveries are two records of one fact, changed from both sides | pickups first, unique next stop, stops agree with deliveries, route can end |
| **incidents** `modules/incidents` | `incidents`, evidence | open, review, resolve, return | opened by failed deliveries; moves returns | many incidents per delivery, resolved in any order | exactly one incident runs a return |
| **notification outbox** `workers/notification-worker*`, **queue operations**, **communications** | `outbox_events`, `outbox_dead_letters`, `message_deliveries` | claim, process, settle, retry, bury, replay, callbacks | providers of WhatsApp, SMS and Web Push | leases, crashes, lost answers, late workers, reordered callbacks | at least once, no needless copies, honest message status |
| **idempotent requests** `shared/idempotency.ts`, `platform-idempotency.ts` | `idempotency_keys` | wrap every mutation | every service | concurrent retries, crashes, expiry of keys | one effect, one answer per key |
| **iFood integration** `integrations/ifood` | connections, events, external orders, commands | poll, webhook, process, import, release, command | deliveries, outbox | late, repeated and failing events, lost answers, a lost lock of the worker | nothing sent twice, the order follows iFood |
| **shifts** `modules/shifts` | slots, positions, applications, change requests, searches | accept, apply, approve, check in and out, withdraw, transfer, cancel, search | worker, availability | many handlers book one courier, each with its own copy of the check | no double booking, places shown can be taken, searches end |
| **workdays, locations, tracking links, realtime, redis** | workdays, points, last position, links, cache, sockets | answer, check in, ingest, project, issue, revoke, publish | deliveries, courier's device, customers | offline buffers, reordered points, late cache, revoked links | privacy of stages, position never goes back, tracking ends with the day |
| **driver events, customers** | occurrences; profiles, accounts, browsers, subscriptions | report, resolve; activate, sign in, subscribe, notify | realtime, outbox | shared browsers, one phone in several companies | who follows gets his own |
| **commerce checkout and inventory** `modules/commerce` | products, stock, carts, orders, PIX charges, books, files | reserve, check out, expire, approve, pay, fulfil, upload | BTG, deliveries, objects | stock and payment race with expiry and with the store | no overselling, no leak, money honoured, one charge |
| **BTG integration** `integrations/btg` | binding, authorisation session, connection | bind, authorise, charge, webhook | commerce | authorisations overlap, binding changes beside open charges | newest authorisation counts, charges keep their account |
| **commerce live sessions** `live*`, `integrations/ivs` | sessions, video, stream key | start, end, connect, heartbeat, stop | IVS | provider calls inside transactions that may be undone | no unaccounted key, videos end |
| **authentication, users, couriers, onboarding** | users, memberships, registration, sessions, papers | sign in, rotate, revoke, link, suspend, review | every request | reuse of a rotated token, announcements written late | one heir per sign-in, standing agrees |
| **reputation, billing** | disputes, blocks, rides; invoices, holds | open, review, resolve; pay, cancel, waive | offers; new operations | unlocked reads, a rule written twice, deadlines | verdicts stand, decisions are explained, blocks are earned |
| organization, stores, tenants, metrics, email, geo, database | rows of their own | guarded single updates and queries | | little | access rules and validation, not protocols |

`PROJECT.json` lists each component with its status, and every hazard with its line and the
properties that cover it.

## 2. Plan

1. *(done)* dispatch: `Deliveries`, `Marketplace`, `Routes`, `Incidents`, composed by `Dispatch`, and the
   abstract `DeliveryLifecycle` that it implements; `Outbox` and the abstract `AtLeastOnce`; `Idempotency`.
2. *(done)* `ExternalOrders`, `IfoodWorker`; `Shifts`; `LiveViews` (presence, broadcasts, customers, video);
   `Commerce` (orders and PIX, files, bank access); `People` (accounts, sessions, papers, reputation, billing).
3. *(done)* proofs of dispatch (custody, history, stops, returns, marketplace, money, routes; refinement of the lifecycle), of
   the outbox (typing, the three safety properties, the steps of its refinement), of idempotency, shifts, the iFood
   integration, `Commerce` (sales, files, bank access), `LiveViews` (presence, broadcasts, customers, video) and `People`.
4. To model: `completeRouteStop` against `cancelExternalDelivery` with one step per row lock (the one listed
   hazard without a property); viewers of a live session; reminders.

## 3. Modules

A handler that runs in one transaction and locks what it decides on is **one step**; a handler that
reads without a lock, calls a provider, or spans several transactions has one step per statement or
transaction, because others come in between. The clock, devices, providers and crashes are actions of their own.
A composition of parts that share no variable lets each part move while the others rest in their initial
state: every behaviour of a part appears, and products of independent states do not.

### Dispatch

`DispatchRecords` declares one variable per table and the helpers all services write through. A row
that does not exist has status `"NONE"`. `Advance(path, owner)` is the write of deliveries: it takes each
delivery through the statuses of its path and adds one history row per status, as `applyTransition` does once
and as `acceptDeliveryOffer`, `createRoute`, `startRoute` and others do by hand.

| Module | Source | Actions |
|---|---|---|
| `Deliveries` | `delivery.service.ts`, `delivery-customer-alert.service.ts`, the release of `ifood.integration.ts` | `createDelivery`, `releaseDelivery`, `assignDelivery`, `unassignDelivery`, `pickupTransition`, `completeDelivery`, `failDelivery`, `cancelDelivery`, `cancelExternalDelivery`, `notifyDeliveryCustomer`, `linkDeliveryCustomerWhatsapp` |
| `Marketplace` | `offer.service.ts` | `createDeliveryOffer`, `acceptDeliveryOffer`, `reviseDeliveryOfferPrice`, `cancelDeliveryOffer`, `OfferLapses` (the clock), `expireDeliveryOffers` |
| `Routes` | `route.service.ts` | `createRoute`, `reorderRoute`, `optimizeRoute`, `applyRouteSuggestion`, `startRoute`, `completePickup` and `completeDrop` (both `completeRouteStop`), `prioritizeRouteStop` |
| `Incidents` | `incident.service.ts`, `incident.repository.ts` | `openIncident`, `reviewIncident`, `resolveIncident`, `startReturn`, `completeReturn` |

`notifyDeliveryCustomer` (arrival, waiting at the gate) and `linkDeliveryCustomerWhatsapp` raise the version of a delivery
without a row in its history: versions have gaps between the rows, and a delivered iFood order may stand at a later
version than its last row. `HistoryIsTheStory` is about the chain of the rows, not about the versions they skip.
`transitionDelivery` is split by its action parameter, because each value takes other branches.
`DeliveryLifecycle` is the abstract specification: status and courier of each delivery, a handful of
moves, and the promise `Responsibility`.

### Outbox and Idempotency

`Outbox`: one step per statement of the worker. A worker keeps in memory the event and the attempts it claimed;
nothing of that is checked again when it writes. Time is the flag `due` (`available_at <= now()`). `sends`
counts what the provider accepted and `handled` what was processed to the end (both history). `AtLeastOnce` is what
the outbox promises about each event. `Idempotency`: one step per statement of `withIdempotency`; `holder` is
the row lock of a key, `Fail` a throw, a broken connection or a crash, `Purge` the retention job.

### ExternalOrders and IfoodWorker

One order of iFood. `ExternalOrders` has the order, its events, the decision whether an event advances the
order, and its delivery, reduced to DRAFT, AWAITING_COURIER, IN_ROUTE, DELIVERED, FAILED, CANCELLED.
`IfoodWorker` adds the advisory lock, poll and webhook, processing, acknowledgement, release and commands,
with crashes and a worker that goes on without its lock. Not kept: attempts of handled events, the mock mode,
batch limits. Attaching an event and selecting it is one step. A lost acknowledgement is a worker that died
before it. A webhook may bring events of other merchants, which are attached later. `next_attempt_at` may
come at any time. `releaseDue` does not look at the mode again. A refused or uncertain command can never be
requested again (`ON CONFLICT DO NOTHING`).

### Shifts

`ShiftRecords` (tables and helpers), `ShiftPositions` (slots, templates, acceptance, applications, approval,
check-in and out, missed check-ins), `ShiftChanges` (withdrawal, confirmations, transfer, cancellation, the
emergency search with its waves), `Shifts` (the clock and the worker). Eligibility and availability are an
arbitrary set. Holders of a template are fixed at its creation; "PLANNED" means that only the template exists.
Seen in the code while modelling: `approveShiftChange` checks neither the status of the position nor its
holder; the row of a search is never started again; `acceptShiftPosition` and the approval ignore the other
positions of the same slot; a courier who applied is shown ACCEPT on a place that is searched without him; a
replacement leaves the wave ACTIVE; cancelling the last position leaves the slot ACTIVE; acceptance and transfer
take slot and position in different orders.

### LiveViews

`Workdays` (the day and its sessions), `Presence` (the four entrances of a point, last position, cache,
public and customer page, beside the changing stops), `Broadcasts` (links, sockets,
publications and driver events), `Customers` (profiles, accounts, browsers, notices), `LiveVideo` (sessions, the two
transactions of a studio, the stream key). A point is named by its moment. Only the direct entrance is split
in a read without a row and a blind write: the others lock. A point whose delivery the request itself named is not covered by
the privacy property. `getMyWorkdays` closes days without revoking sessions; the worker revokes them. Behaviour worth knowing:

- the publication of a driver event reads again after its commit but may be overtaken, so that an occurrence
  may be shown OPEN after its resolution was published;
- sign-out of a customer leaves the subscription active; removing a subscription under another profile of the
  same account removes nothing; a notice in flight when another person claims the browser still reaches it
  (the property speaks of attempts that begin); `customer_sessions` rows are created nowhere in the code, so only
  the signed-in identity is modelled; an unreachable device of the staff ends an attempt before customers are notified;
- a provider request that takes effect after its timeout is not modelled (a late CreateStreamKey would leave
  the channel busy).

### Commerce

`Orders` (carts, stock, transitions, delivery and books; the worker that asks for a PIX charge and
looks for its payment), `Attachments` (an object and its row, for every kind of upload), `BankAccess` (binding,
authorisation in three transactions, connection, the payments they look at), composed by `Commerce`. Every writer
of an order holds the advisory lock of the store, so one SQL call is one step. A stale price or version is a refused request. Amounts
are EXACT, LATE or WRONG. Behaviour worth knowing:

- the UPDATE that marks a charge REQUESTED is unconditional: an order cancelled meanwhile gets a live charge, and
  its money ends in review; a returned delivery leaves its order CONFIRMED (`docs/commerce-pix.md:33`);
- in proofs, evidence, papers and photos of customers the handler of errors removes the object without looking:
  after a lost answer of COMMIT the committed row names nothing. `ShownFilesOpen` says so, and demands more of the
  catalogue. `customer.routes.ts:183-208` removes the new file when only the removal of the previous one fails. Replaced
  logos and archived images leave their objects behind;
- `refund_required` is never cleared and an unpaid REVIEW_REQUIRED never ends, so that
  `btg_activation_has_pending` blocks every later binding of the company.

In `BankAccess` REQUESTED stands for PENDING and REVIEW_REQUIRED too; cookies of the browser, the sandbox mode and the
renewal of tokens (under a row lock) are left out.

### People

`Accounts` (user, membership, registration, announcement), `Sessions` (refresh sessions of companies and of the platform),
`Papers` (onboarding documents), `Reputation` (disputes, blocks and the rule of eligibility), `Billing` (invoices and the
hold of one unit), composed by `People`. A session minted by a renewal in flight survives a revoke-all statement; two blocks on one
scope are possible. `resolveOfferDispute` answers 'A disputa já foi resolvida.' (`reputation.service.ts:196`), but it read the dispute
without a lock: a manager who read it before another resolved it writes over the outcome. What holds, and what
`VerdictStands` says, is that it stays resolved, and that its outcome is final once those have ended who were resolving
it at that moment. An operator is not shown a block on the whole company (`reputation.service.ts:267`): it counts, and he may read
that no store is eligible without a reason, or see only a rate. Rates are quotients rounded in two ways, `numeric` in SQL and
`double precision` in the list; `Decimals` and `Doubles` are the steps of each. After the invoice
whose deadline passed is paid, the unit stays blocked while another delinquent one is open. Not modelled: values and expiry of passwords and tokens, scopes of managers, invitations, suspension of a
tenant, vehicles.

### Faulty variants

A definition whose comment begins with `Mutant` (or says `faulty`) is a variant of the definition below it with a
plausible bug; no specification uses it. Putting it in place of the original makes the property named in
`PROJECT.json` fail, which shows that the property depends on that code.

## 4. Runs

| Run | Instance | Shows |
|---|---|---|
| `market` | 2 deliveries (one of iFood), 2 couriers, 2 offers, 2 payouts; 1,278,958 states | who wins, who carries and who is paid under every order of acceptances, expiries, cancellations, manual assignments and iFood cancellations |
| `route_with_market` | 1 route over 2 deliveries (one of iFood), 1 offer, 1 incident, or over 3 deliveries by itself; 235,406 states | history, stops, progress of the route and returns while handlers from outside act on routed deliveries; refinement of `DeliveryLifecycle` |
| `reorder_repeated` | 2 deliveries, repeated stop ids allowed | **violated**: see findings |
| `skipped_pickup` | 2 deliveries, one of iFood | **violated**: see findings |
| `outbox` | 2 events, 1 message, 2 workers, 1 crash, 1 lost success; 658,174 states | no copy without a fault, honest status, refinement of `AtLeastOnce` |
| `outbox_overrun` | 1 event, 2 workers, 1 crash, 1 overrun; 149,405 states | what late workers can and cannot do; every event is settled for good in the end |
| `idempotency` | 4 calls of 2 requests on one key, 1 purge; 11,811 states | one effect, one answer, no call stuck |
| `ifood` | 3 events of 4 codes, 2 workers, 2 attempts, 1 crash, 1 lost lock; 613,167 states | nothing sent twice, the order follows iFood, nothing goes back |
| `shifts` | 2 positions of 2 slots that share time, 2 couriers; 525,893 states | no double booking, places shown can be taken, active shifts go on, searches end |
| `live_views` | 1 courier, 2 deliveries, 2 points, 5 moments; 2 links, 2 sockets, 2 occurrences; 3 profiles of 2 phones, 2 orders, 1 browser; 2 live sessions, 2 studios; 436,578 states | privacy of stages, last position, end of presence; who may look; no unaccounted key, videos end |
| `people` | 1 person, 3 sessions, 2 requests at once, 3 papers, 2 disputes, 1 block, 10 rides, 2 invoices; 293,163 states | standing, heirs, decisions, explanation, earned blocks |
| `commerce` | 2 carts for 2 units; 2 uploads; 2 applications, 2 authorisations, 1 payment; 234,503 states | stock, money, charges, books and deliveries agree, the workers catch up; shown files open; bank access is sound |

**Bounds.** `MaxVersion` of dispatch stops a delivery row after 6 or 7 versions: the longest path of a routed
delivery (creation 0, assignment 2, pickup 3, start 5, urgency 6, delivery 7) fits, and so does an
assignment that is taken back and repeated before delivery. Two actors are what a race needs; a third delivery is
needed only for the order between destinations behind the next stop, hence the constraint `TwoSizes` (a route of
three has no offer, incident or cancellation beside it). Beside an
offer, incidents are about deliveries that failed (`IncidentsOfFailures`), and version 7 is kept for the end of
the longest path (`LongestPath`). `MaxAttempts = 2` has a retry and an end. `MaxCrashes`,
`MaxOverruns` and `MaxLosses` count faults, and the properties say how much damage each may explain; `Budget` of
`ifood` bounds events, commands, changes and faults together. Two positions whose slots overlap are the least that
can be booked twice; `Quiet` keeps the second to what booking needs. Five moments let a point be
captured, the stop change twice, and the point arrive before the day ends; later ones show what happens after it. A billing
month has four days with deadlines of 0 or 3 days of grace (`DelinquentAfter` is 2 where the code has 5); rates are rounded to 100
and 128 steps instead of 10^16 or more and 2^52, the coarsest that ten rides allow; the room of a gallery is 1
(6 in the code): only the boundary matters. `MaxVersion` of `BankAccess` allows three bindings: one before,
one during and one after an authorisation. A bound there: a worker holds a connection for less than seven days.
The seven days after which `maintainCommercePix` passes a payment over (`windowPasses`) end after the order has ended, which a
reservation of minutes or hours makes sure of. A video plan is used within one month (`Used` counts the sessions that were started). `Platform`,
`Entered`, `Registered` (`MCPeople`) and `OccurrencesAlone` (`MCLiveViews`) keep apart what shares nothing. Models stop when ids or
versions are used up, so deadlock is not checked. Symmetry is used only with safety properties.

**Fairness.** `setInterval` runs the ticks of the worker for ever, and a process that died is restarted by the
platform. `Outbox`: a worker that can take a step takes one, and time passes for an event nobody holds. `Idempotency`:
the server continues every request it began. `Shifts`: the job of searches, and waves run out. `Presence`: `maintainWorkdays`. `LiveVideo`:
a stop that is tried again and again succeeds. `Commerce`: weak for statements on what the worker already knows, strong for `findCharge`
and `settlePix`, which need the bank and a tick without a crash again and again, and a worker (three payments per run) that comes to each live one;
nothing of the kind is asked for a payment older than seven days, which `readPayment` does not take. Nothing is assumed of people, producers,
devices or providers. A maintenance job that fails on every tick would break these assumptions
(`notification-worker.ts:45`: an error ends the tick before the outbox is drained).

**Reading the conditional properties.** Nothing in the code keeps a late worker away from a message, so the runs
show what it costs (`NoNeedlessCopies`, `DeadLettersAreEarned`, `EventuallySettled`). `RoutesAdvance`
names the one way in which an active route gets stuck: a pending destination that failed or was cancelled by the
store keeps its stop. `ActiveShiftGoesOn` names the approval of a request made before the check-in, `VerdictStands` the manager who was
already resolving, `WorkersCatchUp` the payment older than seven days, which the code leaves to the operator
(`docs/commerce-pix.md:42`, `docs/btg-pix-webhook.md:27`). `MessageTellsTheOutcome` does not order callbacks: a late "sent" after
"delivered" is stored. `ReturnsAreTracked` is checked by TLC with one incident, so that there it says when a return is on its way;
that no two incidents run it is `ReturnsTracked`, proved for any number. `EffectOnce` holds until retention deletes an expired key.

### Findings

1. `reorderRoute` accepts a repeated stop id and then puts a pickup behind the destinations
   (`route.service.ts:326`, run `reorder_repeated`).
2. A batch from which iFood cancelled a delivery before its pickup can never start: its pickup is
   SKIPPED and `startRoute` demands COMPLETED (`route.service.ts:360`, run `skipped_pickup`).

## 5. Proofs

For every value of the constants, from the assumptions of the modules alone:

- `DispatchProofs`: `DispatchTypes`. Each handler keeps `TypeOK`, one step per action. The typing of
  `Advance` is a lemma; the renumbering of stops needs that a finite set of stops has a largest sequence number.
  Custody: most moves follow from the guards of the handlers, two do not: giving a delivery
  back must find it AWAITING_PICKUP, and a next stop may step back only for a delivery of the same
  courier. The inductive invariant `IInv == TypeOK /\ Custody` adds that ASSIGNED is never committed
  and that a delivery of a route is carried by the courier of the route, outside the queue and without an
  active offer. From it follow `RoutedDeliveriesStayOut` and, action by action, `DispatchImplementsLifecycle`:
  each step maps to a step or a stutter of `DeliveryLifecycle`. `DispatchResponsibility` is
  proved from the same moves.
  Its last sections add `Told` to `IInv` (TLC agrees that `IInv /\ Told` is invariant on the instances of `market` and
  `route_with_market`). It has one part per table, and each theorem is read off it:
  - `HistoryTold`. `Story(d)` says that the history is one chain of links to the present status, and no row is newer than the delivery.
    `ChainGrows` adds one link; that each handler's path has one or two of them follows from its guards and custody.
  - `StopsTold`, `ReturnsTracked`. `StopTrue(d)` and `ReturnTrue(d)` concern one delivery, and most handlers leave it
    calm: lemmas (`Undisturbed`, `Keeps`) state once what has to stay, and only the handlers of routes, the failures,
    and the five of incidents need an argument. `IncidentsNamed` says which delivery an incident is about.
  - `WinnersHold`, `WorkIsPaid`. `WinnerHoldsDelivery` and `PaidForTheWork` are not inductive: they say nothing of
    an open offer, which acceptance turns into a won one. `Market` adds that an open offer is of a waiting
    delivery (`OffersTrue`), that the delivery of a won one has been taken and that of a completed one delivered, that a
    delivery has one active and one completed offer at most (`OneOfEach`), and that money names offers that ended (`LedgerTrue`).
  - `RoutesGoOn`, `RoutesAdvanceInOrder`. `Progress` has two parts (TLC agrees that it is invariant on the instance of
    `route_with_market`, with and without repeated ids). `InSequence`: the stops of a route, and its stored
    suggestion, stand at different places (the last places of distinct ids differ, ranks among the pickups differ, urgency
    deals the same places out anew). `GoesOn(r)`: a next stop is before all that are pending, nothing pending in an
    active route never left (so whoever is promoted can be), and a closed route has nothing pending. Distinct places make the
    first of the pending destinations one and the same for every handler (`OneFirst`), and `NextLeaves`
    is the argument that a completed drop and a cancellation of the next stop share. That the next stop is first and that routes
    end empty needs no assumption; that pickups come first, at the places 1 .. 2n, is proved for `~RepeatedIds`: finding 1
    shows what happens without it.
- `DeliveryLifecycle`: the abstract specification keeps its types and `Responsibility`.
- `OutboxProofs`: typing, `DeadLettersAreEarned`, `NoNeedlessCopies`, `MessageTellsTheOutcome`. What makes a copy possible is a
  *chance*: an event nobody holds, an open letter, or a worker about to send. Each step of a worker, the queue
  and the producers at most passes a chance on; only a counted fault or an operator creates one, so copies are bounded
  by them. A second part, only without overruns, says that a leased event has one worker; with it each step is a step or a
  stutter of `AtLeastOnce` (`AtLeastOnceKept`: the safety part of `ImplementsAtLeastOnce`). `IInv` was checked on the
  instance of `outbox` and on one with an overrun (914,873 states) before it was proved.
  The last section is about `Idempotency`: `KeysInv` says what holding the row of a key means at each step of a call; typing,
  exclusion, one effect and one answer follow.
- `ShiftsProofs`: `PlaceTrue` says what each single place may look like (who holds it, what is asked of it, whether its
  search is on), and one handler touches one place; `NobodyBooked` and `OneBooked` say that whoever is booked had his
  other places looked at again in the same transaction. `IInv` was checked on the instance of `shifts` (525,893 states).
- `IfoodProofs`: three arguments. `Sends`: a command has one sender at most, and is not to be requested again while it has
  one or once iFood took it; only a refusal, recorded by that sender, brings it back. The session lock is not used:
  the claim alone carries it. `Emission` and `Follows`: iFood emits in order, the order of the store stands where one event says, and no
  handled one says more; the comparison of times *and* ranks is what keeps a late event from undoing this. `Attended`: a delivery is made
  and released only for an own order that is not cancelled. `IInv` was checked on the instance of `ifood` (613,167 states).
- `CommerceProofs`. Each step of `Commerce` is a step of one part or leaves it alone, so an invariant of a part by
  itself is one of the whole:
  - `CommerceFilesOpen`: `ShownFilesOpen` alone is not inductive, because an object is removed by handlers that no
    longer know what is shown. `Careful` adds that a row is written once and with its object in place, that a picture
    to be replaced is the shown one while the row of the customer is locked and is shown no more when its object goes,
    and that a handler which failed over a committed row is remembered.
  - `CommerceAccessIsSound`: `NewestFirst` orders the authorisations by the count of those begun (finite sets of the
    library), and `BoundAsCharged` ties a connection in a worker's hands, and a charge that may be paid, to the
    present binding.
  - `CommerceStock`, `CommerceMoney`, `CommerceSettles`, and with bank access `CommerceCharges`. `Units` counts pieces,
    one by one, instead of adding quantities up: what a sum by recursion yields is induction over data, while pieces of different
    orders are disjoint sets, whose cardinalities add up (`PiecesSplit`). `CountMoves` then says what one order
    that changes does to a count, `KeptAccounted` what the expiry of any number of them does. The rest is about one order
    at a time: `RowsAgree` relates its row, its charge, where the worker stands with it, the bank, the delivery and the
    books, and says in particular that a worker on its way to the POST found no request and that nothing released or
    settled still waits for money. `SaleInv` was checked on the instance of `commerce` (234,503 states).
- `LiveViewsProofs`: each part is proved by itself, and `ViewsParts` says that a behaviour of `LiveViews` is one of every part.
  The four invariants were checked on the instance of `live_views` (436,578 states).
  - `OwnStageOnly`, `PositionForward`: a point arrives late and is given to a delivery by what the rows say now. `StagesKept` is
    why that is right: a delivery that did not change after the capture can be followed now exactly if it could then.
    `PointsOwn` then follows the update through its four places (waiting for its write, stored, to be published, cached).
  - `FollowersServed`: `VisitsJoined` says that a publication looks at sockets that are in their room, so that one that passed
    the check cannot come back with another credential; `OneReported` that one report at a time is between its check and its insert;
    `GivenToItsPhone` and `RowsOfTheSubscriber` that an order is only given to the profile it names and the
    rows of a browser are of the person who subscribed there last.
  - `StreamsAccounted`: `Accounted` adds that one row at most occupies the channel and that a
    studio which knows the key is the one its row names.
- `PeopleProofs`: each part is proved by itself and the steps of `People` are steps of the parts; the invariant holds as well
  when they move at the same time. `PeopleInv` was checked on the instance of `people` (293,163 states).
  - `StandingsAgree`: between its check and its announcement the company's application relies on an active
    profile without a registration; `Standing` says that this survives whatever is written in between.
  - `OneHeir`: `Locks` and `Rotating` say that a renewal holds the lock of a session that is still alive, and `KnownLogins`
    that a new sign-in takes a number of its own.
  - `DecisionsKept`: a resolved dispute has its outcome (`Checked`, the CHECK constraint), which the guard of a write on
    what was read before meets; who decided to resolve after that is refused, so those who may still write only get fewer;
    the readiness of a courier is a function of the newest paper of each active requirement.
  - `BlocksAreEarned`: `Announced` (who is delinquent was told a day before) and `HeldForDebt` (a block in force has
    its delinquent invoice and no waiver) hold together, since whatever writes invoices ends in `reconcileFinancialHold`.
  - `EligibilityExplained`: `RoundingKeepsOrder` says that two different quotients of at most `MaxRides` rides stay in order
    when rounded to steps fine enough, so neither rounding moves a courier across a limit. The rest compares, for each viewer, the
    blocks he is shown with those the rule counts.

Only model-checked: liveness (`EventuallySettled`, `EveryCallEnds`, `SearchEnds`, `PresenceEnds`, `StreamsEnd`,
`WorkersCatchUp`, the liveness part of `ImplementsAtLeastOnce`), which needs fairness and ENABLED, out of the prover's
reach.

## 6. Not modelled

Contents of messages, addresses, names, audit rows, ETAs and distances; role checks, which only
select who may call; workday and availability lookups of the dispatch handlers, which may refuse a call but write
nothing. A handler of the dispatch family is atomic here although it takes its row locks one after the other (see the
plan). Web Push to couriers and staff is handled or fails as a whole. Organization, stores, tenants, metrics, email, geo and the
database layer are single guarded updates, queries or calls of external services without a protocol of their own: they are
listed with their reason in `PROJECT.json`. Smoke scripts, scripts that seed data and the registration of routes
(`app.ts`) decide nothing.

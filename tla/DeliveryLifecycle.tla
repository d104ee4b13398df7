------------------------- MODULE DeliveryLifecycle -------------------------
(***************************************************************************)
(* What the dispatch subsystem promises about deliveries, without offers,  *)
(* routes, stops or incidents: who is responsible for a delivery and which *)
(* moves its status may make.  Several deliveries may move in one step,    *)
(* because a route moves all of its deliveries in one transaction.         *)
(***************************************************************************)
EXTENDS DeliveryState, TLAPS

CONSTANTS Deliveries, Couriers, NoOne

VARIABLES status, courier

vars == <<status, courier>>

(* Nobody is responsible for a delivery in one of these statuses, and      *)
(* exactly one courier is in the others; a cancelled delivery keeps        *)
(* whoever it had.                                                         *)
Vacant == {"NONE", "DRAFT", "AWAITING_COURIER"}
Held == DeliveryStatus \ (Vacant \cup {"CANCELLED"})

Init ==
  /\ status = [d \in Deliveries |-> "NONE"]
  /\ courier = [d \in Deliveries |-> NoOne]

Enter(d) ==
  /\ status[d] = "NONE"
  /\ status'[d] \in {"DRAFT", "AWAITING_COURIER"}
  /\ courier'[d] = courier[d]

(* Assignment, acceptance or a route: ASSIGNED is passed within the step.  *)
Take(d) ==
  /\ status[d] = "AWAITING_COURIER"
  /\ status'[d] = "AWAITING_PICKUP"
  /\ courier'[d] \in Couriers

GiveBack(d) ==
  /\ status[d] = "AWAITING_PICKUP"
  /\ status'[d] = "AWAITING_COURIER"
  /\ courier'[d] = NoOne

(* Every other move of the table leaves the responsibility where it is.    *)
Proceed(d) ==
  /\ <<status[d], status'[d]>> \in allowedTransitions
  /\ status'[d] # "ASSIGNED"
  /\ status'[d] = "AWAITING_COURIER" => status[d] = "DRAFT"
  /\ courier'[d] = courier[d]

(* The first destination of a route leaves the store as the next stop.     *)
LeaveAsNext(d) ==
  /\ status[d] = "COLLECTED"
  /\ status'[d] = "NEXT_STOP"
  /\ courier'[d] = courier[d]

(* The one move outside the table: a next stop steps back on its way only  *)
(* when another delivery of the same courier takes its place.              *)
StepBack(d) ==
  /\ status[d] = "NEXT_STOP"
  /\ status'[d] = "IN_ROUTE"
  /\ courier'[d] = courier[d]
  /\ \E e \in Deliveries : /\ status[e] = "IN_ROUTE"
                           /\ status'[e] = "NEXT_STOP"
                           /\ courier[e] = courier[d]

Stay(d) == status'[d] = status[d] /\ courier'[d] = courier[d]

Next ==
  /\ status' \in [Deliveries -> DeliveryStatus \cup {"NONE"}]
  /\ courier' \in [Deliveries -> Couriers \cup {NoOne}]
  /\ \A d \in Deliveries :
       Enter(d) \/ Take(d) \/ GiveBack(d) \/ Proceed(d) \/ LeaveAsNext(d) \/ StepBack(d) \/ Stay(d)

Spec == Init /\ [][Next]_vars

TypeOK ==
  /\ status \in [Deliveries -> DeliveryStatus \cup {"NONE"}]
  /\ courier \in [Deliveries -> Couriers \cup {NoOne}]

(* Responsibility: a delivery nobody has taken has no courier, and from    *)
(* the moment it is taken until it ends exactly one courier answers for    *)
(* it (deliveries.courier_profile_id never dangles or lingers).            *)
Responsibility ==
  \A d \in Deliveries :
    /\ status[d] \in Vacant => courier[d] = NoOne
    /\ status[d] \in Held => courier[d] \in Couriers

(* Every variable keeps its type.                                          *)
THEOREM LifecycleTypes == Spec => []TypeOK
<1>1. Init => TypeOK
  BY DEF Init, TypeOK
<1>2. TypeOK /\ [Next]_vars => TypeOK'
  BY DEF TypeOK, Next, vars
<1> QED
  BY <1>1, <1>2, PTL DEF Spec

(* Nobody answers for a delivery that is not taken, and exactly one courier *)
(* for one that is: each of the moves keeps it.                            *)
THEOREM LifecycleResponsibility == Spec => []Responsibility
<1>1. Init => Responsibility
  BY DEF Init, Responsibility, Vacant, Held
<1>2. TypeOK /\ Responsibility /\ [Next]_vars => Responsibility'
  <2> SUFFICES ASSUME TypeOK, Responsibility, [Next]_vars, NEW d \in Deliveries
               PROVE  /\ status'[d] \in Vacant => courier'[d] = NoOne
                      /\ status'[d] \in Held => courier'[d] \in Couriers
    BY DEF Responsibility
  <2> USE DEF TypeOK, Responsibility, Vacant, Held, DeliveryStatus
  <2>1. CASE Enter(d)
    BY <2>1 DEF Enter
  <2>2. CASE Take(d)
    BY <2>2 DEF Take
  <2>3. CASE GiveBack(d)
    BY <2>3 DEF GiveBack
  <2>4. CASE Proceed(d)
    BY <2>4 DEF Proceed, allowedTransitions, Cancellable
  <2>5. CASE LeaveAsNext(d)
    BY <2>5 DEF LeaveAsNext
  <2>6. CASE StepBack(d)
    BY <2>6 DEF StepBack
  <2>7. CASE Stay(d)
    BY <2>7 DEF Stay
  <2>8. CASE UNCHANGED vars
    BY <2>8 DEF vars
  <2> QED
    BY <2>1, <2>2, <2>3, <2>4, <2>5, <2>6, <2>7, <2>8 DEF Next
<1> QED
  BY <1>1, <1>2, LifecycleTypes, PTL DEF Spec

=============================================================================

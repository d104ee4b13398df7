----------------------------- MODULE Incidents -----------------------------
(***************************************************************************)
(* The incident handlers of incident.service.ts; a failed delivery opens   *)
(* its incident itself, in failDelivery of module Deliveries.  Evidence    *)
(* files are left out.                                                     *)
(***************************************************************************)
EXTENDS DispatchRecords

(* openIncident: for a delivery in any state.                              *)
openIncident(i, d) ==
  /\ incident[i].status = "NONE"
  /\ Exists(d)
  /\ incident' = [incident EXCEPT ![i] = [status |-> "OPEN", delivery |-> d,
                                          source |-> -1, resolution |-> "NONE"]]
  /\ UNCHANGED <<delivery, history, marketVars, routeVars>>

(* reviewIncident.                                                         *)
reviewIncident(i) ==
  /\ incident[i].status = "OPEN"
  /\ incident' = [incident EXCEPT ![i].status = "UNDER_REVIEW"]
  /\ UNCHANGED <<delivery, history, marketVars, routeVars>>

resolveDuringReturn(i) ==          \* faulty: any incident that is not resolved
  /\ incident[i].status \notin {"NONE", "RESOLVED"}
  /\ incident' = [incident EXCEPT ![i].status = "RESOLVED", ![i].resolution = "OTHER"]
  /\ UNCHANGED <<delivery, history, marketVars, routeVars>>

(* resolveIncident with any resolution but RETURN_TO_STORE.                *)
resolveIncident(i) ==
  /\ incident[i].status \in {"OPEN", "UNDER_REVIEW"}
  /\ incident' = [incident EXCEPT ![i].status = "RESOLVED", ![i].resolution = "OTHER"]
  /\ UNCHANGED <<delivery, history, marketVars, routeVars>>

(* resolveIncident with RETURN_TO_STORE: the incident keeps the return in  *)
(* progress and the failed delivery starts going back.                     *)
startReturn(i) ==
  /\ incident[i].status \in {"OPEN", "UNDER_REVIEW"}
  /\ delivery[incident[i].delivery].status = "DELIVERY_FAILED"
  /\ applyTransition(incident[i].delivery, "RETURN_STARTED")
  /\ incident' = [incident EXCEPT ![i].status = "RETURN_IN_PROGRESS",
                                  ![i].resolution = "RETURN_TO_STORE"]
  /\ UNCHANGED <<marketVars, routeVars>>

(* completeReturn.                                                         *)
completeReturn(i) ==
  /\ incident[i].status = "RETURN_IN_PROGRESS"
  /\ incident[i].resolution = "RETURN_TO_STORE"
  /\ applyTransition(incident[i].delivery, "RETURNED")
  /\ incident' = [incident EXCEPT ![i].status = "RESOLVED"]
  /\ UNCHANGED <<marketVars, routeVars>>

IncidentsNext ==
  \E i \in Incidents :
    \/ \E d \in Deliveries : openIncident(i, d)
    \/ reviewIncident(i)
    \/ resolveIncident(i)
    \/ startReturn(i)
    \/ completeReturn(i)

=============================================================================

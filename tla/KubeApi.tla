------------------------------ MODULE KubeApi -------------------------------
(***************************************************************************)
(* What one call of common/kube_api_client.py does to the API server's     *)
(* objects and what it tells its caller.  A store is a function from       *)
(* object names to values, Absent where there is no object.                *)
(*                                                                         *)
(* Every method of the client wraps its HTTP call in one `try` and returns *)
(* None/False for an unexpected status and for any exception, so a caller  *)
(* cannot tell these outcomes apart:                                       *)
(*   NoFault   the server executed the request and its answer arrived;     *)
(*   "refused" an error status or no connection: no effect;                *)
(*   "lost"    the server executed it, its answer did not arrive.          *)
(***************************************************************************)
CONSTANT Faults       \* the kinds of fault a call may meet

ASSUME FaultsAssumption == Faults \subseteq {"refused", "lost"}

Absent == "absent"
NoFault == "none"

\* The ways one call may go.
CallOutcomes == Faults \cup {NoFault}

\* GET answers with the object only when it exists and the answer arrives.
GetReply(store, k, f) == f = NoFault /\ store[k] # Absent

\* POST is truthy for a created object only: a name in use gives 409.
PostReply(store, k, f) == f = NoFault /\ store[k] = Absent

PostEffect(store, k, v, f) ==
  IF f # "refused" /\ store[k] = Absent THEN [store EXCEPT ![k] = v] ELSE store

\* DELETE is truthy only when there was an object: a missing name gives 404.
DeleteReply(store, k, f) == f = NoFault /\ store[k] # Absent

DeleteEffect(store, k, f) ==
  IF f # "refused" THEN [store EXCEPT ![k] = Absent] ELSE store
=============================================================================

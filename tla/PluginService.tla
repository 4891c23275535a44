------------------------------ MODULE PluginService ------------------------------
(***************************************************************************)
(* What a browser may expect of GET /plugins/data/{tile_id}, with nothing  *)
(* of processes, pipes and locks: a request that was asked ends once; a    *)
(* result is this request's own, and it was computed under the approvals   *)
(* and secrets the request was asked with.                                 *)
(***************************************************************************)
CONSTANTS
  Requests,   \* the calls of the route
  Grants,     \* values of a plugin_states row
  None

VARIABLES
  phase,      \* "idle", "pending" or "done"
  under,      \* the grant each request was asked with
  reply       \* the result a request ended with, None when it failed

vars == <<phase, under, reply>>

Replies == [to : Requests, grant : Grants]

Init ==
  /\ phase = [r \in Requests |-> "idle"]
  /\ under = [r \in Requests |-> None]
  /\ reply = [r \in Requests |-> None]

Ask(r) ==
  /\ phase[r] = "idle"
  /\ phase' = [phase EXCEPT ![r] = "pending"]
  /\ \E g \in Grants : under' = [under EXCEPT ![r] = g]
  /\ UNCHANGED reply

(* The plugin is disabled: the request is over when it is asked.           *)
Decline(r) ==
  /\ phase[r] = "idle"
  /\ phase' = [phase EXCEPT ![r] = "done"]
  /\ \E g \in Grants : under' = [under EXCEPT ![r] = g]
  /\ UNCHANGED reply

Reply(r) ==
  /\ phase[r] = "pending"
  /\ phase' = [phase EXCEPT ![r] = "done"]
  /\ reply' = [reply EXCEPT ![r] = [to |-> r, grant |-> under[r]]]
  /\ UNCHANGED under

Fail(r) ==
  /\ phase[r] = "pending"
  /\ phase' = [phase EXCEPT ![r] = "done"]
  /\ UNCHANGED <<under, reply>>

Next == \E r \in Requests : Ask(r) \/ Decline(r) \/ Reply(r) \/ Fail(r)

Spec == Init /\ [][Next]_vars

(* Once asked, a request is answered or fails.                             *)
FairSpec == Spec /\ \A r \in Requests : WF_vars(Reply(r) \/ Fail(r))
=============================================================================

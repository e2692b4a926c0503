---------------------------- MODULE ChatRequests ----------------------------
(***************************************************************************)
(* What the chat commands promise for a request, whatever happens to the   *)
(* sidecar process: it is rejected at once, or it stays open until exactly *)
(* one outcome, and the outcome is "done" only if the query was answered.  *)
(***************************************************************************)
CONSTANT Requests

VARIABLES phase,     \* phase[r]: "idle", "running", "rejected", "done", "error"
          answered   \* requests whose query yielded its result

Init == /\ phase = [r \in Requests |-> "idle"]
        /\ answered = {}

Accept(r) == /\ phase[r] = "idle"
             /\ \E p \in {"running", "rejected"} : phase' = [phase EXCEPT ![r] = p]
             /\ UNCHANGED answered

Answer(r) == /\ phase[r] # "idle"
             /\ answered' = answered \cup {r}
             /\ UNCHANGED phase

Close(r) == /\ phase[r] = "running"
            /\ \/ r \in answered /\ phase' = [phase EXCEPT ![r] = "done"]
               \/ phase' = [phase EXCEPT ![r] = "error"]
            /\ UNCHANGED answered

Next == \E r \in Requests : Accept(r) \/ Answer(r) \/ Close(r)

Spec == Init /\ [][Next]_<<phase, answered>>
=============================================================================

-------------------------- MODULE RequestLifecycle --------------------------
(***************************************************************************)
(* What the agent channel promises about a deployment request, whatever    *)
(* the interleaving of agents, administrators, deployments and the clock:  *)
(*                                                                         *)
(*   unborn -> waiting -> launched -> ended                                *)
(*                    \-> declined                                         *)
(*                                                                         *)
(* A request is launched at most once, never after it was declined, and    *)
(* only by a human when its key requires approval.  The store is bounded:  *)
(* any step may also forget requests.                                      *)
(***************************************************************************)
CONSTANT Requests

VARIABLES
    phase,    \* where each request is
    gate,     \* who may launch it: an agent (or a human), or a human only
    starter   \* who launched it

lifecycleVars == <<phase, gate, starter>>

Init ==
    /\ phase = [r \in Requests |-> "unborn"]
    /\ gate = [r \in Requests |-> "none"]
    /\ starter = [r \in Requests |-> "none"]

\* Request r moves to p, and the requests of lost are forgotten.
Move(r, p, lost) ==
    /\ \A q \in lost : q # r /\ phase[q] # "unborn"
    /\ phase' = [q \in Requests |-> IF q \in lost THEN "forgotten"
                                    ELSE IF q = r THEN p ELSE phase[q]]

Submit(r, lost) ==
    /\ phase[r] = "unborn"
    /\ Move(r, "waiting", lost)
    /\ \E g \in {"agent", "human"} : gate' = [gate EXCEPT ![r] = g]
    /\ UNCHANGED starter

Launch(r, lost) ==
    /\ phase[r] = "waiting"
    /\ Move(r, "launched", lost)
    /\ \E who \in {gate[r], "human"} : starter' = [starter EXCEPT ![r] = who]
    /\ UNCHANGED gate

Decline(r, lost) ==
    /\ phase[r] = "waiting"
    /\ Move(r, "declined", lost)
    /\ UNCHANGED <<gate, starter>>

End(r, lost) ==
    /\ phase[r] = "launched"
    /\ Move(r, "ended", lost)
    /\ UNCHANGED <<gate, starter>>

Forget(lost) ==
    /\ \A q \in lost : phase[q] # "unborn"
    /\ phase' = [q \in Requests |-> IF q \in lost THEN "forgotten" ELSE phase[q]]
    /\ UNCHANGED <<gate, starter>>

Next ==
    \E lost \in SUBSET Requests :
        \/ Forget(lost)
        \/ \E r \in Requests : \/ Submit(r, lost)
                               \/ Launch(r, lost)
                               \/ Decline(r, lost)
                               \/ End(r, lost)

Spec == Init /\ [][Next]_lifecycleVars
=============================================================================

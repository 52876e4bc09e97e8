------------------------------ MODULE PhaseOrder ------------------------------
(***************************************************************************)
(* What the entity scheduler promises, whatever order it visits entities   *)
(* in: an entity runs its phases one after the other and only when the     *)
(* dependencies of the phase are satisfied; a status is never taken back;  *)
(* compilation goes on to code generation only when every entity has run   *)
(* all its phases, and gives up only when none of those left can run.      *)
(***************************************************************************)
EXTENDS EntityState

VARIABLE outcome  \* "running", or how the emission of the entities ended

vars == <<program, status, currentPhase, outcome>>

Init == program \in ProgramType /\ Created /\ outcome = "running"

RunPhase(e) ==
    /\ outcome = "running"
    /\ ~are_all_phases_complete(e)
    /\ is_ready_for_next_phase(e)
    /\ currentPhase' = [currentPhase EXCEPT ![e] = NextPhase(e)]
    /\ status' \in [Entity -> EntityStatus]
    /\ \A x \in Entity : status'[x] >= status[x]
    /\ UNCHANGED <<program, outcome>>

Finalise ==
    /\ outcome = "running"
    /\ \A e \in Entity : are_all_phases_complete(e)
    /\ outcome' = "finalised"
    /\ UNCHANGED entityVars

GiveUp ==
    /\ outcome = "running"
    /\ \E e \in Entity : ~are_all_phases_complete(e)
    /\ \A e \in Entity : are_all_phases_complete(e) \/ ~is_ready_for_next_phase(e)
    /\ outcome' = "unresolved"
    /\ UNCHANGED entityVars

(* An error in the program stops the compiler.                             *)
Fail ==
    /\ outcome = "running"
    /\ outcome' = "failed"
    /\ UNCHANGED entityVars

Next == (\E e \in Entity : RunPhase(e)) \/ Finalise \/ GiveUp \/ Fail

Spec == Init /\ [][Next]_vars
==============================================================================

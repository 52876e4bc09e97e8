---------------------------- MODULE EntityScheduler ----------------------------
(***************************************************************************)
(* The loop of QatSitter::initialise that emits the entities of a program. *)
(* Pass after pass it visits every entity in order; an entity that has     *)
(* phases left and whose dependencies allow it runs one phase.  The loop   *)
(* ends when a pass finds nothing incomplete, or advances nothing.         *)
(*                                                                         *)
(* One action is one turn of the inner loop (one entity visited) or the    *)
(* test of the outer one.                                                  *)
(***************************************************************************)
EXTENDS EntityState

VARIABLES
    emitted,                \* the phases of an entity whose work has been done
    brought,                \* the bring groups with isAlreadyBrought
    cursor,                 \* the entity visited next
    atleastOneEntityDone,   \* this pass has run a phase
    hasIncompleteEntities,  \* this pass has met an incomplete entity
    iterations,             \* EntityState::iterations
    outcome                 \* "running", or how the loop ended

loopVars == <<cursor, atleastOneEntityDone, hasIncompleteEntities, iterations>>
vars == <<program, status, currentPhase, emitted, brought, loopVars, outcome>>

Init ==
    /\ program \in Programs
    /\ Created
    /\ emitted = [e \in Entity |-> {}]
    /\ brought = {g \in Groups : program.target[g] = 0}
    /\ cursor = 1
    /\ atleastOneEntityDone = FALSE
    /\ hasIncompleteEntities = FALSE
    /\ iterations = [e \in Entity |-> 0]
    /\ outcome = "running"

-----------------------------------------------------------------------------
(* The effect of do_phase(p) of an entity's node.                          *)

(* The declaration's IR can be found by name in its module.                *)
Registered(e) ==
    IF program.kind[e] = "bringEntity" THEN e \in brought
    ELSE \/ program.kind[e] = "broughtModule"
         \/ CreationPhase[program.kind[e]] \in emitted[e]

DoesWork(e, p) == e \in program.off => SwitchedOffWork(program.kind[e], p)

(* Mutant: handle_brings runs for the first entry of the sentence only.    *)
NowBroughtByFirst(e) ==
    IF program.kind[e] # "bringEntity" \/ program.node[e] # e THEN {}
    ELSE {g \in Groups \ brought :
            /\ program.node[g] = e
            /\ program.kind[program.target[g]] \notin Unbringable
            /\ Registered(program.target[g])}

(* handle_brings runs for the whole sentence, whichever of its entries the *)
(* scheduler advances, and passes over what it does not find.              *)
NowBrought(e) ==
    IF program.kind[e] # "bringEntity" THEN {}
    ELSE {g \in Groups \ brought :
            /\ program.node[g] = program.node[e]
            /\ program.kind[program.target[g]] \notin Unbringable
            /\ Registered(program.target[g])}

(* A function whose define condition is false calls complete_manually.     *)
CompletesManually(e, p) ==
    program.kind[e] \in FunctionKind /\ p = 1 /\ e \in program.off

(* do_phase sets statuses first; do_next_phase then sets currentPhase, in  *)
(* effect undoing that of complete_manually, and the status of its plan.   *)
do_next_phase(e) ==
    LET p == NextPhase(e)
        doneByNode == NowBrought(e) \cup {x \in {e} : CompletesManually(x, p)}
    IN  /\ emitted' = [emitted EXCEPT ![e] = IF DoesWork(e, p) THEN @ \cup {p} ELSE @]
        /\ brought' = brought \cup NowBrought(e)
        /\ currentPhase' = [currentPhase EXCEPT ![e] = p]
        /\ status' = [x \in Entity |->
                        LET s == IF x \in doneByNode THEN StatusComplete ELSE status[x]
                        IN  IF x = e THEN StatusOn(program.kind[e], p, s) ELSE s]

-----------------------------------------------------------------------------
Visit(e) ==
    /\ outcome = "running"
    /\ cursor = e
    /\ cursor' = e + 1
    /\ iterations' = [iterations EXCEPT ![e] = @ + 1]
    /\ UNCHANGED <<program, outcome>>

SkipComplete(e) ==
    /\ Visit(e)
    /\ are_all_phases_complete(e)
    /\ UNCHANGED <<status, currentPhase, emitted, brought,
                   atleastOneEntityDone, hasIncompleteEntities>>

Wait(e) ==
    /\ Visit(e)
    /\ ~are_all_phases_complete(e)
    /\ ~is_ready_for_next_phase(e)
    /\ hasIncompleteEntities' = TRUE
    /\ UNCHANGED <<status, currentPhase, emitted, brought, atleastOneEntityDone>>

Advance(e) ==
    /\ Visit(e)
    /\ ~are_all_phases_complete(e)
    /\ is_ready_for_next_phase(e)
    /\ do_next_phase(e)
    /\ atleastOneEntityDone' = TRUE
    /\ hasIncompleteEntities' = (hasIncompleteEntities \/ ~are_all_phases_complete(e)')

(* do_phase meets an error in the program: Ctx::Error exits the compiler.  *)
PhaseError(e) ==
    /\ outcome = "running"
    /\ cursor = e
    /\ ~are_all_phases_complete(e)
    /\ is_ready_for_next_phase(e)
    /\ outcome' = "failed"
    /\ UNCHANGED <<program, status, currentPhase, emitted, brought, loopVars>>

(* Mutant: resets the flags and does not go back to the first entity.      *)
NextPassKeepsCursor ==
    /\ outcome = "running"
    /\ cursor = NumEntities + 1
    /\ hasIncompleteEntities /\ atleastOneEntityDone
    /\ atleastOneEntityDone' = FALSE
    /\ hasIncompleteEntities' = FALSE
    /\ UNCHANGED <<program, status, currentPhase, emitted, brought, cursor,
                   iterations, outcome>>

(* Mutant: resets neither the flags nor the place.                         *)
NextPassResetsNothing ==
    /\ outcome = "running"
    /\ cursor = NumEntities + 1
    /\ hasIncompleteEntities /\ atleastOneEntityDone
    /\ UNCHANGED vars

NextPass ==
    /\ outcome = "running"
    /\ cursor = NumEntities + 1
    /\ hasIncompleteEntities /\ atleastOneEntityDone
    /\ cursor' = 1
    /\ atleastOneEntityDone' = FALSE
    /\ hasIncompleteEntities' = FALSE
    /\ UNCHANGED <<program, status, currentPhase, emitted, brought, iterations, outcome>>

(* After the loop: the errors of the entities left, or code generation.    *)
EndLoop ==
    /\ outcome = "running"
    /\ cursor = NumEntities + 1
    /\ ~(hasIncompleteEntities /\ atleastOneEntityDone)
    /\ outcome' = IF ~atleastOneEntityDone /\ hasIncompleteEntities
                  THEN "unresolved" ELSE "finalised"
    /\ UNCHANGED <<program, status, currentPhase, emitted, brought, loopVars>>

Ended == outcome # "running" /\ UNCHANGED vars

Next ==
    \/ \E e \in Entity : SkipComplete(e) \/ Wait(e) \/ Advance(e) \/ PhaseError(e)
    \/ NextPass
    \/ EndLoop
    \/ Ended

(* The compiler is one sequential program: it goes on while it can.        *)
Spec == Init /\ [][Next]_vars /\ WF_vars(Next)

-----------------------------------------------------------------------------
(* Every variable has its type.                                            *)
TypeOK ==
    /\ program \in ProgramType
    /\ status \in [Entity -> EntityStatus]
    /\ currentPhase \in [Entity -> 0 .. PhaseLast]
    /\ emitted \in [Entity -> SUBSET Phase]
    /\ brought \subseteq Groups
    /\ cursor \in 1 .. NumEntities + 1
    /\ atleastOneEntityDone \in BOOLEAN
    /\ hasIncompleteEntities \in BOOLEAN
    /\ iterations \in [Entity -> Nat]
    /\ outcome \in {"running", "finalised", "unresolved", "failed"}

(* A phase that has run had the dependencies tied to it satisfied, and     *)
(* they still are: no later phase, complete_manually or bring of another   *)
(* entity takes back the status the phase relied on.                       *)
PhasesHaveDeps ==
    \A d \in program.deps :
        d.phase <= currentPhase[d.from] => Satisfied(d)

(* No visit lowers the status of any entity, although do_phase,            *)
(* complete_manually and do_next_phase all assign it.                      *)
StatusNeverFalls == [][\A e \in Entity : status'[e] >= status[e]]_vars

(* The error "could not be finalised as its dependencies were not resolved *)
(* properly" is never given for a program that could have gone on: every   *)
(* entity left waits, for its next phase, for another entity that is left, *)
(* so they wait in a circle.                                               *)
UnresolvedIsCircularWait ==
    outcome = "unresolved" =>
        LET left == {e \in Entity : ~are_all_phases_complete(e)}
        IN  /\ left # {}
            /\ \A e \in left : \E d \in program.deps :
                    /\ d.from = e /\ d.on \in left
                    /\ d.phase = NextPhase(e)
                    /\ ~Satisfied(d)

(* What the statuses come to with no bring sentence: an entity's status is *)
(* a matter of the phase it has reached.                                   *)
HasNoBrings == \A e \in Entity : program.kind[e] # "bringEntity"

StatusAfter(e, p) ==
    IF p = PlanOf(e).maxPhase
    THEN IF PlanOf(e).supportsChildren THEN StatusChildrenPartial ELSE StatusComplete
    ELSE IF p >= 1 /\ e \in program.off /\ program.kind[e] \in FunctionKind THEN StatusComplete
    ELSE IF program.kind[e] = "structType" THEN p
    ELSE IF PlanOf(e).phaseToPartial \in 1 .. p THEN StatusPartial ELSE StatusNone

(* The dependency is not met when the entities are in the phases at.       *)
Blocks(d, at) ==
    LET have == StatusAfter(d.on, at[d.on])
    IN  CASE d.type = "partial" -> have = StatusNone
          [] d.type = "complete" -> have < StatusComplete
          [] OTHER -> IF program.kind[d.on] = "structType" THEN have < StatusChildrenPartial
                      ELSE have < StatusComplete

(* The phases in which no entity can go on; no plan has more than four.    *)
AtRest(at) ==
    \A e \in Entity :
        /\ at[e] <= PlanOf(e).maxPhase
        /\ at[e] # PlanOf(e).maxPhase =>
              \E d \in program.deps : d.from = e /\ d.phase = at[e] + 1 /\ Blocks(d, at)

(* With no bring sentence the outcome does not depend on the order of the  *)
(* modules or of the declarations in them: of all the phases in which no   *)
(* entity can go on, the loop ends in the least, as it would in any order. *)
OutcomeIsFixpoint ==
    HasNoBrings /\ outcome \in {"finalised", "unresolved"} =>
        /\ AtRest(currentPhase)
        /\ \A at \in [Entity -> 0 .. 4] :
              AtRest(at) => \A e \in Entity : currentPhase[e] <= at[e]
        /\ outcome = "finalised" <=> \A e \in Entity : currentPhase[e] = PlanOf(e).maxPhase

(* What an entity stands for is not there, and must not be: its define     *)
(* condition is false, or it is a group that names such an entity, or one  *)
(* handle_brings does not look for.                                        *)
Absent(e) ==
    \/ e \in program.off
    \/ /\ e \in Groups /\ program.target[e] # 0
       /\ \/ program.target[e] \in program.off
          \/ program.kind[program.target[e]] \in Unbringable

(* When a phase runs, every entity it depends on can be found by name in   *)
(* its module, unless it is absent from the program: the statuses the      *)
(* scheduler tests stand for IR that exists, also through a bring group.   *)
NeedsExist ==
    \A d \in program.deps :
        d.phase <= currentPhase[d.from] => Registered(d.on) \/ Absent(d.on)

(* When code generation starts, no group of a bring sentence was passed    *)
(* over: handle_brings ignores what it does not find, so it must run again *)
(* once the target is there.                                               *)
BringsSettled ==
    outcome = "finalised" => \A g \in Groups : g \in brought \/ Absent(g)

(* The loop ends, also for programs whose entities wait for each other.    *)
Termination == <>(outcome # "running")

(* The loop implements the promise of PhaseOrder.                          *)
Abstract ==
    INSTANCE PhaseOrder WITH
        program      <- program,
        status       <- status,
        currentPhase <- currentPhase,
        outcome      <- outcome
ImplementsPhaseOrder == Abstract!Spec

-----------------------------------------------------------------------------
(* A function whose define condition is false is not created: the error    *)
(* text of FunctionPrototype::do_phase speaks of "the condition for        *)
(* defining a function" and complete_manually means to skip what is left.  *)
SwitchedOffIsNotEmitted ==
    \A e \in program.off : ~Registered(e)

(* A program that names what cannot be brought is not compiled:            *)
(* handle_brings has an error for what it does not find in the module.     *)
UnfoundIsReported == outcome = "finalised" => Groups \subseteq brought
==============================================================================

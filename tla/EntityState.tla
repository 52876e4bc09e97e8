----------------------------- MODULE EntityState -----------------------------
(***************************************************************************)
(* The scheduling state of the entities of a qat program, ir::EntityState. *)
(*                                                                         *)
(* Every top-level declaration (struct type, function, bring, ...) becomes *)
(* one EntityState in Mod::entityEntries.  The declaration is emitted in   *)
(* phases, by the plan of its kind (Declarations).  An entity waits for    *)
(* others through dependencies, each tied to the phase that needs it.      *)
(*                                                                         *)
(* Entities are numbered in the order in which the compiler visits them:   *)
(* the modules of Mod::allModules, each with its entityEntries in order.   *)
(***************************************************************************)
EXTENDS Declarations

CONSTANTS
    NumEntities,  \* entities of all modules
    Programs      \* the programs considered, a set of ProgramType records

ASSUME NumEntitiesAssumption == NumEntities \in Nat

Entity == 1 .. NumEntities

-----------------------------------------------------------------------------
(* A program, as node_create_entities and node_update_dependencies leave   *)
(* it.  addDependency drops a dependency of an entity on itself and a      *)
(* repeated one, so the dependencies form a set.                           *)
Dependency ==
    {d \in [from : Entity, on : Entity, type : DependType, phase : Phase] :
        d.from # d.on}

(* The entries of BringPaths have no node, hence no dependencies.  The     *)
(* implementation of a skill has no name: it is only met by a method call. *)
LegalDependencies(kind, deps) ==
    \A d \in deps :
        /\ <<d.type, d.phase>> \in Uses[kind[d.from]]
        /\ kind[d.on] = "doneSkill" => d.type = "partial"

(* A bring sentence has an unnamed entry, its node, created first, and a   *)
(* named one for each of its groups.  The unnamed entry depends on the     *)
(* groups that name a module, every other group on the entity it names,    *)
(* which is not one brought by another sentence.                           *)
LegalBrings(pr) ==
    \A e \in Entity :
        LET n == pr.node[e]
            t == pr.target[e]
        IN  IF pr.kind[e] # "bringEntity" THEN n = e /\ t = 0
            ELSE /\ pr.kind[n] = "bringEntity" /\ pr.node[n] = n /\ n <= e
                 /\ n = e => t = 0 /\ \A d \in pr.deps : d.on # e
                 /\ n # e /\ t = 0 =>
                       [from |-> n, on |-> e, type |-> "complete", phase |-> 1] \in pr.deps
                 /\ t # 0 =>
                       /\ pr.kind[t] \notin {"bringEntity", "broughtModule", "doneSkill"}
                       /\ [from |-> e, on |-> t, type |-> "complete", phase |-> 1] \in pr.deps

(* off: the entities whose define condition is false.                      *)
(* node: for an entry of a bring sentence, the unnamed entry of the        *)
(* sentence, itself included; any other entity is its own.                 *)
(* target: for a group of a bring sentence, the entity it names; 0 for a   *)
(* group that names a module.                                              *)
ProgramType ==
    {pr \in [kind : [Entity -> Kind], off : SUBSET Entity, deps : SUBSET Dependency,
              node : [Entity -> Entity], target : [Entity -> Entity \cup {0}]] :
        /\ LegalDependencies(pr.kind, pr.deps)
        /\ LegalBrings(pr)
        /\ \A e \in pr.off : pr.kind[e] \in Conditional}

ASSUME ProgramsAssumption == Programs \subseteq ProgramType

VARIABLES
    program,       \* the program being compiled, chosen once
    status,        \* EntityState::status
    currentPhase   \* EntityState::currentPhase

entityVars == <<program, status, currentPhase>>

PlanOf(e) == Plan[program.kind[e]]

Groups == {g \in Entity : program.kind[g] = "bringEntity" /\ program.node[g] # g}

(* As create_entity leaves the entities.  A group that names a module is   *)
(* brought as soon as it is created, and BringPaths creates its named      *)
(* entries complete.                                                       *)
Created ==
    /\ status = [e \in Entity |->
                    IF \/ program.kind[e] = "broughtModule"
                       \/ e \in Groups /\ program.target[e] = 0
                    THEN StatusComplete ELSE StatusNone]
    /\ currentPhase = [e \in Entity |->
                    IF program.kind[e] = "broughtModule" THEN 1 ELSE NoPhase]

are_all_phases_complete(e) == currentPhase[e] = PlanOf(e).maxPhase

(* Mutant: does not ask whether the entity has children.                   *)
RequirementOfChildren(d) ==
    IF d.type = "partial" THEN StatusPartial
    ELSE IF d.type = "childrenPartial" THEN StatusChildrenPartial ELSE StatusComplete

(* The least status of d.on that satisfies dependency d.                   *)
Requirement(d) ==
    IF d.type = "partial" THEN StatusPartial
    ELSE IF d.type = "childrenPartial" /\ PlanOf(d.on).supportsChildren
         THEN StatusChildrenPartial ELSE StatusComplete

Satisfied(d) == status[d.on] >= Requirement(d)

NextPhase(e) == get_next_phase(currentPhase[e])

(* Mutant: looks at the dependencies of the phase that has run.            *)
is_ready_for_current_phase(e) ==
    \A d \in program.deps :
        d.from = e /\ d.phase = currentPhase[e] => Satisfied(d)

(* Mutant: waits for all dependencies, whatever their phase.               *)
is_ready_for_all_phases(e) ==
    \A d \in program.deps : d.from = e => Satisfied(d)

(* Only the dependencies tied to the next phase are looked at.             *)
is_ready_for_next_phase(e) ==
    \A d \in program.deps :
        d.from = e /\ d.phase = NextPhase(e) => Satisfied(d)
==============================================================================

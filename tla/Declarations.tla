----------------------------- MODULE Declarations -----------------------------
(***************************************************************************)
(* The kinds of top-level declarations of a qat program, as the entity     *)
(* scheduler sees them: the phases their create_entity plans, the phases   *)
(* their update_entity_dependencies ties dependencies to, and what their   *)
(* do_phase leaves behind.                                                 *)
(***************************************************************************)
EXTENDS Naturals

(* Maybe<EmitPhase>: 0 stands for None and 9 for phase_last.               *)
NoPhase   == 0
PhaseLast == 9
Phase     == 1 .. PhaseLast

get_next_phase(p) == IF p < 8 THEN p + 1 ELSE PhaseLast

(* EntityStatus is ordered: the code compares statuses with <.             *)
StatusNone            == 0
StatusPartial         == 1
StatusComplete        == 2
StatusChildrenPartial == 3
EntityStatus          == StatusNone .. StatusChildrenPartial

DependType == {"partial", "complete", "childrenPartial"}

(* "single" are the declarations emitted in one phase: choice and opaque   *)
(* types, type definitions, regions, globals and generic structs; and so   *)
(* is "flagType", which stands for the ones that cannot be brought by name *)
(* (flag types, generic skills, generic type definitions).                 *)
(* "prototype" is a function with no body, "doneSkill" the implementation  *)
(* of a skill, "bringEntity" an entry of a bring sentence, "broughtModule" *)
(* a file or folder brought under a name.                                  *)
FunctionKind == {"function", "prototype", "genericFunction", "prerunFunction"}
Kind == FunctionKind \cup {"structType", "mixType", "skill", "doneSkill", "single",
                           "flagType", "bringEntity", "broughtModule"}

-----------------------------------------------------------------------------
(* The plan of an entity, set by its create_entity.                        *)

(* As add_entity makes it, with the phaseToPartial that may be set after.  *)
Entry(maxPhase, phaseToPartial) ==
    [maxPhase |-> maxPhase, phaseToPartial |-> phaseToPartial,
     phaseToCompletion |-> NoPhase, phaseToChildrenPartial |-> NoPhase,
     supportsChildren |-> FALSE]

StructPlan ==
    [maxPhase |-> 4, phaseToPartial |-> 1, phaseToCompletion |-> 2,
     phaseToChildrenPartial |-> 3, supportsChildren |-> TRUE]

FunctionPlan(k)    == Entry(IF k = "function" THEN 3 ELSE 2, NoPhase)
PrerunFunctionPlan == Entry(2, NoPhase)
MixPlan            == Entry(2, NoPhase)
SkillPlan          == Entry(2, 1)
DoSkillPlan        == Entry(3, 2)
SinglePlan         == Entry(1, NoPhase)

Plan ==
    [k \in Kind |->
        IF k = "structType" THEN StructPlan
        ELSE IF k \in {"function", "prototype", "genericFunction"} THEN FunctionPlan(k)
        ELSE IF k = "prerunFunction" THEN PrerunFunctionPlan
        ELSE IF k = "mixType" THEN MixPlan
        ELSE IF k = "skill" THEN SkillPlan
        ELSE IF k = "doneSkill" THEN DoSkillPlan
        ELSE SinglePlan]

-----------------------------------------------------------------------------
(* The dependencies update_entity_dependencies may record, as <<type,      *)
(* phase>>.  Each declaration asks "complete"; a pointer type turns that   *)
(* into "partial", a method call or a constructor call into "partial" or   *)
(* "childrenPartial".                                                      *)
TypesIn(phases)  == {"complete", "partial"} \X phases
BodiesIn(phases) == DependType \X phases

(* Define condition; members; the prototypes of methods; their bodies.     *)
StructUses == TypesIn(1 .. 3) \cup BodiesIn({4})

(* Define condition; signature; body, which a generic function reads with  *)
(* its signature.                                                          *)
FunctionUses(k) ==
    TypesIn({1, 2}) \cup (IF k = "function" THEN BodiesIn({3})
                          ELSE IF k = "genericFunction" THEN BodiesIn({2}) ELSE {})

PrerunFunctionUses == TypesIn({1, 2})

(* The variants, and not the define condition.                             *)
MixUses == TypesIn({2})

(* Type definitions; the signatures of the methods.                        *)
SkillUses == TypesIn({1, 2})

(* Skill, target and type definitions; method prototypes; their bodies.    *)
DoSkillUses == TypesIn({1, 2}) \cup BodiesIn({3})

(* A global has a value, any expression.                                   *)
SingleUses == BodiesIn({1})

BringUses == {<<"complete", 1>>}

Uses ==
    [k \in Kind |->
        IF k = "structType" THEN StructUses
        ELSE IF k \in {"function", "prototype", "genericFunction"} THEN FunctionUses(k)
        ELSE IF k = "prerunFunction" THEN PrerunFunctionUses
        ELSE IF k = "mixType" THEN MixUses
        ELSE IF k = "skill" THEN SkillUses
        ELSE IF k = "doneSkill" THEN DoSkillUses
        ELSE IF k = "single" THEN SingleUses
        ELSE IF k = "flagType" THEN TypesIn({1})
        ELSE IF k = "bringEntity" THEN BringUses
        ELSE {}]

-----------------------------------------------------------------------------
(* The kinds with a define condition.                                      *)
Conditional == FunctionKind \cup {"structType", "mixType", "single"}

(* Mutant: the declaration is added together with its definition.          *)
CreationPhaseIsLast == [k \in Kind |-> Plan[k].maxPhase]

(* The phase whose do_phase adds to the module what a dependent looks up:  *)
(* for struct and mix types the opaque type, for functions the prototype,  *)
(* for the implementation of a skill its methods.                          *)
CreationPhase ==
    [k \in Kind |-> IF k \in FunctionKind \cup {"doneSkill"} THEN 2 ELSE 1]

(* With a false define condition types return early from every phase;      *)
(* functions return early from phase 1 only.                               *)
SwitchedOffWork(k, p) == k \in FunctionKind /\ p # 1

(* handle_brings does not look for these in the module it brings from.     *)
Unbringable == {"skill", "flagType"}

-----------------------------------------------------------------------------
(* Mutant: the last phase completes, also when children come after.        *)
StatusOnCompletesLast(k, p, old) ==
    IF p = Plan[k].maxPhase THEN StatusComplete
    ELSE IF p = Plan[k].phaseToPartial THEN StatusPartial
    ELSE IF p = Plan[k].phaseToCompletion THEN StatusComplete
    ELSE IF p = Plan[k].phaseToChildrenPartial THEN StatusChildrenPartial
    ELSE old

(* The status do_next_phase assigns when an entity of kind k ends phase p, *)
(* old when it assigns none.                                               *)
StatusOn(k, p, old) ==
    IF p = Plan[k].phaseToPartial THEN StatusPartial
    ELSE IF p = Plan[k].phaseToCompletion THEN StatusComplete
    ELSE IF p = Plan[k].phaseToChildrenPartial THEN StatusChildrenPartial
    ELSE IF p = Plan[k].maxPhase /\ p # PhaseLast
         THEN IF Plan[k].supportsChildren THEN StatusChildrenPartial ELSE StatusComplete
    ELSE old
==============================================================================

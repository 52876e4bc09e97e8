------------------------ MODULE EntityScheduler_proofs ------------------------
(***************************************************************************)
(* Theorems about the entity scheduler, for any number of entities and any *)
(* set of programs.                                                        *)
(*                                                                         *)
(* The inductive invariant adds to the type invariant what ties a status   *)
(* to the phase an entity has reached (StatusFits), and what the two flags *)
(* of a pass say of the entities it has visited (PassInv).  The outcome is *)
(* compared with all the phases in which nothing could go on (LeastInv).   *)
(***************************************************************************)
EXTENDS EntityScheduler, TLAPS

(* The statuses an entity of kind k may have after phase c.                *)
StatusFits(k, c, s) ==
    /\ k = "structType" => s = IF c = 4 THEN 3 ELSE c
    /\ k = "skill" => s = c
    /\ k = "doneSkill" => s = IF c < 2 THEN 0 ELSE c - 1
    /\ k \notin {"structType", "skill", "doneSkill"} =>
            s \in {0, 2} /\ (c = Plan[k].maxPhase => s = 2)

PhaseInv ==
    \A e \in Entity :
        /\ currentPhase[e] <= PlanOf(e).maxPhase
        /\ StatusFits(program.kind[e], currentPhase[e], status[e])

PassInv ==
    /\ outcome = "running" =>
        /\ ~atleastOneEntityDone =>
              \A e \in 1 .. cursor - 1 :
                  are_all_phases_complete(e) \/ ~is_ready_for_next_phase(e)
        /\ ~hasIncompleteEntities => \A e \in 1 .. cursor - 1 : are_all_phases_complete(e)
        /\ hasIncompleteEntities => \E e \in 1 .. cursor - 1 : ~are_all_phases_complete(e)
    /\ outcome = "finalised" => \A e \in Entity : are_all_phases_complete(e)
    /\ outcome = "unresolved" =>
        /\ \E e \in Entity : ~are_all_phases_complete(e)
        /\ \A e \in Entity : are_all_phases_complete(e) \/ ~is_ready_for_next_phase(e)

IInv == TypeOK /\ PhaseInv /\ PhasesHaveDeps /\ PassInv

-----------------------------------------------------------------------------
(* The plans of the kinds, as create_entity sets them.                     *)
LEMMA PlanFacts ==
    ASSUME NEW k \in Kind
    PROVE  /\ Plan[k].maxPhase \in 1 .. 4
           /\ Plan[k].supportsChildren \in BOOLEAN
           /\ k = "structType" =>
                /\ Plan[k].maxPhase = 4 /\ Plan[k].phaseToPartial = 1
                /\ Plan[k].phaseToCompletion = 2 /\ Plan[k].phaseToChildrenPartial = 3
                /\ Plan[k].supportsChildren = TRUE
           /\ k # "structType" =>
                /\ Plan[k].phaseToCompletion = 0 /\ Plan[k].phaseToChildrenPartial = 0
                /\ Plan[k].supportsChildren = FALSE
           /\ k = "skill" => Plan[k].maxPhase = 2 /\ Plan[k].phaseToPartial = 1
           /\ k = "doneSkill" => Plan[k].maxPhase = 3 /\ Plan[k].phaseToPartial = 2
           /\ k \notin {"structType", "skill", "doneSkill"} => Plan[k].phaseToPartial = 0
<1>1. CASE k = "structType"
    <2>1. Plan[k] = [maxPhase |-> 4, phaseToPartial |-> 1, phaseToCompletion |-> 2,
                     phaseToChildrenPartial |-> 3, supportsChildren |-> TRUE]
        BY <1>1 DEF Plan, StructPlan
    <2> QED
        BY <1>1, <2>1
<1>2. CASE k # "structType"
    <2> DEFINE max == IF k \in {"function", "doneSkill"} THEN 3
                      ELSE IF k \in FunctionKind \cup {"mixType", "skill"} THEN 2
                      ELSE 1
               partial == IF k = "skill" THEN 1
                          ELSE IF k = "doneSkill" THEN 2 ELSE NoPhase
    <2>1. Plan[k] = [maxPhase |-> max, phaseToPartial |-> partial,
                     phaseToCompletion |-> NoPhase, phaseToChildrenPartial |-> NoPhase,
                     supportsChildren |-> FALSE]
        <3>1. Plan[k] = Entry(max, partial)
            <4>1. k = "function" => FunctionPlan(k) = Entry(3, NoPhase)
                BY DEF FunctionPlan
            <4>2. k # "function" => FunctionPlan(k) = Entry(2, NoPhase)
                BY DEF FunctionPlan
            <4> QED
                BY <1>2, <4>1, <4>2
                   DEF Plan, FunctionKind, MixPlan, PrerunFunctionPlan, SkillPlan,
                       DoSkillPlan, SinglePlan
        <3> QED
            BY <3>1 DEF Entry
    <2>2. /\ max \in 1 .. 4
          /\ k = "skill" => max = 2 /\ partial = 1
          /\ k = "doneSkill" => max = 3 /\ partial = 2
          /\ k \notin {"skill", "doneSkill"} => partial = 0
        BY DEF FunctionKind, NoPhase
    <2> HIDE DEF max, partial
    <2> QED
        BY <1>2, <2>1, <2>2 DEF NoPhase
<1> QED
    BY <1>1, <1>2

(* Ending the next phase of its plan keeps a status that fits, and never   *)
(* lowers it.                                                              *)
LEMMA StatusOnFits ==
    ASSUME NEW k \in Kind, NEW c \in Nat, c < Plan[k].maxPhase,
           NEW s \in EntityStatus, StatusFits(k, c, s)
    PROVE  /\ StatusOn(k, c + 1, s) \in EntityStatus
           /\ StatusFits(k, c + 1, StatusOn(k, c + 1, s))
           /\ StatusOn(k, c + 1, s) >= s
<1> DEFINE max == Plan[k].maxPhase
           partial == Plan[k].phaseToPartial
           completion == Plan[k].phaseToCompletion
           childrenPartial == Plan[k].phaseToChildrenPartial
           supports == Plan[k].supportsChildren
           now == StatusOn(k, c + 1, s)
<1>1. max \in 1 .. 4 /\ s \in 0 .. 3
    BY PlanFacts DEF EntityStatus, StatusNone, StatusChildrenPartial
<1>2. now = IF c + 1 = partial THEN 1
            ELSE IF c + 1 = completion THEN 2
            ELSE IF c + 1 = childrenPartial THEN 3
            ELSE IF c + 1 = max THEN IF supports THEN 3 ELSE 2
            ELSE s
    BY <1>1 DEF StatusOn, StatusPartial, StatusComplete, StatusChildrenPartial, PhaseLast
<1>3. c < max
    OBVIOUS
<1>4. CASE k = "structType"
    <2>1. /\ max = 4 /\ partial = 1 /\ completion = 2 /\ childrenPartial = 3
          /\ supports = TRUE
        BY <1>4, PlanFacts
    <2>0. c \in {0, 1, 2, 3}
        BY <1>3, <2>1
    <2> HIDE DEF max, partial, completion, childrenPartial, supports, now
    <2>2. now = IF c + 1 = 4 THEN 3 ELSE c + 1
        <3>1. CASE c = 0
            BY <3>1, <1>2, <2>1
        <3>2. CASE c = 1
            BY <3>2, <1>2, <2>1
        <3>3. CASE c = 2
            BY <3>3, <1>2, <2>1
        <3>4. CASE c = 3
            BY <3>4, <1>2, <2>1
        <3> QED
            BY <2>0, <3>1, <3>2, <3>3, <3>4
    <2>3. now \in EntityStatus /\ now >= s
        BY <1>1, <1>3, <1>4, <2>1, <2>2
           DEF StatusFits, EntityStatus, StatusNone, StatusChildrenPartial
    <2>4. StatusFits(k, c + 1, now)
        BY <1>4, <2>2 DEF StatusFits
    <2> QED
        BY <2>3, <2>4 DEF now
<1>5. CASE k = "skill"
    <2>1. /\ max = 2 /\ partial = 1 /\ completion = 0 /\ childrenPartial = 0
          /\ supports = FALSE
        BY <1>5, PlanFacts
    <2>2. c \in {0, 1} /\ s = c
        BY <1>3, <1>5, <2>1 DEF StatusFits
    <2> HIDE DEF max, partial, completion, childrenPartial, supports, now
    <2>3. now = c + 1
        <3>1. CASE c = 0
            BY <3>1, <1>2, <2>1
        <3>2. CASE c = 1
            BY <3>2, <1>2, <2>1
        <3> QED
            BY <2>2, <3>1, <3>2
    <2>4. now \in EntityStatus /\ now >= s
        BY <2>2, <2>3 DEF EntityStatus, StatusNone, StatusChildrenPartial
    <2>5. StatusFits(k, c + 1, now)
        BY <1>5, <2>3 DEF StatusFits
    <2> QED
        BY <2>4, <2>5 DEF now
<1>6. CASE k = "doneSkill"
    <2>1. /\ max = 3 /\ partial = 2 /\ completion = 0 /\ childrenPartial = 0
          /\ supports = FALSE
        BY <1>6, PlanFacts
    <2>2. c \in {0, 1, 2} /\ s = IF c < 2 THEN 0 ELSE c - 1
        BY <1>3, <1>6, <2>1 DEF StatusFits
    <2> HIDE DEF max, partial, completion, childrenPartial, supports, now
    <2>3. now = IF c = 0 THEN 0 ELSE c
        <3>1. CASE c = 0
            BY <3>1, <1>2, <2>1, <2>2
        <3>2. CASE c = 1
            BY <3>2, <1>2, <2>1
        <3>3. CASE c = 2
            BY <3>3, <1>2, <2>1
        <3> QED
            BY <2>2, <3>1, <3>2, <3>3
    <2>4. now \in EntityStatus /\ now >= s
        BY <2>2, <2>3 DEF EntityStatus, StatusNone, StatusChildrenPartial
    <2>5. StatusFits(k, c + 1, now)
        BY <1>6, <2>2, <2>3 DEF StatusFits
    <2> QED
        BY <2>4, <2>5 DEF now
<1>7. CASE k \notin {"structType", "skill", "doneSkill"}
    <2>1. partial = 0 /\ completion = 0 /\ childrenPartial = 0 /\ ~supports
        BY <1>7, PlanFacts
    <2>2. now = IF c + 1 = max THEN 2 ELSE s
        BY <1>2, <2>1
    <2>3. s \in {0, 2}
        BY <1>7 DEF StatusFits
    <2>4. now \in {0, 2} /\ now >= s /\ (c + 1 = max => now = 2)
        BY <2>2, <2>3
    <2>5. StatusFits(k, c + 1, now)
        BY <1>7, <2>4 DEF StatusFits
    <2> QED
        BY <2>4, <2>5 DEF EntityStatus, StatusNone, StatusChildrenPartial
<1> QED
    BY <1>4, <1>5, <1>6, <1>7

(* The status complete fits a function or bring entry in any phase.        *)
LEMMA CompleteFits ==
    ASSUME NEW k \in FunctionKind \cup {"bringEntity"}, NEW c
    PROVE  StatusFits(k, c, StatusComplete)
    BY DEF StatusFits, FunctionKind, StatusComplete

(* An entity with all its phases run satisfies every dependency on it.     *)
LEMMA CompleteSatisfies ==
    ASSUME TypeOK, PhaseInv, NEW d \in program.deps, are_all_phases_complete(d.on)
    PROVE  Satisfied(d)
<1> DEFINE k == program.kind[d.on]
<1>1. d.on \in Entity /\ d.type \in DependType /\ k \in Kind
    BY DEF TypeOK, ProgramType, Dependency
<1>2. StatusFits(k, Plan[k].maxPhase, status[d.on]) /\ status[d.on] \in EntityStatus
    BY <1>1 DEF PhaseInv, are_all_phases_complete, PlanOf, TypeOK
<1>3. status[d.on] >= IF Plan[k].supportsChildren THEN 3 ELSE 2
    <2> DEFINE max == Plan[k].maxPhase
               supports == Plan[k].supportsChildren
               s == status[d.on]
    <2>1. CASE k = "structType"
        <3>1. max = 4 /\ supports = TRUE
            BY <1>1, <2>1, PlanFacts
        <3> QED
            BY <1>2, <2>1, <3>1 DEF StatusFits
    <2>2. CASE k # "structType"
        <3>1. /\ supports = FALSE
              /\ k = "skill" => max = 2
              /\ k = "doneSkill" => max = 3
            BY <1>1, <2>2, PlanFacts
        <3>2. s = 2
            BY <1>2, <2>2, <3>1 DEF StatusFits
        <3> QED
            BY <3>1, <3>2
    <2> QED
        BY <2>1, <2>2
<1>4. status[d.on] \in Nat
    BY <1>2 DEF EntityStatus, StatusNone, StatusChildrenPartial
<1> QED
    BY <1>1, <1>3, <1>4 DEF Satisfied, Requirement, PlanOf, DependType,
       StatusPartial, StatusComplete, StatusChildrenPartial
-----------------------------------------------------------------------------
(* What the type invariant says of one entity.                             *)
LEMMA EntityTypes ==
    ASSUME TypeOK, NEW e \in Entity
    PROVE  /\ program.kind[e] \in Kind
           /\ status[e] \in EntityStatus
           /\ currentPhase[e] \in 0 .. 9
           /\ PlanOf(e).maxPhase \in 1 .. 4
           /\ e \in Nat
<1>1. program.kind \in [Entity -> Kind]
    BY DEF TypeOK, ProgramType
<1>2. program.kind[e] \in Kind
    BY <1>1
<1>3. PlanOf(e).maxPhase \in 1 .. 4
    BY <1>2, PlanFacts DEF PlanOf
<1>4. status[e] \in EntityStatus /\ currentPhase[e] \in 0 .. 9
    BY DEF TypeOK, PhaseLast
<1> QED
    BY <1>2, <1>3, <1>4, NumEntitiesAssumption DEF Entity

(* What it says of one dependency.                                         *)
LEMMA DependencyTypes ==
    ASSUME TypeOK, NEW d \in program.deps
    PROVE  /\ d.from \in Entity /\ d.on \in Entity
           /\ d.type \in DependType /\ d.phase \in 1 .. 9
           /\ program.kind[d.from] # "broughtModule"
           /\ Requirement(d) \in 1 .. 3
<1>1. d \in Dependency /\ program.kind[d.from] # "broughtModule"
    <2>1. /\ program.deps \subseteq Dependency
          /\ <<d.type, d.phase>> \in Uses[program.kind[d.from]]
          /\ program.kind \in [Entity -> Kind]
        BY DEF TypeOK, ProgramType, LegalDependencies
    <2>2. d \in Dependency /\ program.kind[d.from] \in Kind
        BY <2>1 DEF Dependency
    <2>3. Uses["broughtModule"] = {}
        BY DEF Uses, Kind
    <2> QED
        BY <2>1, <2>2, <2>3
<1>2. Requirement(d) \in 1 .. 3
    BY DEF Requirement, StatusPartial, StatusComplete, StatusChildrenPartial
<1> QED
    BY <1>1, <1>2 DEF Dependency, Phase, PhaseLast

(* A status that rises keeps satisfying the dependencies it satisfied.     *)
LEMMA SatisfiedIsStable ==
    ASSUME TypeOK, NEW d \in program.deps, program' = program,
           status' \in [Entity -> EntityStatus],
           \A x \in Entity : status'[x] >= status[x],
           Satisfied(d)
    PROVE  Satisfied(d)'
<1>1. d.on \in Entity /\ Requirement(d) \in 1 .. 3
    BY DependencyTypes
<1>2. Requirement(d)' = Requirement(d)
    BY DEF Requirement, PlanOf
<1>3. /\ status[d.on] \in 0 .. 3 /\ status'[d.on] \in 0 .. 3
      /\ status'[d.on] >= status[d.on]
    BY <1>1 DEF TypeOK, EntityStatus, StatusNone, StatusChildrenPartial
<1>4. Satisfied(d)' <=> status'[d.on] >= Requirement(d)
    BY <1>2 DEF Satisfied
<1> QED
    BY <1>1, <1>3, <1>4 DEF Satisfied

(* The phase an entity with phases left runs next.                         *)
LEMMA NextPhaseFacts ==
    ASSUME TypeOK, PhaseInv, NEW e \in Entity, ~are_all_phases_complete(e)
    PROVE  /\ NextPhase(e) = currentPhase[e] + 1
           /\ currentPhase[e] < PlanOf(e).maxPhase
           /\ NextPhase(e) \in 1 .. 4
<1>1. currentPhase[e] < PlanOf(e).maxPhase
    BY EntityTypes DEF PhaseInv, are_all_phases_complete
<1> QED
    BY <1>1, EntityTypes DEF NextPhase, get_next_phase, PhaseLast

(* One phase of one entity: every status keeps fitting, and none falls.    *)
LEMMA PhaseStep ==
    ASSUME TypeOK, PhaseInv, program' = program, NEW e \in Entity,
           ~are_all_phases_complete(e), do_next_phase(e)
    PROVE  /\ currentPhase' = [currentPhase EXCEPT ![e] = currentPhase[e] + 1]
           /\ status' \in [Entity -> EntityStatus]
           /\ \A x \in Entity : status'[x] >= status[x]
           /\ PhaseInv'
<1> DEFINE p == NextPhase(e)
           doneByNode == NowBrought(e) \cup {x \in {e} : CompletesManually(x, p)}
           S(x) == IF x \in doneByNode THEN StatusComplete ELSE status[x]
<1>1. p = currentPhase[e] + 1 /\ currentPhase[e] < PlanOf(e).maxPhase /\ p \in 1 .. 4
    BY NextPhaseFacts
<1>2. currentPhase' = [currentPhase EXCEPT ![e] = currentPhase[e] + 1]
    BY <1>1 DEF do_next_phase
<1>3. status' = [x \in Entity |->
                    IF x = e THEN StatusOn(program.kind[e], p, S(x)) ELSE S(x)]
    BY DEF do_next_phase
<1>4. \A x \in doneByNode : program.kind[x] \in FunctionKind \cup {"bringEntity"}
    BY DEF NowBrought, Groups, CompletesManually
<1> HIDE DEF doneByNode, p
<1>5. ASSUME NEW x \in Entity
      PROVE  /\ S(x) \in EntityStatus /\ S(x) >= status[x]
             /\ StatusFits(program.kind[x], currentPhase[x], S(x))
    <2>1. StatusFits(program.kind[x], currentPhase[x], status[x])
        BY DEF PhaseInv
    <2>2. CASE x \in doneByNode
        <3>1. program.kind[x] \in FunctionKind \cup {"bringEntity"}
            BY <1>4, <2>2
        <3>2. StatusFits(program.kind[x], currentPhase[x], StatusComplete)
            BY <3>1, CompleteFits
        <3>3. status[x] \in {0, 2}
            BY <2>1, <3>1 DEF StatusFits, FunctionKind
        <3> QED
            BY <2>2, <3>2, <3>3
               DEF EntityStatus, StatusNone, StatusComplete, StatusChildrenPartial
    <2>3. CASE x \notin doneByNode
        BY <2>1, <2>3, EntityTypes
           DEF EntityStatus, StatusNone, StatusChildrenPartial
    <2> QED
        BY <2>2, <2>3
<1> HIDE DEF S
<1>6. ASSUME NEW x \in Entity
      PROVE  /\ status'[x] \in EntityStatus /\ status'[x] >= status[x]
             /\ StatusFits(program.kind[x], currentPhase'[x], status'[x])
             /\ currentPhase'[x] <= PlanOf(x).maxPhase
    <2>1. CASE x = e
        <3> DEFINE k == program.kind[e]
                   c == currentPhase[e]
        <3>1. k \in Kind /\ c \in Nat /\ c < Plan[k].maxPhase
            BY <1>1, EntityTypes DEF PlanOf
        <3>2. S(e) \in EntityStatus /\ StatusFits(k, c, S(e)) /\ S(e) >= status[e]
            BY <1>5
        <3>3. status'[e] = StatusOn(k, c + 1, S(e)) /\ currentPhase'[e] = c + 1
            BY <1>1, <1>2, <1>3 DEF TypeOK
        <3>4. /\ status'[e] \in EntityStatus /\ status'[e] >= S(e)
              /\ StatusFits(k, c + 1, status'[e])
            <4> HIDE DEF k, c
            <4> QED
                BY <3>1, <3>2, <3>3, StatusOnFits
        <3>5. status'[e] >= status[e]
            BY <3>2, <3>4, EntityTypes DEF EntityStatus, StatusNone, StatusChildrenPartial
        <3>6. c + 1 <= PlanOf(e).maxPhase
            BY <1>1, EntityTypes
        <3> QED
            BY <2>1, <3>3, <3>4, <3>5, <3>6
    <2>2. CASE x # e
        <3>1. status'[x] = S(x) /\ currentPhase'[x] = currentPhase[x]
            BY <1>2, <1>3, <2>2 DEF TypeOK
        <3> QED
            BY <1>5, <3>1 DEF PhaseInv
    <2> QED
        BY <2>1, <2>2
<1>7. status' \in [Entity -> EntityStatus]
    BY <1>3, <1>6
<1>8. PhaseInv'
    BY <1>6 DEF PhaseInv, PlanOf
<1> QED
    BY <1>2, <1>6, <1>7, <1>8
-----------------------------------------------------------------------------
(* The invariant holds when the loop starts.                               *)
LEMMA InitIInv == Init => IInv
<1> SUFFICES ASSUME Init PROVE IInv
    OBVIOUS
<1>1. TypeOK
    <2>1. program \in ProgramType
        BY ProgramsAssumption DEF Init
    <2>2. status \in [Entity -> EntityStatus] /\ currentPhase \in [Entity -> 0 .. PhaseLast]
        BY DEF Init, Created, EntityStatus, StatusNone, StatusComplete,
               StatusChildrenPartial, NoPhase, PhaseLast
    <2>3. brought \subseteq Groups
        BY DEF Init
    <2>4. cursor \in 1 .. NumEntities + 1
        BY NumEntitiesAssumption DEF Init
    <2> QED
        BY <2>1, <2>2, <2>3, <2>4 DEF TypeOK, Init
<1>2. PhaseInv
    <2> SUFFICES ASSUME NEW e \in Entity
                 PROVE  /\ currentPhase[e] <= PlanOf(e).maxPhase
                        /\ StatusFits(program.kind[e], currentPhase[e], status[e])
        BY DEF PhaseInv
    <2> DEFINE k == program.kind[e]
    <2>1. k \in Kind /\ PlanOf(e).maxPhase \in 1 .. 4
        BY <1>1, EntityTypes
    <2>2. currentPhase[e] = IF k = "broughtModule" THEN 1 ELSE 0
        BY DEF Init, Created, NoPhase
    <2>3. k = "broughtModule" => status[e] = 2
        BY DEF Init, Created, StatusComplete
    <2>4. k \notin {"bringEntity", "broughtModule"} => status[e] = 0
        BY DEF Init, Created, Groups, StatusNone
    <2>5. k = "bringEntity" => status[e] \in {0, 2}
        BY DEF Init, Created, StatusNone, StatusComplete
    <2>6. StatusFits(k, currentPhase[e], status[e])
        <3> DEFINE max == Plan[k].maxPhase
        <3>1. max \in 1 .. 4
            BY <2>1 DEF PlanOf
        <3> HIDE DEF k
        <3> QED
            BY <2>2, <2>3, <2>4, <2>5, <3>1 DEF StatusFits
    <2> QED
        BY <2>1, <2>2, <2>6
<1>3. PhasesHaveDeps
    <2> SUFFICES ASSUME NEW d \in program.deps, d.phase <= currentPhase[d.from]
                 PROVE  FALSE
        BY DEF PhasesHaveDeps
    <2>1. d.from \in Entity /\ d.phase \in 1 .. 9 /\ program.kind[d.from] # "broughtModule"
        BY <1>1, DependencyTypes
    <2>2. currentPhase[d.from] = 0
        BY <2>1 DEF Init, Created, NoPhase
    <2> QED
        BY <2>1, <2>2
<1>4. PassInv
    BY DEF Init, PassInv
<1> QED
    BY <1>1, <1>2, <1>3, <1>4 DEF IInv

(* An entity's readiness is a matter of the phases and statuses alone.     *)
LEMMA ReadinessUnchanged ==
    ASSUME UNCHANGED entityVars
    PROVE  /\ \A e : are_all_phases_complete(e)' <=> are_all_phases_complete(e)
           /\ \A e : is_ready_for_next_phase(e)' <=> is_ready_for_next_phase(e)
           /\ PhaseInv => PhaseInv'
           /\ PhasesHaveDeps => PhasesHaveDeps'
<1>1. \A e : are_all_phases_complete(e)' <=> are_all_phases_complete(e)
    BY DEF entityVars, are_all_phases_complete, PlanOf
<1>2. \A d : Satisfied(d)' <=> Satisfied(d)
    BY DEF entityVars, Satisfied, Requirement, PlanOf
<1>3. \A e : is_ready_for_next_phase(e)' <=> is_ready_for_next_phase(e)
    BY <1>2 DEF entityVars, is_ready_for_next_phase, NextPhase
<1>4. PhaseInv => PhaseInv'
    BY DEF entityVars, PhaseInv, PlanOf
<1>5. PhasesHaveDeps => PhasesHaveDeps'
    BY <1>2 DEF entityVars, PhasesHaveDeps
<1> QED
    BY <1>1, <1>3, <1>4, <1>5

(* Visiting one entity, whose phase is the only one that can change.  What *)
(* the flags of the pass say of the entities visited goes on to hold when  *)
(* the flags are set for the entity visited as the loop sets them.         *)
LEMMA TypeStep ==
    ASSUME TypeOK, PhaseInv, [Next]_vars
    PROVE  TypeOK'
<1>1. ASSUME NEW e \in Entity, Visit(e)
      PROVE  /\ program' = program /\ outcome' = outcome /\ outcome = "running"
             /\ cursor' \in 1 .. NumEntities + 1
             /\ iterations' \in [Entity -> Nat]
    <2>1. cursor' = e + 1 /\ e \in 1 .. NumEntities
        BY <1>1 DEF Visit, Entity
    <2> QED
        BY <1>1, <2>1, NumEntitiesAssumption DEF Visit, TypeOK
<1>2. ASSUME NEW e \in Entity, SkipComplete(e)
      PROVE  TypeOK'
    BY <1>1, <1>2 DEF SkipComplete, TypeOK, Groups
<1>3. ASSUME NEW e \in Entity, Wait(e)
      PROVE  TypeOK'
    BY <1>1, <1>3 DEF Wait, TypeOK, Groups
<1>4. ASSUME NEW e \in Entity, Advance(e)
      PROVE  TypeOK'
    <2>1. /\ Visit(e) /\ ~are_all_phases_complete(e) /\ do_next_phase(e)
          /\ atleastOneEntityDone' = TRUE
          /\ hasIncompleteEntities' = (hasIncompleteEntities \/ ~are_all_phases_complete(e)')
        BY <1>4 DEF Advance
    <2>2. program' = program
        BY <1>1, <2>1
    <2>3. status' \in [Entity -> EntityStatus]
        BY <2>1, <2>2, PhaseStep
    <2>4. NextPhase(e) \in 1 .. 4
        BY <2>1, NextPhaseFacts
    <2>5. currentPhase' \in [Entity -> 0 .. PhaseLast]
        BY <2>1, <2>4 DEF do_next_phase, TypeOK, PhaseLast
    <2>6. emitted' \in [Entity -> SUBSET Phase]
        BY <2>1, <2>4 DEF do_next_phase, TypeOK, Phase, PhaseLast
    <2>7. brought' \subseteq Groups'
        BY <2>1, <2>2 DEF do_next_phase, NowBrought, TypeOK, Groups
    <2>8. hasIncompleteEntities' \in BOOLEAN
        BY <2>1 DEF TypeOK
    <2> QED
        BY <1>1, <2>1, <2>2, <2>3, <2>5, <2>6, <2>7, <2>8 DEF TypeOK
<1>5. ASSUME NEW e \in Entity, PhaseError(e)
      PROVE  TypeOK'
    BY <1>5 DEF PhaseError, loopVars, TypeOK, Groups
<1>6. CASE NextPass
    <2>1. /\ cursor' = 1 /\ atleastOneEntityDone' = FALSE /\ hasIncompleteEntities' = FALSE
          /\ UNCHANGED <<program, status, currentPhase, emitted, brought,
                         iterations, outcome>>
        BY <1>6 DEF NextPass
    <2>2. cursor' \in 1 .. NumEntities + 1
        BY <2>1, NumEntitiesAssumption
    <2> QED
        BY <2>1, <2>2 DEF TypeOK, Groups
<1>7. CASE EndLoop
    BY <1>7 DEF EndLoop, loopVars, TypeOK, Groups
<1>8. CASE UNCHANGED vars
    BY <1>8 DEF vars, loopVars, TypeOK, Groups
<1> QED
    BY <1>2, <1>3, <1>4, <1>5, <1>6, <1>7, <1>8 DEF Next, Ended
(* PhaseInv, and with it that no status falls, in every step.              *)
LEMMA PhaseInvStep ==
    ASSUME TypeOK, PhaseInv, [Next]_vars
    PROVE  PhaseInv' /\ \A x \in Entity : status'[x] >= status[x]
<1>1. ASSUME NEW e \in Entity, Advance(e)
      PROVE  PhaseInv' /\ \A x \in Entity : status'[x] >= status[x]
    <2>1. program' = program /\ ~are_all_phases_complete(e) /\ do_next_phase(e)
        BY <1>1 DEF Advance, Visit
    <2> QED
        BY <2>1, PhaseStep
<1>2. ASSUME UNCHANGED entityVars
      PROVE  PhaseInv' /\ \A x \in Entity : status'[x] >= status[x]
    <2>1. \A x \in Entity : status[x] \in 0 .. 3 /\ status'[x] = status[x]
        BY <1>2, EntityTypes DEF entityVars, EntityStatus, StatusNone, StatusChildrenPartial
    <2> QED
        BY <1>2, <2>1, ReadinessUnchanged
<1>3. (\E e \in Entity : Advance(e)) \/ UNCHANGED entityVars
    BY DEF Next, SkipComplete, Wait, PhaseError, NextPass, EndLoop, Ended, Visit,
           vars, entityVars
<1> QED
    BY <1>1, <1>2, <1>3

(* PhasesHaveDeps in every step: a phase starts with its dependencies      *)
(* satisfied, and a satisfied dependency stays so.                         *)
LEMMA PhasesHaveDepsStep ==
    ASSUME TypeOK, PhaseInv, PhasesHaveDeps, [Next]_vars
    PROVE  PhasesHaveDeps'
<1>1. ASSUME NEW e \in Entity, Advance(e)
      PROVE  PhasesHaveDeps'
    <2>1. /\ program' = program /\ ~are_all_phases_complete(e)
          /\ is_ready_for_next_phase(e) /\ do_next_phase(e)
        BY <1>1 DEF Advance, Visit
    <2>2. /\ currentPhase' = [currentPhase EXCEPT ![e] = currentPhase[e] + 1]
          /\ status' \in [Entity -> EntityStatus]
          /\ \A x \in Entity : status'[x] >= status[x]
        BY <2>1, PhaseStep
    <2>3. NextPhase(e) = currentPhase[e] + 1
        BY <2>1, NextPhaseFacts
    <2> SUFFICES ASSUME NEW d \in program.deps, d.phase <= currentPhase'[d.from]
                 PROVE  Satisfied(d)'
        BY <2>1 DEF PhasesHaveDeps
    <2>4. d.from \in Entity /\ d.phase \in 1 .. 9
        BY DependencyTypes
    <2>5. currentPhase[d.from] \in 0 .. 9
        BY <2>4, EntityTypes
    <2>6. Satisfied(d)
        <3>1. CASE d.phase <= currentPhase[d.from]
            BY <3>1 DEF PhasesHaveDeps
        <3>2. CASE ~(d.phase <= currentPhase[d.from])
            <4>1. d.from = e /\ currentPhase'[d.from] = currentPhase[e] + 1
                BY <2>2, <2>4, <3>2 DEF TypeOK
            <4>2. d.phase = NextPhase(e)
                BY <2>3, <2>4, <2>5, <3>2, <4>1
            <4> QED
                BY <2>1, <4>1, <4>2 DEF is_ready_for_next_phase
        <3> QED
            BY <3>1, <3>2
    <2> QED
        BY <2>1, <2>2, <2>6, SatisfiedIsStable
<1>2. (\E e \in Entity : Advance(e)) \/ UNCHANGED entityVars
    BY DEF Next, SkipComplete, Wait, PhaseError, NextPass, EndLoop, Ended, Visit,
           vars, entityVars
<1> QED
    BY <1>1, <1>2, ReadinessUnchanged

(* PassInv in every step: visiting e adds e to the entities the flags      *)
(* speak of, and leaves those visited before it as they were.              *)
LEMMA PassInvStep ==
    ASSUME TypeOK, PhaseInv, PassInv, [Next]_vars
    PROVE  PassInv'
<1>1. ASSUME NEW e \in Entity, Visit(e)
      PROVE  /\ outcome = "running" /\ outcome' = outcome
             /\ program' = program
             /\ 1 .. cursor' - 1 = (1 .. cursor - 1) \cup {e}
             /\ e \notin 1 .. cursor - 1
             /\ 1 .. cursor - 1 \subseteq Entity
    BY <1>1, NumEntitiesAssumption DEF Visit, Entity
<1>2. ASSUME NEW e \in Entity, SkipComplete(e)
      PROVE  PassInv'
    <2>1. /\ Visit(e) /\ are_all_phases_complete(e) /\ UNCHANGED entityVars
          /\ atleastOneEntityDone' = atleastOneEntityDone
          /\ hasIncompleteEntities' = hasIncompleteEntities
        BY <1>2 DEF SkipComplete, Visit, entityVars
    <2> QED
        BY <1>1, <2>1, ReadinessUnchanged DEF PassInv
<1>3. ASSUME NEW e \in Entity, Wait(e)
      PROVE  PassInv'
    <2>1. /\ Visit(e) /\ ~are_all_phases_complete(e) /\ ~is_ready_for_next_phase(e)
          /\ UNCHANGED entityVars
          /\ atleastOneEntityDone' = atleastOneEntityDone
          /\ hasIncompleteEntities' = TRUE
        BY <1>3 DEF Wait, Visit, entityVars
    <2> QED
        BY <1>1, <2>1, ReadinessUnchanged DEF PassInv
<1>4. ASSUME NEW e \in Entity, Advance(e)
      PROVE  PassInv'
    <2>1. /\ Visit(e) /\ ~are_all_phases_complete(e) /\ do_next_phase(e)
          /\ atleastOneEntityDone' = TRUE
          /\ hasIncompleteEntities' = (hasIncompleteEntities \/ ~are_all_phases_complete(e)')
        BY <1>4 DEF Advance
    <2>2. currentPhase' = [currentPhase EXCEPT ![e] = currentPhase[e] + 1]
        BY <1>1, <2>1, PhaseStep
    <2>3. \A x \in 1 .. cursor - 1 :
             are_all_phases_complete(x)' <=> are_all_phases_complete(x)
        BY <1>1, <2>1, <2>2 DEF are_all_phases_complete, PlanOf, TypeOK
    <2>4. hasIncompleteEntities \in BOOLEAN
        BY DEF TypeOK
    <2>5. ~hasIncompleteEntities' =>
             \A x \in 1 .. cursor' - 1 : are_all_phases_complete(x)'
        BY <1>1, <2>1, <2>3, <2>4 DEF PassInv
    <2>6. hasIncompleteEntities' =>
             \E x \in 1 .. cursor' - 1 : ~are_all_phases_complete(x)'
        BY <1>1, <2>1, <2>3, <2>4 DEF PassInv
    <2> QED
        BY <1>1, <2>1, <2>5, <2>6 DEF PassInv
<1>5. ASSUME NEW e \in Entity, PhaseError(e)
      PROVE  PassInv'
    BY <1>5 DEF PhaseError, PassInv
<1>6. CASE NextPass
    <2>1. cursor' = 1 /\ outcome' = "running" /\ hasIncompleteEntities' = FALSE
        BY <1>6 DEF NextPass
    <2> QED
        BY <2>1 DEF PassInv
<1>7. CASE EndLoop
    <2>1. /\ outcome = "running" /\ 1 .. cursor - 1 = Entity
          /\ ~(hasIncompleteEntities /\ atleastOneEntityDone)
          /\ outcome' = IF ~atleastOneEntityDone /\ hasIncompleteEntities
                        THEN "unresolved" ELSE "finalised"
          /\ UNCHANGED entityVars
        BY <1>7, NumEntitiesAssumption DEF EndLoop, Entity, entityVars
    <2> QED
        BY <2>1, ReadinessUnchanged DEF PassInv
<1>8. CASE UNCHANGED vars
    <2>1. /\ UNCHANGED entityVars
          /\ UNCHANGED <<outcome, cursor, atleastOneEntityDone, hasIncompleteEntities>>
        BY <1>8 DEF vars, loopVars, entityVars
    <2> QED
        BY <2>1, ReadinessUnchanged DEF PassInv
<1> QED
    BY <1>2, <1>3, <1>4, <1>5, <1>6, <1>7, <1>8 DEF Next, Ended
-----------------------------------------------------------------------------
(* The inductive invariant of the loop.                                    *)
THEOREM InductiveInvariant == Spec => []IInv
<1>1. IInv /\ [Next]_vars => IInv'
    BY TypeStep, PhaseInvStep, PhasesHaveDepsStep, PassInvStep DEF IInv
<1> QED
    BY InitIInv, <1>1, PTL DEF Spec

(* Every variable keeps its type.                                          *)
THEOREM TypeCorrect == Spec => []TypeOK
<1>1. IInv => TypeOK
    BY DEF IInv
<1> QED
    BY InductiveInvariant, <1>1, PTL

(* The dependencies tied to the phases an entity has run are satisfied,    *)
(* whatever the program and the order in which the loop visits it.         *)
THEOREM DependenciesRespected == Spec => []PhasesHaveDeps
<1>1. IInv => PhasesHaveDeps
    BY DEF IInv
<1> QED
    BY InductiveInvariant, <1>1, PTL

(* No step of the loop lowers the status of an entity.                     *)
THEOREM StatusesRise == Spec => StatusNeverFalls
<1>1. IInv /\ [Next]_vars => [\A e \in Entity : status'[e] >= status[e]]_vars
    BY PhaseInvStep DEF IInv
<1> QED
    BY InductiveInvariant, <1>1, PTL DEF Spec, StatusNeverFalls

(* When the loop gives up, every entity left waits for another that is     *)
(* left: the error it reports is never about a program that could go on.   *)
THEOREM GivesUpOnlyOnCycles == Spec => []UnresolvedIsCircularWait
<1>1. IInv => UnresolvedIsCircularWait
    <2> SUFFICES ASSUME IInv, outcome = "unresolved"
                 PROVE  /\ \E e \in Entity : ~are_all_phases_complete(e)
                        /\ \A e \in Entity : ~are_all_phases_complete(e) =>
                              \E d \in program.deps :
                                 /\ d.from = e /\ d.on \in Entity
                                 /\ ~are_all_phases_complete(d.on)
                                 /\ d.phase = NextPhase(e) /\ ~Satisfied(d)
        BY DEF UnresolvedIsCircularWait
    <2>1. \E e \in Entity : ~are_all_phases_complete(e)
        BY DEF IInv, PassInv
    <2>2. ASSUME NEW e \in Entity, ~are_all_phases_complete(e)
          PROVE  \E d \in program.deps :
                    /\ d.from = e /\ d.on \in Entity
                    /\ ~are_all_phases_complete(d.on)
                    /\ d.phase = NextPhase(e) /\ ~Satisfied(d)
        <3>1. PICK d \in program.deps :
                 d.from = e /\ d.phase = NextPhase(e) /\ ~Satisfied(d)
            BY <2>2 DEF IInv, PassInv, is_ready_for_next_phase
        <3>2. d.on \in Entity /\ ~are_all_phases_complete(d.on)
            BY <3>1, DependencyTypes, CompleteSatisfies DEF IInv
        <3> QED
            BY <3>1, <3>2
    <2> QED
        BY <2>1, <2>2
<1> QED
    BY InductiveInvariant, <1>1, PTL

-----------------------------------------------------------------------------
(* The loop implements PhaseOrder: the programs and the initial states are *)
(* the same, and so is every operator PhaseOrder's actions use.            *)
LEMMA SameTypes ==
    /\ Abstract!Entity = Entity
    /\ Abstract!Kind = Kind
    /\ Abstract!ProgramType = ProgramType
<1>1. Abstract!Entity = Entity
    BY DEF Entity, Abstract!Entity
<1>2. Abstract!FunctionKind = FunctionKind /\ Abstract!Kind = Kind
    BY DEF Kind, Abstract!Kind, FunctionKind, Abstract!FunctionKind
<1>3. Abstract!DependType = DependType /\ Abstract!Phase = Phase
    BY DEF DependType, Abstract!DependType, Phase, Abstract!Phase, PhaseLast,
           Abstract!PhaseLast
<1>4. Abstract!Dependency = Dependency
    BY <1>1, <1>3 DEF Dependency, Abstract!Dependency
<1>5. Abstract!Conditional = Conditional
    BY <1>2 DEF Conditional, Abstract!Conditional
<1>6. Abstract!Uses = Uses
    <2>1. /\ \A phases : Abstract!TypesIn(phases) = TypesIn(phases)
          /\ \A phases : Abstract!BodiesIn(phases) = BodiesIn(phases)
        BY <1>3 DEF TypesIn, Abstract!TypesIn, BodiesIn, Abstract!BodiesIn
    <2>2. /\ Abstract!StructUses = StructUses
          /\ \A k : Abstract!FunctionUses(k) = FunctionUses(k)
          /\ Abstract!PrerunFunctionUses = PrerunFunctionUses
          /\ Abstract!MixUses = MixUses /\ Abstract!SkillUses = SkillUses
          /\ Abstract!DoSkillUses = DoSkillUses /\ Abstract!SingleUses = SingleUses
          /\ Abstract!BringUses = BringUses
        BY <2>1 DEF StructUses, Abstract!StructUses, FunctionUses, Abstract!FunctionUses,
               PrerunFunctionUses, Abstract!PrerunFunctionUses, MixUses, Abstract!MixUses,
               SkillUses, Abstract!SkillUses, DoSkillUses, Abstract!DoSkillUses,
               SingleUses, Abstract!SingleUses, BringUses, Abstract!BringUses
    <2> QED
        BY <1>2, <2>1, <2>2 DEF Uses, Abstract!Uses
<1>7. \A kind, deps : Abstract!LegalDependencies(kind, deps) <=> LegalDependencies(kind, deps)
    BY <1>6 DEF LegalDependencies, Abstract!LegalDependencies
<1>8. \A pr : Abstract!LegalBrings(pr) <=> LegalBrings(pr)
    BY <1>1 DEF LegalBrings, Abstract!LegalBrings
<1> QED
    BY <1>1, <1>2, <1>4, <1>5, <1>7, <1>8 DEF ProgramType, Abstract!ProgramType

(* Where the loop starts, PhaseOrder can start.                            *)
LEMMA InitRefines == Init => Abstract!Init
    BY ProgramsAssumption, SameTypes
       DEF Init, Abstract!Init, Created, Abstract!Created, Groups, Abstract!Groups,
           StatusComplete, Abstract!StatusComplete, StatusNone, Abstract!StatusNone,
           NoPhase, Abstract!NoPhase

(* The operators PhaseOrder takes from EntityState are those of the loop.  *)
LEMMA SameOperators ==
    /\ Abstract!Entity = Entity
    /\ Abstract!EntityStatus = EntityStatus
    /\ \A e : Abstract!are_all_phases_complete(e) <=> are_all_phases_complete(e)
    /\ \A e : Abstract!NextPhase(e) = NextPhase(e)
    /\ \A e : Abstract!is_ready_for_next_phase(e) <=> is_ready_for_next_phase(e)
<1>1. Abstract!Plan = Plan
    <2>1. /\ Abstract!StructPlan = StructPlan /\ Abstract!MixPlan = MixPlan
          /\ Abstract!PrerunFunctionPlan = PrerunFunctionPlan
          /\ Abstract!SkillPlan = SkillPlan /\ Abstract!DoSkillPlan = DoSkillPlan
          /\ Abstract!SinglePlan = SinglePlan
          /\ \A k : Abstract!FunctionPlan(k) = FunctionPlan(k)
        BY DEF StructPlan, Abstract!StructPlan, MixPlan, Abstract!MixPlan,
               PrerunFunctionPlan, Abstract!PrerunFunctionPlan, SkillPlan,
               Abstract!SkillPlan, DoSkillPlan, Abstract!DoSkillPlan, FunctionPlan,
               Abstract!FunctionPlan, SinglePlan, Abstract!SinglePlan, Entry,
               Abstract!Entry, NoPhase, Abstract!NoPhase
    <2>2. Abstract!Kind = Kind
        BY DEF Kind, Abstract!Kind, FunctionKind, Abstract!FunctionKind
    <2> QED
        BY <2>1, <2>2 DEF Plan, Abstract!Plan
<1>2. \A e : Abstract!PlanOf(e) = PlanOf(e)
    BY <1>1 DEF PlanOf, Abstract!PlanOf
<1>3. \A e : Abstract!NextPhase(e) = NextPhase(e)
    BY DEF NextPhase, Abstract!NextPhase, get_next_phase, Abstract!get_next_phase,
           PhaseLast, Abstract!PhaseLast
<1>4. \A d : Abstract!Satisfied(d) <=> Satisfied(d)
    BY <1>2 DEF Satisfied, Abstract!Satisfied, Requirement, Abstract!Requirement,
           StatusPartial, Abstract!StatusPartial, StatusComplete,
           Abstract!StatusComplete, StatusChildrenPartial, Abstract!StatusChildrenPartial
<1>5. \A e : Abstract!is_ready_for_next_phase(e) <=> is_ready_for_next_phase(e)
    BY <1>3, <1>4 DEF is_ready_for_next_phase, Abstract!is_ready_for_next_phase
<1>6. \A e : Abstract!are_all_phases_complete(e) <=> are_all_phases_complete(e)
    BY <1>2 DEF are_all_phases_complete, Abstract!are_all_phases_complete
<1> QED
    BY <1>3, <1>5, <1>6
       DEF Entity, Abstract!Entity, EntityStatus, Abstract!EntityStatus, StatusNone,
           Abstract!StatusNone, StatusChildrenPartial, Abstract!StatusChildrenPartial

(* Every step of the loop is a step of PhaseOrder or changes nothing of it.*)
LEMMA StepRefines ==
    ASSUME IInv, [Next]_vars
    PROVE  [Abstract!Next]_(Abstract!vars)
<1>1. ASSUME NEW e \in Entity, Advance(e)
      PROVE  Abstract!RunPhase(e)
    <2>1. /\ outcome = "running" /\ ~are_all_phases_complete(e)
          /\ is_ready_for_next_phase(e) /\ do_next_phase(e)
          /\ program' = program /\ outcome' = outcome
        BY <1>1 DEF Advance, Visit
    <2>2. currentPhase' = [currentPhase EXCEPT ![e] = NextPhase(e)]
        BY <2>1 DEF do_next_phase
    <2>3. /\ status' \in [Entity -> EntityStatus]
          /\ \A x \in Entity : status'[x] >= status[x]
        BY <2>1, PhaseStep DEF IInv
    <2> QED
        BY <2>1, <2>2, <2>3, SameOperators DEF Abstract!RunPhase
<1>2. ASSUME NEW e \in Entity, PhaseError(e)
      PROVE  Abstract!Fail
    BY <1>2 DEF PhaseError, Abstract!Fail, Abstract!entityVars
<1>3. CASE EndLoop
    <2>1. outcome = "running" /\ outcome' \in {"finalised", "unresolved"} /\ UNCHANGED entityVars
        BY <1>3 DEF EndLoop, entityVars
    <2>2. PassInv'
        BY PassInvStep DEF IInv
    <2>3. CASE outcome' = "finalised"
        <3>1. \A e \in Entity : are_all_phases_complete(e)
            BY <2>1, <2>2, <2>3, ReadinessUnchanged DEF PassInv
        <3> QED
            BY <2>1, <2>3, <3>1, SameOperators
               DEF Abstract!Next, Abstract!Finalise, entityVars, Abstract!entityVars
    <2>4. CASE outcome' = "unresolved"
        <3>1. /\ \E e \in Entity : ~are_all_phases_complete(e)
              /\ \A e \in Entity : are_all_phases_complete(e) \/ ~is_ready_for_next_phase(e)
            BY <2>1, <2>2, <2>4, ReadinessUnchanged DEF PassInv
        <3> QED
            BY <2>1, <2>4, <3>1, SameOperators
               DEF Abstract!Next, Abstract!GiveUp, entityVars, Abstract!entityVars
    <2> QED
        BY <2>1, <2>3, <2>4
<1>4. \/ \E e \in Entity : Advance(e) \/ PhaseError(e)
      \/ EndLoop
      \/ UNCHANGED <<program, status, currentPhase, outcome>>
    BY DEF Next, SkipComplete, Wait, NextPass, Ended, Visit, vars
<1> QED
    BY <1>1, <1>2, <1>3, <1>4, SameOperators DEF Abstract!Next, Abstract!vars

(* Pass after pass over the entities, the loop does what PhaseOrder        *)
(* promises: phases in order, dependencies first, statuses never taken     *)
(* back, code generation only when all is done, giving up only when        *)
(* nothing can go on.                                                      *)
THEOREM Refinement == Spec => ImplementsPhaseOrder
<1> QED
    BY InitRefines, StepRefines, InductiveInvariant, PTL
       DEF Spec, ImplementsPhaseOrder, Abstract!Spec

-----------------------------------------------------------------------------
(* The invariant that ties the statuses to the IR that exists: the work of *)
(* the phases run is done; an entity that has a status without a phase to  *)
(* say so has run them all; a group that has one was brought.              *)
PhasesDone ==
    \A e \in Entity : program.kind[e] # "broughtModule" =>
        \A p \in 1 .. currentPhase[e] : DoesWork(e, p) => p \in emitted[e]

PlainKind == Kind \ {"structType", "skill", "doneSkill", "bringEntity", "broughtModule"}

PlainComplete ==
    \A e \in Entity :
        /\ program.kind[e] \in PlainKind /\ e \notin program.off
        /\ status[e] # StatusNone
        => are_all_phases_complete(e)

GroupsBrought ==
    \A g \in Groups :
        program.target[g] = 0 \/ status[g] # StatusNone => g \in brought \/ Absent(g)

ExistInv == PhasesDone /\ PlainComplete /\ GroupsBrought

(* Under that invariant an entity with a status is there or is absent.     *)
LEMMA StatusMeansThere ==
    ASSUME TypeOK, PhaseInv, ExistInv, NEW e \in Entity, status[e] # StatusNone,
           program.kind[e] = "bringEntity" => e \in Groups
    PROVE  Registered(e) \/ Absent(e)
<1> DEFINE k == program.kind[e]
           c == currentPhase[e]
<1>1. k \in Kind /\ c \in 0 .. 9 /\ status[e] \in 0 .. 3
    BY EntityTypes DEF EntityStatus, StatusNone, StatusChildrenPartial
<1>2. CASE k \in {"bringEntity", "broughtModule"}
    BY <1>2 DEF Registered, ExistInv, GroupsBrought
<1>3. CASE k \notin {"bringEntity", "broughtModule"} /\ e \notin program.off
    <2>1. StatusFits(k, c, status[e]) /\ status[e] # 0
        BY DEF PhaseInv, StatusNone
    <2>2. c >= CreationPhase[k] /\ CreationPhase[k] \in {1, 2}
        <3>1. CreationPhase[k] = IF k \in FunctionKind \cup {"doneSkill"} THEN 2 ELSE 1
            BY <1>1 DEF CreationPhase
        <3>2. CASE k \in {"structType", "skill"}
            <4>1. CreationPhase[k] = 1
                BY <3>1, <3>2 DEF FunctionKind
            <4>2. c # 0
                BY <2>1, <3>2 DEF StatusFits
            <4> QED
                BY <1>1, <4>1, <4>2
        <3>3. CASE k = "doneSkill"
            <4>1. CreationPhase[k] = 2
                BY <3>1, <3>3
            <4>2. ~(c < 2)
                BY <2>1, <3>3 DEF StatusFits
            <4> QED
                BY <1>1, <4>1, <4>2
        <3>4. CASE k \in PlainKind
            <4>1. c = Plan[k].maxPhase
                BY <1>3, <3>4 DEF ExistInv, PlainComplete, are_all_phases_complete, PlanOf
            <4>2. Plan[k].maxPhase \in 1 .. 4
                BY <1>1, PlanFacts
            <4>3. k \in FunctionKind => Plan[k].maxPhase \in {2, 3}
                BY DEF Plan, Kind, FunctionKind, FunctionPlan, PrerunFunctionPlan, Entry
            <4> QED
                BY <3>1, <3>4, <4>1, <4>2, <4>3 DEF PlainKind
        <3> QED
            BY <1>1, <1>3, <3>2, <3>3, <3>4 DEF PlainKind
    <2>3. CreationPhase[k] \in 1 .. c /\ DoesWork(e, CreationPhase[k])
        BY <1>1, <1>3, <2>2 DEF DoesWork
    <2> QED
        BY <1>3, <2>3 DEF Registered, ExistInv, PhasesDone
<1> QED
    BY <1>2, <1>3 DEF Absent

(* Nothing has run when the loop starts, and only the groups that name a   *)
(* module count as brought.                                                *)
LEMMA InitExistInv == Init => ExistInv
<1> SUFFICES ASSUME Init PROVE ExistInv
    OBVIOUS
<1>1. PhasesDone
    <2> SUFFICES ASSUME NEW e \in Entity, program.kind[e] # "broughtModule",
                        NEW p \in 1 .. currentPhase[e]
                 PROVE  FALSE
        BY DEF PhasesDone
    <2>1. currentPhase[e] = 0
        BY DEF Init, Created, NoPhase
    <2> QED
        BY <2>1
<1>2. PlainComplete
    BY DEF Init, Created, Groups, PlainComplete, PlainKind
<1>3. GroupsBrought
    <2> SUFFICES ASSUME NEW g \in Groups,
                        program.target[g] = 0 \/ status[g] # StatusNone
                 PROVE  program.target[g] = 0
        BY DEF GroupsBrought, Init
    <2>1. g \in Entity /\ program.kind[g] = "bringEntity"
        BY DEF Groups
    <2> QED
        BY <2>1 DEF Init, Created
<1> QED
    BY <1>1, <1>2, <1>3 DEF ExistInv

(* Whether an entity is absent is a matter of the program.                 *)
LEMMA AbsentUnchanged ==
    ASSUME program' = program
    PROVE  Groups' = Groups /\ \A e : Absent(e)' <=> Absent(e)
    BY DEF Groups, Absent

(* A group that runs its phase has its target there: the group is brought. *)
LEMMA GroupIsBrought ==
    ASSUME TypeOK, PhaseInv, ExistInv, NEW g \in Groups, program.target[g] # 0,
           ~are_all_phases_complete(g), is_ready_for_next_phase(g)
    PROVE  g \in brought \cup NowBrought(g) \/ Absent(g)
<1> DEFINE t == program.target[g]
           d == [from |-> g, on |-> t, type |-> "complete", phase |-> 1]
<1>1. g \in Entity /\ program.kind[g] = "bringEntity"
    BY DEF Groups
<1>2. /\ d \in program.deps /\ t \in Entity
      /\ program.kind[t] \notin {"bringEntity", "broughtModule", "doneSkill"}
    <2>1. LegalBrings(program) /\ program.target \in [Entity -> Entity \cup {0}]
        BY DEF TypeOK, ProgramType
    <2> QED
        BY <1>1, <2>1 DEF LegalBrings
<1>3. NextPhase(g) = 1
    <2>1. Plan["bringEntity"].maxPhase = 1
        BY DEF Plan, Kind, FunctionKind, SinglePlan, Entry
    <2>2. currentPhase[g] \in 0 .. 9 /\ currentPhase[g] < 1
        BY <1>1, <2>1, EntityTypes, NextPhaseFacts DEF PlanOf
    <2> QED
        BY <1>1, <2>2, NextPhaseFacts
<1>4. Satisfied(d)
    BY <1>2, <1>3 DEF is_ready_for_next_phase
<1>5. status[t] # StatusNone
    <2>1. Requirement(d) \in 1 .. 3 /\ status[t] \in 0 .. 3
        BY <1>2, DependencyTypes, EntityTypes DEF EntityStatus, StatusNone, StatusChildrenPartial
    <2>2. status[t] >= Requirement(d)
        BY <1>4 DEF Satisfied
    <2> QED
        BY <2>1, <2>2 DEF StatusNone
<1>6. Registered(t) \/ Absent(t)
    BY <1>2, <1>5, StatusMeansThere
<1>7. Absent(t) => t \in program.off
    BY <1>2 DEF Absent, Groups
<1> QED
    BY <1>1, <1>6, <1>7 DEF Absent, NowBrought

(* ExistInv in every step: the phase that gives a plain entity a status    *)
(* does its work, and a group that is complete has been brought.           *)
LEMMA ExistInvStep ==
    ASSUME TypeOK, PhaseInv, ExistInv, [Next]_vars
    PROVE  ExistInv'
<1>1. ASSUME NEW e \in Entity, Advance(e)
      PROVE  ExistInv'
    <2> DEFINE p == NextPhase(e)
    <2>1. /\ program' = program /\ ~are_all_phases_complete(e)
          /\ is_ready_for_next_phase(e) /\ do_next_phase(e)
        BY <1>1 DEF Advance, Visit
    <2>2. /\ p = currentPhase[e] + 1 /\ p \in 1 .. 4
          /\ currentPhase' = [currentPhase EXCEPT ![e] = p]
        BY <2>1, NextPhaseFacts DEF do_next_phase
    <2>3. /\ emitted' = [emitted EXCEPT ![e] = IF DoesWork(e, p) THEN @ \cup {p} ELSE @]
          /\ brought' = brought \cup NowBrought(e)
        BY <2>1 DEF do_next_phase
    <2>4. PhasesDone'
        <3> SUFFICES ASSUME NEW x \in Entity, program.kind[x] # "broughtModule",
                            NEW q \in 1 .. currentPhase'[x], DoesWork(x, q)
                     PROVE  q \in emitted'[x]
            BY <2>1 DEF PhasesDone, DoesWork
        <3>1. CASE x # e
            BY <2>2, <2>3, <3>1 DEF ExistInv, PhasesDone, TypeOK
        <3>2. CASE x = e
            <4>1. currentPhase'[e] = p /\ currentPhase[e] \in 0 .. 9
                BY <2>2, EntityTypes DEF TypeOK
            <4>2. q \in 1 .. currentPhase[e] \/ q = p
                BY <2>2, <3>2, <4>1
            <4>3. emitted[e] \subseteq emitted'[e] /\ (DoesWork(e, p) => p \in emitted'[e])
                BY <2>3 DEF TypeOK
            <4> QED
                BY <3>2, <4>2, <4>3 DEF ExistInv, PhasesDone
        <3> QED
            BY <3>1, <3>2
    <2>5. ASSUME NEW x \in Entity, x # e
          PROVE  status'[x] = status[x] \/ x \in NowBrought(e)
        BY <2>1, <2>5, Zenon DEF do_next_phase
    <2>6. PlainComplete'
        <3> SUFFICES ASSUME NEW x \in Entity, program.kind[x] \in PlainKind,
                            x \notin program.off, status'[x] # StatusNone
                     PROVE  currentPhase'[x] = PlanOf(x).maxPhase
            BY <2>1 DEF PlainComplete, are_all_phases_complete, PlanOf
        <3>1. x \notin NowBrought(e)
            BY DEF NowBrought, Groups, PlainKind
        <3>2. CASE x # e
            BY <2>2, <2>5, <3>1, <3>2
               DEF ExistInv, PlainComplete, are_all_phases_complete, TypeOK
        <3>3. CASE x = e
            <4>1. status[e] = StatusNone
                BY <2>1, <3>3 DEF ExistInv, PlainComplete
            <4>2. ~CompletesManually(e, p)
                BY <3>3 DEF CompletesManually
            <4>3. status'[e] = StatusOn(program.kind[e], p, StatusNone)
                BY <2>1, <3>1, <3>3, <4>1, <4>2 DEF do_next_phase
            <4>4. /\ program.kind[e] \in Kind
                  /\ program.kind[e] \notin {"structType", "skill", "doneSkill"}
                BY <3>3 DEF PlainKind
            <4>5. p = PlanOf(e).maxPhase
                <5> DEFINE k == program.kind[e]
                <5>1. /\ Plan[k].phaseToPartial = 0 /\ Plan[k].phaseToCompletion = 0
                      /\ Plan[k].phaseToChildrenPartial = 0
                    BY <4>4, PlanFacts
                <5> QED
                    BY <2>2, <3>3, <4>3, <5>1 DEF StatusOn, PlanOf
            <4> QED
                BY <2>2, <3>3, <4>5 DEF TypeOK
        <3> QED
            BY <3>2, <3>3
    <2>7. GroupsBrought'
        <3> SUFFICES ASSUME NEW g \in Groups,
                            program.target[g] = 0 \/ status'[g] # StatusNone
                     PROVE  g \in brought' \/ Absent(g)
            BY <2>1, AbsentUnchanged DEF GroupsBrought
        <3>1. CASE program.target[g] = 0 \/ status[g] # StatusNone
            BY <2>3, <3>1 DEF ExistInv, GroupsBrought
        <3>2. CASE program.target[g] # 0 /\ status[g] = StatusNone /\ g # e
            BY <2>3, <2>5, <3>2 DEF Groups
        <3>3. CASE program.target[g] # 0 /\ g = e
            BY <2>1, <2>3, <3>3, GroupIsBrought
        <3> QED
            BY <3>1, <3>2, <3>3
    <2> QED
        BY <2>4, <2>6, <2>7 DEF ExistInv
<1>2. ASSUME UNCHANGED <<program, status, currentPhase, emitted, brought>>
      PROVE  ExistInv'
    BY <1>2, AbsentUnchanged
       DEF ExistInv, PhasesDone, PlainComplete, GroupsBrought, DoesWork,
           are_all_phases_complete, PlanOf
<1>3. \/ \E e \in Entity : Advance(e)
      \/ UNCHANGED <<program, status, currentPhase, emitted, brought>>
    BY DEF Next, SkipComplete, Wait, PhaseError, NextPass, EndLoop, Ended, Visit, vars
<1> QED
    BY <1>1, <1>2, <1>3

(* Both invariants together.                                               *)
THEOREM ExistenceInvariant == Spec => [](IInv /\ ExistInv)
<1>1. IInv /\ ExistInv /\ [Next]_vars => ExistInv'
    BY ExistInvStep DEF IInv
<1> QED
    BY InductiveInvariant, InitExistInv, <1>1, PTL DEF Spec

(* What a phase depends on is there when the phase runs.                   *)
THEOREM NeedsAreThere == Spec => []NeedsExist
<1>1. IInv /\ ExistInv => NeedsExist
    <2> SUFFICES ASSUME IInv, ExistInv, NEW d \in program.deps,
                        d.phase <= currentPhase[d.from]
                 PROVE  Registered(d.on) \/ Absent(d.on)
        BY DEF NeedsExist
    <2>1. d.on \in Entity /\ Requirement(d) \in 1 .. 3
        BY DependencyTypes DEF IInv
    <2>2. status[d.on] >= Requirement(d)
        BY DEF IInv, PhasesHaveDeps, Satisfied
    <2>3. status[d.on] # StatusNone
        BY <2>1, <2>2 DEF StatusNone
    <2>4. program.kind[d.on] = "bringEntity" => d.on \in Groups
        <3>1. LegalBrings(program)
            BY DEF IInv, TypeOK, ProgramType
        <3> QED
            BY <2>1, <3>1 DEF LegalBrings, Groups
    <2> QED
        BY <2>1, <2>3, <2>4, StatusMeansThere DEF IInv
<1> QED
    BY ExistenceInvariant, <1>1, PTL

(* No bring is passed over when code generation starts.                    *)
THEOREM BringsAreSettled == Spec => []BringsSettled
<1>1. IInv /\ ExistInv => BringsSettled
    <2> SUFFICES ASSUME IInv, ExistInv, outcome = "finalised", NEW g \in Groups
                 PROVE  g \in brought \/ Absent(g)
        BY DEF BringsSettled
    <2>1. g \in Entity /\ program.kind[g] = "bringEntity"
        BY DEF Groups
    <2>2. currentPhase[g] = Plan["bringEntity"].maxPhase
        BY <2>1 DEF IInv, PassInv, are_all_phases_complete, PlanOf
    <2>3. StatusFits("bringEntity", currentPhase[g], status[g])
        BY <2>1 DEF IInv, PhaseInv
    <2>4. status[g] = 2
        BY <2>2, <2>3 DEF StatusFits
    <2> QED
        BY <2>4 DEF ExistInv, GroupsBrought, StatusNone
<1> QED
    BY ExistenceInvariant, <1>1, PTL

-----------------------------------------------------------------------------
(* The outcome.  With no bring sentence a status is what StatusAfter says, *)
(* and no entity has run a phase that it does not run in all phases at     *)
(* rest.                                                                   *)
StatusIsAfter == \A e \in Entity : status[e] = StatusAfter(e, currentPhase[e])

IsBelow(at) == \A e \in Entity : currentPhase[e] <= at[e]
LeastInv    == \A at \in [Entity -> 0 .. 4] : AtRest(at) => IsBelow(at)

FixInv == HasNoBrings => StatusIsAfter /\ LeastInv

(* The status after a phase, by kind.                                      *)
LEMMA AfterIs ==
    ASSUME TypeOK, NEW e \in Entity, NEW p \in 0 .. 4, p <= PlanOf(e).maxPhase,
           NEW k, k = program.kind[e]
    PROVE  /\ k = "structType" => StatusAfter(e, p) = IF p = 4 THEN 3 ELSE p
           /\ k = "skill" => StatusAfter(e, p) = p
           /\ k = "doneSkill" => StatusAfter(e, p) = IF p < 2 THEN 0 ELSE p - 1
           /\ k \notin {"structType", "skill", "doneSkill"} =>
                StatusAfter(e, p) =
                    IF p = PlanOf(e).maxPhase \/ (p >= 1 /\ e \in program.off /\ k \in FunctionKind)
                    THEN 2 ELSE 0
<1>1. k \in Kind
    BY EntityTypes
<1>2. PICK x, c, s : x = Plan[k].maxPhase /\ c = Plan[k].phaseToPartial /\ s = Plan[k].supportsChildren
    OBVIOUS
<1>3. /\ PlanOf(e).maxPhase = x /\ PlanOf(e).phaseToPartial = c /\ PlanOf(e).supportsChildren = s
    BY <1>2 DEF PlanOf
<1>4. /\ x \in 1 .. 4
      /\ k = "structType" => x = 4 /\ s = TRUE
      /\ k # "structType" => s = FALSE
      /\ k = "skill" => x = 2 /\ c = 1
      /\ k = "doneSkill" => x = 3 /\ c = 2
      /\ k \notin {"structType", "skill", "doneSkill"} => c = 0
    BY <1>1, <1>2, PlanFacts
<1>5. StatusAfter(e, p) =
         IF p = x THEN IF s THEN 3 ELSE 2
         ELSE IF p >= 1 /\ e \in program.off /\ k \in FunctionKind THEN 2
         ELSE IF k = "structType" THEN p
         ELSE IF c \in 1 .. p THEN 1 ELSE 0
    BY <1>3 DEF StatusAfter, StatusNone, StatusPartial, StatusComplete, StatusChildrenPartial
<1>6. /\ "structType" \notin FunctionKind /\ "skill" \notin FunctionKind /\ "doneSkill" \notin FunctionKind
    BY DEF FunctionKind
<1>7. p <= x
    BY <1>3
<1>8. CASE k = "structType"
    BY <1>4, <1>5, <1>6, <1>7, <1>8
<1>9. CASE k = "skill"
    BY <1>4, <1>5, <1>6, <1>7, <1>9
<1>10. CASE k = "doneSkill"
    BY <1>4, <1>5, <1>6, <1>7, <1>10
<1>11. CASE k \notin {"structType", "skill", "doneSkill"}
    <2>1. s = FALSE /\ c = 0
        BY <1>4, <1>11
    <2>2. c \notin 1 .. p
        BY <2>1
    <2> QED
        BY <1>3, <1>5, <1>11, <2>1, <2>2
<1> QED
    BY <1>8, <1>9, <1>10, <1>11

(* A later phase has no lower status.                                      *)
LEMMA AfterRises ==
    ASSUME TypeOK, NEW e \in Entity, NEW p \in 0 .. 4, NEW q \in 0 .. 4, p <= q, q <= PlanOf(e).maxPhase
    PROVE  /\ StatusAfter(e, p) \in 0 .. 3 /\ StatusAfter(e, q) \in 0 .. 3
           /\ StatusAfter(e, p) <= StatusAfter(e, q)
<1>1. PICK k, x : k = program.kind[e] /\ x = PlanOf(e).maxPhase
    OBVIOUS
<1>2. x \in 1 .. 4 /\ p <= x /\ q <= x
    BY <1>1, EntityTypes
<1>3. /\ k = "skill" => x = 2
      /\ k = "doneSkill" => x = 3
    BY <1>1, EntityTypes, PlanFacts DEF PlanOf
<1>4. PICK a, b : a = StatusAfter(e, p) /\ b = StatusAfter(e, q)
    OBVIOUS
<1>5. /\ k = "structType" => a = (IF p = 4 THEN 3 ELSE p) /\ b = IF q = 4 THEN 3 ELSE q
      /\ k = "skill" => a = p /\ b = q
      /\ k = "doneSkill" => a = (IF p < 2 THEN 0 ELSE p - 1) /\ b = IF q < 2 THEN 0 ELSE q - 1
      /\ k \notin {"structType", "skill", "doneSkill"} =>
           /\ a = IF p = x \/ (p >= 1 /\ e \in program.off /\ k \in FunctionKind) THEN 2 ELSE 0
           /\ b = IF q = x \/ (q >= 1 /\ e \in program.off /\ k \in FunctionKind) THEN 2 ELSE 0
    BY <1>1, <1>2, <1>4, AfterIs
<1>6. a \in 0 .. 3 /\ b \in 0 .. 3 /\ a <= b
    BY <1>2, <1>3, <1>5
<1> QED
    BY <1>4, <1>6

(* A dependency that is not met is not met with less done.                 *)
LEMMA BlocksFalls ==
    ASSUME TypeOK, NEW d \in program.deps, NEW at \in [Entity -> 0 .. 4], NEW bt \in [Entity -> 0 .. 4],
           \A e \in Entity : at[e] <= bt[e] /\ bt[e] <= PlanOf(e).maxPhase,
           Blocks(d, bt)
    PROVE  Blocks(d, at)
<1>1. d.on \in Entity
    BY DependencyTypes
<1>2. PICK a, b : a = StatusAfter(d.on, at[d.on]) /\ b = StatusAfter(d.on, bt[d.on])
    OBVIOUS
<1>3. a \in 0 .. 3 /\ b \in 0 .. 3 /\ a <= b
    BY <1>1, <1>2, AfterRises
<1>4. ASSUME NEW x, NEW y, x \in 0 .. 3, y \in 0 .. 3, x <= y
      PROVE  /\ y = StatusNone => x = StatusNone
             /\ y < StatusComplete => x < StatusComplete
             /\ y < StatusChildrenPartial => x < StatusChildrenPartial
    BY <1>4 DEF StatusNone, StatusComplete, StatusChildrenPartial
<1> QED
    BY <1>2, <1>3, <1>4 DEF Blocks

(* Blocks is what the statuses say.                                        *)
LEMMA BlocksIs ==
    ASSUME TypeOK, StatusIsAfter, NEW d \in program.deps
    PROVE  Blocks(d, currentPhase) <=> ~Satisfied(d)
<1>1. d.on \in Entity /\ d.type \in DependType /\ program.kind[d.on] \in Kind
    BY DependencyTypes, EntityTypes
<1>2. PICK s, k, c : s = status[d.on] /\ k = program.kind[d.on] /\ c = Plan[k].supportsChildren
    OBVIOUS
<1>3. s \in 0 .. 3 /\ s = StatusAfter(d.on, currentPhase[d.on])
    BY <1>1, <1>2, EntityTypes DEF StatusIsAfter, EntityStatus, StatusNone, StatusChildrenPartial
<1>4. k = "structType" <=> c
    BY <1>1, <1>2, PlanFacts
<1>5. Satisfied(d) <=> s >= IF d.type = "partial" THEN 1
                            ELSE IF d.type = "childrenPartial" /\ k = "structType" THEN 3 ELSE 2
    BY <1>2, <1>4 DEF Satisfied, Requirement, PlanOf, StatusPartial, StatusComplete, StatusChildrenPartial
<1>6. Blocks(d, currentPhase) <=>
            IF d.type = "partial" THEN s = 0
            ELSE IF d.type = "complete" THEN s < 2
            ELSE IF k = "structType" THEN s < 3 ELSE s < 2
    BY <1>2, <1>3 DEF Blocks, StatusNone, StatusComplete, StatusChildrenPartial
<1> QED
    BY <1>1, <1>3, <1>5, <1>6 DEF DependType

LEMMA InitFixInv ==
    ASSUME Init, TypeOK
    PROVE  FixInv
<1>1. HasNoBrings => StatusIsAfter
    <2> SUFFICES ASSUME HasNoBrings, NEW e \in Entity
                 PROVE  status[e] = StatusAfter(e, currentPhase[e])
        BY DEF StatusIsAfter
    <2>1. PICK k, x : k = program.kind[e] /\ x = PlanOf(e).maxPhase
        OBVIOUS
    <2>2. /\ k # "bringEntity" /\ x \in 1 .. 4 /\ k \in Kind
          /\ k = "broughtModule" => x = 1
        <3>1. k = "broughtModule" => Plan[k] = SinglePlan
            BY DEF Plan, FunctionKind, Kind
        <3>2. k = "broughtModule" => x = 1
            BY <2>1, <3>1 DEF PlanOf, SinglePlan, Entry
        <3> QED
            BY <2>1, <3>2, EntityTypes DEF HasNoBrings
    <2>3. /\ currentPhase[e] = IF k = "broughtModule" THEN 1 ELSE 0
          /\ status[e] = IF k = "broughtModule" THEN 2 ELSE 0
        BY <2>1, <2>2 DEF Init, Created, NoPhase, Groups, StatusComplete, StatusNone
    <2>4. PICK p \in 0 .. 4 : p = currentPhase[e] /\ p <= x
        BY <2>2, <2>3
    <2>5. /\ k = "structType" => StatusAfter(e, p) = IF p = 4 THEN 3 ELSE p
          /\ k = "skill" => StatusAfter(e, p) = p
          /\ k = "doneSkill" => StatusAfter(e, p) = IF p < 2 THEN 0 ELSE p - 1
          /\ k \notin {"structType", "skill", "doneSkill"} =>
                StatusAfter(e, p) =
                    IF p = x \/ (p >= 1 /\ e \in program.off /\ k \in FunctionKind) THEN 2 ELSE 0
        BY <2>1, <2>4, AfterIs
    <2> QED
        BY <2>2, <2>3, <2>4, <2>5
<1>2. LeastInv
    <2> SUFFICES ASSUME NEW at \in [Entity -> 0 .. 4], AtRest(at), NEW e \in Entity
                 PROVE  currentPhase[e] <= at[e]
        BY DEF LeastInv, IsBelow
    <2>1. CASE program.kind[e] = "broughtModule"
        <3>1. at[e] = PlanOf(e).maxPhase
            BY <2>1, DependencyTypes DEF AtRest
        <3>2. currentPhase[e] = 1 /\ PlanOf(e).maxPhase \in 1 .. 4
            BY <2>1, EntityTypes DEF Init, Created
        <3> QED
            BY <3>1, <3>2
    <2>2. CASE program.kind[e] # "broughtModule"
        BY <2>2 DEF Init, Created, NoPhase
    <2> QED
        BY <2>1, <2>2
<1> QED
    BY <1>1, <1>2 DEF FixInv

(* The phases at rest are a matter of the program.                         *)
LEMMA SameRest ==
    ASSUME program' = program
    PROVE  /\ HasNoBrings' <=> HasNoBrings
           /\ \A e, p : StatusAfter(e, p)' = StatusAfter(e, p)
           /\ \A at : AtRest(at)' <=> AtRest(at)
<1>1. \A e, p : StatusAfter(e, p)' = StatusAfter(e, p)
    BY DEF StatusAfter, PlanOf
<1>2. ASSUME NEW d, NEW at
      PROVE  Blocks(d, at)' <=> Blocks(d, at)
    BY <1>1 DEF Blocks
<1>3. \A e : PlanOf(e)' = PlanOf(e)
    BY DEF PlanOf
<1>4. ASSUME NEW at
      PROVE  AtRest(at)' <=> AtRest(at)
    BY <1>2, <1>3 DEF AtRest
<1> QED
    BY <1>1, <1>4 DEF HasNoBrings

(* A phase leaves the status that the phases after it are told by.         *)
LEMMA StatusIsAfterStep ==
    ASSUME IInv, HasNoBrings, StatusIsAfter, program' = program, NEW e \in Entity,
           ~are_all_phases_complete(e), do_next_phase(e)
    PROVE  StatusIsAfter'
<1>0. TypeOK /\ PhaseInv
    BY DEF IInv
<1>1. PICK k, x, c, p, q : /\ k = program.kind[e] /\ x = PlanOf(e).maxPhase
                           /\ c = currentPhase[e] /\ p = NextPhase(e) /\ q = status[e]
    OBVIOUS
<1>2. p = c + 1 /\ c < x /\ p \in 1 .. 4 /\ k \in Kind /\ x \in 1 .. 4 /\ c \in 0 .. 4
    BY <1>0, <1>1, NextPhaseFacts, EntityTypes
<1>3. /\ currentPhase' = [currentPhase EXCEPT ![e] = p] /\ PhaseInv'
    BY <1>0, <1>1, <1>2, PhaseStep
<1>4. /\ \A y \in Entity : y # e => status'[y] = status[y]
      /\ status'[e] = StatusOn(k, p, IF CompletesManually(e, p) THEN StatusComplete ELSE q)
    <2>1. NowBrought(e) = {}
        BY DEF HasNoBrings, NowBrought
    <2>2. status' = [y \in Entity |->
                LET s == IF y \in {} \cup {z \in {e} : CompletesManually(z, p)} THEN StatusComplete ELSE status[y]
                IN  IF y = e THEN StatusOn(k, p, s) ELSE s]
        BY <1>1, <2>1 DEF do_next_phase
    <2> QED
        BY <1>1, <2>2
<1>5. ASSUME NEW y \in Entity, y # e
      PROVE  status'[y] = StatusAfter(y, currentPhase'[y])
    <2>1. currentPhase'[y] = currentPhase[y]
        BY <1>0, <1>3, <1>5 DEF TypeOK
    <2> QED
        BY <1>4, <1>5, <2>1 DEF StatusIsAfter
<1>6. currentPhase'[e] = p
    BY <1>0, <1>3 DEF TypeOK
<1>7. StatusFits(k, p, status'[e])
    BY <1>1, <1>3, <1>6 DEF PhaseInv
<1>8. /\ k = "structType" => StatusAfter(e, p) = IF p = 4 THEN 3 ELSE p
      /\ k = "skill" => StatusAfter(e, p) = p
      /\ k = "doneSkill" => StatusAfter(e, p) = IF p < 2 THEN 0 ELSE p - 1
      /\ k \notin {"structType", "skill", "doneSkill"} =>
            StatusAfter(e, p) =
                IF p = x \/ (p >= 1 /\ e \in program.off /\ k \in FunctionKind) THEN 2 ELSE 0
    BY <1>0, <1>1, <1>2, AfterIs
<1>9. CASE k \in {"structType", "skill", "doneSkill"}
    <2>1. status'[e] = StatusAfter(e, p)
        BY <1>7, <1>8, <1>9 DEF StatusFits
    <2> QED
        BY <1>5, <1>6, <2>1, SameRest DEF StatusIsAfter
<1>10. CASE k \notin {"structType", "skill", "doneSkill"}
    <2>1. PICK r : r = IF e \in program.off /\ k \in FunctionKind THEN 2 ELSE 0
        OBVIOUS
    <2>2. q = IF c >= 1 THEN r ELSE 0
        <3>1. StatusAfter(e, c) = IF c = x \/ (c >= 1 /\ e \in program.off /\ k \in FunctionKind) THEN 2 ELSE 0
            BY <1>0, <1>1, <1>2, <1>10, AfterIs
        <3>2. q = StatusAfter(e, c)
            BY <1>1 DEF StatusIsAfter
        <3> QED
            BY <1>2, <2>1, <3>1, <3>2
    <2>3. CompletesManually(e, p) <=> p = 1 /\ r = 2
        BY <1>1, <2>1 DEF CompletesManually
    <2>4. PICK s : s = IF CompletesManually(e, p) THEN StatusComplete ELSE q
        OBVIOUS
    <2>5. s = r
        BY <1>2, <2>1, <2>2, <2>3, <2>4 DEF StatusComplete
    <2>6. status'[e] = IF p = x THEN 2 ELSE s
        <3>1. /\ Plan[k].phaseToPartial = 0 /\ Plan[k].phaseToCompletion = 0
              /\ Plan[k].phaseToChildrenPartial = 0 /\ Plan[k].supportsChildren = FALSE
              /\ Plan[k].maxPhase = x
            BY <1>1, <1>2, <1>10, PlanFacts DEF PlanOf
        <3>2. StatusOn(k, p, s) = IF p = x THEN 2 ELSE s
            BY <1>2, <3>1 DEF StatusOn, PhaseLast, StatusComplete
        <3> QED
            BY <1>4, <2>4, <3>2
    <2>7. status'[e] = StatusAfter(e, p)
        BY <1>2, <1>8, <1>10, <2>1, <2>5, <2>6
    <2> QED
        BY <1>5, <1>6, <2>7, SameRest DEF StatusIsAfter
<1> QED
    BY <1>9, <1>10

(* An entity that goes on is not at rest, so it stays below.               *)
LEMMA LeastInvStep ==
    ASSUME IInv, StatusIsAfter, LeastInv, program' = program, NEW e \in Entity,
           ~are_all_phases_complete(e), is_ready_for_next_phase(e), do_next_phase(e)
    PROVE  LeastInv'
<1>0. TypeOK /\ PhaseInv
    BY DEF IInv
<1> SUFFICES ASSUME NEW at \in [Entity -> 0 .. 4], AtRest(at), NEW y \in Entity
             PROVE  currentPhase'[y] <= at[y]
    BY SameRest DEF LeastInv, IsBelow
<1>1. \A z \in Entity : currentPhase[z] <= at[z] /\ at[z] <= PlanOf(z).maxPhase
    BY DEF LeastInv, IsBelow, AtRest
<1>2. /\ currentPhase' = [currentPhase EXCEPT ![e] = currentPhase[e] + 1]
      /\ NextPhase(e) = currentPhase[e] + 1 /\ currentPhase[e] < PlanOf(e).maxPhase
    BY <1>0, PhaseStep, NextPhaseFacts
<1>3. currentPhase \in [Entity -> 0 .. 4]
    <2>1. \A z \in Entity : currentPhase[z] \in 0 .. 4
        BY <1>0, <1>1, EntityTypes
    <2> QED
        BY <1>0, <2>1 DEF TypeOK
<1>4. CASE y # e
    BY <1>0, <1>1, <1>2, <1>4 DEF TypeOK
<1>5. CASE y = e
    <2>1. currentPhase[e] # at[e]
        <3> SUFFICES ASSUME currentPhase[e] = at[e] PROVE FALSE
            OBVIOUS
        <3>1. at[e] # PlanOf(e).maxPhase
            BY <1>0, <1>2, EntityTypes
        <3>2. PICK d \in program.deps : d.from = e /\ d.phase = at[e] + 1 /\ Blocks(d, at)
            BY <3>1 DEF AtRest
        <3>3. Blocks(d, currentPhase)
            BY <1>0, <1>1, <1>3, <3>2, BlocksFalls
        <3>4. ~Satisfied(d)
            BY <1>0, <3>3, BlocksIs
        <3> QED
            BY <1>2, <3>2, <3>4 DEF is_ready_for_next_phase
    <2>2. currentPhase'[e] = currentPhase[e] + 1
        BY <1>0, <1>2 DEF TypeOK
    <2> QED
        BY <1>1, <1>3, <1>5, <2>1, <2>2
<1> QED
    BY <1>4, <1>5

LEMMA FixInvStep ==
    ASSUME IInv, FixInv, [Next]_vars
    PROVE  FixInv'
<1>1. ASSUME UNCHANGED <<program, status, currentPhase>>
      PROVE  FixInv'
    BY <1>1, SameRest DEF FixInv, StatusIsAfter, LeastInv, IsBelow
<1>2. ASSUME NEW e \in Entity, Advance(e)
      PROVE  FixInv'
    <2>1. /\ program' = program /\ ~are_all_phases_complete(e) /\ is_ready_for_next_phase(e)
          /\ do_next_phase(e)
        BY <1>2 DEF Advance, Visit
    <2>2. HasNoBrings' <=> HasNoBrings
        BY <2>1, SameRest
    <2>3. HasNoBrings => StatusIsAfter' /\ LeastInv'
        BY <2>1, StatusIsAfterStep, LeastInvStep DEF FixInv
    <2> QED
        BY <2>2, <2>3 DEF FixInv
<1>3. ASSUME NEW e \in Entity, SkipComplete(e) \/ Wait(e) \/ PhaseError(e)
      PROVE  UNCHANGED <<program, status, currentPhase>>
    BY <1>3 DEF SkipComplete, Wait, PhaseError, Visit
<1>4. NextPass \/ EndLoop \/ Ended \/ UNCHANGED vars => UNCHANGED <<program, status, currentPhase>>
    BY DEF NextPass, EndLoop, Ended, vars
<1> QED
    BY <1>1, <1>2, <1>3, <1>4 DEF Next

(* When the loop ends nothing can go on.                                   *)
LEMMA EndsAtRest ==
    ASSUME IInv, StatusIsAfter, outcome \in {"finalised", "unresolved"}
    PROVE  AtRest(currentPhase)
<1>0. TypeOK /\ PhaseInv /\ PassInv
    BY DEF IInv
<1> SUFFICES ASSUME NEW e \in Entity
             PROVE  /\ currentPhase[e] <= PlanOf(e).maxPhase
                    /\ currentPhase[e] # PlanOf(e).maxPhase =>
                          \E d \in program.deps : /\ d.from = e /\ d.phase = currentPhase[e] + 1
                                                  /\ Blocks(d, currentPhase)
    BY DEF AtRest
<1>1. currentPhase[e] <= PlanOf(e).maxPhase
    BY <1>0 DEF PhaseInv
<1>2. are_all_phases_complete(e) \/ ~is_ready_for_next_phase(e)
    BY <1>0 DEF PassInv
<1>3. CASE ~are_all_phases_complete(e)
    <2>1. PICK d \in program.deps : d.from = e /\ d.phase = NextPhase(e) /\ ~Satisfied(d)
        BY <1>2, <1>3 DEF is_ready_for_next_phase
    <2>2. Blocks(d, currentPhase)
        BY <1>0, <2>1, BlocksIs
    <2>3. NextPhase(e) = currentPhase[e] + 1
        BY <1>0, <1>3, NextPhaseFacts
    <2> QED
        BY <1>1, <2>1, <2>2, <2>3
<1> QED
    BY <1>1, <1>3 DEF are_all_phases_complete

(* With no bring sentence the outcome does not depend on the order of the  *)
(* modules or of the declarations in them: what the loop of                *)
(* QatSitter::initialise has emitted when it ends is the least at which    *)
(* nothing can go on, for any number of entities and any dependencies.     *)
THEOREM OrderDoesNotMatter == Spec => []OutcomeIsFixpoint
<1>1. Init => IInv /\ FixInv
    BY InitIInv, InitFixInv DEF IInv
<1>2. IInv /\ FixInv /\ [Next]_vars => FixInv'
    BY FixInvStep
<1>3. IInv /\ FixInv => OutcomeIsFixpoint
    <2> SUFFICES ASSUME IInv, FixInv, HasNoBrings, outcome \in {"finalised", "unresolved"}
                 PROVE  /\ AtRest(currentPhase)
                        /\ LeastInv
                        /\ outcome = "finalised" <=> \A e \in Entity : currentPhase[e] = PlanOf(e).maxPhase
        BY DEF OutcomeIsFixpoint, LeastInv, IsBelow
    <2>1. AtRest(currentPhase) /\ LeastInv
        BY EndsAtRest DEF FixInv
    <2>2. outcome = "finalised" <=> \A e \in Entity : currentPhase[e] = PlanOf(e).maxPhase
        BY DEF IInv, PassInv, are_all_phases_complete
    <2> QED
        BY <2>1, <2>2
<1> QED
    BY <1>1, <1>2, <1>3, InductiveInvariant, PTL DEF Spec
===============================================================================

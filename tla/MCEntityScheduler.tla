--------------------------- MODULE MCEntityScheduler ---------------------------
(***************************************************************************)
(* The programs the entity scheduler is checked on.                        *)
(***************************************************************************)
EXTENDS EntityScheduler, FiniteSets, TLC

(* The subsets of S of at most one and at most two elements.               *)
AtMostOne(S) == {{}} \cup {{x} : x \in S}
AtMostTwo(S) == {{}} \cup {{x, y} : x, y \in S}

CONSTANTS PlainKinds, BringKinds  \* the kinds of the entities of the programs of each sort

AnyUse(kinds, users, used) ==
    {d \in [from : users, on : used, type : DependType, phase : 1 .. 4] :
        d.from # d.on /\ \E k \in kinds : <<d.type, d.phase>> \in Uses[k]}

-----------------------------------------------------------------------------
(* Programs with no bring sentence: three entities of any kinds, one with  *)
(* a false define condition and one dependency, or with a chain or a       *)
(* circle of two dependencies.  Entities after the third have one phase    *)
(* and use nothing.                                                        *)
Main == Entity \cap 1 .. 3

Chained(deps) == \A d, e \in deps : d # e => d.on = e.from \/ e.on = d.from

PlainPrograms ==
    {[kind |-> x[1] @@ [e \in Entity \ Main |-> "single"], off |-> x[2], deps |-> x[3],
      node |-> [e \in Entity |-> e], target |-> [e \in Entity |-> 0]] :
        x \in {y \in [Main -> PlainKinds] \X AtMostOne(Main) \X AtMostTwo(AnyUse(PlainKinds, Main, Main)) :
                    /\ Cardinality(y[2]) + Cardinality(y[3]) <= 2
                    /\ \A e \in y[2] : y[1][e] \in Conditional
                    /\ Chained(y[3])
                    /\ LegalDependencies(y[1], y[3])}}

-----------------------------------------------------------------------------
(* Programs of five entities with one bring sentence of two groups.  The   *)
(* three entries of the sentence follow each other, before, between or     *)
(* after the two other entities, which a group may name and which may use  *)
(* a group or each other.                                                  *)
BringProgram(first, kinds, targets, off, uses) ==
    LET others == <<IF first = 1 THEN 4 ELSE 1, IF first = 3 THEN 2 ELSE 5>>
        at == <<others[1], others[2], first + 1, first + 2>>
        groups == {first + 1, first + 2}
        target == [e \in Entity |->
                    IF e \in groups /\ targets[e - first] # 0
                    THEN others[targets[e - first]] ELSE 0]
        kindAt(e) == CASE e = others[1] -> kinds[1]
                       [] e = others[2] -> kinds[2]
                       [] OTHER -> "bringEntity"
    IN  [kind |-> [e \in Entity |-> kindAt(e)],
         off |-> {others[o] : o \in off},
         node |-> [e \in Entity |-> IF e \in groups THEN first ELSE e],
         target |-> target,
         deps |-> {[d EXCEPT !.from = at[@], !.on = at[@]] : d \in uses} \cup
             {IF target[g] = 0
              THEN [from |-> first, on |-> g, type |-> "complete", phase |-> 1]
              ELSE [from |-> g, on |-> target[g], type |-> "complete", phase |-> 1] :
                 g \in groups}]

(* 1 and 2 stand for the two other entities, 3 and 4 for the groups.       *)
BringPrograms ==
    {BringProgram(x[1], x[2], x[3], x[4], x[5]) :
        x \in {y \in (1 .. 3) \X [{1, 2} -> BringKinds] \X [{1, 2} -> 0 .. 2]
                       \X AtMostOne({1, 2})
                       \X AtMostOne(AnyUse(BringKinds, {1, 2}, 1 .. 4)) :
            LET kinds == [e \in 1 .. 4 |-> IF e <= 2 THEN y[2][e] ELSE "bringEntity"]
            IN  /\ \A e \in y[4] : kinds[e] \in Conditional
                /\ LegalDependencies(kinds, y[5])
                /\ \A i \in {1, 2} : y[3][i] # 0 => kinds[y[3][i]] # "doneSkill"}}

AllPrograms == PlainPrograms \cup BringPrograms
===============================================================================

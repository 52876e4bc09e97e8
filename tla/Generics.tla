------------------------------- MODULE Generics -------------------------------
(***************************************************************************)
(* How the variants of generic structs, functions and type definitions are *)
(* made: fill_generics of each, and what it keeps while it runs.           *)
(*                                                                         *)
(* The declaration of a generic is one syntax tree for all its variants.   *)
(* Its parameters hold their values in stacks of their own; what is asked  *)
(* for inside a variant is made before that variant is finished, and may   *)
(* be another variant of the same generic.  A parameter is reached in      *)
(* three ways: in a type, through the stack; as a name in a list of        *)
(* arguments, through the variant being made, as what it has created or as *)
(* the marker in allActiveGenerics.                                        *)
(*                                                                         *)
(* Parameters are types, without constraints.  Every generic of the        *)
(* program exists before the first variant is asked for.                   *)
(***************************************************************************)
EXTENDS Integers, Sequences, FiniteSets, SequencesExt

CONSTANTS
    Generic,
    Main,       \* what is emitted by itself, and asks for variants
    Programs,   \* kind, defaults and uses of every declaration
    MaxDepth    \* calls of fill_generics, one in the other, that the stack has room for

ASSUME GenericsAssumption == Main \notin Generic /\ MaxDepth \in Nat \ {0}

NoType == [base |-> "none", depth |-> 0]

(* The uses in declaration d give all arguments or none, and name only     *)
(* parameters of d.                                                        *)
LegalUse(p, d, use) ==
    /\ use.of \in Generic
    /\ use.args # <<>> => DOMAIN use.args = DOMAIN p[use.of].defaults
    /\ \A i \in DOMAIN use.args :
          LET arg == use.args[i]
          IN  /\ arg.is \in {"type", "name", "pointer", "default"}
              /\ arg.is \in {"name", "pointer"} => arg.param \in DOMAIN p[d].defaults

ASSUME ProgramsAssumption ==
    \A p \in Programs :
        /\ DOMAIN p = Generic \cup {Main} /\ p[Main].defaults = <<>> /\ p[Main].kind = "main"
        /\ \A g \in Generic : /\ p[g].kind \in {"struct", "function", "definition"}
                               /\ DOMAIN p[g].defaults # {}
        /\ \A d \in DOMAIN p : \A uses \in {p[d].first, p[d].later} :
              /\ uses \in Seq(ToSet(uses))
              /\ \A use \in ToSet(uses) : LegalUse(p, d, use)

VARIABLES
    program,
    values,     \* typeValue, of each parameter of each generic
    known,      \* the parameters that have their defaultType
    active,     \* allActiveGenerics
    opaques,    \* opaqueVariants of each generic
    variants,   \* variants of each generic
    names,      \* variantNames of each generic
    frames,     \* the calls of fill_generics that are not finished, above the emission of Main
    answer,     \* what the last use was given
    outcome

vars == <<program, values, known, active, opaques, variants, names, frames, answer, outcome>>

-----------------------------------------------------------------------------
Top    == Last(frames)
Kind(g) == program[g].kind
Params(g) == DOMAIN program[g].defaults

(* In first: the members of a struct, the signature of a function, what a  *)
(* type definition stands for.  In later: methods, and function bodies.    *)
Uses == IF Top.at = "first" THEN program[Top.of].first ELSE program[Top.of].later
Use  == Uses[Top.next]

Frame(g, full, meant) ==
    [of |-> g, args |-> full, meant |-> meant, at |-> "first", next |-> 1, generics |-> full]

-----------------------------------------------------------------------------
(* TypedGenericAbstract::get_type; NoType where it is not isSet.           *)
DefaultType(g, i) == IF <<g, i>> \in known THEN program[g].defaults[i] ELSE NoType
get_type(g, i) == IF values[g][i] # <<>> THEN Last(values[g][i]) ELSE DefaultType(g, i)
toIRGenericType(g) == [i \in Params(g) |-> get_type(g, i)]

PointerTo(type) == [type EXCEPT !.depth = @ + 1]

(* Mutant: takes the variant that was begun first.                         *)
ByFirstName(i) == IF Top.at = "later" THEN Top.generics[i] ELSE Head(active).args[i]

(* PrerunEntity: the function or the struct it is in, or the marker.       *)
ByName(i) == IF Top.at = "later" THEN Top.generics[i] ELSE Last(active).args[i]

(* FillGeneric::toFill of each argument of a use.                          *)
toFill(use) ==
    [i \in DOMAIN use.args |->
        LET arg == use.args[i]
        IN  CASE arg.is = "type"    -> arg.type
              [] arg.is = "name"    -> ByName(arg.param)
              [] arg.is = "pointer" -> PointerTo(get_type(Top.of, arg.param))
              [] arg.is = "default" -> program[use.of].defaults[i]]

(* PrerunDefault emits the default of a parameter that has no value.       *)
DefaultsAskedFor(use) ==
    {<<use.of, i>> : i \in {k \in DOMAIN use.args :
        use.args[k].is = "default" /\ program[use.of].defaults[k] # NoType}}
MadeKnown(use) == {p \in DefaultsAskedFor(use) : get_type(p[1], p[2]) = NoType}

(* Mutant: a default is emitted where the parameter has a value, not where *)
(* it has none.                                                            *)
NullUnset(use) == \E p \in DefaultsAskedFor(use) \ known : get_type(p[1], p[2]) = NoType

NullDefault(use) == \E p \in DefaultsAskedFor(use) \ known : get_type(p[1], p[2]) # NoType

(* What the use means where it is written, whatever is being made.         *)
Meant(use) ==
    [i \in Params(use.of) |->
        IF use.args = <<>> THEN program[use.of].defaults[i]
        ELSE LET arg == use.args[i]
             IN  CASE arg.is = "type"    -> arg.type
                   [] arg.is = "name"    -> Top.meant[arg.param]
                   [] arg.is = "pointer" -> PointerTo(Top.meant[arg.param])
                   [] arg.is = "default" -> program[use.of].defaults[i]]

-----------------------------------------------------------------------------
(* Mutant: a pointer type is never the same as another.                    *)
FoundPlain(made, list) ==
    {k \in DOMAIN made : made[k].filed = list /\ \A i \in DOMAIN list : list[i].depth = 0}

(* GenericVariant::check: an empty list is never the list of a variant.    *)
Found(made, list) == {k \in DOMAIN made : made[k].filed = list}

Init ==
    /\ program \in Programs
    /\ values = [g \in Generic |-> [i \in Params(g) |-> <<>>]]
    /\ known = {p \in {<<g, i>> : g \in Generic, i \in UNION {Params(g) : g \in Generic}} :
                    /\ p[2] \in Params(p[1]) /\ Kind(p[1]) # "definition"
                    /\ program[p[1]].defaults[p[2]] # NoType}
    /\ active = <<>>
    /\ opaques = [g \in Generic |-> <<>>] /\ variants = [g \in Generic |-> <<>>]
    /\ names = [g \in Generic |-> {}]
    /\ frames = <<[Frame(Main, <<>>, <<>>) EXCEPT !.at = "later"]>>
    /\ answer = <<>> /\ outcome = "running"

Asking == outcome = "running" /\ Top.next <= Len(Uses)
AskedAll == outcome = "running" /\ Top.next > Len(Uses)

End(how) ==
    /\ outcome' = how
    /\ UNCHANGED <<program, values, known, active, opaques, variants, names, frames, answer>>

Advanced(stack) == [stack EXCEPT ![Len(stack)].next = @ + 1]

(* The list is one an earlier variant, or one being made, was filed under. *)
Find ==
    /\ Asking
    /\ ~NullDefault(Use)
    /\ LET g    == Use.of
           list == toFill(Use)
           made == opaques[g] \o variants[g]
       IN  /\ Found(made, list) # {}
           /\ IF /\ Kind(Top.of) = "struct" /\ Top.at = "first" /\ Use.by = "value"
                 /\ Found(opaques[g], list) # {}
              THEN End("incomplete member")
              ELSE /\ answer' = [of |-> g, generics |-> made[Min(Found(made, list))].generics, meant |-> Meant(Use)]
                   /\ frames' = Advanced(frames)
                   /\ known' = known \cup MadeKnown(Use)
                   /\ UNCHANGED <<program, values, active, opaques, variants, names, outcome>>

NotMade(use, list) == Found(opaques[use.of] \o variants[use.of], list) = {}

(* The list with what fill_generics adds for arguments that are left out.  *)
Full(use, list) == IF list = <<>> THEN toIRGenericType(use.of) ELSE list

(* A list is left out only where all parameters have defaults.             *)
HasTypes(use, list) ==
    /\ list = <<>> => NoType \notin Range(program[use.of].defaults)
    /\ NoType \notin Range(Full(use, list))

Refuse ==
    /\ Asking
    /\ ~NullDefault(Use)
    /\ LET g    == Use.of
           list == toFill(Use)
           full == Full(Use, list)
       IN  /\ NotMade(Use, list)
           /\ \/ ~HasTypes(Use, list) /\ End("no type")
              \/ HasTypes(Use, list) /\ full \in names[g] /\ End("repeated name")

(* A default that was never emitted is taken for one that was.             *)
TakeNullDefault == Asking /\ NullDefault(Use) /\ End("undefined")

(* fill_generics, up to the creation of the type, function or definition.  *)
(* The value of each parameter, from here on, is what the full list has.   *)
Begin ==
    /\ Asking
    /\ ~NullDefault(Use)
    /\ LET g       == Use.of
           list    == toFill(Use)
           full    == Full(Use, list)
           pushed  == IF list = <<>> THEN values[g] ELSE [i \in Params(g) |-> Append(values[g][i], full[i])]
       IN  /\ NotMade(Use, list)
           /\ HasTypes(Use, list)
           /\ full \notin names[g]
           /\ IF Len(frames) > MaxDepth THEN End("too deep")
              ELSE /\ UNCHANGED <<program, variants, answer, outcome>>
                   /\ values' = [values EXCEPT ![g] = pushed]
                   /\ known' = known \cup MadeKnown(Use)
                   /\ active' = Append(active, [of |-> g, args |-> full])
                   /\ names' = IF Kind(g) = "struct" THEN [names EXCEPT ![g] = @ \cup {full}] ELSE names
                   /\ opaques' = IF Kind(g) = "struct"
                                 THEN [opaques EXCEPT ![g] = Append(@, [filed |-> full, generics |-> full])]
                                 ELSE opaques
                   /\ frames' = Append(frames, Frame(g, full, Meant(Use)))

(* The struct type takes the place of the opaque it was known as.  A       *)
(* function takes its generics only now, after its signature.              *)
Create ==
    /\ AskedAll
    /\ Top.at = "first"
    /\ LET g    == Top.of
           made == [filed |-> Top.args,
                    generics |-> IF Kind(g) = "function" THEN toIRGenericType(g) ELSE Top.generics]
       IN  /\ frames' = [frames EXCEPT ![Len(frames)] =
                            [@ EXCEPT !.at = "later", !.next = 1, !.generics = made.generics]]
           /\ IF Kind(g) = "struct"
              THEN /\ variants' = [variants EXCEPT ![g] = Append(@, made)]
                   /\ opaques' = [opaques EXCEPT ![g] = Front(@)]
              ELSE UNCHANGED <<variants, opaques>>
    /\ UNCHANGED <<program, values, known, active, names, answer, outcome>>

(* Functions and definitions are filed when all is emitted.  Each          *)
(* parameter gives up a value, whether it was given one or not.            *)
Finish ==
    /\ AskedAll
    /\ Top.at = "later" /\ Top.of # Main
    /\ LET g    == Top.of
           made == [filed |-> Top.args, generics |-> Top.generics]
       IN  IF \E i \in Params(g) : values[g][i] = <<>> THEN End("undefined")
           ELSE /\ variants' = IF Kind(g) = "struct" THEN variants
                               ELSE [variants EXCEPT ![g] = Append(@, made)]
                /\ values' = [values EXCEPT ![g] = [i \in Params(g) |-> Front(@[i])]]
                /\ active' = Front(active)
                /\ frames' = Advanced(Front(frames))
                /\ answer' = [of |-> g, generics |-> made.generics, meant |-> Top.meant]
                /\ UNCHANGED <<program, known, opaques, names, outcome>>

EndMain == AskedAll /\ Top.of = Main /\ End("done")

Next == Find \/ Refuse \/ TakeNullDefault \/ Begin \/ Create \/ Finish \/ EndMain

Spec == Init /\ [][Next]_vars

-----------------------------------------------------------------------------
UsesOf(d) == ToSet(program[d].first) \cup ToSet(program[d].later)
LeftOut == \E d \in Generic \cup {Main} : \E use \in UsesOf(d) : use.args = <<>>

AsksFor(asker, asked) == \E use \in UsesOf(asker) : use.of = asked

(* One gets to another: it is in every set of generics that has what the   *)
(* first asks for, and with each what that asks for.                       *)
Reaches(from, to) ==
    \A reached \in SUBSET Generic :
        (\A g \in Generic : AsksFor(from, g) \/ (\E r \in reached : AsksFor(r, g)) => g \in reached)
            => to \in reached

(* What is found and what is made is the variant that is meant where the   *)
(* use is written: whichever of the three ways a parameter is reached, it  *)
(* has the argument of the innermost variant being made, although others   *)
(* of the same generic are made in between, from the same syntax tree.     *)
(* It does not hold of programs that leave lists of arguments out.         *)
AnswersAreMeant ==
    \/ LeftOut
    \/ /\ answer # <<>> => answer.generics = answer.meant
       /\ \A k \in 2..Len(frames) :
             /\ frames[k].args = frames[k].meant
             /\ frames[k].at = "later" => frames[k].generics = frames[k].meant
       /\ \A g \in Generic : \A made \in ToSet(variants[g]) \cup ToSet(opaques[g]) :
             made.filed = made.generics

(* A variant of a struct is made once, as its opaque is found from inside. *)
(* Functions and definitions are found only when they are finished: one    *)
(* that gets back to itself is made again, within itself.                  *)
MadeOnce ==
    \A g \in Generic :
        LET lists == [k \in DOMAIN (variants[g] \o opaques[g]) |-> (variants[g] \o opaques[g])[k].filed]
        IN  \/ IsInjective(lists)
            \/ Kind(g) # "struct" /\ Reaches(g, g)

(* The C++ stack runs out only where a function or definition is made      *)
(* within itself, or a type grows.                                         *)
DepthIsDeserved ==
    LET Pairs == {p \in (2..Len(frames)) \X (2..Len(frames)) :
                     p[1] < p[2] /\ frames[p[1]].of = frames[p[2]].of}
        MadeInItself == \E p \in Pairs : /\ Kind(frames[p[1]].of) # "struct"
                                         /\ frames[p[1]].args = frames[p[2]].args
        Growing == \E p \in Pairs : \E i \in Params(frames[p[1]].of) :
                      frames[p[1]].args[i].depth < frames[p[2]].args[i].depth
    IN  outcome = "too deep" => MadeInItself \/ Growing

(* A member is of incomplete type only where that type is still getting    *)
(* its members, and the struct of this one is made for them.  A name is    *)
(* repeated, and a parameter gives up a value it was not given, only where *)
(* arguments are left out; the null default is that of a definition which  *)
(* is being made.                                                          *)
ErrorsAreDeserved ==
    /\ outcome = "incomplete member" =>
          /\ Kind(Top.of) = "struct" /\ Top.at = "first"
          /\ \E k \in 2..Len(frames) : /\ frames[k].of = Use.of /\ frames[k].args = toFill(Use)
                                        /\ Kind(frames[k].of) = "struct" /\ frames[k].at = "first"
    /\ outcome = "repeated name" => LeftOut
    /\ outcome = "undefined" =>
          \/ LeftOut
          \/ \E k \in 2..Len(frames) : frames[k].of = Use.of /\ Kind(frames[k].of) = "definition"

(* Why the compiler may end otherwise than with all variants made.         *)
EndsAreDeserved == DepthIsDeserved /\ ErrorsAreDeserved
================================================================================

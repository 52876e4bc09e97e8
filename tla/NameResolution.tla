----------------------------- MODULE NameResolution -----------------------------
(***************************************************************************)
(* How the names of a program are entered, waited for and met: the passes  *)
(* create_entities and update_dependencies over the nodes of every module, *)
(* then the phases of the entities, in any order in which an entity comes  *)
(* after those it waits for (EntityScheduler has the loop that finds such  *)
(* an order).  The nodes are declarations, each with at most one use of a  *)
(* name, and bring sentences; a group with members stands in a sentence as *)
(* one group for each of its leaves.                                       *)
(***************************************************************************)
EXTENDS NameLookup

VARIABLES
    pass,     \* "create", "update" or "emit"
    place,    \* the module, node and group a pass, or handle_brings, is at
    active,   \* the entry being emitted last
    entries,  \* Mod::entityEntries
    waits,    \* the entry that an entry waits for
    created,  \* the entries of functions whose prototype exists
    complete, \* the entries whose status is complete
    already,  \* BroughtGroup::isAlreadyBrought, by the entry of the group
    met,      \* the uses that were emitted: the entry and the entity met
    outcome   \* "running", "done", "stuck", or the error

resolutionVars ==
    <<pass, place, active, entries, waits, created, complete, already, met, outcome>>
vars == <<program, namesVars, resolutionVars>>

(* A path is up:up:a:b:c; a declaration has at most one use.               *)
PathType == [relative : Nat, names : Seq(Name) \ {<<>>}]
Path(relative, names) == [relative |-> relative, names |-> names]
Define(kind, name, spec, uses) ==
    [is |-> "define", kind |-> kind, name |-> name, spec |-> spec, uses |-> uses]
Sentence(groups, spec) == [is |-> "bring", groups |-> groups, spec |-> spec]
Group(path, alias) == [path |-> path, alias |-> alias]

AnyName   == Name \cup {NoName}
GroupType == [path : PathType, alias : AnyName]
SpecType  == {"none", "pub", "file", "lib"}
NodeType  ==
    [is : {"define"}, kind : Kind, name : Name, spec : SpecType, uses : Seq(PathType)]
    \cup [is : {"bring"}, groups : Seq(GroupType) \ {<<>>}, spec : SpecType]
BringType == [mod : Mod, name : AnyName, visibility : Visibility]

(* The modules as files and folders give them, and what is written in them; *)
(* order is that of the passes over the nodes.                             *)
ProgramType ==
    [kind : [Mod -> {"file", "folder", "lib", "rootLib"}], parent : [Mod -> Mod \cup {NoMod}],
     submodules : [Mod -> Seq(Mod)], brings : [Mod -> Seq(BringType)],
     name : [Mod -> AnyName], visibility : [Mod -> Visibility],
     order : Seq(Mod), nodes : [Mod -> Seq(NodeType)]]

ASSUME ProgramsAssumption == \A p \in Programs : p \in ProgramType

NodeOf(m, i) == program.nodes[m][i]

(* An entry belongs to a node and, in a bring sentence, to a group of it;  *)
(* group 0 is the unnamed entry of the sentence.  An entry is known by its *)
(* module and its place there.                                             *)
EntryOf(name, node, group) == [name |-> name, node |-> node, group |-> group]
AllEntries == UNION {{<<m, i>> : i \in DOMAIN entries[m]} : m \in Mod}
Entry(e)   == entries[e[1]][e[2]]
NoEntry    == <<NoMod, 0>>

-----------------------------------------------------------------------------
(* The module a qualifier of a path names.  Bring sentences ask for libs   *)
(* and brought modules, and again whether what they got may be seen;       *)
(* expressions ask for modules in imports too.                             *)
BringQualifier(m, n, who) ==
    LET got == lib(m, n, who) ?? Fetch(has_brought_mod(m, n, who), get_brought_mod(m, n, who))
    IN  IF got.is = "found" /\ ~is_accessible(program.visibility[got.what], who)
        THEN Answer("notAccessible") ELSE got

UseQualifier(m, n, who) ==
    Fetch(has_lib(m, n, who), get_lib(m, n, who)) ?? brought_mod(m, n, who)

(* The module the last name of a path is looked up in.                     *)
Start(m, path) ==
    IF has_nth_parent(m, path.relative) THEN Found(get_nth_parent(m, path.relative))
    ELSE Answer("noParent")

Qualified(m, path, bringing) ==
    LET Qualifier(x, n) == IF bringing THEN BringQualifier(x, n, m) ELSE UseQualifier(x, n, m)
        at[i \in 0 .. Len(path.names) - 1] ==
            IF i = 0 THEN Start(m, path)
            ELSE IF at[i - 1].is # "found" THEN at[i - 1]
            ELSE Qualifier(at[i - 1].what, path.names[i]) ?? Answer("noModule")
    IN  at[Len(path.names) - 1]

(* Mutant: does not look at what is brought.                               *)
EntryInTree(m, n) ==
    LET find[x \in Mod] ==
            LET own == SelectInSeq(entries[x], LAMBDA e : e.name = n)
            IN  IF own # 0 THEN Found(<<x, own>>)
                ELSE InUnnamedSubmodules(x, LAMBDA y : find[y])
    IN  find[m]

(* Mutant: leaves the entries of the module itself out.                    *)
EntryElsewhere(m, n) ==
    LET find[x \in Mod] == LET own == SelectInSeq(entries[x], LAMBDA e : e.name = n)
                           IN  IF own # 0 THEN Found(<<x, own>>) ELSE None
        In(y) == find[y]
    IN  InUnnamedSubmodules(m, In) ?? InUnnamedImports(m, In)

(* Mod::has_entity_with_name and get_entity: an entry of the module, of an *)
(* unnamed submodule or of an unnamed import; visibility is not asked for. *)
EntryNamed(m, n) ==
    LET Answers(x, answer) ==
            LET own == SelectInSeq(entries[x], LAMBDA e : e.name = n)
                In(y) == answer[y]
            IN  IF own # 0 THEN Found(<<x, own>>)
                ELSE InUnnamedSubmodules(x, In) ?? InUnnamedImports(x, In)
    IN  Called(Mod, Answers)[m]

(* The search update_entity_dependencies makes when that finds nothing: it *)
(* goes into libs that are brought without a name too.                     *)
EntryBelow(m, n) ==
    LET Answers(x, answer) ==
            LET In(y)   == EntryNamed(y, n) ?? answer[y]
                Brought(b) == IF b.name = NoName THEN In(b.mod) ELSE None
            IN  InUnnamedSubmodules(x, In) ?? FirstAnswer(broughtModules[x], Brought)
    IN  Called(Mod, Answers)[m]

-----------------------------------------------------------------------------
(* The entities EmitCtx::name_check_in_module looks for when it is given a *)
(* name; brought entities only without an AccessInfo.                      *)
CheckOrder == <<struct_type, generic_struct_type, mix_type, choice_type, type_definition,
                function, prerun_function, generic_function, global, prerun_global, region>>

Taken(s, m, n) ==
    has(s, m, n, m) ?? (has_brought(s.kind, m, n, NoMod) ?? has_in_imports(s, m, n, m))

name_check_in_module(m, n) ==
    has(opaque_type, m, n, m)
        ?? (FirstAnswer(CheckOrder, LAMBDA s : Taken(s, m, n))
        ?? (has_lib(m, n, m) ?? (has_brought_lib(m, n, NoMod) ?? has_lib_in_imports(m, n, m))))

(* The kinds of declarations that ask for this check.                      *)
NameChecked == {"function", "global", "prerun global", "type definition", "opaque type"}

entity_name_check(m, d) == \E i \in DOMAIN entries[m] : entries[m][i].name = d.name

(* What BringEntities finds under the last name of a group, in its order.  *)
BringOrder == <<opaque_type, struct_type, choice_type, mix_type, type_definition, region,
                function, generic_function, generic_struct_type, global, prerun_global,
                prerun_function>>
Bringable(m, n, who) == FirstNamed(BringOrder, m, n, who)

(* What Entity::emit finds under a name: a value, or the error that it is  *)
(* none.                                                                   *)
NotAValue(answer) == IF answer.is = "found" THEN Answer("notAValue") ELSE answer
TypeOrder    == <<struct_type, mix_type, choice_type, flag_type, region, prerun_global,
                  type_definition, prerun_function>>
GenericOrder == <<generic_struct_type, generic_type_def, generic_function>>

ValueNamed(m, n, who) ==
    FirstNamed(<<function, global>>, m, n, who)
        ?? (NotAValue(lib(m, n, who))
        ?? (FirstNamed(TypeOrder, m, n, who)
        ?? (NotAValue(FirstNamed(GenericOrder, m, n, who)) ?? Answer("noEntity"))))

-----------------------------------------------------------------------------
Init ==
    /\ program \in Programs
    /\ defined = [m \in Mod |-> <<>>]
    /\ broughtModules = program.brings
    /\ broughtEntities = [m \in Mod |-> <<>>]
    /\ pass = "create" /\ place = [mod |-> 1, node |-> 1, group |-> 0]
    /\ active = NoEntry
    /\ entries = [m \in Mod |-> <<>>]
    /\ waits = <<>> /\ created = {} /\ complete = {} /\ already = {}
    /\ met = {} /\ outcome = "running"

(* The node the pass is at; a declaration has no groups.                   *)
here == program.order[place.mod]
AtNode == place.mod <= Len(program.order) /\ place.node <= Len(program.nodes[here])
node == NodeOf(here, place.node)
group == node.groups[place.group]

Advance ==
    place' = IF node.is = "bring" /\ place.group < Len(node.groups)
             THEN [place EXCEPT !.group = @ + 1]
             ELSE [place EXCEPT !.node = @ + 1, !.group = 0]

NextModule ==
    /\ outcome = "running" /\ pass # "emit"
    /\ ~AtNode /\ place.mod <= Len(program.order)
    /\ place' = [mod |-> place.mod + 1, node |-> 1, group |-> 0]
    /\ UNCHANGED <<program, namesVars, pass, active, entries, waits, created, complete,
                   already, met, outcome>>

NextPass ==
    /\ outcome = "running" /\ pass # "emit"
    /\ place.mod > Len(program.order)
    /\ pass' = IF pass = "create" THEN "update" ELSE "emit"
    /\ place' = [mod |-> 1, node |-> 1, group |-> 0]
    /\ UNCHANGED <<program, namesVars, active, entries, waits, created, complete, already,
                   met, outcome>>

Fail(error) ==
    /\ outcome' = error
    /\ UNCHANGED <<program, namesVars, pass, place, active, entries, waits, created, complete,
                   already, met>>

-----------------------------------------------------------------------------
(* The pass create_entities.                                               *)
add_entity(name) ==
    entries' = [entries EXCEPT ![here] = Append(@, EntryOf(name, place.node, place.group))]

NewEntry == <<here, Len(entries[here]) + 1>>

CreateDeclaration ==
    /\ outcome = "running" /\ pass = "create" /\ AtNode
    /\ node.is = "define"
    /\ IF entity_name_check(here, node) THEN Fail("nameTaken")
       ELSE /\ add_entity(node.name)
            /\ Advance
            /\ UNCHANGED <<program, namesVars, pass, active, waits, created, complete, already,
                           met, outcome>>

CreateSentence ==
    /\ outcome = "running" /\ pass = "create" /\ AtNode
    /\ node.is = "bring" /\ place.group = 0
    /\ add_entity(NoName)
    /\ Advance
    /\ UNCHANGED <<program, namesVars, pass, active, waits, created, complete, already, met,
                   outcome>>

(* The module a group is looked up in, and the module it names.            *)
GroupParent == Qualified(here, group.path, TRUE)
LastName    == Last(group.path.names)
GroupModule ==
    LET parent == GroupParent
    IN  IF parent.is # "found" THEN parent ELSE BringQualifier(parent.what, LastName, here)
BroughtVisibility == get_visibility_info(here, node.spec)

bring_module(m) ==
    broughtModules' = [broughtModules EXCEPT ![here] =
        Append(@, [mod |-> m, name |-> group.alias, visibility |-> BroughtVisibility])]

(* A group that names a module is brought at once.                         *)
CreateGroup ==
    /\ outcome = "running" /\ pass = "create" /\ AtNode
    /\ node.is = "bring" /\ place.group > 0
    /\ \E target \in {GroupModule} :
          \/ /\ target.is \notin {"found", "none"}
             /\ Fail(target.is)
          \/ /\ target.is = "found" /\ BroughtVisibility = NoMod
             /\ Fail("noParentLib")
          \/ /\ target.is = "none" \/ (target.is = "found" /\ BroughtVisibility # NoMod)
             /\ add_entity(IF group.alias # NoName THEN group.alias ELSE LastName)
             /\ IF target.is = "found"
                THEN /\ bring_module(target.what)
                     /\ complete' = complete \cup {NewEntry}
                     /\ already' = already \cup {NewEntry}
                ELSE UNCHANGED <<broughtModules, complete, already>>
             /\ Advance
             /\ UNCHANGED <<program, defined, broughtEntities, pass, active, waits, created, met,
                            outcome>>

-----------------------------------------------------------------------------
(* The pass update_dependencies.                                           *)
HereEntry ==
    <<here, SelectInSeq(entries[here], LAMBDA e : e.node = place.node /\ e.group = place.group)>>

(* Nothing waits for itself: addDependency drops that.                     *)
WaitFor(answer) ==
    /\ waits' = IF answer.is = "found" /\ answer.what # HereEntry
                THEN [e \in DOMAIN waits \cup {HereEntry} |->
                         IF e \in DOMAIN waits THEN waits[e] ELSE answer.what]
                ELSE waits
    /\ Advance
    /\ UNCHANGED <<program, namesVars, pass, active, entries, created, complete, already, met,
                   outcome>>

UseParent(m, path) == Qualified(m, path, FALSE)

(* A name nothing is found under is left for the emission to report.       *)
UpdateDeclaration ==
    /\ outcome = "running" /\ pass = "update" /\ AtNode
    /\ node.is = "define"
    /\ \E parent \in {IF node.uses = <<>> THEN None ELSE UseParent(here, Head(node.uses))} :
       \E answer \in {IF parent.is # "found" THEN parent
                     ELSE EntryNamed(parent.what, Last(Head(node.uses).names))} :
          IF answer.is \in {"found", "none"} THEN WaitFor(answer) ELSE Fail(answer.is)

UpdateGroup ==
    /\ outcome = "running" /\ pass = "update" /\ AtNode
    /\ node.is = "bring"
    /\ \E target \in {IF place.group = 0 THEN None ELSE GroupModule} :
       \E parent \in {IF place.group = 0 THEN NoMod ELSE GroupParent.what} :
       \E answer \in {IF place.group = 0 \/ target.is = "found" THEN None
                     ELSE IF target.is # "none" THEN target
                     ELSE EntryNamed(parent, LastName)
                             ?? (EntryBelow(parent, LastName) ?? Answer("notRecognised"))} :
          IF answer.is \in {"found", "none"} THEN WaitFor(answer) ELSE Fail(answer.is)

-----------------------------------------------------------------------------
(* The phases.  While handle_brings is under way nothing else is.          *)
Idle == place.group = 0

Ready(e) ==
    /\ outcome = "running" /\ pass = "emit" /\ Idle
    /\ e \in AllEntries \ complete
    /\ e \in DOMAIN waits => waits[e] \in complete

Declaration(e) == NodeOf(e[1], Entry(e).node)
IsDeclaration(e) == Declaration(e).is = "define"

NewEntity(e) ==
    [kind |-> Declaration(e).kind, name |-> Declaration(e).name,
     visibility |-> get_visibility_info(e[1], Declaration(e).spec),
     mod |-> e[1], node |-> Entry(e).node]

(* The errors of a declaration, in the order in which they are found.      *)
DeclarationError(e) ==
    LET d == Declaration(e)
        taken == IF d.kind \in NameChecked THEN name_check_in_module(e[1], d.name) ELSE None
    IN  IF taken.is = "found" THEN Answer("nameInUse")
        ELSE taken ?? (IF NewEntity(e).visibility = NoMod THEN Answer("noParentLib") ELSE None)

(* What the use of a declaration meets; NoMod is found when it has none.   *)
UseMeets(e) ==
    LET path == Head(Declaration(e).uses)
        parent == UseParent(e[1], path)
    IN  IF Declaration(e).uses = <<>> THEN Found(NoMod)
        ELSE IF parent.is # "found" THEN parent
        ELSE ValueNamed(parent.what, Last(path.names), e[1])

define(e) == defined' = [defined EXCEPT ![e[1]] = Append(@, NewEntity(e))]

EmitFails(e, error) ==
    /\ outcome' = error
    /\ active' = e
    /\ UNCHANGED <<program, namesVars, pass, place, entries, waits, created, complete, already,
                   met>>

(* The prototype of a function waits for nothing its body uses.            *)
CreateFunction(e) ==
    /\ outcome = "running" /\ pass = "emit" /\ Idle
    /\ IsDeclaration(e) /\ Declaration(e).kind = "function"
    /\ e \notin created
    /\ \E error \in {DeclarationError(e)} :
          IF error.is # "none" THEN EmitFails(e, error.is)
          ELSE /\ define(e)
               /\ created' = created \cup {e}
               /\ active' = e
               /\ UNCHANGED <<program, broughtModules, broughtEntities, pass, place, entries,
                              waits, complete, already, met, outcome>>

Meets(e, use) ==
    met' = IF Declaration(e).uses = <<>> THEN met
           ELSE met \cup {[entry |-> e, entity |-> use.what]}

EmitBody(e) ==
    /\ Ready(e) /\ e \in created
    /\ \E use \in {UseMeets(e)} :
          IF use.is # "found" THEN EmitFails(e, use.is)
          ELSE /\ Meets(e, use)
               /\ complete' = complete \cup {e}
               /\ active' = e
               /\ UNCHANGED <<program, namesVars, pass, place, entries, waits, created, already,
                              outcome>>

(* Every other declaration is made in one go, after what it uses.          *)
EmitDeclaration(e) ==
    /\ Ready(e) /\ IsDeclaration(e) /\ Declaration(e).kind # "function"
    /\ \E declared \in {DeclarationError(e)}, use \in {UseMeets(e)} :
          IF declared.is # "none" THEN EmitFails(e, declared.is)
          ELSE IF use.is # "found" THEN EmitFails(e, use.is)
          ELSE /\ define(e)
               /\ Meets(e, use)
               /\ complete' = complete \cup {e}
               /\ active' = e
               /\ UNCHANGED <<program, broughtModules, broughtEntities, pass, place, entries,
                              waits, created, already, outcome>>

(* BringEntities::do_phase, whichever entry of the sentence is advanced.   *)
StartBrings(e) ==
    /\ Ready(e) /\ ~IsDeclaration(e)
    /\ active' = e
    /\ place' = [mod |-> SelectInSeq(program.order, LAMBDA m : m = e[1]),
                 node |-> Entry(e).node, group |-> 1]
    /\ UNCHANGED <<program, namesVars, pass, entries, waits, created, complete, already, met,
                   outcome>>

AlreadyBrought == HereEntry \in already

(* The last group done, the entry that was advanced is complete.           *)
GroupDone(brought) ==
    LET last == place.group = Len(node.groups)
    IN  /\ place' = [place EXCEPT !.group = IF last THEN 0 ELSE @ + 1]
        /\ already' = IF brought THEN already \cup {HereEntry} ELSE already
        /\ complete' = complete \cup (IF brought THEN {HereEntry} ELSE {})
                                \cup (IF last THEN {active} ELSE {})

bring_entity(x) ==
    broughtEntities' = [broughtEntities EXCEPT ![here] =
        Append(@, [entity |-> x, name |-> group.alias, visibility |-> BroughtVisibility])]

HandleGroup ==
    /\ outcome = "running" /\ pass = "emit" /\ ~Idle
    /\ \E mod \in {GroupModule} :
       \E target \in {IF mod.is = "none" THEN Bringable(GroupParent.what, LastName, here) ELSE mod} :
          \/ /\ AlreadyBrought \/ target.is = "none"
             /\ GroupDone(FALSE)
             /\ UNCHANGED <<namesVars, outcome>>
          \/ /\ ~AlreadyBrought /\ target.is = "found" /\ BroughtVisibility # NoMod
             /\ IF mod.is = "found" THEN bring_module(target.what) /\ UNCHANGED broughtEntities
                ELSE bring_entity(target.what) /\ UNCHANGED broughtModules
             /\ GroupDone(TRUE)
             /\ UNCHANGED <<defined, outcome>>
          \/ /\ ~AlreadyBrought
             /\ \/ target.is \notin {"none", "found"} /\ outcome' = target.is
                \/ target.is = "found" /\ BroughtVisibility = NoMod /\ outcome' = "noParentLib"
             /\ UNCHANGED <<namesVars, place, already, complete>>
    /\ UNCHANGED <<program, pass, active, entries, waits, created, met>>

Finish ==
    /\ outcome = "running" /\ pass = "emit" /\ Idle
    /\ created = {e \in AllEntries : IsDeclaration(e) /\ Declaration(e).kind = "function"}
    /\ ~\E e \in AllEntries : Ready(e)
    /\ Fail(IF AllEntries = complete THEN "done" ELSE "stuck")

Ended == outcome # "running" /\ UNCHANGED vars

Next ==
    \/ NextModule \/ NextPass
    \/ CreateDeclaration \/ CreateSentence \/ CreateGroup
    \/ UpdateDeclaration \/ UpdateGroup
    \/ \E e \in AllEntries :
          CreateFunction(e) \/ EmitBody(e) \/ EmitDeclaration(e) \/ StartBrings(e)
    \/ HandleGroup
    \/ Finish \/ Ended

Spec == Init /\ [][Next]_vars

-----------------------------------------------------------------------------
(* What the lookups are for, said without them: the modules a lookup in m  *)
(* goes to, and the entities under a name that who may see there.          *)
UnnamedSubmodules(m) == {x \in ToSet(SubmodulesOf(m)) : ~IsLib(x)}
UnnamedImports(m) == {b.mod : b \in {b \in ToSet(broughtModules[m]) : IsUnnamedImport(b)}}
Links(m) == UnnamedSubmodules(m) \cup UnnamedImports(m)

Span(m) ==
    {x \in Mod : \A S \in SUBSET Mod : m \in S /\ (\A y \in S : Links(y) \subseteq S) => x \in S}

GoesRound(m) == \E x \in Span(m) : \E y \in Links(x) : x \in Span(y)

Candidates(k, m, n, who) ==
    UNION {{e \in ToSet(defined[x]) :
                e.kind = k /\ e.name = n /\ is_accessible(e.visibility, who)}
           \cup {b.entity : b \in {b \in ToSet(broughtEntities[x]) :
                /\ b.entity.kind = k
                /\ n = IF b.name = NoName THEN b.entity.name ELSE b.name
                /\ is_accessible(b.visibility, who)
                /\ is_accessible(b.entity.visibility, who)}} : x \in Span(m)}

(* A submodule on the way has an entity under the name, but does not       *)
(* declare it under this name: it has it from elsewhere.                   *)
HasFromElsewhere(k, m, n, who) ==
    \E x \in Span(m) : \E s \in UnnamedSubmodules(x) :
        \E e \in Candidates(k, s, n, who) : e \notin ToSet(defined[s]) \/ e.name # n

KindsInPlay == {e.kind : e \in UNION {ToSet(defined[m]) : m \in Mod}}
NamesInPlay == {Entry(e).name : e \in AllEntries} \ {NoName}

(* The entries a lookup in m can come across under the name.               *)
Meanings(m, n) == {e \in AllEntries : e[1] \in Span(m) /\ Entry(e).name = n}

-----------------------------------------------------------------------------
(* The four functions of a kind agree with each other and with what they   *)
(* are for: a name that is there and may be seen is found, get returns one *)
(* of the entities has has seen, and no null pointer is followed.  Where   *)
(* modules go round, and only there, a lookup overflows: always when the   *)
(* name is nowhere.  Generic struct types that a submodule has only from   *)
(* elsewhere, or by another name, are missed, with a null pointer.         *)
LookupsFindWhatIsThere ==
    outcome # "running" =>
    \A k \in KindsInPlay, m, who \in ToSet(program.order), n \in NamesInPlay :
        LET res == EntityNamed(CHOOSE s \in Schemes : s.kind = k, m, n, who)
            there == Candidates(k, m, n, who)
        IN  CASE res.is = "found"    -> res.what \in there
              [] res.is = "none"     -> there = {} /\ ~GoesRound(m)
              [] res.is = "overflow" -> GoesRound(m)
              [] res.is = "crash"    -> k = "generic struct type" /\ HasFromElsewhere(k, m, n, who)
              [] OTHER             -> FALSE

(* A declaration waits for what it uses: the wait is found in the entries, *)
(* by name only, and the use met later in the lists of entities, by name,  *)
(* kind and visibility.  Where the name has one meaning both find the      *)
(* same, through any number of brings.                                     *)
StandsFor(e, x) ==
    IF IsDeclaration(e) THEN x.mod = e[1] /\ x.node = Entry(e).node
    ELSE \E b \in ToSet(broughtEntities[e[1]]) :
            b.entity = x /\ Entry(e).name = IF b.name = NoName THEN x.name ELSE b.name

UsesMeetWhatTheyWaitFor ==
    \A r \in met :
        LET path == Head(Declaration(r.entry).uses)
            parent == UseParent(r.entry[1], path)
            target == IF r.entry \in DOMAIN waits THEN waits[r.entry] ELSE r.entry
        IN  Cardinality(Meanings(parent.what, Last(path.names))) = 1
            => StandsFor(target, r.entity)

(* When nothing goes on, entries wait for each other in a circle.  A bring *)
(* of a bare name that is not given another finds its own entry before     *)
(* what other modules have, so it waits for nothing, or for an entry of    *)
(* its module before it.                                                   *)
IsBareGroup(e) ==
    /\ ~IsDeclaration(e) /\ Entry(e).group > 0
    /\ LET bare == Declaration(e).groups[Entry(e).group]
       IN  bare.alias = NoName /\ bare.path.relative = 0 /\ Len(bare.path.names) = 1

StuckIsCircleOfWaits ==
    /\ outcome = "stuck" =>
        \E circle \in (SUBSET (DOMAIN waits \ complete)) \ {{}} :
            {waits[e] : e \in circle} = circle
    /\ \A e \in DOMAIN waits :
        IsBareGroup(e) => waits[e][1] = e[1] /\ waits[e][2] < e[2]
================================================================================

------------------------------- MODULE NameLookup -------------------------------
(***************************************************************************)
(* The names of a module: what it declares, the modules and entities       *)
(* brought into it, who may see them, and the lookups of Mod.  For each    *)
(* kind of entity Mod has four functions, has_X, has_brought_X,            *)
(* has_X_in_imports and get_X; every caller asks the first three in this   *)
(* order and then calls the fourth.  The sixteen copies follow one scheme, *)
(* with an exception for generic struct types; libs and brought modules    *)
(* have schemes of their own.                                              *)
(*                                                                         *)
(* A lookup follows unnamed submodules and unnamed brings without a set of *)
(* the modules it has seen: a call made again while it is still open does  *)
(* the same once more, so it never returns.                                *)
(***************************************************************************)
EXTENDS Naturals, SequencesExt

CONSTANTS
    Mod,       \* the modules
    Name,      \* the names of entities and libs
    NoMod, NoName,
    Pub,       \* the visibility that is not tied to a module
    Programs   \* the programs considered

ASSUME ModAssumption == IsFiniteSet(Mod)
ASSUME NoneAssumption == NoMod \notin Mod /\ NoName \notin Name /\ Pub \notin Mod

VARIABLES
    program,         \* the program, chosen once
    defined,         \* the entities of each module, in the order of creation
    broughtModules,  \* Mod::broughtModules
    broughtEntities  \* Mod::broughtFunctions and the other such lists

namesVars == <<defined, broughtModules, broughtEntities>>

Kind == {"opaque type", "struct type", "generic struct type", "mix type", "choice type",
         "flag type", "type definition", "generic type definition", "skill", "generic skill",
         "function", "prerun function", "generic function", "region", "global", "prerun global"}

Visibility == Mod \cup {Pub}

Entity == [kind : Kind, name : Name, visibility : Visibility, mod : Mod, node : Nat]

IsLib(m)      == program.kind[m] \in {"lib", "rootLib"}
SubmodulesOf(m) == program.submodules[m]
ParentOf(m)   == program.parent[m]

-----------------------------------------------------------------------------
Ancestors(m) ==
    LET above[x \in Mod] == IF ParentOf(x) = NoMod THEN {}
                            ELSE {ParentOf(x)} \cup above[ParentOf(x)]
    IN  above[m]

is_parent_mod_of(m, other) == m \in Ancestors(other)

(* Visibility::is_accessible for libs, files and folders; NoMod asks       *)
(* without an AccessInfo.                                                  *)
is_accessible(visibility, who) ==
    \/ visibility = Pub
    \/ who # NoMod /\ (visibility = who \/ is_parent_mod_of(visibility, who))

get_closest_parent_lib(m) ==
    LET up[x \in Mod] == IF IsLib(x) \/ ParentOf(x) = NoMod THEN x ELSE up[ParentOf(x)]
    IN  up[m]

has_parent_lib(m) == IsLib(get_closest_parent_lib(m))

get_parent_file(m) ==
    LET up[x \in Mod] == IF program.kind[x] \in {"file", "rootLib"} \/ ParentOf(x) = NoMod
                         THEN x ELSE up[ParentOf(x)]
    IN  up[m]

(* EmitCtx::get_visibility_info at the top level of a module; NoMod for    *)
(* the error.                                                              *)
get_visibility_info(m, spec) ==
    CASE spec = "pub"  -> Pub
      [] spec = "file" -> get_parent_file(m)
      [] spec = "lib"  -> IF has_parent_lib(m) THEN get_closest_parent_lib(m) ELSE NoMod
      [] spec = "none" -> m

(* A module other than a direct parent is never reached: both functions    *)
(* call themselves on the same module.                                     *)
has_nth_parent(m, n) == n > 0 => ParentOf(m) # NoMod
get_nth_parent(m, n) == IF n = 0 THEN m ELSE ParentOf(m)

-----------------------------------------------------------------------------
(* An answer of a lookup: an entity or a module found; "none"; "nullptr"   *)
(* returned without looking further; "crash", a null pointer followed; or  *)
(* "overflow", a recursion without end.                                    *)
Found(x)  == [is |-> "found", what |-> x]
Answer(s) == [is |-> s, what |-> NoMod]
None      == Answer("none")

answer ?? otherwise == IF answer.is = "none" THEN otherwise ELSE answer

(* The answer of the first member of s that has one.                       *)
FirstOf(answers) ==
    LET first == SelectInSeq(answers, LAMBDA a : a.is # "none")
    IN  IF first = 0 THEN None ELSE answers[first]
FirstAnswer(s, Ask(_)) == FirstOf([i \in DOMAIN s |-> Ask(s[i])])

(* What the caller does with yes and a get: a null pointer is followed.    *)
Fetch(yes, got) ==
    CASE yes.is # "found" -> yes
      [] yes.is = "found" /\ got.is \in {"none", "nullptr"} -> Answer("crash")
      [] OTHER -> got

(* The loops over the unnamed submodules and over the unnamed imports.     *)
IsUnnamedImport(b) == b.name = NoName /\ ~IsLib(b.mod)

InUnnamedSubmodules(m, Ask(_)) ==
    FirstAnswer(SubmodulesOf(m), LAMBDA x : IF IsLib(x) THEN None ELSE Ask(x))
InUnnamedImports(m, Ask(_)) ==
    FirstAnswer(broughtModules[m], LAMBDA b : IF IsUnnamedImport(b) THEN Ask(b.mod) ELSE None)

OwnEntity(k, m, n, who) ==
    FirstAnswer(defined[m], LAMBDA e :
        IF e.kind = k /\ e.name = n /\ is_accessible(e.visibility, who) THEN Found(e) ELSE None)

matchBroughtEntity(b, n, who) ==
    /\ n = IF b.name # NoName THEN b.name ELSE b.entity.name
    /\ is_accessible(b.visibility, who)
    /\ is_accessible(b.entity.visibility, who)

has_brought(k, m, n, who) ==
    FirstAnswer(broughtEntities[m], LAMBDA b :
        IF b.entity.kind = k /\ matchBroughtEntity(b, n, who) THEN Found(b.entity) ELSE None)

(* What the copies for the kinds differ in: the lists they go through, and *)
(* whether get looks into a submodule also for what is brought into it.    *)
(* Mutant: no get does.                                                    *)
OwnScheme(kind) == [kind |-> kind, getsBrought |-> FALSE]

Scheme(kind) == [kind |-> kind, getsBrought |-> TRUE]

opaque_type         == Scheme("opaque type")
struct_type         == Scheme("struct type")
generic_struct_type == [Scheme("generic struct type") EXCEPT !.getsBrought = FALSE]
mix_type            == Scheme("mix type")
choice_type         == Scheme("choice type")
flag_type           == Scheme("flag type")
type_definition     == Scheme("type definition")
generic_type_def    == Scheme("generic type definition")
skill               == Scheme("skill")
generic_skill       == Scheme("generic skill")
function            == Scheme("function")
prerun_function     == Scheme("prerun function")
generic_function    == Scheme("generic function")
region              == Scheme("region")
global              == Scheme("global")
prerun_global       == Scheme("prerun global")

Schemes == {opaque_type, struct_type, generic_struct_type, mix_type, choice_type, flag_type,
            type_definition, generic_type_def, skill, generic_skill, function,
            prerun_function, generic_function, region, global, prerun_global}

(* What calls answer that call each other: Answers says what one does with *)
(* the answers of those it makes.  A call made while it is open overflows. *)
Called(C, Answers(_, _)) ==
    LET answers[open \in SUBSET C] ==
            [c \in C |-> IF c \in open THEN Answer("overflow")
                         ELSE Answers(c, answers[open \cup {c}])]
    IN  answers[{}]

(* The calls a lookup is made of: has_X, has_X_in_imports and get_X; the   *)
(* three questions and what the caller then gets; and what a module that   *)
(* is brought or is a submodule gives.                                     *)
Calls == {"has", "inImports", "get", "known", "named", "import", "inSub"} \X Mod

LookupAnswers(s, n, who, c, answer) ==
    LET m == c[2]
        Known(x)  == answer[<<"known", x>>]
        Import(x) == answer[<<"import", x>>]
        InSub(x)  == answer[<<"inSub", x>>]
        named     == answer[<<"named", m>>]
        inSub     == answer[<<IF s.getsBrought THEN "known" ELSE "has", m>>]
        gotInSub  == answer[<<"get", m>>]
    IN  CASE c[1] = "has" ->
                OwnEntity(s.kind, m, n, who) ?? InUnnamedSubmodules(m, Known)
          [] c[1] = "known" ->
                answer[<<"has", m>>]
                    ?? (has_brought(s.kind, m, n, who) ?? answer[<<"inImports", m>>])
          [] c[1] = "named" -> Fetch(Known(m), answer[<<"get", m>>])
          [] c[1] = "import" ->
                IF named.is = "found" /\ ~is_accessible(named.what.visibility, who)
                THEN None ELSE named
          [] c[1] = "inImports" -> InUnnamedImports(m, Import)
          [] c[1] = "inSub" ->
                IF inSub.is # "found" THEN inSub
                ELSE IF gotInSub.is = "none" THEN Answer("nullptr") ELSE gotInSub
          [] c[1] = "get" ->
                OwnEntity(s.kind, m, n, who)
                    ?? (InUnnamedSubmodules(m, InSub)
                           ?? (has_brought(s.kind, m, n, who) ?? answer[<<"inImports", m>>]))

Lookup(s, n, who) ==
    Called(Calls, LAMBDA c, answer : LookupAnswers(s, n, who, c, answer))

has(s, m, n, who)            == Lookup(s, n, who)[<<"has", m>>]
has_in_imports(s, m, n, who) == Lookup(s, n, who)[<<"inImports", m>>]

(* What a caller finds under a name: the entity of one kind, or of the     *)
(* first kind in an order that has one.                                    *)
EntityNamed(s, m, n, who) == Lookup(s, n, who)[<<"named", m>>]
FirstNamed(order, m, n, who) == FirstAnswer(order, LAMBDA s : EntityNamed(s, m, n, who))

-----------------------------------------------------------------------------
(* The same for modules: a file or a folder has no name in Name.           *)
ModuleSeen(b, n, who) ==
    /\ n = IF b.name # NoName THEN b.name ELSE program.name[b.mod]
    /\ is_accessible(b.visibility, who)
    /\ is_accessible(program.visibility[b.mod], who)

has_brought_lib(m, n, who) ==
    FirstAnswer(broughtModules[m], LAMBDA b :
        IF IsLib(b.mod) /\ ModuleSeen(b, n, who) THEN Found(b.mod) ELSE None)

has_brought_mod(m, n, who) ==
    FirstAnswer(broughtModules[m], LAMBDA b :
        IF ModuleSeen(b, n, who) THEN Found(b.mod) ELSE None)

(* get_lib answers with the unnamed submodule in which it has found the    *)
(* lib.  An import counts when what get finds in it may be seen.           *)
LibAnswers(n, who, c, answer) ==
    LET m == c[2]
        Import(x) == answer[<<"import", x>>]
        InSub(x)  == answer[<<"inSub", x>>]
        known     == answer[<<"known", m>>]
        named     == answer[<<"named", m>>]
    IN  CASE c[1] = "has" -> FirstAnswer(SubmodulesOf(m), InSub)
          [] c[1] = "known" ->
                answer[<<"has", m>>] ?? (has_brought_lib(m, n, who) ?? answer[<<"inImports", m>>])
          [] c[1] = "named" -> Fetch(known, answer[<<"get", m>>])
          [] c[1] = "import" ->
                IF named.is = "found" /\ ~is_accessible(program.visibility[named.what], who)
                THEN None ELSE named
          [] c[1] = "inImports" -> InUnnamedImports(m, Import)
          [] c[1] = "inSub" ->
                IF ~IsLib(m) THEN IF known.is = "found" THEN Found(m) ELSE known
                ELSE IF program.name[m] = n /\ is_accessible(program.visibility[m], who)
                THEN Found(m) ELSE None
          [] c[1] = "get" ->
                FirstAnswer(SubmodulesOf(m), InSub)
                    ?? (has_brought_lib(m, n, who) ?? answer[<<"inImports", m>>])

LibLookup(n, who) == Called(Calls, LAMBDA c, answer : LibAnswers(n, who, c, answer))

has_lib(m, n, who)            == LibLookup(n, who)[<<"has", m>>]
has_lib_in_imports(m, n, who) == LibLookup(n, who)[<<"inImports", m>>]
get_lib(m, n, who)            == LibLookup(n, who)[<<"get", m>>]
lib(m, n, who)                == LibLookup(n, who)[<<"named", m>>]

(* get_brought_mod goes once through the brings, and into an unnamed file  *)
(* or folder before it looks at the brings after it.                       *)
BroughtAnswers(n, who, c, answer) ==
    LET m == c[2]
        Import(x) == answer[<<"import", x>>]
        named     == answer[<<"named", m>>]
        Get(b)    == IF IsUnnamedImport(b) THEN Import(b.mod)
                     ELSE IF /\ n = IF b.name # NoName THEN b.name ELSE program.name[b.mod]
                             /\ is_accessible(b.visibility, who)
                     THEN Found(b.mod) ELSE None
    IN  CASE c[1] = "known" -> has_brought_mod(m, n, who) ?? answer[<<"inImports", m>>]
          [] c[1] = "named" -> Fetch(answer[<<"known", m>>], answer[<<"get", m>>])
          [] c[1] = "import" ->
                IF named.is = "found" /\ ~is_accessible(program.visibility[named.what], who)
                THEN None ELSE named
          [] c[1] = "inImports" -> InUnnamedImports(m, Import)
          [] c[1] = "get" -> FirstAnswer(broughtModules[m], Get)

(* It has no more calls than these.                                        *)
BroughtCalls == {"known", "named", "import", "inImports", "get"} \X Mod

BroughtLookup(n, who) ==
    Called(BroughtCalls, LAMBDA c, answer : BroughtAnswers(n, who, c, answer))

get_brought_mod(m, n, who) == BroughtLookup(n, who)[<<"get", m>>]
brought_mod(m, n, who)     == BroughtLookup(n, who)[<<"named", m>>]
================================================================================

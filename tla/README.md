# The qat compiler in TLA+

qat is a compiler written in C++. It reads the files of a project, builds a tree
of modules from them, emits the top-level declarations of all modules to LLVM IR
in phases, and calls clang and lld on the result. It is one process and one
thread: what is hard about it is not concurrency but *order*. Declarations may
be written in any order and in any file, so the compiler keeps, for each of
them, how far it has come and what it waits for, and goes round until everything
is emitted or nothing can go on.

This directory holds TLA+ modules that model that machinery, the TLC runs that
check them on small programs, and theorems that TLAPS proves for programs of any
size. Paths are below `src/src/` of the repository.

## Reading order

| module | what it is |
|---|---|
| `Declarations` | the kinds of declarations: plans of phases, dependencies, conditions |
| `EntityState` | programs, `ir::EntityState`, readiness for the next phase |
| `PhaseOrder` | what the scheduler promises (abstract specification) |
| `EntityScheduler` | the loop of `QatSitter::initialise`, and its properties |
| `MCEntityScheduler` | the programs TLC checks |
| `EntityScheduler_proofs` | theorems about the scheduler |
| `FileModules` | `QatSitter::handle_path` and the tree of modules it builds |
| `NodePasses` | the passes of `QatSitter::initialise` over that tree, and its properties |
| `MCNodePasses` | the projects TLC checks |
| `NodePasses_proofs` | theorems about the tree, its paths, what brings do and the order of the passes |
| `NameLookup` | the `has_`, `has_brought_`, `has_*_in_imports` and `get_` functions of `Mod`, and visibility |
| `NameResolution` | entries, waits, brings and uses of names, from `create_entity` to emission |
| `MCNameResolution` | the programs TLC checks |
| `NameResolution_proofs` | theorems about lookups and waits |
| `BlockTree` | the blocks of a function, their links, locals and instructions |
| `FunctionSentences` | the sentences of a function |
| `FunctionEmission` | the emission of a function, and the run of what is emitted |
| `MCFunctionEmission` | the functions TLC checks |
| `FunctionEmission_proofs` | theorems about the blocks that are closed and the names seen |
| `ValueTypes` | what a type does to copy, move and destroy its values |
| `LocalValues` | the locals of a function, copied, moved and destroyed |
| `MCLocalValues` | the types TLC checks |
| `LocalValues_proofs` | theorems about what the locals hold |
| `Generics` | the variants of generic structs, functions and type definitions |
| `MCGenerics` | the programs TLC checks |
| `Generics_proofs` | theorems about variants |
| `PrerunProgram` | prerun functions: values, sentences, the counts of loops |
| `PrerunMeaning` | what the sentences mean (abstract specification) |
| `PrerunCalls` | the interpreter of prerun functions |
| `MCPrerunCalls` | the programs TLC checks, and a reader's reference |
| `PrerunCalls_proofs` | theorems about the records and blocks of calls |
| `RegionObjects` | what the allocator promises (abstract specification) |
| `QatRegion` | the allocator |
| `MCQatRegion` | its instance |
| `QatRegion_proofs` | theorems about the allocator |
| `Tokens` | tokens, and the functions of the parser that look for one |
| `Parser` | the readers of types, prerun expressions, expressions and sentences |
| `TypeWriting` | `to_string` of types and prerun expressions, as tokens |
| `Reading` | a reader that is handed a text, and what it makes of it |
| `MCReading` | the texts TLC checks |

## Inventory

| component | state it keeps | operations |
|---|---|---|
| **Entity scheduler** (`sitter.cc` 133-213, `IR/qat_module.hpp` 283-420, `IR/qat_module.cc` 66-85, `IR/emit_phase.hpp`) | per declaration: status, current phase, plan of phases, dependencies, iterations; per pass: `atleastOneEntityDone`, `hasIncompleteEntities` | `addDependency`, `is_ready_for_next_phase`, `do_next_phase`, `complete_manually`, the loop |
| **Top-level declarations** (`ast/define_*.cc`, `ast/function.cc`, `ast/do_skill.cc`, ...) | the node of the syntax tree, what it has created in its module | `create_entity`, `update_entity_dependencies`, `do_phase` |
| **Bring sentences** (`ast/bring_entities.cc`, `ast/bring_paths.cc`) | the groups of the sentence, each with its entity; the brought lists of the module | `handle_fs_brings`, `create_entity`, `handle_brings`, `BroughtGroup::bring` |
| **Module graph and lookup** (`IR/qat_module.*`) | parent, submodules, brought modules and entities, entity entries | `has_*`/`get_*` lookups, `get_nth_parent`, lib creation and closing |
| **File discovery and node passes** (`sitter.cc` 92-131 and 365-555, `qat_module.cc` 2217-2316) | `Mod::allModules`, `fileEntities`, once-only flags of a module | `handle_path`, `remove_entity_with_path`, the four passes over nodes, `setup_llvm_file` |
| **QatRegion allocator** (`utils/qat_region.*`) | block lists of the threads, offset in each block | `getMemory`, `destroyAllBlocks` |
| **Functions, blocks, control flow** (`IR/function.cc`, `IR/logic.cc`, `IR/control_flow.cc`) | tree of blocks, locals, moved and alive values | block creation, moves, destruction at the end of a scope |
| **Generics** (`IR/generics.cc`, `IR/generic_variant.hpp`, `fill_generics` of three classes, `ast/types/typed_generic.cc`) | variants and opaque variants of each generic, values of each parameter, the stack of active generics | variant lookup and creation, defaults |
| **Error reporting** (`IR/context.cc`) | errors and warnings, modules with errors | `Error`, `add_error`, `finalise_errors` |
| **Skills** (`IR/skill.cc`, `ast/do_skill.cc`) | implementations of a skill per type | matching of types and methods |
| **Prerun functions** (`IR/prerun_function.*`, `ast/prerun_sentences/`) | the state of a call: loop records, blocks; exceptions | `call_prerun`, the prerun sentences |
| **Types** (`IR/types/`) | at run time, the tag and the data of every value; while compiling, the layout | copy and move construction and assignment, destruction |
| **Expressions and sentences** | - | emission of LLVM instructions |
| **Parser** (`parser/parser.cc`) | position in the tokens; the symbol and the expression that are kept for a later token | `do_type`, `do_prerun_expression`, `do_expression`, `do_sentences`, ... |
| **Lexer** | position in the text | translation |
| **Command line, JSON, linking** | configuration | input and output |

How they interact. `QatSitter::initialise` finds the files (`handle_path`, which
runs lexer and parser), runs the passes over the nodes of all modules (brings of
files, creation of libs, `create_entity`, `update_entity_dependencies`), then the
scheduler. The scheduler calls the `do_phase` of the declaration an entity
belongs to; the declaration looks other entities up by name in the module graph,
adds what it emits to its module, and may set the status of its own entity
(`complete_manually`) or of those of a bring sentence (`BroughtGroup::bring`).
Errors go to the context, which ends the process. After the scheduler,
compilation to objects and linking work module by module.

Hard behaviour. All shared state is global to the process and changed through
calls several levels deep: the flags of a pass by what a phase returns, the
status of an entity by its own phase while `do_next_phase` still holds values it
read before, `fileEntities` by files found while it is walked, the brought lists
while lookups go through them. No test of the repository exercises it: there is
no test-suite. What makes each part correct:

- *scheduler*: never a phase before its dependencies; no status taken back; the
  loop ends; it gives up only when nothing can go on; the outcome does not
  depend on the order of modules and declarations.
- *declarations*: a status stands for work that is done, so a dependent finds
  what it was told to wait for.
- *brings*: every group is brought before code generation or reported; a group is
  complete only when its target is.
- *module graph*: lookups end; a name means the same however the module is
  reached; parents and submodules agree.
- *files and passes*: every file in use becomes one module with one parent and is
  visited once by each pass, whatever order the paths are given in.
- *allocator*: objects do not overlap, stay in their block, and are destroyed once.
- *blocks*: every live local is destroyed exactly once on every way out of a scope.
- *values*: what a value owns is made, handed over and destroyed once, whatever the
  type is made of, and its tag says what is in its data.
- *generics*: one variant per set of arguments, the stack of active generics is
  balanced; *errors*: reporting ends, also on modules that bring each other.
- *parser*: what is written is read as it was meant, to its end and once; reading ends.

`PROJECT.json` lists under "hazards" the places where these can go wrong, at the
line where they bite, with the properties that cover them or the part of the plan
that will.

## Plan

| part | modules | abstract specification, composition | theorems |
|---|---|---|---|
| A scheduler (**done**) | `Declarations`, `EntityState`, `EntityScheduler` | `PhaseOrder`, implemented by `EntityScheduler` | all its safety properties proved |
| B names (**done**) | `NameLookup`, `NameResolution` | lookup as reachability (`Span`, `Candidates`); rests on the tree of C and on what A schedules | `LookupsFindWhatIsThere`, `StuckIsCircleOfWaits` proved |
| C files and passes (**done**) | `FileModules`, extended by `NodePasses` | stated as invariants | the tree, one module per path, the effects of brings, the cycles: proved |
| D allocator (**done**) | `QatRegion` | `RegionObjects`, implemented by `QatRegion` | the refinement, and that every block is freed once: proved |
| E blocks and ownership (**done**) | `BlockTree`, `FunctionSentences`, extended by `FunctionEmission` | the run of the emitted instructions is the judge of the emission | `BlocksAreClosed`, `VisibleIsInScope` proved |
| H prerun (**done**) | `PrerunProgram`, extended by `PrerunCalls` | `PrerunMeaning`, implemented by `PrerunCalls` | `LoopRecordsMatch`, `ActiveBlockIsReached` proved |
| I values (**done**) | `ValueTypes`, extended by `LocalValues` | the resources that owners hold are the judge of what types do | its three properties proved, for all types but a mix |
| F generics (**done**) | `Generics` | what a use means (`Meant`), carried beside what the compiler computes | `MadeOnce`, `AnswersAreMeant`, `ErrorsAreDeserved` proved |
| P reading (**done**) | `Tokens`, `Parser`, `TypeWriting`, used by `Reading` | the text that is written is the judge of what is read | none: the readers are recursive |
| G later | | skills, order of `compile_to_object` and `bundle_modules` | |

The order follows what everything else rests on: A decides what is emitted and
when, B and C decide what A is given, E and H work inside one phase, I in what E
emits, F where a phase makes further entities, D below all.

## Part A: the scheduler of declarations

### Model and code of part A

`EntityState` is `ir::EntityState` of all entities as functions over `Entity`:
`status` and `currentPhase`. A *program* is a record chosen by the initial state
and constant after it: the kind of each entity, the dependencies, the entities
whose define condition is false, and the entries of bring sentences (`node`,
`target`). `ProgramType` is the set of programs the passes before the loop can
produce: which phases a declaration ties which dependencies to is `Uses`, read
from each `update_entity_dependencies`; `LegalBrings` is what
`BringEntities::create_entity` leaves. The names, types and values inside the
declarations are not modelled: a dependency is all the scheduler sees of them.
`Declarations!Plan` are the `maxPhase`, `phaseToPartial`, `phaseToCompletion`
and `phaseToChildrenPartial` of the `create_entity` of each kind, and
`StatusOn` is the status `do_next_phase` derives from them. `CreationPhase` is
the phase in which `do_phase` adds to the module what others look up by name.

`EntityScheduler` is the loop. One step is one visit:

| action | code |
|---|---|
| `SkipComplete`, `Wait`, `Advance` | the body for one entity (`sitter.cc` 138-161): complete already; not ready; ready, `do_next_phase` |
| `do_next_phase` | `qat_module.cc` 66-85 with the `do_phase` it calls: statuses set by the node first (`complete_manually`, the groups `handle_brings` brings), then `currentPhase` and the status of the plan |
| `NowBrought` | `BringEntities::handle_brings`: whichever entry of a sentence advances, the whole sentence is handled, and groups whose target cannot be found are passed over |
| `NextPass`, `EndLoop` | the condition and the end of the loop, and the decision between code generation and the report of unresolved dependencies |
| `PhaseError` | `Ctx::Error` out of `do_phase`, at any ready entity |

`emitted` (phases that did work) and `brought` (groups brought) are what the
properties look at; the code has them as the contents of modules.

What a reader of the code may not expect: the unnamed entry of a bring sentence
waits only for groups that name modules, and brings all of them, so that a group is
complete while the struct it names is still an opaque type, against the group's own
dependency (a comment at `bring_entities.cc:470` fears as much).

Left out: a group that names another group, or, through an unqualified name, its
own entry (part B); entities created while the loop runs (generic variants, which
do not enter `entityEntries`: part F); the texts of errors.

### Runs of part A

| run | programs | what it shows |
|---|---|---|
| `scheduler_passes` | all programs of 3 structs and functions, up to 2 dependencies of every type and phase, up to one false condition; and a bring sentence with 2 groups and two declarations of any of 6 kinds, in every order, with up to one further dependency | `PhasesHaveDeps`, `StatusNeverFalls`: a dependency that was satisfied when its phase ran stays so, although three places assign a status. `UnresolvedIsCircularWait`: the loop gives up only on a circular wait. `OutcomeIsFixpoint`: the result is the least at which nothing can go on, whatever the order. `NeedsExist`: what a phase depends on has been created when it runs. `BringsSettled`: no group is passed over for good, although `handle_brings` runs when its target may not be there. `Termination`: it ends. `ImplementsPhaseOrder` |
| `finding_*` | | see Findings |

Why the bounds are enough. The statement of `is_ready_for_next_phase` is about one
entity and one dependency at a time; two dependencies among three entities give
chains, forks, joins and a circle of two, and an entity beside them that keeps the
pass flags set; structs (four phases, three statuses, children) and functions (no
`phaseToPartial`, a condition that completes manually) are the two extreme plans.
Five entities are the least that put a whole sentence with its unnamed entry
before, between and after two declarations. The proofs then remove the bounds for
the safety properties.

Fairness is `WF_vars(Next)`: the compiler is a single sequential program that does
not wait for anything, so it takes its next step. `Ended` is the state in which it
has left the loop; deadlock is checked in all runs.

### Proofs of part A

`EntityScheduler_proofs` proves, for every number of entities and every set of
programs (`NumEntitiesAssumption`: a natural number; `ProgramsAssumption`: programs
are of `ProgramType`):

| theorem | property |
|---|---|
| `TypeCorrect` | `TypeOK`, which no run checks as the proof does |
| `DependenciesRespected` | `PhasesHaveDeps` |
| `StatusesRise` | `StatusNeverFalls` |
| `GivesUpOnlyOnCycles` | `UnresolvedIsCircularWait` |
| `Refinement` | `ImplementsPhaseOrder` |
| `NeedsAreThere` | `NeedsExist` |
| `BringsAreSettled` | `BringsSettled` |
| `OrderDoesNotMatter` | `OutcomeIsFixpoint` |

None of these is inductive. The argument goes through `IInv == TypeOK /\ PhaseInv
/\ PhasesHaveDeps /\ PassInv`. `PhaseInv` ties the status to the phase
(`StatusFits`): an entity that has run its last phase has the greatest status of its
kind, one between phases has no more than its plan gave it - unless something
completed it from outside - so the assignment at the end of `do_next_phase` can
only raise it. `PassInv` says what the two flags know of the entities before the
cursor: no incomplete one when `hasIncompleteEntities` is false, and when
`atleastOneEntityDone` is false every incomplete one was found not ready in the
state as it still is. `EndLoop` follows from it at the end of the pass.
The second invariant, `ExistInv == PhasesDone /\ PlainComplete /\ GroupsBrought`, says
that statuses stand for work: the phases run were emitted unless switched off,
only entities whose last phase has run or that were completed manually are
complete, and a complete group is brought, names a module, or is absent.

`OutcomeIsFixpoint` compares the end of the loop with all assignments of phases in which
nothing can go on (`AtRest`), which know nothing of modules, passes or the order of
visits: it is the least of them, so any order would end there. Two invariants give it
(`FixInv`): with no bring sentence the status of an entity is what its phase says
(`StatusIsAfter`), and no entity has gone further than in any assignment at rest
(`LeastInv`). For the step of an entity that stands where the assignment has it: there
some dependency blocks it, statuses only rise with phases (`AfterRises`), so less done
blocks it too (`BlocksFalls`) and it was not ready. With a bring sentence a status is
no longer a matter of the entity's phase, as `handle_brings` completes groups of others.

Model-checked only: `Termination` (liveness).

## Part C: files, modules and the passes over them

### Model and code of part C

A *project* is a record chosen by the initial state: which path is in which
directory (`above`), which paths are directories or lib files, which file brings
which path, as a member or not, inside a lib or not, and the paths on the command
line. What a file says besides its bring sentences is not modelled. The order in
which `fs::directory_iterator` gives the items of a directory is chosen freely.

`FileModules` is `handle_path`. `allModules`, `parent`, `submodules` are the
members of `Mod` of these names, a module being its place in `allModules`;
`fileEntities` is the member of `QatSitter`. `calls` is the stack of its calls:
each holds the directories its `recursiveModuleCreator` is walking and the lists
`broughtPaths` and `memberPaths`.

| action | code |
|---|---|
| `HandleArgument` | one path of the command line, or the standard library (`sitter.cc` 97-110) |
| `EnterDirectory`, `EnterFile`, `EnterKnown` | the three starts of `handle_path` (486-546); a directory with a lib file becomes a file module, and none of its own |
| `WalkFolder`, `LeaveFolder` | one item of a directory, and the end of a directory (405-485) |
| `FollowBring`, `RemoveMember`, `LeaveCall` | the two loops at the end of `handle_path` (547-554), with `remove_entity_with_path` |

`NodePasses` runs, after discovery, the passes over `fileEntities` (`sitter.cc`
115-131 and 214-216): brings of files, creation of libs, creation of entities, their
dependencies, and the output of LLVM modules. `visits` is the stack of the recursion
in `node_handle_fs_brings`, `node_create_modules` and the others
(`qat_module.cc` 2217-2316), `visited` the once-only flags with the order in which
they were set. The scheduler of part A runs between pass 4 and pass 5, and is not
repeated here: it neither makes modules nor moves them.

| action | code |
|---|---|
| `StartPass`, `VisitEntity` | the loops of `initialise` |
| `HandleBring` | `BringPaths::handle_fs_brings` for a path: a module that is not found or has a parent already is an error |
| `CreateLib` | `Lib::create_module` |
| `VisitSubmodule`, `LeaveModule` | the recursion over `submodules`; the pass that writes LLVM modules has no flag, and a module visited within itself is the outcome `"overflow"` |

Left out: the output directory inside the project, illegal names of libs, aliases of
paths and their name checks, more than one lib in a file, libs in libs, files without
`.qat`, mention lists.

### Runs of part C

`files_passes`: four paths in every arrangement of directories without empty ones,
with at most one lib file; no bring, one bring of every form (from any file, of any
path, as a member, inside a lib), or two brings outside libs; one or two arguments
(with two brings, the first or the last path). Over a million states.

| property | what it shows |
|---|---|
| `TreeConsistent` | parents and submodules agree, although `addMember`, three creators and the libs set them |
| `OneModulePerPath` | a path becomes a module once, whatever names it; but the lib file of a directory may become a second module, as the directory is not looked up by it |
| `PassesAgree` | the four passes visit the same modules in the same order, although modules are hung into the tree while passes 1 and 2 walk it |
| `BringsTakeEffect` | a bring of a file makes a submodule or a brought module, wherever the module was found; one that finds no module is of a directory with a lib file |
| `OverflowIsMemberCycle` | the output of LLVM modules does not go round for ever unless the files hold each other in a circle |
| `Termination` | discovery and passes end, also when files bring each other |

Four paths are the least that allow a directory in a directory with a lib file and a
file beside it that brings them, or three files that bring each other round; two
brings give circles, two parents for one module, and a member brought before and
after its directory is walked. More paths repeat these, since each step of the code
looks at one path, the module it belongs to and the module of the file that names it.
One kind of project is left out of the inputs: a lib file that brings the directory
it is in. `handle_path` makes no module for such a directory, finds the lib file
again, and does not end (a hazard in `PROJECT.json`).

Fairness is `WF_vars(Next)`, as in part A.

### Proofs of part C

`NodePasses_proofs` proves, for every number of paths and every set of projects of
`ProjectType` (`NumPathsAssumption`, `ProjectsAssumption`):

| theorem | property |
|---|---|
| `TreeIsConsistent` | `TreeConsistent` |
| `PathsAreModulesOnce` | `OneModulePerPath` |
| `BringsAreDone` | `BringsTakeEffect` |
| `OnlyCyclesOverflow` | `OverflowIsMemberCycle` |
| `PassesMeetTheSame` | `PassesAgree` |

Six invariants, each resting on those before it:

- `TreeInv`. `TreeConsistent` alone is not inductive: a step that hangs a module under
  another uses a number it has kept from before. `TreeInv` adds that every such number -
  in the walks of every call of `handle_path` on the stack (`Walks`), in `fileEntities`,
  in the visits of a pass - is one of a module that exists, and remains so as modules
  are added; that the lists are as long as `allModules`; and that a module without a
  parent is in no list, so that `addMember` and the creators put it into exactly one.
- `PathsInv`: directories become folders, what is no directory becomes a file or a
  root lib. Each creator looks for the kind it makes before it makes it, and the
  two kinds that exclude each other are told apart by what the path is.
- `EffectInv`: a bring that the first pass is through with (`Through`, by the position of
  the visit on the stack) has made a submodule or a record, which no later step takes
  back. With `outcome = "done"` all modules have been left, so this holds for all brings.
- `FoundInv`: what a file brings is found, or pending in the lists of a call of `handle_path`
  that will follow it (`Found`, `Pending`); the calls are over when the passes
  begin, so nothing is pending then. The exception is a directory with a lib file, which is walked
  and becomes no module.
- `HeldInv`: a submodule is a member of its parent because the path of the parent
  *holds* its path, as an item of the directory or by a bring of the file. The visits
  on the stack go down such pairs (`Descent`), so a module that is met within
  itself closes a circle of paths (`DescentCloses`). Pairs of paths, not of modules: two
  modules may have one path, a lib file that is met by itself.

The brings of a file are `BringsAt`, a function and not a filter, as nothing is known
to the provers of `SelectSeq`.

- `OrderInv`: the order in which a pass meets the modules is told by the tree alone. After
  the first k of them it goes on with the first one not met yet below the latest module
  that has one, or else with the first such entity of the project (`IsNext`); the list
  of a pass is `Ordered` when each of its modules is the next one, and `Exhausted` when
  nothing is next. Two lists that are both are equal (`SameOrder`), so what must be
  shown is that each pass keeps to this order (`Progress`, over the visits on the stack)
  and that the tree it is told by does not change under a pass that has gone by.
  Passes 1 and 2 do change it, but only below the module entered last, whose
  submodules no one has looked at (`NodesComeFirst`); and what pass 2 adds are libs, which
  have nothing below them, so that the order without them is that of pass 1 (`Thinned`).

Only `Termination`, which is liveness, stays with TLC.

## Part B: names

### Model and code of part B

A *program* is a tree of modules (files, a folder, a lib, with the modules each
brings) and, in each module, declarations and bring sentences. A declaration has a
kind, a name, a visibility as written, and the path of one name it uses; a
sentence has groups of paths with an alias each.

`NameLookup` holds what a module has (`defined`, `broughtModules`,
`broughtEntities`, the vectors of `Mod`) and the lookups. The code repeats four
functions for each of fifteen kinds: `has_K`, `has_brought_K`,
`has_K_in_imports` and `get_K`. They are alike but for details, and the details
are the `Scheme` of a kind: `LookupAnswers` says what each of the functions answers,
given the answers of the calls it makes, and `Called` ties the knot, with an overflow
for a call that is made while it is open. A call is a function and a module, so
there are finitely many (`ModAssumption`), and `Called` is a recursive function. A lookup
has the results `"found"`, `"none"`, `"overflow"` (recursion through modules
that bring each other without a name) and `"crash"` (a null pointer followed).
`has_lib`, `get_lib`, `has_brought_mod` and `get_brought_mod` are modelled on
their own; they differ in what they look at and in what they return.

`NameResolution` runs three passes:

| action | code |
|---|---|
| `CreateDeclaration`, `CreateSentence`, `CreateGroup` | `create_entity`: `entity_name_check`, `add_entity`; for a group, the module path is followed, and a group that names a module is brought at once |
| `UpdateDeclaration`, `UpdateGroup` | `update_entity_dependencies`: what an entity waits for is looked up in the *entries*, by name alone |
| `CreateFunction`, `EmitBody`, `EmitDeclaration` | `do_phase`: `name_check_in_module`, the entity, and the name it uses, looked up in the lists by kind, name and visibility |
| `StartBrings`, `HandleGroup` | `BringEntities::handle_brings`, one group a step |
| `NextModule`, `NextPass`, `Finish` | the loops of `initialise`; the scheduler of part A is reduced to "some ready entity goes on" |

### Run of part B

`name_lookups`: trees of three files, a folder and a lib, with the brings in a
chain, in a ring (two files bring each other) and through a folder; in each
program up to three modules declare, use and bring the names `main`, `x`, `y`
and `n`, under every written visibility. About 110 000 states.

| property | what it shows |
|---|---|
| `LookupsFindWhatIsThere` | the four functions of a kind agree with each other and with reachability; a lookup goes round only where modules do; one kind follows a null pointer, where what it looks for is brought into a submodule or a bring leads to it |
| `UsesMeetWhatTheyWaitFor` | where a name has one meaning, the entry waited for in the second pass is the entity met at emission |
| `StuckIsCircleOfWaits` | nothing goes on only if entries wait in a circle; a bring of a bare name waits for nothing but an earlier entry of its own module |

The bounds: three files are the least that make a name reachable in two ways and
through two brings; one lib and one folder give named and unnamed submodules; a
fourth name would repeat the third, as every step compares a name with one other.

What a reader of the code may not expect, all in the model: the lookups in
imports ignore the visibility with which a module was brought; the name check
asks for brought entities without an `AccessInfo`, so that a global can take the
name of a function brought into its module, and leaves out some kinds; `get_lib` returns the unnamed submodule that has the lib and not the
lib; a relative path reaches the direct parent, whatever its number; a bring of
a bare name finds the entry it has just made, and the dependency on itself is
dropped; two functions that use each other wait for ever, as functions have no
partial status.

Left out: the standard library, generics and their parameters (part F), local scopes,
visibilities tied to a type, a skill, a parent or a folder. A group with members stands as one
group for each leaf, which is what `createHandler` and `handler` do with it. The
error "not accessible" of a module path is in the model and does not occur in
the instance. Termination is that of part A.

### Proofs of part B

`NameResolution_proofs` proves, for every finite set of modules and every set of
programs of `ProgramType` (`ModAssumption`, `ProgramsAssumption`):

| theorem | property |
|---|---|
| `LookupsAreSound` | `LookupsFindWhatIsThere` |
| `StuckEntriesWaitForEachOther` | `StuckIsCircleOfWaits` |

`ProgramType` asks what the parser and part C give: a sentence has at least one group,
a path at least one name, submodules and brings are modules. The tree need not be one:
modules may bring, and hold, each other in any way.

*The lookups.* No induction over data is at hand, so a lookup is not followed down. What
`Called` computes exists by recursion on a rank (`RecursionByRank`):
the number of calls that are not open yet. One statement is then proved for every
set of open calls, from the larger sets to the smaller (`FromAllOpen`):
each call answers what is `Right` for its function. `has` finds nothing only if
nothing in the module and nothing in the span of its unnamed submodules fits; `get`
may in addition find nothing where only the brings of a submodule have it, which the kind
of generic struct types is exposed to; an overflow means that a module is met again
on the way from itself (`GoesRound`), and a call that is open is on the way (`OnTheWay`).
For the call that is made from outside nothing is open, and `Right` is the property.
It holds in every state, not only at the end, where the run looks.

The first attempt failed for a reason: the property excused a null pointer
only where the entity is brought into an unnamed *submodule*. An entity that has another
name where it is brought reaches the same branch through an import. TLC confirmed it
with the program `Renamed` of `MCNameResolution`, and the property now says
`HasFromElsewhere`.

*The waits.* `Inv` is inductive: entries are of nodes of the program and a group's entry
has the group's name (`EntriesInv`); what the first pass is through with has its entry
(`CreatedInv`), so that in the second pass the entry a bare bring finds first is its own
or one before it (`WaitsInv`); waits lead from entries to entries; and when nothing goes
on each entry that is not complete waits for one that is not (`StuckInv`). In a finite set
in which each waits for one of the set, a smallest set that is closed is a circle
(`CircleOfWaits`). `FunctionsInv` is what `NextKeepsInv` needs of the prototypes.

Model-checked only: `UsesMeetWhatTheyWaitFor`. A use is looked up after brings have
changed what is to be found, so its proof needs the history of every list between two
passes, under the hypothesis that a name has one meaning in a span that
itself changes.

## Part D: the allocator

`QatRegion` is `getMemory` and `destroyAllBlocks`: blocks with the three words of
their header as `next`, `size`, `offset`; the tail of each thread; the list of
first blocks. `RegionObjects` says what is promised: objects with memory of their
own inside their blocks, that never move, and blocks that are given back.

`region_blocks` has two threads, because the class is written for many
(`thread_local`, a mutex); the compiler itself runs one. With a block of 16 bytes
and a header of 3, the sizes 4, 9, 10 and 13 share a block, fill it to the last
byte `getMemory` uses or all but one, and need a larger one; four blocks give lists
of every shape for two threads, and a `malloc` that fails. `freed` counts how often
each block has been given back.

- `KeepsPromise`: the free room is computed as an unsigned difference that takes
  the header off twice. When an object ends within a header of the end of its
  block the difference wraps, and the next object would be put past the block.
  It does not happen for the sizes of `SizeAssumption`; the gap it leaves out,
  sizes between `DefaultBlock - 2 * Header` and `DefaultBlock - Header`, is 24
  bytes wide just below 64 KiB, where no type of the compiler is. A block has room
  for three headers at least, or the difference would wrap in an empty one.
- `EveryBlockIsListed`: only the first block of a thread is registered, the others
  hang on `next`, which is set before the tail moves.

`destroyAllBlocks` leaves `blockTail`, so an allocation after it would write to
freed memory; it is called just before the process ends (`Ctx::finalise_errors`
and `main`), and the model stops there. `totalSize`, a statistic that is
incremented without the mutex, is left out.

### Proofs of part D

`QatRegion_proofs` proves both properties for every set of threads, every number of
blocks and all sizes that `SizeAssumption` allows.

- `RegionKeepsPromise` (`Spec => KeepsPromise`, the refinement of `RegionObjects`).
  `RegionInv` says that the offset of each block is past its header and inside it, and
  that objects lie below it. From it `RoomIsExact`: the unsigned difference of the code does
  not wrap unless the block is full, so the object goes below the end (`PlacedKeeps`)
  and `getMemory` is the `Allocate` of `RegionObjects`, `destroyAllBlocks` its `Return`.
- `BlocksAreFreedOnce` (`Spec => []EveryBlockIsListed`). `ListsInv` says that `next` leads
  to a later block, that no two blocks have one `next` and no head is one, and that every
  block is a head or the `next` of exactly one earlier block; `TailsInv`, that a thread
  allocates in the last block of a list, which no other thread has. `EveryBlockOnce` is an
  induction over the blocks, so what is freed along the lists is every block, once. A new block
  begins a list (`NewList`) or makes one longer (`LongerList`). `ListsExist`
  shows that the list of a head exists, which is what `ListFrom` picks.

## Part E: functions, blocks and control flow

### Model and code of part E

`BlockTree` is `ir::Block`: `parent` and `children` for blocks within blocks,
`previous` and `next` for the block that goes on after a construct. Three
questions are answered by going along these links, each in another way: which
names are visible (`previous` and `parent`), what the end of a scope destroys
(`next`), what a jump destroys (`children` and `next`). The sentences of the
language only create, link and activate blocks; whether the answers are right is
nowhere written down.

`FunctionEmission` is the emit of each sentence, as steps between the sentences
within it (`frames` is the C++ stack), and then, because what matters is what the
program does, the *run* of the emitted instructions: `Execute` takes both ways of
every branch whose condition is not known. `store` says of each local whether it
is unset, alive, moved from or gone.

| action | code |
|---|---|
| `LocalDeclaration`, `UseEntity`, `MoveEntity`, `Assignment`, `GiveSentence` | the emit of these sentences |
| `Break`, `Continue` | the record looked up in `breakables`, `loopsInfo`; destruction and branch |
| `IfElse`, `MatchSentence`, `EndArm`, `EndElse` | the arms, with conditions known at compile time |
| `EnterLoopIf`, `EnterLoopTo`, `EnterLoop`, `EnterLoopIn`, `EndLoopIf`, ... | the four loops |
| `EndFunction` | `function_return_handler` |

### Run of part E

`function_emission`: fifteen forms of `if`, `match` and loop within each other
with every jump that the two allow, and all pairs of twenty-one simple sentences
in functions that give nothing, a value or themselves, two arguments of one name, and a
`continue` after a `loop in` whose record it finds: about 180 000 states. Two levels are
enough: what a construct does to the links depends on the block it is in and on
the block after it; a second level gives a block with a parent, a previous and a
next block at once.

| property | what it shows |
|---|---|
| `VisibleIsInScope` | the links give exactly the names of the bodies around, at every sentence |
| `UsesMeetValues` | on every run, what is read was initialised and not destroyed |
| `DestroysAreDue` | the end of a scope and a return destroy nothing twice and nothing unset |
| `NothingLeaks` | no local is overwritten or left behind with a value, but for the cases below |
| `BlocksAreClosed` | every block that is run ends in one terminator, after which only a scope is destroyed (but for a stray `continue`) |

The properties say what holds, and name what does not: `break` and `continue`
destroy the locals of bodies within the loop that are already over a second time; a
local declared after a `loop if` in a nested body, or before a construct in an
`else` that got no block of its own, is never destroyed (`IsForgotten`); `give
self` destroys nothing; an assignment overwrites; a use after a move is not
reported, as nothing calls `is_moved`; the item of a `loop in` is visible after
the loop. A `continue` with a tag that no loop has leaves the vector it searches
(the outcome `"crash"`). A `continue` after a `loop in`, outside of all loops, is no
error: it finds the record that stayed and jumps into the finished loop, and the end of
the function emits a second terminator (`StrayContinue`). Such a branch is marked in the
model (`GoesBack`), as nothing is promised for the values of a loop that is entered again
this way. Two arguments of a function may have the same name, which nothing compares; the
first is the one found. The else of a `match` over a mix or choice type gets a block
within the block before the `match`, branched to from the block after the last case: no
result of a case is kept for such types, so `isFalseForAllCases` and
`hasConstResultForAllCases` hold with nothing to hold for (`MatchElse`).

Left out: mix and choice types without a variant (`SentencesAssumption`), `match` over texts, pointers that own memory, `todo`, the member
checks of methods, arguments without a local, names of the cases of a `match`,
blocks made by expressions, and the values an `IfElse` keeps in `knownVals` when
one syntax tree is emitted more than once.

### Proofs of part E

`FunctionEmission_proofs` proves `BlocksStayClosed` (`Spec => []BlocksAreClosed`) for every
set of programs whose sentences are built as `SentencesAssumption` says, of any depth. It
also shows that the emission is well defined: the recursions along the links of blocks
(`Current`, `Lineage`, `Visible`, `LocalsAlong`, `LocalsFrom`) have a value, because every
link leads to an earlier block (`parent`, `previous`) or to a later one (`next`, `active`):
`Built`, kept by every operation of `BlockTree`.

That a block is closed when its sentences are over is not inductive: while an `if` is
emitted its arms are closed and branched to, the block after it is empty. The invariant
(`IInv`) is about who will close it:

- each frame of the C++ stack *reserves* the blocks it will make current (`Reserved`): they are
  empty, no other frame's and not the current one, so an `AddBranch` or `CondBr` into them is
  the first.
- it *promises* to close those of them that may have been branched to (`Promised`: not the
  one after an arm that is known to be taken).
- every block that an instruction, a record of `loopsInfo` or `breakables`, or the end of a
  loop branches to is closed, current, or promised (`Sound`, `Going`); a frame that goes
  back to a block has it among these (`Back`).
- `breakables` has a record for each loop that a `break` leaves (`Breaking`), so a `break`
  or `continue` in the body of the function itself finds none but the one a `loop in` left.
- the current block is open unless the last sentence ended the body; then `emit_sentences`
  stops, and only `AddBranch` and what a scope destroys follow.

At the end of the function nothing is reserved or promised any more, so every block that is
branched to is closed (`RunInv`). `Amid` is what is known in the middle of a step, one lemma for each
operation on blocks (`AmidBranch`, `AmidSetActive`, ...), so that the proof of an action goes
through the calls of the code in their order.

The second theorem is `NamesAreThoseInScope` (`Spec => []VisibleIsInScope`). What a name
means is found along `parent` and `previous`, which the sentences link as they go; the
bodies around are only on the C++ stack. The invariant that ties the two (`ScopeInv`) says
that there is a set `D` of blocks that are done with, such that

- `D` has, with each block, its parent and the block before it (`Shut`), and the current block
  is not in it: a local is declared in the current block alone, so what is seen from `D` stays.
- the current block stands on `D` (`Into`) and shows the names declared in all bodies around
  (`Tip`, `Names`).
- each block that a frame makes current when its body is over (`Tips`: the rest, the else, the
  condition of a loop) stands on `D` too, and shows the names declared in the bodies *below*
  the frame (`Waits`); for a `match` the block it stands in, in which the arms are made, shows
  them too and is in `D`.

A sentence that opens a body puts the current block into `D`; the end of a body forgets what
was declared in it, as the block that follows was linked past it. The proof is one lemma
per action (`...Settles`) over lemmas of what each operation on blocks does to what is seen
(`CreateSees`, `SetActiveSees`, ...), the longest of them about the index and the item that a
loop adds to the names (`IndexIsGained`, `ItemIsGained`). From `IInv` it takes that the blocks
a frame reserves are no other frame's.

What the locals hold on a run (`UsesMeetValues`, `DestroysAreDue`, `NothingLeaks`) stays
with TLC: an invariant for it has to follow all paths of the emitted code at once, while
the code of the bodies still open is not yet there.

## Part I: values

### Model and code of part I

`ValueTypes` is what `copy_construct_value`, `copy_assign_value`,
`move_construct_value`, `move_assign_value` and `destroy_value` of structs, tuples,
maybe and mix types emit, as functions from memory to memory: the branches
they emit are branches of the definition. A part of a type is *plain*; an *owner*,
a struct with its own functions for all five; a *mover*, an owner that has
simple-move in place of its two ways to move; or, in a mix, no data. An owner holds
a resource with a number of its own. What its functions do is the programmer's, and
is taken to be right: a copy makes a resource, a move hands one over and leaves an
empty instance, an assignment destroys what was there first. Called on memory that
holds neither an instance nor an empty one, they count a fault.

`LocalValues` is a function whose locals all have one type. Its arguments hold what
the caller made, so nothing is assumed of the initialisers of the language, which
make temporaries that are locals too.

| action | code |
|---|---|
| `DeclareEmpty`, `DeclareSame` | `LocalDeclaration::emit`, without a value and with a local as the value |
| `DeclareCopy`, `AssignCopy` | `Copy::emit`, in a declaration and in an assignment |
| `DeclareMove`, `AssignMove` | `Move::emit`, the same |
| `AssignSame` | `Assignment::emit` |
| `EndBlock`, `DestroyLocal` | `Block::destroy_locals` |

### Runs of part I

`local_values`: a maybe of each part, tuples and structs of any two parts; two arguments and one local, all tags, four sentences.
Three locals are the least in which what is left behind by a move between two can
be met through a third; four sentences make a value, move it away, put another in
its place and use it. Two parts tell a tuple that is simple in one part only from
one that is simple in both.

| property | what it shows |
|---|---|
| `OwnersMeetInstances` | the functions of an owner never meet memory that was not written or an instance that is gone, although locals moved from are destroyed again, and tags stay behind |
| `AliveIffHeld` | a resource is alive exactly as long as one place of one local holds it |
| `CopiesAreLikeTheirSource` | a copy has data where its source has data, over whatever was there before, and the source stays as it is |

`AliveIffHeld` names what is not so: a simple move stores over what was there
without destroying it, and the end of a tuple or struct that has simple-move
zeroes it (`storedOver`). A local assigned to itself with `'move` ends empty.

Mix types are in the model and not in this run, as their operations mistake the
variant (see Findings, `finding_mix_copy`); besides, the assignments take the data of
the second value from the first, and store no tag.

Left out: parts with parts of their own, pointers, results, futures, and the layout of types.
Arrays too: the address at which the four functions that copy and move take the first
element indexes the *element's* type twice, which LLVM does not accept for a number or
a struct (`array.cc:108`; `destroy_value` indexes the array's type).

### Proofs of part I

`LocalValues_proofs` proves, for every set of locals, every list of arguments, types of
any number of parts, and any number of sentences:

| theorem | property |
|---|---|
| `OwnersMeet` | `OwnersMeetInstances` |
| `ResourcesAreHeldOnce` | `AliveIffHeld` |
| `CopiesAreAlike` | `CopiesAreLikeTheirSource` |

Each says `Spec /\ type.kind # "mix" => ...`: for a mix the properties do not hold, as its
operations take the wrong tags (TLC finds each of the three violated for the type of `finding_mix_copy`). What is assumed of the constants is that the
arguments are distinct places, although two may be called the same, and that only a variant of a mix
may be without data, as the parser and the types have it (`LocalAssumption`, `TypesAssumption`).

The properties speak of whole locals, and no operation keeps them part by part: while a tuple
is moved, half of its resources are in one local and half in another. The invariant (`Inv`)
is therefore about a set of *parts* in use, pairs of a local and a place (`LiveParts`), and
`Sound` says of the memory and such a set that

- the parts in it hold an instance that is alive, or the empty one, and no number that is
  alive is in two of them (`HoldInstances`, `NoneTwice`): this is what an owner's functions need.
- a part outside of it, in a local whose tag says that there is data, holds nothing alive
  (`NoneElsewhere`): a local that is not declared yet may have any tag, one that was destroyed
  keeps its own, and a maybe whose value was moved into an empty one keeps it too.
- numbers are given in order and none is ahead of the counter (`Numbered`), so that a new resource
  is no old one.
- what is alive is in a part in use, or was stored over (`NoneLost`).

Each operation on one part has a lemma that says how it changes the set: `MakeIsSound` and
`CopyConstructIsSound` add the part, `TakeIsSound` hands it from one to the other, `DestroyIsSound` takes it out.
`PartsAreSound` goes through the parts of a tuple or struct in their order, for a set that grows
or shrinks by one part at each step (`StepByStep`, a proof by the least step that fails, as there is no
induction over data). For a maybe, `TagSetIsSound` and `TagResetIsOrdered` say what its tag does to
the set. Simple moves, which store a whole value at once, keep all but `NoneLost`, which
`StoringIsSound` restores by what `storedOver` gains. One lemma per function of a type
(`CopyConstructs`, `CopyAssigns`, `MoveConstructs`, `MoveAssigns`, `SimpleMoves`, `Destroys`) then gives
`Inv` after each sentence and each local that is destroyed.

`EachPart` and `Entered` are recursive functions of the position, so that these proofs can
unfold them.

## Part F: generics

### Model and code of part F

A generic is one syntax tree. `fill_generics` looks for a variant with the same list
of arguments, and if there is none it gives the parameters their values, emits the
tree, and takes the values back. What the tree asks for is made meanwhile, often from
the same tree. `frames` are the calls of `fill_generics` that are not finished, above
the emission of ordinary code (`Main`). A parameter is met in three ways: in a type,
as the top of its stack of values (`get_type`); as a bare name in a list of
arguments, as a generic of the function or struct being emitted or of the last
active generic (`ByName`); as `default` in a list for its own generic.

| action | code |
|---|---|
| `Find` | `check` of opaque variants and variants; the error for a member of a type that is not complete |
| `Begin` | the values of the parameters, the name of the variant, the marker, the opaque type of a struct |
| `Refuse` | the errors: no type for a parameter, a variant name that was used |
| `TakeNullDefault` | `getDefault` of a parameter whose default was never emitted |
| `Create` | `create_type` after the members, `create_function` after the signature: the variant of a struct is filed |
| `Finish` | functions and definitions are filed, `unset` of each parameter, the marker goes |

The three `fill_generics` are alike but for the places where they file what they
make; the model says once what they share and asks for the `Kind` where they differ.
`Main` asks after all generics have been created, which is what the scheduler sees
to (parts A and B).

### Run of part F

`generic_variants`: a struct of two parameters, a function and a type definition with
one use at most in the members, methods, signature, body and subtype, given by type,
by name, by a pointer to a parameter, by `default` or left out, and two uses in
ordinary code: 27 930 programs. Two parameters are the least that can be swapped, so
that variants of one struct ask for each other; two uses in a row show what the first
leaves behind. `MaxDepth` stands for the C++ stack. The wait of one generic for
another keeps the members of a struct and the subtype of a definition from asking for
each other, so no such program is checked.

| property | what it shows |
|---|---|
| `AnswersAreMeant` | every use gets the variant that its arguments mean where it is written, and every variant is filed under what it was made from |
| `MadeOnce` | no two variants have the same arguments, but for functions and definitions that get back to themselves |
| `EndsAreDeserved` | each way the compiler can end without all variants, with the reason there must be for it: `DepthIsDeserved` for the stack, `ErrorsAreDeserved` for the errors |

What is not so, and is named in the properties: a function is filed when its body is
emitted (`function.cc:453`), so one that calls itself with the same arguments is made
within itself until the stack runs out, and one that gets back to itself through the
methods of a struct is made twice. A list that is left out, `f:[]`, never matches a
variant, as `check` compares lengths before the defaults are filled in; it pushes no
values, yet `unset` pops one of each parameter: of an empty vector, or a value that
belongs to the variant around, which is also what the left-out parameters then are.
The default of a generic *definition* is emitted only by a `default` in a list, and
only where its parameter has no value: inside a variant it is a null pointer.
While the members of a struct are emitted, other variants are emitted whole, methods
too, and these meet the first one as an opaque type.

A member whose type is not complete is refused although only a pointer lies between it
and the type that is getting its members.

### Proofs of part F

`Generics_proofs` proves, for every set of generics and all programs that
`ProgramsAssumption` allows (a use gives all arguments or none, and names parameters of
the declaration it is written in):

| theorem | property |
|---|---|
| `VariantsAreMadeOnce` | `MadeOnce` |
| `AnswersAreThoseMeant` | `AnswersAreMeant` |
| `OnlyErrorsAreRefused` | `ErrorsAreDeserved`, a part of `EndsAreDeserved` |

`FramesInv` and `FilesInv` say what the calls of `fill_generics` and the variants look
like. For `MadeOnce`, `OpenInv` ties the opaque variants of a generic to the
frames that make them, in order, and `NamesInv` the uses of the frames to the frames
above, so that a generic on the stack twice `Reaches` itself (`ChainReaches`); then
`OnceInv` is inductive: what is filed is told from what is being made.
For `AnswersAreMeant`, the stacks of values are those of the frames that hold them
(`HeldInv`), the markers of `allActiveGenerics` are the frames (`ActiveInv`), and the
arguments of a frame are those meant (`MeantInv`), as long as no list was left out
(`LeftOut`, from which on the stacks are out of step, and the property claims nothing).

`DepthIsDeserved` stays with TLC: it holds because the bound on the stack is large for the
declarations of the instance, a count that says nothing of other bounds.

Left out: parameters that are prerun values, constraints, generic skills and methods,
the names variants get (two lists with the same text), and warnings. The run is not
claimed to end: a type that grows in its own members does not.

## Part H: prerun functions

`PrerunCalls` is `PrerunFunction::call_prerun`, which interprets sentences while
compiling. `break`, `continue` and `give` are C++ exceptions; `Unwind` takes an
exception through one scope of the C++ stack. A call keeps records of its loops
and a chain of `PreBlock`s. `PrerunMeaning` says the same without exceptions,
records and blocks: a call is the list of sentences it has left.

`prerun_calls`: all programs of two functions with up to two nested loops or
ifs, every jump, counts of every type, and calls from three sentences; and functions that
call themselves and each other. `WordBits = 3` stands for 64: counts narrower, as wide
and wider than a word all occur. A function has one argument, which conditions, what is
said or given, and calls may use; the counts of loops are written out.

A function may call itself: `addDependency` drops the dependency of an entity on itself, and
by the time it is called the function is in its module. Two functions may call each other
only if one does so in a `give`, as `PrerunGive` records no dependencies and the other
sentences do (`CanBeMade`); that the function named in a `give` has been made
is taken for granted. Nothing counts the calls under way: the C++ stack has room for
`MaxCalls = 5`. With two functions and two values of the argument there are four different
calls, so a pair has come back before the stack ends. With more values than the
stack has room for, calls that all differ would run out of it as well; `Terminates` says nothing
of those.

| property | what it shows |
|---|---|
| `ImplementsMeaning` | the interpreter implements `PrerunMeaning` (refinement) |
| `LoopRecordsMatch` | however a loop ends, its record goes with it |
| `ActiveBlockIsReached` | `create_next_to` overwrites links, but never cuts off the block in use |
| `PlainProgramsAsRead` | programs without jumps say and give what a reader expects, for every count, condition and call; but a negative count of a narrow type is met without its sign, as the reference states (`Repeats`) |
| `Terminates` | the interpreter ends, unless it stays in a loop whose index never moves; a call that gets back to itself with the argument it had runs out of the stack, and nothing else does: all other calls of a function within itself return |

Exceptions named in the properties: the constructor of `PrerunLoopTo` drops the tag
of the loop, so that a `break` or `continue` with that tag finds no loop, does nothing, and the
sentences after it run; a negative count of a narrow type is read
without its sign; the increment of the third loop is a lambda that is never
called; a void function that runs off its end gives a null pointer. Fairness is
`WF(Interpret)`: the interpreter is a sequential program.

### Proofs of part H

`PrerunCalls_proofs` proves `RecordsAreOfLoops` (`LoopRecordsMatch`) and
`ActiveBlocksAreReached` (`ActiveBlockIsReached`) for every width, all programs and all
sentences that `SentencesAssumption` allows. Both follow from `CallsInv`, which says of
every call on the stack, not of the active one only, what holds of its records and blocks:

- the records of a call that is not being unwound are exactly those of the loops whose
  bodies it is in, in their order. An exception leaves records behind; this is harmless
  because no loop has a tag (the constructor drops it), so no loop catches an exception of
  another, and one that leaves a loop ends the call.
- the blocks from the first to the active one are a chain, linked both ways by `previous`
  and `next`, and the blocks of the scopes are on it in their order. `create_next_to` puts a
  block after the active one and overwrites only links beyond it (`ChainGrows`); leaving a
  scope goes back along the chain.

`ImplementsMeaning` stays with TLC: its mapping unfolds the sentences left in a call by recursion over
their structure, and `PlainProgramsAsRead` compares with a recursive reference.

## Part P: reading

### Model and code of part P

The text is a sequence of tokens. `Tokens` has the functions of the parser that look ahead
(`first_primary_position`, the positions of the bracket that ends one, `is_primary_within`).
`Parser` has the readers, one operator each: `do_type`, `do_prerun_expression`,
`do_generic_fill`, `do_expression`, `do_match`, `do_sentences`, `do_prerun_sentences`. A
reader is handed a text and a place and tells what it read, and the last token it took; inside,
it is a loop over tokens that keeps a symbol or an expression for a later token, and that loop is the
recursion of the definition. `TypeWriting` is `to_string` of types and prerun
expressions. `Reading` runs a reader on one text: `ReadType`, `ReadPrerun`,
`ReadExpression`, `ReadSentences`, `ReadPrerunSentences`.

### Run of part P

`reading`: every type and prerun expression of two levels, every chain of up to four
operators, bodies of up to three sentences, and every sequence of a few tokens. Two levels put each reader
within each other one; four operators are the least with three strengths and an equal one; three
sentences put one between two others.

| property | what it shows |
|---|---|
| `WrittenIsReadBack` | what `to_string` writes is read as it was, to its end |
| `ChainsAreGrouped` | a chain of operators is grouped by their strength |
| `SentencesAreReadInOrder` | every sentence is read, once, in the order written |
| `PairsAreTakenWhole` | a reader ends on the token that ends what it read: brackets are taken whole |
| `ReadingEnds` | a reader does not come back to the same token for ever |

What is not so, and is named in the properties or left out of the texts of the run: in a
chain, a bare name or a bracketed operand between two operators goes to the operator after
it; the test for a tuple of prerun values is the wrong way round (near
`parser.cc:1030`), and the end of a prerun array is looked for after its first token; `default:[T]`
and `ok:[T, E](x)` are never read as prerun expressions, and `ok:[pack, T, E]` ignores its types; the
owner `region(R)` is always an error; a generic fill within another fails; a packed
maybe, pointers that are never null, `up:` and `do:skill` are not written as they are read;
a comment inside a type ends it; `int:[8]` ends before its bracket; `x += e.` reads `e` again
as a sentence of its own; an expression that nothing ends is dropped, or picked up by a
later stop; a stray `,`, `;`, `=>` or `else` after an expression is met for ever; an expression among
prerun sentences loses its first token; `let pre` is never read; `loop to` reads its
body twice; `f() g.` leaves a symbol kept.

Left out: the declarations at the top level, the bodies of types, skills, parameters,
metadata and bring sentences. The readers are RECURSIVE operators, which have no proofs.

## What is only model-checked

Liveness (`Termination` of A and C, `Terminates` of H) and what needs recursion over data is
out of the prover's reach. For the rest the reasons are given with each part:

| property | why it has no proof |
|---|---|
| `PlainProgramsAsRead` (H), all of P | compare with, or are made of, RECURSIVE operators |
| `ImplementsMeaning` (H) | its mapping unfolds nested sentences by recursion |
| `UsesMeetWhatTheyWaitFor` (B) | needs the history of the names between two passes |
| `UsesMeetValues`, `DestroysAreDue`, `NothingLeaks` (E) | need all paths of code that is not emitted to its end |
| `EndsAreDeserved` (F), the half about the depth | a count that holds of the instance; the half about errors is proved |
| the values of mix types (I) | not so: `finding_mix_copy` |

## Findings

Each has a run in which TLC finds the violation.

- `finding_switched_off`: a function or prerun function whose define condition is
  false is created and emitted. `do_phase` calls `complete_manually` in phase 1,
  which sets `currentPhase` to the last phase, and `do_next_phase`
  (`qat_module.cc:74`) then sets it back to 1.
- `finding_never_brought`: a bring of a skill, flag type, generic skill or generic
  type definition is never brought and nothing is reported: the error at
  `bring_entities.cc:461` is guarded by `throwErrorsWhenUnfound`, which is never set.
- `finding_mix_copy`: a local of a mix type made by `'copy` of one that has no data, or
  the last variant, is not written. The operations of a mix compare its tag with
  indices from 0; the initialiser stores, and `match` compares, indices from 1.

## Not modelled, and why

Lexer, the rest of the parser, the layout of types, most expressions, JSON, command line and linking
are translations of data, or input and output, with no state that outlives a call
besides what the parts above keep; `PROJECT.json` has a line on each. Skills keep
state (implementations) and are planned. Of what is emitted
into LLVM, part E has the blocks and what happens to locals, part I the values of
locals of one type, and nothing has both.

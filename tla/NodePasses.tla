------------------------------- MODULE NodePasses -------------------------------
(***************************************************************************)
(* The passes of QatSitter::initialise over the modules that FileModules   *)
(* has found: brings of files and folders, creation of libs, creation of   *)
(* entities, their dependencies, and the output of the LLVM modules.  Each *)
(* pass visits fileEntities in order and goes down into submodules; a      *)
(* module remembers, for each of the first four, that it was visited.      *)
(***************************************************************************)
EXTENDS FileModules

VARIABLES
    pass,           \* the pass under way, 0 while files are looked for
    next,           \* the place in fileEntities visited next
    visits,         \* the modules being visited, the innermost last
    visited,        \* for each pass the modules it has entered, in order
    broughtModules, \* Mod::broughtModules
    outcome         \* "running", "done", or the error that ended the passes

passVars == <<pass, next, visits, visited, broughtModules, outcome>>
vars == <<discoveryVars, passVars>>

FsBrings == 1
CreateModules == 2
CreateEntities == 3
UpdateDependencies == 4
SetupFiles == 5
Pass == FsBrings .. SetupFiles

Init ==
    /\ DiscoveryInit
    /\ pass = 0 /\ next = 1 /\ visits = <<>>
    /\ visited = [p \in Pass |-> <<>>]
    /\ broughtModules = <<>>
    /\ outcome = "running"

-----------------------------------------------------------------------------
Discover ==
    /\ pass = 0 /\ outcome = "running"
    /\ DiscoveryNext
    /\ UNCHANGED passVars

StartPass ==
    /\ outcome = "running" /\ Discovered
    /\ visits = <<>>
    /\ pass = 0 \/ next > Len(fileEntities)
    /\ IF pass = SetupFiles
       THEN outcome' = "done" /\ UNCHANGED <<pass, next, broughtModules>>
       ELSE /\ pass' = pass + 1 /\ next' = 1
            /\ broughtModules' = IF pass = 0 THEN [m \in ModuleId |-> <<>>] ELSE broughtModules
            /\ UNCHANGED outcome
    /\ UNCHANGED <<discoveryVars, visits, visited>>

(* The nodes of a module: a file has the bring sentences outside its lib,  *)
(* and the lib, made by pass 2, those inside.                              *)
NodesOf(m) ==
    LET x == allModules[m]
        b == project.brings
    IN  IF x.kind = "folder" THEN <<>>
        ELSE BringsAt({i \in DOMAIN b : b[i].from = x.path /\ (b[i].inLib <=> x.kind = "lib")})

HasLib(m) ==
    /\ allModules[m].kind \in {"file", "rootLib"}
    /\ \E b \in ToSet(project.brings) : b.from = allModules[m].path /\ b.inLib

(* Mutant: pass 4 tests the flag of pass 3.                                *)
OnceSharedFlag(m, p) ==
    /\ p # SetupFiles
    /\ m \in ToSet(visited[IF p = UpdateDependencies THEN CreateEntities ELSE p])

(* The flag of the pass is set before the nodes are visited; the output of *)
(* the LLVM modules has no such flag.                                      *)
Once(m, p) == p # SetupFiles /\ m \in ToSet(visited[p])

(* A call of a node pass for module m, on top of the visits in below.  A   *)
(* module visited within itself in the pass without flags never returns.   *)
Enter(m, below) ==
    IF Once(m, pass) THEN visits' = below /\ UNCHANGED <<visited, outcome>>
    ELSE IF \E i \in DOMAIN visits : visits[i].mod = m
    THEN outcome' = "overflow" /\ UNCHANGED <<visits, visited>>
    ELSE /\ visits' = Append(below, [mod |-> m, node |-> 1, sub |-> 1])
         /\ visited' = [visited EXCEPT ![pass] = Append(@, m)]
         /\ UNCHANGED outcome

VisitEntity ==
    /\ outcome = "running" /\ pass \in Pass
    /\ visits = <<>> /\ next <= Len(fileEntities)
    /\ next' = next + 1
    /\ Enter(fileEntities[next], <<>>)
    /\ UNCHANGED <<discoveryVars, pass, broughtModules>>

at == Last(visits)
NextNode == visits' = Append(Front(visits), [mod |-> at.mod, node |-> at.node + 1, sub |-> at.sub])
NodesDone ==
    /\ pass = FsBrings => at.node > Len(NodesOf(at.mod))
    /\ pass = CreateModules => at.node > 1 \/ ~HasLib(at.mod)

(* Mutant: the member need not be without a parent.                        *)
BringAnyMember(m) ==
    /\ parent' = [parent EXCEPT ![m] = at.mod]
    /\ submodules' = [submodules EXCEPT ![at.mod] = Append(@, m)]
    /\ UNCHANGED <<broughtModules, outcome>>

(* bring:member, Mod::addMember.                                           *)
BringMember(m) ==
    IF parent[m] # 0
    THEN outcome' = "hasParent" /\ UNCHANGED <<parent, submodules, broughtModules>>
    ELSE /\ parent' = [parent EXCEPT ![m] = at.mod]
         /\ submodules' = [submodules EXCEPT ![at.mod] = Append(@, m)]
         /\ UNCHANGED <<broughtModules, outcome>>

(* Mutant: every module brought becomes a member.                          *)
BringModuleAsMember(m) == BringMember(m)

BringModule(m) ==
    /\ broughtModules' = [broughtModules EXCEPT ![at.mod] = Append(@, m)]
    /\ UNCHANGED <<parent, submodules, outcome>>

(* BringPaths::handle_fs_brings for one path.                              *)
HandleBring ==
    /\ outcome = "running" /\ pass = FsBrings
    /\ visits # <<>> /\ ~NodesDone
    /\ LET b == NodesOf(at.mod)[at.node]
           m == IF IsDir(b.path) THEN get_folder_module(b.path) ELSE get_file_module(b.path)
       IN  IF m = 0
           THEN outcome' = "notFound" /\ UNCHANGED <<parent, submodules, broughtModules>>
           ELSE IF b.member THEN BringMember(m) ELSE BringModule(m)
    /\ NextNode
    /\ UNCHANGED <<project, allModules, fileEntities, argsLeft, calls, pass, next, visited>>

(* Lib::create_module.                                                     *)
CreateLib ==
    /\ outcome = "running" /\ pass = CreateModules
    /\ visits # <<>> /\ ~NodesDone
    /\ create_submodule(allModules[at.mod].path, "lib", at.mod)
    /\ broughtModules' = Append(broughtModules, <<>>)
    /\ NextNode
    /\ UNCHANGED <<project, fileEntities, argsLeft, calls, pass, next, visited, outcome>>

(* The nodes are done: down into the next submodule.                       *)
VisitSubmodule ==
    /\ outcome = "running"
    /\ visits # <<>> /\ NodesDone
    /\ at.sub <= Len(submodules[at.mod])
    /\ Enter(submodules[at.mod][at.sub],
             Append(Front(visits), [mod |-> at.mod, node |-> at.node, sub |-> at.sub + 1]))
    /\ UNCHANGED <<discoveryVars, pass, next, broughtModules>>

LeaveModule ==
    /\ outcome = "running"
    /\ visits # <<>> /\ NodesDone
    /\ at.sub > Len(submodules[at.mod])
    /\ visits' = Front(visits)
    /\ UNCHANGED <<discoveryVars, pass, next, visited, broughtModules, outcome>>

Ended == outcome # "running" /\ UNCHANGED vars

Next ==
    \/ Discover
    \/ StartPass
    \/ VisitEntity
    \/ HandleBring \/ CreateLib
    \/ VisitSubmodule \/ LeaveModule
    \/ Ended

(* One sequential program: it goes on while it can.                        *)
Spec == Init /\ [][Next]_vars /\ WF_vars(Next)

-----------------------------------------------------------------------------
(* Parents and submodules agree, although they are set in three places and *)
(* in two phases of the compiler: a module is a submodule of its parent    *)
(* once, and of no other module.                                           *)
TreeConsistent ==
    \A m \in ModuleId :
        /\ ToSet(submodules[m]) = {x \in ModuleId : parent[x] = m}
        /\ IsInjective(submodules[m])

(* A file or a folder becomes a module once, whatever names it and in      *)
(* whatever order.  Only the lib file of a folder may become a second one: *)
(* the folder is not looked up by the lib file it is read from.            *)
OneModulePerPath ==
    \A x, y \in ModuleId :
        /\ x # y /\ allModules[x].path = allModules[y].path
        /\ {allModules[x].kind, allModules[y].kind} \subseteq {"file", "rootLib", "folder"}
        => allModules[x].path \in project.libs /\ project.above[allModules[x].path] # 0

(* The passes visit the same modules in the same order, each once, but for *)
(* the libs, which pass 2 creates and visits: no entity is created twice,  *)
(* and none whose dependencies are not recorded.                           *)
ComeInOrderOf(v, w) ==
    \A i, j \in DOMAIN v :
        i < j => \E k, l \in DOMAIN w : k < l /\ w[k] = v[i] /\ w[l] = v[j]

PassesAgree ==
    outcome = "done" =>
        /\ IsInjective(visited[CreateModules])
        /\ visited[CreateModules] = visited[CreateEntities]
        /\ visited[CreateEntities] = visited[UpdateDependencies]
        /\ ToSet(visited[FsBrings]) =
              {m \in ToSet(visited[CreateModules]) : allModules[m].kind # "lib"}
        /\ ComeInOrderOf(visited[FsBrings], visited[CreateModules])

(* Every bring of a module that is visited has made what it names a        *)
(* submodule or a brought module, wherever discovery has found it, unless  *)
(* it is written inside a lib, which does not exist yet in pass 1.  And    *)
(* what a bring names has been found by then, whichever walk, argument or  *)
(* bring has come to the file first, but for a directory with a lib file,  *)
(* for which that file has become the module.                              *)
BringsTakeEffect ==
    /\ outcome = "done" =>
        \A m \in ToSet(visited[FsBrings]) : \A b \in ToSet(NodesOf(m)) :
            LET has == IF b.member THEN submodules[m] ELSE broughtModules[m]
            IN  \E x \in ToSet(has) : allModules[x].path = b.path
    /\ outcome = "notFound" =>
        LET b == NodesOf(at.mod)[at.node - 1]
        IN  IsDir(b.path) /\ detect_lib_file(b.path) # {}

(* The output of the LLVM modules goes round in the tree for ever only     *)
(* when the files themselves do: a directory holds what is in it, a file   *)
(* its members, and some path holds itself.                                *)
Holds(p, q) ==
    \/ project.above[q] = p
    \/ \E b \in ToSet(project.brings) : b.member /\ b.from = p /\ b.path = q

OverflowIsMemberCycle ==
    outcome = "overflow" =>
        \E cycle \in (SUBSET Path) \ {{}} : \A p \in cycle : \E q \in cycle : Holds(q, p)

(* Discovery and passes end, also when files bring each other.             *)
Termination == <>(outcome # "running")
=================================================================================

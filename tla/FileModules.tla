------------------------------ MODULE FileModules ------------------------------
(***************************************************************************)
(* The modules that are made of the files and folders of a project:        *)
(* QatSitter::handle_path, called for every path of the command line and   *)
(* for every path a file brings, and the tree of modules it builds.        *)
(*                                                                         *)
(* A step is one item of a directory, one path handed to handle_path, or   *)
(* one return from it.                                                     *)
(***************************************************************************)
EXTENDS Naturals, SequencesExt

CONSTANTS
    NumPaths,  \* files and directories
    Projects   \* the projects considered, a set of ProjectType records

ASSUME NumPathsAssumption == NumPaths \in Nat

Path == 1 .. NumPaths

(* A bring of a path by a file: bring:member or not, and whether it is     *)
(* written inside a lib { } of the file.                                   *)
Bring == [from : Path, path : Path, member : BOOLEAN, inLib : BOOLEAN]

(* above: the directory a path is in, 0 when that is not of the project.   *)
(* libs: the files named *.lib.qat, at most one in a directory.            *)
(* All files are *.qat; args are the paths the compiler is called with.    *)
ProjectType ==
    {pr \in [above : [Path -> Path \cup {0}], dirs : SUBSET Path, libs : SUBSET Path,
             brings : Seq(Bring), args : Seq(Path)] :
        /\ pr.libs \cap pr.dirs = {}
        /\ \A p \in Path : pr.above[p] \in (pr.dirs \cup {0}) /\ pr.above[p] < p
        /\ \A i \in DOMAIN pr.brings : pr.brings[i].from \notin pr.dirs
        /\ \A p, q \in pr.libs : pr.above[p] = pr.above[q] /\ pr.above[p] # 0 => p = q}

ASSUME ProjectsAssumption == Projects \subseteq ProjectType

VARIABLES
    project,       \* the project, chosen once
    allModules,    \* Mod::allModules: the path and the kind of every module
    parent,        \* Mod::parent, 0 for none
    submodules,    \* Mod::submodules
    fileEntities,  \* QatSitter::fileEntities
    argsLeft,      \* paths of the command line still to be handled
    calls          \* the calls of handle_path, the innermost last

moduleVars == <<allModules, parent, submodules>>
discoveryVars == <<project, moduleVars, fileEntities, argsLeft, calls>>

ModuleId == 1 .. Len(allModules)

IsDir(p)    == p \in project.dirs
Items(d)    == {p \in Path : project.above[p] = d}

(* The brings with these numbers, in their order.                          *)
BringsAt(numbers) ==
    LET upTo[n \in 0 .. Len(project.brings)] ==
            IF n = 0 THEN <<>>
            ELSE IF n \in numbers THEN Append(upTo[n - 1], project.brings[n]) ELSE upTo[n - 1]
    IN  upTo[Len(project.brings)]
BringsOf(f) == BringsAt({i \in DOMAIN project.brings : project.brings[i].from = f})

(* Mutant: forgets that the module of a file may be a lib.                 *)
has_file_module_not_lib(f) ==
    \E m \in ModuleId : allModules[m].path = f /\ allModules[m].kind = "file"

has_file_module(f) ==
    \E m \in ModuleId : allModules[m].path = f /\ allModules[m].kind \in {"file", "rootLib"}

has_folder_module(d) ==
    \E m \in ModuleId : allModules[m].path = d /\ allModules[m].kind = "folder"

FirstModule(p, kinds) ==
    SelectInSeq(allModules, LAMBDA x : x.path = p /\ x.kind \in kinds)
get_file_module(f)   == FirstModule(f, {"file", "rootLib"})
get_folder_module(d) == FirstModule(d, {"folder"})

detect_lib_file(d) == Items(d) \cap project.libs

-----------------------------------------------------------------------------
NewModule == Len(allModules) + 1

(* Mod::create_submodule, create_file_mod and create_root_lib.             *)
create_submodule(p, kind, par) ==
    /\ allModules' = Append(allModules, [path |-> p, kind |-> kind])
    /\ parent' = Append(parent, par)
    /\ submodules' = Append([m \in ModuleId |->
                                IF m = par THEN Append(submodules[m], NewModule)
                                ELSE submodules[m]], <<>>)

(* handle_path enters every module it creates into fileEntities.           *)
CreateEntity(p, kind, par) ==
    /\ create_submodule(p, kind, par)
    /\ fileEntities' = Append(fileEntities, NewModule)

FileKind(f) == IF f \in project.libs THEN "rootLib" ELSE "file"

-----------------------------------------------------------------------------
(* A call of handle_path: the directories it is walking, innermost last,   *)
(* with the module their files go to and the items not looked at yet; the  *)
(* paths brought and the members named by the files parsed in this call.   *)
HandleCall(folders, brought, members) ==
    [folders |-> folders, brought |-> brought, members |-> members]

NothingToDo == HandleCall(<<>>, <<>>, <<>>)

WithFolders(c, folders) == HandleCall(folders, c.brought, c.members)

Walking(c, mod, d) == WithFolders(c, Append(c.folders, [mod |-> mod, items |-> Items(d)]))

PathsOf(brings)   == [i \in DOMAIN brings |-> brings[i].path]
MembersOf(brings) == PathsOf(SelectSeq(brings, LAMBDA b : b.member))

(* Mutant: the paths of the file parsed last take the place of the others. *)
ParsedForgetting(c, f) ==
    HandleCall(c.folders, PathsOf(BringsOf(f)), c.members \o MembersOf(BringsOf(f)))

(* The parser collects the paths of bring sentences, inside libs too.      *)
Parsed(c, f) ==
    HandleCall(c.folders, c.brought \o PathsOf(BringsOf(f)), c.members \o MembersOf(BringsOf(f)))

(* The start of handle_path(p), called from the calls in below.            *)
EnterDirectory(p, below) ==
    /\ IsDir(p) /\ ~has_folder_module(p)
    /\ \/ /\ detect_lib_file(p) = {}
          /\ CreateEntity(p, "folder", 0)
          /\ calls' = Append(below, Walking(NothingToDo, NewModule, p))
       \/ \E l \in detect_lib_file(p) :
            /\ CreateEntity(l, "file", 0)
            /\ calls' = Append(below, Parsed(NothingToDo, l))

EnterFile(p, below) ==
    /\ ~IsDir(p) /\ ~has_file_module(p)
    /\ CreateEntity(p, FileKind(p), 0)
    /\ calls' = Append(below, Parsed(NothingToDo, p))

EnterKnown(p, below) ==
    /\ IF IsDir(p) THEN has_folder_module(p) ELSE has_file_module(p)
    /\ calls' = Append(below, NothingToDo)
    /\ UNCHANGED <<moduleVars, fileEntities>>

handle_path(p, below) ==
    EnterDirectory(p, below) \/ EnterFile(p, below) \/ EnterKnown(p, below)

-----------------------------------------------------------------------------
HandleArgument ==
    /\ calls = <<>> /\ argsLeft # <<>>
    /\ argsLeft' = Tail(argsLeft)
    /\ handle_path(Head(argsLeft), <<>>)
    /\ UNCHANGED project

call == Last(calls)
Return(c) == calls' = Append(Front(calls), c)

(* One item of the innermost directory, in the order the file system gives *)
(* them.  A directory with a lib file becomes that lib; one without .qat   *)
(* files adds what it holds to the module of the directory it is in.       *)
WalkItem(i) ==
    LET at == Last(call.folders)
        rest == WithFolders(call, Append(Front(call.folders),
                                         [mod |-> at.mod, items |-> at.items \ {i}]))
    IN  /\ i \in at.items
        /\ \/ /\ IsDir(i) /\ ~has_folder_module(i)
              /\ \E l \in detect_lib_file(i) :
                    CreateEntity(l, "rootLib", at.mod) /\ Return(Parsed(rest, l))
           \/ /\ IsDir(i) /\ ~has_folder_module(i) /\ detect_lib_file(i) = {}
              /\ Items(i) \subseteq project.dirs
              /\ Return(Walking(rest, at.mod, i))
              /\ UNCHANGED <<moduleVars, fileEntities>>
           \/ /\ IsDir(i) /\ ~has_folder_module(i) /\ detect_lib_file(i) = {}
              /\ ~(Items(i) \subseteq project.dirs)
              /\ CreateEntity(i, "folder", at.mod)
              /\ Return(Walking(rest, NewModule, i))
           \/ /\ ~IsDir(i) /\ ~has_file_module(i)
              /\ CreateEntity(i, FileKind(i), at.mod)
              /\ Return(Parsed(rest, i))
           \/ /\ IF IsDir(i) THEN has_folder_module(i) ELSE has_file_module(i)
              /\ Return(rest)
              /\ UNCHANGED <<moduleVars, fileEntities>>

WalkFolder ==
    /\ calls # <<>> /\ call.folders # <<>>
    /\ \E i \in Last(call.folders).items : WalkItem(i)
    /\ UNCHANGED <<project, argsLeft>>

LeaveFolder ==
    /\ calls # <<>> /\ call.folders # <<>>
    /\ Last(call.folders).items = {}
    /\ Return(WithFolders(call, Front(call.folders)))
    /\ UNCHANGED <<project, moduleVars, fileEntities, argsLeft>>

(* Mutant: takes the path it follows not out of the list.                  *)
FollowBringAgain ==
    /\ calls # <<>> /\ call.folders = <<>> /\ call.brought # <<>>
    /\ handle_path(Head(call.brought), calls)
    /\ UNCHANGED <<project, argsLeft>>

FollowBring ==
    /\ calls # <<>> /\ call.folders = <<>> /\ call.brought # <<>>
    /\ handle_path(Head(call.brought),
                   Append(Front(calls), HandleCall(<<>>, Tail(call.brought), call.members)))
    /\ UNCHANGED <<project, argsLeft>>

(* Only the first entity of the path is removed, and no lib ever.          *)
remove_entity_with_path(p) ==
    fileEntities' = RemoveFirstMatch(fileEntities, LAMBDA m :
        allModules[m].path = p /\ allModules[m].kind \in {"file", "folder"})

(* The members named in this call belong to the modules that bring them.   *)
RemoveMember ==
    /\ calls # <<>> /\ call.folders = <<>> /\ call.brought = <<>> /\ call.members # <<>>
    /\ remove_entity_with_path(Head(call.members))
    /\ Return(HandleCall(<<>>, <<>>, Tail(call.members)))
    /\ UNCHANGED <<project, moduleVars, argsLeft>>

LeaveCall ==
    /\ calls # <<>> /\ call = NothingToDo
    /\ calls' = Front(calls)
    /\ UNCHANGED <<project, moduleVars, fileEntities, argsLeft>>

Discovered == calls = <<>> /\ argsLeft = <<>>

DiscoveryInit ==
    /\ project \in Projects
    /\ allModules = <<>> /\ parent = <<>> /\ submodules = <<>> /\ fileEntities = <<>>
    /\ argsLeft = project.args
    /\ calls = <<>>

DiscoveryNext ==
    \/ HandleArgument
    \/ WalkFolder \/ LeaveFolder
    \/ FollowBring
    \/ RemoveMember \/ LeaveCall
================================================================================

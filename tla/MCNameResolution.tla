---------------------------- MODULE MCNameResolution ----------------------------
(***************************************************************************)
(* Small programs for NameResolution: three files a, b and c, a lib l, and *)
(* a folder f.                                                             *)
(***************************************************************************)
EXTENDS NameResolution

CONSTANTS a, b, c, f, l,  \* modules
          main, x, y, n   \* names; n is the lib's

Imports(ms) == [i \in DOMAIN ms |-> [mod |-> ms[i], name |-> NoName, visibility |-> Pub]]

(* The trees: where l and c are, and which modules are brought.            *)
Tree(kinds, parent, submodules, brings, order) ==
    [kind |-> kinds, parent |-> parent, submodules |-> submodules, brings |-> brings,
     order |-> order,
     name |-> [m \in Mod |-> IF m = l THEN n ELSE NoName],
     visibility |-> [m \in Mod |-> Pub]]

Kinds == [m \in Mod |-> CASE m = l -> "lib" [] m = f -> "folder" [] OTHER -> "file"]
NoneBrought == [m \in Mod |-> <<>>]
LibIn(m) ==
    [parent |-> [k \in Mod |-> CASE k = l -> m [] k = c -> f [] OTHER -> NoMod],
     submodules |-> [k \in Mod |-> (IF k = m THEN <<l>> ELSE <<>>)
                                  \o (IF k = f THEN <<c>> ELSE <<>>)]]

TreeOf(m, brings) ==
    Tree(Kinds, LibIn(m).parent, LibIn(m).submodules, [k \in Mod |-> brings[k]], <<a, b, l, f, c>>)

Chain  == (a :> Imports(<<b>>)) @@ (b :> Imports(<<c>>)) @@ NoneBrought
Ring   == (a :> Imports(<<b>>)) @@ (b :> Imports(<<a>>)) @@ NoneBrought
Folder == (a :> Imports(<<f>>)) @@ (c :> Imports(<<b>>)) @@ NoneBrought

Trees == {TreeOf(b, Chain), TreeOf(a, Ring), TreeOf(c, Folder)}

Decl(kind, spec) == Define(kind, x, spec, <<>>)

(* What is in a: main, which uses x, n:x or y, and what these may meet.    *)
Main(path) == Define("function", main, "none", <<Path(0, path)>>)
Bring(path, alias, spec) == Sentence(<<Group(Path(0, path), alias)>>, spec)
Twice == Sentence(<<Group(Path(0, <<n, x>>), NoName), Group(Path(0, <<n>>), y)>>, "pub")

InA == {<<Main(<<x>>)>>,
        <<Main(<<x>>), Decl("global", "none")>>,
        <<Main(<<x>>), Define("function", x, "none", <<Path(0, <<main>>)>>)>>,
        <<Main(<<x>>), Bring(<<n, x>>, NoName, "none")>>,
        <<Main(<<x>>), Twice>>,
        <<Main(<<y>>), Bring(<<n, x>>, y, "none")>>,
        <<Main(<<n, x>>), Bring(<<n>>, NoName, "none")>>,
        <<Main(<<y, x>>), Twice>>}

(* What is in b, or in c, and what in the lib.                             *)
InFile == {<<>>, <<Decl("function", "none")>>, <<Decl("function", "pub")>>,
           <<Decl("global", "lib")>>, <<Decl("function", "none"), Decl("global", "file")>>,
           <<Bring(<<n, x>>, NoName, "none")>>, <<Bring(<<n, x>>, NoName, "pub")>>}
InLib  == {<<>>, <<Decl("function", "pub")>>, <<Decl("function", "none")>>,
           <<Decl("generic struct type", "pub")>>, <<Decl("flag type", "pub")>>,
           <<Define("function", y, "lib", <<Path(2, <<x>>)>>)>>,
           <<Sentence(<<Group(Path(1, <<x>>), NoName)>>, "pub")>>}

Program(tree, nodes) ==
    [kind |-> tree.kind, parent |-> tree.parent, submodules |-> tree.submodules,
     brings |-> tree.brings, name |-> tree.name,
     order |-> SelectSeq(tree.order, LAMBDA m : nodes[m] # <<>>),
     visibility |-> tree.visibility, nodes |-> nodes]

(* In the ring nothing leads to c.                                         *)
TreesWithFile == {<<tree, file>> \in Trees \X {b, c} : file = c => tree # TreeOf(a, Ring)}

Products ==
    {Program(tf[1], [m \in Mod |-> CASE m = a -> na [] m = tf[2] -> nf [] m = l -> nl
                                     [] OTHER -> <<>>]) :
        tf \in TreesWithFile, na \in InA, nf \in InFile, nl \in InLib}

(* A path above the program, a bring for a lib around a, the bring of a    *)
(* lib that b brings under another name after a's names are entered, and   *)
(* the bring of a bare name; also with a lib that only b sees.             *)
Specials ==
    {Program(tf[1], [m \in Mod |->
        CASE m = a -> na [] m = tf[2] -> <<Twice>> [] m = l -> <<Decl(kind, "pub")>>
          [] OTHER -> <<>>]) :
        tf \in {<<TreeOf(b, Chain), b>>, <<TreeOf(c, Folder), c>>,
                <<[TreeOf(b, Chain) EXCEPT !.visibility[l] = b], b>>},
        kind \in {"function", "generic struct type"},
        na \in {<<Define("function", main, "none", <<Path(1, <<x>>)>>)>>,
                <<Main(<<x>>), Bring(<<x>>, NoName, "none")>>,
                <<Bring(<<x>>, y, "lib")>>, <<Bring(<<y>>, NoName, "none")>>}}

(* A generic struct type that its file brings in under another name.       *)
Renamed ==
    Program(TreeOf(c, Folder),
            [m \in Mod |->
                CASE m = a -> <<Main(<<y>>)>>
                  [] m = c -> <<Decl("generic struct type", "pub"), Bring(<<x>>, y, "pub")>>
                  [] OTHER -> <<>>])

AllPrograms == Products \cup Specials \cup {Renamed}
================================================================================

------------------------------ MODULE MCNodePasses ------------------------------
(***************************************************************************)
(* The projects the discovery of files and the node passes are checked on. *)
(***************************************************************************)
EXTENDS NodePasses

(* Every arrangement of the paths in directories, up to the order of the   *)
(* paths, with at most one lib file and no empty directory.                *)
Layouts ==
    {l \in [above : [Path -> Path \cup {0}], dirs : SUBSET Path, libs : SUBSET Path] :
        /\ l.libs \cap l.dirs = {} /\ Cardinality(l.libs) <= 1
        /\ \A p \in Path : l.above[p] \in (l.dirs \cup {0}) /\ l.above[p] < p
        /\ \A p, q \in Path : p < q => l.above[p] <= l.above[q]
        /\ \A d \in l.dirs : \E p \in Path : l.above[p] = d}

(* What a file of the layout may bring.  A lib file that brings the folder *)
(* it is in has the compiler look for files without end, and is left out.  *)
Brings(l) ==
    {x \in [from : Path \ l.dirs, path : Path, member : BOOLEAN, inLib : BOOLEAN] :
        /\ x.from # x.path
        /\ x.inLib => x.member
        /\ x.from \in l.libs => x.path # l.above[x.from]}

BringLists(l) ==
    LET outside == {x \in Brings(l) : ~x.inLib}
    IN  {<<>>} \cup {<<x>> : x \in Brings(l)}
        \cup {xy \in outside \X outside : xy[1].from <= xy[2].from}

(* With two brings the compiler is given one path, otherwise one or two.   *)
Arguments(n) ==
    IF n = 2 THEN {<<1>>, <<NumPaths>>}
    ELSE {<<p>> : p \in Path} \cup {<<1, p>> : p \in Path} \cup {<<p, 1>> : p \in Path}

SmallProjects ==
    UNION {[above : {l.above}, dirs : {l.dirs}, libs : {l.libs},
            brings : {list \in BringLists(l) : Len(list) = n}, args : Arguments(n)] :
        l \in Layouts, n \in 0 .. 2}
=================================================================================

--------------------------- MODULE NodePasses_proofs ---------------------------
(***************************************************************************)
(* Theorems about the tree of modules, for any number of paths and any     *)
(* projects: parents and submodules always agree, a path has one module,   *)
(* brings have their effect, only a cycle of paths is gone round for ever, *)
(* and the passes meet the same modules in the same order.                 *)
(*                                                                         *)
(* TreeInv adds what the steps that build the tree rely on: every module   *)
(* number they hold, in the walks of handle_path, in fileEntities and in   *)
(* the visits of a pass, is one of a module that exists.  PathsInv,        *)
(* EffectInv and HeldInv add to it what modules are made for, what the     *)
(* nodes passed have done, and where the paths of submodules come from.    *)
(* FoundInv follows what a file brings from the list it is in to a module, *)
(* and OrderInv says which module comes next in a pass, by those before it.*)
(***************************************************************************)
EXTENDS NodePasses, SequenceTheorems, FiniteSetTheorems, WellFoundedInduction,
        TLAPS

-----------------------------------------------------------------------------
(* Facts about sequences, sets of numbers and functions that are recursive *)
(* by a rank, which the proofs below need.                                 *)

(* A sequence, of whatever.                                                *)
IsSeq(s) == s \in Seq(ToSet(s))

(* Length and domain of a sequence.                                        *)
LEMMA SeqFacts ==
    ASSUME NEW s, IsSeq(s)
    PROVE  /\ Len(s) \in Nat
           /\ DOMAIN s = 1 .. Len(s)
           /\ s = <<>> <=> Len(s) = 0
    BY LenProperties, EmptySeq DEF IsSeq

(* The empty sequence is one.                                              *)
LEMMA EmptyIsSeq == IsSeq(<<>>) /\ Len(<<>>) = 0
    BY DEF IsSeq

(* So is every sequence over a set.                                        *)
LEMMA SeqOfIsSeq ==
    ASSUME NEW S, NEW s \in Seq(S)
    PROVE  IsSeq(s)
<1>1. /\ Len(s) \in Nat /\ DOMAIN s = 1 .. Len(s) /\ s \in [1 .. Len(s) -> S]
    BY LenProperties
<1>2. s \in [1 .. Len(s) -> ToSet(s)]
    BY <1>1 DEF ToSet
<1> QED
    BY <1>1, <1>2 DEF IsSeq

(* The elements of a sequence over a set are of that set.                  *)
LEMMA ElementsOfSeq ==
    ASSUME NEW S, NEW s \in Seq(S)
    PROVE  \A x \in ToSet(s) : x \in S
<1>1. DOMAIN s = 1 .. Len(s) /\ s \in [1 .. Len(s) -> S]
    BY LenProperties
<1>2. \A i \in DOMAIN s : s[i] \in S
    BY <1>1
<1> QED
    BY <1>2 DEF ToSet

(* Two sequences of the same places are equally long.                      *)
LEMMA LengthsAgree ==
    ASSUME NEW j \in Nat, NEW k \in Nat, 1 .. j = 1 .. k
    PROVE  j = k
<1>1. j # 0 => j \in 1 .. k
    OBVIOUS
<1>2. k # 0 => k \in 1 .. j
    OBVIOUS
<1> QED
    BY <1>1, <1>2

(* A function on the first numbers is a sequence.                          *)
LEMMA FunctionIsSeq ==
    ASSUME NEW n \in Nat, NEW S, NEW s \in [1 .. n -> S]
    PROVE  IsSeq(s) /\ Len(s) = n
<1>1. s \in Seq(S) /\ Len(s) = n
    OBVIOUS
<1> QED
    BY <1>1, SeqOfIsSeq

(* What Append gives, whatever the elements are.                           *)
LEMMA AppendAny ==
    ASSUME NEW s, IsSeq(s), NEW e
    PROVE  /\ IsSeq(Append(s, e))
           /\ Len(Append(s, e)) = Len(s) + 1
           /\ DOMAIN Append(s, e) = 1 .. Len(s) + 1
           /\ \A i \in 1 .. Len(s) : Append(s, e)[i] = s[i]
           /\ Append(s, e)[Len(s) + 1] = e
<1> DEFINE S == ToSet(s) \cup {e}
<1>1. s \in Seq(S)
    BY SeqMonotonic DEF IsSeq
<1>2. e \in S
    OBVIOUS
<1> HIDE DEF S
<1>3. /\ Append(s, e) \in Seq(S)
      /\ Len(Append(s, e)) = Len(s) + 1
      /\ \A i \in 1 .. Len(s) : Append(s, e)[i] = s[i]
      /\ Append(s, e)[Len(s) + 1] = e
    BY <1>1, <1>2, AppendProperties
<1>4. DOMAIN Append(s, e) = 1 .. Len(s) + 1
    BY <1>3, LenProperties
<1>5. IsSeq(Append(s, e))
    BY <1>3, SeqOfIsSeq
<1> QED
    BY <1>3, <1>4, <1>5

(* What Append adds to the elements.                                       *)
LEMMA AppendAdds ==
    ASSUME NEW s, IsSeq(s), NEW x
    PROVE  ToSet(Append(s, x)) = ToSet(s) \cup {x}
<1>1. /\ DOMAIN Append(s, x) = 1 .. Len(s) + 1 /\ Append(s, x)[Len(s) + 1] = x
      /\ \A i \in 1 .. Len(s) : Append(s, x)[i] = s[i]
      /\ Len(s) \in Nat /\ DOMAIN s = 1 .. Len(s)
    BY AppendAny, SeqFacts
<1>2. \A i \in 1 .. Len(s) + 1 : i \in 1 .. Len(s) \/ i = Len(s) + 1
    BY <1>1
<1>3. Len(s) + 1 \in 1 .. Len(s) + 1 /\ 1 .. Len(s) \subseteq 1 .. Len(s) + 1
    BY <1>1
<1> QED
    BY <1>1, <1>2, <1>3 DEF ToSet

(* What Front leaves, of a sequence that is not empty.                     *)
LEMMA FrontAny ==
    ASSUME NEW s, IsSeq(s), Len(s) # 0
    PROVE  /\ IsSeq(Front(s))
           /\ Len(Front(s)) = Len(s) - 1
           /\ DOMAIN Front(s) = 1 .. Len(s) - 1
           /\ \A i \in 1 .. Len(s) - 1 : Front(s)[i] = s[i]
           /\ Len(s) \in Nat \ {0} /\ Last(s) = s[Len(s)]
<1> DEFINE S == ToSet(s)
<1>1. /\ Len(s) \in Nat /\ DOMAIN s = 1 .. Len(s)
    BY SeqFacts
<1>2. \A i \in 1 .. Len(s) - 1 : s[i] \in S
    BY <1>1 DEF ToSet
<1> HIDE DEF S
<1>3. 1 \in Int /\ Len(s) - 1 \in Int
    BY <1>1
<1> DEFINE n == Len(s) - 1
<1>4. \A i \in 1 .. n : s[i] \in S
    BY <1>2
<1> HIDE DEF n
<1>5. n \in Int
    BY <1>3 DEF n
<1>6. /\ SubSeq(s, 1, n) \in Seq(S)
      /\ Len(SubSeq(s, 1, n)) = IF 1 <= n THEN n - 1 + 1 ELSE 0
      /\ \A i \in 1 .. n - 1 + 1 : SubSeq(s, 1, n)[i] = s[1 + i - 1]
    BY <1>4, <1>5, SubSeqProperties
<1>7. Front(s) = SubSeq(s, 1, n)
    BY DEF Front, n
<1>8. n \in Nat /\ n - 1 + 1 = n /\ \A i \in 1 .. n : 1 + i - 1 = i
    BY <1>1 DEF n
<1>9. /\ Front(s) \in Seq(S) /\ Len(Front(s)) = n
      /\ \A i \in 1 .. n : Front(s)[i] = s[i]
    BY <1>6, <1>7, <1>8
<1>10. DOMAIN Front(s) = 1 .. n
    BY <1>9, LenProperties
<1>11. IsSeq(Front(s))
    BY <1>9, SeqOfIsSeq
<1> QED
    BY <1>1, <1>9, <1>10, <1>11 DEF n, Last

(* The elements that are left, and the last one.                           *)
LEMMA FrontElements ==
    ASSUME NEW s, IsSeq(s), s # <<>>
    PROVE  ToSet(Front(s)) \subseteq ToSet(s) /\ Last(s) \in ToSet(s) /\ IsSeq(Front(s))
<1>1. /\ IsSeq(Front(s)) /\ DOMAIN Front(s) = 1 .. Len(s) - 1
      /\ \A i \in 1 .. Len(s) - 1 : Front(s)[i] = s[i]
      /\ Len(s) \in Nat \ {0} /\ Last(s) = s[Len(s)] /\ DOMAIN s = 1 .. Len(s)
    BY SeqFacts, FrontAny
<1>2. 1 .. Len(s) - 1 \subseteq DOMAIN s /\ Len(s) \in DOMAIN s
    BY <1>1
<1> QED
    BY <1>1, <1>2 DEF ToSet

(* What the update of one element changes.                                 *)
LEMMA ExceptAny ==
    ASSUME NEW s, IsSeq(s), NEW i \in DOMAIN s, NEW e
    PROVE  /\ IsSeq([s EXCEPT ![i] = e])
           /\ Len([s EXCEPT ![i] = e]) = Len(s)
           /\ DOMAIN [s EXCEPT ![i] = e] = DOMAIN s
           /\ \A j \in DOMAIN s : [s EXCEPT ![i] = e][j] = IF j = i THEN e ELSE s[j]
<1> DEFINE S == ToSet(s) \cup {e}
<1>1. s \in Seq(S) /\ e \in S /\ i \in 1 .. Len(s) /\ DOMAIN s = 1 .. Len(s)
    BY SeqMonotonic, SeqFacts DEF IsSeq
<1> HIDE DEF S
<1>2. /\ [s EXCEPT ![i] = e] \in Seq(S)
      /\ Len([s EXCEPT ![i] = e]) = Len(s)
      /\ \A j \in 1 .. Len(s) : [s EXCEPT ![i] = e][j] = IF j = i THEN e ELSE s[j]
    BY <1>1, ExceptSeq
<1> QED
    BY <1>1, <1>2, SeqOfIsSeq

(* A set of numbers that is not empty has a least one.                     *)
LEMMA LeastNumber ==
    ASSUME NEW I, I \subseteq Nat, I # {}
    PROVE  \E x \in I : \A y \in I : x <= y
<1> DEFINE R == OpToRel(<, Nat)
<1>1. IsWellFoundedOn(R, Nat)
    BY NatLessThanWellFounded
<1>2. ASSUME NEW x \in I, NEW y \in I, y < x
      PROVE  <<y, x>> \in R
    <2>1. <<y, x>> \in Nat \X Nat /\ <<y, x>>[1] = y /\ <<y, x>>[2] = x
        OBVIOUS
    <2> QED
        BY <1>2, <2>1, Zenon DEF OpToRel
<1> HIDE DEF R
<1>3. PICK x \in I : \A y \in I : ~(<<y, x>> \in R)
    BY <1>1, WFMin
<1>4. \A y \in I : ~(y < x)
    BY <1>2, <1>3, Zenon
<1> QED
    BY <1>3, <1>4

(* Min of a set of numbers is the least of them.                          *)
LEMMA MinIsMember ==
    ASSUME NEW I, I \subseteq Nat, I # {}
    PROVE  Min(I) \in I /\ \A y \in I : Min(I) =< y
<1>1. PICK x \in I : \A y \in I : x <= y
    BY LeastNumber
<1> QED
    BY <1>1 DEF Min

-----------------------------------------------------------------------------
Tree ==
    /\ \E S : allModules \in Seq(S)
    /\ parent \in Seq(ModuleId \cup {0}) /\ Len(parent) = Len(allModules)
    /\ submodules \in Seq(Seq(ModuleId)) /\ Len(submodules) = Len(allModules)
    /\ TreeConsistent

Folder == [mod : ModuleId, items : SUBSET Path]

Walks == \E B, M : calls \in Seq([folders : Seq(Folder), brought : B, members : M])

TreeInv ==
    /\ Tree
    /\ Walks
    /\ fileEntities \in Seq(ModuleId)
    /\ next \in Nat \ {0}
    /\ visits \in Seq([mod : ModuleId, node : Nat \ {0}, sub : Nat \ {0}])

-----------------------------------------------------------------------------
(* The two ends of a sequence that is not empty.                           *)
LEMMA FrontAndLast ==
    ASSUME NEW S, NEW s \in Seq(S), s # <<>>
    PROVE  Last(s) \in S /\ Front(s) \in Seq(S)
BY DEF Last, Front

(* get_file_module and get_folder_module return a module or none.          *)
LEMMA FirstModuleExists ==
    ASSUME Tree, NEW p, NEW kinds
    PROVE  FirstModule(p, kinds) \in ModuleId \cup {0}
<1> DEFINE I == {i \in 1 .. Len(allModules) :
                    allModules[i].path = p /\ allModules[i].kind \in kinds}
<1>1. FirstModule(p, kinds) = IF I # {} THEN Min(I) ELSE 0
    BY DEF FirstModule, SelectInSeq
<1>2. I \subseteq ModuleId /\ I \subseteq Nat
    BY DEF ModuleId
<1> HIDE DEF I
<1> QED
    BY <1>1, <1>2, MinIsMember

(* Creating a module in a module that exists, or in none, keeps the tree.  *)
LEMMA CreateKeepsTree ==
    ASSUME Tree, NEW p, NEW kind, NEW par \in ModuleId \cup {0},
           create_submodule(p, kind, par)
    PROVE  /\ Tree'
           /\ Len(allModules) \in Nat
           /\ ModuleId' = ModuleId \cup {NewModule}
           /\ NewModule \in ModuleId'
<1> DEFINE n == Len(allModules)
           x == [path |-> p, kind |-> kind]
           subs == [m \in ModuleId |-> IF m = par THEN Append(submodules[m], NewModule)
                                       ELSE submodules[m]]
<1>1. PICK S : allModules \in Seq(S)
    BY DEF Tree
<1>2. /\ allModules' \in Seq(S \cup {x})
      /\ n \in Nat /\ Len(allModules') = n + 1
    BY <1>1 DEF create_submodule
<1>3. ModuleId = 1 .. n /\ ModuleId' = 1 .. n + 1 /\ NewModule = n + 1
    BY <1>2 DEF ModuleId, NewModule
<1>4. /\ parent' \in Seq(ModuleId' \cup {0}) /\ Len(parent') = n + 1
      /\ parent'[n + 1] = par /\ \A m \in ModuleId : parent'[m] = parent[m]
    BY <1>2, <1>3 DEF create_submodule, Tree
<1>5. subs \in Seq(Seq(ModuleId')) /\ Len(subs) = n
    <2>1. \A m \in ModuleId : submodules[m] \in Seq(ModuleId')
        BY <1>2, <1>3, SeqMonotonic DEF Tree
    <2>2. ASSUME NEW m \in ModuleId
          PROVE  subs[m] \in Seq(ModuleId')
        <3>1. Append(submodules[m], NewModule) \in Seq(ModuleId')
            BY <2>1, <1>2, <1>3, AppendProperties
        <3> QED
            BY <2>1, <3>1
    <2>3. subs \in [1 .. n -> Seq(ModuleId')]
        BY <2>2, <1>3
    <2> HIDE DEF subs
    <2> QED
        BY <2>3, <1>2, SeqDef
<1>6. submodules' = Append(subs, <<>>)
    BY DEF create_submodule
<1>7. /\ submodules' \in Seq(Seq(ModuleId')) /\ Len(submodules') = n + 1
      /\ submodules'[n + 1] = <<>> /\ \A m \in ModuleId : submodules'[m] = subs[m]
    <2> HIDE DEF subs
    <2> QED
        BY <1>2, <1>3, <1>5, <1>6
<1>8. TreeConsistent'
    <2> SUFFICES ASSUME NEW m \in ModuleId'
                 PROVE  /\ ToSet(submodules'[m]) = {y \in ModuleId' : parent'[y] = m}
                        /\ IsInjective(submodules'[m])
        BY DEF TreeConsistent
    <2>1. CASE m = n + 1
        <3>1. \A y \in ModuleId : parent[y] # n + 1
            <4>1. parent \in Seq(ModuleId \cup {0}) /\ Len(parent) = n
                BY DEF Tree
            <4>2. \A y \in 1 .. n : parent[y] \in (1 .. n) \cup {0}
                BY <4>1, <1>3, ElementsOfSeq
            <4> HIDE DEF n
            <4> QED
                BY <4>2, <1>2, <1>3
        <3>2. par # n + 1
            BY <1>2, <1>3
        <3>3. submodules'[m] = <<>>
            BY <2>1, <1>7
        <3>4. ToSet(<<>>) = {} /\ IsInjective(<<>>)
            BY DEF ToSet, IsInjective
        <3>5. {y \in ModuleId' : parent'[y] = m} = {}
            BY <2>1, <3>1, <3>2, <1>2, <1>3, <1>4
        <3> QED
            BY <3>3, <3>4, <3>5
    <2>2. CASE m \in ModuleId
        <3>1. /\ ToSet(submodules[m]) = {y \in ModuleId : parent[y] = m}
              /\ IsInjective(submodules[m])
              /\ submodules[m] \in Seq(ModuleId)
            BY <2>2, <1>3 DEF Tree, TreeConsistent
        <3>2. CASE m = par
            <4>1. submodules'[m] = Append(submodules[m], n + 1)
                BY <2>2, <3>2, <1>7, <1>3
            <4> DEFINE s == submodules[m]
                       k == Len(s)
            <4>2. /\ k \in Nat /\ DOMAIN Append(s, n + 1) = 1 .. k + 1
                  /\ \A i \in 1 .. k : Append(s, n + 1)[i] = s[i] /\ s[i] \in 1 .. n
                  /\ Append(s, n + 1)[k + 1] = n + 1 /\ DOMAIN s = 1 .. k
                BY <3>1, <1>3
            <4>3. ToSet(submodules'[m]) = ToSet(s) \cup {n + 1}
                <5> HIDE DEF s, k
                <5> QED
                    BY <4>1, <4>2 DEF ToSet, s
            <4>4. IsInjective(submodules'[m])
                <5>1. \A i, j \in 1 .. k : s[i] = s[j] => i = j
                    BY <3>1, <4>2 DEF IsInjective
                <5>2. n + 1 \notin 1 .. n
                    BY <1>2
                <5> HIDE DEF s, k
                <5> QED
                    BY <4>1, <4>2, <5>1, <5>2 DEF IsInjective, s
            <4>5. {y \in ModuleId' : parent'[y] = m}
                    = {y \in ModuleId : parent[y] = m} \cup {n + 1}
                <5> HIDE DEF s, k
                <5>1. \A y \in ModuleId : parent'[y] = parent[y]
                    BY <1>4
                <5>2. parent'[n + 1] = m /\ ModuleId' = ModuleId \cup {n + 1}
                    BY <1>2, <1>3, <1>4, <3>2
                <5> QED
                    BY <5>1, <5>2
            <4> HIDE DEF s, k
            <4>6. ToSet(s) = {y \in ModuleId : parent[y] = m}
                BY <3>1 DEF s
            <4> QED
                BY <4>3, <4>4, <4>5, <4>6, Zenon
        <3>3. CASE m # par
            <4>1. submodules'[m] = submodules[m]
                BY <2>2, <3>3, <1>3, <1>7
            <4>2. {y \in ModuleId' : parent'[y] = m} = {y \in ModuleId : parent[y] = m}
                BY <2>2, <3>3, <1>2, <1>3, <1>4
            <4> QED
                BY <3>1, <4>1, <4>2
        <3> QED
            BY <3>2, <3>3
    <2> QED
        BY <2>1, <2>2, <1>3, <1>2
<1> QED
    <2>1. \E T : allModules' \in Seq(T)
        BY <1>2
    <2>2. Len(parent') = Len(allModules') /\ Len(submodules') = Len(allModules')
        BY <1>2, <1>4, <1>7
    <2>3. Tree'
        BY <1>4, <1>7, <1>8, <2>1, <2>2 DEF Tree
    <2> QED
        BY <1>2, <1>3, <2>3

(* handle_path makes the module of a new entity.                           *)
LEMMA CreateEntityKeepsTree ==
    ASSUME Tree, fileEntities \in Seq(ModuleId), NEW p, NEW kind,
           NEW par \in ModuleId \cup {0}, CreateEntity(p, kind, par)
    PROVE  /\ Tree'
           /\ ModuleId \subseteq ModuleId'
           /\ NewModule \in ModuleId'
           /\ fileEntities' \in Seq(ModuleId')
<1>1. create_submodule(p, kind, par)
    BY DEF CreateEntity
<1>2. /\ Tree' /\ ModuleId' = ModuleId \cup {NewModule}
    BY <1>1, CreateKeepsTree
<1>3. fileEntities \in Seq(ModuleId')
    BY <1>2, SeqMonotonic
<1>4. fileEntities' = Append(fileEntities, NewModule)
    BY DEF CreateEntity
<1> QED
    BY <1>2, <1>3, <1>4, AppendProperties

Frames(ids, B, M) ==
    [folders : Seq([mod : ids, items : SUBSET Path]), brought : B, members : M]

(* A call that goes on the stack, on top of calls that were there.         *)
LEMMA PushKeepsWalks ==
    ASSUME NEW ids, NEW newIds, ids \subseteq newIds, NEW B, NEW M,
           NEW below \in Seq(Frames(ids, B, M)),
           NEW folders \in Seq([mod : newIds, items : SUBSET Path]), NEW b, NEW m,
           NEW c, c = HandleCall(folders, b, m)
    PROVE  \E C, N : Append(below, c) \in Seq(Frames(newIds, C, N))
<1> DEFINE F == Frames(newIds, B \cup {b}, M \cup {m})
<1>1. c \in F
    BY DEF Frames, HandleCall
<1>2. Frames(ids, B, M) \subseteq F
    <2> SUFFICES ASSUME NEW f \in Frames(ids, B, M)
                 PROVE  f \in F
        OBVIOUS
    <2>1. [mod : ids, items : SUBSET Path] \subseteq [mod : newIds, items : SUBSET Path]
        OBVIOUS
    <2>2. f.folders \in Seq([mod : newIds, items : SUBSET Path])
        BY <2>1, SeqMonotonic DEF Frames
    <2>3. f = [folders |-> f.folders, brought |-> f.brought, members |-> f.members]
          /\ f.brought \in B /\ f.members \in M
        BY DEF Frames
    <2> QED
        BY <2>2, <2>3 DEF Frames
<1>3. below \in Seq(F)
    BY <1>2, SeqMonotonic
<1>4. Append(below, c) \in Seq(F)
    BY <1>1, <1>3, AppendProperties
<1> QED
    BY <1>4

(* What parsing a file and walking into a directory make of a call.        *)
LEMMA ParsedFields ==
    ASSUME NEW c, NEW f, NEW b, NEW m, c = HandleCall(f, b, m), NEW x
    PROVE  \E b2, m2 : Parsed(c, x) = HandleCall(f, b2, m2)
<1>1. Parsed(c, x) = HandleCall(f, c.brought \o PathsOf(BringsOf(x)), c.members \o MembersOf(BringsOf(x)))
    BY DEF Parsed, HandleCall
<1> QED
    BY <1>1

LEMMA WalkingFields ==
    ASSUME NEW c, NEW f, NEW b, NEW m, c = HandleCall(f, b, m), NEW x, NEW mod
    PROVE  Walking(c, mod, x) = HandleCall(Append(f, [mod |-> mod, items |-> Items(x)]), b, m)
<1>1. c.folders = f /\ c.brought = b /\ c.members = m
    BY DEF HandleCall
<1> QED
    BY <1>1 DEF Walking, WithFolders

LEMMA FolderTyped ==
    ASSUME NEW ids, NEW mod \in ids, NEW x
    PROVE  [mod |-> mod, items |-> Items(x)] \in [mod : ids, items : SUBSET Path]
BY DEF Items

Discovering ==
    /\ Tree'
    /\ Walks'
    /\ fileEntities' \in Seq(ModuleId')
    /\ ModuleId \subseteq ModuleId'

(* The start of handle_path, whatever calls are below it.                  *)
LEMMA HandlePathKeeps ==
    ASSUME Tree, fileEntities \in Seq(ModuleId), NEW p, NEW B, NEW M,
           NEW below \in Seq(Frames(ModuleId, B, M)), handle_path(p, below)
    PROVE  Discovering
<1>1. Walks' <=> \E C, N : calls' \in Seq(Frames(ModuleId', C, N))
    BY DEF Walks, Frames, Folder
<1>2. ASSUME NEW q, NEW kind, CreateEntity(q, kind, 0)
      PROVE  /\ Tree' /\ ModuleId \subseteq ModuleId' /\ NewModule \in ModuleId'
             /\ fileEntities' \in Seq(ModuleId')
    BY <1>2, CreateEntityKeepsTree
<1>3. CASE \E kind : \E q : CreateEntity(q, kind, 0) /\ calls' = Append(below, Parsed(NothingToDo, q))
    <2>1. PICK kind, q : CreateEntity(q, kind, 0) /\ calls' = Append(below, Parsed(NothingToDo, q))
        BY <1>3
    <2>2. PICK b2, m2 : Parsed(NothingToDo, q) = HandleCall(<<>>, b2, m2)
        <3>1. Parsed(NothingToDo, q) = HandleCall(<<>>, <<>> \o PathsOf(BringsOf(q)),
                                                  <<>> \o MembersOf(BringsOf(q)))
            BY DEF NothingToDo, Parsed, HandleCall
        <3> QED
            BY <3>1
    <2>3. ModuleId \subseteq ModuleId'
        BY <1>2, <2>1
    <2>4. <<>> \in Seq([mod : ModuleId', items : SUBSET Path])
        OBVIOUS
    <2>5. \E C, N : calls' \in Seq(Frames(ModuleId', C, N))
        BY <2>1, <2>2, <2>3, <2>4, PushKeepsWalks
    <2> QED
        BY <1>1, <1>2, <2>1, <2>5 DEF Discovering
<1>4. CASE CreateEntity(p, "folder", 0) /\ calls' = Append(below, Walking(NothingToDo, NewModule, p))
    <2>1. /\ ModuleId \subseteq ModuleId' /\ NewModule \in ModuleId'
        BY <1>2, <1>4
    <2> DEFINE f == [mod |-> NewModule, items |-> Items(p)]
    <2>2. Walking(NothingToDo, NewModule, p) = HandleCall(Append(<<>>, f), <<>>, <<>>)
        BY DEF NothingToDo, Walking, WithFolders, HandleCall
    <2>3. f \in [mod : ModuleId', items : SUBSET Path]
        BY <2>1, FolderTyped
    <2> HIDE DEF f
    <2>4. Append(<<>>, f) \in Seq([mod : ModuleId', items : SUBSET Path])
        BY <2>3
    <2>5. \E C, N : calls' \in Seq(Frames(ModuleId', C, N))
        BY <1>4, <2>1, <2>2, <2>4, PushKeepsWalks
    <2> QED
        BY <1>1, <1>2, <1>4, <2>5 DEF Discovering
<1>5. CASE EnterKnown(p, below)
    <2>1. /\ Tree' /\ ModuleId' = ModuleId /\ fileEntities' \in Seq(ModuleId')
        BY <1>5 DEF EnterKnown, moduleVars, Tree, ModuleId, TreeConsistent
    <2>2. <<>> \in Seq([mod : ModuleId', items : SUBSET Path])
        OBVIOUS
    <2>3. \E C, N : calls' \in Seq(Frames(ModuleId', C, N))
        BY <1>5, <2>1, <2>2, PushKeepsWalks DEF EnterKnown, NothingToDo
    <2> QED
        BY <1>1, <2>1, <2>3 DEF Discovering
<1> QED
    BY <1>3, <1>4, <1>5 DEF handle_path, EnterDirectory, EnterFile

(* The innermost call, and the ones below it.                              *)
LEMMA TopCall ==
    ASSUME NEW B, NEW M, calls \in Seq(Frames(ModuleId, B, M)), calls # <<>>
    PROVE  /\ call = HandleCall(call.folders, call.brought, call.members)
           /\ call.folders \in Seq([mod : ModuleId, items : SUBSET Path])
           /\ Front(calls) \in Seq(Frames(ModuleId, B, M))
<1>1. call \in Frames(ModuleId, B, M) /\ Front(calls) \in Seq(Frames(ModuleId, B, M))
    BY FrontAndLast DEF call
<1> QED
    BY <1>1 DEF Frames, HandleCall

(* Replacing the innermost call.                                           *)
LEMMA ReturnKeepsWalks ==
    ASSUME NEW B, NEW M, calls \in Seq(Frames(ModuleId, B, M)), calls # <<>>,
           ModuleId \subseteq ModuleId',
           NEW f \in Seq([mod : ModuleId', items : SUBSET Path]), NEW b, NEW m,
           NEW c, c = HandleCall(f, b, m), Return(c)
    PROVE  Walks'
<1>1. Front(calls) \in Seq(Frames(ModuleId, B, M))
    BY TopCall
<1>2. \E C, N : Append(Front(calls), c) \in Seq(Frames(ModuleId', C, N))
    BY <1>1, PushKeepsWalks
<1> QED
    BY <1>2 DEF Walks, Frames, Folder, Return

(* Walks over modules are walks over more modules.                         *)
LEMMA MoreModules ==
    ASSUME NEW ids, NEW newIds, ids \subseteq newIds,
           NEW f \in Seq([mod : ids, items : SUBSET Path])
    PROVE  f \in Seq([mod : newIds, items : SUBSET Path])
<1>1. [mod : ids, items : SUBSET Path] \subseteq [mod : newIds, items : SUBSET Path]
    OBVIOUS
<1> QED
    BY <1>1, SeqMonotonic

(* One item of the innermost directory.                                    *)
LEMMA WalkFolderKeeps ==
    ASSUME Tree, Walks, fileEntities \in Seq(ModuleId), WalkFolder
    PROVE  Discovering
<1>1. PICK B, M : calls \in Seq(Frames(ModuleId, B, M))
    BY DEF Walks, Frames, Folder
<1>2. PICK i : calls # <<>> /\ call.folders # <<>> /\ WalkItem(i)
    BY DEF WalkFolder
<1>3. /\ call = HandleCall(call.folders, call.brought, call.members)
      /\ call.folders \in Seq([mod : ModuleId, items : SUBSET Path])
    BY <1>1, <1>2, TopCall
<1> DEFINE top == Last(call.folders)
           f == Append(Front(call.folders), [mod |-> top.mod, items |-> top.items \ {i}])
           rest == WithFolders(call, f)
<1>4. top \in [mod : ModuleId, items : SUBSET Path]
    BY <1>2, <1>3, FrontAndLast
<1>5. f \in Seq([mod : ModuleId, items : SUBSET Path])
    <2>1. Front(call.folders) \in Seq([mod : ModuleId, items : SUBSET Path])
        BY <1>2, <1>3, FrontAndLast
    <2>2. [mod |-> top.mod, items |-> top.items \ {i}] \in [mod : ModuleId, items : SUBSET Path]
        BY <1>4
    <2> HIDE DEF top
    <2> QED
        BY <2>1, <2>2, AppendProperties
<1>6. rest = HandleCall(f, call.brought, call.members)
    BY DEF WithFolders
<1>7. top.mod \in ModuleId \cup {0}
    BY <1>4
<1>8. \/ \E kind, q : CreateEntity(q, kind, top.mod) /\ Return(Parsed(rest, q))
      \/ CreateEntity(i, "folder", top.mod) /\ Return(Walking(rest, NewModule, i))
      \/ Return(Walking(rest, top.mod, i)) /\ UNCHANGED <<moduleVars, fileEntities>>
      \/ Return(rest) /\ UNCHANGED <<moduleVars, fileEntities>>
    BY <1>2, Zenon DEF WalkItem
<1> HIDE DEF rest, f, top
<1>9. ASSUME NEW q, NEW kind, CreateEntity(q, kind, top.mod)
      PROVE  /\ Tree' /\ ModuleId \subseteq ModuleId' /\ NewModule \in ModuleId'
             /\ fileEntities' \in Seq(ModuleId')
             /\ f \in Seq([mod : ModuleId', items : SUBSET Path])
    BY <1>5, <1>7, <1>9, CreateEntityKeepsTree, MoreModules
<1>10. CASE \E kind, q : CreateEntity(q, kind, top.mod) /\ Return(Parsed(rest, q))
    <2>1. PICK kind, q : CreateEntity(q, kind, top.mod) /\ Return(Parsed(rest, q))
        BY <1>10
    <2>2. PICK b2, m2 : Parsed(rest, q) = HandleCall(f, b2, m2)
        BY <1>6, ParsedFields
    <2>3. /\ Tree' /\ ModuleId \subseteq ModuleId'
          /\ fileEntities' \in Seq(ModuleId')
          /\ f \in Seq([mod : ModuleId', items : SUBSET Path])
        BY <1>9, <2>1
    <2>4. Walks'
        BY <1>1, <1>2, <2>1, <2>2, <2>3, ReturnKeepsWalks
    <2> QED
        BY <2>3, <2>4 DEF Discovering
<1>11. CASE CreateEntity(i, "folder", top.mod) /\ Return(Walking(rest, NewModule, i))
    <2>1. /\ Tree' /\ ModuleId \subseteq ModuleId' /\ NewModule \in ModuleId'
          /\ fileEntities' \in Seq(ModuleId')
          /\ f \in Seq([mod : ModuleId', items : SUBSET Path])
        BY <1>9, <1>11
    <2> DEFINE g == [mod |-> NewModule, items |-> Items(i)]
    <2>2. Walking(rest, NewModule, i) = HandleCall(Append(f, g), call.brought, call.members)
        BY <1>6 DEF Walking, WithFolders, HandleCall
    <2>3. g \in [mod : ModuleId', items : SUBSET Path]
        BY <2>1, FolderTyped
    <2> HIDE DEF g
    <2>4. Append(f, g) \in Seq([mod : ModuleId', items : SUBSET Path])
        BY <2>1, <2>3, AppendProperties
    <2>5. Walks'
        BY <1>1, <1>2, <1>11, <2>1, <2>2, <2>4, ReturnKeepsWalks
    <2> QED
        BY <2>1, <2>5 DEF Discovering
<1>12. CASE /\ UNCHANGED <<moduleVars, fileEntities>>
            /\ Return(Walking(rest, top.mod, i)) \/ Return(rest)
    <2>1. Tree' /\ ModuleId' = ModuleId /\ fileEntities' \in Seq(ModuleId')
        BY <1>12 DEF moduleVars, Tree, ModuleId, TreeConsistent
    <2> DEFINE g == [mod |-> top.mod, items |-> Items(i)]
    <2>2. Walking(rest, top.mod, i) = HandleCall(Append(f, g), call.brought, call.members)
        BY <1>6 DEF Walking, WithFolders, HandleCall
    <2>3. g \in [mod : ModuleId, items : SUBSET Path]
        BY <1>4, FolderTyped
    <2> HIDE DEF g
    <2>4. Append(f, g) \in Seq([mod : ModuleId', items : SUBSET Path])
        BY <1>5, <2>1, <2>3, AppendProperties
    <2>5. f \in Seq([mod : ModuleId', items : SUBSET Path])
        BY <1>5, <2>1
    <2>6. ModuleId \subseteq ModuleId'
        BY <2>1
    <2>7. CASE Return(Walking(rest, top.mod, i))
        BY <1>1, <1>2, <2>1, <2>2, <2>4, <2>6, <2>7, ReturnKeepsWalks DEF Discovering
    <2>8. CASE Return(rest)
        BY <1>1, <1>2, <1>6, <2>1, <2>5, <2>6, <2>8, ReturnKeepsWalks DEF Discovering
    <2> QED
        BY <1>12, <2>7, <2>8
<1> QED
    BY <1>8, <1>10, <1>11, <1>12

(* A step of discovery that creates nothing and keeps the walks.           *)
LEMMA NothingCreated ==
    ASSUME Tree, fileEntities \in Seq(ModuleId), UNCHANGED moduleVars, Walks',
           fileEntities' \in Seq(ModuleId)
    PROVE  Discovering
<1>1. Tree' /\ ModuleId' = ModuleId
    BY DEF moduleVars, Tree, ModuleId, TreeConsistent
<1> QED
    BY <1>1 DEF Discovering

(* A directory that has been walked.                                       *)
LEMMA LeaveFolderKeeps ==
    ASSUME Tree, Walks, fileEntities \in Seq(ModuleId), LeaveFolder
    PROVE  Discovering
<1>1. PICK B, M : calls \in Seq(Frames(ModuleId, B, M))
    BY DEF Walks, Frames, Folder
<1>2. calls # <<>> /\ call.folders # <<>> /\ Return(WithFolders(call, Front(call.folders)))
    BY DEF LeaveFolder
<1>3. call.folders \in Seq([mod : ModuleId, items : SUBSET Path])
    BY <1>1, <1>2, TopCall
<1>4. Front(call.folders) \in Seq([mod : ModuleId, items : SUBSET Path])
    BY <1>2, <1>3, FrontAndLast
<1>5. UNCHANGED <<moduleVars, fileEntities>> /\ ModuleId' = ModuleId
    BY DEF LeaveFolder, moduleVars, ModuleId
<1>6. WithFolders(call, Front(call.folders))
        = HandleCall(Front(call.folders), call.brought, call.members)
    BY DEF WithFolders
<1>7. Walks'
    BY <1>1, <1>2, <1>4, <1>5, <1>6, ReturnKeepsWalks
<1> QED
    BY <1>5, <1>7, NothingCreated

(* A path that a file of the call has brought.                             *)
LEMMA FollowBringKeeps ==
    ASSUME Tree, Walks, fileEntities \in Seq(ModuleId), FollowBring
    PROVE  Discovering
<1>1. PICK B, M : calls \in Seq(Frames(ModuleId, B, M))
    BY DEF Walks, Frames, Folder
<1> DEFINE c == HandleCall(<<>>, Tail(call.brought), call.members)
<1>2. calls # <<>> /\ handle_path(Head(call.brought), Append(Front(calls), c))
    BY DEF FollowBring
<1>3. Front(calls) \in Seq(Frames(ModuleId, B, M))
    BY <1>1, <1>2, TopCall
<1>4. <<>> \in Seq([mod : ModuleId, items : SUBSET Path])
    OBVIOUS
<1>5. PICK C, N : Append(Front(calls), c) \in Seq(Frames(ModuleId, C, N))
    BY <1>3, <1>4, PushKeepsWalks
<1> HIDE DEF c
<1> QED
    BY <1>2, <1>5, HandlePathKeeps

(* What is left of fileEntities holds modules.                             *)
LEMMA RemoveKeepsEntities ==
    ASSUME NEW p, fileEntities \in Seq(ModuleId), remove_entity_with_path(p)
    PROVE  fileEntities' \in Seq(ModuleId)
<1> DEFINE I == {i \in 1 .. Len(fileEntities) :
                    /\ allModules[fileEntities[i]].path = p
                    /\ allModules[fileEntities[i]].kind \in {"file", "folder"}}
<1>1. fileEntities' = IF I # {} THEN RemoveAt(fileEntities, Min(I)) ELSE fileEntities
    BY DEF remove_entity_with_path, RemoveFirstMatch, SelectInSeq
<1>2. I # {} => Min(I) \in 1 .. Len(fileEntities)
    <2>1. I \subseteq 1 .. Len(fileEntities) /\ I \subseteq Nat
        OBVIOUS
    <2> HIDE DEF I
    <2> QED
        BY <2>1, MinIsMember
<1>3. ASSUME NEW k \in 1 .. Len(fileEntities)
      PROVE  RemoveAt(fileEntities, k) \in Seq(ModuleId)
    BY DEF RemoveAt
<1> HIDE DEF I
<1> QED
    BY <1>1, <1>2, <1>3

(* A member that is taken out of fileEntities.                             *)
LEMMA RemoveMemberKeeps ==
    ASSUME Tree, Walks, fileEntities \in Seq(ModuleId), RemoveMember
    PROVE  Discovering
<1>1. PICK B, M : calls \in Seq(Frames(ModuleId, B, M))
    BY DEF Walks, Frames, Folder
<1> DEFINE c == HandleCall(<<>>, <<>>, Tail(call.members))
<1>2. calls # <<>> /\ Return(c) /\ UNCHANGED moduleVars
      /\ remove_entity_with_path(Head(call.members))
    BY DEF RemoveMember
<1>3. fileEntities' \in Seq(ModuleId)
    BY <1>2, RemoveKeepsEntities
<1>4. ModuleId' = ModuleId /\ <<>> \in Seq([mod : ModuleId', items : SUBSET Path])
    BY <1>2 DEF moduleVars, ModuleId
<1>5. Walks'
    BY <1>1, <1>2, <1>4, ReturnKeepsWalks
<1> QED
    BY <1>2, <1>3, <1>5, NothingCreated

(* A call of handle_path that returns.                                     *)
LEMMA LeaveCallKeeps ==
    ASSUME Tree, Walks, fileEntities \in Seq(ModuleId), LeaveCall
    PROVE  Discovering
<1>1. PICK B, M : calls \in Seq(Frames(ModuleId, B, M))
    BY DEF Walks, Frames, Folder
<1>2. Front(calls) \in Seq(Frames(ModuleId, B, M))
    BY <1>1, TopCall DEF LeaveCall
<1>3. UNCHANGED moduleVars /\ UNCHANGED fileEntities /\ ModuleId' = ModuleId
      /\ calls' = Front(calls)
    BY DEF LeaveCall, moduleVars, ModuleId
<1>4. Walks'
    BY <1>2, <1>3 DEF Walks, Frames, Folder
<1> QED
    BY <1>3, <1>4, NothingCreated

(* Every step of discovery keeps the tree and the walks.                   *)
LEMMA DiscoveryKeeps ==
    ASSUME Tree, Walks, fileEntities \in Seq(ModuleId), DiscoveryNext
    PROVE  Discovering
<1>1. CASE HandleArgument
    <2>1. <<>> \in Seq(Frames(ModuleId, {}, {})) /\ handle_path(Head(argsLeft), <<>>)
        BY <1>1 DEF HandleArgument
    <2> QED
        BY <2>1, HandlePathKeeps
<1> QED
    BY <1>1, WalkFolderKeeps, LeaveFolderKeeps, FollowBringKeeps, RemoveMemberKeeps,
       LeaveCallKeeps DEF DiscoveryNext

-----------------------------------------------------------------------------
Visit == [mod : ModuleId, node : Nat \ {0}, sub : Nat \ {0}]

(* What the steps of the passes leave alone.                               *)
LEMMA DiscoveryUnchanged ==
    ASSUME Tree, Walks, fileEntities \in Seq(ModuleId), UNCHANGED discoveryVars
    PROVE  Tree' /\ Walks' /\ fileEntities' \in Seq(ModuleId') /\ ModuleId' = ModuleId
BY DEF discoveryVars, moduleVars, Tree, TreeConsistent, ModuleId, Walks, Folder

(* The walks of discovery and the visits of a pass, when a lib is made.    *)
LEMMA MoreModulesKeep ==
    ASSUME Walks, fileEntities \in Seq(ModuleId), visits \in Seq(Visit),
           ModuleId \subseteq ModuleId', UNCHANGED <<calls, fileEntities>>
    PROVE  /\ Walks' /\ fileEntities' \in Seq(ModuleId')
           /\ visits \in Seq(Visit')
<1>1. PICK B, M : calls \in Seq(Frames(ModuleId, B, M))
    BY DEF Walks, Frames, Folder
<1>2. ASSUME NEW c \in Frames(ModuleId, B, M)
      PROVE  c \in Frames(ModuleId', B, M)
    <2>1. c.folders \in Seq([mod : ModuleId', items : SUBSET Path])
        <3>1. c.folders \in Seq([mod : ModuleId, items : SUBSET Path])
            BY DEF Frames
        <3> QED
            BY <3>1, MoreModules
    <2>2. c = [folders |-> c.folders, brought |-> c.brought, members |-> c.members]
          /\ c.brought \in B /\ c.members \in M
        BY DEF Frames
    <2> QED
        BY <2>1, <2>2 DEF Frames
<1>3. calls \in Seq(Frames(ModuleId', B, M))
    <2>1. Frames(ModuleId, B, M) \subseteq Frames(ModuleId', B, M)
        BY <1>2
    <2> QED
        BY <1>1, <2>1, SeqMonotonic
<1>4. Walks'
    BY <1>3 DEF Walks, Frames, Folder
<1>5. Visit \subseteq Visit'
    BY DEF Visit
<1> QED
    BY <1>4, <1>5, SeqMonotonic

(* The module being visited, and the visits it is made from.               *)
LEMMA TopVisit ==
    ASSUME visits \in Seq(Visit), visits # <<>>
    PROVE  /\ at.mod \in ModuleId /\ at.node \in Nat \ {0} /\ at.sub \in Nat \ {0}
           /\ Front(visits) \in Seq(Visit)
<1>1. at \in Visit /\ Front(visits) \in Seq(Visit)
    BY FrontAndLast DEF at
<1> QED
    BY <1>1 DEF Visit

(* A module that is entered, or not, by a pass.                            *)
LEMMA EnterKeepsVisits ==
    ASSUME visits \in Seq(Visit), NEW m \in ModuleId, NEW below \in Seq(Visit),
           Enter(m, below)
    PROVE  visits' \in Seq(Visit)
<1> DEFINE v == [mod |-> m, node |-> 1, sub |-> 1]
<1>1. v \in Visit
    BY DEF Visit
<1>2. visits' \in {below, visits, Append(below, v)}
    BY DEF Enter
<1> HIDE DEF v
<1>3. Append(below, v) \in Seq(Visit)
    BY <1>1, AppendProperties
<1> QED
    BY <1>2, <1>3

(* The next node of the module being visited.                              *)
LEMMA NextNodeKeepsVisits ==
    ASSUME visits \in Seq(Visit), visits # <<>>, NextNode
    PROVE  visits' \in Seq(Visit)
<1> DEFINE v == [mod |-> at.mod, node |-> at.node + 1, sub |-> at.sub]
<1>1. v \in Visit /\ Front(visits) \in Seq(Visit)
    BY TopVisit DEF Visit
<1>2. visits' = Append(Front(visits), v)
    BY DEF NextNode
<1> HIDE DEF v
<1> QED
    BY <1>1, <1>2, AppendProperties

(* bring:member hangs a module without a parent into the tree.             *)
LEMMA BringMemberKeepsTree ==
    ASSUME Tree, NEW m \in ModuleId, at.mod \in ModuleId, BringMember(m),
           UNCHANGED allModules
    PROVE  Tree'
<1>1. CASE parent[m] # 0
    BY <1>1 DEF BringMember, Tree, TreeConsistent, ModuleId
<1>2. CASE parent[m] = 0
    <2> DEFINE a == at.mod
               s == submodules[a]
               k == Len(s)
    <2>1. /\ parent' = [parent EXCEPT ![m] = a]
          /\ submodules' = [submodules EXCEPT ![a] = Append(s, m)]
        BY <1>2 DEF BringMember
    <2>2. /\ ModuleId' = ModuleId /\ ModuleId = 1 .. Len(allModules) /\ 0 \notin ModuleId
          /\ a \in ModuleId
        BY DEF ModuleId
    <2>3. s \in Seq(ModuleId) /\ m \notin ToSet(s) /\ IsInjective(s)
        BY <1>2, <2>2 DEF Tree, TreeConsistent
    <2>4. /\ k \in Nat /\ DOMAIN Append(s, m) = 1 .. k + 1 /\ DOMAIN s = 1 .. k
          /\ \A i \in 1 .. k : Append(s, m)[i] = s[i]
          /\ Append(s, m)[k + 1] = m /\ Append(s, m) \in Seq(ModuleId)
        BY <2>3
    <2>5. ToSet(Append(s, m)) = ToSet(s) \cup {m}
        <3> HIDE DEF s, k
        <3> QED
            BY <2>4 DEF ToSet
    <2>6. IsInjective(Append(s, m))
        <3>1. \A i \in 1 .. k : s[i] # m
            BY <2>3, <2>4 DEF ToSet
        <3>2. \A i, j \in 1 .. k : s[i] = s[j] => i = j
            BY <2>3, <2>4 DEF IsInjective
        <3> HIDE DEF s, k
        <3> QED
            BY <2>4, <3>1, <3>2 DEF IsInjective
    <2>7. /\ parent' \in Seq(ModuleId \cup {0}) /\ Len(parent') = Len(allModules)
          /\ parent'[m] = a /\ \A y \in ModuleId \ {m} : parent'[y] = parent[y]
        BY <2>1, <2>2 DEF Tree
    <2>8. /\ submodules' \in Seq(Seq(ModuleId)) /\ Len(submodules') = Len(allModules)
          /\ submodules'[a] = Append(s, m)
          /\ \A y \in ModuleId \ {a} : submodules'[y] = submodules[y]
        <3>1. submodules \in Seq(Seq(ModuleId)) /\ Len(submodules) = Len(allModules)
            BY DEF Tree
        <3> HIDE DEF s, k, a
        <3> QED
            BY <2>1, <2>2, <2>4, <3>1
    <2>9. TreeConsistent'
        <3> SUFFICES ASSUME NEW x \in ModuleId
                     PROVE  /\ ToSet(submodules'[x]) = {y \in ModuleId : parent'[y] = x}
                            /\ IsInjective(submodules'[x])
            BY <2>2 DEF TreeConsistent
        <3>1. /\ ToSet(submodules[x]) = {y \in ModuleId : parent[y] = x}
              /\ IsInjective(submodules[x])
            BY DEF Tree, TreeConsistent
        <3> HIDE DEF s, k, a
        <3>2. CASE x = a
            <4>1. {y \in ModuleId : parent'[y] = x} = {y \in ModuleId : parent[y] = x} \cup {m}
                BY <2>7, <3>2
            <4> QED
                BY <2>5, <2>6, <2>8, <3>1, <3>2, <4>1 DEF s
        <3>3. CASE x # a
            <4>1. {y \in ModuleId : parent'[y] = x} = {y \in ModuleId : parent[y] = x}
                BY <1>2, <2>2, <2>7, <3>3
            <4> QED
                BY <2>8, <3>1, <3>3, <4>1
        <3> QED
            BY <3>2, <3>3
    <2> HIDE DEF s, k, a
    <2> QED
        BY <2>2, <2>7, <2>8, <2>9 DEF Tree
<1> QED
    BY <1>1, <1>2

(* A path that is brought: BringPaths::handle_fs_brings.                   *)
LEMMA HandleBringKeeps ==
    ASSUME TreeInv, HandleBring
    PROVE  TreeInv'
<1>1. visits \in Seq(Visit) /\ visits # <<>>
    BY DEF TreeInv, Visit, HandleBring
<1>2. at.mod \in ModuleId
    BY <1>1, TopVisit
<1>3. ModuleId' = ModuleId /\ UNCHANGED <<allModules, fileEntities, calls, next>>
    BY DEF HandleBring, ModuleId
<1>4. Tree'
    <2>1. CASE UNCHANGED <<parent, submodules>>
        BY <1>3, <2>1 DEF TreeInv, Tree, TreeConsistent
    <2>2. CASE \E m \in ModuleId : BringMember(m)
        BY <1>2, <1>3, <2>2, BringMemberKeepsTree DEF TreeInv
    <2>3. \A p, kinds : FirstModule(p, kinds) \in ModuleId \cup {0}
        BY FirstModuleExists DEF TreeInv
    <2> QED
        BY <2>1, <2>2, <2>3, Zenon
        DEF HandleBring, BringModule, get_folder_module, get_file_module
<1>5. visits' \in Seq(Visit)
    BY <1>1, NextNodeKeepsVisits DEF HandleBring
<1> QED
    BY <1>3, <1>4, <1>5 DEF TreeInv, Walks, Folder, Visit

(* The lib that a module has, made by the second pass.                     *)
LEMMA CreateLibKeeps ==
    ASSUME TreeInv, CreateLib
    PROVE  TreeInv'
<1>1. visits \in Seq(Visit) /\ visits # <<>>
    BY DEF TreeInv, Visit, CreateLib
<1>2. at.mod \in ModuleId
    BY <1>1, TopVisit
<1>3. Tree' /\ ModuleId \subseteq ModuleId'
    BY <1>2, CreateKeepsTree DEF TreeInv, CreateLib
<1>4. UNCHANGED <<calls, fileEntities, next>>
    BY DEF CreateLib
<1>5. Walks' /\ fileEntities' \in Seq(ModuleId')
    BY <1>1, <1>3, <1>4, MoreModulesKeep DEF TreeInv
<1>6. visits' \in Seq(Visit')
    <2>1. visits' \in Seq(Visit)
        BY <1>1, NextNodeKeepsVisits DEF CreateLib
    <2>2. Visit \subseteq Visit'
        BY <1>3 DEF Visit
    <2> QED
        BY <2>1, <2>2, SeqMonotonic
<1> QED
    BY <1>3, <1>4, <1>5, <1>6 DEF TreeInv, Visit

(* Every step of discovery and of the passes keeps the invariant.          *)
LEMMA StepKeepsTreeInv ==
    ASSUME TreeInv, Next
    PROVE  TreeInv'
<1> USE DEF TreeInv
<1>1. visits \in Seq(Visit)
    BY DEF Visit
<1>2. ASSUME UNCHANGED discoveryVars, visits' \in Seq(Visit), next' \in Nat \ {0}
      PROVE  TreeInv'
    <2>1. Tree' /\ Walks' /\ fileEntities' \in Seq(ModuleId') /\ ModuleId' = ModuleId
        BY <1>2, DiscoveryUnchanged
    <2> QED
        BY <1>2, <2>1 DEF Visit
<1>3. CASE Discover
    <2>1. Discovering
        BY <1>3, DiscoveryKeeps DEF Discover
    <2>2. visits' \in Seq(Visit') /\ next' = next
        <3>1. Visit \subseteq Visit'
            BY <2>1 DEF Discovering, Visit
        <3>2. UNCHANGED <<visits, next>>
            BY <1>3 DEF Discover, passVars
        <3> QED
            BY <1>1, <3>1, <3>2, SeqMonotonic
    <2> QED
        BY <2>1, <2>2 DEF Discovering, Visit
<1>4. CASE StartPass
    BY <1>1, <1>2, <1>4 DEF StartPass
<1>5. CASE VisitEntity
    <2>1. fileEntities[next] \in ModuleId /\ <<>> \in Seq(Visit)
        BY <1>5 DEF VisitEntity
    <2>2. visits' \in Seq(Visit)
        BY <1>1, <1>5, <2>1, EnterKeepsVisits DEF VisitEntity
    <2> QED
        BY <1>2, <1>5, <2>2 DEF VisitEntity
<1>6. CASE HandleBring
    BY <1>6, HandleBringKeeps
<1>7. CASE CreateLib
    BY <1>7, CreateLibKeeps
<1>8. CASE VisitSubmodule
    <2> DEFINE v == [mod |-> at.mod, node |-> at.node, sub |-> at.sub + 1]
               below == Append(Front(visits), v)
    <2>1. /\ at.mod \in ModuleId /\ at.sub \in Nat \ {0} /\ at.node \in Nat \ {0}
          /\ Front(visits) \in Seq(Visit)
        BY <1>1, <1>8, TopVisit DEF VisitSubmodule
    <2>2. v \in Visit
        BY <2>1 DEF Visit
    <2>3. Enter(submodules[at.mod][at.sub], below) /\ at.sub =< Len(submodules[at.mod])
        BY <1>8 DEF VisitSubmodule
    <2> HIDE DEF v
    <2>4. below \in Seq(Visit)
        BY <2>1, <2>2, AppendProperties
    <2>5. submodules[at.mod][at.sub] \in ModuleId
        <3>1. submodules[at.mod] \in Seq(ModuleId)
            BY <2>1 DEF Tree, ModuleId
        <3> QED
            BY <2>1, <2>3, <3>1
    <2>6. visits' \in Seq(Visit)
        BY <1>1, <2>3, <2>4, <2>5, EnterKeepsVisits
    <2> QED
        BY <1>2, <1>8, <2>6 DEF VisitSubmodule
<1>9. CASE LeaveModule
    BY <1>1, <1>2, <1>9, TopVisit DEF LeaveModule
<1>10. CASE Ended
    BY <1>1, <1>2, <1>10 DEF Ended, vars, passVars
<1> QED
    BY <1>3, <1>4, <1>5, <1>6, <1>7, <1>8, <1>9, <1>10 DEF Next

-----------------------------------------------------------------------------
LEMMA TreeInvariant == Spec => []TreeInv
<1>1. Init => TreeInv
    <2> SUFFICES ASSUME Init
                 PROVE  TreeInv
        OBVIOUS
    <2>1. /\ allModules = <<>> /\ parent = <<>> /\ submodules = <<>> /\ fileEntities = <<>>
          /\ calls = <<>> /\ next = 1 /\ visits = <<>>
        BY DEF Init, DiscoveryInit
    <2>2. ModuleId = {}
        BY <2>1 DEF ModuleId
    <2>3. Tree
        BY <2>1, <2>2 DEF Tree, TreeConsistent
    <2>4. Walks
        BY <2>1 DEF Walks
    <2> QED
        BY <2>1, <2>3, <2>4 DEF TreeInv
<1>2. TreeInv /\ [Next]_vars => TreeInv'
    <2> SUFFICES ASSUME TreeInv, [Next]_vars
                 PROVE  TreeInv'
        OBVIOUS
    <2>1. CASE Next
        BY <2>1, StepKeepsTreeInv
    <2>2. CASE UNCHANGED vars
        BY <2>2 DEF vars, discoveryVars, moduleVars, passVars, TreeInv, Tree, TreeConsistent,
            ModuleId, Walks, Folder
    <2> QED
        BY <2>1, <2>2
<1> QED
    BY <1>1, <1>2, PTL DEF Spec

(* Parents and submodules agree in every state, for any number of paths    *)
(* and any projects: whether Mod::create_submodule, create_file_mod and    *)
(* create_root_lib made a module in discovery, bring:member hung it into   *)
(* the tree in pass 1, or a lib came in pass 2.                            *)
THEOREM TreeIsConsistent == Spec => []TreeConsistent
<1>1. TreeInv => TreeConsistent
    BY DEF TreeInv, Tree
<1> QED
    BY <1>1, TreeInvariant, PTL

-----------------------------------------------------------------------------
(* What the module of a path is made for: a directory or a file that has   *)
(* none, a lib file in the place of its directory, or a lib sentence.      *)
MadeFor(p, kind) ==
    \/ kind = "folder" /\ IsDir(p) /\ ~has_folder_module(p)
    \/ kind \in {"file", "rootLib"} /\ ~IsDir(p) /\ ~has_file_module(p)
    \/ kind \in {"file", "rootLib"} /\ p \in project.libs /\ ~IsDir(p) /\ project.above[p] # 0
    \/ kind = "lib"

(* The lib file of a directory is in it.                                   *)
LEMMA LibFile ==
    ASSUME project \in Projects, NEW d, IsDir(d), NEW l \in detect_lib_file(d)
    PROVE  l \in project.libs /\ ~IsDir(l) /\ project.above[l] = d /\ d # 0 /\ l \in Path
<1>1. project \in ProjectType
    BY ProjectsAssumption
<1>2. /\ project.libs \cap project.dirs = {} /\ project.dirs \subseteq Path
    BY <1>1 DEF ProjectType
<1>3. 0 \notin Path
    BY NumPathsAssumption DEF Path
<1> QED
    BY <1>2, <1>3 DEF detect_lib_file, Items, IsDir

LEMMA FileKinds == ASSUME NEW f PROVE FileKind(f) \in {"file", "rootLib"}
    BY DEF FileKind

(* handle_path and its walks make modules for what has none.               *)
LEMMA Creations ==
    ASSUME project \in Projects, Next
    PROVE  /\ UNCHANGED project
           /\ \/ UNCHANGED allModules
              \/ \E p, kind, par : create_submodule(p, kind, par) /\ MadeFor(p, kind)
<1> DEFINE Goal == \/ UNCHANGED allModules
                   \/ \E p, kind, par : create_submodule(p, kind, par) /\ MadeFor(p, kind)
<1>1. ASSUME NEW p, NEW kind, NEW par, CreateEntity(p, kind, par), MadeFor(p, kind)
      PROVE  Goal
    BY <1>1 DEF CreateEntity
<1>2. ASSUME NEW d, IsDir(d), NEW l \in detect_lib_file(d), NEW kind \in {"file", "rootLib"}
      PROVE  MadeFor(l, kind)
    BY <1>2, LibFile DEF MadeFor
<1>3. ASSUME NEW f, ~IsDir(f), ~has_file_module(f)
      PROVE  MadeFor(f, FileKind(f))
    BY <1>3, FileKinds DEF MadeFor
<1>4. ASSUME NEW p, NEW below, handle_path(p, below)
      PROVE  Goal
    <2>1. CASE EnterDirectory(p, below)
        <3>1. IsDir(p) /\ ~has_folder_module(p)
            BY <2>1 DEF EnterDirectory
        <3>2. CASE CreateEntity(p, "folder", 0)
            BY <1>1, <3>1, <3>2 DEF MadeFor
        <3>3. CASE \E l \in detect_lib_file(p) : CreateEntity(l, "file", 0)
            BY <1>1, <1>2, <3>1, <3>3
        <3> HIDE DEF Goal
        <3> QED
            BY <2>1, <3>2, <3>3 DEF EnterDirectory
    <2>2. CASE EnterFile(p, below)
        BY <1>1, <1>3, <2>2 DEF EnterFile
    <2>3. CASE EnterKnown(p, below)
        BY <2>3 DEF EnterKnown, moduleVars
    <2> QED
        BY <1>4, <2>1, <2>2, <2>3 DEF handle_path
<1>5. ASSUME NEW i, WalkItem(i)
      PROVE  Goal
    <2>1. ASSUME NEW l \in detect_lib_file(i), NEW par, IsDir(i), CreateEntity(l, "rootLib", par)
          PROVE  Goal
        BY <1>1, <1>2, <2>1
    <2>2. ASSUME NEW par, IsDir(i), ~has_folder_module(i), CreateEntity(i, "folder", par)
          PROVE  Goal
        BY <1>1, <2>2 DEF MadeFor
    <2>3. ASSUME NEW par, ~IsDir(i), ~has_file_module(i), CreateEntity(i, FileKind(i), par)
          PROVE  Goal
        BY <1>1, <1>3, <2>3
    <2>4. ASSUME UNCHANGED <<moduleVars, fileEntities>>
          PROVE  Goal
        BY <2>4 DEF moduleVars
    <2> HIDE DEF Goal
    <2> QED
        BY <1>5, <2>1, <2>2, <2>3, <2>4 DEF WalkItem
<1>6. ASSUME UNCHANGED moduleVars PROVE Goal
    BY <1>6 DEF moduleVars
<1>7. CASE Discover
    <2>1. CASE HandleArgument \/ FollowBring
        BY <1>4, <2>1 DEF HandleArgument, FollowBring
    <2>2. CASE WalkFolder
        BY <1>5, <2>2 DEF WalkFolder
    <2>3. CASE LeaveFolder \/ RemoveMember \/ LeaveCall
        BY <1>6, <2>3 DEF LeaveFolder, RemoveMember, LeaveCall
    <2>4. UNCHANGED project
        BY <1>7 DEF Discover, DiscoveryNext, HandleArgument, WalkFolder, LeaveFolder, FollowBring,
            RemoveMember, LeaveCall
    <2> HIDE DEF Goal
    <2> QED
        BY <1>7, <2>1, <2>2, <2>3, <2>4 DEF Discover, DiscoveryNext, Goal
<1>8. CASE CreateLib
    BY <1>8 DEF CreateLib, MadeFor
<1>9. CASE StartPass \/ VisitEntity \/ HandleBring \/ VisitSubmodule \/ LeaveModule \/ Ended
    BY <1>9 DEF StartPass, VisitEntity, HandleBring, VisitSubmodule, LeaveModule, Ended, vars,
        discoveryVars, moduleVars
<1> QED
    BY <1>7, <1>8, <1>9 DEF Next

(* The modules after create_submodule.                                     *)
LEMMA ModulesGrow ==
    ASSUME IsSeq(allModules), NEW p, NEW kind, NEW par, create_submodule(p, kind, par)
    PROVE  /\ IsSeq(allModules')
           /\ Len(allModules) \in Nat /\ Len(allModules') = Len(allModules) + 1
           /\ ModuleId = 1 .. Len(allModules) /\ ModuleId' = 1 .. Len(allModules) + 1
           /\ \A m \in ModuleId : allModules'[m] = allModules[m]
           /\ allModules'[Len(allModules) + 1].path = p
           /\ allModules'[Len(allModules) + 1].kind = kind
<1> DEFINE x == [path |-> p, kind |-> kind]
<1>1. allModules' = Append(allModules, x)
    BY DEF create_submodule
<1>2. x.path = p /\ x.kind = kind
    OBVIOUS
<1> HIDE DEF x
<1>3. Len(allModules) \in Nat
    BY SeqFacts
<1> QED
    BY <1>1, <1>2, <1>3, AppendAny DEF ModuleId

(* Modules of directories are folders, those of files are not.             *)
PathsInv ==
    /\ project \in Projects /\ IsSeq(allModules)
    /\ \A m \in ModuleId :
          /\ allModules[m].kind \in {"file", "rootLib", "folder", "lib"}
          /\ allModules[m].kind = "folder" => IsDir(allModules[m].path)
          /\ allModules[m].kind \in {"file", "rootLib"} => ~IsDir(allModules[m].path)
    /\ OneModulePerPath

LEMMA PathsStep ==
    ASSUME PathsInv, [Next]_vars
    PROVE  PathsInv'
<1>1. CASE UNCHANGED <<project, allModules>>
    BY <1>1 DEF PathsInv, ModuleId, IsDir, OneModulePerPath
<1>2. ASSUME UNCHANGED project, NEW p, NEW kind, NEW par, create_submodule(p, kind, par), MadeFor(p, kind)
      PROVE  PathsInv'
    <2> DEFINE n == Len(allModules) + 1
    <2>1. /\ IsSeq(allModules')
          /\ n \in Nat /\ ModuleId = 1 .. n - 1 /\ ModuleId' = 1 .. n
          /\ \A m \in ModuleId : allModules'[m] = allModules[m]
          /\ allModules'[n].path = p /\ allModules'[n].kind = kind
        BY <1>2, ModulesGrow DEF PathsInv
    <2> HIDE DEF n
    <2>2. \A m \in ModuleId' : m \in ModuleId \/ m = n
        BY <2>1
    <2>3. /\ kind \in {"file", "rootLib", "folder", "lib"}
          /\ kind = "folder" => IsDir(p)
          /\ kind \in {"file", "rootLib"} => ~IsDir(p)
        BY <1>2 DEF MadeFor
    <2>4. \A m \in ModuleId' :
              /\ allModules'[m].kind \in {"file", "rootLib", "folder", "lib"}
              /\ allModules'[m].kind = "folder" => IsDir(allModules'[m].path)
              /\ allModules'[m].kind \in {"file", "rootLib"} => ~IsDir(allModules'[m].path)
        BY <2>1, <2>2, <2>3 DEF PathsInv
    <2>5. ASSUME NEW m \in ModuleId, allModules[m].path = p,
                 {allModules[m].kind, kind} \subseteq {"file", "rootLib", "folder"}
          PROVE  p \in project.libs /\ project.above[p] # 0
        <3>1. allModules[m].kind = "folder" => IsDir(p)
            BY <2>5 DEF PathsInv
        <3>2. allModules[m].kind \in {"file", "rootLib"} => ~IsDir(p)
            BY <2>5 DEF PathsInv
        <3>3. CASE kind = "folder" /\ IsDir(p) /\ ~has_folder_module(p)
            BY <2>5, <3>2, <3>3 DEF has_folder_module
        <3>4. CASE ~IsDir(p) /\ ~has_file_module(p)
            BY <2>5, <3>1, <3>4 DEF has_file_module
        <3> QED
            BY <1>2, <2>5, <3>3, <3>4 DEF MadeFor
    <2>6. OneModulePerPath'
        <3> SUFFICES ASSUME NEW x \in ModuleId', NEW y \in ModuleId', x # y,
                            allModules'[x].path = allModules'[y].path,
                            {allModules'[x].kind, allModules'[y].kind} \subseteq {"file", "rootLib", "folder"}
                     PROVE  /\ allModules'[x].path \in project.libs
                            /\ project.above[allModules'[x].path] # 0
            BY <1>2 DEF OneModulePerPath
        <3>1. CASE x \in ModuleId /\ y \in ModuleId
            BY <2>1, <3>1 DEF PathsInv, OneModulePerPath
        <3>2. CASE x = n /\ y \in ModuleId
            BY <2>1, <2>5, <3>2
        <3>3. CASE y = n /\ x \in ModuleId
            BY <2>1, <2>5, <3>3
        <3> QED
            BY <2>2, <3>1, <3>2, <3>3
    <2> QED
        BY <1>2, <2>1, <2>4, <2>6 DEF PathsInv, IsDir
<1>3. CASE UNCHANGED vars
    BY <1>1, <1>3 DEF vars, discoveryVars, moduleVars
<1>4. CASE Next
    <2>1. project \in Projects
        BY DEF PathsInv
    <2> QED
        BY <1>1, <1>2, <1>4, <2>1, Creations
<1> QED
    BY <1>3, <1>4

LEMMA PathsInvariant == Spec => []PathsInv
<1>1. Init => PathsInv
    <2> SUFFICES ASSUME Init PROVE PathsInv
        OBVIOUS
    <2>1. allModules = <<>> /\ project \in Projects
        BY DEF Init, DiscoveryInit
    <2>2. ModuleId = {} /\ IsSeq(allModules)
        BY <2>1, EmptyIsSeq DEF ModuleId
    <2> QED
        BY <2>1, <2>2 DEF PathsInv, OneModulePerPath
<1> QED
    BY <1>1, PathsStep, PTL DEF Spec

(* Whatever the paths of the command line, the directories and the brings: *)
(* handle_path makes one module of a file and one of a folder, but for the *)
(* lib file of a folder.                                                   *)
THEOREM PathsAreModulesOnce == Spec => []OneModulePerPath
<1>1. PathsInv => OneModulePerPath
    BY DEF PathsInv
<1> QED
    BY <1>1, PathsInvariant, PTL

-----------------------------------------------------------------------------
(* The recursive function by which BringsAt collects exists, and so the    *)
(* brings it gives are ones with the numbers asked for.                    *)
LEMMA BringsAtFacts ==
    ASSUME project \in Projects, NEW numbers
    PROVE  /\ IsSeq(BringsAt(numbers))
           /\ \A k \in DOMAIN BringsAt(numbers) :
                 \E i \in numbers \cap DOMAIN project.brings :
                    BringsAt(numbers)[k] = project.brings[i]
           /\ \A i \in numbers \cap DOMAIN project.brings : project.brings[i] \in ToSet(BringsAt(numbers))
<1> DEFINE b == project.brings
           L == Len(b)
           grow(f, n) == IF n = 0 THEN <<>>
                         ELSE IF n \in numbers THEN Append(f[n - 1], b[n]) ELSE f[n - 1]
           Collects(f, l) == f = [n \in 0 .. l |-> grow(f, n)]
           Picked == numbers \cap DOMAIN b
           From(n, s) == /\ IsSeq(s) /\ \A k \in DOMAIN s : \E i \in Picked : s[k] = b[i]
                         /\ \A i \in Picked : i <= n => b[i] \in ToSet(s)
<1>1. L \in Nat /\ DOMAIN b = 1 .. L
    <2>1. b \in Seq(Bring)
        BY ProjectsAssumption DEF ProjectType
    <2> QED
        BY <2>1, LenProperties
<1> HIDE DEF L, b
<1>2. \A l \in Nat : \E f : Collects(f, l)
    <2> DEFINE Bad == {l \in Nat : ~\E f : Collects(f, l)}
    <2>1. Bad = {}
        <3> SUFFICES ASSUME Bad # {} PROVE FALSE
            OBVIOUS
        <3>1. Bad \subseteq Nat
            OBVIOUS
        <3>2. PICK l \in Bad : \A y \in Bad : l <= y
            BY <3>1, LeastNumber
        <3>3. CASE l = 0
            <4> DEFINE f == [n \in 0 .. 0 |-> <<>>]
            <4>1. Collects(f, 0)
                <5>1. \A n \in 0 .. 0 : grow(f, n) = <<>>
                    OBVIOUS
                <5> HIDE DEF grow
                <5> QED
                    BY <5>1
            <4> HIDE DEF f
            <4> QED
                BY <3>2, <3>3, <4>1
        <3>4. CASE l # 0
            <4>1. l \in Nat /\ l - 1 \in Nat /\ l - 1 \notin Bad
                <5> HIDE DEF Bad
                <5> QED
                    BY <3>1, <3>2, <3>4
            <4>2. PICK g : Collects(g, l - 1)
                BY <4>1
            <4> DEFINE f == [n \in 0 .. l |-> IF n = l THEN grow(g, l) ELSE g[n]]
            <4>3. \A n \in 0 .. l : f[n] = grow(f, n)
                <5>1. \A n \in 0 .. l - 1 : f[n] = g[n]
                    BY <4>1
                <5>2. \A n \in 0 .. l - 1 : g[n] = grow(g, n)
                    <6> HIDE DEF grow
                    <6> QED
                        BY <4>2
                <5>3. ASSUME NEW n \in 0 .. l
                      PROVE  grow(g, n) = grow(f, n)
                    <6>1. CASE n = 0
                        BY <6>1
                    <6>2. CASE n # 0
                        <7>1. n - 1 \in 0 .. l - 1
                            BY <4>1, <6>2
                        <7>2. f[n - 1] = g[n - 1]
                            BY <5>1, <7>1
                        <7> HIDE DEF f
                        <7> QED
                            BY <6>2, <7>2
                    <6> QED
                        BY <6>1, <6>2
                <5>4. f[l] = grow(g, l)
                    BY <4>1
                <5> HIDE DEF grow, f
                <5>5. ASSUME NEW n \in 0 .. l
                      PROVE  f[n] = grow(f, n)
                    <6>1. CASE n = l
                        BY <5>3, <5>4, <6>1
                    <6>2. CASE n # l
                        <7>1. n \in 0 .. l - 1
                            BY <4>1, <6>2
                        <7> QED
                            BY <5>1, <5>2, <5>3, <7>1
                    <6> QED
                        BY <6>1, <6>2
                <5> QED
                    BY <5>5
            <4>4. f = [n \in 0 .. l |-> f[n]]
                OBVIOUS
            <4> HIDE DEF f, grow
            <4>5. Collects(f, l)
                BY <4>3, <4>4
            <4> QED
                BY <3>2, <4>5
        <3> QED
            BY <3>3, <3>4
    <2> HIDE DEF Collects
    <2> QED
        BY <2>1
<1>3. ASSUME NEW f, Collects(f, L)
      PROVE  From(L, f[L])
    <2>1. \A n \in 0 .. L : f[n] = grow(f, n)
        <3> HIDE DEF grow
        <3> QED
            BY <1>3
    <2> DEFINE Bad == {n \in 0 .. L : ~From(n, f[n])}
    <2>2. Bad = {}
        <3> SUFFICES ASSUME Bad # {} PROVE FALSE
            OBVIOUS
        <3>1. Bad \subseteq Nat
            OBVIOUS
        <3>2. PICK n \in Bad : \A y \in Bad : n <= y
            BY <3>1, LeastNumber
        <3>3. n \in 0 .. L /\ f[n] = grow(f, n)
            BY <2>1
        <3>4. From(0, <<>>)
            BY <1>1, EmptyIsSeq, SeqFacts
        <3>5. n # 0
            <4> SUFFICES ASSUME n = 0 PROVE FALSE
                OBVIOUS
            <4>1. f[n] = <<>>
                BY <3>3
            <4> QED
                BY <3>2, <3>4, <4>1
        <3>6. n - 1 \in 0 .. L /\ n - 1 \notin Bad
            BY <1>1, <3>1, <3>2, <3>3, <3>5
        <3> DEFINE s == f[n - 1]
        <3>7. From(n - 1, s)
            BY <3>6
        <3>8. CASE n \in numbers
            <4>1. f[n] = Append(s, b[n])
                BY <3>3, <3>5, <3>8
            <4> HIDE DEF s
            <4>2. n \in numbers \cap DOMAIN b
                BY <1>1, <3>3, <3>5, <3>8
            <4>3. /\ IsSeq(Append(s, b[n])) /\ DOMAIN Append(s, b[n]) = 1 .. Len(s) + 1
                  /\ \A k \in 1 .. Len(s) : Append(s, b[n])[k] = s[k]
                  /\ Append(s, b[n])[Len(s) + 1] = b[n]
                BY <3>7, AppendAny
            <4>4. DOMAIN s = 1 .. Len(s) /\ Len(s) \in Nat
                BY <3>7, SeqFacts
            <4>5. \A k \in 1 .. Len(s) + 1 : k \in 1 .. Len(s) \/ k = Len(s) + 1
                BY <4>4
            <4>6. ToSet(Append(s, b[n])) = ToSet(s) \cup {b[n]}
                BY <3>7, AppendAdds
            <4>7. \A i \in Picked : i <= n => i <= n - 1 \/ i = n
                BY <1>1, <3>3
            <4>8. From(n, Append(s, b[n]))
                <5> HIDE DEF Picked
                <5> QED
                    BY <3>7, <4>2, <4>3, <4>4, <4>5, <4>6, <4>7 DEF Picked
            <4> HIDE DEF From
            <4> QED
                BY <3>2, <4>1, <4>8
        <3>9. CASE n \notin numbers
            <4>1. f[n] = s
                BY <3>3, <3>5, <3>9
            <4>2. \A i \in Picked : i <= n => i <= n - 1
                BY <1>1, <3>3, <3>9
            <4>3. From(n, s)
                <5> HIDE DEF s, Picked
                <5> QED
                    BY <3>7, <4>2
            <4> HIDE DEF From
            <4> QED
                BY <3>2, <4>1, <4>3
        <3> QED
            BY <3>8, <3>9
    <2> HIDE DEF From
    <2> QED
        BY <1>1, <2>2
<1> DEFINE f == CHOOSE f : Collects(f, L)
<1>4. Collects(f, L)
    <2> HIDE DEF Collects
    <2> QED
        BY <1>1, <1>2
<1>5. BringsAt(numbers) = f[L]
    BY DEF BringsAt, b, L
<1> HIDE DEF f, Collects
<1>6. From(L, BringsAt(numbers))
    BY <1>3, <1>4, <1>5
<1> QED
    BY <1>1, <1>6 DEF b

(* A module keeps its nodes.                                               *)
LEMMA NodesKept ==
    ASSUME UNCHANGED project, NEW m, allModules'[m] = allModules[m]
    PROVE  NodesOf(m)' = NodesOf(m)
    BY DEF NodesOf, BringsAt

LEMMA NodesAreBrings ==
    ASSUME project \in Projects, NEW m
    PROVE  /\ IsSeq(NodesOf(m))
           /\ \A k \in DOMAIN NodesOf(m) :
                 /\ NodesOf(m)[k] \in ToSet(project.brings)
                 /\ NodesOf(m)[k].from = allModules[m].path
<1> DEFINE b == project.brings
           x == allModules[m]
           I == {i \in DOMAIN b : b[i].from = x.path /\ (b[i].inLib <=> x.kind = "lib")}
<1>1. CASE x.kind = "folder"
    BY <1>1, EmptyIsSeq, SeqFacts DEF NodesOf
<1>2. CASE x.kind # "folder"
    <2>1. NodesOf(m) = BringsAt(I)
        BY <1>2 DEF NodesOf
    <2>2. \A i \in I \cap DOMAIN b : b[i] \in ToSet(b) /\ b[i].from = x.path
        BY DEF ToSet
    <2> HIDE DEF I
    <2>3. IsSeq(BringsAt(I)) /\ \A k \in DOMAIN BringsAt(I) : \E i \in I \cap DOMAIN b : BringsAt(I)[k] = b[i]
        BY BringsAtFacts
    <2> HIDE DEF x, b
    <2>4. \A k \in DOMAIN BringsAt(I) : BringsAt(I)[k] \in ToSet(b) /\ BringsAt(I)[k].from = x.path
        BY <2>2, <2>3
    <2> QED
        BY <2>1, <2>3, <2>4 DEF x, b
<1> QED
    BY <1>1, <1>2

(* What get_file_module and get_folder_module find has that path.          *)
LEMMA FirstModulePath ==
    ASSUME Tree, NEW p, NEW kinds, FirstModule(p, kinds) # 0
    PROVE  FirstModule(p, kinds) \in ModuleId /\ allModules[FirstModule(p, kinds)].path = p
<1> DEFINE I == {i \in 1 .. Len(allModules) :
                    allModules[i].path = p /\ allModules[i].kind \in kinds}
<1>1. FirstModule(p, kinds) = IF I # {} THEN Min(I) ELSE 0
    BY DEF FirstModule, SelectInSeq
<1>2. I \subseteq ModuleId /\ I \subseteq Nat /\ \A i \in I : allModules[i].path = p
    BY DEF ModuleId
<1> HIDE DEF I
<1>3. I # {} /\ FirstModule(p, kinds) = Min(I)
    BY <1>1
<1> QED
    BY <1>2, <1>3, MinIsMember

(* The node of a module has done what it is for.                           *)
Done(m, b) ==
    \E x \in ToSet(IF b.member THEN submodules[m] ELSE broughtModules[m]) :
        x \in ModuleId /\ allModules[x].path = b.path

(* The nodes that pass 1 is through with: all of a module it has left.     *)
Through(m, k) ==
    pass = FsBrings => \A i \in DOMAIN visits : visits[i].mod = m => k < visits[i].node

(* Brought modules are recorded for every module, visited ones exist, and  *)
(* unless a bring has failed, those passed have had their effect.          *)
EffectInv ==
    /\ project \in Projects
    /\ pass \in 0 .. SetupFiles
    /\ DOMAIN visited = Pass /\ IsSeq(visited[FsBrings]) /\ ToSet(visited[FsBrings]) \subseteq ModuleId
    /\ pass = 0 => visited[FsBrings] = <<>> /\ visits = <<>>
    /\ pass # 0 => /\ IsSeq(broughtModules) /\ DOMAIN broughtModules = ModuleId
                   /\ \A m \in ModuleId : IsSeq(broughtModules[m])
    /\ outcome = "done" => pass = SetupFiles
    /\ outcome \in {"running", "done"} =>
          \A m \in ToSet(visited[FsBrings]) : \A k \in DOMAIN NodesOf(m) :
             Through(m, k) => Done(m, NodesOf(m)[k])

(* What has had its effect keeps it while modules and records only grow.   *)
LEMMA DoneStays ==
    ASSUME NEW m \in ModuleId, NEW b, Done(m, b), ModuleId \subseteq ModuleId',
           \A x \in ModuleId : allModules'[x] = allModules[x],
           ToSet(submodules[m]) \subseteq ToSet(submodules'[m]),
           ToSet(broughtModules[m]) \subseteq ToSet(broughtModules'[m])
    PROVE  Done(m, b)'
    BY DEF Done

(* The visit under way, and those it is within.                            *)
LEMMA VisitsEnd ==
    ASSUME visits \in Seq(Visit), visits # <<>>
    PROVE  /\ Len(visits) \in Nat \ {0} /\ DOMAIN visits = 1 .. Len(visits)
           /\ at = visits[Len(visits)] /\ at \in Visit
           /\ IsSeq(Front(visits)) /\ DOMAIN Front(visits) = 1 .. Len(visits) - 1
           /\ \A i \in 1 .. Len(visits) - 1 : Front(visits)[i] = visits[i]
           /\ \A i \in 1 .. Len(visits) : i \in 1 .. Len(visits) - 1 \/ i = Len(visits)
<1>1. IsSeq(visits) /\ Len(visits) # 0
    BY SeqOfIsSeq, SeqFacts
<1>2. Len(visits) \in Nat \ {0} /\ DOMAIN visits = 1 .. Len(visits)
    BY <1>1, SeqFacts
<1>3. at = visits[Len(visits)]
    BY DEF at, Last
<1>4. at \in Visit
    BY <1>2, <1>3
<1>5. \A i \in 1 .. Len(visits) : i \in 1 .. Len(visits) - 1 \/ i = Len(visits)
    <2>1. \A n \in Nat \ {0} : \A i \in 1 .. n : i \in 1 .. n - 1 \/ i = n
        OBVIOUS
    <2> QED
        BY <1>2, <2>1
<1>6. /\ IsSeq(Front(visits)) /\ DOMAIN Front(visits) = 1 .. Len(visits) - 1
      /\ \A i \in 1 .. Len(visits) - 1 : Front(visits)[i] = visits[i]
    BY <1>1, FrontAny
<1> QED
    BY <1>2, <1>3, <1>4, <1>5, <1>6

(* Front(visits) and one more.                                             *)
LEMMA VisitReplaced ==
    ASSUME visits \in Seq(Visit), visits # <<>>, NEW v
    PROVE  /\ IsSeq(Append(Front(visits), v))
           /\ DOMAIN Append(Front(visits), v) = 1 .. Len(visits)
           /\ \A i \in 1 .. Len(visits) - 1 : Append(Front(visits), v)[i] = visits[i]
           /\ Append(Front(visits), v)[Len(visits)] = v
<1> DEFINE s == Front(visits)
           n == Len(visits)
<1>1. /\ n \in Nat \ {0} /\ IsSeq(s) /\ DOMAIN s = 1 .. n - 1
      /\ \A i \in 1 .. n - 1 : s[i] = visits[i]
    BY VisitsEnd
<1> HIDE DEF s, n
<1>2. Len(s) = n - 1
    <2>1. Len(s) \in Nat /\ 1 .. Len(s) = 1 .. n - 1
        BY <1>1, SeqFacts
    <2>2. \A j, k \in Nat : 1 .. j = 1 .. k => j = k
        <3> SUFFICES ASSUME NEW j \in Nat, NEW k \in Nat, 1 .. j = 1 .. k PROVE j = k
            OBVIOUS
        <3>1. j # 0 => j \in 1 .. k
            OBVIOUS
        <3>2. k # 0 => k \in 1 .. j
            OBVIOUS
        <3> QED
            BY <3>1, <3>2
    <2>3. n - 1 \in Nat
        BY <1>1
    <2> QED
        BY <2>1, <2>2, <2>3
<1>3. Len(s) + 1 = n
    BY <1>1, <1>2
<1> QED
    BY <1>1, <1>2, <1>3, AppendAny DEF s, n

(* A module that a pass comes to.                                          *)
LEMMA EnterEffect ==
    ASSUME EffectInv, outcome = "running", pass \in Pass, NEW m \in ModuleId, NEW below, IsSeq(below),
           Enter(m, below), UNCHANGED <<discoveryVars, pass, broughtModules>>,
           \A i \in DOMAIN visits : \E j \in DOMAIN below :
              below[j].mod = visits[i].mod /\ below[j].node = visits[i].node
    PROVE  EffectInv'
<1> DEFINE v == [mod |-> m, node |-> 1, sub |-> 1]
<1>0. /\ UNCHANGED <<project, allModules, submodules, ModuleId>> /\ Pass' = Pass
      /\ \A x : NodesOf(x)' = NodesOf(x)
      /\ \A x, b : Done(x, b)' = Done(x, b)
    BY DEF discoveryVars, moduleVars, ModuleId, NodesOf, BringsAt, Done
<1>1. ASSUME UNCHANGED outcome,
             \A i \in DOMAIN below : \E j \in DOMAIN visits' : visits'[j].mod = below[i].mod /\ visits'[j].node = below[i].node
      PROVE  \A x, k : Through(x, k)' => Through(x, k)
    <2> SUFFICES ASSUME NEW x, NEW k, Through(x, k)', pass = FsBrings,
                        NEW i \in DOMAIN visits, visits[i].mod = x
                 PROVE  k < visits[i].node
        BY DEF Through
    <2>1. PICK j \in DOMAIN below : below[j].mod = visits[i].mod /\ below[j].node = visits[i].node
        OBVIOUS
    <2>2. PICK l \in DOMAIN visits' : visits'[l].mod = below[j].mod /\ visits'[l].node = below[j].node
        BY <1>1
    <2>3. pass' = FsBrings
        OBVIOUS
    <2> QED
        BY <2>1, <2>2, <2>3 DEF Through
<1>2. CASE visits' = below /\ UNCHANGED <<visited, outcome>>
    <2>1. \A x, k : Through(x, k)' => Through(x, k)
        BY <1>1, <1>2
    <2> QED
        BY <1>0, <1>2, <2>1 DEF EffectInv
<1>3. CASE outcome' = "overflow" /\ UNCHANGED <<visits, visited>>
    BY <1>0, <1>3 DEF EffectInv
<1>4. CASE /\ visits' = Append(below, v)
           /\ visited' = [visited EXCEPT ![pass] = Append(@, m)]
           /\ UNCHANGED outcome
    <2>1. /\ DOMAIN visits' = 1 .. Len(below) + 1 /\ visits'[Len(below) + 1] = v
          /\ \A i \in 1 .. Len(below) : visits'[i] = below[i]
          /\ DOMAIN below = 1 .. Len(below) /\ Len(below) \in Nat
        <3> HIDE DEF v
        <3> QED
            BY <1>4, AppendAny, SeqFacts
    <2>2. \A i \in 1 .. Len(below) : i \in 1 .. Len(below) + 1
        BY <2>1
    <2>3. \A x, k : Through(x, k)' => Through(x, k)
        BY <1>1, <1>4, <2>1, <2>2
    <2>4. DOMAIN visited = Pass /\ DOMAIN visited' = Pass
        BY <1>4 DEF EffectInv
    <2>5. CASE pass # FsBrings
        <3>1. visited'[FsBrings] = visited[FsBrings]
            BY <1>4, <2>4, <2>5 DEF Pass, FsBrings, SetupFiles
        <3>2. pass # 0
            BY DEF Pass, FsBrings
        <3> QED
            BY <1>0, <1>4, <2>3, <2>4, <3>1, <3>2 DEF EffectInv
    <2>6. CASE pass = FsBrings
        <3>1. visited'[FsBrings] = Append(visited[FsBrings], m)
            BY <1>4, <2>4, <2>6
        <3>2. IsSeq(visited'[FsBrings]) /\ ToSet(visited'[FsBrings]) = ToSet(visited[FsBrings]) \cup {m}
            BY <3>1, AppendAny, AppendAdds DEF EffectInv
        <3>3. ASSUME NEW k \in DOMAIN NodesOf(m)
              PROVE  ~Through(m, k)'
            <4>1. k \in Nat \ {0}
                BY NodesAreBrings, SeqFacts DEF EffectInv
            <4>2. Len(below) + 1 \in DOMAIN visits' /\ visits'[Len(below) + 1].mod = m
                  /\ visits'[Len(below) + 1].node = 1
                BY <2>1
            <4>3. ~(k < 1)
                BY <4>1
            <4>4. pass' = FsBrings
                BY <2>6
            <4> QED
                BY <4>2, <4>3, <4>4 DEF Through
        <3>4. outcome \in {"running", "done"} =>
                \A x \in ToSet(visited'[FsBrings]) : \A k \in DOMAIN NodesOf(x) :
                    Through(x, k)' => Done(x, NodesOf(x)[k])
            BY <2>3, <3>2, <3>3 DEF EffectInv
        <3>5. pass # 0
            BY <2>6 DEF FsBrings
        <3> QED
            BY <1>0, <1>4, <2>4, <3>2, <3>4, <3>5 DEF EffectInv
    <2> QED
        BY <2>5, <2>6
<1> QED
    BY <1>2, <1>3, <1>4 DEF Enter

(* bring:member and bring of a module, which make what is found a          *)
(* submodule or a brought module.                                          *)
LEMMA HandleBringEffect ==
    ASSUME TreeInv, EffectInv, HandleBring
    PROVE  EffectInv'
<1>0. PICK a, n, b, m :
          /\ a = at.mod /\ n = at.node /\ b = NodesOf(a)[n]
          /\ m = IF IsDir(b.path) THEN get_folder_module(b.path) ELSE get_file_module(b.path)
    OBVIOUS
<1>1. /\ outcome = "running" /\ pass = FsBrings /\ visits # <<>> /\ ~NodesDone /\ NextNode
      /\ UNCHANGED <<project, allModules, fileEntities, argsLeft, calls, pass, next, visited>>
      /\ IF m = 0
         THEN outcome' = "notFound" /\ UNCHANGED <<parent, submodules, broughtModules>>
         ELSE IF b.member THEN BringMember(m) ELSE BringModule(m)
    BY <1>0 DEF HandleBring
<1>2. visits \in Seq(Visit)
    BY DEF TreeInv, Visit
<1>3. /\ a \in ModuleId /\ n \in Nat /\ Len(visits) \in Nat \ {0} /\ DOMAIN visits = 1 .. Len(visits)
      /\ at = visits[Len(visits)]
    BY <1>0, <1>1, <1>2, VisitsEnd, TopVisit
<1>4. ModuleId' = ModuleId /\ \A x \in ModuleId : allModules'[x] = allModules[x]
    BY <1>1 DEF ModuleId
<1>5. \A x : NodesOf(x)' = NodesOf(x)
    <2>1. UNCHANGED <<project, allModules>>
        BY <1>1
    <2> QED
        BY <2>1 DEF NodesOf, BringsAt
<1>6. pass # 0
    BY <1>1 DEF FsBrings
<1>7. IsSeq(broughtModules) /\ DOMAIN broughtModules = ModuleId /\ IsSeq(broughtModules[a])
    BY <1>3, <1>6 DEF EffectInv
<1>8. CASE outcome' \notin {"running", "done"}
    <2>1. UNCHANGED broughtModules
        BY <1>1, <1>8 DEF BringMember, BringModule
    <2> QED
        BY <1>1, <1>4, <1>8, <2>1 DEF EffectInv
<1>9. CASE outcome' \in {"running", "done"}
    <2>1. m # 0 /\ UNCHANGED outcome
        BY <1>1, <1>9 DEF BringMember, BringModule
    <2>2. m \in ModuleId /\ allModules[m].path = b.path
        BY <1>0, <2>1, FirstModulePath DEF TreeInv, get_folder_module, get_file_module
    <2>3. /\ submodules \in Seq(Seq(ModuleId)) /\ IsSeq(submodules) /\ DOMAIN submodules = ModuleId
          /\ \A x \in ModuleId : IsSeq(submodules[x])
        <3>1. /\ submodules \in Seq(Seq(ModuleId)) /\ Len(submodules) = Len(allModules)
            BY DEF TreeInv, Tree
        <3>2. IsSeq(submodules) /\ DOMAIN submodules = ModuleId
            BY <3>1, SeqOfIsSeq, LenProperties DEF ModuleId
        <3>3. \A x \in ModuleId : submodules[x] \in Seq(ModuleId)
            BY <3>1, <3>2
        <3> QED
            BY <3>1, <3>2, <3>3, SeqOfIsSeq
    <2>6. /\ \A x \in ModuleId : /\ ToSet(submodules[x]) \subseteq ToSet(submodules'[x])
                                 /\ ToSet(broughtModules[x]) \subseteq ToSet(broughtModules'[x])
          /\ m \in ToSet(IF b.member THEN submodules'[a] ELSE broughtModules'[a])
          /\ IsSeq(broughtModules') /\ DOMAIN broughtModules' = ModuleId
          /\ \A x \in ModuleId : IsSeq(broughtModules'[x])
        <3>1. CASE b.member
            <4>1. /\ submodules' = [submodules EXCEPT ![a] = Append(@, m)]
                  /\ UNCHANGED broughtModules
                BY <1>0, <1>1, <1>9, <2>1, <3>1 DEF BringMember
            <4>2. submodules'[a] = Append(submodules[a], m) /\ \A x \in ModuleId : x # a => submodules'[x] = submodules[x]
                BY <1>3, <2>3, <4>1
            <4>3. ToSet(submodules'[a]) = ToSet(submodules[a]) \cup {m}
                BY <1>3, <2>3, <4>2, AppendAdds
            <4>4. \A x \in ModuleId : ToSet(submodules[x]) \subseteq ToSet(submodules'[x])
                BY <4>2, <4>3
            <4> QED
                BY <1>6, <3>1, <4>1, <4>3, <4>4 DEF EffectInv
        <3>2. CASE ~b.member
            <4>1. /\ broughtModules' = [broughtModules EXCEPT ![a] = Append(@, m)]
                  /\ UNCHANGED submodules
                BY <1>0, <1>1, <2>1, <3>2 DEF BringModule
            <4>2. broughtModules'[a] = Append(broughtModules[a], m)
                  /\ \A x \in ModuleId : x # a => broughtModules'[x] = broughtModules[x]
                BY <1>3, <1>7, <4>1
            <4>3. ToSet(broughtModules'[a]) = ToSet(broughtModules[a]) \cup {m} /\ IsSeq(broughtModules'[a])
                BY <1>7, <4>2, AppendAdds, AppendAny
            <4>4. \A x \in ModuleId : /\ ToSet(broughtModules[x]) \subseteq ToSet(broughtModules'[x])
                                      /\ IsSeq(broughtModules'[x])
                BY <1>6, <4>2, <4>3 DEF EffectInv
            <4>5. DOMAIN broughtModules' = ModuleId
                BY <1>7, <4>1
            <4>6. IsSeq(broughtModules')
                <5> DEFINE e == Append(broughtModules[a], m)
                <5>1. broughtModules' = [broughtModules EXCEPT ![a] = e] /\ a \in DOMAIN broughtModules
                    BY <1>3, <1>7, <4>1
                <5> HIDE DEF e
                <5> QED
                    BY <1>7, <5>1, ExceptAny
            <4> QED
                BY <3>2, <4>1, <4>3, <4>4, <4>5, <4>6
        <3> QED
            BY <3>1, <3>2
    <2>7. \A x \in ModuleId : \A c : Done(x, c) => Done(x, c)'
        BY <1>4, <2>6, DoneStays
    <2>8. Done(a, b)'
        BY <1>4, <2>2, <2>6 DEF Done
    <2>9. \A x, k : Through(x, k)' => Through(x, k) \/ (x = a /\ k = n) \/ (x = a /\ k \notin Nat)
        <3> DEFINE v == [mod |-> at.mod, node |-> at.node + 1, sub |-> at.sub]
        <3>1. /\ visits' = Append(Front(visits), v) /\ v.mod = a /\ v.node = n + 1
            BY <1>0, <1>1 DEF NextNode
        <3> HIDE DEF v
        <3>2. /\ DOMAIN visits' = 1 .. Len(visits) /\ visits'[Len(visits)] = v
              /\ \A i \in 1 .. Len(visits) - 1 : visits'[i] = visits[i]
            BY <1>1, <1>2, <3>1, VisitReplaced
        <3>3. \A i \in 1 .. Len(visits) : i \in 1 .. Len(visits) - 1 \/ i = Len(visits)
            BY <1>1, <1>2, VisitsEnd
        <3> SUFFICES ASSUME NEW x, NEW k, Through(x, k)', ~Through(x, k)
                     PROVE  (x = a /\ k = n) \/ (x = a /\ k \notin Nat)
            OBVIOUS
        <3>4. PICK i \in DOMAIN visits : visits[i].mod = x /\ ~(k < visits[i].node)
            BY DEF Through
        <3>5. pass' = FsBrings
            BY <1>1
        <3>6. i \in DOMAIN visits' /\ (visits'[i].mod = x => k < visits'[i].node)
            BY <1>3, <3>2, <3>4, <3>5 DEF Through
        <3>7. i = Len(visits)
            BY <1>3, <3>2, <3>3, <3>4, <3>6
        <3>8. x = a /\ k < n + 1 /\ ~(k < n)
            BY <1>0, <1>3, <3>1, <3>2, <3>4, <3>6, <3>7
        <3> QED
            BY <1>3, <3>8
    <2>10. \A x \in ToSet(visited[FsBrings]) : \A k \in DOMAIN NodesOf(x) :
              Through(x, k)' => Done(x, NodesOf(x)[k])'
        <3> SUFFICES ASSUME NEW x \in ToSet(visited[FsBrings]), NEW k \in DOMAIN NodesOf(x), Through(x, k)'
                     PROVE  Done(x, NodesOf(x)[k])'
            OBVIOUS
        <3>1. k \in Nat
            BY NodesAreBrings, SeqFacts DEF EffectInv
        <3>2. CASE Through(x, k)
            <4>1. x \in ModuleId /\ Done(x, NodesOf(x)[k])
                BY <1>1, <3>2 DEF EffectInv
            <4>2. PICK c : c = NodesOf(x)[k]
                OBVIOUS
            <4>3. c = NodesOf(x)[k]'
                BY <1>5, <4>2
            <4>4. Done(x, c)'
                BY <2>7, <4>1, <4>2
            <4> QED
                BY <4>3, <4>4
        <3>3. CASE x = a /\ k = n
            <4>1. b = NodesOf(x)[k]'
                BY <1>0, <1>5, <3>3
            <4> QED
                BY <2>8, <3>3, <4>1
        <3> QED
            BY <2>9, <3>1, <3>2, <3>3
    <2>11. /\ UNCHANGED <<project, pass, visited, outcome>> /\ outcome = "running" /\ pass # 0
           /\ pass' = pass /\ visited' = visited /\ outcome' = outcome /\ project' = project
        BY <1>1, <1>6, <2>1
    <2>12. \A x \in ToSet(visited'[FsBrings]) : \A k \in DOMAIN NodesOf(x)' :
              Through(x, k)' => Done(x, NodesOf(x)[k])'
        BY <1>5, <2>10, <2>11
    <2>13. /\ project' \in Projects /\ pass' \in 0 .. SetupFiles
           /\ DOMAIN visited' = Pass /\ IsSeq(visited'[FsBrings]) /\ ToSet(visited'[FsBrings]) \subseteq ModuleId'
        BY <1>4, <2>11 DEF EffectInv
    <2> QED
        BY <1>4, <2>6, <2>11, <2>12, <2>13 DEF EffectInv
<1> QED
    BY <1>8, <1>9

(* A lib is made by pass 2, after the brings.                              *)
LEMMA CreateLibEffect ==
    ASSUME TreeInv, EffectInv, CreateLib
    PROVE  EffectInv'
<1>0. PICK a : a = at.mod
    OBVIOUS
<1>1. /\ outcome = "running" /\ pass = CreateModules /\ visits # <<>>
      /\ UNCHANGED <<project, fileEntities, argsLeft, calls, pass, next, visited, outcome>>
      /\ create_submodule(allModules[a].path, "lib", a)
      /\ broughtModules' = Append(broughtModules, <<>>)
    BY <1>0 DEF CreateLib
<1>2. IsSeq(allModules) /\ Len(allModules) \in Nat
    BY SeqOfIsSeq, SeqFacts DEF TreeInv, Tree
<1>3. /\ ModuleId = 1 .. Len(allModules) /\ ModuleId' = 1 .. Len(allModules) + 1
      /\ \A m \in ModuleId : allModules'[m] = allModules[m]
    BY <1>1, <1>2, ModulesGrow
<1>4. \A m \in ModuleId' : m \in ModuleId \/ m = Len(allModules) + 1
    BY <1>2, <1>3
<1>5. ModuleId \subseteq ModuleId'
    BY <1>2, <1>3
<1>6. /\ IsSeq(broughtModules) /\ DOMAIN broughtModules = ModuleId
      /\ \A m \in ModuleId : IsSeq(broughtModules[m])
    BY <1>1 DEF EffectInv, CreateModules
<1>7. Len(broughtModules) = Len(allModules)
    <2>1. Len(broughtModules) \in Nat /\ 1 .. Len(broughtModules) = 1 .. Len(allModules)
        BY <1>3, <1>6, SeqFacts
    <2> QED
        BY <1>2, <2>1, LengthsAgree
<1>8. /\ IsSeq(broughtModules') /\ DOMAIN broughtModules' = ModuleId'
      /\ \A m \in ModuleId : broughtModules'[m] = broughtModules[m]
      /\ broughtModules'[Len(allModules) + 1] = <<>>
    BY <1>1, <1>3, <1>6, <1>7, AppendAny
<1>9. \A m \in ModuleId' : IsSeq(broughtModules'[m])
    BY <1>4, <1>6, <1>8, EmptyIsSeq
<1>10. \A m \in ModuleId : ToSet(submodules[m]) \subseteq ToSet(submodules'[m])
    <2> DEFINE grown == [m \in ModuleId |-> IF m = a THEN Append(submodules[m], NewModule)
                                            ELSE submodules[m]]
    <2>1. submodules' = Append(grown, <<>>)
        BY <1>1 DEF create_submodule
    <2>2. IsSeq(grown) /\ DOMAIN grown = ModuleId
        <3>1. grown \in [1 .. Len(allModules) -> {grown[m] : m \in ModuleId}] /\ DOMAIN grown = ModuleId
            BY DEF ModuleId
        <3> HIDE DEF grown
        <3> QED
            BY <1>2, <3>1, FunctionIsSeq
    <2>3. \A m \in ModuleId : grown[m] = submodules[m] \/ grown[m] = Append(submodules[m], NewModule)
        OBVIOUS
    <2> HIDE DEF grown
    <2>4. \A m \in ModuleId : submodules'[m] = grown[m]
        <3>1. DOMAIN grown = 1 .. Len(grown)
            BY <2>2, SeqFacts
        <3> QED
            BY <2>1, <2>2, <3>1, AppendAny
    <2>5. \A m \in ModuleId : IsSeq(submodules[m])
        <3>1. submodules \in Seq(Seq(ModuleId)) /\ Len(submodules) = Len(allModules)
            BY DEF TreeInv, Tree
        <3> QED
            BY <3>1, SeqOfIsSeq DEF ModuleId
    <2>6. \A m \in ModuleId : ToSet(submodules[m]) \subseteq ToSet(Append(submodules[m], NewModule))
        BY <2>5, AppendAdds
    <2> QED
        BY <2>3, <2>4, <2>6
<1>11. \A m \in ModuleId : NodesOf(m)' = NodesOf(m)
    BY <1>1, <1>3, NodesKept
<1>12. /\ project' = project /\ pass' = pass /\ visited' = visited /\ outcome' = outcome
    BY <1>1
<1>13. \A x \in ToSet(visited'[FsBrings]) : \A k \in DOMAIN NodesOf(x)' : Done(x, NodesOf(x)[k])'
    <2> SUFFICES ASSUME NEW x \in ToSet(visited'[FsBrings]), NEW k \in DOMAIN NodesOf(x)'
                 PROVE  Done(x, NodesOf(x)[k])'
        OBVIOUS
    <2>1. x \in ModuleId /\ x \in ToSet(visited[FsBrings])
        BY <1>12 DEF EffectInv
    <2>2. PICK c : c = NodesOf(x)[k]
        OBVIOUS
    <2>3. Through(x, k)
        BY <1>1 DEF Through, CreateModules, FsBrings
    <2>4. k \in DOMAIN NodesOf(x) /\ c = NodesOf(x)[k]'
        BY <1>11, <2>1, <2>2
    <2>5. Done(x, c)
        BY <1>1, <2>1, <2>2, <2>3, <2>4 DEF EffectInv
    <2>6. ToSet(broughtModules[x]) \subseteq ToSet(broughtModules'[x])
        BY <1>8, <2>1
    <2>7. Done(x, c)'
        BY <1>3, <1>5, <1>10, <2>1, <2>5, <2>6, DoneStays
    <2> QED
        BY <2>4, <2>7
<1>14. /\ project' \in Projects /\ pass' \in 0 .. SetupFiles
       /\ DOMAIN visited' = Pass /\ IsSeq(visited'[FsBrings]) /\ ToSet(visited'[FsBrings]) \subseteq ModuleId'
       /\ pass' # 0 /\ outcome' = "running"
    BY <1>1, <1>5, <1>12 DEF EffectInv, CreateModules
<1> QED
    BY <1>8, <1>9, <1>13, <1>14 DEF EffectInv

(* The nodes of the module visited are done: it goes down, or up.          *)
LEMMA VisitSubmoduleEffect ==
    ASSUME TreeInv, EffectInv, VisitSubmodule
    PROVE  EffectInv'
<1>0. PICK v : v = [mod |-> at.mod, node |-> at.node, sub |-> at.sub + 1]
    OBVIOUS
<1>1. /\ outcome = "running" /\ visits # <<>>
      /\ Enter(submodules[at.mod][at.sub], Append(Front(visits), v))
      /\ UNCHANGED <<discoveryVars, pass, broughtModules>>
      /\ at.sub <= Len(submodules[at.mod])
    BY <1>0 DEF VisitSubmodule
<1>2. visits \in Seq(Visit)
    BY DEF TreeInv, Visit
<1>3. submodules[at.mod][at.sub] \in ModuleId
    <2>1. at.mod \in ModuleId /\ at.sub \in Nat \ {0}
        BY <1>1, <1>2, TopVisit
    <2>2. submodules[at.mod] \in Seq(ModuleId)
        BY <2>1 DEF TreeInv, Tree, ModuleId
    <2> QED
        BY <1>1, <2>1, <2>2
<1>4. pass \in Pass
    <2>1. pass # 0
        BY <1>1 DEF EffectInv
    <2> QED
        BY <2>1 DEF EffectInv, Pass, SetupFiles, FsBrings
<1>5. /\ IsSeq(Append(Front(visits), v)) /\ DOMAIN Append(Front(visits), v) = 1 .. Len(visits)
      /\ \A i \in 1 .. Len(visits) - 1 : Append(Front(visits), v)[i] = visits[i]
      /\ Append(Front(visits), v)[Len(visits)] = v
    BY <1>1, <1>2, VisitReplaced
<1>6. /\ DOMAIN visits = 1 .. Len(visits) /\ v.mod = visits[Len(visits)].mod /\ v.node = visits[Len(visits)].node
      /\ \A i \in 1 .. Len(visits) : i \in 1 .. Len(visits) - 1 \/ i = Len(visits)
    BY <1>0, <1>1, <1>2, VisitsEnd
<1> QED
    BY <1>1, <1>3, <1>4, <1>5, <1>6, EnterEffect

LEMMA LeaveModuleEffect ==
    ASSUME TreeInv, EffectInv, LeaveModule
    PROVE  EffectInv'
<1>0. PICK a, n : a = at.mod /\ n = at.node
    OBVIOUS
<1>1. /\ outcome = "running" /\ visits # <<>> /\ visits' = Front(visits)
      /\ pass = FsBrings => n > Len(NodesOf(a))
      /\ UNCHANGED <<discoveryVars, pass, next, visited, broughtModules, outcome>>
    BY <1>0 DEF LeaveModule, NodesDone
<1>2. visits \in Seq(Visit)
    BY DEF TreeInv, Visit
<1>3. /\ DOMAIN visits = 1 .. Len(visits) /\ a = visits[Len(visits)].mod /\ n = visits[Len(visits)].node
      /\ n \in Nat /\ DOMAIN visits' = 1 .. Len(visits) - 1
      /\ \A i \in 1 .. Len(visits) - 1 : visits'[i] = visits[i]
      /\ \A i \in 1 .. Len(visits) : i \in 1 .. Len(visits) - 1 \/ i = Len(visits)
    BY <1>0, <1>1, <1>2, VisitsEnd, TopVisit
<1>4. ASSUME NEW x, NEW k \in DOMAIN NodesOf(x), Through(x, k)'
      PROVE  Through(x, k)
    <2> SUFFICES ASSUME pass = FsBrings, NEW i \in DOMAIN visits, visits[i].mod = x
                 PROVE  k < visits[i].node
        BY DEF Through
    <2>1. CASE i \in 1 .. Len(visits) - 1
        BY <1>1, <1>3, <1>4, <2>1 DEF Through
    <2>2. CASE i = Len(visits)
        <3>1. x = a /\ IsSeq(NodesOf(a))
            BY <1>3, <2>2, NodesAreBrings DEF EffectInv
        <3>2. k \in 1 .. Len(NodesOf(a)) /\ Len(NodesOf(a)) \in Nat
            BY <3>1, SeqFacts
        <3>3. visits[i].node = n
            BY <1>3, <2>2
        <3>4. PICK l : l = Len(NodesOf(a))
            OBVIOUS
        <3>5. k \in 1 .. l /\ l \in Nat /\ n > l /\ n \in Nat
            BY <1>1, <1>3, <3>2, <3>4
        <3>6. k < n
            BY <3>5
        <3> QED
            BY <3>3, <3>6
    <2> QED
        BY <1>3, <2>1, <2>2
<1>5. /\ UNCHANGED <<project, allModules, submodules, ModuleId>> /\ Pass' = Pass
      /\ \A x : NodesOf(x)' = NodesOf(x)
      /\ \A x, b : Done(x, b)' = Done(x, b)
    BY <1>1 DEF discoveryVars, moduleVars, ModuleId, NodesOf, BringsAt, Done
<1>6. \A x : DOMAIN (NodesOf(x)') = DOMAIN NodesOf(x)
    BY <1>5
<1>7. /\ pass' = pass /\ visited' = visited /\ outcome' = outcome /\ broughtModules' = broughtModules
    BY <1>1
<1>8. \A x \in ToSet(visited[FsBrings]) : \A k \in DOMAIN NodesOf(x) :
         Through(x, k)' => Done(x, NodesOf(x)[k])
    BY <1>1, <1>4 DEF EffectInv
<1>9. pass # 0
    BY <1>1 DEF EffectInv
<1> QED
    BY <1>5, <1>6, <1>7, <1>8, <1>9 DEF EffectInv

(* Every step keeps the effects.                                           *)
LEMMA EffectStep ==
    ASSUME TreeInv, EffectInv, [Next]_vars
    PROVE  EffectInv'
<1>1. CASE UNCHANGED vars
    <2>1. /\ UNCHANGED <<project, allModules, submodules, ModuleId, pass, visits, visited, broughtModules, outcome>>
          /\ \A x : NodesOf(x)' = NodesOf(x)
          /\ \A x, b : Done(x, b)' = Done(x, b)
          /\ \A x, k : Through(x, k)' = Through(x, k)
        BY <1>1 DEF vars, discoveryVars, moduleVars, passVars, ModuleId, NodesOf, BringsAt, Done, Through
    <2> QED
        BY <2>1 DEF EffectInv
<1>2. CASE Discover
    <2>1. pass = 0 /\ outcome = "running" /\ UNCHANGED <<pass, visits, visited, outcome>>
        BY <1>2 DEF Discover, passVars
    <2>2. project' = project
        BY <1>2, Creations DEF EffectInv, Next
    <2>3. visited'[FsBrings] = <<>> /\ ToSet(visited'[FsBrings]) = {}
        BY <2>1 DEF EffectInv, ToSet
    <2> QED
        BY <2>1, <2>2, <2>3, EmptyIsSeq DEF EffectInv, Pass
<1>3. CASE StartPass
    <2>1. /\ UNCHANGED <<project, allModules, submodules, ModuleId, visits, visited>> /\ visits = <<>>
          /\ outcome = "running"
          /\ \A x : NodesOf(x)' = NodesOf(x)
        BY <1>3 DEF StartPass, discoveryVars, moduleVars, ModuleId, NodesOf, BringsAt
    <2>2. \A x, k : Through(x, k)
        BY <2>1 DEF Through
    <2>3. CASE pass = SetupFiles
        <3>1. outcome' = "done" /\ UNCHANGED <<pass, broughtModules>> /\ pass' = SetupFiles /\ pass' # 0
            BY <1>3, <2>3 DEF StartPass, SetupFiles
        <3>2. \A x, b : Done(x, b)' = Done(x, b)
            BY <2>1, <3>1 DEF Done
        <3> QED
            BY <2>1, <2>2, <3>1, <3>2 DEF EffectInv
    <2>4. CASE pass = 0
        <3>1. pass' = 1 /\ UNCHANGED outcome /\ broughtModules' = [m \in ModuleId |-> <<>>]
            BY <1>3, <2>4 DEF StartPass, SetupFiles
        <3>2. visited'[FsBrings] = <<>> /\ ToSet(visited'[FsBrings]) = {}
            BY <2>1, <2>4 DEF EffectInv, ToSet
        <3>3. IsSeq(broughtModules')
            <4>1. Len(allModules) \in Nat /\ broughtModules' \in [1 .. Len(allModules) -> {<<>>}]
                BY <3>1 DEF TreeInv, Tree, ModuleId
            <4> QED
                BY <4>1, FunctionIsSeq
        <3>4. DOMAIN broughtModules' = ModuleId' /\ \A m \in ModuleId' : IsSeq(broughtModules'[m])
            BY <2>1, <3>1, EmptyIsSeq
        <3>5. pass' \in 0 .. SetupFiles /\ pass' # 0 /\ outcome' = "running"
            BY <2>1, <3>1 DEF SetupFiles
        <3> QED
            BY <2>1, <3>2, <3>3, <3>4, <3>5, EmptyIsSeq DEF EffectInv, Pass
    <2>5. CASE pass \notin {0, SetupFiles}
        <3>1. pass' = pass + 1 /\ UNCHANGED <<broughtModules, outcome>>
            BY <1>3, <2>5 DEF StartPass
        <3>2. pass' \in 0 .. SetupFiles /\ pass' # 0 /\ outcome' = "running"
            BY <2>1, <2>5, <3>1 DEF EffectInv, SetupFiles
        <3>3. \A x, b : Done(x, b)' = Done(x, b)
            BY <2>1, <3>1 DEF Done
        <3> QED
            BY <2>1, <2>2, <2>5, <3>1, <3>2, <3>3 DEF EffectInv, Pass
    <2> QED
        BY <2>3, <2>4, <2>5
<1>4. CASE VisitEntity
    <2>1. /\ outcome = "running" /\ pass \in Pass /\ visits = <<>> /\ Enter(fileEntities[next], <<>>)
          /\ UNCHANGED <<discoveryVars, pass, broughtModules>>
        BY <1>4 DEF VisitEntity
    <2>2. fileEntities[next] \in ModuleId
        BY <1>4 DEF VisitEntity, TreeInv
    <2> QED
        BY <2>1, <2>2, EnterEffect, EmptyIsSeq
<1>5. CASE HandleBring \/ CreateLib \/ VisitSubmodule \/ LeaveModule
    BY <1>5, HandleBringEffect, CreateLibEffect, VisitSubmoduleEffect, LeaveModuleEffect
<1>6. CASE Ended
    BY <1>1, <1>6 DEF Ended
<1> QED
    BY <1>1, <1>2, <1>3, <1>4, <1>5, <1>6 DEF Next

LEMMA EffectInvariant == Spec => []EffectInv
<1>1. Init => EffectInv
    <2> SUFFICES ASSUME Init PROVE EffectInv
        OBVIOUS
    <2>1. /\ project \in Projects /\ pass = 0 /\ visits = <<>>
          /\ visited = [p \in Pass |-> <<>>] /\ outcome = "running"
        BY DEF Init, DiscoveryInit
    <2>2. FsBrings \in Pass
        BY DEF FsBrings, Pass, SetupFiles
    <2>3. visited[FsBrings] = <<>> /\ ToSet(visited[FsBrings]) = {}
        BY <2>1, <2>2 DEF ToSet
    <2> QED
        BY <2>1, <2>3, EmptyIsSeq DEF EffectInv, SetupFiles
<1>2. TreeInv /\ EffectInv /\ [Next]_vars => EffectInv'
    BY EffectStep
<1> QED
    BY <1>1, <1>2, TreeInvariant, PTL DEF Spec

-----------------------------------------------------------------------------
(* A path that comes from another by way of paths each held by one of them *)
(* or by that other.                                                       *)
From(a, b) ==
    \E W \in SUBSET Path : b \in W /\ \A p \in W : \E q \in W \cup {a} : Holds(q, p)

LEMMA HeldIsFrom ==
    ASSUME NEW a, NEW b \in Path, Holds(a, b)
    PROVE  From(a, b)
<1>1. {b} \in SUBSET Path /\ b \in {b} /\ \A p \in {b} : \E q \in {b} \cup {a} : Holds(q, p)
    OBVIOUS
<1> QED
    BY <1>1 DEF From

LEMMA FromGoesOn ==
    ASSUME NEW a, NEW b, From(a, b), NEW c \in Path, Holds(b, c)
    PROVE  From(a, c)
<1>1. PICK W \in SUBSET Path : b \in W /\ \A p \in W : \E q \in W \cup {a} : Holds(q, p)
    BY DEF From
<1> DEFINE V == W \cup {c}
<1>2. V \in SUBSET Path /\ c \in V /\ \A p \in V : \E q \in V \cup {a} : Holds(q, p)
    BY <1>1
<1> QED
    BY <1>2 DEF From

LEMMA FromStays ==
    ASSUME UNCHANGED project
    PROVE  \A a, b : From(a, b)' = From(a, b)
    BY DEF From, Holds

PathOf(m) == allModules[m].path

(* Every module but a lib has a path that comes from that of its parent,   *)
(* and no lib is a parent.                                                 *)
Held ==
    \A m \in ModuleId : parent[m] # 0 =>
        /\ allModules[parent[m]].kind # "lib"
        /\ allModules[m].kind # "lib" => From(PathOf(parent[m]), PathOf(m))

(* Visits go down the tree.                                                *)
Descent == \A k \in DOMAIN visits : k + 1 \in DOMAIN visits => parent[visits[k + 1].mod] = visits[k].mod

Cycle == \E cycle \in (SUBSET Path) \ {{}} : \A p \in cycle : \E q \in cycle : Holds(q, p)

(* A submodule of the last of the visits that is being visited closes a    *)
(* cycle of paths.                                                         *)
LEMMA DescentCloses ==
    ASSUME visits \in Seq(Visit), visits # <<>>, Held, Descent,
           NEW i \in DOMAIN visits, NEW m \in ModuleId, visits[i].mod = m, parent[m] = at.mod
    PROVE  Cycle
<1>1. PICK n : n = Len(visits)
    OBVIOUS
<1>2. n \in Nat \ {0} /\ DOMAIN visits = 1 .. n /\ i \in 1 .. n
    BY <1>1, VisitsEnd
<1>3. at = visits[n] /\ at.mod \in ModuleId
    BY <1>1, VisitsEnd, TopVisit
<1> DEFINE child(k) == IF k = n THEN m ELSE visits[k + 1].mod
           v(k) == visits[k].mod
<1>4. ASSUME NEW k \in i .. n
      PROVE  /\ k \in 1 .. n /\ v(k) \in ModuleId /\ child(k) \in ModuleId /\ parent[child(k)] = v(k)
    <2>1. k \in 1 .. n
        BY <1>2
    <2>2. visits[k] \in Visit
        BY <1>2, <2>1
    <2>3. v(k) \in ModuleId
        BY <2>2 DEF Visit
    <2>4. CASE k = n
        BY <1>3, <2>1, <2>3, <2>4
    <2>5. CASE k # n
        <3>1. k + 1 \in 1 .. n
            BY <1>2, <2>1, <2>5
        <3>2. visits[k + 1] \in Visit
            BY <1>2, <3>1
        <3>3. visits[k + 1].mod \in ModuleId
            BY <3>2 DEF Visit
        <3>4. parent[visits[k + 1].mod] = visits[k].mod
            BY <1>2, <2>1, <3>1 DEF Descent
        <3> QED
            BY <2>1, <2>3, <2>5, <3>3, <3>4
    <2> QED
        BY <2>4, <2>5
<1>5. v(i) = m /\ child(n) = m /\ i \in i .. n /\ n \in i .. n
    BY <1>2
<1>6. \A k \in i .. n : k # i => k - 1 \in i .. n /\ child(k - 1) = v(k)
    <2> SUFFICES ASSUME NEW k \in i .. n, k # i
                 PROVE  k - 1 \in i .. n /\ child(k - 1) = v(k)
        OBVIOUS
    <2>1. k - 1 \in i .. n /\ k - 1 # n /\ k - 1 + 1 = k
        BY <1>2
    <2> QED
        BY <2>1
<1>7. 0 \notin ModuleId
    BY DEF ModuleId
<1> HIDE DEF v, child
<1>8. \A k \in i .. n : allModules[v(k)].kind # "lib"
    BY <1>4, <1>7 DEF Held
<1>9. \A k \in i .. n : allModules[child(k)].kind # "lib"
    <2> SUFFICES ASSUME NEW k \in i .. n
                 PROVE  allModules[child(k)].kind # "lib"
        OBVIOUS
    <2>1. CASE k = n
        BY <1>5, <1>8, <2>1
    <2>2. CASE k # n
        <3>1. k + 1 \in i .. n /\ k + 1 # i /\ k + 1 - 1 = k
            BY <1>2, <2>2
        <3>2. child(k) = v(k + 1)
            BY <1>6, <3>1
        <3> QED
            BY <1>8, <3>1, <3>2
    <2> QED
        BY <2>1, <2>2
<1>10. \A k \in i .. n : From(PathOf(v(k)), PathOf(child(k)))
    BY <1>4, <1>7, <1>9 DEF Held
<1> DEFINE Way(k, W) == PathOf(child(k)) \in W /\ \A p \in W : \E q \in W \cup {PathOf(v(k))} : Holds(q, p)
           C == {p \in Path : \E k \in i .. n : \E W \in SUBSET Path : Way(k, W) /\ p \in W}
<1>11. \A k \in i .. n : \E W \in SUBSET Path : Way(k, W)
    BY <1>10 DEF From
<1>12. \A k \in i .. n : PathOf(child(k)) \in C
    BY <1>11
<1>13. \A k \in i .. n : PathOf(v(k)) \in C
    BY <1>5, <1>6, <1>12
<1>14. \A p \in C : \E q \in C : Holds(q, p)
    <2> SUFFICES ASSUME NEW p \in C
                 PROVE  \E q \in C : Holds(q, p)
        OBVIOUS
    <2>1. PICK k \in i .. n, W \in SUBSET Path : Way(k, W) /\ p \in W
        OBVIOUS
    <2>2. PICK q \in W \cup {PathOf(v(k))} : Holds(q, p)
        BY <2>1
    <2>3. CASE q \in W
        BY <2>1, <2>2, <2>3
    <2>4. CASE q = PathOf(v(k))
        <3> HIDE DEF C
        <3> QED
            BY <1>13, <2>2, <2>4
    <2> QED
        BY <2>2, <2>3, <2>4
<1>15. C \in SUBSET Path /\ C # {}
    BY <1>5, <1>12
<1> HIDE DEF C
<1> QED
    BY <1>14, <1>15 DEF Cycle

(* The directories being walked, with what is left of them.                *)
IsFrame(fr) == \E c \in ToSet(calls) : fr \in ToSet(c.folders)

Stack == IsSeq(calls) /\ \A c \in ToSet(calls) : IsSeq(c.folders)

LEMMA WalksAreStacks == ASSUME Walks PROVE Stack
<1>1. PICK B, M : calls \in Seq([folders : Seq(Folder), brought : B, members : M])
    BY DEF Walks
<1>2. IsSeq(calls)
    BY <1>1, SeqOfIsSeq
<1> DEFINE F == [folders : Seq(Folder), brought : B, members : M]
<1>3. \A c \in ToSet(calls) : c \in F
    <2>1. calls \in Seq(F) /\ DOMAIN calls = 1 .. Len(calls)
        BY <1>1, <1>2, SeqFacts
    <2> HIDE DEF F
    <2>2. \A k \in DOMAIN calls : calls[k] \in F
        BY <2>1
    <2> QED
        BY <2>2 DEF ToSet
<1>4. \A c \in ToSet(calls) : c.folders \in Seq(Folder)
    BY <1>3
<1> QED
    BY <1>2, <1>4, SeqOfIsSeq DEF Stack

(* Where the frames come from, when a call is put on others.               *)
LEMMA PushedFrames ==
    ASSUME NEW below, IsSeq(below), \A x \in ToSet(below) : x \in ToSet(calls) \/ x.folders = <<>>,
           NEW c, calls' = Append(below, c),
           NEW fr, IsFrame(fr)'
    PROVE  IsFrame(fr) \/ fr \in ToSet(c.folders)
<1>1. ToSet(calls') = ToSet(below) \cup {c}
    BY AppendAdds
<1>2. PICK x \in ToSet(calls') : fr \in ToSet(x.folders)
    BY DEF IsFrame
<1>3. x.folders # <<>>
    BY <1>2 DEF ToSet
<1> QED
    BY <1>1, <1>2, <1>3 DEF IsFrame

(* A frame after a step of discovery: one that was there, with fewer items *)
(* left; one of the same module for a directory found in it; or the one of *)
(* a folder just made.                                                     *)
Walked(fr) ==
    \/ \E g : IsFrame(g) /\ fr.mod = g.mod /\ fr.items \subseteq g.items
    \/ UNCHANGED allModules /\ \E g : IsFrame(g) /\ fr.mod = g.mod /\ \E i \in g.items : fr.items = Items(i)
    \/ fr.mod = NewModule /\ \E p, par : create_submodule(p, "folder", par) /\ fr.items = Items(p)

(* A module made by discovery has no parent, or hangs below the module of  *)
(* the directory in which its path, or the directory of it as a lib, is.   *)
Hung(p, par) ==
    \/ par = 0
    \/ \E g : IsFrame(g) /\ par = g.mod /\ \E i \in g.items :
          p = i \/ (p \in Path /\ project.above[p] = i)

DiscoveryShape ==
    /\ \A fr : IsFrame(fr)' => Walked(fr)
    /\ \/ UNCHANGED moduleVars
       \/ \E p, kind, par : create_submodule(p, kind, par) /\ kind # "lib" /\ Hung(p, par)

LEMMA SameFrame == ASSUME NEW fr, IsFrame(fr) PROVE Walked(fr)
    BY DEF Walked

LEMMA CreatedShape ==
    ASSUME NEW p, NEW kind \in {"file", "folder", "rootLib"}, NEW par, CreateEntity(p, kind, par), Hung(p, par)
    PROVE  \E q, k, pr : create_submodule(q, k, pr) /\ k # "lib" /\ Hung(q, pr)
<1>1. create_submodule(p, kind, par) /\ kind # "lib"
    BY DEF CreateEntity
<1> QED
    BY <1>1

LEMMA HandlePathShape ==
    ASSUME NEW p, NEW below, IsSeq(below), \A x \in ToSet(below) : x \in ToSet(calls) \/ x.folders = <<>>,
           handle_path(p, below)
    PROVE  DiscoveryShape
<1>1. ASSUME NEW c, c.folders = <<>>, calls' = Append(below, c)
      PROVE  \A fr : IsFrame(fr)' => Walked(fr)
    <2>1. ToSet(c.folders) = {}
        BY <1>1 DEF ToSet
    <2> QED
        BY <1>1, <2>1, PushedFrames, SameFrame
<1>2. \A f : Parsed(NothingToDo, f).folders = <<>>
    BY DEF Parsed, NothingToDo, HandleCall
<1>3. NothingToDo.folders = <<>>
    BY DEF NothingToDo, HandleCall
<1>4. \A q : Hung(q, 0)
    BY DEF Hung
<1>5. ASSUME NEW q, NEW kind \in {"file", "rootLib"}, CreateEntity(q, kind, 0), calls' = Append(below, Parsed(NothingToDo, q))
      PROVE  DiscoveryShape
    <2>1. \A fr : IsFrame(fr)' => Walked(fr)
        BY <1>1, <1>2, <1>5
    <2>2. \E r, k, pr : create_submodule(r, k, pr) /\ k # "lib" /\ Hung(r, pr)
        BY <1>4, <1>5, CreatedShape
    <2> QED
        BY <2>1, <2>2 DEF DiscoveryShape
<1>6. CASE CreateEntity(p, "folder", 0) /\ calls' = Append(below, Walking(NothingToDo, NewModule, p))
    <2> DEFINE g == [mod |-> NewModule, items |-> Items(p)]
    <2>1. Walking(NothingToDo, NewModule, p).folders = Append(<<>>, g)
        BY DEF Walking, WithFolders, NothingToDo, HandleCall
    <2>2. Walked(g)
        BY <1>6 DEF CreateEntity, Walked
    <2> HIDE DEF g
    <2>3. ToSet(Append(<<>>, g)) = {g}
        BY EmptyIsSeq, AppendAdds DEF ToSet
    <2>4. \A fr : IsFrame(fr)' => Walked(fr)
        BY <1>6, <2>1, <2>2, <2>3, PushedFrames, SameFrame
    <2>5. \E r, k, pr : create_submodule(r, k, pr) /\ k # "lib" /\ Hung(r, pr)
        BY <1>4, <1>6, CreatedShape
    <2> QED
        BY <2>4, <2>5 DEF DiscoveryShape
<1>7. CASE EnterKnown(p, below)
    <2>1. \A fr : IsFrame(fr)' => Walked(fr)
        BY <1>1, <1>3, <1>7 DEF EnterKnown
    <2> QED
        BY <1>7, <2>1 DEF EnterKnown, DiscoveryShape
<1>8. CASE EnterDirectory(p, below)
    BY <1>5, <1>6, <1>8 DEF EnterDirectory
<1>9. CASE EnterFile(p, below)
    BY <1>5, <1>9, FileKinds DEF EnterFile
<1> QED
    BY <1>7, <1>8, <1>9 DEF handle_path

LEMMA WalkShape ==
    ASSUME Stack, WalkFolder
    PROVE  DiscoveryShape
<1>1. PICK i : calls # <<>> /\ call.folders # <<>> /\ WalkItem(i)
    BY DEF WalkFolder
<1>2. PICK folders : folders = call.folders
    OBVIOUS
<1>3. PICK top : top = Last(folders)
    OBVIOUS
<1>4. PICK rest, less : /\ less = [mod |-> top.mod, items |-> top.items \ {i}]
                        /\ rest = WithFolders(call, Append(Front(folders), less))
    OBVIOUS
<1>5. IsSeq(calls) /\ ToSet(Front(calls)) \subseteq ToSet(calls) /\ call \in ToSet(calls) /\ IsSeq(Front(calls))
    BY <1>1, FrontElements DEF Stack, call
<1>6. IsSeq(folders) /\ ToSet(Front(folders)) \subseteq ToSet(folders) /\ top \in ToSet(folders) /\ IsSeq(Front(folders))
    BY <1>1, <1>2, <1>3, <1>5, FrontElements DEF Stack
<1>7. IsFrame(top) /\ \A fr \in ToSet(folders) : IsFrame(fr)
    BY <1>2, <1>5, <1>6 DEF IsFrame
<1>8. less.mod = top.mod /\ less.items \subseteq top.items
    BY <1>4
<1>9. Walked(less)
    BY <1>7, <1>8 DEF Walked
<1>10. PICK f : f = Append(Front(folders), less)
    OBVIOUS
<1>11. IsSeq(f) /\ ToSet(f) = ToSet(Front(folders)) \cup {less}
    BY <1>6, <1>10, AppendAdds, AppendAny
<1>12. \A fr \in ToSet(f) : Walked(fr)
    BY <1>6, <1>7, <1>9, <1>11, SameFrame
<1>13. rest.folders = f /\ \A q : Parsed(rest, q).folders = f
    BY <1>4, <1>10 DEF WithFolders, HandleCall, Parsed
<1>14. \A m, d : Walking(rest, m, d).folders = Append(f, [mod |-> m, items |-> Items(d)])
    BY <1>4, <1>10 DEF WithFolders, HandleCall, Walking
<1>15. ASSUME NEW c, Return(c), \A fr \in ToSet(c.folders) : Walked(fr)
       PROVE  \A fr : IsFrame(fr)' => Walked(fr)
    BY <1>5, <1>15, PushedFrames, SameFrame DEF Return
<1>16. i \in top.items
    BY <1>1, <1>2, <1>3 DEF WalkItem
<1>17. \A q : q = i \/ q \in detect_lib_file(i) => Hung(q, top.mod)
    BY <1>7, <1>16 DEF Hung, detect_lib_file, Items
<1>18. \/ \E kind \in {"file", "rootLib"} : \E q : /\ q = i \/ q \in detect_lib_file(i)
                                                   /\ CreateEntity(q, kind, top.mod) /\ Return(Parsed(rest, q))
       \/ CreateEntity(i, "folder", top.mod) /\ Return(Walking(rest, NewModule, i))
       \/ Return(Walking(rest, top.mod, i)) /\ UNCHANGED <<moduleVars, fileEntities>>
       \/ Return(rest) /\ UNCHANGED <<moduleVars, fileEntities>>
    BY <1>1, <1>2, <1>3, <1>4, FileKinds, Zenon DEF WalkItem
<1>19. CASE \E kind \in {"file", "rootLib"} : \E q : /\ q = i \/ q \in detect_lib_file(i)
                                                     /\ CreateEntity(q, kind, top.mod) /\ Return(Parsed(rest, q))
    <2>1. PICK kind \in {"file", "rootLib"} : \E q : /\ q = i \/ q \in detect_lib_file(i)
                                                     /\ CreateEntity(q, kind, top.mod) /\ Return(Parsed(rest, q))
        BY <1>19
    <2>2. PICK q : /\ q = i \/ q \in detect_lib_file(i)
                   /\ CreateEntity(q, kind, top.mod) /\ Return(Parsed(rest, q))
        BY <2>1
    <2>3. \A fr : IsFrame(fr)' => Walked(fr)
        BY <1>12, <1>13, <1>15, <2>2
    <2>4. \E r, k, pr : create_submodule(r, k, pr) /\ k # "lib" /\ Hung(r, pr)
        BY <1>17, <2>2, CreatedShape
    <2> QED
        BY <2>3, <2>4 DEF DiscoveryShape
<1>20. CASE CreateEntity(i, "folder", top.mod) /\ Return(Walking(rest, NewModule, i))
    <2>1. PICK g : g = [mod |-> NewModule, items |-> Items(i)]
        OBVIOUS
    <2>2. Walked(g)
        BY <1>20, <2>1 DEF CreateEntity, Walked
    <2>3. ToSet(Append(f, g)) = ToSet(f) \cup {g}
        BY <1>11, AppendAdds
    <2>4. \A fr : IsFrame(fr)' => Walked(fr)
        BY <1>12, <1>14, <1>15, <1>20, <2>1, <2>2, <2>3
    <2>5. \E r, k, pr : create_submodule(r, k, pr) /\ k # "lib" /\ Hung(r, pr)
        BY <1>17, <1>20, CreatedShape
    <2> QED
        BY <2>4, <2>5 DEF DiscoveryShape
<1>21. CASE Return(Walking(rest, top.mod, i)) /\ UNCHANGED <<moduleVars, fileEntities>>
    <2>1. PICK g : g = [mod |-> top.mod, items |-> Items(i)]
        OBVIOUS
    <2>2. Walked(g)
        BY <1>7, <1>16, <1>21, <2>1 DEF Walked, moduleVars
    <2>3. ToSet(Append(f, g)) = ToSet(f) \cup {g}
        BY <1>11, AppendAdds
    <2>4. \A fr : IsFrame(fr)' => Walked(fr)
        BY <1>12, <1>14, <1>15, <1>21, <2>1, <2>2, <2>3
    <2> QED
        BY <1>21, <2>4 DEF DiscoveryShape
<1>22. CASE Return(rest) /\ UNCHANGED <<moduleVars, fileEntities>>
    BY <1>12, <1>13, <1>15, <1>22 DEF DiscoveryShape
<1> QED
    BY <1>18, <1>19, <1>20, <1>21, <1>22

LEMMA DiscoveryIsShaped ==
    ASSUME Stack, DiscoveryNext
    PROVE  DiscoveryShape
<1>1. CASE HandleArgument
    <2>1. IsSeq(<<>>) /\ ToSet(<<>>) = {} /\ handle_path(Head(argsLeft), <<>>)
        BY <1>1, EmptyIsSeq DEF HandleArgument, ToSet
    <2> QED
        BY <2>1, HandlePathShape
<1>2. ASSUME calls # <<>>
      PROVE  /\ call \in ToSet(calls) /\ IsSeq(call.folders)
             /\ IsSeq(Front(calls)) /\ ToSet(Front(calls)) \subseteq ToSet(calls)
    BY <1>2, FrontElements DEF Stack, call
<1>3. ASSUME NEW c, calls # <<>>, Return(c), ToSet(c.folders) \subseteq ToSet(call.folders)
      PROVE  \A fr : IsFrame(fr)' => Walked(fr)
    <2>1. \A fr : IsFrame(fr)' => IsFrame(fr) \/ fr \in ToSet(c.folders)
        BY <1>2, <1>3, PushedFrames DEF Return
    <2>2. \A fr \in ToSet(c.folders) : IsFrame(fr)
        BY <1>2, <1>3 DEF IsFrame
    <2> QED
        BY <2>1, <2>2, SameFrame
<1>4. CASE LeaveFolder
    <2>1. PICK c : c = WithFolders(call, Front(call.folders))
        OBVIOUS
    <2>2. calls # <<>> /\ call.folders # <<>> /\ Return(c) /\ UNCHANGED moduleVars
        BY <1>4, <2>1 DEF LeaveFolder
    <2>3. c.folders = Front(call.folders)
        BY <2>1 DEF WithFolders, HandleCall
    <2>4. ToSet(c.folders) \subseteq ToSet(call.folders)
        BY <1>2, <2>2, <2>3, FrontElements
    <2> QED
        BY <1>3, <2>2, <2>4 DEF DiscoveryShape
<1>5. CASE FollowBring
    <2>1. PICK c : c = HandleCall(<<>>, Tail(call.brought), call.members)
        OBVIOUS
    <2>2. calls # <<>> /\ handle_path(Head(call.brought), Append(Front(calls), c)) /\ call.folders = <<>>
        BY <1>5, <2>1 DEF FollowBring
    <2>3. call \in ToSet(calls) /\ c.folders = <<>>
        BY <1>2, <2>1, <2>2 DEF HandleCall
    <2>4. PICK below : below = Append(Front(calls), c)
        OBVIOUS
    <2>5. IsSeq(below) /\ ToSet(below) = ToSet(Front(calls)) \cup {c}
        BY <1>2, <2>2, <2>4, AppendAny, AppendAdds
    <2>6. \A x \in ToSet(below) : x \in ToSet(calls) \/ x.folders = <<>>
        BY <1>2, <2>2, <2>3, <2>5
    <2> QED
        BY <2>2, <2>4, <2>5, <2>6, HandlePathShape
<1>6. CASE RemoveMember
    <2>1. PICK c : c = HandleCall(<<>>, <<>>, Tail(call.members))
        OBVIOUS
    <2>2. calls # <<>> /\ Return(c) /\ UNCHANGED moduleVars
        BY <1>6, <2>1 DEF RemoveMember
    <2>3. ToSet(c.folders) = {}
        BY <2>1 DEF HandleCall, ToSet
    <2> QED
        BY <1>3, <2>2, <2>3 DEF DiscoveryShape
<1>7. CASE LeaveCall
    <2>1. calls' = Front(calls) /\ calls # <<>> /\ UNCHANGED moduleVars
        BY <1>7 DEF LeaveCall
    <2>2. \A fr : IsFrame(fr)' => IsFrame(fr)
        BY <1>2, <2>1 DEF IsFrame
    <2> QED
        BY <2>1, <2>2, SameFrame DEF DiscoveryShape
<1> QED
    BY <1>1, <1>4, <1>5, <1>6, <1>7, WalkShape DEF DiscoveryNext

LEMMA FramesAreOfModules ==
    ASSUME Walks, NEW fr, IsFrame(fr)
    PROVE  fr.mod \in ModuleId /\ fr.items \subseteq Path
<1>1. PICK B, M : calls \in Seq([folders : Seq(Folder), brought : B, members : M])
    BY DEF Walks
<1> DEFINE F == [folders : Seq(Folder), brought : B, members : M]
<1>2. PICK c \in ToSet(calls) : fr \in ToSet(c.folders)
    BY DEF IsFrame
<1>3. calls \in Seq(F)
    BY <1>1
<1>4. c \in F
    <2> HIDE DEF F
    <2> QED
        BY <1>2, <1>3, ElementsOfSeq
<1>5. c.folders \in Seq(Folder)
    BY <1>4
<1>6. fr \in Folder
    BY <1>2, <1>5, ElementsOfSeq
<1> QED
    BY <1>6 DEF Folder

HeldInv ==
    /\ Held
    /\ pass \in {0, FsBrings} => \A m \in ModuleId : allModules[m].kind # "lib"
    /\ \A fr : IsFrame(fr) => \A i \in fr.items : From(PathOf(fr.mod), i)
    /\ Descent
    /\ outcome = "overflow" => Cycle

(* A module that is made keeps what is held.                               *)
LEMMA CreatedHeld ==
    ASSUME Tree, Held, UNCHANGED project, NEW p, NEW kind, NEW par, create_submodule(p, kind, par),
           par # 0 => /\ par \in ModuleId /\ allModules[par].kind # "lib"
                      /\ kind # "lib" => From(PathOf(par), p)
    PROVE  /\ Held'
           /\ ModuleId \subseteq ModuleId'
           /\ \A m \in ModuleId : parent'[m] = parent[m] /\ PathOf(m)' = PathOf(m)
           /\ \A m \in ModuleId : allModules'[m] = allModules[m]
           /\ \E n : /\ n = NewModule /\ PathOf(n)' = p /\ allModules'[n].kind = kind
                    /\ \A m \in ModuleId' : m \in ModuleId \/ m = n
<1>1. PICK n : n = NewModule
    OBVIOUS
<1>2. /\ Len(allModules) \in Nat /\ n = Len(allModules) + 1
      /\ ModuleId = 1 .. Len(allModules) /\ ModuleId' = 1 .. n
      /\ \A m \in ModuleId : allModules'[m] = allModules[m]
      /\ allModules'[n].path = p /\ allModules'[n].kind = kind
    BY <1>1, SeqOfIsSeq, ModulesGrow DEF Tree, NewModule
<1>3. \A m \in ModuleId' : m \in ModuleId \/ m = n
    BY <1>2
<1>4. ModuleId \subseteq ModuleId' /\ n \in ModuleId'
    BY <1>2
<1>5. parent' = Append(parent, par) /\ IsSeq(parent) /\ Len(parent) = Len(allModules)
    BY SeqOfIsSeq DEF Tree, create_submodule
<1>6. parent'[n] = par /\ \A m \in ModuleId : parent'[m] = parent[m]
    BY <1>2, <1>5, AppendAny
<1>7. \A m \in ModuleId : parent[m] \in ModuleId \cup {0}
    BY <1>2, <1>5, SeqFacts DEF Tree
<1>8. \A m \in ModuleId : PathOf(m)' = PathOf(m)
    BY <1>2 DEF PathOf
<1>9. PathOf(n)' = p
    BY <1>1, <1>2 DEF PathOf
<1>10. \A a, b : From(a, b)' = From(a, b)
    BY FromStays
<1>11. ASSUME NEW m \in ModuleId', parent'[m] # 0
       PROVE  /\ allModules'[parent'[m]].kind # "lib"
              /\ allModules'[m].kind # "lib" => From(PathOf(parent[m]), PathOf(m))'
    <2>1. CASE m \in ModuleId
        <3>1. PICK q : q = parent[m] /\ q = parent'[m] /\ q \in ModuleId
            BY <1>6, <1>7, <1>11, <2>1
        <3>2. allModules[q].kind # "lib" /\ (allModules[m].kind # "lib" => From(PathOf(q), PathOf(m)))
            BY <1>6, <1>11, <2>1, <3>1 DEF Held
        <3>3. allModules[m].kind # "lib" => From(PathOf(q), PathOf(m))'
            <4>1. PICK a, b : a = PathOf(q) /\ b = PathOf(m)
                OBVIOUS
            <4>2. a = PathOf(q)' /\ b = PathOf(m)'
                BY <1>8, <2>1, <3>1, <4>1
            <4>3. From(a, b)' = From(a, b)
                BY <1>10
            <4> QED
                BY <3>2, <4>1, <4>2, <4>3
        <3> QED
            BY <1>2, <2>1, <3>1, <3>2, <3>3
    <2>2. CASE m = n
        <3>1. par \in ModuleId /\ allModules'[par] = allModules[par] /\ allModules'[par].kind # "lib"
            BY <1>2, <1>6, <1>11, <2>2
        <3>2. kind # "lib" => From(PathOf(par), p)
            BY <1>6, <1>11, <2>2
        <3>3. kind # "lib" => From(PathOf(parent[n]), PathOf(n))'
            <4>1. PICK a : a = PathOf(par)
                OBVIOUS
            <4>2. a = PathOf(par)' /\ par = parent'[n]
                BY <1>6, <1>8, <3>1, <4>1
            <4>3. From(a, p)' = From(a, p)
                BY <1>10
            <4> QED
                BY <1>9, <3>2, <4>1, <4>2, <4>3
        <3> QED
            BY <1>2, <1>6, <2>2, <3>1, <3>3
    <2> QED
        BY <1>3, <2>1, <2>2
<1>12. Held'
    BY <1>11 DEF Held
<1> QED
    BY <1>1, <1>2, <1>3, <1>4, <1>6, <1>8, <1>9, <1>12

(* Visits of the same modules, or fewer, go down the tree as long as       *)
(* parents stay.                                                           *)
LEMMA DescentStays ==
    ASSUME Descent, visits \in Seq(Visit), DOMAIN visits' \subseteq DOMAIN visits,
           \A k \in DOMAIN visits' : visits'[k].mod = visits[k].mod,
           \A m \in ModuleId : parent[m] # 0 => parent'[m] = parent[m]
    PROVE  Descent'
<1> SUFFICES ASSUME NEW k \in DOMAIN visits', k + 1 \in DOMAIN visits'
             PROVE  parent'[visits'[k + 1].mod] = visits'[k].mod
    BY DEF Descent
<1>1. visits[k] \in Visit /\ visits[k + 1] \in Visit
    BY LenProperties
<1>2. visits[k].mod \in ModuleId /\ visits[k + 1].mod \in ModuleId
    BY <1>1 DEF Visit
<1>3. visits[k].mod # 0
    BY <1>2 DEF ModuleId
<1>4. parent[visits[k + 1].mod] = visits[k].mod
    BY DEF Descent
<1> QED
    BY <1>2, <1>3, <1>4

(* And the frames stay as they are once discovery is over.                 *)
LEMMA FramesStay ==
    ASSUME Walks, UNCHANGED <<project, calls>>, NEW fr, IsFrame(fr)',
           \A m \in ModuleId : PathOf(m)' = PathOf(m),
           \A i \in fr.items : From(PathOf(fr.mod), i)
    PROVE  \A i \in fr.items : From(PathOf(fr.mod), i)'
<1>1. IsFrame(fr)
    BY DEF IsFrame
<1>2. PICK a : a = PathOf(fr.mod)
    OBVIOUS
<1>3. a = PathOf(fr.mod)'
    BY <1>1, <1>2, FramesAreOfModules
<1>4. \A i : From(a, i)' = From(a, i)
    BY FromStays
<1> QED
    BY <1>2, <1>3, <1>4

(* The visit under way replaced by one of the same module.                 *)
LEMMA SameVisits ==
    ASSUME visits \in Seq(Visit), visits # <<>>, NEW v, v.mod = at.mod
    PROVE  LET w == Append(Front(visits), v)
           IN  DOMAIN w = DOMAIN visits /\ \A k \in DOMAIN w : w[k].mod = visits[k].mod
<1> DEFINE w == Append(Front(visits), v)
<1>1. /\ DOMAIN w = 1 .. Len(visits) /\ w[Len(visits)] = v
      /\ \A k \in 1 .. Len(visits) - 1 : w[k] = visits[k]
    BY VisitReplaced
<1> HIDE DEF w
<1>2. /\ DOMAIN visits = 1 .. Len(visits) /\ v.mod = visits[Len(visits)].mod
      /\ \A k \in 1 .. Len(visits) : k \in 1 .. Len(visits) - 1 \/ k = Len(visits)
    BY VisitsEnd
<1>3. DOMAIN w = DOMAIN visits /\ \A k \in DOMAIN w : w[k].mod = visits[k].mod
    BY <1>1, <1>2
<1> QED
    BY <1>3 DEF w

(* Discovery hangs a module only where its path comes from.                *)
LEMMA DiscoverHeld ==
    ASSUME TreeInv, PathsInv, EffectInv, HeldInv, Discover
    PROVE  HeldInv'
<1>1. /\ pass = 0 /\ outcome = "running" /\ visits = <<>> /\ DiscoveryNext
      /\ UNCHANGED <<pass, visits, outcome>>
    BY DEF Discover, passVars, EffectInv
<1>2. UNCHANGED project
    BY Creations DEF PathsInv, Next
<1>3. DiscoveryShape
    BY <1>1, WalksAreStacks, DiscoveryIsShaped DEF TreeInv
<1>4. /\ Tree /\ Walks /\ Held /\ \A m \in ModuleId : allModules[m].kind # "lib"
      /\ \A fr : IsFrame(fr) => \A i \in fr.items : From(PathOf(fr.mod), i)
    BY <1>1 DEF TreeInv, HeldInv
<1>5. \A fr : IsFrame(fr) => fr.mod \in ModuleId /\ fr.items \subseteq Path
    BY <1>4, FramesAreOfModules
<1>6. /\ Held' /\ \A m \in ModuleId' : allModules'[m].kind # "lib"
      /\ \A m \in ModuleId : PathOf(m)' = PathOf(m)
    <2>1. CASE UNCHANGED moduleVars
        <3>1. UNCHANGED <<allModules, parent, ModuleId>> /\ \A a, b : From(a, b)' = From(a, b)
            BY <1>2, <2>1, FromStays DEF moduleVars, ModuleId
        <3> QED
            BY <1>4, <3>1 DEF Held, PathOf
    <2>2. CASE \E p, kind, par : create_submodule(p, kind, par) /\ kind # "lib" /\ Hung(p, par)
        <3>1. PICK p, kind, par : create_submodule(p, kind, par) /\ kind # "lib" /\ Hung(p, par)
            BY <2>2
        <3>2. ASSUME par # 0
              PROVE  par \in ModuleId /\ allModules[par].kind # "lib" /\ From(PathOf(par), p)
            <4>1. PICK g, i : /\ IsFrame(g) /\ par = g.mod /\ i \in g.items
                              /\ p = i \/ (p \in Path /\ project.above[p] = i)
                BY <3>1, <3>2 DEF Hung
            <4>2. par \in ModuleId /\ From(PathOf(par), i)
                BY <1>4, <1>5, <4>1
            <4>3. CASE p = i
                BY <1>4, <4>2, <4>3
            <4>4. CASE p \in Path /\ project.above[p] = i
                <5>1. Holds(i, p)
                    BY <4>4 DEF Holds
                <5> QED
                    BY <1>4, <4>2, <4>4, <5>1, FromGoesOn
            <4> QED
                BY <4>1, <4>3, <4>4
        <3>3. /\ Held' /\ \A m \in ModuleId : allModules'[m] = allModules[m] /\ PathOf(m)' = PathOf(m)
              /\ \E n : allModules'[n].kind = kind /\ \A m \in ModuleId' : m \in ModuleId \/ m = n
            BY <1>2, <1>4, <3>1, <3>2, CreatedHeld
        <3> QED
            BY <1>4, <3>1, <3>3
    <2> QED
        BY <1>3, <2>1, <2>2 DEF DiscoveryShape
<1>7. ASSUME NEW fr, IsFrame(fr)', NEW i \in fr.items
      PROVE  From(PathOf(fr.mod), i)'
    <2>0. \A a, b : From(a, b)' = From(a, b)
        BY <1>2, FromStays
    <2>1. CASE \E g : IsFrame(g) /\ fr.mod = g.mod /\ fr.items \subseteq g.items
        <3>1. PICK a : a = PathOf(fr.mod) /\ From(a, i) /\ fr.mod \in ModuleId
            BY <1>4, <1>5, <1>7, <2>1
        <3>2. a = PathOf(fr.mod)'
            BY <1>6, <3>1
        <3>3. From(a, i)'
            BY <2>0, <3>1
        <3> QED
            BY <3>2, <3>3
    <2>2. CASE \E g : IsFrame(g) /\ fr.mod = g.mod /\ \E j \in g.items : fr.items = Items(j)
        <3>1. PICK g, j : IsFrame(g) /\ fr.mod = g.mod /\ j \in g.items /\ fr.items = Items(j)
            BY <2>2
        <3>2. PICK a : a = PathOf(fr.mod) /\ From(a, j) /\ fr.mod \in ModuleId
            BY <1>4, <1>5, <3>1
        <3>3. i \in Path /\ Holds(j, i)
            BY <1>7, <3>1 DEF Items, Holds
        <3>4. From(a, i)
            BY <3>2, <3>3, FromGoesOn
        <3>5. a = PathOf(fr.mod)'
            BY <1>6, <3>2
        <3>6. From(a, i)'
            BY <2>0, <3>4
        <3> QED
            BY <3>5, <3>6
    <2>3. CASE fr.mod = NewModule /\ \E p, par : create_submodule(p, "folder", par) /\ fr.items = Items(p)
        <3>1. PICK n, p, par : n = NewModule /\ fr.mod = n /\ create_submodule(p, "folder", par) /\ fr.items = Items(p)
            BY <2>3
        <3>2. p = PathOf(fr.mod)'
            <4>1. IsSeq(allModules) /\ n = Len(allModules) + 1
                BY <3>1 DEF PathsInv, NewModule
            <4>2. allModules'[n].path = p
                BY <3>1, <4>1, ModulesGrow
            <4> QED
                BY <3>1, <4>2 DEF PathOf
        <3>3. i \in Path /\ Holds(p, i)
            BY <1>7, <3>1 DEF Items, Holds
        <3>4. From(p, i)
            BY <3>3, HeldIsFrom
        <3>5. From(p, i)'
            BY <2>0, <3>4
        <3> QED
            BY <3>2, <3>5
    <2>4. Walked(fr)
        BY <1>3, <1>7 DEF DiscoveryShape
    <2> QED
        BY <2>1, <2>2, <2>3, <2>4 DEF Walked
<1>8. Descent'
    BY <1>1 DEF Descent
<1> QED
    BY <1>1, <1>6, <1>7, <1>8 DEF HeldInv

(* The node at which pass 1 stops is one of the module.                    *)
LEMMA NodeUnderWay ==
    ASSUME project \in Projects, pass = FsBrings, ~NodesDone, at.node \in Nat \ {0}
    PROVE  at.node \in DOMAIN NodesOf(at.mod)
<1>1. ~(at.node > Len(NodesOf(at.mod)))
    BY DEF NodesDone, FsBrings, CreateModules
<1>2. Len(NodesOf(at.mod)) \in Nat /\ DOMAIN NodesOf(at.mod) = 1 .. Len(NodesOf(at.mod))
    BY NodesAreBrings, SeqFacts
<1>3. PICK n, l : n = at.node /\ l = Len(NodesOf(at.mod))
    OBVIOUS
<1>4. n \in Nat \ {0} /\ l \in Nat /\ ~(n > l)
    BY <1>1, <1>2, <1>3
<1>5. n \in 1 .. l
    BY <1>4
<1> QED
    BY <1>2, <1>3, <1>5

(* The steps that leave the modules and their parents.                     *)
LEMMA PassHeld ==
    ASSUME HeldInv, pass' \in {0, FsBrings} => pass \in {0, FsBrings}, UNCHANGED discoveryVars, Descent',
           outcome' = "overflow" => Cycle
    PROVE  HeldInv'
<1>1. UNCHANGED <<project, allModules, parent, calls, ModuleId>>
    BY DEF discoveryVars, moduleVars, ModuleId
<1>2. \A a, b : From(a, b)' = From(a, b)
    BY <1>1, FromStays
<1>3. \A fr : /\ IsFrame(fr)' = IsFrame(fr)
              /\ \A m : PathOf(m)' = PathOf(m)
    BY <1>1 DEF IsFrame, PathOf
<1>4. Held' = Held /\ Cycle' = Cycle
    BY <1>1, <1>2 DEF Held, Cycle, Holds, PathOf
<1>5. ASSUME NEW fr, IsFrame(fr)', NEW i \in fr.items
      PROVE  From(PathOf(fr.mod), i)'
    <2>1. PICK a : a = PathOf(fr.mod)
        OBVIOUS
    <2>2. From(a, i)
        BY <1>3, <1>5, <2>1 DEF HeldInv
    <2>3. From(a, i)' /\ a = PathOf(fr.mod)'
        BY <1>2, <1>3, <2>1, <2>2
    <2> QED
        BY <2>3
<1> QED
    BY <1>1, <1>4, <1>5 DEF HeldInv

LEMMA HandleBringHeld ==
    ASSUME TreeInv, PathsInv, EffectInv, HeldInv, HandleBring
    PROVE  HeldInv'
<1>0. PICK a, n, b, m :
          /\ a = at.mod /\ n = at.node /\ b = NodesOf(a)[n]
          /\ m = IF IsDir(b.path) THEN get_folder_module(b.path) ELSE get_file_module(b.path)
    OBVIOUS
<1>1. /\ outcome = "running" /\ pass = FsBrings /\ visits # <<>> /\ ~NodesDone /\ NextNode
      /\ UNCHANGED <<project, allModules, fileEntities, argsLeft, calls, pass, next, visited>>
      /\ IF m = 0
         THEN outcome' = "notFound" /\ UNCHANGED <<parent, submodules, broughtModules>>
         ELSE IF b.member THEN BringMember(m) ELSE BringModule(m)
    BY <1>0 DEF HandleBring
<1>2. visits \in Seq(Visit)
    BY DEF TreeInv, Visit
<1>3. /\ a \in ModuleId /\ n \in Nat \ {0} /\ \A x \in ModuleId : allModules[x].kind # "lib"
    BY <1>0, <1>1, <1>2, TopVisit DEF HeldInv
<1>4. /\ UNCHANGED <<ModuleId, allModules>> /\ \A x : PathOf(x)' = PathOf(x)
      /\ \A x, y : From(x, y)' = From(x, y)
    BY <1>1, FromStays DEF ModuleId, PathOf
<1>5. \/ UNCHANGED parent
      \/ /\ m # 0 /\ b.member /\ parent[m] = 0 /\ parent' = [parent EXCEPT ![m] = a]
    BY <1>0, <1>1 DEF BringMember, BringModule
<1>6. IsSeq(parent) /\ DOMAIN parent = ModuleId /\ \A x \in ModuleId : parent[x] \in ModuleId \cup {0}
    BY SeqOfIsSeq, SeqFacts DEF TreeInv, Tree, ModuleId
<1>7. outcome' # "overflow"
    BY <1>1 DEF BringMember, BringModule
<1>8. \A x \in ModuleId : parent[x] # 0 => parent'[x] = parent[x]
    BY <1>5, <1>6
<1>9. Held'
    <2> SUFFICES ASSUME NEW x \in ModuleId, parent'[x] # 0
                 PROVE  /\ allModules'[parent'[x]].kind # "lib"
                        /\ From(PathOf(parent[x]), PathOf(x))'
        BY <1>4 DEF Held
    <2>1. PICK p : p = parent'[x]
        OBVIOUS
    <2>2. p \in ModuleId /\ From(PathOf(p), PathOf(x))
        <3>1. CASE parent[x] # 0
            BY <1>3, <1>6, <1>8, <2>1, <3>1 DEF HeldInv, Held
        <3>2. CASE parent[x] = 0
            <4>1. m # 0 /\ b.member /\ x = m /\ p = a
                BY <1>5, <1>6, <2>1, <3>2
            <4>2. PathOf(m) = b.path
                BY <1>0, <4>1, FirstModulePath DEF TreeInv, get_folder_module, get_file_module, PathOf
            <4>3. b \in ToSet(project.brings) /\ b.from = PathOf(a)
                <5>1. n \in DOMAIN NodesOf(a)
                    BY <1>0, <1>1, <1>3, NodeUnderWay DEF PathsInv
                <5> QED
                    BY <1>0, <5>1, NodesAreBrings DEF PathsInv, PathOf
            <4>4. b.path \in Path
                <5>1. project.brings \in Seq(Bring)
                    BY ProjectsAssumption DEF PathsInv, ProjectType
                <5>2. b \in Bring
                    BY <4>3, <5>1, ElementsOfSeq
                <5> QED
                    BY <5>2 DEF Bring
            <4>5. Holds(PathOf(a), b.path)
                BY <4>1, <4>3 DEF Holds
            <4> QED
                BY <1>3, <4>1, <4>2, <4>4, <4>5, HeldIsFrom
        <3> QED
            BY <3>1, <3>2
    <2>3. PICK y, z : y = PathOf(p) /\ z = PathOf(x)
        OBVIOUS
    <2>4. y = PathOf(parent[x])' /\ z = PathOf(x)' /\ From(y, z)'
        BY <1>4, <2>1, <2>2, <2>3
    <2> QED
        BY <1>3, <1>4, <2>1, <2>2, <2>4
<1>10. Descent'
    <2>1. PICK v : visits' = Append(Front(visits), v) /\ v.mod = at.mod
        BY <1>1 DEF NextNode
    <2>2. DOMAIN visits' = DOMAIN visits /\ \A k \in DOMAIN visits' : visits'[k].mod = visits[k].mod
        BY <1>1, <1>2, <2>1, SameVisits
    <2> QED
        BY <1>2, <1>8, <2>2, DescentStays DEF HeldInv
<1>11. ASSUME NEW fr, IsFrame(fr)'
       PROVE  \A i \in fr.items : From(PathOf(fr.mod), i)'
    <2>1. IsFrame(fr)
        BY <1>1, <1>11 DEF IsFrame
    <2> QED
        BY <1>1, <1>4, <1>11, <2>1, FramesStay DEF HeldInv, TreeInv
<1> QED
    BY <1>3, <1>4, <1>7, <1>9, <1>10, <1>11 DEF HeldInv

LEMMA CreateLibHeld ==
    ASSUME TreeInv, HeldInv, CreateLib
    PROVE  HeldInv'
<1>0. PICK a, p : a = at.mod /\ p = allModules[a].path
    OBVIOUS
<1>1. /\ outcome = "running" /\ pass = CreateModules /\ visits # <<>> /\ ~NodesDone /\ NextNode
      /\ UNCHANGED <<project, fileEntities, argsLeft, calls, pass, next, visited, outcome>>
      /\ create_submodule(p, "lib", a)
    BY <1>0 DEF CreateLib
<1>2. visits \in Seq(Visit) /\ Tree /\ Walks
    BY DEF TreeInv, Visit
<1>3. a \in ModuleId /\ allModules[a].kind # "lib"
    <2>1. HasLib(a)
        BY <1>0, <1>1 DEF NodesDone, FsBrings, CreateModules
    <2> QED
        BY <1>0, <1>1, <1>2, <2>1, TopVisit DEF HasLib
<1>4. /\ Held' /\ ModuleId \subseteq ModuleId'
      /\ \A m \in ModuleId : parent'[m] = parent[m] /\ PathOf(m)' = PathOf(m)
    BY <1>1, <1>2, <1>3, CreatedHeld DEF HeldInv
<1>5. Descent'
    <2>1. PICK v : visits' = Append(Front(visits), v) /\ v.mod = at.mod
        BY <1>1 DEF NextNode
    <2>2. DOMAIN visits' = DOMAIN visits /\ \A k \in DOMAIN visits' : visits'[k].mod = visits[k].mod
        BY <1>1, <1>2, <2>1, SameVisits
    <2> QED
        BY <1>2, <1>4, <2>2, DescentStays DEF HeldInv
<1>6. ASSUME NEW fr, IsFrame(fr)'
      PROVE  \A i \in fr.items : From(PathOf(fr.mod), i)'
    <2>1. IsFrame(fr)
        BY <1>1, <1>6 DEF IsFrame
    <2> QED
        BY <1>1, <1>2, <1>4, <1>6, <2>1, FramesStay DEF HeldInv
<1>7. pass' \notin {0, FsBrings} /\ outcome' # "overflow"
    BY <1>1 DEF CreateModules, FsBrings
<1> QED
    BY <1>4, <1>5, <1>6, <1>7 DEF HeldInv

LEMMA VisitSubmoduleHeld ==
    ASSUME TreeInv, HeldInv, VisitSubmodule
    PROVE  HeldInv'
<1>0. PICK v, below, m : /\ v = [mod |-> at.mod, node |-> at.node, sub |-> at.sub + 1]
                         /\ below = Append(Front(visits), v) /\ m = submodules[at.mod][at.sub]
    OBVIOUS
<1>1. /\ outcome = "running" /\ visits # <<>> /\ Enter(m, below)
      /\ UNCHANGED <<discoveryVars, pass, broughtModules>>
      /\ at.sub <= Len(submodules[at.mod])
    BY <1>0 DEF VisitSubmodule
<1>2. visits \in Seq(Visit) /\ at.mod \in ModuleId /\ at.sub \in Nat \ {0}
    BY <1>1, TopVisit DEF TreeInv, Visit
<1>3. m \in ModuleId /\ parent[m] = at.mod
    <2>1. submodules[at.mod] \in Seq(ModuleId)
        BY <1>2 DEF TreeInv, Tree, ModuleId
    <2>2. at.sub \in DOMAIN submodules[at.mod]
        BY <1>1, <1>2, <2>1
    <2>3. m \in ToSet(submodules[at.mod])
        BY <1>0, <2>2 DEF ToSet
    <2> QED
        BY <1>2, <2>3 DEF TreeInv, Tree, TreeConsistent
<1>4. UNCHANGED <<ModuleId, parent>>
    BY <1>1 DEF discoveryVars, moduleVars, ModuleId
<1>5. v.mod = at.mod
    BY <1>0
<1>6. DOMAIN below = DOMAIN visits /\ \A k \in DOMAIN below : below[k].mod = visits[k].mod
    BY <1>0, <1>1, <1>2, <1>5, SameVisits
<1>7. CASE visits' = below /\ UNCHANGED <<visited, outcome>>
    <2>1. Descent'
        BY <1>2, <1>4, <1>6, <1>7, DescentStays DEF HeldInv
    <2> QED
        BY <1>1, <1>7, <2>1, PassHeld
<1>8. CASE (\E i \in DOMAIN visits : visits[i].mod = m) /\ UNCHANGED <<visits, visited>>
    <2>1. Cycle
        BY <1>1, <1>2, <1>3, <1>8, DescentCloses DEF HeldInv
    <2>2. Descent'
        BY <1>4, <1>8 DEF HeldInv, Descent
    <2> QED
        BY <1>1, <2>1, <2>2, PassHeld
<1>9. CASE visits' = Append(below, [mod |-> m, node |-> 1, sub |-> 1]) /\ UNCHANGED outcome
    <2>1. PICK w : w = [mod |-> m, node |-> 1, sub |-> 1]
        OBVIOUS
    <2>2. PICK n : n = Len(visits)
        OBVIOUS
    <2>3. /\ IsSeq(below) /\ DOMAIN visits = 1 .. n /\ at = visits[n] /\ n \in Nat \ {0} /\ Len(below) = n
        <3>1. IsSeq(below) /\ DOMAIN visits = 1 .. n /\ at = visits[n] /\ n \in Nat \ {0}
            BY <1>0, <1>1, <1>2, <2>2, VisitReplaced, VisitsEnd
        <3> QED
            BY <1>6, <3>1, SeqFacts, LengthsAgree
    <2>4. /\ DOMAIN visits' = 1 .. n + 1 /\ visits'[n + 1] = w
          /\ \A k \in 1 .. n : visits'[k] = below[k]
        BY <1>9, <2>1, <2>3, AppendAny
    <2>5. Descent'
        <3> SUFFICES ASSUME NEW k \in 1 .. n + 1, k + 1 \in 1 .. n + 1
                     PROVE  parent[visits'[k + 1].mod] = visits'[k].mod
            BY <1>4, <2>4 DEF Descent
        <3>1. k \in 1 .. n /\ (k = n \/ k + 1 \in 1 .. n)
            BY <2>3
        <3>2. CASE k = n
            <4>1. visits'[k + 1].mod = m /\ visits'[k].mod = at.mod
                BY <1>6, <2>1, <2>3, <2>4, <3>1, <3>2
            <4> QED
                BY <1>3, <4>1
        <3>3. CASE k + 1 \in 1 .. n
            <4>1. visits'[k + 1].mod = visits[k + 1].mod /\ visits'[k].mod = visits[k].mod
                BY <1>6, <2>3, <2>4, <3>1, <3>3
            <4>2. parent[visits[k + 1].mod] = visits[k].mod
                BY <2>3, <3>1, <3>3 DEF HeldInv, Descent
            <4> QED
                BY <4>1, <4>2
        <3> QED
            BY <3>1, <3>2, <3>3
    <2> QED
        BY <1>1, <1>9, <2>5, PassHeld
<1> QED
    BY <1>1, <1>7, <1>8, <1>9 DEF Enter

LEMMA HeldStep ==
    ASSUME TreeInv, PathsInv, EffectInv, HeldInv, [Next]_vars
    PROVE  HeldInv'
<1>1. CASE UNCHANGED vars
    <2>1. UNCHANGED <<discoveryVars, pass, outcome>> /\ Descent' /\ (outcome' = "overflow" => Cycle)
        BY <1>1 DEF vars, passVars, discoveryVars, moduleVars, HeldInv, Descent
    <2> QED
        BY <2>1, PassHeld
<1>2. CASE StartPass
    <2>1. /\ UNCHANGED <<discoveryVars, visits>> /\ outcome' # "overflow"
          /\ pass' = pass \/ pass' = pass + 1
        BY <1>2 DEF StartPass
    <2>2. pass' \in {0, FsBrings} => pass \in {0, FsBrings}
        <3>1. \A x \in 0 .. 5 : x + 1 \in {0, 1} => x = 0
            OBVIOUS
        <3> QED
            BY <2>1, <3>1 DEF EffectInv, FsBrings, SetupFiles
    <2>3. Descent'
        BY <2>1 DEF discoveryVars, moduleVars, HeldInv, Descent
    <2> QED
        BY <2>1, <2>2, <2>3, PassHeld
<1>3. CASE VisitEntity
    <2>1. /\ visits = <<>> /\ outcome = "running" /\ Enter(fileEntities[next], <<>>)
          /\ UNCHANGED <<discoveryVars, pass>>
        BY <1>3 DEF VisitEntity
    <2>2. DOMAIN visits = {}
        BY <2>1
    <2>3. UNCHANGED outcome /\ (visits' = <<>> \/ \E w : visits' = Append(<<>>, w))
        BY <2>1, <2>2 DEF Enter
    <2>4. DOMAIN visits' \subseteq {1}
        BY <2>3, EmptyIsSeq, AppendAny
    <2>5. Descent'
        <3>1. \A k \in DOMAIN visits' : k + 1 \notin DOMAIN visits'
            BY <2>4
        <3> QED
            BY <3>1 DEF Descent
    <2> QED
        BY <2>1, <2>3, <2>5, PassHeld
<1>4. CASE LeaveModule
    <2>1. /\ visits # <<>> /\ visits' = Front(visits) /\ outcome = "running" /\ visits \in Seq(Visit)
          /\ UNCHANGED <<discoveryVars, pass, outcome>>
        BY <1>4 DEF LeaveModule, TreeInv, Visit
    <2>2. DOMAIN visits' \subseteq DOMAIN visits /\ \A k \in DOMAIN visits' : visits'[k].mod = visits[k].mod
        <3>1. /\ DOMAIN visits' = 1 .. Len(visits) - 1 /\ DOMAIN visits = 1 .. Len(visits) /\ Len(visits) \in Nat
              /\ \A k \in 1 .. Len(visits) - 1 : visits'[k] = visits[k]
            BY <2>1, VisitsEnd
        <3> QED
            BY <3>1
    <2>3. Descent'
        BY <2>1, <2>2, DescentStays DEF HeldInv, discoveryVars, moduleVars
    <2> QED
        BY <2>1, <2>3, PassHeld
<1>5. CASE Discover \/ HandleBring \/ CreateLib \/ VisitSubmodule
    BY <1>5, DiscoverHeld, HandleBringHeld, CreateLibHeld, VisitSubmoduleHeld
<1>6. CASE Ended
    BY <1>1, <1>6 DEF Ended
<1> QED
    BY <1>1, <1>2, <1>3, <1>4, <1>5, <1>6 DEF Next

LEMMA HeldInvariant == Spec => []HeldInv
<1>1. Init => HeldInv
    <2> SUFFICES ASSUME Init PROVE HeldInv
        OBVIOUS
    <2>1. allModules = <<>> /\ calls = <<>> /\ visits = <<>> /\ outcome = "running"
        BY DEF Init, DiscoveryInit
    <2>2. ModuleId = {} /\ ToSet(calls) = {} /\ DOMAIN visits = {}
        BY <2>1 DEF ModuleId, ToSet
    <2> QED
        BY <2>1, <2>2 DEF HeldInv, Held, IsFrame, Descent
<1>2. TreeInv /\ PathsInv /\ EffectInv /\ HeldInv /\ [Next]_vars => HeldInv'
    BY HeldStep
<1> QED
    BY <1>1, <1>2, TreeInvariant, PathsInvariant, EffectInvariant, PTL DEF Spec

(* The pass that writes the LLVM modules goes round for ever only in a     *)
(* tree in which some path holds itself, by being in a directory or by     *)
(* being a member that a file brings: discovery alone never makes one.     *)
THEOREM OnlyCyclesOverflow == Spec => []OverflowIsMemberCycle
<1>1. HeldInv => OverflowIsMemberCycle
    BY DEF HeldInv, OverflowIsMemberCycle, Cycle
<1> QED
    BY <1>1, HeldInvariant, PTL

-----------------------------------------------------------------------------
(* What a bring names, once discovery has found it: a module of its own,   *)
(* or the lib file of the directory, which is made a module in its place.  *)
Found(p) ==
    IF IsDir(p) THEN has_folder_module(p) \/ detect_lib_file(p) # {} ELSE has_file_module(p)

(* A path that a call of handle_path has still to follow.                  *)
Pending(p) == \E c \in ToSet(calls) : p \in ToSet(c.brought)

Lists == IsSeq(calls) /\ \A c \in ToSet(calls) : IsSeq(c.brought)

BringsPending(f) ==
    \A i \in DOMAIN project.brings : project.brings[i].from = f => Pending(project.brings[i].path)

(* The bring handled last is one of a directory with a lib file.           *)
IsOfLibFile ==
    LET b == NodesOf(at.mod)[at.node - 1]
    IN  IsDir(b.path) /\ detect_lib_file(b.path) # {}

(* What a file brings has been found or will be, and all calls of          *)
(* handle_path are over when the passes begin.                             *)
FoundInv ==
    /\ Lists
    /\ \A m \in ModuleId : allModules[m].kind \in {"file", "rootLib"} =>
          \A i \in DOMAIN project.brings :
             project.brings[i].from = allModules[m].path =>
                Found(project.brings[i].path) \/ Pending(project.brings[i].path)
    /\ pass # 0 => calls = <<>>
    /\ outcome = "notFound" => IsOfLibFile

(* A path is no longer pending only when it is found, and what the file of *)
(* a module just made brings is pending.                                   *)
DiscoveryFinds ==
    /\ Lists'
    /\ \A p : Pending(p) => Pending(p)' \/ Found(p)'
    /\ \/ UNCHANGED allModules
       \/ \E q, kind, par : create_submodule(q, kind, par) /\ (kind # "folder" => BringsPending(q)')

(* The elements of two sequences after one another.                        *)
LEMMA ConcatAny ==
    ASSUME NEW s, IsSeq(s), NEW t, IsSeq(t)
    PROVE  IsSeq(s \o t) /\ ToSet(s \o t) = ToSet(s) \cup ToSet(t)
<1> DEFINE S == ToSet(s) \cup ToSet(t)
           m == Len(s)
           n == Len(t)
<1>1. s \in Seq(S) /\ t \in Seq(S)
    BY SeqMonotonic DEF IsSeq
<1>2. m \in Nat /\ n \in Nat /\ DOMAIN s = 1 .. m /\ DOMAIN t = 1 .. n
    BY SeqFacts
<1> HIDE DEF S
<1>3. /\ s \o t \in Seq(S) /\ Len(s \o t) = m + n
      /\ \A i \in 1 .. m + n : (s \o t)[i] = IF i <= m THEN s[i] ELSE t[i - m]
    BY <1>1, ConcatProperties
<1>4. IsSeq(s \o t) /\ DOMAIN (s \o t) = 1 .. m + n
    BY <1>3, LenProperties, SeqOfIsSeq
<1>5. ToSet(s \o t) \subseteq ToSet(s) \cup ToSet(t)
    BY <1>3, <1>4, ElementsOfSeq DEF S
<1> HIDE DEF m, n
<1>6. \A i \in 1 .. m : i \in 1 .. m + n /\ (s \o t)[i] = s[i]
    BY <1>2, <1>3
<1>7. \A i \in 1 .. n : i + m \in 1 .. m + n /\ (s \o t)[i + m] = t[i]
    BY <1>2, <1>3
<1>8. ToSet(s) \cup ToSet(t) \subseteq ToSet(s \o t)
    BY <1>2, <1>4, <1>6, <1>7 DEF ToSet
<1> QED
    BY <1>4, <1>5, <1>8

(* The first element and the others.                                       *)
LEMMA TailElements ==
    ASSUME NEW s, IsSeq(s), s # <<>>
    PROVE  IsSeq(Tail(s)) /\ ToSet(s) \subseteq {Head(s)} \cup ToSet(Tail(s))
<1> DEFINE S == ToSet(s)
           n == Len(s)
<1>1. s \in Seq(S)
    BY DEF IsSeq
<1>2. n \in Nat \ {0} /\ DOMAIN s = 1 .. n
    BY SeqFacts
<1> HIDE DEF S
<1>3. /\ Tail(s) \in Seq(S) /\ Len(Tail(s)) = n - 1
      /\ \A i \in 1 .. Len(Tail(s)) : Tail(s)[i] = s[i + 1]
    BY <1>1, HeadTailProperties
<1>4. IsSeq(Tail(s)) /\ DOMAIN Tail(s) = 1 .. n - 1
    BY <1>3, LenProperties, SeqOfIsSeq
<1>5. Head(s) = s[1]
    BY DEF Head
<1> HIDE DEF n
<1>6. ASSUME NEW i \in 1 .. n
      PROVE  s[i] \in {Head(s)} \cup ToSet(Tail(s))
    <2>1. CASE i = 1
        BY <1>5, <2>1
    <2>2. CASE i # 1
        <3>1. i - 1 \in 1 .. n - 1 /\ (i - 1) + 1 = i
            BY <1>2, <2>2
        <3>2. Tail(s)[i - 1] = s[i]
            BY <1>3, <3>1
        <3> QED
            BY <1>4, <3>1, <3>2 DEF ToSet
    <2> QED
        BY <2>1, <2>2
<1> QED
    BY <1>2, <1>4, <1>6 DEF ToSet

(* The last element and the others.                                        *)
LEMMA LastElements ==
    ASSUME NEW s, IsSeq(s), s # <<>>
    PROVE  IsSeq(Front(s)) /\ ToSet(s) = ToSet(Front(s)) \cup {Last(s)}
<1> DEFINE n == Len(s)
<1>1. /\ IsSeq(Front(s)) /\ DOMAIN Front(s) = 1 .. n - 1 /\ DOMAIN s = 1 .. n
      /\ \A i \in 1 .. n - 1 : Front(s)[i] = s[i]
      /\ n \in Nat \ {0} /\ Last(s) = s[n]
    BY SeqFacts, FrontAny
<1> HIDE DEF n
<1>2. \A i \in 1 .. n : i \in 1 .. n - 1 \/ i = n
    BY <1>1
<1>3. ToSet(s) \subseteq ToSet(Front(s)) \cup {Last(s)}
    BY <1>1, <1>2 DEF ToSet
<1> QED
    BY <1>1, <1>3, FrontElements

(* Parsing a file adds the paths it brings.                                *)
LEMMA ParsedPaths ==
    ASSUME project \in Projects, NEW c, IsSeq(c.brought), NEW f
    PROVE  /\ IsSeq(Parsed(c, f).brought)
           /\ ToSet(c.brought) \subseteq ToSet(Parsed(c, f).brought)
           /\ \A i \in DOMAIN project.brings :
                 project.brings[i].from = f => project.brings[i].path \in ToSet(Parsed(c, f).brought)
<1> DEFINE I == {i \in DOMAIN project.brings : project.brings[i].from = f}
           s == BringsAt(I)
<1>1. IsSeq(s) /\ \A i \in I \cap DOMAIN project.brings : project.brings[i] \in ToSet(s)
    <2> HIDE DEF I
    <2> QED
        BY BringsAtFacts
<1>2. Parsed(c, f).brought = c.brought \o PathsOf(s)
    BY DEF Parsed, HandleCall, BringsOf
<1> HIDE DEF s
<1>3. /\ Len(s) \in Nat /\ DOMAIN s = 1 .. Len(s)
      /\ PathsOf(s) \in [1 .. Len(s) -> {s[k].path : k \in DOMAIN s}]
    BY <1>1, SeqFacts DEF PathsOf
<1>4. IsSeq(PathsOf(s)) /\ DOMAIN PathsOf(s) = DOMAIN s /\ \A k \in DOMAIN s : PathsOf(s)[k] = s[k].path
    BY <1>3, FunctionIsSeq DEF PathsOf
<1>5. \A x \in ToSet(s) : x.path \in ToSet(PathsOf(s))
    BY <1>4 DEF ToSet
<1>6. \A i \in I : project.brings[i].path \in ToSet(PathsOf(s))
    BY <1>1, <1>5
<1> HIDE DEF I
<1>7. /\ IsSeq(c.brought \o PathsOf(s))
      /\ ToSet(c.brought \o PathsOf(s)) = ToSet(c.brought) \cup ToSet(PathsOf(s))
    BY <1>4, ConcatAny
<1> QED
    BY <1>2, <1>6, <1>7 DEF I

(* A call on top of others: what each has to follow is pending.            *)
LEMMA PushedLists ==
    ASSUME NEW below, IsSeq(below), \A x \in ToSet(below) : IsSeq(x.brought),
           NEW c, IsSeq(c.brought), calls' = Append(below, c)
    PROVE  /\ Lists'
           /\ \A x \in ToSet(below) : \A p \in ToSet(x.brought) : Pending(p)'
           /\ \A p \in ToSet(c.brought) : Pending(p)'
<1>1. IsSeq(calls') /\ ToSet(calls') = ToSet(below) \cup {c}
    BY AppendAny, AppendAdds
<1> QED
    BY <1>1 DEF Lists, Pending

LEMMA NothingIsList == IsSeq(NothingToDo.brought)
    BY EmptyIsSeq DEF NothingToDo, HandleCall

(* handle_path makes the module of its path, unless there is one.          *)
LEMMA HandlePathFinds ==
    ASSUME project \in Projects, UNCHANGED project, IsSeq(allModules),
           NEW below, IsSeq(below), \A x \in ToSet(below) : IsSeq(x.brought),
           NEW p, handle_path(p, below)
    PROVE  /\ Lists' /\ Found(p)'
           /\ \A x \in ToSet(below) : \A q \in ToSet(x.brought) : Pending(q)'
           /\ \/ UNCHANGED allModules
              \/ \E q, kind, par : create_submodule(q, kind, par) /\ (kind # "folder" => BringsPending(q)')
<1>1. /\ IsDir(p)' = IsDir(p) /\ detect_lib_file(p)' = detect_lib_file(p)
    BY DEF IsDir, detect_lib_file, Items
<1>2. ASSUME NEW q, NEW kind, CreateEntity(q, kind, 0)
      PROVE  create_submodule(q, kind, 0) /\ \E m \in ModuleId' : allModules'[m].path = q /\ allModules'[m].kind = kind
    <2>1. create_submodule(q, kind, 0)
        BY <1>2 DEF CreateEntity
    <2>2. /\ Len(allModules) \in Nat /\ ModuleId' = 1 .. Len(allModules) + 1
          /\ allModules'[Len(allModules) + 1].path = q /\ allModules'[Len(allModules) + 1].kind = kind
        BY <2>1, ModulesGrow
    <2>3. Len(allModules) + 1 \in 1 .. Len(allModules) + 1
        BY <2>2
    <2> QED
        BY <2>1, <2>2, <2>3
<1>3. ASSUME NEW q, calls' = Append(below, Parsed(NothingToDo, q))
      PROVE  /\ Lists' /\ BringsPending(q)'
             /\ \A x \in ToSet(below) : \A r \in ToSet(x.brought) : Pending(r)'
    <2>1. PICK c : c = Parsed(NothingToDo, q)
        OBVIOUS
    <2>2. /\ IsSeq(c.brought)
          /\ \A i \in DOMAIN project.brings : project.brings[i].from = q => project.brings[i].path \in ToSet(c.brought)
        BY <2>1, NothingIsList, ParsedPaths
    <2>3. /\ Lists' /\ \A r \in ToSet(c.brought) : Pending(r)'
          /\ \A x \in ToSet(below) : \A r \in ToSet(x.brought) : Pending(r)'
        BY <1>3, <2>1, <2>2, PushedLists
    <2>4. project.brings' = project.brings
        OBVIOUS
    <2> QED
        BY <2>2, <2>3, <2>4 DEF BringsPending
<1>4. CASE IsDir(p) /\ \E l \in detect_lib_file(p) :
              CreateEntity(l, "file", 0) /\ calls' = Append(below, Parsed(NothingToDo, l))
    BY <1>1, <1>2, <1>3, <1>4 DEF Found
<1>5. CASE /\ IsDir(p) /\ CreateEntity(p, "folder", 0)
           /\ calls' = Append(below, Walking(NothingToDo, NewModule, p))
    <2>1. PICK c : c = Walking(NothingToDo, NewModule, p)
        OBVIOUS
    <2>2. IsSeq(c.brought)
        BY <2>1, EmptyIsSeq DEF Walking, WithFolders, NothingToDo, HandleCall
    <2>3. Found(p)'
        BY <1>1, <1>2, <1>5 DEF Found, has_folder_module
    <2> QED
        BY <1>2, <1>5, <2>1, <2>2, <2>3, PushedLists
<1>6. CASE EnterFile(p, below)
    <2>1. /\ ~IsDir(p) /\ CreateEntity(p, FileKind(p), 0)
          /\ calls' = Append(below, Parsed(NothingToDo, p))
        BY <1>6 DEF EnterFile
    <2>2. Found(p)'
        BY <1>1, <1>2, <2>1, FileKinds DEF Found, has_file_module
    <2> QED
        BY <1>2, <1>3, <2>1, <2>2
<1>7. CASE EnterKnown(p, below)
    <2>1. /\ IF IsDir(p) THEN has_folder_module(p) ELSE has_file_module(p)
          /\ calls' = Append(below, NothingToDo) /\ UNCHANGED <<allModules, ModuleId>>
        BY <1>7 DEF EnterKnown, moduleVars, ModuleId
    <2>2. Found(p)'
        BY <1>1, <2>1 DEF Found, has_folder_module, has_file_module
    <2> QED
        BY <2>1, <2>2, NothingIsList, PushedLists
<1> QED
    BY <1>4, <1>5, <1>6, <1>7 DEF handle_path, EnterDirectory

(* The innermost call goes on, with what it had to follow.                 *)
LEMMA ReturnFinds ==
    ASSUME Lists, calls # <<>>, NEW c, IsSeq(c.brought), ToSet(call.brought) \subseteq ToSet(c.brought),
           Return(c)
    PROVE  /\ Lists' /\ \A p : Pending(p) => Pending(p)'
           /\ \A p \in ToSet(c.brought) : Pending(p)'
<1>1. IsSeq(Front(calls)) /\ ToSet(calls) = ToSet(Front(calls)) \cup {call}
    BY LastElements DEF Lists, call
<1>2. /\ Lists' /\ \A p \in ToSet(c.brought) : Pending(p)'
      /\ \A x \in ToSet(Front(calls)) : \A p \in ToSet(x.brought) : Pending(p)'
    BY <1>1, PushedLists DEF Lists, Return
<1> QED
    BY <1>1, <1>2 DEF Pending

LEMMA WalkFinds ==
    ASSUME project \in Projects, UNCHANGED project, Lists, WalkFolder
    PROVE  DiscoveryFinds
<1>1. PICK i : calls # <<>> /\ WalkItem(i)
    BY DEF WalkFolder
<1>2. PICK rest, top : /\ rest = WithFolders(call, Append(Front(call.folders),
                                     [mod |-> top.mod, items |-> top.items \ {i}]))
                       /\ top = Last(call.folders)
    OBVIOUS
<1>3. call \in ToSet(calls) /\ IsSeq(call.brought) /\ rest.brought = call.brought
    BY <1>1, <1>2, FrontElements DEF Lists, call, WithFolders, HandleCall
<1>4. \/ \E kind, q : CreateEntity(q, kind, top.mod) /\ Return(Parsed(rest, q))
      \/ CreateEntity(i, "folder", top.mod) /\ Return(Walking(rest, NewModule, i))
      \/ Return(Walking(rest, top.mod, i)) /\ UNCHANGED <<moduleVars, fileEntities>>
      \/ Return(rest) /\ UNCHANGED <<moduleVars, fileEntities>>
    BY <1>1, <1>2, Zenon DEF WalkItem
<1>5. \A m, d : Walking(rest, m, d).brought = call.brought
    BY <1>3 DEF Walking, WithFolders, HandleCall
<1>6. CASE \E kind, q : CreateEntity(q, kind, top.mod) /\ Return(Parsed(rest, q))
    <2>1. PICK kind, q : CreateEntity(q, kind, top.mod) /\ Return(Parsed(rest, q))
        BY <1>6
    <2>2. PICK c : c = Parsed(rest, q)
        OBVIOUS
    <2>3. /\ IsSeq(c.brought) /\ ToSet(call.brought) \subseteq ToSet(c.brought)
          /\ \A k \in DOMAIN project.brings : project.brings[k].from = q => project.brings[k].path \in ToSet(c.brought)
        BY <1>3, <2>2, ParsedPaths
    <2>4. /\ Lists' /\ \A p : Pending(p) => Pending(p)'
          /\ \A p \in ToSet(c.brought) : Pending(p)'
        BY <1>1, <2>1, <2>2, <2>3, ReturnFinds
    <2>5. project.brings' = project.brings
        OBVIOUS
    <2>6. BringsPending(q)' /\ create_submodule(q, kind, top.mod)
        BY <2>1, <2>3, <2>4, <2>5 DEF BringsPending, CreateEntity
    <2> QED
        BY <2>4, <2>6 DEF DiscoveryFinds
<1>7. CASE CreateEntity(i, "folder", top.mod) /\ Return(Walking(rest, NewModule, i))
    <2>1. Lists' /\ \A p : Pending(p) => Pending(p)'
        BY <1>1, <1>3, <1>5, <1>7, ReturnFinds
    <2>2. create_submodule(i, "folder", top.mod)
        BY <1>7 DEF CreateEntity
    <2> QED
        BY <2>1, <2>2 DEF DiscoveryFinds
<1>8. CASE /\ Return(Walking(rest, top.mod, i)) \/ Return(rest)
           /\ UNCHANGED <<moduleVars, fileEntities>>
    <2>1. Lists' /\ \A p : Pending(p) => Pending(p)'
        BY <1>1, <1>3, <1>5, <1>8, ReturnFinds
    <2> QED
        BY <1>8, <2>1 DEF DiscoveryFinds, moduleVars
<1> QED
    BY <1>4, <1>6, <1>7, <1>8

LEMMA DiscoveryStepFinds ==
    ASSUME project \in Projects, UNCHANGED project, IsSeq(allModules), Lists, DiscoveryNext
    PROVE  DiscoveryFinds
<1>1. CASE HandleArgument
    <2>1. /\ calls = <<>> /\ IsSeq(<<>>) /\ ToSet(<<>>) = {} /\ handle_path(Head(argsLeft), <<>>)
        BY <1>1, EmptyIsSeq DEF HandleArgument, ToSet
    <2>2. \A p : ~Pending(p)
        BY <2>1 DEF Pending
    <2> QED
        BY <2>1, <2>2, HandlePathFinds DEF DiscoveryFinds
<1>2. CASE LeaveFolder
    <2>1. PICK c : c = WithFolders(call, Front(call.folders))
        OBVIOUS
    <2>2. calls # <<>> /\ Return(c) /\ UNCHANGED moduleVars
        BY <1>2, <2>1 DEF LeaveFolder
    <2>3. c.brought = call.brought /\ IsSeq(c.brought)
        BY <2>1, <2>2, FrontElements DEF Lists, call, WithFolders, HandleCall
    <2> QED
        BY <2>2, <2>3, ReturnFinds DEF DiscoveryFinds, moduleVars
<1>3. CASE FollowBring
    <2>1. PICK c : c = HandleCall(<<>>, Tail(call.brought), call.members)
        OBVIOUS
    <2>2. PICK below, h : below = Append(Front(calls), c) /\ h = Head(call.brought)
        OBVIOUS
    <2>3. /\ calls # <<>> /\ call.brought # <<>>
          /\ handle_path(h, below)
        BY <1>3, <2>1, <2>2 DEF FollowBring
    <2>4. /\ IsSeq(Front(calls)) /\ ToSet(calls) = ToSet(Front(calls)) \cup {call}
        BY <2>3, LastElements DEF Lists, call
    <2>5. /\ IsSeq(Tail(call.brought))
          /\ ToSet(call.brought) \subseteq {h} \cup ToSet(Tail(call.brought))
        BY <2>2, <2>3, <2>4, TailElements DEF Lists
    <2>6. c.brought = Tail(call.brought)
        BY <2>1 DEF HandleCall
    <2>7. IsSeq(below) /\ ToSet(below) = ToSet(Front(calls)) \cup {c}
        BY <2>2, <2>4, AppendAny, AppendAdds
    <2>8. \A x \in ToSet(below) : IsSeq(x.brought)
        BY <2>4, <2>5, <2>6, <2>7 DEF Lists
    <2>9. /\ Lists' /\ Found(h)'
          /\ \A x \in ToSet(below) : \A q \in ToSet(x.brought) : Pending(q)'
          /\ \/ UNCHANGED allModules
             \/ \E q, kind, par : create_submodule(q, kind, par) /\ (kind # "folder" => BringsPending(q)')
        BY <2>3, <2>7, <2>8, HandlePathFinds
    <2>10. ASSUME NEW p, Pending(p)
           PROVE  Pending(p)' \/ Found(p)'
        <3>1. PICK x \in ToSet(Front(calls)) \cup {call} : p \in ToSet(x.brought)
            BY <2>4, <2>10 DEF Pending
        <3>2. CASE p = h
            BY <2>9, <3>2
        <3>3. CASE p # h
            BY <2>5, <2>6, <2>7, <2>9, <3>1, <3>3
        <3> QED
            BY <3>2, <3>3
    <2> QED
        BY <2>9, <2>10 DEF DiscoveryFinds
<1>4. CASE RemoveMember
    <2>1. PICK c : c = HandleCall(<<>>, <<>>, Tail(call.members))
        OBVIOUS
    <2>2. calls # <<>> /\ call.brought = <<>> /\ Return(c) /\ UNCHANGED moduleVars
        BY <1>4, <2>1 DEF RemoveMember
    <2>3. c.brought = call.brought /\ IsSeq(c.brought)
        BY <2>1, <2>2, EmptyIsSeq DEF HandleCall
    <2> QED
        BY <2>2, <2>3, ReturnFinds DEF DiscoveryFinds, moduleVars
<1>5. CASE LeaveCall
    <2>1. calls # <<>> /\ call = NothingToDo /\ calls' = Front(calls) /\ UNCHANGED moduleVars
        BY <1>5 DEF LeaveCall
    <2>2. IsSeq(Front(calls)) /\ ToSet(calls) = ToSet(Front(calls)) \cup {call}
        BY <2>1, LastElements DEF Lists, call
    <2>3. ToSet(call.brought) = {}
        BY <2>1 DEF NothingToDo, HandleCall, ToSet
    <2>4. Lists' /\ \A p : Pending(p) => Pending(p)'
        BY <2>1, <2>2, <2>3 DEF Lists, Pending
    <2> QED
        BY <2>1, <2>4 DEF DiscoveryFinds, moduleVars
<1> QED
    BY <1>1, <1>2, <1>3, <1>4, <1>5, WalkFinds DEF DiscoveryNext

(* What has been found stays found, as modules are only added.             *)
LEMMA FoundStays ==
    ASSUME UNCHANGED project, ModuleId \subseteq ModuleId', \A m \in ModuleId : allModules'[m] = allModules[m],
           NEW p, Found(p)
    PROVE  Found(p)'
    BY DEF Found, IsDir, has_folder_module, has_file_module, detect_lib_file, Items

LEMMA DiscoverFound ==
    ASSUME PathsInv, FoundInv, Discover
    PROVE  FoundInv'
<1>1. pass = 0 /\ outcome = "running" /\ DiscoveryNext /\ UNCHANGED <<pass, outcome>>
    BY DEF Discover, passVars
<1>2. project \in Projects /\ UNCHANGED project /\ IsSeq(allModules)
    BY Creations DEF PathsInv, Next
<1>3. DiscoveryFinds
    BY <1>1, <1>2, DiscoveryStepFinds DEF FoundInv
<1>4. project.brings' = project.brings
    BY <1>2
<1>5. ASSUME ModuleId \subseteq ModuleId', \A m \in ModuleId : allModules'[m] = allModules[m],
             NEW m \in ModuleId, allModules[m].kind \in {"file", "rootLib"},
             NEW i \in DOMAIN project.brings, project.brings[i].from = allModules[m].path
      PROVE  Found(project.brings[i].path)' \/ Pending(project.brings[i].path)'
    <2>1. PICK p : p = project.brings[i].path
        OBVIOUS
    <2>2. Found(p) \/ Pending(p)
        BY <1>5, <2>1 DEF FoundInv
    <2>3. Found(p)' \/ Pending(p)'
        BY <1>2, <1>3, <1>5, <2>2, FoundStays DEF DiscoveryFinds
    <2> QED
        BY <1>4, <2>1, <2>3
<1>6. \A m \in ModuleId' : allModules'[m].kind \in {"file", "rootLib"} =>
         \A i \in DOMAIN project.brings' :
            project.brings'[i].from = allModules'[m].path =>
                Found(project.brings[i].path)' \/ Pending(project.brings[i].path)'
    <2>1. CASE UNCHANGED allModules
        <3>1. UNCHANGED ModuleId
            BY <2>1 DEF ModuleId
        <3> QED
            BY <1>4, <1>5, <2>1, <3>1
    <2>2. CASE \E q, kind, par : create_submodule(q, kind, par) /\ (kind # "folder" => BringsPending(q)')
        <3>1. PICK q, kind, par : create_submodule(q, kind, par) /\ (kind # "folder" => BringsPending(q)')
            BY <2>2
        <3>2. PICK n : n = Len(allModules) + 1
            OBVIOUS
        <3>3. /\ n \in Nat /\ ModuleId = 1 .. n - 1 /\ ModuleId' = 1 .. n
              /\ \A m \in ModuleId : allModules'[m] = allModules[m]
              /\ allModules'[n].path = q /\ allModules'[n].kind = kind
            BY <1>2, <3>1, <3>2, ModulesGrow
        <3>4. /\ ModuleId \subseteq ModuleId' /\ \A m \in ModuleId' : m \in ModuleId \/ m = n
            BY <3>3
        <3>5. kind \in {"file", "rootLib"} =>
                 \A i \in DOMAIN project.brings' :
                    project.brings'[i].from = q => Pending(project.brings[i].path)'
            BY <3>1 DEF BringsPending
        <3> QED
            BY <1>4, <1>5, <3>3, <3>4, <3>5
    <2> QED
        BY <1>3, <2>1, <2>2 DEF DiscoveryFinds
<1> QED
    BY <1>1, <1>3, <1>6 DEF FoundInv, DiscoveryFinds

(* The steps of the passes, which follow nothing.                          *)
LEMMA PassFound ==
    ASSUME FoundInv, UNCHANGED <<project, allModules, calls>>, pass' # 0 => pass # 0 \/ calls = <<>>,
           outcome' # "notFound"
    PROVE  FoundInv'
<1>1. UNCHANGED ModuleId /\ Lists' /\ \A p : Found(p)' = Found(p) /\ Pending(p)' = Pending(p)
    BY DEF FoundInv, ModuleId, Lists, Found, Pending, IsDir, has_folder_module, has_file_module,
        detect_lib_file, Items
<1> QED
    BY <1>1 DEF FoundInv

(* A module looked for and not found is not there.                         *)
LEMMA NoneFound ==
    ASSUME IsSeq(allModules), NEW p, NEW kinds, FirstModule(p, kinds) = 0
    PROVE  ~\E m \in ModuleId : allModules[m].path = p /\ allModules[m].kind \in kinds
<1> DEFINE I == {i \in 1 .. Len(allModules) :
                    allModules[i].path = p /\ allModules[i].kind \in kinds}
<1>1. FirstModule(p, kinds) = IF I # {} THEN Min(I) ELSE 0
    BY DEF FirstModule, SelectInSeq
<1>2. I \subseteq Nat /\ 0 \notin I
    BY SeqFacts
<1>3. I = {}
    <2> HIDE DEF I
    <2> QED
        BY <1>1, <1>2, MinIsMember
<1> QED
    BY <1>3 DEF ModuleId

(* handle_fs_brings finds what has been found.                             *)
LEMMA HandleBringFound ==
    ASSUME TreeInv, PathsInv, HeldInv, FoundInv, HandleBring
    PROVE  FoundInv'
<1>1. /\ outcome = "running" /\ pass = FsBrings /\ visits # <<>> /\ ~NodesDone /\ NextNode
      /\ UNCHANGED <<project, allModules, calls, pass>>
    BY DEF HandleBring
<1>2. pass # 0 /\ calls = <<>>
    BY <1>1 DEF FoundInv, FsBrings
<1>3. CASE outcome' # "notFound"
    BY <1>1, <1>2, <1>3, PassFound
<1>4. CASE outcome' = "notFound"
    <2>1. visits \in Seq(Visit) /\ at \in Visit
        BY <1>1, VisitsEnd DEF TreeInv, Visit
    <2>2. PICK m, n : m = at.mod /\ n = at.node
        OBVIOUS
    <2>3. m \in ModuleId /\ n \in Nat \ {0}
        BY <2>1, <2>2 DEF Visit
    <2>4. PICK b : b = NodesOf(m)[n]
        OBVIOUS
    <2>5. n \in DOMAIN NodesOf(m)
        BY <1>1, <2>2, <2>3, NodeUnderWay DEF PathsInv
    <2>6. b \in ToSet(project.brings) /\ b.from = allModules[m].path
        BY <2>4, <2>5, NodesAreBrings DEF PathsInv
    <2>7. allModules[m].kind \in {"file", "rootLib"}
        <3>1. allModules[m].kind # "folder"
            <4> SUFFICES ASSUME allModules[m].kind = "folder" PROVE FALSE
                OBVIOUS
            <4>1. NodesOf(m) = <<>>
                BY DEF NodesOf
            <4> QED
                BY <2>5, <4>1
        <3>2. allModules[m].kind # "lib"
            BY <1>1, <2>3 DEF HeldInv
        <3> QED
            BY <2>3, <3>1, <3>2 DEF PathsInv
    <2>8. Found(b.path)
        <3>1. PICK i \in DOMAIN project.brings : project.brings[i] = b
            BY <2>6 DEF ToSet
        <3>2. ~Pending(b.path)
            BY <1>2 DEF Pending, ToSet
        <3> QED
            BY <2>3, <2>6, <2>7, <3>1, <3>2 DEF FoundInv
    <2>9. IF IsDir(b.path) THEN get_folder_module(b.path) = 0 ELSE get_file_module(b.path) = 0
        <3>1. PICK x : x = IF IsDir(b.path) THEN get_folder_module(b.path) ELSE get_file_module(b.path)
            OBVIOUS
        <3>2. IF x = 0 THEN outcome' = "notFound"
              ELSE IF b.member THEN BringMember(x) ELSE BringModule(x)
            BY <2>2, <2>4, <3>1 DEF HandleBring
        <3>3. BringMember(x) \/ BringModule(x) => outcome' # "notFound"
            BY <1>1 DEF BringMember, BringModule
        <3> QED
            BY <1>4, <3>1, <3>2, <3>3
    <2>10. IsDir(b.path) /\ detect_lib_file(b.path) # {}
        <3>1. IsSeq(allModules)
            BY DEF PathsInv
        <3>2. CASE IsDir(b.path)
            <4>1. ~has_folder_module(b.path)
                BY <2>9, <3>1, <3>2, NoneFound DEF has_folder_module, get_folder_module
            <4> QED
                BY <2>8, <3>2, <4>1 DEF Found
        <3>3. CASE ~IsDir(b.path)
            <4>1. ~has_file_module(b.path)
                BY <2>9, <3>1, <3>3, NoneFound DEF has_file_module, get_file_module
            <4> QED
                BY <2>8, <3>3, <4>1 DEF Found
        <3> QED
            BY <3>2, <3>3
    <2>11. at'.mod = m /\ at'.node = n + 1
        <3>1. PICK v : v = [mod |-> m, node |-> n + 1, sub |-> at.sub]
            OBVIOUS
        <3>2. visits' = Append(Front(visits), v)
            BY <1>1, <2>2, <3>1 DEF NextNode
        <3>3. IsSeq(Front(visits))
            BY <1>1, <2>1, VisitsEnd
        <3>4. at' = v
            BY <3>2, <3>3, AppendAny DEF at, Last
        <3> QED
            BY <3>1, <3>4
    <2>12. NodesOf(at.mod)' = NodesOf(m)
        <3>1. NodesOf(m)' = NodesOf(m)
            BY <1>1, NodesKept
        <3>2. NodesOf(at.mod)' = NodesOf(m)'
            BY <2>11 DEF NodesOf, BringsAt
        <3> QED
            BY <3>1, <3>2
    <2>13. n + 1 - 1 = n
        BY <2>3
    <2>14. IsDir(b.path)' /\ detect_lib_file(b.path)' # {}
        BY <1>1, <2>10 DEF IsDir, detect_lib_file, Items
    <2>15. NodesOf(at.mod)'[at'.node - 1] = b
        <3>1. PICK k : k = at'.node - 1
            OBVIOUS
        <3>2. PICK v : v = at'.node
            OBVIOUS
        <3>3. v = n + 1 /\ k = v - 1
            BY <2>11, <3>1, <3>2
        <3>4. k = n
            BY <2>3, <3>3
        <3>5. NodesOf(m)[k] = b
            BY <2>4, <3>4
        <3>6. NodesOf(at.mod)'[k] = b
            BY <2>12, <3>5
        <3> QED
            BY <3>1, <3>6
    <2>16. IsOfLibFile'
        BY <2>14, <2>15 DEF IsOfLibFile, IsDir, detect_lib_file, Items
    <2>17. UNCHANGED ModuleId /\ Lists' /\ \A p : Found(p)' = Found(p) /\ Pending(p)' = Pending(p)
        BY <1>1 DEF FoundInv, ModuleId, Lists, Found, Pending, IsDir, has_folder_module, has_file_module,
            detect_lib_file, Items
    <2> QED
        BY <1>1, <1>2, <2>16, <2>17 DEF FoundInv
<1> QED
    BY <1>3, <1>4


(* A lib that is made brings nothing.                                      *)
LEMMA CreateLibFound ==
    ASSUME PathsInv, FoundInv, CreateLib
    PROVE  FoundInv'
<1>1. /\ outcome = "running" /\ UNCHANGED <<project, calls, pass, outcome>>
      /\ create_submodule(allModules[at.mod].path, "lib", at.mod)
    BY DEF CreateLib
<1>2. PICK n : n = Len(allModules) + 1
    OBVIOUS
<1>3. /\ n \in Nat /\ ModuleId = 1 .. n - 1 /\ ModuleId' = 1 .. n
      /\ \A m \in ModuleId : allModules'[m] = allModules[m]
      /\ allModules'[n].kind = "lib"
    BY <1>1, <1>2, ModulesGrow DEF PathsInv
<1>4. /\ ModuleId \subseteq ModuleId' /\ \A m \in ModuleId' : m \in ModuleId \/ m = n
    BY <1>3
<1>5. Lists' /\ \A p : Pending(p)' = Pending(p)
    BY <1>1 DEF FoundInv, Lists, Pending
<1>6. \A p : Found(p) => Found(p)'
    BY <1>1, <1>3, <1>4, FoundStays
<1>7. project.brings' = project.brings
    BY <1>1
<1>8. \A m \in ModuleId' : allModules'[m].kind \in {"file", "rootLib"} =>
         m \in ModuleId /\ allModules'[m] = allModules[m]
    BY <1>3, <1>4
<1> QED
    BY <1>1, <1>5, <1>6, <1>7, <1>8 DEF FoundInv

LEMMA FoundStep ==
    ASSUME TreeInv, PathsInv, HeldInv, FoundInv, [Next]_vars
    PROVE  FoundInv'
<1>1. CASE UNCHANGED vars
    <2>1. UNCHANGED <<project, allModules, calls, pass, visits, outcome, ModuleId>>
        BY <1>1 DEF vars, discoveryVars, moduleVars, passVars, ModuleId
    <2>2. Lists' /\ \A p : Found(p)' = Found(p) /\ Pending(p)' = Pending(p)
        BY <2>1 DEF FoundInv, ModuleId, Lists, Found, Pending, IsDir, has_folder_module, has_file_module,
            detect_lib_file, Items
    <2>3. IsOfLibFile' = IsOfLibFile
        BY <2>1 DEF IsOfLibFile, NodesOf, BringsAt, at, Last, IsDir, detect_lib_file, Items
    <2> QED
        BY <2>1, <2>2, <2>3 DEF FoundInv
<1>2. CASE StartPass
    <2>1. /\ UNCHANGED <<project, allModules, calls>> /\ calls = <<>> /\ outcome = "running"
        BY <1>2 DEF StartPass, discoveryVars, moduleVars, Discovered
    <2>2. outcome' # "notFound"
        BY <1>2, <2>1 DEF StartPass
    <2> QED
        BY <2>1, <2>2, PassFound
<1>3. CASE VisitEntity \/ VisitSubmodule \/ LeaveModule
    <2>1. UNCHANGED <<project, allModules, calls, pass>> /\ outcome = "running"
        BY <1>3 DEF VisitEntity, VisitSubmodule, LeaveModule, discoveryVars, moduleVars
    <2>2. outcome' # "notFound"
        <3>1. \A m, below : Enter(m, below) => outcome' # "notFound"
            BY <2>1 DEF Enter
        <3> QED
            BY <1>3, <2>1, <3>1 DEF VisitEntity, VisitSubmodule, LeaveModule
    <2> QED
        BY <2>1, <2>2, PassFound DEF FoundInv
<1>4. CASE Ended
    BY <1>1, <1>4 DEF Ended
<1> QED
    BY <1>1, <1>2, <1>3, <1>4, DiscoverFound, HandleBringFound, CreateLibFound DEF Next

LEMMA FoundInvariant == Spec => []FoundInv
<1>1. Init => FoundInv
    <2> SUFFICES ASSUME Init PROVE FoundInv
        OBVIOUS
    <2>1. allModules = <<>> /\ calls = <<>> /\ pass = 0 /\ outcome = "running"
        BY DEF Init, DiscoveryInit
    <2>2. ModuleId = {} /\ Lists
        BY <2>1, EmptyIsSeq DEF ModuleId, Lists, ToSet
    <2> QED
        BY <2>1, <2>2 DEF FoundInv
<1>2. TreeInv /\ PathsInv /\ HeldInv /\ FoundInv /\ [Next]_vars => FoundInv'
    BY FoundStep
<1> QED
    BY <1>1, <1>2, TreeInvariant, PathsInvariant, HeldInvariant, PTL DEF Spec

(* Every bring that pass 1 comes to has its effect when the passes end, in *)
(* any project: discovery has made the module handle_fs_brings looks for,  *)
(* unless it is a directory that became its lib file, and no later pass    *)
(* takes a submodule or a brought module away.                             *)
THEOREM BringsAreDone == Spec => []BringsTakeEffect
<1>1. EffectInv /\ FoundInv => BringsTakeEffect
    <2> SUFFICES ASSUME EffectInv, FoundInv
                 PROVE  BringsTakeEffect
        OBVIOUS
    <2>1. ASSUME outcome = "done", NEW m \in ToSet(visited[FsBrings]), NEW b \in ToSet(NodesOf(m))
          PROVE  \E x \in ToSet(IF b.member THEN submodules[m] ELSE broughtModules[m]) :
                     allModules[x].path = b.path
        <3>1. PICK k \in DOMAIN NodesOf(m) : NodesOf(m)[k] = b
            BY DEF ToSet
        <3>2. Through(m, k)
            BY <2>1 DEF EffectInv, Through, FsBrings, SetupFiles
        <3>3. Done(m, b)
            BY <2>1, <3>1, <3>2 DEF EffectInv
        <3> QED
            BY <3>3 DEF Done
    <2>2. outcome = "notFound" => IsOfLibFile
        BY DEF FoundInv
    <2> QED
        BY <2>1, <2>2 DEF BringsTakeEffect, IsOfLibFile
<1> QED
    BY <1>1, EffectInvariant, FoundInvariant, PTL

-----------------------------------------------------------------------------
(* The order in which a pass meets the modules.  After the first k of V it *)
(* goes on with the first one not seen below the latest module that has    *)
(* one not seen below it, or else among the roots; those of L are not      *)
(* looked at.                                                              *)
Seen(V, k, L) == {V[i] : i \in 1 .. k} \cup L

HasUnseen(q, S) == \E j \in DOMAIN q : q[j] \notin S
FirstUnseen(q, S, x) ==
    \E j \in DOMAIN q : q[j] = x /\ x \notin S /\ \A l \in 1 .. j - 1 : q[l] \in S

IsNext(subs, roots, L, V, k, x) ==
    \/ \E i \in 1 .. k : /\ FirstUnseen(subs[V[i]], Seen(V, k, L), x)
                         /\ \A h \in i + 1 .. k : ~HasUnseen(subs[V[h]], Seen(V, k, L))
    \/ /\ FirstUnseen(roots, Seen(V, k, L), x)
       /\ \A i \in 1 .. k : ~HasUnseen(subs[V[i]], Seen(V, k, L))

Ordered(subs, roots, L, V) ==
    \A k \in 0 .. Len(V) - 1 : IsNext(subs, roots, L, V, k, V[k + 1])

(* Nothing is left to be seen.                                             *)
Exhausted(subs, roots, L, V) ==
    /\ ~HasUnseen(roots, Seen(V, Len(V), L))
    /\ \A i \in DOMAIN V : ~HasUnseen(subs[V[i]], Seen(V, Len(V), L))

(* The first one not seen is one.                                          *)
LEMMA FirstIsOne ==
    ASSUME NEW q, IsSeq(q), NEW S, NEW x, FirstUnseen(q, S, x), NEW y, FirstUnseen(q, S, y)
    PROVE  x = y /\ HasUnseen(q, S) /\ x \notin S
<1>1. PICK j \in DOMAIN q : q[j] = x /\ x \notin S /\ \A l \in 1 .. j - 1 : q[l] \in S
    BY DEF FirstUnseen
<1>2. PICK k \in DOMAIN q : q[k] = y /\ y \notin S /\ \A l \in 1 .. k - 1 : q[l] \in S
    BY DEF FirstUnseen
<1>3. j \in Nat /\ k \in Nat /\ j >= 1 /\ k >= 1
    BY SeqFacts
<1>4. ~(j < k) /\ ~(k < j)
    BY <1>1, <1>2, <1>3
<1>5. j = k
    BY <1>3, <1>4
<1> QED
    BY <1>1, <1>2, <1>5 DEF HasUnseen

(* With nothing left to be seen nothing is next.                           *)
LEMMA NothingNext ==
    ASSUME NEW subs, NEW roots, NEW L, NEW V, IsSeq(V), Exhausted(subs, roots, L, V),
           NEW x, IsNext(subs, roots, L, V, Len(V), x)
    PROVE  FALSE
<1>1. DOMAIN V = 1 .. Len(V)
    BY SeqFacts
<1>2. \A q, S : FirstUnseen(q, S, x) => HasUnseen(q, S)
    BY DEF FirstUnseen, HasUnseen
<1> QED
    BY <1>1, <1>2 DEF Exhausted, IsNext

(* What is next is told by what comes before.                              *)
LEMMA NextIsOne ==
    ASSUME NEW subs, NEW roots, IsSeq(roots), NEW L, NEW V, NEW W, NEW k \in Nat,
           \A i \in 1 .. k : W[i] = V[i] /\ IsSeq(subs[V[i]]),
           NEW x, IsNext(subs, roots, L, V, k, x), NEW y, IsNext(subs, roots, L, W, k, y)
    PROVE  x = y
<1>1. PICK S : S = Seen(V, k, L) /\ S = Seen(W, k, L)
    <2>1. {V[i] : i \in 1 .. k} = {W[i] : i \in 1 .. k}
        OBVIOUS
    <2> QED
        BY <2>1 DEF Seen
<1>2. \A q, z : FirstUnseen(q, S, z) => HasUnseen(q, S)
    BY DEF FirstUnseen, HasUnseen
<1>3. \/ \E i \in 1 .. k : FirstUnseen(subs[V[i]], S, x) /\ \A h \in i + 1 .. k : ~HasUnseen(subs[V[h]], S)
      \/ FirstUnseen(roots, S, x) /\ \A i \in 1 .. k : ~HasUnseen(subs[V[i]], S)
    BY <1>1 DEF IsNext
<1>4. \/ \E i \in 1 .. k : FirstUnseen(subs[V[i]], S, y) /\ \A h \in i + 1 .. k : ~HasUnseen(subs[V[h]], S)
      \/ FirstUnseen(roots, S, y) /\ \A i \in 1 .. k : ~HasUnseen(subs[V[i]], S)
    <2>1. \A i \in 1 .. k : \A h \in i + 1 .. k : h \in 1 .. k
        OBVIOUS
    <2> QED
        BY <1>1, <2>1 DEF IsNext
<1>5. CASE FirstUnseen(roots, S, x) /\ \A i \in 1 .. k : ~HasUnseen(subs[V[i]], S)
    BY <1>2, <1>4, <1>5, FirstIsOne
<1>6. CASE \E i \in 1 .. k : FirstUnseen(subs[V[i]], S, x) /\ \A h \in i + 1 .. k : ~HasUnseen(subs[V[h]], S)
    <2>1. PICK i \in 1 .. k : FirstUnseen(subs[V[i]], S, x) /\ \A h \in i + 1 .. k : ~HasUnseen(subs[V[h]], S)
        BY <1>6
    <2>2. PICK j \in 1 .. k : FirstUnseen(subs[V[j]], S, y) /\ \A h \in j + 1 .. k : ~HasUnseen(subs[V[h]], S)
        BY <1>2, <1>4, <2>1
    <2>3. ~(i < j) /\ ~(j < i)
        <3>1. i < j => j \in i + 1 .. k
            OBVIOUS
        <3>2. j < i => i \in j + 1 .. k
            OBVIOUS
        <3> QED
            BY <1>2, <2>1, <2>2, <3>1, <3>2
    <2>4. i = j
        BY <2>3
    <2> QED
        BY <2>1, <2>2, <2>4, FirstIsOne
<1> QED
    BY <1>3, <1>5, <1>6

(* Two passes that look at the same modules meet them in the same order.   *)
LEMMA SameOrder ==
    ASSUME NEW subs, NEW roots, IsSeq(roots), NEW L,
           NEW V, IsSeq(V), Ordered(subs, roots, L, V), Exhausted(subs, roots, L, V),
           NEW W, IsSeq(W), Ordered(subs, roots, L, W), Exhausted(subs, roots, L, W),
           \A i \in DOMAIN V : IsSeq(subs[V[i]]), \A i \in DOMAIN W : IsSeq(subs[W[i]])
    PROVE  V = W
<1>1. PICK n, m : n = Len(V) /\ m = Len(W) /\ n \in Nat /\ m \in Nat /\ DOMAIN V = 1 .. n /\ DOMAIN W = 1 .. m
    BY SeqFacts
<1>2. ASSUME NEW k \in Nat, k <= n, k <= m, \A i \in 1 .. k : W[i] = V[i]
      PROVE  (k = n <=> k = m) /\ (k < n => W[k + 1] = V[k + 1])
    <2>1. k < n => IsNext(subs, roots, L, V, k, V[k + 1])
        BY <1>1 DEF Ordered
    <2>2. k < m => IsNext(subs, roots, L, W, k, W[k + 1])
        BY <1>1 DEF Ordered
    <2>3. \A i \in 1 .. k : W[i] = V[i] /\ V[i] = W[i] /\ IsSeq(subs[V[i]]) /\ IsSeq(subs[W[i]])
        BY <1>1, <1>2
    <2>4. ASSUME NEW x, IsNext(subs, roots, L, V, k, x)
          PROVE  IsNext(subs, roots, L, W, k, x)
        <3>1. Seen(V, k, L) = Seen(W, k, L)
            <4>1. {V[i] : i \in 1 .. k} = {W[i] : i \in 1 .. k}
                BY <2>3
            <4> QED
                BY <4>1 DEF Seen
        <3>2. \A i \in 1 .. k : \A h \in i + 1 .. k : h \in 1 .. k
            OBVIOUS
        <3> QED
            BY <2>3, <2>4, <3>1, <3>2 DEF IsNext
    <2>5. ASSUME NEW x, IsNext(subs, roots, L, W, k, x)
          PROVE  IsNext(subs, roots, L, V, k, x)
        <3>1. Seen(V, k, L) = Seen(W, k, L)
            <4>1. {V[i] : i \in 1 .. k} = {W[i] : i \in 1 .. k}
                BY <2>3
            <4> QED
                BY <4>1 DEF Seen
        <3>2. \A i \in 1 .. k : \A h \in i + 1 .. k : h \in 1 .. k
            OBVIOUS
        <3> QED
            BY <2>3, <2>5, <3>1, <3>2 DEF IsNext
    <2>6. k = m => k = n
        <3> SUFFICES ASSUME k = m, k # n PROVE FALSE
            OBVIOUS
        <3>1. IsNext(subs, roots, L, W, Len(W), V[k + 1])
            BY <1>1, <1>2, <2>1, <2>4
        <3> QED
            BY <3>1, NothingNext
    <2>7. k = n => k = m
        <3> SUFFICES ASSUME k = n, k # m PROVE FALSE
            OBVIOUS
        <3>1. IsNext(subs, roots, L, V, Len(V), W[k + 1])
            BY <1>1, <1>2, <2>2, <2>5
        <3> QED
            BY <3>1, NothingNext
    <2>8. k < n => W[k + 1] = V[k + 1]
        <3> SUFFICES ASSUME k < n PROVE W[k + 1] = V[k + 1]
            OBVIOUS
        <3>1. k < m
            BY <1>1, <1>2, <2>6
        <3> QED
            BY <2>1, <2>2, <2>3, <3>1, NextIsOne
    <2> QED
        BY <2>6, <2>7, <2>8
<1>3. ASSUME NEW i \in 1 .. n, i > m \/ W[i] # V[i]
      PROVE  FALSE
    <2> DEFINE Bad == {j \in 1 .. n : j > m \/ W[j] # V[j]}
    <2>1. Bad # {} /\ Bad \subseteq Nat
        BY <1>3
    <2>2. PICK b \in Bad : \A y \in Bad : b <= y
        BY <2>1, LeastNumber
    <2>3. PICK k \in Nat : b = k + 1
        BY <1>1
    <2>4. \A j \in 1 .. k : j \notin Bad
        BY <2>2, <2>3
    <2>5. \A j \in 1 .. k : j <= m /\ W[j] = V[j]
        BY <1>1, <2>3, <2>4
    <2>6. k < n /\ k <= m
        BY <1>1, <2>3, <2>5
    <2>7. k # m /\ W[k + 1] = V[k + 1]
        BY <1>1, <1>2, <2>5, <2>6
    <2> QED
        BY <1>1, <2>2, <2>3, <2>6, <2>7
<1>4. n <= m /\ \A i \in 1 .. n : W[i] = V[i]
    BY <1>1, <1>3
<1>5. n = m
    BY <1>1, <1>2, <1>4
<1>6. V = [i \in 1 .. n |-> V[i]] /\ W = [i \in 1 .. n |-> W[i]]
    BY <1>1, <1>5 DEF IsSeq
<1> QED
    BY <1>4, <1>6

(* Two modules are met in this order.                                      *)
Before(x, y, W) == \E k, l \in DOMAIN W : k < l /\ W[k] = x /\ W[l] = y

(* The first k of V are the first n of W but for those of L, in the order  *)
(* of W.                                                                   *)
Thins(V, k, W, n, L) ==
    /\ Seen(V, k, L) = Seen(W, n, L)
    /\ \A i \in 1 .. k : V[i] \notin L /\ \E p \in 1 .. n : W[p] = V[i]
    /\ \A i, j \in 1 .. k : i < j => \E p, q \in 1 .. n : p < q /\ W[p] = V[i] /\ W[q] = V[j]

(* What is next in W, when it is not of L, has one not seen before it, and *)
(* is the next in V.                                                       *)
LEMMA NextOfThinned ==
    ASSUME NEW subs, NEW roots, IsSeq(roots), NEW L, NEW V, NEW W,
           NEW k \in Nat, NEW n \in Nat, Thins(V, k, W, n, L),
           \A i, j \in 1 .. n : W[i] = W[j] => i = j,
           \A i \in 1 .. n : IsSeq(subs[W[i]]) /\ (W[i] \in L => subs[W[i]] = <<>>),
           NEW y, y \notin L, IsNext(subs, roots, {}, W, n, y)
    PROVE  /\ IsNext(subs, roots, L, V, k, y)
           /\ \/ HasUnseen(roots, Seen(V, k, L))
              \/ \E i \in 1 .. k : HasUnseen(subs[V[i]], Seen(V, k, L))
<1> DEFINE S == Seen(V, k, L)
           T == Seen(W, n, {})
<1>1. T \subseteq S /\ S = T \cup L
    <2>1. Seen(W, n, L) = Seen(W, n, {}) \cup L
        BY DEF Seen
    <2>2. Seen(V, k, L) = Seen(W, n, L)
        BY DEF Thins
    <2> QED
        BY <2>1, <2>2
<1>2. \A q : FirstUnseen(q, T, y) => FirstUnseen(q, S, y) /\ HasUnseen(q, S)
    BY <1>1 DEF FirstUnseen, HasUnseen
<1>3. \A q : ~HasUnseen(q, T) => ~HasUnseen(q, S)
    BY <1>1 DEF HasUnseen
<1>4. \A i \in 1 .. n : W[i] \notin L => \E j \in 1 .. k : V[j] = W[i]
    <2> SUFFICES ASSUME NEW i \in 1 .. n, W[i] \notin L
                 PROVE  \E j \in 1 .. k : V[j] = W[i]
        OBVIOUS
    <2>1. W[i] \in Seen(W, n, L)
        BY DEF Seen
    <2>2. W[i] \in Seen(V, k, L)
        BY <2>1 DEF Thins
    <2> QED
        BY <2>2 DEF Seen
<1> HIDE DEF S, T
<1>5. CASE FirstUnseen(roots, T, y) /\ \A i \in 1 .. n : ~HasUnseen(subs[W[i]], T)
    <2>1. \A i \in 1 .. k : ~HasUnseen(subs[V[i]], S)
        BY <1>3, <1>5 DEF Thins
    <2> QED
        BY <1>2, <1>5, <2>1 DEF IsNext, S
<1>6. CASE \E i \in 1 .. n : FirstUnseen(subs[W[i]], T, y) /\ \A h \in i + 1 .. n : ~HasUnseen(subs[W[h]], T)
    <2>1. PICK i \in 1 .. n : FirstUnseen(subs[W[i]], T, y) /\ \A h \in i + 1 .. n : ~HasUnseen(subs[W[h]], T)
        BY <1>6
    <2>2. W[i] \notin L
        <3>1. HasUnseen(subs[W[i]], S)
            BY <1>2, <2>1
        <3>2. DOMAIN <<>> = {}
            OBVIOUS
        <3> QED
            BY <3>1, <3>2 DEF HasUnseen
    <2>3. PICK j \in 1 .. k : V[j] = W[i]
        BY <1>4, <2>2
    <2>4. ASSUME NEW h \in j + 1 .. k
          PROVE  ~HasUnseen(subs[V[h]], S)
        <3>1. j \in 1 .. k /\ h \in 1 .. k /\ j < h
            OBVIOUS
        <3>2. PICK p, q \in 1 .. n : p < q /\ W[p] = V[j] /\ W[q] = V[h]
            BY <3>1 DEF Thins
        <3>3. p = i
            BY <2>3, <3>2
        <3>4. q \in i + 1 .. n
            BY <3>2, <3>3
        <3> QED
            BY <1>3, <2>1, <3>2, <3>4
    <2> QED
        BY <1>2, <2>1, <2>3, <2>4 DEF IsNext, S
<1> QED
    BY <1>5, <1>6 DEF IsNext, T

(* Those of L only lengthen what is seen of W.                             *)
LEMMA ThinsOn ==
    ASSUME NEW V, NEW k \in Nat, NEW W, NEW L, NEW n \in Nat, NEW m \in Nat, n <= m,
           Thins(V, k, W, n, L), \A i \in n + 1 .. m : W[i] \in L
    PROVE  Thins(V, k, W, m, L)
<1>1. \A i \in 1 .. m : i \in 1 .. n \/ i \in n + 1 .. m
    OBVIOUS
<1>2. 1 .. n \subseteq 1 .. m
    OBVIOUS
<1>3. Seen(W, n, L) = Seen(W, m, L)
    BY <1>1, <1>2 DEF Seen
<1> QED
    BY <1>2, <1>3 DEF Thins

LEMMA ThinsNext ==
    ASSUME NEW V, NEW k \in Nat, NEW W, NEW L, NEW n \in Nat,
           Thins(V, k, W, n, L), V[k + 1] = W[n + 1], V[k + 1] \notin L
    PROVE  Thins(V, k + 1, W, n + 1, L)
<1>1. \A i \in 1 .. k + 1 : i \in 1 .. k \/ i = k + 1
    OBVIOUS
<1>2. \A i \in 1 .. n + 1 : i \in 1 .. n \/ i = n + 1
    OBVIOUS
<1>3. 1 .. k \subseteq 1 .. k + 1 /\ 1 .. n \subseteq 1 .. n + 1 /\ k + 1 \in 1 .. k + 1 /\ n + 1 \in 1 .. n + 1
    OBVIOUS
<1>4. Seen(V, k + 1, L) = Seen(V, k, L) \cup {V[k + 1]}
    BY <1>1, <1>3 DEF Seen
<1>5. Seen(W, n + 1, L) = Seen(W, n, L) \cup {W[n + 1]}
    BY <1>2, <1>3 DEF Seen
<1>6. \A i \in 1 .. k + 1 : V[i] \notin L /\ \E p \in 1 .. n + 1 : W[p] = V[i]
    BY <1>1, <1>3 DEF Thins
<1>7. ASSUME NEW i \in 1 .. k + 1, NEW j \in 1 .. k + 1, i < j
      PROVE  \E p, q \in 1 .. n + 1 : p < q /\ W[p] = V[i] /\ W[q] = V[j]
    <2>1. i \in 1 .. k
        BY <1>7
    <2>2. CASE j \in 1 .. k
        BY <1>3, <1>7, <2>1, <2>2 DEF Thins
    <2>3. CASE j = k + 1
        <3>1. PICK p \in 1 .. n : W[p] = V[i]
            BY <2>1 DEF Thins
        <3>2. p < n + 1 /\ p \in 1 .. n + 1
            OBVIOUS
        <3> QED
            BY <1>3, <2>3, <3>1, <3>2
    <2> QED
        BY <1>1, <2>2, <2>3
<1> QED
    BY <1>4, <1>5, <1>6, <1>7 DEF Thins

(* A pass that looks at all modules, those of L having nothing below them, *)
(* meets the others as one that does not look at those of L.               *)
LEMMA Thinned ==
    ASSUME NEW subs, NEW roots, IsSeq(roots), NEW L,
           NEW V, IsSeq(V), Ordered(subs, roots, L, V), Exhausted(subs, roots, L, V),
           NEW W, IsSeq(W), Ordered(subs, roots, {}, W), Exhausted(subs, roots, {}, W),
           IsInjective(W),
           \A i \in DOMAIN V : IsSeq(subs[V[i]]),
           \A i \in DOMAIN W : IsSeq(subs[W[i]]) /\ (W[i] \in L => subs[W[i]] = <<>>)
    PROVE  /\ ToSet(V) = ToSet(W) \ L
           /\ \A i, j \in DOMAIN V : i < j => Before(V[i], V[j], W)
<1>1. PICK v, w : v = Len(V) /\ w = Len(W) /\ v \in Nat /\ w \in Nat /\ DOMAIN V = 1 .. v /\ DOMAIN W = 1 .. w
    BY SeqFacts
<1>2. \A i, j \in 1 .. w : W[i] = W[j] => i = j
    BY <1>1 DEF IsInjective
(* The next of W that is not of L, if there is one.                        *)
<1>3. ASSUME NEW k \in Nat, NEW n \in Nat, n <= w, Thins(V, k, W, n, L),
             ~(\A i \in n + 1 .. w : W[i] \in L)
      PROVE  \E m \in Nat : m < w /\ Thins(V, k, W, m, L) /\ W[m + 1] \notin L
    <2> DEFINE Out == {i \in n + 1 .. w : W[i] \notin L}
    <2>1. Out # {} /\ Out \subseteq Nat
        BY <1>1, <1>3
    <2>2. PICK b \in Out : \A y \in Out : b <= y
        BY <2>1, LeastNumber
    <2>3. PICK m \in Nat : b = m + 1
        BY <1>1
    <2>4. \A i \in n + 1 .. m : W[i] \in L
        BY <1>1, <2>2, <2>3
    <2>5. n <= m /\ m < w /\ W[m + 1] \notin L
        BY <1>1, <2>3
    <2> QED
        BY <1>3, <2>4, <2>5, ThinsOn
<1>4. ASSUME NEW k \in Nat, k <= v, NEW n \in Nat, n < w, Thins(V, k, W, n, L), W[n + 1] \notin L
      PROVE  k < v /\ V[k + 1] = W[n + 1]
    <2>1. IsNext(subs, roots, {}, W, n, W[n + 1])
        BY <1>1, <1>4 DEF Ordered
    <2>2. /\ \A i, j \in 1 .. n : W[i] = W[j] => i = j
          /\ \A i \in 1 .. n : IsSeq(subs[W[i]]) /\ (W[i] \in L => subs[W[i]] = <<>>)
        BY <1>1, <1>2, <1>4
    <2>3. /\ IsNext(subs, roots, L, V, k, W[n + 1])
          /\ \/ HasUnseen(roots, Seen(V, k, L))
             \/ \E i \in 1 .. k : HasUnseen(subs[V[i]], Seen(V, k, L))
        <3>1. PICK y : y = W[n + 1]
            OBVIOUS
        <3>2. y \notin L /\ IsNext(subs, roots, {}, W, n, y)
            BY <1>4, <2>1, <3>1
        <3>3. /\ IsNext(subs, roots, L, V, k, y)
              /\ \/ HasUnseen(roots, Seen(V, k, L))
                 \/ \E i \in 1 .. k : HasUnseen(subs[V[i]], Seen(V, k, L))
            <4>1. Thins(V, k, W, n, L)
                BY <1>4
            <4>2. \A i, j \in 1 .. n : W[i] = W[j] => i = j
                BY <2>2
            <4>3. \A i \in 1 .. n : IsSeq(subs[W[i]]) /\ (W[i] \in L => subs[W[i]] = <<>>)
                BY <2>2
            <4> QED
                BY <3>2, <4>1, <4>2, <4>3, NextOfThinned, Zenon
        <3> QED
            BY <3>1, <3>3
    <2>4. k # v
        BY <1>1, <2>3 DEF Exhausted
    <2>5. IsNext(subs, roots, L, V, k, V[k + 1])
        BY <1>1, <1>4, <2>4 DEF Ordered
    <2>6. \A i \in 1 .. k : V[i] = V[i] /\ IsSeq(subs[V[i]])
        BY <1>1, <1>4
    <2>7. V[k + 1] = W[n + 1]
        BY <2>3, <2>5, <2>6, NextIsOne
    <2> QED
        BY <1>1, <1>4, <2>4, <2>7
<1>5. ASSUME NEW k \in Nat, k < v, NEW n \in Nat, n <= w, Thins(V, k, W, n, L)
      PROVE  ~(\A i \in n + 1 .. w : W[i] \in L)
    <2> SUFFICES ASSUME \A i \in n + 1 .. w : W[i] \in L PROVE FALSE
        OBVIOUS
    <2>1. Thins(V, k, W, w, L)
        BY <1>1, <1>5, ThinsOn
    <2>2. IsNext(subs, roots, L, V, k, V[k + 1])
        BY <1>1, <1>5 DEF Ordered
    <2>3. \/ HasUnseen(roots, Seen(V, k, L))
          \/ \E i \in 1 .. k : HasUnseen(subs[V[i]], Seen(V, k, L))
        BY <2>2 DEF IsNext, FirstUnseen, HasUnseen
    <2>4. Seen(W, w, {}) \subseteq Seen(V, k, L)
        BY <2>1 DEF Thins, Seen
    <2>5. \/ HasUnseen(roots, Seen(W, w, {}))
          \/ \E i \in 1 .. k : HasUnseen(subs[V[i]], Seen(W, w, {}))
        BY <2>3, <2>4 DEF HasUnseen
    <2>6. \A i \in 1 .. k : \E p \in 1 .. w : W[p] = V[i]
        BY <2>1 DEF Thins
    <2> QED
        BY <1>1, <2>5, <2>6 DEF Exhausted
<1>6. ASSUME NEW k \in 0 .. v, ~(\E n \in Nat : n <= w /\ Thins(V, k, W, n, L))
      PROVE  FALSE
    <2> DEFINE Bad == {j \in 0 .. v : ~(\E n \in Nat : n <= w /\ Thins(V, j, W, n, L))}
    <2>1. Bad # {} /\ Bad \subseteq Nat
        BY <1>1, <1>6
    <2>2. PICK b \in Bad : \A y \in Bad : b <= y
        BY <2>1, LeastNumber
    <2>3. b # 0
        <3>1. Thins(V, 0, W, 0, L)
            BY DEF Thins, Seen
        <3>2. 0 \in Nat /\ 0 <= w
            BY <1>1
        <3> QED
            BY <2>2, <3>1, <3>2
    <2>4. PICK j \in Nat : b = j + 1
        BY <1>1, <2>3
    <2>5. j < v /\ j <= v /\ j \notin Bad
        BY <1>1, <2>2, <2>4
    <2>6. PICK n \in Nat : n <= w /\ Thins(V, j, W, n, L)
        BY <1>1, <2>5
    <2>7. PICK m \in Nat : m < w /\ Thins(V, j, W, m, L) /\ W[m + 1] \notin L
        BY <1>3, <1>5, <2>5, <2>6
    <2>8. V[j + 1] = W[m + 1]
        BY <1>4, <2>5, <2>7
    <2>9. Thins(V, j + 1, W, m + 1, L)
        BY <2>7, <2>8, ThinsNext
    <2>10. m + 1 \in Nat /\ m + 1 <= w
        BY <1>1, <2>7
    <2> QED
        BY <2>2, <2>4, <2>9, <2>10
<1>7. PICK n \in Nat : n <= w /\ Thins(V, v, W, n, L)
    <2>1. v \in 0 .. v
        BY <1>1
    <2> QED
        BY <1>6, <2>1
<1>8. \A i \in n + 1 .. w : W[i] \in L
    <2> SUFFICES ASSUME ~(\A i \in n + 1 .. w : W[i] \in L) PROVE FALSE
        OBVIOUS
    <2>1. PICK m \in Nat : m < w /\ Thins(V, v, W, m, L) /\ W[m + 1] \notin L
        BY <1>1, <1>3, <1>7
    <2>2. v < v
        BY <1>1, <1>4, <2>1
    <2> QED
        BY <1>1, <2>2
<1>9. Thins(V, v, W, w, L)
    BY <1>1, <1>7, <1>8, ThinsOn
<1>10. ToSet(V) = {V[i] : i \in 1 .. v} /\ ToSet(W) = {W[i] : i \in 1 .. w}
    BY <1>1 DEF ToSet
<1>11. ToSet(V) = ToSet(W) \ L
    BY <1>9, <1>10 DEF Thins, Seen
<1>12. \A i, j \in DOMAIN V : i < j => Before(V[i], V[j], W)
    <2> SUFFICES ASSUME NEW i \in 1 .. v, NEW j \in 1 .. v, i < j
                 PROVE  Before(V[i], V[j], W)
        BY <1>1
    <2>1. PICK p, q \in 1 .. w : p < q /\ W[p] = V[i] /\ W[q] = V[j]
        BY <1>9 DEF Thins
    <2> QED
        BY <1>1, <2>1 DEF Before
<1> QED
    BY <1>11, <1>12

-----------------------------------------------------------------------------
(* How far a pass has come: V are the modules entered, vis the visits      *)
(* under way, nxt the place in the roots, S those seen.                    *)
StackInOrder(vis, V) ==
    /\ \A i \in DOMAIN vis : vis[i].mod \in ToSet(V)
    /\ \A i, j \in DOMAIN vis : i < j => Before(vis[i].mod, vis[j].mod, V)

LeftIsDone(subs, vis, V, S) ==
    \A a \in DOMAIN V : (\A i \in DOMAIN vis : vis[i].mod # V[a]) => ~HasUnseen(subs[V[a]], S)

PassedIsSeen(subs, vis, S) ==
    \A i \in DOMAIN vis : \A l \in DOMAIN subs[vis[i].mod] : l < vis[i].sub => subs[vis[i].mod][l] \in S

RootsAreSeen(roots, nxt, S) == \A l \in DOMAIN roots : l < nxt => roots[l] \in S

Progress(subs, roots, nxt, vis, V, S) ==
    /\ StackInOrder(vis, V)
    /\ LeftIsDone(subs, vis, V, S)
    /\ PassedIsSeen(subs, vis, S)
    /\ RootsAreSeen(roots, nxt, S)

(* More may be seen.                                                       *)
LEMMA MoreSeen ==
    ASSUME NEW subs, NEW roots, NEW nxt, NEW vis, NEW V, NEW S, NEW T, S \subseteq T,
           Progress(subs, roots, nxt, vis, V, S)
    PROVE  Progress(subs, roots, nxt, vis, V, T)
<1>1. LeftIsDone(subs, vis, V, T)
    BY DEF Progress, LeftIsDone, HasUnseen
<1>2. PassedIsSeen(subs, vis, T)
    BY DEF Progress, PassedIsSeen
<1>3. RootsAreSeen(roots, nxt, T)
    BY DEF Progress, RootsAreSeen
<1> QED
    BY <1>1, <1>2, <1>3 DEF Progress

(* A module that is entered.                                               *)
LEMMA PushedInOrder ==
    ASSUME NEW subs, NEW roots, NEW nxt, NEW vis, IsSeq(vis), NEW V, IsSeq(V), NEW S,
           Progress(subs, roots, nxt, vis, V, S), NEW v, v.sub = 1,
           IsSeq(subs[v.mod])
    PROVE  Progress(subs, roots, nxt, Append(vis, v), Append(V, v.mod), S)
<1>1. PICK n \in Nat : n = Len(vis) /\ DOMAIN vis = 1 .. n
    BY SeqFacts
<1>2. PICK k \in Nat : k = Len(V) /\ DOMAIN V = 1 .. k
    BY SeqFacts
<1> DEFINE ws == Append(vis, v)
           W == Append(V, v.mod)
<1>3. /\ DOMAIN ws = 1 .. n + 1 /\ \A i \in 1 .. n : ws[i] = vis[i]
      /\ ws[n + 1] = v
    BY <1>1, AppendAny
<1>4. /\ DOMAIN W = 1 .. k + 1 /\ \A i \in 1 .. k : W[i] = V[i]
      /\ W[k + 1] = v.mod
    BY <1>2, AppendAny
<1>5. ToSet(W) = ToSet(V) \cup {v.mod}
    BY AppendAdds
<1> HIDE DEF ws, W
<1>6. /\ \A i \in 1 .. n + 1 : i \in 1 .. n \/ i = n + 1
      /\ \A i \in 1 .. k + 1 : i \in 1 .. k \/ i = k + 1
      /\ 1 .. n \subseteq 1 .. n + 1 /\ 1 .. k \subseteq 1 .. k + 1
      /\ k + 1 \in 1 .. k + 1 /\ n + 1 \in 1 .. n + 1
    OBVIOUS
<1>7. StackInOrder(ws, W)
    <2>1. \A i \in DOMAIN ws : ws[i].mod \in ToSet(W)
        BY <1>1, <1>3, <1>5, <1>6 DEF Progress, StackInOrder
    <2>2. \A x, y : Before(x, y, V) => Before(x, y, W)
        BY <1>2, <1>4, <1>6 DEF Before
    <2>3. ASSUME NEW i \in 1 .. n + 1, NEW j \in 1 .. n + 1, i < j
          PROVE  Before(ws[i].mod, ws[j].mod, W)
        <3>1. i \in 1 .. n
            BY <2>3
        <3>2. CASE j \in 1 .. n
            BY <1>1, <1>3, <2>2, <2>3, <3>1, <3>2 DEF Progress, StackInOrder
        <3>3. CASE j = n + 1
            <4>1. vis[i].mod \in ToSet(V)
                BY <1>1, <3>1 DEF Progress, StackInOrder
            <4>2. PICK a \in 1 .. k : V[a] = vis[i].mod
                BY <1>2, <4>1 DEF ToSet
            <4>3. a < k + 1 /\ W[a] = ws[i].mod /\ W[k + 1] = ws[j].mod
                BY <1>3, <1>4, <3>1, <3>3, <4>2
            <4> QED
                BY <1>4, <1>6, <4>3 DEF Before
        <3> QED
            BY <1>6, <3>2, <3>3
    <2> QED
        BY <1>3, <2>1, <2>3 DEF StackInOrder
<1>8. LeftIsDone(subs, ws, W, S)
    <2> SUFFICES ASSUME NEW a \in DOMAIN W, \A i \in DOMAIN ws : ws[i].mod # W[a]
                 PROVE  ~HasUnseen(subs[W[a]], S)
        BY DEF LeftIsDone
    <2>1. a # k + 1
        BY <1>3, <1>4, <1>6
    <2>2. a \in 1 .. k
        BY <1>4, <1>6, <2>1
    <2>3. \A i \in DOMAIN vis : vis[i].mod # V[a]
        BY <1>1, <1>3, <1>4, <1>6, <2>2
    <2> QED
        BY <1>2, <1>4, <2>2, <2>3 DEF Progress, LeftIsDone
<1>9. PassedIsSeen(subs, ws, S)
    <2> SUFFICES ASSUME NEW i \in 1 .. n + 1, NEW l \in DOMAIN subs[ws[i].mod], l < ws[i].sub
                 PROVE  subs[ws[i].mod][l] \in S
        BY <1>3 DEF PassedIsSeen
    <2>1. CASE i = n + 1
        <3>1. l \in Nat \ {0} /\ l < 1
            BY <1>3, <2>1, SeqFacts
        <3> QED
            BY <3>1
    <2>2. CASE i \in 1 .. n
        BY <1>1, <1>3, <2>2 DEF Progress, PassedIsSeen
    <2> QED
        BY <1>6, <2>1, <2>2
<1>10. RootsAreSeen(roots, nxt, S)
    BY DEF Progress
<1> QED
    BY <1>7, <1>8, <1>9, <1>10 DEF Progress, ws, W

(* The visits go on: each has come no further than what is seen.           *)
LEMMA VisitsGoOn ==
    ASSUME NEW subs, NEW roots, NEW nxt, NEW vis, NEW V, NEW S, Progress(subs, roots, nxt, vis, V, S),
           \A i \in DOMAIN vis : IsSeq(subs[vis[i].mod]),
           NEW ws, DOMAIN ws = DOMAIN vis,
           \A i \in DOMAIN vis :
              /\ ws[i].mod = vis[i].mod /\ vis[i].sub \in Nat
              /\ \/ ws[i].sub = vis[i].sub
                 \/ ws[i].sub = vis[i].sub + 1 /\ subs[vis[i].mod][vis[i].sub] \in S
    PROVE  Progress(subs, roots, nxt, ws, V, S)
<1>1. StackInOrder(ws, V)
    BY DEF Progress, StackInOrder
<1>2. LeftIsDone(subs, ws, V, S)
    BY DEF Progress, LeftIsDone
<1>3. PassedIsSeen(subs, ws, S)
    <2> SUFFICES ASSUME NEW i \in DOMAIN vis, NEW l \in DOMAIN subs[ws[i].mod], l < ws[i].sub
                 PROVE  subs[ws[i].mod][l] \in S
        BY DEF PassedIsSeen
    <2>1. l \in Nat
        <3>1. IsSeq(subs[ws[i].mod])
            OBVIOUS
        <3> QED
            BY <3>1, SeqFacts
    <2>2. l < vis[i].sub \/ (l = vis[i].sub /\ subs[vis[i].mod][vis[i].sub] \in S)
        <3>1. CASE ws[i].sub = vis[i].sub
            BY <3>1
        <3>2. CASE ws[i].sub = vis[i].sub + 1 /\ subs[vis[i].mod][vis[i].sub] \in S
            <4>1. \A a, b \in Nat : a < b + 1 => a < b \/ a = b
                OBVIOUS
            <4> QED
                BY <2>1, <3>2, <4>1
        <3> QED
            BY <3>1, <3>2
    <2> QED
        BY <2>2 DEF Progress, PassedIsSeen
<1> QED
    BY <1>1, <1>2, <1>3 DEF Progress

(* The innermost visit ends, with all there is below it seen.              *)
LEMMA VisitEnds ==
    ASSUME NEW subs, NEW roots, NEW nxt, NEW vis, NEW n \in Nat, DOMAIN vis = 1 .. n + 1,
           NEW V, NEW S, Progress(subs, roots, nxt, vis, V, S),
           IsSeq(subs[vis[n + 1].mod]), vis[n + 1].sub \in Nat, vis[n + 1].sub > Len(subs[vis[n + 1].mod]),
           NEW ws, DOMAIN ws = 1 .. n, \A i \in 1 .. n : ws[i] = vis[i]
    PROVE  Progress(subs, roots, nxt, ws, V, S)
<1>1. 1 .. n \subseteq 1 .. n + 1 /\ n + 1 \in 1 .. n + 1 /\ \A i \in 1 .. n + 1 : i \in 1 .. n \/ i = n + 1
    OBVIOUS
<1>2. StackInOrder(ws, V)
    BY <1>1 DEF Progress, StackInOrder
<1>3. ~HasUnseen(subs[vis[n + 1].mod], S)
    <2>1. \A l \in DOMAIN subs[vis[n + 1].mod] : l < vis[n + 1].sub
        BY SeqFacts
    <2> QED
        BY <1>1, <2>1 DEF Progress, PassedIsSeen, HasUnseen
<1>4. LeftIsDone(subs, ws, V, S)
    <2> SUFFICES ASSUME NEW a \in DOMAIN V, \A i \in DOMAIN ws : ws[i].mod # V[a]
                 PROVE  ~HasUnseen(subs[V[a]], S)
        BY DEF LeftIsDone
    <2>1. CASE vis[n + 1].mod = V[a]
        BY <1>3, <2>1
    <2>2. CASE vis[n + 1].mod # V[a]
        BY <1>1, <2>2 DEF Progress, LeftIsDone
    <2> QED
        BY <2>1, <2>2
<1>5. PassedIsSeen(subs, ws, S)
    BY <1>1 DEF Progress, PassedIsSeen
<1> QED
    BY <1>2, <1>4, <1>5 DEF Progress

(* What is below a module may change while nothing of it is visited yet.   *)
LEMMA MoreBelow ==
    ASSUME NEW subs, NEW ts, NEW roots, NEW nxt, NEW vis, NEW n \in DOMAIN vis, vis[n].sub = 1,
           NEW V, NEW S, Progress(subs, roots, nxt, vis, V, S),
           IsSeq(ts[vis[n].mod]),
           \A i \in DOMAIN vis : i = n \/ vis[i].mod # vis[n].mod,
           \A x \in ToSet(V) : x # vis[n].mod => ts[x] = subs[x]
    PROVE  Progress(ts, roots, nxt, vis, V, S)
<1>1. LeftIsDone(ts, vis, V, S)
    <2> SUFFICES ASSUME NEW a \in DOMAIN V, \A i \in DOMAIN vis : vis[i].mod # V[a]
                 PROVE  ~HasUnseen(ts[V[a]], S)
        BY DEF LeftIsDone
    <2>1. ts[V[a]] = subs[V[a]]
        BY DEF ToSet
    <2> QED
        BY <2>1 DEF Progress, LeftIsDone
<1>2. PassedIsSeen(ts, vis, S)
    <2> SUFFICES ASSUME NEW i \in DOMAIN vis, NEW l \in DOMAIN ts[vis[i].mod], l < vis[i].sub
                 PROVE  ts[vis[i].mod][l] \in S
        BY DEF PassedIsSeen
    <2>1. CASE i = n
        <3>1. l \in Nat \ {0} /\ l < 1
            BY <2>1, SeqFacts
        <3> QED
            BY <3>1
    <2>2. CASE i # n
        <3>1. ts[vis[i].mod] = subs[vis[i].mod]
            BY <2>2 DEF Progress, StackInOrder
        <3> QED
            BY <3>1 DEF Progress, PassedIsSeen
    <2> QED
        BY <2>1, <2>2
<1> QED
    BY <1>1, <1>2 DEF Progress

(* A place of the roots that is passed.                                    *)
LEMMA RootPassed ==
    ASSUME NEW subs, NEW roots, IsSeq(roots), NEW nxt \in Nat, NEW vis, NEW V, NEW S,
           Progress(subs, roots, nxt, vis, V, S), roots[nxt] \in S
    PROVE  Progress(subs, roots, nxt + 1, vis, V, S)
<1>1. RootsAreSeen(roots, nxt + 1, S)
    <2>1. ASSUME NEW l \in DOMAIN roots, l < nxt + 1
          PROVE  l < nxt \/ l = nxt
        BY <2>1, SeqFacts
    <2> QED
        BY <2>1 DEF Progress, RootsAreSeen
<1> QED
    BY <1>1 DEF Progress

LEMMA AllIsSeen ==
    ASSUME NEW V, IsSeq(V)
    PROVE  Seen(V, Len(V), {}) = ToSet(V)
<1>1. DOMAIN V = 1 .. Len(V)
    BY SeqFacts
<1> QED
    BY <1>1 DEF Seen, ToSet

(* The next submodule of the innermost visit is what is next.              *)
LEMMA NextBelow ==
    ASSUME NEW subs, NEW roots, NEW nxt, NEW vis, NEW n \in Nat, DOMAIN vis = 1 .. n + 1,
           NEW V, IsSeq(V), IsInjective(V), Progress(subs, roots, nxt, vis, V, ToSet(V)),
           NEW q, q = subs[vis[n + 1].mod], IsSeq(q), NEW l \in DOMAIN q, l = vis[n + 1].sub,
           q[l] \notin ToSet(V)
    PROVE  IsNext(subs, roots, {}, V, Len(V), q[l])
<1>1. PICK k \in Nat : k = Len(V) /\ DOMAIN V = 1 .. k
    BY SeqFacts
<1>2. n + 1 \in DOMAIN vis /\ \A i \in DOMAIN vis : i = n + 1 \/ i < n + 1
    OBVIOUS
<1>3. PICK a \in 1 .. k : V[a] = vis[n + 1].mod
    BY <1>1, <1>2 DEF Progress, StackInOrder, ToSet
<1>4. FirstUnseen(q, ToSet(V), q[l])
    <2>1. \A h \in 1 .. l - 1 : h \in DOMAIN q /\ h < l
        BY SeqFacts
    <2>2. \A h \in 1 .. l - 1 : q[h] \in ToSet(V)
        BY <1>2, <2>1 DEF Progress, PassedIsSeen
    <2> QED
        BY <2>2 DEF FirstUnseen
<1>5. ASSUME NEW h \in a + 1 .. k
      PROVE  ~HasUnseen(subs[V[h]], ToSet(V))
    <2>1. h \in 1 .. k /\ a < h
        OBVIOUS
    <2>2. ASSUME NEW i \in DOMAIN vis, vis[i].mod = V[h]
          PROVE  FALSE
        <3>1. i # n + 1
            BY <1>1, <1>3, <2>1, <2>2 DEF IsInjective
        <3>2. i < n + 1
            BY <1>2, <3>1
        <3>3. Before(vis[i].mod, vis[n + 1].mod, V)
            BY <1>2, <3>2 DEF Progress, StackInOrder
        <3>4. PICK x, y \in 1 .. k : x < y /\ V[x] = vis[i].mod /\ V[y] = vis[n + 1].mod
            BY <1>1, <3>3 DEF Before
        <3>5. x = h /\ y = a
            BY <1>1, <1>3, <2>1, <2>2, <3>4 DEF IsInjective
        <3> QED
            BY <2>1, <3>4, <3>5
    <2> QED
        BY <1>1, <2>1, <2>2 DEF Progress, LeftIsDone
<1>6. Seen(V, k, {}) = ToSet(V)
    BY <1>1, AllIsSeen
<1> QED
    BY <1>1, <1>3, <1>4, <1>5, <1>6 DEF IsNext

(* The next of the roots is, when no visit is under way.                   *)
LEMMA NextOfRoots ==
    ASSUME NEW subs, NEW roots, IsSeq(roots), NEW nxt \in DOMAIN roots, NEW V, IsSeq(V),
           Progress(subs, roots, nxt, <<>>, V, ToSet(V)), roots[nxt] \notin ToSet(V)
    PROVE  IsNext(subs, roots, {}, V, Len(V), roots[nxt])
<1>1. PICK k \in Nat : k = Len(V) /\ DOMAIN V = 1 .. k
    BY SeqFacts
<1>2. FirstUnseen(roots, ToSet(V), roots[nxt])
    <2>1. \A h \in 1 .. nxt - 1 : h \in DOMAIN roots /\ h < nxt
        BY SeqFacts
    <2>2. \A h \in 1 .. nxt - 1 : roots[h] \in ToSet(V)
        BY <2>1 DEF Progress, RootsAreSeen
    <2> QED
        BY <2>2 DEF FirstUnseen
<1>3. DOMAIN <<>> = {}
    OBVIOUS
<1>4. \A i \in 1 .. k : ~HasUnseen(subs[V[i]], ToSet(V))
    BY <1>1, <1>3 DEF Progress, LeftIsDone
<1>5. Seen(V, k, {}) = ToSet(V)
    BY <1>1, AllIsSeen
<1> QED
    BY <1>1, <1>2, <1>4, <1>5 DEF IsNext

(* At the end of the roots nothing is left.                                *)
LEMMA PassExhausts ==
    ASSUME NEW subs, NEW roots, IsSeq(roots), NEW nxt \in Nat, nxt > Len(roots), NEW V, IsSeq(V),
           Progress(subs, roots, nxt, <<>>, V, ToSet(V))
    PROVE  Exhausted(subs, roots, {}, V)
<1>1. \A l \in DOMAIN roots : l < nxt
    BY SeqFacts
<1>2. ~HasUnseen(roots, ToSet(V))
    BY <1>1 DEF Progress, RootsAreSeen, HasUnseen
<1>3. DOMAIN <<>> = {}
    OBVIOUS
<1>4. \A i \in DOMAIN V : ~HasUnseen(subs[V[i]], ToSet(V))
    BY <1>3 DEF Progress, LeftIsDone
<1> QED
    BY <1>2, <1>4, AllIsSeen DEF Exhausted

(* The order, with one more.                                               *)
LEMMA OneMoreOrdered ==
    ASSUME NEW subs, NEW roots, NEW L, NEW V, IsSeq(V), Ordered(subs, roots, L, V),
           NEW x, IsNext(subs, roots, L, V, Len(V), x)
    PROVE  Ordered(subs, roots, L, Append(V, x))
<1>1. PICK n \in Nat : n = Len(V) /\ DOMAIN V = 1 .. n
    BY SeqFacts
<1> DEFINE W == Append(V, x)
<1>2. Len(W) = n + 1 /\ W[n + 1] = x /\ \A i \in 1 .. n : W[i] = V[i]
    BY <1>1, AppendAny
<1> HIDE DEF W
<1>3. ASSUME NEW k \in Nat, k <= n, NEW y, IsNext(subs, roots, L, V, k, y)
      PROVE  IsNext(subs, roots, L, W, k, y)
    <2>1. \A i \in 1 .. k : W[i] = V[i]
        BY <1>2, <1>3
    <2>2. Seen(V, k, L) = Seen(W, k, L)
        <3>1. {V[i] : i \in 1 .. k} = {W[i] : i \in 1 .. k}
            BY <2>1
        <3> QED
            BY <3>1 DEF Seen
    <2>3. \A i \in 1 .. k : \A h \in i + 1 .. k : h \in 1 .. k
        OBVIOUS
    <2> QED
        BY <1>3, <2>1, <2>2, <2>3 DEF IsNext
<1>4. ASSUME NEW k \in 0 .. n
      PROVE  IsNext(subs, roots, L, W, k, W[k + 1])
    <2>1. CASE k = n
        BY <1>1, <1>2, <1>3, <2>1
    <2>2. CASE k < n
        <3>1. k \in 0 .. Len(V) - 1 /\ k <= n /\ k + 1 \in 1 .. n
            BY <1>1, <2>2
        <3> QED
            BY <1>2, <1>3, <3>1 DEF Ordered
    <2> QED
        BY <2>1, <2>2
<1>5. Len(W) - 1 = n
    BY <1>2
<1> QED
    BY <1>4, <1>5 DEF Ordered, W

(* The order does not look below the last one, nor at what is left aside.  *)
LEMMA OrderedStill ==
    ASSUME NEW subs, NEW ts, NEW roots, NEW L, NEW V, IsSeq(V), Ordered(subs, roots, L, V),
           \A i \in DOMAIN V : i < Len(V) => ts[V[i]] = subs[V[i]]
    PROVE  Ordered(ts, roots, L, V)
<1>1. PICK n \in Nat : n = Len(V) /\ DOMAIN V = 1 .. n
    BY SeqFacts
<1> SUFFICES ASSUME NEW k \in 0 .. n - 1
             PROVE  IsNext(ts, roots, L, V, k, V[k + 1])
    BY <1>1 DEF Ordered
<1>2. IsNext(subs, roots, L, V, k, V[k + 1])
    BY <1>1 DEF Ordered
<1>3. \A i \in 1 .. k : ts[V[i]] = subs[V[i]] /\ \A h \in i + 1 .. k : h \in 1 .. k
    BY <1>1
<1> QED
    BY <1>2, <1>3 DEF IsNext

LEMMA OneMoreAside ==
    ASSUME NEW subs, NEW ts, NEW roots, NEW L, NEW V, IsSeq(V), NEW z, z \notin ToSet(V),
           \A i \in DOMAIN V : /\ IsSeq(subs[V[i]])
                               /\ ts[V[i]] = subs[V[i]] \/ ts[V[i]] = Append(subs[V[i]], z)
    PROVE  /\ Ordered(subs, roots, L, V) => Ordered(ts, roots, L \cup {z}, V)
           /\ Exhausted(subs, roots, L, V) => Exhausted(ts, roots, L \cup {z}, V)
<1>1. PICK n \in Nat : n = Len(V) /\ DOMAIN V = 1 .. n
    BY SeqFacts
<1>2. \A k : Seen(V, k, L \cup {z}) = Seen(V, k, L) \cup {z}
    BY DEF Seen
<1>3. ASSUME NEW i \in 1 .. n, NEW S
      PROVE  /\ ~HasUnseen(subs[V[i]], S) => ~HasUnseen(ts[V[i]], S \cup {z})
             /\ \A x : x # z /\ FirstUnseen(subs[V[i]], S, x) => FirstUnseen(ts[V[i]], S \cup {z}, x)
    <2> DEFINE q == subs[V[i]]
               r == ts[V[i]]
    <2>1. IsSeq(q) /\ Len(q) \in Nat /\ DOMAIN q = 1 .. Len(q)
        BY <1>1, SeqFacts
    <2>2. /\ DOMAIN q \subseteq DOMAIN r /\ \A l \in DOMAIN q : r[l] = q[l]
          /\ \A l \in DOMAIN r : l \in DOMAIN q \/ r[l] = z
        <3>1. CASE r = q
            BY <3>1
        <3>2. CASE r = Append(q, z)
            BY <2>1, <3>2, AppendAny
        <3> QED
            BY <1>1, <3>1, <3>2
    <2>3. ASSUME NEW j \in DOMAIN q, NEW l \in 1 .. j - 1
          PROVE  l \in DOMAIN q
        BY <2>1
    <2> HIDE DEF q, r
    <2>4. ~HasUnseen(q, S) => ~HasUnseen(r, S \cup {z})
        BY <2>2 DEF HasUnseen
    <2>5. ASSUME NEW x, x # z, FirstUnseen(q, S, x)
          PROVE  FirstUnseen(r, S \cup {z}, x)
        BY <2>2, <2>3, <2>5 DEF FirstUnseen
    <2> QED
        BY <2>4, <2>5 DEF q, r
<1>4. \A S : /\ ~HasUnseen(roots, S) => ~HasUnseen(roots, S \cup {z})
             /\ \A x : x # z /\ FirstUnseen(roots, S, x) => FirstUnseen(roots, S \cup {z}, x)
    BY DEF HasUnseen, FirstUnseen
<1>5. ASSUME Ordered(subs, roots, L, V), NEW k \in 0 .. n - 1
      PROVE  IsNext(ts, roots, L \cup {z}, V, k, V[k + 1])
    <2>1. IsNext(subs, roots, L, V, k, V[k + 1])
        BY <1>1, <1>5 DEF Ordered
    <2>2. V[k + 1] # z
        <3>1. k + 1 \in DOMAIN V
            BY <1>1
        <3> QED
            BY <3>1 DEF ToSet
    <2>3. \A i \in 1 .. k : i \in 1 .. n /\ \A h \in i + 1 .. k : h \in 1 .. n
        OBVIOUS
    <2>4. PICK S, x : S = Seen(V, k, L) /\ x = V[k + 1] /\ Seen(V, k, L \cup {z}) = S \cup {z}
        BY <1>2
    <2>5. \A i \in 1 .. k : /\ ~HasUnseen(subs[V[i]], S) => ~HasUnseen(ts[V[i]], S \cup {z})
                            /\ FirstUnseen(subs[V[i]], S, x) => FirstUnseen(ts[V[i]], S \cup {z}, x)
        BY <1>3, <2>2, <2>3, <2>4
    <2>6. \A i \in 1 .. k : \A h \in i + 1 .. k : h \in 1 .. k
        OBVIOUS
    <2>7. FirstUnseen(roots, S, x) => FirstUnseen(roots, S \cup {z}, x)
        BY <1>4, <2>2, <2>4
    <2>8. CASE FirstUnseen(roots, S, x) /\ \A i \in 1 .. k : ~HasUnseen(subs[V[i]], S)
        BY <2>4, <2>5, <2>7, <2>8 DEF IsNext
    <2>9. CASE \E i \in 1 .. k : /\ FirstUnseen(subs[V[i]], S, x)
                                 /\ \A h \in i + 1 .. k : ~HasUnseen(subs[V[h]], S)
        BY <2>4, <2>5, <2>6, <2>9 DEF IsNext
    <2> QED
        BY <2>1, <2>4, <2>8, <2>9 DEF IsNext
<1>6. Exhausted(subs, roots, L, V) => Exhausted(ts, roots, L \cup {z}, V)
    <2>1. PICK S : S = Seen(V, Len(V), L) /\ Seen(V, Len(V), L \cup {z}) = S \cup {z}
        BY <1>2
    <2> QED
        <3>1. \A i \in DOMAIN V : ~HasUnseen(subs[V[i]], S) => ~HasUnseen(ts[V[i]], S \cup {z})
            BY <1>1, <1>3
        <3>2. ~HasUnseen(roots, S) => ~HasUnseen(roots, S \cup {z})
            BY <1>4
        <3> QED
            BY <2>1, <3>1, <3>2 DEF Exhausted
<1> QED
    BY <1>1, <1>5, <1>6 DEF Ordered

-----------------------------------------------------------------------------
(* The passes that remember which modules they have visited; the first one *)
(* goes before the libs are made.                                          *)
Flagged == FsBrings .. UpdateDependencies
Libs == {m \in ModuleId : allModules[m].kind = "lib"}
Skipped(p) == IF p = FsBrings THEN Libs ELSE {}

NodesPassed(v) ==
    /\ pass = FsBrings => v.node > Len(NodesOf(v.mod))
    /\ pass = CreateModules => v.node > 1 \/ ~HasLib(v.mod)

(* Only the module entered last can have nodes left, and then nothing      *)
(* below it has been looked at.                                            *)
NodesComeFirst(V) ==
    \A i \in DOMAIN visits :
        \/ NodesPassed(visits[i])
        \/ i = Len(visits) /\ visits[i].sub = 1 /\ visits[i].mod = V[Len(V)]

UnderWay(V) ==
    /\ Progress(submodules, fileEntities, next, visits, V, ToSet(V))
    /\ NodesComeFirst(V)

InOrder(p) ==
    /\ IsSeq(visited[p]) /\ ToSet(visited[p]) \subseteq ModuleId /\ IsInjective(visited[p])
    /\ p > pass => visited[p] = <<>>
    /\ Ordered(submodules, fileEntities, Skipped(p), visited[p])
    /\ p < pass => Exhausted(submodules, fileEntities, Skipped(p), visited[p])

OrderInv ==
    outcome \in {"running", "done"} =>
        /\ \A p \in Flagged : InOrder(p)
        /\ pass <= FsBrings => Libs = {}
        /\ \A m \in Libs : submodules[m] = <<>>
        /\ outcome = "running" /\ pass \in Flagged => UnderWay(visited[pass])

LEMMA FlaggedPasses ==
    /\ Flagged = 1 .. 4 /\ Pass = 1 .. 5 /\ Flagged \subseteq Pass
    /\ FsBrings = 1 /\ CreateModules = 2 /\ SetupFiles = 5
    /\ \A p \in 0 .. SetupFiles : p \in Flagged \/ p = 0 \/ p = SetupFiles
BY DEF Flagged, Pass, FsBrings, CreateModules, UpdateDependencies, SetupFiles

(* The tree, as sequences.                                                 *)
LEMMA TreeSequences ==
    ASSUME TreeInv
    PROVE  /\ IsSeq(fileEntities) /\ IsSeq(submodules) /\ DOMAIN submodules = ModuleId
           /\ \A m \in ModuleId : IsSeq(submodules[m]) /\ ToSet(submodules[m]) \subseteq ModuleId
           /\ \A l \in DOMAIN fileEntities : fileEntities[l] \in ModuleId
           /\ IsSeq(visits) /\ visits \in Seq(Visit) /\ \A i \in DOMAIN visits : visits[i] \in Visit
           /\ next \in Nat \ {0}
<1>1. submodules \in Seq(Seq(ModuleId)) /\ Len(submodules) = Len(allModules)
    BY DEF TreeInv, Tree
<1>2. IsSeq(submodules) /\ DOMAIN submodules = ModuleId /\ \A m \in ModuleId : submodules[m] \in Seq(ModuleId)
    BY <1>1, SeqOfIsSeq DEF ModuleId
<1>3. \A m \in ModuleId : IsSeq(submodules[m]) /\ ToSet(submodules[m]) \subseteq ModuleId
    BY <1>2, SeqOfIsSeq, ElementsOfSeq
<1>4. fileEntities \in Seq(ModuleId) /\ IsSeq(fileEntities) /\ \A l \in DOMAIN fileEntities : fileEntities[l] \in ModuleId
    BY SeqOfIsSeq DEF TreeInv
<1>5. visits \in Seq(Visit) /\ IsSeq(visits) /\ \A i \in DOMAIN visits : visits[i] \in Visit
    <2>1. visits \in Seq(Visit)
        BY DEF TreeInv, Visit
    <2> QED
        BY <2>1, SeqOfIsSeq
<1> QED
    BY <1>2, <1>3, <1>4, <1>5 DEF TreeInv

(* The pass under way skips nothing: there are libs only from the second   *)
(* pass on.                                                                *)
LEMMA NothingSkipped ==
    ASSUME OrderInv, outcome = "running"
    PROVE  Skipped(pass) = {}
BY FlaggedPasses DEF OrderInv, Skipped

(* What the steps keep that leave the tree alone.                          *)
LEMMA NodesPassedKept ==
    ASSUME UNCHANGED <<discoveryVars, pass>>
    PROVE  /\ ModuleId' = ModuleId /\ Libs' = Libs /\ \A p : Skipped(p)' = Skipped(p)
           /\ \A v : NodesPassed(v)' <=> NodesPassed(v)
           /\ UNCHANGED <<submodules, fileEntities>>
<1>1. UNCHANGED <<project, allModules, submodules, fileEntities>>
    BY DEF discoveryVars, moduleVars
<1>2. ModuleId' = ModuleId /\ Libs' = Libs
    BY <1>1 DEF ModuleId, Libs
<1>3. \A p : Skipped(p)' = Skipped(p)
    BY <1>2 DEF Skipped
<1>4. \A m : NodesOf(m)' = NodesOf(m) /\ (HasLib(m)' <=> HasLib(m))
    BY <1>1, NodesKept DEF HasLib
<1>5. \A v : NodesPassed(v)' <=> NodesPassed(v)
    BY <1>4 DEF NodesPassed
<1> QED
    BY <1>1, <1>2, <1>3, <1>5

(* The last pass has no flags, and changes nothing the others have done.   *)
LEMMA LastPassInOrder ==
    ASSUME OrderInv, pass = SetupFiles, outcome = "running", UNCHANGED <<discoveryVars, pass>>,
           \A p \in Flagged : visited'[p] = visited[p]
    PROVE  OrderInv'
<1>1. /\ ModuleId' = ModuleId /\ Libs' = Libs /\ \A p : Skipped(p)' = Skipped(p)
      /\ UNCHANGED <<submodules, fileEntities>>
    BY NodesPassedKept
<1>2. \A p \in Flagged : InOrder(p)'
    BY <1>1 DEF OrderInv, InOrder
<1>3. pass' = SetupFiles /\ Flagged' = Flagged
    BY DEF Flagged
<1> QED
    BY <1>1, <1>2, <1>3, FlaggedPasses DEF OrderInv

(* A module that a pass comes to, as the next one or again.                *)
LEMMA EnterInOrder ==
    ASSUME TreeInv, EffectInv, OrderInv, outcome = "running", pass \in Flagged,
           NEW V, V = visited[pass],
           NEW m \in ModuleId, NEW below, IsSeq(below), Enter(m, below), UNCHANGED <<discoveryVars, pass>>,
           Progress(submodules, fileEntities, next', below, V, ToSet(V) \cup {m}),
           \A i \in DOMAIN below : NodesPassed(below[i]),
           m \notin ToSet(V) => IsNext(submodules, fileEntities, {}, V, Len(V), m)
    PROVE  OrderInv'
<1>1. /\ ModuleId' = ModuleId /\ Libs' = Libs /\ \A p : Skipped(p)' = Skipped(p)
      /\ UNCHANGED <<submodules, fileEntities>>
      /\ \A v : NodesPassed(v)' <=> NodesPassed(v)
    BY NodesPassedKept
<1>2. /\ \A p \in Flagged : InOrder(p)
      /\ pass <= FsBrings => Libs = {}
      /\ \A x \in Libs : submodules[x] = <<>>
    BY DEF OrderInv
<1>3. pass # SetupFiles /\ pass \in Pass /\ pass' = pass
    BY FlaggedPasses
<1>4. CASE visits' = below /\ UNCHANGED <<visited, outcome>> /\ m \in ToSet(V)
    <2>1. \A p \in Flagged : InOrder(p)'
        BY <1>1, <1>2, <1>4 DEF InOrder
    <2>2. ToSet(V) \cup {m} = ToSet(V)
        BY <1>4
    <2>3. Progress(submodules, fileEntities, next', below, V, ToSet(V))
        BY <2>2
    <2>4. UnderWay(V)'
        BY <1>1, <1>4, <2>3 DEF UnderWay, NodesComeFirst
    <2>5. visited'[pass'] = V
        BY <1>4
    <2> QED
        BY <1>1, <1>2, <1>4, <2>1, <2>4, <2>5 DEF OrderInv
<1>5. CASE outcome' = "overflow"
    BY <1>5 DEF OrderInv
<1>6. CASE /\ visits' = Append(below, [mod |-> m, node |-> 1, sub |-> 1])
           /\ visited' = [visited EXCEPT ![pass] = Append(@, m)]
           /\ UNCHANGED outcome /\ m \notin ToSet(V)
    <2> DEFINE v == [mod |-> m, node |-> 1, sub |-> 1]
    <2>0. PICK W : W = Append(V, m)
        OBVIOUS
    <2>1. visited'[pass] = W /\ \A p \in Flagged : p # pass => visited'[p] = visited[p]
        BY <1>3, <1>6, <2>0, FlaggedPasses DEF EffectInv
    <2>2. v.mod = m /\ v.sub = 1
        OBVIOUS
    <2>3. visits' = Append(below, v)
        BY <1>6
    <2> HIDE DEF v
    <2>4. IsSeq(V) /\ ToSet(V) \subseteq ModuleId /\ IsInjective(V) /\ Ordered(submodules, fileEntities, {}, V)
        BY <1>2, NothingSkipped DEF InOrder
    <2>5. ToSet(W) = ToSet(V) \cup {m} /\ IsSeq(W) /\ Len(W) = Len(V) + 1 /\ W[Len(W)] = m
        BY <2>0, <2>4, AppendAny, AppendAdds
    <2>6. IsInjective(W)
        <3>1. /\ DOMAIN V = 1 .. Len(V) /\ Len(V) \in Nat
              /\ DOMAIN W = 1 .. Len(V) + 1 /\ \A i \in 1 .. Len(V) : W[i] = V[i]
            BY <2>0, <2>4, AppendAny, SeqFacts
        <3>2. \A i \in 1 .. Len(V) + 1 : i \in 1 .. Len(V) \/ i = Len(V) + 1
            BY <3>1
        <3>3. \A i \in 1 .. Len(V) : W[i] # m
            BY <1>6, <3>1 DEF ToSet
        <3> QED
            BY <2>4, <2>5, <3>1, <3>2, <3>3 DEF IsInjective
    <2>7. Ordered(submodules, fileEntities, {}, W)
        BY <1>6, <2>0, <2>4, OneMoreOrdered
    <2>8. IsSeq(submodules[v.mod])
        BY <2>2, TreeSequences
    <2>9. Progress(submodules, fileEntities, next', visits', W, ToSet(W))
        BY <2>0, <2>2, <2>3, <2>4, <2>5, <2>8, PushedInOrder
    <2>10. NodesComeFirst(W)'
        <3>1. /\ DOMAIN visits' = 1 .. Len(below) + 1 /\ Len(visits') = Len(below) + 1
              /\ \A i \in 1 .. Len(below) : visits'[i] = below[i]
              /\ visits'[Len(below) + 1] = v
              /\ DOMAIN below = 1 .. Len(below) /\ Len(below) \in Nat
            BY <2>3, AppendAny, SeqFacts
        <3>2. \A i \in 1 .. Len(below) + 1 : i \in 1 .. Len(below) \/ i = Len(below) + 1
            BY <3>1
        <3> QED
            BY <1>1, <2>2, <2>5, <3>1, <3>2 DEF NodesComeFirst
    <2>11. UnderWay(W)' /\ visited'[pass'] = W
        BY <1>1, <1>3, <2>1, <2>9, <2>10 DEF UnderWay
    <2>12. ASSUME NEW p \in Flagged
           PROVE  InOrder(p)'
        <3>1. CASE p # pass
            BY <1>1, <1>2, <2>1, <3>1 DEF InOrder
        <3>2. CASE p = pass
            <4>1. ~(p > pass) /\ ~(p < pass)
                BY <3>2, FlaggedPasses
            <4>2. Skipped(p) = {}
                BY <3>2, NothingSkipped
            <4>3. ToSet(W) \subseteq ModuleId
                BY <2>4, <2>5
            <4> QED
                BY <1>1, <2>1, <2>5, <2>6, <2>7, <3>2, <4>1, <4>2, <4>3 DEF InOrder
        <3> QED
            BY <3>1, <3>2
    <2> QED
        BY <1>1, <1>2, <1>6, <2>11, <2>12 DEF OrderInv
<1> QED
    BY <1>3, <1>4, <1>5, <1>6 DEF Enter, Once

LEMMA VisitEntityInOrder ==
    ASSUME TreeInv, EffectInv, OrderInv, VisitEntity
    PROVE  OrderInv'
<1>1. /\ outcome = "running" /\ pass \in Pass /\ visits = <<>> /\ next <= Len(fileEntities)
      /\ next' = next + 1 /\ Enter(fileEntities[next], <<>>) /\ UNCHANGED <<discoveryVars, pass>>
    BY DEF VisitEntity
<1>2. IsSeq(fileEntities) /\ next \in DOMAIN fileEntities /\ fileEntities[next] \in ModuleId /\ next \in Nat
    BY <1>1, TreeSequences, SeqFacts
<1>3. CASE pass = SetupFiles
    <2>1. \A p \in Flagged : visited'[p] = visited[p]
        BY <1>1, <1>3, FlaggedPasses DEF Enter, EffectInv
    <2> QED
        BY <1>1, <1>3, <2>1, LastPassInOrder
<1>4. CASE pass \in Flagged
    <2>1. PICK V, m : V = visited[pass] /\ m = fileEntities[next]
        OBVIOUS
    <2>2. InOrder(pass) /\ UnderWay(V)
        BY <1>1, <1>4, <2>1 DEF OrderInv
    <2>3. IsSeq(V) /\ Progress(submodules, fileEntities, next, <<>>, V, ToSet(V))
        BY <1>1, <2>1, <2>2 DEF InOrder, UnderWay
    <2>4. m \notin ToSet(V) => IsNext(submodules, fileEntities, {}, V, Len(V), m)
        BY <1>2, <2>1, <2>3, NextOfRoots
    <2>5. Progress(submodules, fileEntities, next, <<>>, V, ToSet(V) \cup {m})
        BY <2>3, MoreSeen
    <2>6. Progress(submodules, fileEntities, next', <<>>, V, ToSet(V) \cup {m})
        BY <1>1, <1>2, <2>1, <2>5, RootPassed
    <2>7. IsSeq(<<>>) /\ DOMAIN <<>> = {}
        BY EmptyIsSeq
    <2>8. \A i \in DOMAIN <<>> : NodesPassed(<<>>[i])
        BY <2>7
    <2>9. m \in ModuleId /\ Enter(m, <<>>)
        BY <1>1, <1>2, <2>1
    <2> QED
        BY <1>1, <1>4, <2>1, <2>4, <2>6, <2>7, <2>8, <2>9, EnterInOrder
<1> QED
    BY <1>1, <1>3, <1>4, FlaggedPasses

(* The visits within which the innermost one is have their nodes done.     *)
LEMMA OuterNodesPassed ==
    ASSUME NEW V, visits \in Seq(Visit), visits # <<>>, NodesComeFirst(V)
    PROVE  \A i \in 1 .. Len(visits) - 1 : NodesPassed(visits[i])
<1>1. Len(visits) \in Nat /\ DOMAIN visits = 1 .. Len(visits)
    BY VisitsEnd
<1>2. \A i \in 1 .. Len(visits) - 1 : i \in DOMAIN visits /\ i # Len(visits)
    <2>1. \A n \in Nat : \A i \in 1 .. n - 1 : i \in 1 .. n /\ i # n
        OBVIOUS
    <2> QED
        BY <1>1, <2>1
<1> QED
    BY <1>2 DEF NodesComeFirst

LEMMA VisitSubmoduleInOrder ==
    ASSUME TreeInv, EffectInv, OrderInv, VisitSubmodule
    PROVE  OrderInv'
<1> DEFINE v == [mod |-> at.mod, node |-> at.node, sub |-> at.sub + 1]
           below == Append(Front(visits), v)
<1>1. /\ outcome = "running" /\ visits # <<>> /\ NodesDone /\ at.sub <= Len(submodules[at.mod])
      /\ Enter(submodules[at.mod][at.sub], below) /\ UNCHANGED <<discoveryVars, pass, next>>
    BY DEF VisitSubmodule
<1>2. visits \in Seq(Visit)
    BY TreeSequences
<1>3. /\ at.mod \in ModuleId /\ at.sub \in Nat \ {0} /\ IsSeq(submodules[at.mod])
      /\ at.sub \in DOMAIN submodules[at.mod] /\ submodules[at.mod][at.sub] \in ModuleId
    <2>1. at.mod \in ModuleId /\ at.sub \in Nat \ {0}
        BY <1>1, <1>2, TopVisit
    <2>2. IsSeq(submodules[at.mod]) /\ ToSet(submodules[at.mod]) \subseteq ModuleId
        BY <2>1, TreeSequences
    <2>3. at.sub \in DOMAIN submodules[at.mod]
        BY <1>1, <2>1, <2>2, SeqFacts
    <2> QED
        BY <2>1, <2>2, <2>3 DEF ToSet
<1>4. pass # 0
    BY <1>1 DEF EffectInv
<1>5. CASE pass = SetupFiles
    <2>1. \A p \in Flagged : visited'[p] = visited[p]
        <3> HIDE DEF below
        <3> QED
            BY <1>1, <1>5, FlaggedPasses DEF Enter, EffectInv
    <2> QED
        BY <1>1, <1>5, <2>1, LastPassInOrder
<1>6. CASE pass \in Flagged
    <2>1. PICK V, m, n : V = visited[pass] /\ m = submodules[at.mod][at.sub] /\ n = Len(visits) - 1
        OBVIOUS
    <2>2. InOrder(pass) /\ UnderWay(V)
        BY <1>1, <1>6, <2>1 DEF OrderInv
    <2>3. /\ IsSeq(V) /\ IsInjective(V) /\ Progress(submodules, fileEntities, next, visits, V, ToSet(V))
          /\ NodesComeFirst(V)
        BY <2>1, <2>2 DEF InOrder, UnderWay
    <2>4. /\ n \in Nat /\ Len(visits) = n + 1 /\ DOMAIN visits = 1 .. n + 1 /\ at = visits[n + 1]
        BY <1>1, <1>2, <2>1, VisitsEnd
    <2>5. m \notin ToSet(V) => IsNext(submodules, fileEntities, {}, V, Len(V), m)
        BY <1>3, <2>1, <2>3, <2>4, NextBelow
    <2>6. Progress(submodules, fileEntities, next, visits, V, ToSet(V) \cup {m})
        BY <2>3, MoreSeen
    <2>7. /\ IsSeq(below) /\ DOMAIN below = 1 .. n + 1
          /\ \A i \in 1 .. n : below[i] = visits[i]
          /\ below[n + 1] = v
        <3> HIDE DEF v
        <3>1. n = Len(visits) - 1
            BY <2>1
        <3> QED
            BY <1>1, <1>2, <2>4, <3>1, VisitReplaced
    <2>8. \A i \in 1 .. n + 1 : i \in 1 .. n \/ i = n + 1
        BY <2>4
    <2>9. v.mod = at.mod /\ v.node = at.node /\ v.sub = at.sub + 1
        OBVIOUS
    <2> HIDE DEF v, below
    <2>10. \A i \in DOMAIN visits : visits[i] \in Visit /\ IsSeq(submodules[visits[i].mod]) /\ visits[i].sub \in Nat
        <3>1. \A i \in DOMAIN visits : visits[i] \in Visit
            BY TreeSequences
        <3>2. \A w \in Visit : w.mod \in ModuleId /\ w.sub \in Nat
            BY DEF Visit
        <3> QED
            BY <3>1, <3>2, TreeSequences
    <2>11. ASSUME NEW i \in DOMAIN visits
           PROVE  /\ below[i].mod = visits[i].mod /\ visits[i].sub \in Nat
                  /\ \/ below[i].sub = visits[i].sub
                     \/ below[i].sub = visits[i].sub + 1 /\ submodules[visits[i].mod][visits[i].sub] \in ToSet(V) \cup {m}
        BY <2>1, <2>4, <2>7, <2>8, <2>9, <2>10
    <2>12. DOMAIN below = DOMAIN visits
        BY <2>4, <2>7
    <2>13. Progress(submodules, fileEntities, next, below, V, ToSet(V) \cup {m})
        BY <2>6, <2>10, <2>11, <2>12, VisitsGoOn
    <2>14. ASSUME NEW i \in DOMAIN below
           PROVE  NodesPassed(below[i])
        <3>1. CASE i \in 1 .. n
            BY <1>1, <1>2, <2>1, <2>3, <2>7, <3>1, OuterNodesPassed
        <3>2. CASE i = n + 1
            BY <1>1, <2>7, <2>9, <3>2 DEF NodesDone, NodesPassed
        <3> QED
            BY <2>7, <2>8, <3>1, <3>2
    <2>15. m \in ModuleId /\ Enter(m, below)
        BY <1>1, <1>3, <2>1
    <2>16. next' = next
        BY <1>1
    <2> QED
        BY <1>1, <1>6, <2>1, <2>5, <2>7, <2>13, <2>14, <2>15, <2>16, EnterInOrder
<1> QED
    BY <1>4, <1>5, <1>6, FlaggedPasses DEF EffectInv

LEMMA LeaveModuleInOrder ==
    ASSUME TreeInv, EffectInv, OrderInv, LeaveModule
    PROVE  OrderInv'
<1>1. /\ outcome = "running" /\ visits # <<>> /\ NodesDone /\ at.sub > Len(submodules[at.mod])
      /\ visits' = Front(visits) /\ UNCHANGED <<discoveryVars, pass, next, visited, outcome>>
    BY DEF LeaveModule
<1>2. visits \in Seq(Visit) /\ at.mod \in ModuleId /\ IsSeq(submodules[at.mod]) /\ at.sub \in Nat
    BY <1>1, TreeSequences, TopVisit
<1>3. pass # 0
    BY <1>1 DEF EffectInv
<1>4. CASE pass = SetupFiles
    BY <1>1, <1>4, LastPassInOrder
<1>5. CASE pass \in Flagged
    <2>1. PICK V, n : V = visited[pass] /\ n = Len(visits) - 1
        OBVIOUS
    <2>2. UnderWay(V)
        BY <1>1, <1>5, <2>1 DEF OrderInv
    <2>3. /\ n \in Nat /\ Len(visits) = n + 1 /\ DOMAIN visits = 1 .. n + 1 /\ at = visits[n + 1]
          /\ DOMAIN visits' = 1 .. n /\ \A i \in 1 .. n : visits'[i] = visits[i]
        BY <1>1, <1>2, <2>1, VisitsEnd
    <2>4. Progress(submodules, fileEntities, next, visits', V, ToSet(V))
        <3>1. Progress(submodules, fileEntities, next, visits, V, ToSet(V))
            BY <2>2 DEF UnderWay
        <3> QED
            BY <1>1, <1>2, <2>3, <3>1, VisitEnds
    <2>5. \A i \in 1 .. n : NodesPassed(visits[i])
        BY <1>1, <1>2, <2>1, <2>2, OuterNodesPassed DEF UnderWay
    <2>6. /\ ModuleId' = ModuleId /\ Libs' = Libs /\ \A p : Skipped(p)' = Skipped(p)
          /\ UNCHANGED <<submodules, fileEntities>>
          /\ \A v : NodesPassed(v)' <=> NodesPassed(v)
        BY <1>1, NodesPassedKept
    <2>7. UnderWay(V)' /\ visited'[pass'] = V
        BY <1>1, <2>1, <2>3, <2>4, <2>5, <2>6 DEF UnderWay, NodesComeFirst
    <2>8. \A p \in Flagged : InOrder(p)'
        BY <1>1, <2>6 DEF OrderInv, InOrder
    <2> QED
        BY <1>1, <2>6, <2>7, <2>8 DEF OrderInv
<1> QED
    BY <1>3, <1>4, <1>5, FlaggedPasses DEF EffectInv

LEMMA StartPassInOrder ==
    ASSUME TreeInv, EffectInv, OrderInv, StartPass
    PROVE  OrderInv'
<1>1. /\ outcome = "running" /\ visits = <<>> /\ (pass = 0 \/ next > Len(fileEntities))
      /\ UNCHANGED <<discoveryVars, visits, visited>>
    BY DEF StartPass
<1>2. /\ \A p \in Flagged : InOrder(p)
      /\ pass <= FsBrings => Libs = {}
      /\ \A m \in Libs : submodules[m] = <<>>
      /\ pass \in Flagged => UnderWay(visited[pass])
    BY <1>1 DEF OrderInv
<1>3. /\ ModuleId' = ModuleId /\ Libs' = Libs /\ \A p : Skipped(p)' = Skipped(p)
      /\ UNCHANGED <<submodules, fileEntities>>
    <2>1. UNCHANGED <<allModules, submodules, fileEntities>>
        BY <1>1 DEF discoveryVars, moduleVars
    <2> QED
        BY <2>1 DEF ModuleId, Libs, Skipped
<1>4. pass \in 0 .. SetupFiles /\ pass \in Nat
    BY FlaggedPasses DEF EffectInv
<1>5. IsSeq(fileEntities) /\ next \in Nat
    BY TreeSequences
<1>6. CASE pass = SetupFiles
    <2>1. outcome' = "done" /\ pass' = pass
        BY <1>6 DEF StartPass
    <2>2. \A p \in Flagged : InOrder(p)'
        BY <1>1, <1>2, <1>3, <2>1 DEF InOrder
    <2> QED
        BY <1>2, <1>3, <2>1, <2>2 DEF OrderInv
<1>7. CASE pass # SetupFiles
    <2>1. pass' = pass + 1 /\ next' = 1 /\ outcome' = "running" /\ visits' = <<>>
        BY <1>1, <1>7 DEF StartPass
    <2>2. pass \in Flagged => Exhausted(submodules, fileEntities, Skipped(pass), visited[pass])
        <3> SUFFICES ASSUME pass \in Flagged
                     PROVE  Exhausted(submodules, fileEntities, Skipped(pass), visited[pass])
            OBVIOUS
        <3>1. next > Len(fileEntities)
            BY <1>1, FlaggedPasses
        <3>2. Skipped(pass) = {}
            BY <1>1, NothingSkipped
        <3>3. IsSeq(visited[pass])
            BY <1>2 DEF InOrder
        <3>4. Progress(submodules, fileEntities, next, <<>>, visited[pass], ToSet(visited[pass]))
            BY <1>1, <1>2 DEF UnderWay
        <3> QED
            BY <1>5, <3>1, <3>2, <3>3, <3>4, PassExhausts
    <2>3. ASSUME NEW p \in Flagged
          PROVE  InOrder(p)'
        <3>1. InOrder(p) /\ p \in Nat
            BY <1>2, FlaggedPasses
        <3>2. p > pass + 1 => p > pass
            BY <1>4, <3>1
        <3>3. p < pass + 1 => p < pass \/ p = pass
            BY <1>4, <3>1
        <3> QED
            BY <1>1, <1>3, <2>1, <2>2, <3>1, <3>2, <3>3 DEF InOrder
    <2>4. ASSUME pass' \in Flagged
          PROVE  \E V : visited'[pass'] = V /\ UnderWay(V)'
        <3>1. InOrder(pass') /\ pass' > pass
            BY <1>2, <1>4, <2>1, <2>4
        <3>2. visited[pass'] = <<>>
            BY <3>1 DEF InOrder
        <3>3. DOMAIN <<>> = {}
            OBVIOUS
        <3>4. \A l \in DOMAIN fileEntities : ~(l < 1)
            BY <1>5, SeqFacts
        <3>5. Progress(submodules, fileEntities, 1, <<>>, <<>>, ToSet(<<>>))
            BY <3>3, <3>4 DEF Progress, StackInOrder, LeftIsDone, PassedIsSeen, RootsAreSeen
        <3>6. UnderWay(<<>>)'
            BY <1>3, <2>1, <3>3, <3>5 DEF UnderWay, NodesComeFirst
        <3>7. visited'[pass'] = <<>>
            BY <1>1, <3>2
        <3> QED
            BY <3>6, <3>7
    <2>5. pass' <= FsBrings => Libs' = {}
        BY <1>2, <1>3, <1>4, <2>1, FlaggedPasses
    <2>6. Flagged' = Flagged
        BY DEF Flagged
    <2> QED
        BY <1>2, <1>3, <2>1, <2>3, <2>4, <2>5, <2>6 DEF OrderInv
<1> QED
    BY <1>6, <1>7

(* The modules that discovery makes are no libs.                           *)
LEMMA DiscoverInOrder ==
    ASSUME TreeInv, TreeInv', EffectInv, OrderInv, Discover
    PROVE  OrderInv'
<1>1. pass = 0 /\ outcome = "running" /\ DiscoveryNext /\ UNCHANGED passVars
    BY DEF Discover
<1>2. /\ UNCHANGED <<pass, visited, outcome>> /\ pass' = 0 /\ outcome' = "running"
      /\ \A p \in Flagged : visited[p] = <<>>
      /\ Libs = {}
    BY <1>1, FlaggedPasses DEF passVars, OrderInv, InOrder
<1>3. Libs' = {}
    <2>1. DiscoveryShape
        BY <1>1, WalksAreStacks, DiscoveryIsShaped DEF TreeInv
    <2>2. CASE UNCHANGED moduleVars
        BY <1>2, <2>2 DEF Libs, ModuleId, moduleVars
    <2>3. CASE \E p, kind, par : create_submodule(p, kind, par) /\ kind # "lib"
        <3>1. PICK p, kind, par : create_submodule(p, kind, par) /\ kind # "lib"
            BY <2>3
        <3>2. IsSeq(allModules)
            BY SeqOfIsSeq DEF TreeInv, Tree
        <3>3. /\ Len(allModules) \in Nat
              /\ ModuleId = 1 .. Len(allModules) /\ ModuleId' = 1 .. Len(allModules) + 1
              /\ \A m \in ModuleId : allModules'[m] = allModules[m]
              /\ allModules'[Len(allModules) + 1].kind = kind
            BY <3>1, <3>2, ModulesGrow
        <3>4. \A m \in ModuleId' : m \in ModuleId \/ m = Len(allModules) + 1
            BY <3>3
        <3> QED
            BY <1>2, <3>1, <3>3, <3>4 DEF Libs
    <2> QED
        BY <2>1, <2>2, <2>3 DEF DiscoveryShape
<1>4. ASSUME NEW p \in Flagged
      PROVE  InOrder(p)'
    <2>1. visited'[p] = <<>> /\ IsSeq(<<>>) /\ ToSet(<<>>) = {} /\ IsInjective(<<>>)
        BY <1>2, EmptyIsSeq DEF ToSet, IsInjective
    <2>2. \A s, r, L : Ordered(s, r, L, <<>>)
        BY EmptyIsSeq DEF Ordered
    <2>3. ~(p < 0) /\ p \in Flagged
        BY FlaggedPasses
    <2>4. InOrder(p)' <=> /\ IsSeq(visited'[p]) /\ ToSet(visited'[p]) \subseteq ModuleId' /\ IsInjective(visited'[p])
                          /\ p > pass' => visited'[p] = <<>>
                          /\ Ordered(submodules', fileEntities', Skipped(p)', visited'[p])
                          /\ p < pass' => Exhausted(submodules', fileEntities', Skipped(p)', visited'[p])
        BY DEF InOrder
    <2> QED
        BY <1>2, <2>1, <2>2, <2>3, <2>4
<1>5. 0 \notin Flagged
    BY FlaggedPasses
<1> QED
    BY <1>2, <1>3, <1>4, <1>5 DEF OrderInv

(* A node of the module visited: nothing below the module has been looked  *)
(* at, and no other module has more below it.                              *)
LEMMA NodeInOrder ==
    ASSUME TreeInv, TreeInv', OrderInv, outcome = "running", pass \in Flagged,
           visits # <<>>, ~NodesDone, NextNode,
           UNCHANGED <<project, pass, next, fileEntities>>, ModuleId \subseteq ModuleId',
           \A x \in ModuleId : allModules'[x] = allModules[x],
           \A x \in ModuleId : x # at.mod => submodules'[x] = submodules[x],
           NEW V, V = visited[pass]
    PROVE  UnderWay(V)' /\ Ordered(submodules', fileEntities', {}, V)
<1>0. \A m \in ModuleId' : IsSeq(submodules'[m])
    <2>1. submodules' \in Seq(Seq(ModuleId')) /\ Len(submodules') = Len(allModules')
        BY DEF TreeInv, Tree
    <2>2. DOMAIN submodules' = ModuleId' /\ \A m \in ModuleId' : submodules'[m] \in Seq(ModuleId')
        BY <2>1 DEF ModuleId
    <2> QED
        BY <2>2, SeqOfIsSeq
<1>1. PICK n : n = Len(visits) - 1
    OBVIOUS
<1>2. visits \in Seq(Visit)
    BY TreeSequences
<1>3. /\ n \in Nat /\ Len(visits) = n + 1 /\ DOMAIN visits = 1 .. n + 1 /\ at = visits[n + 1]
      /\ at \in Visit /\ n + 1 \in 1 .. n + 1 /\ \A i \in 1 .. n + 1 : i \in 1 .. n \/ i = n + 1
    BY <1>1, <1>2, VisitsEnd
<1> DEFINE v == [mod |-> at.mod, node |-> at.node + 1, sub |-> at.sub]
<1>4. /\ IsSeq(visits') /\ DOMAIN visits' = 1 .. n + 1
      /\ \A i \in 1 .. n : visits'[i] = visits[i]
      /\ visits'[n + 1] = v
    <2>1. visits' = Append(Front(visits), v)
        BY DEF NextNode
    <2> HIDE DEF v
    <2> QED
        BY <1>1, <1>2, <1>3, <2>1, VisitReplaced
<1>5. v.mod = at.mod /\ v.sub = at.sub
    OBVIOUS
<1> HIDE DEF v
<1>6. InOrder(pass) /\ UnderWay(V)
    BY DEF OrderInv
<1>7. /\ IsSeq(V) /\ IsInjective(V) /\ ToSet(V) \subseteq ModuleId
      /\ Ordered(submodules, fileEntities, {}, V)
      /\ Progress(submodules, fileEntities, next, visits, V, ToSet(V)) /\ NodesComeFirst(V)
    BY <1>6, NothingSkipped DEF InOrder, UnderWay
<1>8. at.sub = 1 /\ at.mod = V[Len(V)]
    <2>1. ~NodesPassed(visits[n + 1])
        BY <1>3 DEF NodesDone, NodesPassed
    <2> QED
        BY <1>3, <1>7, <2>1 DEF NodesComeFirst
<1>9. at.mod \in ModuleId /\ IsSeq(submodules'[at.mod])
    <2>1. at.mod \in ModuleId /\ at.mod \in ModuleId'
        BY <1>3 DEF Visit
    <2> QED
        BY <1>0, <2>1
<1>10. PICK k \in Nat : k = Len(V) /\ DOMAIN V = 1 .. k
    BY <1>7, SeqFacts
<1>11. Ordered(submodules', fileEntities', {}, V)
    <2>1. ASSUME NEW i \in DOMAIN V, i < Len(V)
          PROVE  submodules'[V[i]] = submodules[V[i]]
        <3>1. k \in DOMAIN V /\ i # k
            BY <1>10, <2>1
        <3>2. V[i] # at.mod
            BY <1>7, <1>8, <1>10, <3>1 DEF IsInjective
        <3>3. V[i] \in ModuleId
            BY <1>7 DEF ToSet
        <3> QED
            BY <3>2, <3>3
    <2> QED
        BY <1>7, <2>1, OrderedStill
<1>12. ASSUME NEW i \in 1 .. n
       PROVE  visits[i].mod # at.mod
    <2>1. i < n + 1 /\ i \in 1 .. n + 1
        BY <1>3
    <2>2. Before(visits[i].mod, at.mod, V)
        BY <1>3, <1>7, <2>1 DEF Progress, StackInOrder
    <2>3. PICK a, b \in DOMAIN V : a < b /\ V[a] = visits[i].mod /\ V[b] = at.mod
        BY <2>2 DEF Before
    <2>4. a # b
        BY <1>10, <2>3
    <2> QED
        BY <1>7, <2>3, <2>4 DEF IsInjective
<1>13. Progress(submodules', fileEntities, next, visits, V, ToSet(V))
    <2>1. \A i \in DOMAIN visits : i = n + 1 \/ visits[i].mod # visits[n + 1].mod
        BY <1>3, <1>12
    <2>2. \A x \in ToSet(V) : x # visits[n + 1].mod => submodules'[x] = submodules[x]
        BY <1>3, <1>7
    <2>3. n + 1 \in DOMAIN visits /\ visits[n + 1].sub = 1 /\ IsSeq(submodules'[visits[n + 1].mod])
        BY <1>3, <1>8, <1>9
    <2> QED
        BY <1>7, <2>1, <2>2, <2>3, MoreBelow
<1>14. Progress(submodules', fileEntities, next, visits', V, ToSet(V))
    <2>1. ASSUME NEW i \in DOMAIN visits
          PROVE  IsSeq(submodules'[visits[i].mod]) /\ visits[i].sub \in Nat
        <3>1. visits[i] \in Visit
            BY TreeSequences
        <3>2. visits[i].mod \in ModuleId' /\ visits[i].sub \in Nat
            BY <3>1 DEF Visit
        <3> QED
            BY <1>0, <3>2
    <2>2. \A i \in DOMAIN visits : visits'[i].mod = visits[i].mod /\ visits'[i].sub = visits[i].sub
        BY <1>3, <1>4, <1>5
    <2>3. DOMAIN visits' = DOMAIN visits
        BY <1>3, <1>4
    <2> QED
        BY <1>13, <2>1, <2>2, <2>3, VisitsGoOn
<1>15. NodesComeFirst(V)'
    <2>1. ASSUME NEW i \in 1 .. n
          PROVE  \E w : visits'[i] = w /\ NodesPassed(w)'
        <3>1. PICK w : w = visits[i] /\ w \in Visit
            BY <1>3, TreeSequences
        <3>2. w.mod \in ModuleId
            BY <3>1 DEF Visit
        <3>3. NodesOf(w.mod)' = NodesOf(w.mod) /\ (HasLib(w.mod)' <=> HasLib(w.mod))
            BY <3>2, NodesKept DEF HasLib
        <3>4. NodesPassed(w)
            BY <1>1, <1>2, <1>7, <3>1, OuterNodesPassed
        <3>5. NodesPassed(w)'
            BY <3>3, <3>4 DEF NodesPassed
        <3>6. visits'[i] = w
            BY <1>4, <3>1
        <3> QED
            BY <3>5, <3>6
    <2>2. Len(visits') = n + 1
        BY <1>3, <1>4, SeqFacts, LengthsAgree
    <2>3. \A i \in DOMAIN visits' : i \in 1 .. n \/ i = n + 1
        BY <1>3, <1>4
    <2> QED
        BY <1>4, <1>5, <1>8, <2>1, <2>2, <2>3 DEF NodesComeFirst
<1> QED
    BY <1>11, <1>14, <1>15 DEF UnderWay

(* A path that is brought, by the module that the first pass is at.        *)
LEMMA HandleBringInOrder ==
    ASSUME TreeInv, TreeInv', EffectInv, OrderInv, HandleBring
    PROVE  OrderInv'
<1>1. /\ outcome = "running" /\ pass = FsBrings /\ visits # <<>> /\ ~NodesDone /\ NextNode
      /\ UNCHANGED <<project, allModules, fileEntities, pass, next, visited>>
    BY DEF HandleBring
<1>2. CASE outcome' \notin {"running", "done"}
    BY <1>2 DEF OrderInv
<1>3. CASE outcome' \in {"running", "done"}
    <2>1. UNCHANGED outcome
        BY <1>1, <1>3 DEF HandleBring, BringMember, BringModule
    <2>2. \A x \in ModuleId : x # at.mod => submodules'[x] = submodules[x]
        <3>1. CASE UNCHANGED submodules
            BY <3>1
        <3>2. CASE \E m : submodules' = [submodules EXCEPT ![at.mod] = Append(@, m)]
            BY <3>2, TreeSequences
        <3> QED
            BY <1>3, <3>1, <3>2 DEF HandleBring, BringMember, BringModule
    <2>3. PICK V : V = visited[pass]
        OBVIOUS
    <2>4. ModuleId' = ModuleId /\ Libs' = Libs
        BY <1>1 DEF ModuleId, Libs
    <2>5. UnderWay(V)' /\ Ordered(submodules', fileEntities', {}, V)
        BY <1>1, <2>2, <2>3, <2>4, FlaggedPasses, NodeInOrder
    <2>6. Libs = {} /\ \A p \in Flagged : InOrder(p)
        BY <1>1, FlaggedPasses DEF OrderInv
    <2>7. ASSUME NEW p \in Flagged
          PROVE  InOrder(p)'
        <3>1. Skipped(p)' = {}
            BY <2>4, <2>6 DEF Skipped
        <3>2. p = pass \/ p > pass
            BY <1>1, FlaggedPasses
        <3>3. ~(p < pass)
            BY <1>1, FlaggedPasses
        <3>4. Ordered(submodules', fileEntities', {}, visited[p])
            <4>1. CASE p = pass
                BY <2>3, <2>5, <4>1
            <4>2. CASE p > pass
                <5>1. visited[p] = <<>>
                    BY <2>6, <4>2 DEF InOrder
                <5> QED
                    BY <5>1, EmptyIsSeq DEF Ordered
            <4> QED
                BY <3>2, <4>1, <4>2
        <3>5. InOrder(p) /\ visited' = visited /\ pass' = pass
            BY <1>1, <2>6
        <3> QED
            BY <2>4, <3>1, <3>3, <3>4, <3>5 DEF InOrder
    <2>8. visited'[pass'] = V
        BY <1>1, <2>3
    <2> QED
        BY <1>1, <2>1, <2>4, <2>5, <2>6, <2>7, <2>8 DEF OrderInv
<1> QED
    BY <1>2, <1>3

(* The lib of the module that the second pass is at.  The first pass has   *)
(* met the same modules without it.                                        *)
LEMMA CreateLibInOrder ==
    ASSUME TreeInv, TreeInv', EffectInv, OrderInv, CreateLib
    PROVE  OrderInv'
<1>0. PICK a, z : a = at.mod /\ z = NewModule
    OBVIOUS
<1>1. /\ outcome = "running" /\ pass = CreateModules /\ visits # <<>> /\ ~NodesDone /\ NextNode
      /\ UNCHANGED <<project, fileEntities, pass, next, visited, outcome>>
      /\ create_submodule(allModules[a].path, "lib", a)
    BY <1>0 DEF CreateLib
<1>2. IsSeq(allModules) /\ Len(allModules) \in Nat
    BY SeqOfIsSeq, SeqFacts DEF TreeInv, Tree
<1>3. /\ ModuleId = 1 .. Len(allModules) /\ ModuleId' = 1 .. Len(allModules) + 1
      /\ \A m \in ModuleId : allModules'[m] = allModules[m]
      /\ allModules'[Len(allModules) + 1].kind = "lib" /\ z = Len(allModules) + 1
    BY <1>0, <1>1, <1>2, ModulesGrow DEF NewModule
<1>4. /\ \A m \in ModuleId' : m \in ModuleId \/ m = z
      /\ ModuleId \subseteq ModuleId' /\ z \notin ModuleId /\ z \in ModuleId'
    BY <1>2, <1>3
<1>5. /\ \A m \in ModuleId : submodules'[m] = IF m = a THEN Append(submodules[m], z) ELSE submodules[m]
      /\ submodules'[z] = <<>>
    <2> DEFINE grown == [m \in ModuleId |-> IF m = a THEN Append(submodules[m], NewModule)
                                            ELSE submodules[m]]
    <2>1. submodules' = Append(grown, <<>>)
        BY <1>1 DEF create_submodule
    <2>2. IsSeq(grown) /\ DOMAIN grown = ModuleId /\ Len(grown) = Len(allModules)
        <3>1. grown \in [1 .. Len(allModules) -> {grown[m] : m \in ModuleId}] /\ DOMAIN grown = ModuleId
            BY DEF ModuleId
        <3> HIDE DEF grown
        <3> QED
            BY <1>2, <3>1, FunctionIsSeq
    <2>3. \A m \in ModuleId : grown[m] = IF m = a THEN Append(submodules[m], z) ELSE submodules[m]
        BY <1>0
    <2> HIDE DEF grown
    <2>4. /\ \A m \in 1 .. Len(grown) : submodules'[m] = grown[m]
          /\ submodules'[Len(grown) + 1] = <<>>
        BY <2>1, <2>2, AppendAny
    <2> QED
        BY <1>3, <2>2, <2>3, <2>4
<1>6. Libs' = Libs \cup {z}
    BY <1>3, <1>4 DEF Libs
<1>7. a \notin Libs /\ a \in ModuleId
    <2>1. HasLib(a)
        BY <1>0, <1>1 DEF NodesDone, CreateModules, FsBrings
    <2>2. a \in ModuleId
        BY <1>0, <1>1, TreeSequences, TopVisit
    <2> QED
        BY <2>1, <2>2 DEF HasLib, Libs
<1>8. \A m \in Libs' : submodules'[m] = <<>>
    <2>1. \A m \in Libs : submodules[m] = <<>> /\ m \in ModuleId
        BY <1>1 DEF OrderInv, Libs
    <2> QED
        BY <1>5, <1>6, <1>7, <2>1
<1>9. PICK V : V = visited[pass]
    OBVIOUS
<1>10. UnderWay(V)' /\ Ordered(submodules', fileEntities', {}, V)
    <2>1. \A x \in ModuleId : x # at.mod => submodules'[x] = submodules[x]
        BY <1>0, <1>5
    <2> QED
        BY <1>1, <1>3, <1>4, <1>9, <2>1, FlaggedPasses, NodeInOrder
<1>11. \A p \in Flagged : InOrder(p)
    BY <1>1 DEF OrderInv
<1>12. ASSUME NEW p \in Flagged
       PROVE  InOrder(p)'
    <2>1. InOrder(p) /\ visited' = visited /\ pass' = pass /\ fileEntities' = fileEntities
        BY <1>1, <1>11
    <2>2. IsSeq(visited[p]) /\ ToSet(visited[p]) \subseteq ModuleId /\ ToSet(visited[p]) \subseteq ModuleId'
        BY <1>4, <2>1 DEF InOrder
    <2>3. CASE p = FsBrings
        <3>1. p < pass /\ ~(p > pass)
            BY <1>1, <2>3 DEF FsBrings, CreateModules
        <3>2. Skipped(p) = Libs /\ Skipped(p)' = Libs \cup {z}
            BY <1>6, <2>3 DEF Skipped
        <3>3. z \notin ToSet(visited[p])
            BY <1>4, <2>2
        <3>4. ASSUME NEW i \in DOMAIN visited[p]
              PROVE  /\ IsSeq(submodules[visited[p][i]])
                     /\ \/ submodules'[visited[p][i]] = submodules[visited[p][i]]
                        \/ submodules'[visited[p][i]] = Append(submodules[visited[p][i]], z)
            <4>1. visited[p][i] \in ModuleId
                BY <2>2 DEF ToSet
            <4> QED
                BY <1>5, <4>1, TreeSequences
        <3>5. Ordered(submodules, fileEntities, Libs, visited[p]) /\ Exhausted(submodules, fileEntities, Libs, visited[p])
            BY <2>1, <3>1, <3>2 DEF InOrder
        <3>6. Ordered(submodules', fileEntities, Libs \cup {z}, visited[p]) /\ Exhausted(submodules', fileEntities, Libs \cup {z}, visited[p])
            BY <2>2, <3>3, <3>4, <3>5, OneMoreAside
        <3> QED
            BY <2>1, <2>2, <3>1, <3>2, <3>6 DEF InOrder
    <2>4. CASE p # FsBrings
        <3>1. Skipped(p)' = {}
            BY <2>4 DEF Skipped
        <3>2. ~(p < pass) /\ (p = pass \/ p > pass)
            BY <1>1, <2>4, FlaggedPasses
        <3>3. Ordered(submodules', fileEntities', {}, visited[p])
            <4>1. CASE p = pass
                BY <1>9, <1>10, <4>1
            <4>2. CASE p > pass
                <5>1. visited[p] = <<>>
                    BY <2>1, <4>2 DEF InOrder
                <5> QED
                    BY <5>1, EmptyIsSeq DEF Ordered
            <4> QED
                BY <3>2, <4>1, <4>2
        <3> QED
            BY <2>1, <2>2, <3>1, <3>2, <3>3 DEF InOrder
    <2> QED
        BY <2>3, <2>4
<1>13. visited'[pass'] = V
    BY <1>1, <1>9
<1>14. ~(pass' <= FsBrings)
    BY <1>1 DEF FsBrings, CreateModules
<1> QED
    BY <1>1, <1>8, <1>10, <1>12, <1>13, <1>14 DEF OrderInv

LEMMA OrderStep ==
    ASSUME TreeInv, TreeInv', EffectInv, OrderInv, [Next]_vars
    PROVE  OrderInv'
<1>1. CASE UNCHANGED vars
    <2>1. UNCHANGED <<discoveryVars, pass, next, visits, visited, outcome>>
        BY <1>1 DEF vars, passVars
    <2>2. /\ ModuleId' = ModuleId /\ Libs' = Libs /\ \A p : Skipped(p)' = Skipped(p)
          /\ UNCHANGED <<submodules, fileEntities>>
          /\ \A v : NodesPassed(v)' <=> NodesPassed(v)
        BY <2>1, NodesPassedKept
    <2>3. \A V : UnderWay(V)' <=> UnderWay(V)
        BY <2>1, <2>2 DEF UnderWay, NodesComeFirst
    <2>4. \A p : InOrder(p)' <=> InOrder(p)
        BY <2>1, <2>2 DEF InOrder
    <2> QED
        BY <2>1, <2>2, <2>3, <2>4 DEF OrderInv
<1>2. CASE Discover
    BY <1>2, DiscoverInOrder
<1>3. CASE StartPass
    BY <1>3, StartPassInOrder
<1>4. CASE VisitEntity
    BY <1>4, VisitEntityInOrder
<1>5. CASE HandleBring
    BY <1>5, HandleBringInOrder
<1>6. CASE CreateLib
    BY <1>6, CreateLibInOrder
<1>7. CASE VisitSubmodule
    BY <1>7, VisitSubmoduleInOrder
<1>8. CASE LeaveModule
    BY <1>8, LeaveModuleInOrder
<1>9. CASE Ended
    BY <1>1, <1>9 DEF Ended
<1> QED
    BY <1>1, <1>2, <1>3, <1>4, <1>5, <1>6, <1>7, <1>8, <1>9 DEF Next

LEMMA OrderInvariant == Spec => []OrderInv
<1>1. Init => OrderInv
    <2> SUFFICES ASSUME Init PROVE OrderInv
        OBVIOUS
    <2>1. /\ allModules = <<>> /\ pass = 0 /\ visited = [p \in Pass |-> <<>>]
        BY DEF Init, DiscoveryInit
    <2>2. Libs = {}
        BY <2>1 DEF Libs, ModuleId
    <2>3. ASSUME NEW p \in Flagged
          PROVE  InOrder(p)
        <3>1. visited[p] = <<>> /\ IsSeq(<<>>) /\ ToSet(<<>>) = {} /\ IsInjective(<<>>)
            BY <2>1, FlaggedPasses, EmptyIsSeq DEF ToSet, IsInjective
        <3>2. \A s, r, L : Ordered(s, r, L, <<>>)
            BY EmptyIsSeq DEF Ordered
        <3>3. ~(p < pass)
            BY <2>1, FlaggedPasses
        <3> QED
            BY <3>1, <3>2, <3>3 DEF InOrder
    <2>4. pass \notin Flagged
        BY <2>1, FlaggedPasses
    <2> QED
        BY <2>2, <2>3, <2>4 DEF OrderInv
<1>2. TreeInv /\ TreeInv' /\ EffectInv /\ OrderInv /\ [Next]_vars => OrderInv'
    BY OrderStep
<1> QED
    BY <1>1, <1>2, TreeInvariant, EffectInvariant, PTL DEF Spec

(* The passes meet the same modules in the same order, in any project that *)
(* comes to their end: what the flags of a module and the walk from        *)
(* fileEntities down the submodules do in one pass they do in the next,    *)
(* and the libs that pass 2 creates in between change nothing for the      *)
(* others.                                                                 *)
THEOREM PassesMeetTheSame == Spec => []PassesAgree
<1>1. TreeInv /\ EffectInv /\ OrderInv => PassesAgree
    <2> SUFFICES ASSUME TreeInv, EffectInv, OrderInv, outcome = "done"
                 PROVE  /\ IsInjective(visited[CreateModules])
                        /\ visited[CreateModules] = visited[CreateEntities]
                        /\ visited[CreateEntities] = visited[UpdateDependencies]
                        /\ ToSet(visited[FsBrings]) =
                              {m \in ToSet(visited[CreateModules]) : allModules[m].kind # "lib"}
                        /\ ComeInOrderOf(visited[FsBrings], visited[CreateModules])
        BY DEF PassesAgree
    <2>1. pass = 5
        BY DEF EffectInv, SetupFiles
    <2>2. \A p \in Flagged : InOrder(p) /\ p < pass
        BY <2>1, FlaggedPasses DEF OrderInv
    <2>3. \A m \in Libs : submodules[m] = <<>>
        BY DEF OrderInv
    <2>4. \A p \in Flagged : /\ IsSeq(visited[p]) /\ IsInjective(visited[p])
                             /\ Ordered(submodules, fileEntities, Skipped(p), visited[p])
                             /\ Exhausted(submodules, fileEntities, Skipped(p), visited[p])
                             /\ \A i \in DOMAIN visited[p] : visited[p][i] \in ModuleId
        BY <2>2 DEF InOrder, ToSet
    <2>5. \A p \in Flagged : \A i \in DOMAIN visited[p] : IsSeq(submodules[visited[p][i]])
        BY <2>4, TreeSequences
    <2>6. FsBrings \in Flagged /\ CreateModules \in Flagged /\ CreateEntities \in Flagged /\ UpdateDependencies \in Flagged
        BY DEF Flagged, FsBrings, CreateModules, CreateEntities, UpdateDependencies
    <2>7. /\ Skipped(FsBrings) = Libs /\ Skipped(CreateModules) = {}
          /\ Skipped(CreateEntities) = {} /\ Skipped(UpdateDependencies) = {}
        BY DEF Skipped, FsBrings, CreateModules, CreateEntities, UpdateDependencies
    <2>8. IsSeq(fileEntities)
        BY TreeSequences
    <2>9. PICK A, B, C, D : /\ A = visited[FsBrings] /\ B = visited[CreateModules]
                            /\ C = visited[CreateEntities] /\ D = visited[UpdateDependencies]
        OBVIOUS
    <2>10. B = C
        BY <2>4, <2>5, <2>6, <2>7, <2>8, <2>9, SameOrder
    <2>11. C = D
        BY <2>4, <2>5, <2>6, <2>7, <2>8, <2>9, SameOrder
    <2>12. ToSet(A) = ToSet(B) \ Libs /\ \A i, j \in DOMAIN A : i < j => Before(A[i], A[j], B)
        <3>1. \A i \in DOMAIN B : IsSeq(submodules[B[i]]) /\ (B[i] \in Libs => submodules[B[i]] = <<>>)
            BY <2>3, <2>5, <2>6, <2>9
        <3>2. \A i \in DOMAIN A : IsSeq(submodules[A[i]])
            BY <2>5, <2>6, <2>9
        <3>3. IsSeq(A) /\ Ordered(submodules, fileEntities, Libs, A) /\ Exhausted(submodules, fileEntities, Libs, A)
            BY <2>4, <2>6, <2>7, <2>9
        <3>4. IsSeq(B) /\ IsInjective(B) /\ Ordered(submodules, fileEntities, {}, B) /\ Exhausted(submodules, fileEntities, {}, B)
            BY <2>4, <2>6, <2>7, <2>9
        <3> QED
            BY <2>8, <3>1, <3>2, <3>3, <3>4, Thinned
    <2>13. ToSet(B) \ Libs = {m \in ToSet(B) : allModules[m].kind # "lib"}
        <3>1. \A m \in ToSet(B) : m \in ModuleId
            BY <2>4, <2>6, <2>9 DEF ToSet
        <3> QED
            BY <3>1 DEF Libs
    <2>14. ComeInOrderOf(A, B)
        BY <2>12 DEF ComeInOrderOf, Before
    <2>15. IsInjective(B)
        BY <2>4, <2>6, <2>9
    <2> QED
        BY <2>9, <2>10, <2>11, <2>12, <2>13, <2>14, <2>15
<1> QED
    BY <1>1, TreeInvariant, EffectInvariant, OrderInvariant, PTL
===============================================================================

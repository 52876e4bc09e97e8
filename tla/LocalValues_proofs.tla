--------------------------- MODULE LocalValues_proofs --------------------------
(***************************************************************************)
(* What the operations of a type keep of the memory: the parts of the      *)
(* locals in use hold instances that are alive, each another one, and what *)
(* is alive is held or had a value stored over it.  Types without a mix:   *)
(* the operations of those take the wrong tags.                            *)
(***************************************************************************)
EXTENDS LocalValues, SequenceTheorems, FiniteSetTheorems, WellFoundedInduction,
        TLAPS

-----------------------------------------------------------------------------
(* Facts about sequences, sets of numbers and functions that are recursive *)
(* by a rank, which the proofs below need.                                 *)

(* A set of numbers that is not empty has a least one.                     *)
LEMMA LeastNumber ==
    ASSUME NEW I, I \subseteq Nat, I # {}
    PROVE  \E x \in I : \A y \in I : x <= y
<1> DEFINE R == OpToRel(<, Nat)
<1>1. IsWellFoundedOn(R, Nat)
    BY NatLessThanWellFounded
<1>2. ASSUME NEW x \in I, NEW y \in I, y < x
      PROVE  <<y, x>> \in R
    <2>1. <<y, x>> \in Nat \X Nat /\ <<y, x>>[1] = y /\ <<y, x>>[2] = x
        OBVIOUS
    <2> QED
        BY <1>2, <2>1, Zenon DEF OpToRel
<1> HIDE DEF R
<1>3. PICK x \in I : \A y \in I : ~(<<y, x>> \in R)
    BY <1>1, WFMin
<1>4. \A y \in I : ~(y < x)
    BY <1>2, <1>3, Zenon
<1> QED
    BY <1>3, <1>4

(* A function whose value at each member c of D is G[c] of its values at   *)
(* members of a lower rank.                                                *)
IsRecursiveOn(D, V, G) == \E f \in [D -> V] : \A c \in D : f[c] = G[c][f]

LooksLower(D, rank, V, G) ==
    /\ G \in [D -> [[D -> V] -> V]]
    /\ \A c \in D : \A f, g \in [D -> V] :
          (\A d \in D : rank[d] < rank[c] => f[d] = g[d]) => G[c][f] = G[c][g]

(* It exists: those right for the members of the lowest ranks are          *)
(* corrected rank by rank.                                                 *)
LEMMA RecursionByRank ==
    ASSUME NEW D, NEW n \in Nat, NEW rank \in [D -> 0 .. n], NEW V, V # {}, NEW G,
           LooksLower(D, rank, V, G)
    PROVE  IsRecursiveOn(D, V, G)
<1> USE DEF LooksLower, IsRecursiveOn
<1> DEFINE Good(m) == \E f \in [D -> V] : \A c \in D : rank[c] < m => f[c] = G[c][f]
           Bad == {m \in Nat : m <= n + 1 /\ ~Good(m)}
<1>1. Good(0)
    <2>1. PICK v \in V : TRUE
        OBVIOUS
    <2>2. [c \in D |-> v] \in [D -> V]
        OBVIOUS
    <2>3. \A c \in D : ~(rank[c] < 0)
        OBVIOUS
    <2> QED
        BY <2>2, <2>3
<1>2. ASSUME NEW m \in Nat, m <= n, Good(m)
      PROVE  Good(m + 1)
    <2>1. PICK f \in [D -> V] : \A c \in D : rank[c] < m => f[c] = G[c][f]
        BY <1>2
    <2>2. PICK g : g = [c \in D |-> IF rank[c] = m THEN G[c][f] ELSE f[c]]
        OBVIOUS
    <2>3. /\ g \in [D -> V]
          /\ \A c \in D : (rank[c] = m => g[c] = G[c][f]) /\ (rank[c] # m => g[c] = f[c])
        BY <2>1, <2>2
    <2>4. ASSUME NEW c \in D, rank[c] < m + 1
          PROVE  g[c] = G[c][g]
        <3>1. PICK r \in Nat : r = rank[c]
            OBVIOUS
        <3>2. r < m + 1
            BY <2>4, <3>1
        <3>3. r < m \/ r = m
            BY <3>2
        <3>4. rank[c] < m \/ rank[c] = m
            BY <3>1, <3>3
        <3>5. \A d \in D : rank[d] < rank[c] => f[d] = g[d]
            BY <2>3, <3>4
        <3>6. G[c][f] = G[c][g]
            BY <2>1, <2>3, <3>5
        <3> QED
            BY <2>1, <2>3, <3>4, <3>6
    <2> QED
        BY <2>3, <2>4
<1> HIDE DEF Good
<1>3. Bad = {}
    <2> SUFFICES ASSUME Bad # {} PROVE FALSE
        OBVIOUS
    <2>1. PICK m \in Bad : \A y \in Bad : m <= y
        BY LeastNumber
    <2>2. m \in Nat /\ m <= n + 1 /\ ~Good(m) /\ m # 0
        BY <1>1, <2>1
    <2>3. m - 1 \in Nat /\ m - 1 <= n /\ m - 1 \notin Bad /\ (m - 1) + 1 = m
        BY <2>1, <2>2
    <2>4. Good(m - 1)
        BY <2>2, <2>3
    <2>5. Good((m - 1) + 1)
        BY <1>2, <2>3, <2>4
    <2> QED
        BY <2>2, <2>3, <2>5
<1>4. n + 1 \in Nat /\ n + 1 <= n + 1
    OBVIOUS
<1>5. Good(n + 1)
    BY <1>3, <1>4
<1>6. \A c \in D : rank[c] < n + 1
    OBVIOUS
<1> QED
    BY <1>5, <1>6 DEF Good

(* In particular on the numbers up to n, by smaller or by larger ones.     *)
IsRecursive(n, V, G) == \E f \in [0 .. n -> V] : \A c \in 0 .. n : f[c] = G[c][f]

LooksUp(n, V, G) ==
    /\ G \in [0 .. n -> [[0 .. n -> V] -> V]]
    /\ \A c \in 0 .. n : \A f, g \in [0 .. n -> V] :
          (\A d \in 0 .. n : d < c => f[d] = g[d]) => G[c][f] = G[c][g]

LEMMA RecursionUp ==
    ASSUME NEW n \in Nat, NEW V, V # {}, NEW G, LooksUp(n, V, G)
    PROVE  IsRecursive(n, V, G)
<1>1. PICK rank \in [0 .. n -> 0 .. n] : \A c \in 0 .. n : rank[c] = c
    <2>1. [c \in 0 .. n |-> c] \in [0 .. n -> 0 .. n]
        OBVIOUS
    <2> QED
        BY <2>1
<1>2. \A c, d \in 0 .. n : d < c <=> rank[d] < rank[c]
    BY <1>1
<1>3. LooksLower(0 .. n, rank, V, G)
    BY <1>2 DEF LooksUp, LooksLower
<1>4. IsRecursiveOn(0 .. n, V, G)
    BY <1>3, RecursionByRank
<1> QED
    BY <1>4 DEF IsRecursive, IsRecursiveOn

-----------------------------------------------------------------------------
(* A local whose memory holds data: a maybe does when its tag is set.      *)
Data(m, t, v) == Tagged(t) => m.tag[v] = 1

(* The parts of the locals in use that hold what was made.                 *)
LiveParts(m, t, used) == {p \in used \X Places(t) : Data(m, t, p[1])}

IsMemory(m, t) ==
    m \in [cell : [Local -> [Places(t) -> Int]], tag : [Local -> {0, 1}], made : Nat,
           alive : SUBSET Nat, storedOver : SUBSET Nat, faults : {0}]

PlainHoldsNone(m, t) ==
    \A v \in Local, i \in Places(t) :
        t.parts[i] = "plain" => m.cell[v][i] \in {Raw, Null, Plain}

(* The parts in L hold instances, each another resource, and no others do. *)
HoldInstances(m, t, L) ==
    \A v \in Local, i \in Places(t) :
        <<v, i>> \in L /\ t.parts[i] # "plain" => m.cell[v][i] \in m.alive \cup {Null}
NoneTwice(m, t, L) ==
    \A v, w \in Local, i, j \in Places(t) :
        /\ <<v, i>> \in L /\ <<w, j>> \in L
        /\ m.cell[v][i] = m.cell[w][j] /\ m.cell[v][i] \in m.alive
        => v = w /\ i = j
NoneElsewhere(m, t, L) ==
    \A v \in Local, i \in Places(t) :
        <<v, i>> \notin L /\ Data(m, t, v) => m.cell[v][i] \notin m.alive

(* Resources are numbered in the order they are made.                      *)
Numbered(m, t) ==
    /\ m.alive \subseteq 1 .. m.made
    /\ \A v \in Local, i \in Places(t) : m.cell[v][i] <= m.made

(* What is alive is held, or a value was stored over it.                   *)
NoneLost(m, t, L) ==
    \A r \in m.alive : r \in m.storedOver
                       \/ \E v \in Local, i \in Places(t) : <<v, i>> \in L /\ m.cell[v][i] = r

Ordered(m, t, L) ==
    /\ IsMemory(m, t) /\ L \subseteq Local \X Places(t)
    /\ PlainHoldsNone(m, t) /\ HoldInstances(m, t, L) /\ NoneTwice(m, t, L)
    /\ NoneElsewhere(m, t, L) /\ Numbered(m, t)
Sound(m, t, L) == Ordered(m, t, L) /\ NoneLost(m, t, L)

(* The types the proofs are about.                                         *)
IsType(t) == t \in Types /\ t.kind # "mix"

-----------------------------------------------------------------------------
LEMMA TypeFacts ==
    ASSUME NEW t, IsType(t)
    PROVE  /\ Len(t.parts) \in Nat /\ DOMAIN t.parts = 1 .. Len(t.parts)
           /\ Places(t) = 1 .. Len(t.parts)
           /\ \A i \in Places(t) : t.parts[i] \in {"plain", "owner", "mover"}
           /\ t.kind \in {"tuple", "struct", "maybe"}
           /\ Tagged(t) <=> t.kind = "maybe"
           /\ Tagged(t) => Places(t) = {1} /\ Len(t.parts) = 1
<1>1. /\ t.kind \in {"tuple", "struct", "maybe"}
      /\ t.parts \in Seq({"plain", "owner", "mover", "none"})
      /\ "none" \notin ToSet(t.parts)
      /\ t.kind = "maybe" => Len(t.parts) = 1
    BY TypesAssumption DEF IsType
<1>2. /\ Len(t.parts) \in Nat /\ DOMAIN t.parts = 1 .. Len(t.parts)
      /\ t.parts \in [1 .. Len(t.parts) -> {"plain", "owner", "mover", "none"}]
    BY <1>1, LenProperties
<1>3. \A i \in DOMAIN t.parts : t.parts[i] \in {"plain", "owner", "mover"}
    BY <1>1, <1>2 DEF ToSet
<1>4. Tagged(t) <=> t.kind = "maybe"
    BY <1>1 DEF Tagged
<1>5. Tagged(t) => Len(t.parts) = 1 /\ 1 .. 1 = {1}
    BY <1>1, <1>4
<1>6. Places(t) = 1 .. Len(t.parts)
    BY <1>2, <1>5 DEF Places
<1> QED
    BY <1>1, <1>2, <1>3, <1>4, <1>5, <1>6

(* Steps that are taken one after the other, from m in Ok[0]: step i takes *)
(* what is in Ok[i - 1] to Ok[i].                                          *)
LEMMA StepByStep ==
    ASSUME NEW n \in Nat, NEW a, NEW Ok, a[0] \in Ok[0],
           \A i \in 1 .. n : a[i - 1] \in Ok[i - 1] => a[i] \in Ok[i]
    PROVE  \A i \in 0 .. n : a[i] \in Ok[i]
<1> DEFINE Wrong == {c \in 0 .. n : a[c] \notin Ok[c]}
<1> SUFFICES ASSUME Wrong # {} PROVE FALSE
    OBVIOUS
<1>1. Wrong \subseteq Nat
    OBVIOUS
<1>2. PICK c \in Wrong : \A d \in Wrong : c <= d
    BY <1>1, LeastNumber
<1>3. c # 0
    BY <1>2
<1>4. c \in 1 .. n /\ c - 1 \in 0 .. n /\ ~(c <= c - 1)
    BY <1>2, <1>3
<1>5. c - 1 \notin Wrong
    BY <1>2, <1>4
<1> QED
    BY <1>2, <1>4, <1>5

AreSteps(g, n, m, F, Ok) ==
    g[0] = m /\ \A i \in 1 .. n : g[i] = F[i][g[i - 1]] /\ g[i - 1] \in Ok[i - 1]
StepsKeep(n, F, Ok) == \A i \in 1 .. n : \A x \in Ok[i - 1] : F[i][x] \in Ok[i]

LEMMA StepsExist ==
    ASSUME NEW n \in Nat, NEW m, NEW M, NEW Ok \in [0 .. n -> SUBSET M], m \in Ok[0], NEW F,
           StepsKeep(n, F, Ok)
    PROVE  \E g \in [0 .. n -> M] : AreSteps(g, n, m, F, Ok)
<1> DEFINE Step(c, g) == IF c = 0 THEN m ELSE F[c][g[c - 1]]
           Right(c, g) == IF Step(c, g) \in M THEN Step(c, g) ELSE m
           G == [c \in 0 .. n |-> [g \in [0 .. n -> M] |-> Right(c, g)]]
<1>1. m \in M
    OBVIOUS
<1>2. \A c \in 0 .. n : \A g \in [0 .. n -> M] : Right(c, g) \in M
    BY <1>1
<1>3. \A c \in 0 .. n : \A g, h \in [0 .. n -> M] :
         (\A d \in 0 .. n : d < c => g[d] = h[d]) => Step(c, g) = Step(c, h)
    <2>1. \A c \in 0 .. n : c # 0 => c - 1 \in 0 .. n /\ c - 1 < c
        OBVIOUS
    <2> QED
        BY <2>1
<1>4. \A c \in 0 .. n : \A g, h \in [0 .. n -> M] :
         (\A d \in 0 .. n : d < c => g[d] = h[d]) => Right(c, g) = Right(c, h)
    BY <1>3
<1> HIDE DEF Step, Right
<1>5. G \in [0 .. n -> [[0 .. n -> M] -> M]]
    BY <1>2
<1>6. \A c \in 0 .. n : \A g \in [0 .. n -> M] : G[c][g] = Right(c, g)
    OBVIOUS
<1> HIDE DEF G
<1>7. LooksUp(n, M, G)
    <2>1. ASSUME NEW c \in 0 .. n, NEW g \in [0 .. n -> M], NEW h \in [0 .. n -> M],
                 \A d \in 0 .. n : d < c => g[d] = h[d]
          PROVE  G[c][g] = G[c][h]
        <3>1. Right(c, g) = Right(c, h)
            BY <1>4, <2>1
        <3> QED
            BY <1>6, <3>1
    <2> QED
        BY <1>5, <2>1 DEF LooksUp
<1>8. PICK g \in [0 .. n -> M] : \A c \in 0 .. n : g[c] = Right(c, g)
    <2>1. IsRecursive(n, M, G)
        BY <1>7, RecursionUp
    <2> QED
        BY <1>6, <2>1 DEF IsRecursive
<1>9. 0 \in 0 .. n /\ \A i \in 1 .. n : i \in 0 .. n /\ i # 0 /\ Step(i, g) = F[i][g[i - 1]]
    BY DEF Step
<1>10. g[0] = m
    BY <1>1, <1>8, <1>9 DEF Right, Step
<1>11. ASSUME NEW i \in 1 .. n, g[i - 1] \in Ok[i - 1]
       PROVE  g[i] = F[i][g[i - 1]] /\ g[i] \in Ok[i]
    <2>1. F[i][g[i - 1]] \in Ok[i] /\ Ok[i] \subseteq M
        BY <1>9, <1>11 DEF StepsKeep
    <2> QED
        BY <1>8, <1>9, <2>1 DEF Right
<1>12. \A i \in 0 .. n : g[i] \in Ok[i]
    BY <1>10, <1>11, StepByStep
<1>13. \A i \in 1 .. n : i - 1 \in 0 .. n
    OBVIOUS
<1> QED
    BY <1>10, <1>11, <1>12, <1>13 DEF AreSteps

LEMMA EachPartKeeps ==
    ASSUME NEW t, IsType(t), NEW op, NEW m, NEW v, NEW w, NEW M,
           NEW Ok \in [0 .. Len(t.parts) -> SUBSET M], m \in Ok[0],
           \A i \in 1 .. Len(t.parts) : \A x \in Ok[i - 1] : OnPart(op, x, t, v, w, i) \in Ok[i]
    PROVE  EachPart(op, m, t, v, w) \in Ok[Len(t.parts)]
<1> DEFINE n == Len(t.parts)
           F == [i \in 1 .. n |-> [x \in Ok[i - 1] |-> OnPart(op, x, t, v, w, i)]]
           Is(a) == a = [i \in 0 .. n |-> IF i = 0 THEN m ELSE OnPart(op, a[i - 1], t, v, w, i)]
           a == CHOOSE a : Is(a)
<1>1. n \in Nat
    BY TypeFacts
<1>2. \A i \in 1 .. n : \A x \in Ok[i - 1] : F[i][x] = OnPart(op, x, t, v, w, i)
    OBVIOUS
<1> HIDE DEF F, n
<1>3. PICK g \in [0 .. n -> M] : AreSteps(g, n, m, F, Ok)
    <2>1. StepsKeep(n, F, Ok)
        BY <1>2 DEF n, StepsKeep
    <2>2. Ok \in [0 .. n -> SUBSET M] /\ m \in Ok[0]
        BY DEF n
    <2> QED
        BY <1>1, <2>1, <2>2, StepsExist
<1>4. \A i \in 0 .. n : g[i] = IF i = 0 THEN m ELSE OnPart(op, g[i - 1], t, v, w, i)
    <2>1. \A i \in 0 .. n : i # 0 => i \in 1 .. n
        BY <1>1
    <2> QED
        BY <1>2, <1>3, <2>1 DEF AreSteps
<1>5. Is(g)
    BY <1>3, <1>4
<1>6. Is(a)
    BY <1>5
<1> HIDE DEF a
<1>7. 0 \in 0 .. n /\ n \in 0 .. n /\ \A i \in 1 .. n : i \in 0 .. n /\ i # 0
    BY <1>1
<1>8. a[0] = m /\ \A i \in 1 .. n : a[i] = OnPart(op, a[i - 1], t, v, w, i)
    BY <1>6, <1>7
<1>9. \A i \in 1 .. n : a[i - 1] \in Ok[i - 1] => a[i] \in Ok[i]
    BY <1>8 DEF n
<1>10. a[n] \in Ok[n]
    BY <1>1, <1>7, <1>8, <1>9, StepByStep
<1>11. EachPart(op, m, t, v, w) = a[n]
    BY DEF EachPart, a, Is, n
<1> QED
    BY <1>10, <1>11 DEF n

-----------------------------------------------------------------------------
(* One cell is written.                                                    *)
Wrote(m, x, t, v, i, c) ==
    /\ IsMemory(x, t) /\ x.tag = m.tag
    /\ \A u \in Local, j \in Places(t) :
          x.cell[u][j] = IF u = v /\ j = i THEN c ELSE m.cell[u][j]
    /\ \A u \in Local \ {v} : x.cell[u] = m.cell[u]

SameLists(m, x) == x.made = m.made /\ x.alive = m.alive /\ x.storedOver = m.storedOver

LEMMA WriteCell ==
    ASSUME NEW t, NEW m, IsMemory(m, t), NEW v \in Local, NEW i \in Places(t), NEW c \in Int
    PROVE  LET x == [m EXCEPT !.cell[v][i] = c]
           IN  Wrote(m, x, t, v, i, c) /\ SameLists(m, x)
<1> DEFINE x == [m EXCEPT !.cell[v][i] = c]
<1>1. m.cell \in [Local -> [Places(t) -> Int]]
    BY DEF IsMemory
<1>2. x.cell = [m.cell EXCEPT ![v][i] = c]
    BY DEF IsMemory
<1>3. x.cell \in [Local -> [Places(t) -> Int]]
    BY <1>1, <1>2
<1>4. /\ x.tag = m.tag /\ x.made = m.made /\ x.alive = m.alive
      /\ x.storedOver = m.storedOver /\ x.faults = m.faults
    BY DEF IsMemory
<1>5. IsMemory(x, t)
    BY <1>3 DEF IsMemory
<1>6. /\ \A u \in Local, j \in Places(t) :
            x.cell[u][j] = IF u = v /\ j = i THEN c ELSE m.cell[u][j]
      /\ \A u \in Local \ {v} : x.cell[u] = m.cell[u]
    BY <1>1, <1>2
<1> QED
    BY <1>4, <1>5, <1>6 DEF Wrote, SameLists

LEMMA MemoryFacts ==
    ASSUME NEW t, NEW m, IsMemory(m, t)
    PROVE  /\ \A u \in Local, j \in Places(t) : m.cell[u][j] \in Int
           /\ \A u \in Local : m.cell[u] \in [Places(t) -> Int] /\ m.tag[u] \in {0, 1}
           /\ m.cell \in [Local -> [Places(t) -> Int]] /\ m.tag \in [Local -> {0, 1}]
           /\ m.made \in Nat /\ m.alive \subseteq Nat /\ m.storedOver \subseteq Nat
           /\ m.faults = 0 /\ Null \notin m.alive /\ Raw \notin m.alive
    BY DEF IsMemory, Null, Raw

(* Where no instance is, nothing is put, or what is plain.                 *)
LEMMA WriteNothing ==
    ASSUME NEW t, IsType(t), NEW m, NEW L, Ordered(m, t, L), NEW v \in Local,
           NEW i \in Places(t), NEW c \in {Raw, Null, Plain}, NEW x,
           t.parts[i] = "plain" \/ c = Null,
           Wrote(m, x, t, v, i, c), SameLists(m, x)
    PROVE  /\ Ordered(x, t, L \cup {<<v, i>>})
           /\ NoneLost(m, t, L) /\ <<v, i>> \notin L => NoneLost(x, t, L \cup {<<v, i>>})
<1> DEFINE K == L \cup {<<v, i>>}
<1>1. \A u \in Local, j \in Places(t) : <<u, j>> \in K <=> <<u, j>> \in L \/ (u = v /\ j = i)
    OBVIOUS
<1>2. K \subseteq Local \X Places(t)
    BY DEF Ordered
<1> HIDE DEF K
<1>3. /\ \A u \in Local, j \in Places(t) :
            x.cell[u][j] = IF u = v /\ j = i THEN c ELSE m.cell[u][j]
      /\ x.tag = m.tag /\ x.made = m.made /\ x.alive = m.alive /\ x.storedOver = m.storedOver
      /\ IsMemory(x, t)
    BY DEF Wrote, SameLists
<1>4. /\ \A u \in Local, j \in Places(t) : m.cell[u][j] \in Int
      /\ m.made \in Nat /\ m.alive \subseteq Nat
    BY MemoryFacts DEF Ordered
<1>5. m.alive \subseteq 1 .. m.made
    BY DEF Ordered, Numbered
<1>6. c \in Int /\ c <= 0 /\ c \notin m.alive
    BY <1>5 DEF Raw, Null, Plain
<1>7. PlainHoldsNone(x, t)
    BY <1>3 DEF Ordered, PlainHoldsNone
<1>8. HoldInstances(x, t, K)
    BY <1>1, <1>3 DEF Ordered, HoldInstances
<1>9. NoneTwice(x, t, K)
    BY <1>1, <1>3, <1>6 DEF Ordered, NoneTwice
<1>10. NoneElsewhere(x, t, K)
    BY <1>1, <1>3 DEF Ordered, NoneElsewhere, Data
<1>11. Numbered(x, t)
    BY <1>3, <1>4, <1>6 DEF Ordered, Numbered
<1>12. NoneLost(m, t, L) /\ <<v, i>> \notin L => NoneLost(x, t, K)
    BY <1>1, <1>3 DEF NoneLost
<1> QED
    BY <1>2, <1>3, <1>7, <1>8, <1>9, <1>10, <1>11, <1>12 DEF Ordered, K

(* A resource is made.                                                     *)
LEMMA MakeIsSound ==
    ASSUME NEW t, IsType(t), NEW m, NEW L, Sound(m, t, L), NEW v \in Local,
           NEW i \in Places(t), t.parts[i] # "plain", <<v, i>> \notin L
    PROVE  /\ Sound(Make(m, v, i), t, L \cup {<<v, i>>})
           /\ Wrote(m, Make(m, v, i), t, v, i, m.made + 1) /\ m.made + 1 > Plain
<1> DEFINE x == Make(m, v, i)
           K == L \cup {<<v, i>>}
<1>1. \A u \in Local, j \in Places(t) : <<u, j>> \in K <=> <<u, j>> \in L \/ (u = v /\ j = i)
    OBVIOUS
<1>2. K \subseteq Local \X Places(t)
    BY DEF Sound, Ordered
<1> HIDE DEF K
<1>4. /\ \A u \in Local, j \in Places(t) : m.cell[u][j] \in Int
      /\ m.cell \in [Local -> [Places(t) -> Int]]
      /\ m.made \in Nat /\ m.alive \subseteq Nat
    BY MemoryFacts DEF Sound, Ordered
<1>5. /\ m.alive \subseteq 1 .. m.made
      /\ \A u \in Local, j \in Places(t) : m.cell[u][j] <= m.made
    BY DEF Sound, Ordered, Numbered
<1> DEFINE r == m.made + 1
<1>6. r \in Nat /\ r > Plain /\ r \notin m.alive /\ m.made < r
    BY <1>4, <1>5 DEF Plain
<1>7. /\ x.cell = [m.cell EXCEPT ![v][i] = r] /\ x.tag = m.tag /\ x.made = r
      /\ x.alive = m.alive \cup {r} /\ x.storedOver = m.storedOver /\ x.faults = m.faults
      /\ x \in [cell : {x.cell}, tag : {x.tag}, made : {x.made}, alive : {x.alive},
                storedOver : {x.storedOver}, faults : {x.faults}]
    <2>1. m \in [cell : {m.cell}, tag : {m.tag}, made : {m.made}, alive : {m.alive},
                 storedOver : {m.storedOver}, faults : {m.faults}]
        BY DEF Sound, Ordered, IsMemory
    <2> HIDE DEF r
    <2>2. x = [m EXCEPT !.made = @ + 1, !.alive = @ \cup {m.made + 1}, !.cell[v][i] = m.made + 1]
        BY DEF Make
    <2>3. /\ x.cell = [m.cell EXCEPT ![v][i] = m.made + 1] /\ x.tag = m.tag /\ x.made = m.made + 1
          /\ x.alive = m.alive \cup {m.made + 1} /\ x.storedOver = m.storedOver
          /\ x.faults = m.faults
        BY <2>1, <2>2
    <2>4. x \in [cell : {x.cell}, tag : {x.tag}, made : {x.made}, alive : {x.alive},
                storedOver : {x.storedOver}, faults : {x.faults}]
        BY <2>1, <2>2
    <2> QED
        BY <2>3, <2>4 DEF r
<1> HIDE DEF x
<1>8. /\ x.cell \in [Local -> [Places(t) -> Int]]
      /\ \A u \in Local, j \in Places(t) :
            x.cell[u][j] = IF u = v /\ j = i THEN r ELSE m.cell[u][j]
      /\ \A u \in Local \ {v} : x.cell[u] = m.cell[u]
    BY <1>4, <1>6, <1>7
<1>9. IsMemory(x, t)
    <2>1. m.tag \in [Local -> {0, 1}] /\ m.storedOver \in SUBSET Nat /\ m.faults \in {0}
        BY DEF Sound, Ordered, IsMemory
    <2>2. x.alive \in SUBSET Nat
        BY <1>4, <1>6, <1>7
    <2> QED
        BY <1>6, <1>7, <1>8, <2>1, <2>2 DEF IsMemory
<1> HIDE DEF r
<1>10. PlainHoldsNone(x, t)
    BY <1>8 DEF Sound, Ordered, PlainHoldsNone
<1>11. HoldInstances(x, t, K)
    BY <1>1, <1>7, <1>8 DEF Sound, Ordered, HoldInstances
<1>12. \A u \in Local, j \in Places(t) : m.cell[u][j] # r
    BY <1>4, <1>5, <1>6
<1>13. NoneTwice(x, t, K)
    BY <1>1, <1>7, <1>8, <1>12 DEF Sound, Ordered, NoneTwice
<1>14. NoneElsewhere(x, t, K)
    BY <1>1, <1>7, <1>8, <1>12 DEF Sound, Ordered, NoneElsewhere, Data
<1>15. Numbered(x, t)
    <2>1. x.alive \subseteq 1 .. x.made
        BY <1>4, <1>5, <1>6, <1>7
    <2>2. \A u \in Local, j \in Places(t) : x.cell[u][j] <= x.made
        BY <1>4, <1>5, <1>6, <1>7, <1>8
    <2> QED
        BY <2>1, <2>2 DEF Numbered
<1>16. NoneLost(x, t, K)
    <2> SUFFICES ASSUME NEW a \in x.alive, a \notin x.storedOver
                 PROVE  \E u \in Local, j \in Places(t) : <<u, j>> \in K /\ x.cell[u][j] = a
        BY DEF NoneLost
    <2>1. CASE a = r
        BY <1>1, <1>8, <2>1
    <2>2. CASE a # r
        <3>1. PICK u \in Local, j \in Places(t) : <<u, j>> \in L /\ m.cell[u][j] = a
            BY <1>7, <2>2 DEF Sound, NoneLost
        <3>2. ~(u = v /\ j = i)
            BY <1>7, <2>2, <3>1
        <3> QED
            BY <1>1, <1>8, <3>1, <3>2
    <2> QED
        BY <2>1, <2>2
<1>17. Wrote(m, x, t, v, i, r)
    BY <1>7, <1>8, <1>9 DEF Wrote
<1> QED
    BY <1>2, <1>6, <1>9, <1>10, <1>11, <1>13, <1>14, <1>15, <1>16, <1>17 DEF Sound, Ordered, K, x, r

(* What one part holds is taken by the part of another local.              *)
Took(m, x, t, v, w, i) ==
    /\ IsMemory(x, t) /\ x.tag = m.tag
    /\ \A u \in Local, j \in Places(t) :
          x.cell[u][j] = IF j = i /\ u = w THEN Null
                         ELSE IF j = i /\ u = v THEN m.cell[w][i] ELSE m.cell[u][j]
    /\ \A u \in Local \ {v, w} : x.cell[u] = m.cell[u]

LEMMA TakeCell ==
    ASSUME NEW t, NEW m, IsMemory(m, t), NEW v \in Local, NEW w \in Local, NEW i \in Places(t)
    PROVE  LET x == [m EXCEPT !.cell[v][i] = m.cell[w][i], !.cell[w][i] = Null]
           IN  Took(m, x, t, v, w, i) /\ SameLists(m, x)
<1> DEFINE x == [m EXCEPT !.cell[v][i] = m.cell[w][i], !.cell[w][i] = Null]
<1>1. m.cell \in [Local -> [Places(t) -> Int]] /\ Null \in Int
    BY DEF IsMemory, Null
<1>2. x.cell = [[m.cell EXCEPT ![v][i] = m.cell[w][i]] EXCEPT ![w][i] = Null]
    BY DEF IsMemory
<1> DEFINE y == [m.cell EXCEPT ![v][i] = m.cell[w][i]]
<1>3. /\ y \in [Local -> [Places(t) -> Int]]
      /\ \A u \in Local, j \in Places(t) : y[u][j] = IF u = v /\ j = i THEN m.cell[w][i] ELSE m.cell[u][j]
      /\ \A u \in Local \ {v} : y[u] = m.cell[u]
    BY <1>1
<1>0. x.cell = [y EXCEPT ![w][i] = Null]
    BY <1>2
<1> HIDE DEF y
<1> HIDE DEF x
<1>4. /\ x.cell \in [Local -> [Places(t) -> Int]]
      /\ \A u \in Local, j \in Places(t) : x.cell[u][j] = IF u = w /\ j = i THEN Null ELSE y[u][j]
      /\ \A u \in Local \ {w} : x.cell[u] = y[u]
    BY <1>0, <1>1, <1>3
<1>5. /\ x.tag = m.tag /\ x.made = m.made /\ x.alive = m.alive
      /\ x.storedOver = m.storedOver /\ x.faults = m.faults
    BY DEF IsMemory, x
<1>6. IsMemory(x, t)
    <2>1. x \in [cell : {x.cell}, tag : {x.tag}, made : {x.made}, alive : {x.alive},
                storedOver : {x.storedOver}, faults : {x.faults}]
        BY DEF IsMemory, x
    <2> QED
        BY <1>4, <1>5, <2>1 DEF IsMemory
<1>7. \A u \in Local, j \in Places(t) :
          x.cell[u][j] = IF j = i /\ u = w THEN Null
                         ELSE IF j = i /\ u = v THEN m.cell[w][i] ELSE m.cell[u][j]
    BY <1>3, <1>4
<1>8. \A u \in Local \ {v, w} : x.cell[u] = m.cell[u]
    BY <1>3, <1>4
<1> QED
    BY <1>5, <1>6, <1>7, <1>8 DEF Took, SameLists, x

LEMMA TakeIsSound ==
    ASSUME NEW t, IsType(t), NEW m, NEW L, Ordered(m, t, L), NEW v \in Local, NEW w \in Local,
           NEW i \in Places(t), <<w, i>> \in L, NEW x, Took(m, x, t, v, w, i), SameLists(m, x)
    PROVE  /\ Ordered(x, t, L \cup {<<v, i>>})
           /\ NoneLost(m, t, L) /\ v # w /\ <<v, i>> \notin L
              => NoneLost(x, t, L \cup {<<v, i>>})
<1> DEFINE K == L \cup {<<v, i>>}
<1>1. \A u \in Local, j \in Places(t) : <<u, j>> \in K <=> <<u, j>> \in L \/ (u = v /\ j = i)
    OBVIOUS
<1>2. K \subseteq Local \X Places(t)
    BY DEF Ordered
<1> HIDE DEF K
<1>3. /\ \A u \in Local, j \in Places(t) :
          x.cell[u][j] = IF j = i /\ u = w THEN Null
                         ELSE IF j = i /\ u = v THEN m.cell[w][i] ELSE m.cell[u][j]
      /\ x.tag = m.tag /\ x.made = m.made /\ x.alive = m.alive /\ x.storedOver = m.storedOver
      /\ IsMemory(x, t)
    BY DEF Took, SameLists
<1>4. /\ \A u \in Local, j \in Places(t) : m.cell[u][j] \in Int
      /\ m.made \in Nat /\ m.alive \subseteq Nat /\ Null \notin m.alive
    BY MemoryFacts DEF Ordered
<1>5. Null \in Int /\ Null < 0
    BY DEF Null
<1>7. PlainHoldsNone(x, t)
    BY <1>3 DEF Ordered, PlainHoldsNone
<1>8. HoldInstances(x, t, K)
    BY <1>1, <1>3 DEF Ordered, HoldInstances
<1>9. NoneTwice(x, t, K)
    BY <1>1, <1>3, <1>4 DEF Ordered, NoneTwice
<1>10. NoneElsewhere(x, t, K)
    BY <1>1, <1>3, <1>4 DEF Ordered, NoneElsewhere, Data
<1>11. Numbered(x, t)
    BY <1>3, <1>4, <1>5 DEF Ordered, Numbered
<1>12. NoneLost(m, t, L) /\ v # w /\ <<v, i>> \notin L => NoneLost(x, t, K)
    <2> SUFFICES ASSUME NoneLost(m, t, L), v # w, <<v, i>> \notin L,
                        NEW r \in m.alive, r \notin m.storedOver
                 PROVE  \E u \in Local, j \in Places(t) : <<u, j>> \in K /\ x.cell[u][j] = r
        BY <1>3 DEF NoneLost
    <2>1. PICK u \in Local, j \in Places(t) : <<u, j>> \in L /\ m.cell[u][j] = r
        BY DEF NoneLost
    <2>2. CASE u = w /\ j = i
        BY <1>1, <1>3, <2>1, <2>2
    <2>3. CASE ~(u = w /\ j = i)
        <3>1. ~(u = v /\ j = i)
            BY <2>1
        <3> QED
            BY <1>1, <1>3, <2>1, <2>3, <3>1
    <2> QED
        BY <2>2, <2>3
<1> QED
    BY <1>2, <1>3, <1>7, <1>8, <1>9, <1>10, <1>11, <1>12 DEF Ordered, K

-----------------------------------------------------------------------------
(* A part that holds nothing need not be counted.                          *)
LEMMA DropPart ==
    ASSUME NEW t, IsType(t), NEW m, NEW L, Sound(m, t, L), NEW v \in Local, NEW i \in Places(t),
           m.cell[v][i] \notin m.alive
    PROVE  Sound(m, t, L \ {<<v, i>>})
<1> DEFINE K == L \ {<<v, i>>}
<1>1. \A u \in Local, j \in Places(t) : <<u, j>> \in K <=> <<u, j>> \in L /\ ~(u = v /\ j = i)
    OBVIOUS
<1>2. K \subseteq Local \X Places(t)
    BY DEF Sound, Ordered
<1> HIDE DEF K
<1>3. HoldInstances(m, t, K)
    BY <1>1 DEF Sound, Ordered, HoldInstances
<1>4. NoneTwice(m, t, K)
    BY <1>1 DEF Sound, Ordered, NoneTwice
<1>5. NoneElsewhere(m, t, K)
    BY <1>1 DEF Sound, Ordered, NoneElsewhere
<1>6. NoneLost(m, t, K)
    <2> SUFFICES ASSUME NEW r \in m.alive, r \notin m.storedOver
                 PROVE  \E u \in Local, j \in Places(t) : <<u, j>> \in K /\ m.cell[u][j] = r
        BY DEF NoneLost
    <2>1. PICK u \in Local, j \in Places(t) : <<u, j>> \in L /\ m.cell[u][j] = r
        BY DEF Sound, NoneLost
    <2>2. ~(u = v /\ j = i)
        BY <2>1
    <2> QED
        BY <1>1, <2>1, <2>2
<1> QED
    BY <1>2, <1>3, <1>4, <1>5, <1>6 DEF Sound, Ordered, K

(* The other cells of v, and those of other locals, are as they were.      *)
OnlyAt(m, x, t, v, i) ==
    /\ x.tag = m.tag
    /\ \A u \in Local \ {v} : x.cell[u] = m.cell[u]
    /\ \A j \in Places(t) \ {i} : x.cell[v][j] = m.cell[v][j]

LEMMA DestroyIsSound ==
    ASSUME NEW t, IsType(t), NEW m, NEW L, Sound(m, t, L), NEW v \in Local, NEW i \in Places(t),
           <<v, i>> \in L
    PROVE  LET x == DestroyPart(m, t.parts[i], v, i)
           IN  Sound(x, t, L \ {<<v, i>>}) /\ OnlyAt(m, x, t, v, i)
<1> DEFINE x == DestroyPart(m, t.parts[i], v, i)
           K == L \ {<<v, i>>}
<1>0. IsMemory(m, t) /\ Null \notin m.alive /\ Null \in {Raw, Null, Plain} /\ Null \in Int
    BY MemoryFacts DEF Sound, Ordered, Null
<1>1. CASE t.parts[i] = "plain"
    <2>1. x = [m EXCEPT !.cell[v][i] = Null]
        BY <1>1 DEF DestroyPart
    <2>2. Wrote(m, x, t, v, i, Null) /\ SameLists(m, x)
        BY <1>0, <2>1, WriteCell
    <2>3. m.cell[v][i] \notin m.alive
        BY <1>0, <1>1 DEF Sound, Ordered, PlainHoldsNone, Numbered, Raw, Null, Plain
    <2>4. Sound(m, t, K)
        BY <2>3, DropPart
    <2>5. <<v, i>> \notin K /\ (K \cup {<<v, i>>}) \ {<<v, i>>} = K
        OBVIOUS
    <2> HIDE DEF x, K
    <2>6. Sound(x, t, K \cup {<<v, i>>})
        BY <1>0, <1>1, <2>2, <2>4, <2>5, WriteNothing DEF Sound
    <2>7. x.cell[v][i] \notin x.alive
        BY <1>0, <2>2 DEF Wrote, SameLists
    <2>8. Sound(x, t, K)
        BY <2>5, <2>6, <2>7, DropPart
    <2>9. OnlyAt(m, x, t, v, i)
        BY <2>2 DEF Wrote, OnlyAt
    <2> QED
        BY <2>8, <2>9 DEF x, K
<1>2. CASE t.parts[i] # "plain" /\ m.cell[v][i] \in m.alive
    <2> DEFINE c == m.cell[v][i]
    <2>1. x = [m EXCEPT !.alive = @ \ {c}]
        BY <1>0, <1>2 DEF DestroyPart
    <2>2. /\ x.cell = m.cell /\ x.tag = m.tag /\ x.made = m.made /\ x.alive = m.alive \ {c}
          /\ x.storedOver = m.storedOver /\ IsMemory(x, t)
        BY <1>0, <2>1 DEF IsMemory
    <2>3. \A u \in Local, j \in Places(t) : <<u, j>> \in K <=> <<u, j>> \in L /\ ~(u = v /\ j = i)
        OBVIOUS
    <2>4. K \subseteq Local \X Places(t)
        BY DEF Sound, Ordered
    <2> HIDE DEF x, K
    <2>5. PlainHoldsNone(x, t)
        BY <2>2 DEF Sound, Ordered, PlainHoldsNone
    <2>6. \A u \in Local, j \in Places(t) : <<u, j>> \in K => m.cell[u][j] # c
        BY <1>2, <2>3 DEF Sound, Ordered, NoneTwice
    <2>7. HoldInstances(x, t, K)
        BY <2>2, <2>3, <2>6 DEF Sound, Ordered, HoldInstances
    <2>8. NoneTwice(x, t, K)
        BY <2>2, <2>3 DEF Sound, Ordered, NoneTwice
    <2>9. NoneElsewhere(x, t, K)
        BY <2>2, <2>3 DEF Sound, Ordered, NoneElsewhere, Data
    <2>10. Numbered(x, t)
        BY <2>2 DEF Sound, Ordered, Numbered
    <2>11. NoneLost(x, t, K)
        <3> SUFFICES ASSUME NEW r \in x.alive, r \notin x.storedOver
                     PROVE  \E u \in Local, j \in Places(t) : <<u, j>> \in K /\ x.cell[u][j] = r
            BY DEF NoneLost
        <3>1. PICK u \in Local, j \in Places(t) : <<u, j>> \in L /\ m.cell[u][j] = r
            BY <2>2 DEF Sound, NoneLost
        <3>2. r # c
            BY <2>2
        <3>3. ~(u = v /\ j = i)
            BY <3>1, <3>2
        <3> QED
            BY <2>2, <2>3, <3>1, <3>3
    <2> QED
        BY <2>2, <2>4, <2>5, <2>7, <2>8, <2>9, <2>10, <2>11 DEF Sound, Ordered, OnlyAt, x, K
<1>3. CASE t.parts[i] # "plain" /\ m.cell[v][i] = Null
    <2>1. x = m
        BY <1>0, <1>3 DEF DestroyPart
    <2>2. Sound(m, t, K)
        BY <1>0, <1>3, DropPart
    <2> QED
        BY <2>1, <2>2 DEF OnlyAt
<1>4. t.parts[i] # "plain" => m.cell[v][i] \in m.alive \cup {Null}
    BY DEF Sound, Ordered, HoldInstances
<1> QED
    BY <1>1, <1>2, <1>3, <1>4

(* What kind of thing is in a cell.                                        *)
Class(c) == IF c > Plain THEN "resource" ELSE IF c = Plain THEN "plain" ELSE "empty"

LEMMA CopyConstructIsSound ==
    ASSUME NEW t, IsType(t), NEW m, NEW L, Sound(m, t, L), NEW v \in Local, NEW w \in Local,
           NEW i \in Places(t), <<w, i>> \in L, <<v, i>> \notin L
    PROVE  LET x == CopyConstructPart(m, t.parts[i], v, w, i)
           IN  /\ Sound(x, t, L \cup {<<v, i>>}) /\ OnlyAt(m, x, t, v, i)
               /\ Class(x.cell[v][i]) = Class(m.cell[w][i])
<1> DEFINE c == m.cell[w][i]
           x == CopyConstructPart(m, t.parts[i], v, w, i)
<1>0. IsMemory(m, t) /\ m.alive \subseteq 1 .. m.made /\ c \in Int
    BY MemoryFacts DEF Sound, Ordered, Numbered
<1>1. CASE t.parts[i] = "plain" \/ c = Null
    <2>1. c \in {Raw, Null, Plain} /\ (t.parts[i] = "plain" \/ c = Null)
        BY <1>1 DEF Sound, Ordered, PlainHoldsNone
    <2>2. x = [m EXCEPT !.cell[v][i] = c]
        BY <1>0, <1>1, MemoryFacts DEF CopyConstructPart
    <2> HIDE DEF c, x
    <2>3. Wrote(m, x, t, v, i, c) /\ SameLists(m, x)
        BY <1>0, <2>2, WriteCell
    <2>4. Sound(x, t, L \cup {<<v, i>>})
        BY <2>1, <2>3, WriteNothing DEF Sound
    <2>5. OnlyAt(m, x, t, v, i) /\ x.cell[v][i] = c
        BY <2>3 DEF Wrote, OnlyAt
    <2> QED
        BY <2>4, <2>5 DEF x, c
<1>2. CASE t.parts[i] # "plain" /\ c \in m.alive
    <2>1. c # Null /\ c > Plain
        BY <1>0, <1>2 DEF Null, Plain
    <2>2. x = Make(m, v, i)
        BY <1>2, <2>1 DEF CopyConstructPart
    <2> HIDE DEF c, x
    <2>3. /\ Sound(x, t, L \cup {<<v, i>>})
          /\ Wrote(m, x, t, v, i, m.made + 1) /\ m.made + 1 > Plain
        BY <1>2, <2>2, MakeIsSound
    <2>4. OnlyAt(m, x, t, v, i) /\ x.cell[v][i] = m.made + 1
        BY <2>3 DEF Wrote, OnlyAt
    <2>5. Class(x.cell[v][i]) = Class(c)
        BY <2>1, <2>3, <2>4 DEF Class
    <2> QED
        BY <2>3, <2>4, <2>5 DEF x, c
<1>3. t.parts[i] # "plain" => c \in m.alive \cup {Null}
    BY DEF Sound, Ordered, HoldInstances
<1> QED
    BY <1>1, <1>2, <1>3

LEMMA MoveConstructIsSound ==
    ASSUME NEW t, IsType(t), NEW m, NEW L, Sound(m, t, L), NEW v \in Local, NEW w \in Local,
           NEW i \in Places(t), <<w, i>> \in L
    PROVE  LET x == MoveConstructPart(m, t.parts[i], v, w, i)
           IN  /\ Ordered(x, t, L \cup {<<v, i>>})
               /\ v # w /\ <<v, i>> \notin L => Sound(x, t, L \cup {<<v, i>>})
               /\ Took(m, x, t, v, w, i) /\ SameLists(m, x)
<1> DEFINE x == [m EXCEPT !.cell[v][i] = m.cell[w][i], !.cell[w][i] = Null]
<1>1. t.parts[i] = "owner" => m.cell[w][i] \in m.alive \cup {Null}
    BY DEF Sound, Ordered, HoldInstances
<1>2. MoveConstructPart(m, t.parts[i], v, w, i) = x
    BY <1>1 DEF MoveConstructPart
<1>3. Took(m, x, t, v, w, i) /\ SameLists(m, x)
    BY TakeCell DEF Sound, Ordered
<1> HIDE DEF x
<1>4. /\ Ordered(x, t, L \cup {<<v, i>>})
      /\ v # w /\ <<v, i>> \notin L => NoneLost(x, t, L \cup {<<v, i>>})
    BY <1>3, TakeIsSound DEF Sound
<1> QED
    BY <1>2, <1>3, <1>4 DEF Sound

LEMMA CopyAssignIsSound ==
    ASSUME NEW t, IsType(t), NEW m, NEW L, Sound(m, t, L), NEW v \in Local, NEW w \in Local,
           NEW i \in Places(t), <<w, i>> \in L, <<v, i>> \in L
    PROVE  LET x == CopyAssignPart(m, t.parts[i], v, w, i)
           IN  /\ Sound(x, t, L) /\ OnlyAt(m, x, t, v, i)
               /\ Class(x.cell[v][i]) = Class(m.cell[w][i])
               /\ v = w => x.cell[v][i] = m.cell[v][i]
<1> DEFINE x == CopyAssignPart(m, t.parts[i], v, w, i)
           c == m.cell[w][i]
<1>0. IsMemory(m, t)
    BY DEF Sound, Ordered
<1>1. CASE t.parts[i] = "plain"
    <2>1. x = [m EXCEPT !.cell[v][i] = c]
        BY <1>1 DEF CopyAssignPart, CopyConstructPart
    <2>2. c \in {Raw, Null, Plain}
        BY <1>1 DEF Sound, Ordered, PlainHoldsNone
    <2>3. c \in Int /\ m.cell[v][i] \notin m.alive
        BY <1>0, <1>1, MemoryFacts DEF Sound, Ordered, PlainHoldsNone, Numbered, Raw, Null, Plain
    <2> DEFINE K == L \ {<<v, i>>}
    <2>4. Sound(m, t, K) /\ <<v, i>> \notin K /\ K \cup {<<v, i>>} = L
        BY <2>3, DropPart
    <2> HIDE DEF c, x, K
    <2>5. Wrote(m, x, t, v, i, c) /\ SameLists(m, x)
        BY <1>0, <2>1, <2>3, WriteCell
    <2>6. Sound(x, t, K \cup {<<v, i>>})
        BY <1>1, <2>2, <2>4, <2>5, WriteNothing DEF Sound
    <2>7. OnlyAt(m, x, t, v, i) /\ x.cell[v][i] = c
        BY <2>5 DEF Wrote, OnlyAt
    <2> QED
        BY <2>4, <2>6, <2>7 DEF x, c
<1>2. CASE t.parts[i] # "plain" /\ v = w
    <2>1. x = m
        BY <1>2 DEF CopyAssignPart
    <2> QED
        BY <1>2, <2>1 DEF OnlyAt
<1>3. CASE t.parts[i] # "plain" /\ v # w
    <2> DEFINE y == DestroyPart(m, t.parts[i], v, i)
               K == L \ {<<v, i>>}
    <2>1. x = CopyConstructPart(y, t.parts[i], v, w, i)
        BY <1>3 DEF CopyAssignPart
    <2>2. Sound(y, t, K) /\ OnlyAt(m, y, t, v, i)
        BY DestroyIsSound
    <2>3. <<v, i>> \notin K /\ <<w, i>> \in K /\ K \cup {<<v, i>>} = L
        BY <1>3
    <2> HIDE DEF y, K, x
    <2>4. /\ Sound(x, t, K \cup {<<v, i>>}) /\ OnlyAt(y, x, t, v, i)
          /\ Class(x.cell[v][i]) = Class(y.cell[w][i])
        BY <2>1, <2>2, <2>3, CopyConstructIsSound
    <2>5. OnlyAt(m, x, t, v, i) /\ y.cell[w][i] = c
        BY <1>3, <2>2, <2>4 DEF OnlyAt
    <2> QED
        BY <1>3, <2>3, <2>4, <2>5 DEF x
<1> QED
    BY <1>1, <1>2, <1>3

-----------------------------------------------------------------------------
(* What the locals hold, and a whole value stored over what one held.      *)
LEMMA HeldFacts ==
    ASSUME NEW t, IsType(t), NEW m, IsMemory(m, t)
    PROVE  /\ \A u \in Local : HeldBy(m, t, u) =
                  IF Data(m, t, u) THEN {m.cell[u][j] : j \in Places(t)} \ {Raw, Null, Plain} ELSE {}
           /\ \A r \in Nat \ {0} : r \in Held(m, t) <=>
                  \E u \in Local, j \in Places(t) : Data(m, t, u) /\ m.cell[u][j] = r
<1>1. \A u \in Local : Tagged(t) => (HasData(t, m.tag[u]) <=> m.tag[u] = 1)
    BY TypeFacts DEF HasData
<1>2. \A u \in Local : HeldBy(m, t, u) =
          IF Data(m, t, u) THEN {m.cell[u][j] : j \in Places(t)} \ {Raw, Null, Plain} ELSE {}
    BY <1>1 DEF HeldBy, Data
<1>3. DOMAIN m.cell = Local
    BY MemoryFacts
<1>4. Held(m, t) = UNION {HeldBy(m, t, u) : u \in Local}
    BY <1>3 DEF Held
<1>5. ASSUME NEW r \in Nat \ {0}
      PROVE  r \in Held(m, t) <=> \E u \in Local, j \in Places(t) : Data(m, t, u) /\ m.cell[u][j] = r
    <2>1. r \notin {Raw, Null, Plain}
        BY DEF Raw, Null, Plain
    <2>2. \A u \in Local : r \in HeldBy(m, t, u) <=>
              Data(m, t, u) /\ \E j \in Places(t) : m.cell[u][j] = r
        BY <1>2, <2>1
    <2> QED
        BY <1>4, <2>2
<1> QED
    BY <1>2, <1>5

SameCells(m, x) == x.cell = m.cell /\ x.tag = m.tag /\ x.made = m.made /\ x.alive = m.alive

LEMMA StoringIsSound ==
    ASSUME NEW t, IsType(t), NEW m, NEW L, Sound(m, t, L), NEW y, NEW K, Ordered(y, t, K),
           y.alive = m.alive, m.storedOver \subseteq y.storedOver,
           \A u \in Local, j \in Places(t) : <<u, j>> \in L => Data(m, t, u)
    PROVE  Sound(Storing(m, t, y), t, K) /\ SameCells(y, Storing(m, t, y))
<1> DEFINE x == Storing(m, t, y)
           over == (m.alive \cap Held(m, t)) \ Held(y, t)
<1>1. IsMemory(m, t) /\ IsMemory(y, t) /\ m.alive \subseteq Nat \ {0}
    BY MemoryFacts DEF Sound, Ordered, Numbered
<1>2. over \subseteq Nat
    BY <1>1
<1>3. x = [y EXCEPT !.storedOver = @ \cup over]
    BY DEF Storing
<1> HIDE DEF over, x
<1>4. IsMemory(x, t) /\ SameCells(y, x) /\ x.storedOver = y.storedOver \cup over
    BY <1>1, <1>2, <1>3 DEF IsMemory, SameCells
<1>5. Ordered(x, t, K)
    <2>1. PlainHoldsNone(x, t)
        BY <1>4 DEF Ordered, SameCells, PlainHoldsNone
    <2>2. HoldInstances(x, t, K)
        BY <1>4 DEF Ordered, SameCells, HoldInstances
    <2>3. NoneTwice(x, t, K)
        BY <1>4 DEF Ordered, SameCells, NoneTwice
    <2>4. NoneElsewhere(x, t, K)
        BY <1>4 DEF Ordered, SameCells, NoneElsewhere, Data
    <2>5. Numbered(x, t)
        BY <1>4 DEF Ordered, SameCells, Numbered
    <2> QED
        BY <1>4, <2>1, <2>2, <2>3, <2>4, <2>5 DEF Ordered
<1>6. NoneLost(x, t, K)
    <2> SUFFICES ASSUME NEW r \in x.alive, r \notin x.storedOver
                 PROVE  \E u \in Local, j \in Places(t) : <<u, j>> \in K /\ x.cell[u][j] = r
        BY DEF NoneLost
    <2>1. r \in m.alive /\ r \notin m.storedOver /\ r \notin over /\ r \in Nat \ {0}
        BY <1>1, <1>4 DEF SameCells
    <2>2. \E u \in Local, j \in Places(t) : Data(m, t, u) /\ m.cell[u][j] = r
        BY <2>1 DEF Sound, NoneLost
    <2>3. r \in Held(m, t)
        BY <1>1, <2>1, <2>2, HeldFacts
    <2>4. r \in Held(y, t)
        BY <2>1, <2>3 DEF over
    <2>5. PICK u \in Local, j \in Places(t) : Data(y, t, u) /\ y.cell[u][j] = r
        BY <1>1, <2>1, <2>4, HeldFacts
    <2>6. <<u, j>> \in K
        BY <2>1, <2>5 DEF Ordered, NoneElsewhere
    <2> QED
        BY <1>4, <2>5, <2>6 DEF SameCells
<1> QED
    BY <1>4, <1>5, <1>6 DEF Sound, x

(* The parts i of v and w change, and nothing else.                        *)
OnlyAtBoth(m, x, t, v, w, i) ==
    /\ x.tag = m.tag
    /\ \A u \in Local \ {v, w} : x.cell[u] = m.cell[u]
    /\ \A u \in Local, j \in Places(t) \ {i} : x.cell[u][j] = m.cell[u][j]

LEMMA MoveAssignIsSound ==
    ASSUME NEW t, IsType(t), NEW m, NEW L, Sound(m, t, L), NEW v \in Local, NEW w \in Local,
           NEW i \in Places(t), <<w, i>> \in L, <<v, i>> \in L, t.parts[i] = "owner" \/ ~Tagged(t)
    PROVE  LET x == MoveAssignPart(m, t, t.parts[i], v, w, i)
           IN  Sound(x, t, L) /\ OnlyAtBoth(m, x, t, v, w, i)
<1> DEFINE x == MoveAssignPart(m, t, t.parts[i], v, w, i)
<1>1. CASE t.parts[i] # "owner"
    <2> DEFINE y == MoveConstructPart(m, t.parts[i], v, w, i)
    <2>1. x = Storing(m, t, y)
        BY <1>1 DEF MoveAssignPart
    <2>2. Ordered(y, t, L \cup {<<v, i>>}) /\ Took(m, y, t, v, w, i) /\ SameLists(m, y)
        BY MoveConstructIsSound
    <2>3. L \cup {<<v, i>>} = L
        OBVIOUS
    <2>4. \A u \in Local : Data(m, t, u)
        BY <1>1 DEF Data
    <2> HIDE DEF y, x
    <2>5. Sound(x, t, L) /\ SameCells(y, x)
        BY <2>1, <2>2, <2>3, <2>4, StoringIsSound DEF SameLists
    <2>6. OnlyAtBoth(m, x, t, v, w, i)
        BY <2>2, <2>5 DEF Took, SameCells, OnlyAtBoth
    <2> QED
        BY <2>5, <2>6 DEF x
<1>2. CASE t.parts[i] = "owner" /\ v = w
    <2>1. x = m
        BY <1>2 DEF MoveAssignPart
    <2> QED
        BY <2>1 DEF OnlyAtBoth
<1>3. CASE t.parts[i] = "owner" /\ v # w
    <2> DEFINE y == DestroyPart(m, t.parts[i], v, i)
               K == L \ {<<v, i>>}
    <2>1. x = MoveConstructPart(y, t.parts[i], v, w, i)
        BY <1>3 DEF MoveAssignPart
    <2>2. Sound(y, t, K) /\ OnlyAt(m, y, t, v, i)
        BY DestroyIsSound
    <2>3. <<v, i>> \notin K /\ <<w, i>> \in K /\ K \cup {<<v, i>>} = L
        BY <1>3
    <2> HIDE DEF y, K, x
    <2>4. Sound(x, t, K \cup {<<v, i>>}) /\ Took(y, x, t, v, w, i)
        BY <1>3, <2>1, <2>2, <2>3, MoveConstructIsSound
    <2>5. OnlyAtBoth(m, x, t, v, w, i)
        BY <2>2, <2>4 DEF OnlyAt, Took, OnlyAtBoth
    <2> QED
        BY <2>3, <2>4, <2>5 DEF x
<1> QED
    BY <1>1, <1>2, <1>3

-----------------------------------------------------------------------------
(* Tags.                                                                   *)
TagIs(m, x, t, v, k) ==
    /\ IsMemory(x, t) /\ SameLists(m, x) /\ x.cell = m.cell
    /\ \A u \in Local : x.tag[u] = IF u = v THEN k ELSE m.tag[u]

LEMMA SetTagFacts ==
    ASSUME NEW t, NEW m, IsMemory(m, t), NEW v \in Local, NEW k \in {0, 1}
    PROVE  TagIs(m, SetTag(m, v, k), t, v, k)
    BY DEF SetTag, IsMemory, SameLists, TagIs

LEMMA SetTagIsOrdered ==
    ASSUME NEW t, IsType(t), Tagged(t), NEW m, NEW L, Ordered(m, t, L), NEW v \in Local,
           NEW k \in {0, 1}, k = 1 => <<v, 1>> \in L
    PROVE  LET K == IF k = 1 THEN L ELSE L \ {<<v, 1>>}
               x == SetTag(m, v, k)
           IN  /\ Ordered(x, t, K)
               /\ NoneLost(m, t, L) /\ (k = 0 /\ <<v, 1>> \in L => m.cell[v][1] \notin m.alive)
                  => NoneLost(x, t, K)
<1> DEFINE K == IF k = 1 THEN L ELSE L \ {<<v, 1>>}
           x == SetTag(m, v, k)
<1>0. Places(t) = {1}
    BY TypeFacts
<1>1. \A u \in Local, j \in Places(t) : <<u, j>> \in K <=> <<u, j>> \in L /\ (u = v => k = 1)
    BY <1>0
<1>2. K \subseteq Local \X Places(t)
    BY DEF Ordered
<1>3. /\ IsMemory(x, t) /\ x.cell = m.cell /\ x.made = m.made /\ x.alive = m.alive
      /\ x.storedOver = m.storedOver
      /\ \A u \in Local : x.tag[u] = IF u = v THEN k ELSE m.tag[u]
    <2>1. IsMemory(m, t)
        BY DEF Ordered
    <2>2. /\ IsMemory(x, t) /\ SameLists(m, x) /\ x.cell = m.cell
          /\ \A u \in Local : x.tag[u] = IF u = v THEN k ELSE m.tag[u]
        BY <2>1 DEF SetTag, IsMemory, SameLists
    <2> QED
        BY <2>2 DEF SameLists
<1>4. v \in Local => (k = 1 => <<v, 1>> \in L)
    OBVIOUS
<1> HIDE DEF x, K
<1>5. PlainHoldsNone(x, t)
    BY <1>3 DEF Ordered, PlainHoldsNone
<1>6. HoldInstances(x, t, K)
    BY <1>1, <1>3 DEF Ordered, HoldInstances
<1>7. NoneTwice(x, t, K)
    BY <1>1, <1>3 DEF Ordered, NoneTwice
<1>8. NoneElsewhere(x, t, K)
    <2> SUFFICES ASSUME NEW u \in Local, NEW j \in Places(t), <<u, j>> \notin K, Data(x, t, u)
                 PROVE  x.cell[u][j] \notin x.alive
        BY DEF NoneElsewhere
    <2>1. CASE u = v
        BY <1>0, <1>1, <1>3, <2>1 DEF Data
    <2>2. CASE u # v
        <3>1. <<u, j>> \notin L /\ Data(m, t, u)
            BY <1>1, <1>3, <2>2 DEF Data
        <3> QED
            BY <1>3, <3>1 DEF Ordered, NoneElsewhere
    <2> QED
        BY <2>1, <2>2
<1>9. Numbered(x, t)
    BY <1>3 DEF Ordered, Numbered
<1>10. NoneLost(m, t, L) /\ (k = 0 /\ <<v, 1>> \in L => m.cell[v][1] \notin m.alive) => NoneLost(x, t, K)
    <2> SUFFICES ASSUME NoneLost(m, t, L), k = 0 /\ <<v, 1>> \in L => m.cell[v][1] \notin m.alive,
                        NEW r \in m.alive, r \notin m.storedOver
                 PROVE  \E u \in Local, j \in Places(t) : <<u, j>> \in K /\ x.cell[u][j] = r
        BY <1>3 DEF NoneLost
    <2>1. PICK u \in Local, j \in Places(t) : <<u, j>> \in L /\ m.cell[u][j] = r
        BY DEF NoneLost
    <2>2. u = v => k = 1
        BY <1>0, <2>1
    <2> QED
        BY <1>1, <1>3, <2>1, <2>2
<1> QED
    BY <1>2, <1>3, <1>5, <1>6, <1>7, <1>8, <1>9, <1>10 DEF Ordered, x, K

LEMMA TagSetIsSound ==
    ASSUME NEW t, IsType(t), Tagged(t), NEW m, NEW L, Sound(m, t, L), NEW v \in Local, <<v, 1>> \in L
    PROVE  Sound(SetTag(m, v, 1), t, L) /\ TagIs(m, SetTag(m, v, 1), t, v, 1)
<1>1. PICK k \in {0, 1} : k = 1 /\ k # 0
    OBVIOUS
<1>a. Ordered(m, t, L) /\ NoneLost(m, t, L)
    BY DEF Sound
<1>2. /\ Ordered(SetTag(m, v, k), t, IF k = 1 THEN L ELSE L \ {<<v, 1>>})
      /\ NoneLost(m, t, L) /\ (k = 0 /\ <<v, 1>> \in L => m.cell[v][1] \notin m.alive)
              => NoneLost(SetTag(m, v, k), t, IF k = 1 THEN L ELSE L \ {<<v, 1>>})
    BY <1>1, <1>a, SetTagIsOrdered
<1>3. TagIs(m, SetTag(m, v, k), t, v, k)
    BY SetTagFacts DEF Sound, Ordered
<1> QED
    BY <1>1, <1>a, <1>2, <1>3 DEF Sound

LEMMA TagResetIsOrdered ==
    ASSUME NEW t, IsType(t), Tagged(t), NEW m, NEW L, Ordered(m, t, L), NEW v \in Local
    PROVE  /\ Ordered(SetTag(m, v, 0), t, L \ {<<v, 1>>}) /\ TagIs(m, SetTag(m, v, 0), t, v, 0)
           /\ NoneLost(m, t, L) /\ (<<v, 1>> \in L => m.cell[v][1] \notin m.alive)
              => NoneLost(SetTag(m, v, 0), t, L \ {<<v, 1>>})
<1>1. PICK k \in {0, 1} : k = 0 /\ k # 1
    OBVIOUS
<1>2. /\ Ordered(SetTag(m, v, k), t, IF k = 1 THEN L ELSE L \ {<<v, 1>>})
      /\ NoneLost(m, t, L) /\ (k = 0 /\ <<v, 1>> \in L => m.cell[v][1] \notin m.alive)
              => NoneLost(SetTag(m, v, k), t, IF k = 1 THEN L ELSE L \ {<<v, 1>>})
    BY <1>1, SetTagIsOrdered
<1>3. TagIs(m, SetTag(m, v, k), t, v, k)
    BY SetTagFacts DEF Ordered
<1> QED
    BY <1>1, <1>2, <1>3

-----------------------------------------------------------------------------
(* Whole values.  L and K agree on all locals but v.                       *)
AgreeBut(t, L, K, v) ==
    /\ K \subseteq Local \X Places(t)
    /\ \A u \in Local \ {v}, j \in Places(t) : <<u, j>> \in K <=> <<u, j>> \in L

LEMMA ZeroedFacts ==
    ASSUME NEW t, NEW m, IsMemory(m, t), NEW v \in Local
    PROVE  LET x == Zeroed(m, t, v)
           IN  /\ IsMemory(x, t) /\ SameLists(m, x)
               /\ \A u \in Local : x.tag[u] = IF u = v THEN 0 ELSE m.tag[u]
               /\ \A j \in Places(t) : x.cell[v][j] = Null
               /\ \A u \in Local \ {v} : x.cell[u] = m.cell[u]
<1> DEFINE x == Zeroed(m, t, v)
           nulls == [j \in Places(t) |-> Null]
<1>1. /\ m.cell \in [Local -> [Places(t) -> Int]] /\ m.tag \in [Local -> {0, 1}]
      /\ DOMAIN m.cell[v] = Places(t)
    BY MemoryFacts
<1>2. x = [m EXCEPT !.cell[v] = nulls, !.tag[v] = 0]
    BY <1>1 DEF Zeroed
<1>3. nulls \in [Places(t) -> Int] /\ \A j \in Places(t) : nulls[j] = Null
    BY DEF Null
<1> HIDE DEF x, nulls
<1>4. /\ x.cell = [m.cell EXCEPT ![v] = nulls] /\ x.tag = [m.tag EXCEPT ![v] = 0]
      /\ SameLists(m, x) /\ x.faults = m.faults
      /\ x \in [cell : {x.cell}, tag : {x.tag}, made : {x.made}, alive : {x.alive},
                storedOver : {x.storedOver}, faults : {x.faults}]
    BY <1>2 DEF IsMemory, SameLists
<1>5. x.cell \in [Local -> [Places(t) -> Int]] /\ x.tag \in [Local -> {0, 1}]
    BY <1>1, <1>3, <1>4
<1>6. IsMemory(x, t)
    BY <1>4, <1>5 DEF IsMemory, SameLists
<1> QED
    BY <1>1, <1>3, <1>4, <1>6 DEF x

LEMMA ZeroedIsOrdered ==
    ASSUME NEW t, IsType(t), NEW m, NEW L, Ordered(m, t, L), NEW v \in Local, NEW K,
           AgreeBut(t, L, K, v)
    PROVE  /\ Ordered(Zeroed(m, t, v), t, K)
           /\ NoneLost(m, t, L) /\ (\A j \in Places(t) : <<v, j>> \notin L)
              => NoneLost(Zeroed(m, t, v), t, K)
<1> DEFINE x == Zeroed(m, t, v)
<1>1. IsMemory(m, t) /\ Null \notin m.alive /\ Null \in Int /\ Null < 0 /\ m.made \in Nat
    BY MemoryFacts DEF Ordered, Null
<1>2. /\ IsMemory(x, t) /\ SameLists(m, x)
      /\ \A u \in Local : x.tag[u] = IF u = v THEN 0 ELSE m.tag[u]
      /\ \A j \in Places(t) : x.cell[v][j] = Null
      /\ \A u \in Local \ {v} : x.cell[u] = m.cell[u]
    BY <1>1, ZeroedFacts
<1> HIDE DEF x
<1>3. x.made = m.made /\ x.alive = m.alive /\ x.storedOver = m.storedOver
    BY <1>2 DEF SameLists
<1>4. \A u \in Local, j \in Places(t) : x.cell[u][j] = IF u = v THEN Null ELSE m.cell[u][j]
    BY <1>2
<1>5. PlainHoldsNone(x, t)
    BY <1>4 DEF Ordered, PlainHoldsNone
<1>6. HoldInstances(x, t, K)
    BY <1>3, <1>4 DEF Ordered, HoldInstances, AgreeBut
<1>7. NoneTwice(x, t, K)
    BY <1>1, <1>3, <1>4 DEF Ordered, NoneTwice, AgreeBut
<1>8. NoneElsewhere(x, t, K)
    BY <1>1, <1>2, <1>3, <1>4 DEF Ordered, NoneElsewhere, Data, AgreeBut
<1>9. Numbered(x, t)
    BY <1>1, <1>3, <1>4 DEF Ordered, Numbered
<1>10. NoneLost(m, t, L) /\ (\A j \in Places(t) : <<v, j>> \notin L) => NoneLost(x, t, K)
    <2> SUFFICES ASSUME NoneLost(m, t, L), \A j \in Places(t) : <<v, j>> \notin L,
                        NEW r \in m.alive, r \notin m.storedOver
                 PROVE  \E u \in Local, j \in Places(t) : <<u, j>> \in K /\ x.cell[u][j] = r
        BY <1>3 DEF NoneLost
    <2>1. PICK u \in Local, j \in Places(t) : <<u, j>> \in L /\ m.cell[u][j] = r
        BY DEF NoneLost
    <2>2. u # v
        BY <2>1
    <2> QED
        BY <1>4, <2>1, <2>2 DEF AgreeBut
<1> QED
    BY <1>2, <1>5, <1>6, <1>7, <1>8, <1>9, <1>10 DEF Ordered, AgreeBut, x

LEMMA LoadStoreFacts ==
    ASSUME NEW t, NEW m, IsMemory(m, t), NEW v \in Local, NEW w \in Local
    PROVE  LET x == LoadStore(m, v, w)
           IN  /\ IsMemory(x, t) /\ SameLists(m, x)
               /\ \A u \in Local : /\ x.tag[u] = IF u = v THEN m.tag[w] ELSE m.tag[u]
                                   /\ x.cell[u] = IF u = v THEN m.cell[w] ELSE m.cell[u]
<1> DEFINE x == LoadStore(m, v, w)
<1>1. /\ m.cell \in [Local -> [Places(t) -> Int]] /\ m.tag \in [Local -> {0, 1}]
      /\ m.cell[w] \in [Places(t) -> Int] /\ m.tag[w] \in {0, 1}
    BY MemoryFacts
<1>2. /\ x.cell = [m.cell EXCEPT ![v] = m.cell[w]] /\ x.tag = [m.tag EXCEPT ![v] = m.tag[w]]
      /\ SameLists(m, x) /\ x.faults = m.faults
      /\ x \in [cell : {x.cell}, tag : {x.tag}, made : {x.made}, alive : {x.alive},
                storedOver : {x.storedOver}, faults : {x.faults}]
    BY DEF LoadStore, IsMemory, SameLists
<1> HIDE DEF x
<1>3. x.cell \in [Local -> [Places(t) -> Int]] /\ x.tag \in [Local -> {0, 1}]
    BY <1>1, <1>2
<1>4. IsMemory(x, t)
    BY <1>2, <1>3 DEF IsMemory, SameLists
<1>5. \A u \in Local : /\ x.tag[u] = IF u = v THEN m.tag[w] ELSE m.tag[u]
                       /\ x.cell[u] = IF u = v THEN m.cell[w] ELSE m.cell[u]
    BY <1>1, <1>2
<1> QED
    BY <1>2, <1>4, <1>5 DEF x

(* A value goes from w to v as a whole, and w is left without.             *)
Moves(m, x, t, v, w) ==
    /\ IsMemory(x, t) /\ SameLists(m, x)
    /\ \A u \in Local : x.tag[u] = IF u = v THEN m.tag[w] ELSE IF u = w THEN 0 ELSE m.tag[u]
    /\ \A u \in Local, j \in Places(t) :
          x.cell[u][j] = IF u = v THEN m.cell[w][j] ELSE IF u = w THEN Null ELSE m.cell[u][j]

LEMMA MoveIsOrdered ==
    ASSUME NEW t, IsType(t), NEW m, NEW L, Ordered(m, t, L), NEW v \in Local, NEW w \in Local,
           NEW x, Moves(m, x, t, v, w), NEW K, K \subseteq Local \X Places(t),
           \A u \in Local \ {v, w}, j \in Places(t) : <<u, j>> \in K <=> <<u, j>> \in L,
           \A j \in Places(t) : <<v, j>> \in K <=> <<w, j>> \in L
    PROVE  /\ Ordered(x, t, K)
           /\ NoneLost(m, t, L) /\ (\A j \in Places(t) : <<v, j>> \notin L) => NoneLost(x, t, K)
<1>1. IsMemory(m, t) /\ Null \notin m.alive /\ Null \in Int /\ Null < 0 /\ m.made \in Nat
    BY MemoryFacts DEF Ordered, Null
<1>2. /\ x.made = m.made /\ x.alive = m.alive /\ x.storedOver = m.storedOver /\ IsMemory(x, t)
      /\ \A u \in Local : x.tag[u] = IF u = v THEN m.tag[w] ELSE IF u = w THEN 0 ELSE m.tag[u]
      /\ \A u \in Local, j \in Places(t) :
          x.cell[u][j] = IF u = v THEN m.cell[w][j] ELSE IF u = w THEN Null ELSE m.cell[u][j]
    BY DEF Moves, SameLists
<1>5. PlainHoldsNone(x, t)
    BY <1>2 DEF Ordered, PlainHoldsNone
<1>6. HoldInstances(x, t, K)
    <2> SUFFICES ASSUME NEW u \in Local, NEW j \in Places(t), <<u, j>> \in K, t.parts[j] # "plain"
                 PROVE  x.cell[u][j] \in m.alive \cup {Null}
        BY <1>2 DEF HoldInstances
    <2>1. CASE u = v
        BY <1>2, <2>1 DEF Ordered, HoldInstances
    <2>2. CASE u # v /\ u = w
        BY <1>2, <2>2
    <2>3. CASE u \notin {v, w}
        BY <1>2, <2>3 DEF Ordered, HoldInstances
    <2> QED
        BY <2>1, <2>2, <2>3
<1>7. NoneTwice(x, t, K)
    <2> SUFFICES ASSUME NEW u \in Local, NEW z \in Local, NEW i \in Places(t), NEW j \in Places(t),
                        <<u, i>> \in K, <<z, j>> \in K, x.cell[u][i] = x.cell[z][j],
                        x.cell[u][i] \in m.alive
                 PROVE  u = z /\ i = j
        BY <1>2 DEF NoneTwice
    <2>1. (u = w => u = v) /\ (z = w => z = v)
        BY <1>1, <1>2
    <2> DEFINE From(a) == IF a = v THEN w ELSE a
    <2>2. /\ From(u) \in Local /\ From(z) \in Local
          /\ <<From(u), i>> \in L /\ <<From(z), j>> \in L
          /\ m.cell[From(u)][i] = x.cell[u][i] /\ m.cell[From(z)][j] = x.cell[z][j]
        BY <1>2, <2>1
    <2>3. From(u) = From(z) /\ i = j
        BY <2>2 DEF Ordered, NoneTwice
    <2> QED
        BY <2>1, <2>3
<1>8. NoneElsewhere(x, t, K)
    <2> SUFFICES ASSUME NEW u \in Local, NEW j \in Places(t), <<u, j>> \notin K, Data(x, t, u)
                 PROVE  x.cell[u][j] \notin m.alive
        BY <1>2 DEF NoneElsewhere
    <2>1. CASE u = v
        BY <1>2, <2>1 DEF Ordered, NoneElsewhere, Data
    <2>2. CASE u # v /\ u = w
        BY <1>1, <1>2, <2>2
    <2>3. CASE u \notin {v, w}
        BY <1>2, <2>3 DEF Ordered, NoneElsewhere, Data
    <2> QED
        BY <2>1, <2>2, <2>3
<1>9. Numbered(x, t)
    BY <1>1, <1>2 DEF Ordered, Numbered
<1>10. NoneLost(m, t, L) /\ (\A j \in Places(t) : <<v, j>> \notin L) => NoneLost(x, t, K)
    <2> SUFFICES ASSUME NoneLost(m, t, L), \A j \in Places(t) : <<v, j>> \notin L,
                        NEW r \in m.alive, r \notin m.storedOver
                 PROVE  \E u \in Local, j \in Places(t) : <<u, j>> \in K /\ x.cell[u][j] = r
        BY <1>2 DEF NoneLost
    <2>1. PICK u \in Local, j \in Places(t) : <<u, j>> \in L /\ m.cell[u][j] = r
        BY DEF NoneLost
    <2>2. u # v
        BY <2>1
    <2>3. CASE u = w
        BY <1>2, <2>1, <2>3
    <2>4. CASE u # w
        BY <1>2, <2>1, <2>2, <2>4
    <2> QED
        BY <2>3, <2>4
<1> QED
    BY <1>2, <1>5, <1>6, <1>7, <1>8, <1>9, <1>10 DEF Ordered

(* Of a type that is plain nothing is ever held.                           *)
LEMMA PlainParts ==
    ASSUME NEW t, IsType(t), has_simple_copy(t)
    PROVE  \A j \in Places(t) : t.parts[j] = "plain"
<1>1. Places(t) = DOMAIN t.parts /\ \A j \in Places(t) : t.parts[j] \in {"plain", "owner", "mover"}
    BY TypeFacts
<1>2. \A j \in DOMAIN t.parts : t.parts[j] \in {"plain", "none"}
    BY DEF has_simple_copy, ToSet
<1> QED
    BY <1>1, <1>2

LEMMA PlainIsSound ==
    ASSUME NEW t, IsType(t), has_simple_copy(t), NEW m, NEW L, Sound(m, t, L),
           NEW x, IsMemory(x, t), SameLists(m, x), NEW K, K \subseteq Local \X Places(t),
           \A u \in Local, j \in Places(t) :
              x.cell[u][j] \in {Raw, Null, Plain}
    PROVE  Sound(x, t, K)
<1>1. \A j \in Places(t) : t.parts[j] = "plain"
    BY PlainParts
<1>2. /\ m.alive \subseteq 1 .. m.made /\ m.made \in Nat
      /\ x.made = m.made /\ x.alive = m.alive /\ x.storedOver = m.storedOver
    BY MemoryFacts DEF Sound, Ordered, Numbered, SameLists
<1>3. \A u \in Local, j \in Places(t) : x.cell[u][j] \notin x.alive /\ x.cell[u][j] <= x.made
    BY <1>2 DEF Raw, Null, Plain
<1>4. \A u \in Local, j \in Places(t) : m.cell[u][j] \notin m.alive
    BY <1>1, <1>2 DEF Sound, Ordered, PlainHoldsNone, Raw, Null, Plain
<1>5. PlainHoldsNone(x, t)
    BY DEF PlainHoldsNone
<1>6. HoldInstances(x, t, K) /\ NoneTwice(x, t, K) /\ NoneElsewhere(x, t, K) /\ Numbered(x, t)
    BY <1>1, <1>2, <1>3 DEF HoldInstances, NoneTwice, NoneElsewhere, Numbered
<1>7. NoneLost(x, t, K)
    <2>1. \A r \in m.alive : r \in m.storedOver
        <3>1. \A r \in m.alive : r \in m.storedOver
                  \/ \E u \in Local, j \in Places(t) : <<u, j>> \in L /\ m.cell[u][j] = r
            BY DEF Sound, NoneLost
        <3>2. ASSUME NEW r \in m.alive, r \notin m.storedOver
              PROVE  FALSE
            <4>1. PICK u \in Local, j \in Places(t) : m.cell[u][j] = r
                BY <3>1, <3>2
            <4>2. m.cell[u][j] \notin m.alive
                BY <1>4
            <4> QED
                BY <4>1, <4>2
        <3> QED
            BY <3>2
    <2> QED
        BY <1>2, <2>1 DEF NoneLost
<1> QED
    BY <1>5, <1>6, <1>7 DEF Sound, Ordered

LEMMA PlainCells ==
    ASSUME NEW t, IsType(t), has_simple_copy(t), NEW m, PlainHoldsNone(m, t)
    PROVE  \A u \in Local, j \in Places(t) : m.cell[u][j] \in {Raw, Null, Plain}
<1>1. \A j \in Places(t) : t.parts[j] = "plain"
    BY PlainParts
<1> QED
    BY <1>1 DEF PlainHoldsNone

-----------------------------------------------------------------------------
(* Tuples and structs, one part after the other.                           *)
MemorySet(t) ==
    [cell : [Local -> [Places(t) -> Int]], tag : [Local -> {0, 1}], made : Nat,
     alive : SUBSET Nat, storedOver : SUBSET Nat, faults : {0}]

Before(v, i) == {v} \X (1 .. i)

LEMMA BeforeNext ==
    ASSUME NEW v, NEW n \in Nat, NEW i \in 1 .. n
    PROVE  /\ Before(v, i) = Before(v, i - 1) \cup {<<v, i>>} /\ <<v, i>> \notin Before(v, i - 1)
           /\ Before(v, 0) = {} /\ i - 1 \in 0 .. n /\ i \in 0 .. n
<1>1. 1 .. i = (1 .. (i - 1)) \cup {i} /\ i \notin 1 .. (i - 1) /\ 1 .. 0 = {}
    OBVIOUS
<1>2. \A A : {v} \X A = {<<v, a>> : a \in A}
    OBVIOUS
<1>3. Before(v, i) = Before(v, i - 1) \cup {<<v, i>>}
    BY <1>1, <1>2 DEF Before
<1>4. <<v, i>> \notin Before(v, i - 1) /\ Before(v, 0) = {}
    BY <1>1 DEF Before
<1> QED
    BY <1>3, <1>4

SameTags(m, x) == x.tag = m.tag

(* If each part takes what is sound of K[i - 1] to what is sound of K[i],  *)
(* all do.                                                                 *)
LEMMA PartsAreSound ==
    ASSUME NEW t, IsType(t), NEW op, NEW m, NEW v, NEW w,
           NEW K \in [0 .. Len(t.parts) -> SUBSET (Local \X Places(t))], Sound(m, t, K[0]),
           \A i \in 1 .. Len(t.parts) : \A x : Sound(x, t, K[i - 1]) =>
              /\ Sound(OnPart(op, x, t, v, w, i), t, K[i])
              /\ SameTags(x, OnPart(op, x, t, v, w, i))
    PROVE  /\ Sound(EachPart(op, m, t, v, w), t, K[Len(t.parts)])
           /\ SameTags(m, EachPart(op, m, t, v, w))
<1> DEFINE n == Len(t.parts)
           M == MemorySet(t)
           Ok == [i \in 0 .. n |-> {x \in M : Sound(x, t, K[i]) /\ SameTags(m, x)}]
<1>1. n \in Nat /\ 0 \in 0 .. n /\ n \in 0 .. n /\ \A i \in 1 .. n : i \in 0 .. n /\ i - 1 \in 0 .. n
    BY TypeFacts
<1>2. \A x, L : Sound(x, t, L) => x \in M
    BY DEF Sound, Ordered, IsMemory, MemorySet
<1>3. Ok \in [0 .. n -> SUBSET M] /\ \A i \in 0 .. n : \A x : x \in Ok[i] <=> Sound(x, t, K[i]) /\ SameTags(m, x)
    BY <1>2
<1> HIDE DEF Ok, M
<1>4. m \in Ok[0]
    BY <1>1, <1>3 DEF SameTags
<1>5. \A i \in 1 .. n : \A x \in Ok[i - 1] : OnPart(op, x, t, v, w, i) \in Ok[i]
    BY <1>1, <1>3 DEF SameTags
<1>6. EachPart(op, m, t, v, w) \in Ok[n]
    BY <1>3, <1>4, <1>5, EachPartKeeps
<1> QED
    BY <1>1, <1>3, <1>6

LEMMA MakePartIsSound ==
    ASSUME NEW t, IsType(t), NEW m, NEW L, Sound(m, t, L), NEW v \in Local,
           NEW i \in Places(t), <<v, i>> \notin L
    PROVE  /\ Sound(MakePart(m, t.parts[i], v, i), t, L \cup {<<v, i>>})
           /\ SameTags(m, MakePart(m, t.parts[i], v, i))
<1>1. t.parts[i] \in {"plain", "owner", "mover"}
    BY TypeFacts
<1>2. CASE t.parts[i] = "plain"
    <2> DEFINE y == [m EXCEPT !.cell[v][i] = Plain]
    <2>1. MakePart(m, t.parts[i], v, i) = y
        BY <1>2 DEF MakePart
    <2>2. IsMemory(m, t) /\ Ordered(m, t, L) /\ NoneLost(m, t, L) /\ Plain \in Int /\ Plain \in {Raw, Null, Plain}
        BY DEF Sound, Ordered, Plain
    <2>3. Wrote(m, y, t, v, i, Plain) /\ SameLists(m, y)
        BY <2>2, WriteCell
    <2> HIDE DEF y
    <2>4. Ordered(y, t, L \cup {<<v, i>>}) /\ NoneLost(y, t, L \cup {<<v, i>>})
        BY <1>2, <2>2, <2>3, WriteNothing
    <2> QED
        BY <2>1, <2>3, <2>4 DEF Sound, Wrote, SameTags
<1>3. CASE t.parts[i] # "plain"
    <2>1. MakePart(m, t.parts[i], v, i) = Make(m, v, i)
        BY <1>1, <1>3 DEF MakePart
    <2>2. /\ Sound(Make(m, v, i), t, L \cup {<<v, i>>})
          /\ Wrote(m, Make(m, v, i), t, v, i, m.made + 1)
        BY <1>3, MakeIsSound
    <2> QED
        BY <2>1, <2>2 DEF Wrote, SameTags
<1> QED
    BY <1>2, <1>3

LEMMA MakesAreSound ==
    ASSUME NEW t, IsType(t), NEW m, NEW L, Sound(m, t, L), NEW v \in Local,
           \A j \in Places(t) : <<v, j>> \notin L
    PROVE  /\ Sound(EachPart("make", m, t, v, v), t, L \cup Before(v, Len(t.parts)))
           /\ SameTags(m, EachPart("make", m, t, v, v))
<1> DEFINE n == Len(t.parts)
           K == [i \in 0 .. n |-> L \cup Before(v, i)]
<1>1. n \in Nat /\ Places(t) = 1 .. n /\ 0 \in 0 .. n /\ n \in 0 .. n
    BY TypeFacts
<1>2. \A i \in 0 .. n : Before(v, i) \subseteq Local \X Places(t)
    BY <1>1 DEF Before
<1>3. K \in [0 .. n -> SUBSET (Local \X Places(t))] /\ \A i \in 0 .. n : K[i] = L \cup Before(v, i)
    BY <1>2 DEF Sound, Ordered
<1>4. K[0] = L
    BY <1>1, <1>3 DEF Before
<1> HIDE DEF K, n
<1>5. ASSUME NEW i \in 1 .. n, NEW x, Sound(x, t, K[i - 1])
      PROVE  Sound(OnPart("make", x, t, v, v, i), t, K[i]) /\ SameTags(x, OnPart("make", x, t, v, v, i))
    <2>1. /\ K[i] = K[i - 1] \cup {<<v, i>>} /\ <<v, i>> \notin K[i - 1] /\ i \in Places(t)
        BY <1>1, <1>3, BeforeNext
    <2>2. OnPart("make", x, t, v, v, i) = MakePart(x, t.parts[i], v, i)
        BY DEF OnPart
    <2> QED
        BY <1>5, <2>1, <2>2, MakePartIsSound
<1>6. Sound(EachPart("make", m, t, v, v), t, K[n]) /\ SameTags(m, EachPart("make", m, t, v, v))
    BY <1>3, <1>4, <1>5, PartsAreSound DEF n
<1> QED
    BY <1>1, <1>3, <1>6 DEF n

LEMMA MovesAreSound ==
    ASSUME NEW t, IsType(t), NEW m, NEW L, Sound(m, t, L), NEW v \in Local, NEW w \in Local, v # w,
           \A j \in Places(t) : <<v, j>> \notin L /\ <<w, j>> \in L
    PROVE  /\ Sound(EachPart("move construct", m, t, v, w), t, L \cup Before(v, Len(t.parts)))
           /\ SameTags(m, EachPart("move construct", m, t, v, w))
<1> DEFINE n == Len(t.parts)
           K == [i \in 0 .. n |-> L \cup Before(v, i)]
<1>1. n \in Nat /\ Places(t) = 1 .. n /\ 0 \in 0 .. n /\ n \in 0 .. n
    BY TypeFacts
<1>2. \A i \in 0 .. n : Before(v, i) \subseteq Local \X Places(t)
    BY <1>1 DEF Before
<1>3. K \in [0 .. n -> SUBSET (Local \X Places(t))] /\ \A i \in 0 .. n : K[i] = L \cup Before(v, i)
    BY <1>2 DEF Sound, Ordered
<1>4. K[0] = L
    BY <1>1, <1>3 DEF Before
<1> HIDE DEF K, n
<1>5. ASSUME NEW i \in 1 .. n, NEW x, Sound(x, t, K[i - 1])
      PROVE  /\ Sound(OnPart("move construct", x, t, v, w, i), t, K[i])
             /\ SameTags(x, OnPart("move construct", x, t, v, w, i))
    <2>1. /\ K[i] = K[i - 1] \cup {<<v, i>>} /\ <<v, i>> \notin K[i - 1] /\ i \in Places(t)
          /\ <<w, i>> \in K[i - 1]
        BY <1>1, <1>3, BeforeNext
    <2>2. OnPart("move construct", x, t, v, w, i) = MoveConstructPart(x, t.parts[i], v, w, i)
        BY DEF OnPart
    <2> DEFINE J == K[i - 1]
    <2>3. Sound(x, t, J) /\ <<v, i>> \notin J /\ <<w, i>> \in J
        BY <1>5, <2>1
    <2> HIDE DEF J
    <2>4. /\ Sound(MoveConstructPart(x, t.parts[i], v, w, i), t, J \cup {<<v, i>>})
          /\ Took(x, MoveConstructPart(x, t.parts[i], v, w, i), t, v, w, i)
        BY <2>1, <2>3, MoveConstructIsSound
    <2> QED
        BY <2>1, <2>2, <2>4 DEF J, Took, SameTags
<1>a. \A i \in 1 .. n : \A x : Sound(x, t, K[i - 1]) =>
         /\ Sound(OnPart("move construct", x, t, v, w, i), t, K[i])
         /\ SameTags(x, OnPart("move construct", x, t, v, w, i))
    BY <1>5
<1>6. /\ Sound(EachPart("move construct", m, t, v, w), t, K[n])
      /\ SameTags(m, EachPart("move construct", m, t, v, w))
    <2>1. K \in [0 .. n -> SUBSET (Local \X Places(t))] /\ Sound(m, t, K[0])
        BY <1>3, <1>4
    <2> QED
        BY <1>a, <2>1, PartsAreSound DEF n
<1> QED
    BY <1>1, <1>3, <1>6 DEF n

LEMMA MovesToAreSound ==
    ASSUME NEW t, IsType(t), ~Tagged(t), NEW m, NEW L, Sound(m, t, L), NEW v \in Local,
           NEW w \in Local, \A j \in Places(t) : <<v, j>> \in L /\ <<w, j>> \in L
    PROVE  Sound(EachPart("move assign", m, t, v, w), t, L) /\ SameTags(m, EachPart("move assign", m, t, v, w))
<1> DEFINE n == Len(t.parts)
           K == [i \in 0 .. n |-> L]
<1>1. n \in Nat /\ Places(t) = 1 .. n /\ 0 \in 0 .. n /\ n \in 0 .. n
      /\ \A i \in 1 .. n : i - 1 \in 0 .. n /\ i \in 0 .. n
    BY TypeFacts
<1>2. K \in [0 .. n -> SUBSET (Local \X Places(t))] /\ \A i \in 0 .. n : K[i] = L
    BY DEF Sound, Ordered
<1> HIDE DEF K, n
<1>3. ASSUME NEW i \in 1 .. n, NEW x, Sound(x, t, K[i - 1])
      PROVE  /\ Sound(OnPart("move assign", x, t, v, w, i), t, K[i])
             /\ SameTags(x, OnPart("move assign", x, t, v, w, i))
    <2>1. OnPart("move assign", x, t, v, w, i) = MoveAssignPart(x, t, t.parts[i], v, w, i)
        BY DEF OnPart
    <2>2. Sound(x, t, L) /\ K[i] = L /\ i \in Places(t)
        BY <1>1, <1>2, <1>3
    <2> QED
        <3> DEFINE y == MoveAssignPart(x, t, t.parts[i], v, w, i)
        <3>1. Sound(y, t, L) /\ OnlyAtBoth(x, y, t, v, w, i)
            BY <1>1, <2>2, MoveAssignIsSound
        <3>2. y.tag = x.tag
            BY <3>1 DEF OnlyAtBoth
        <3> QED
            BY <2>1, <2>2, <3>1, <3>2 DEF SameTags
<1>a. \A i \in 1 .. n : \A x : Sound(x, t, K[i - 1]) =>
         /\ Sound(OnPart("move assign", x, t, v, w, i), t, K[i])
         /\ SameTags(x, OnPart("move assign", x, t, v, w, i))
    BY <1>3
<1>4. Sound(EachPart("move assign", m, t, v, w), t, K[n]) /\ SameTags(m, EachPart("move assign", m, t, v, w))
    <2>1. K \in [0 .. n -> SUBSET (Local \X Places(t))] /\ Sound(m, t, K[0])
        BY <1>1, <1>2
    <2> QED
        BY <1>a, <2>1, PartsAreSound DEF n
<1> QED
    BY <1>1, <1>2, <1>4 DEF n

LEMMA DestroysAreSound ==
    ASSUME NEW t, IsType(t), NEW m, NEW L, Sound(m, t, L), NEW v \in Local,
           \A j \in Places(t) : <<v, j>> \in L
    PROVE  /\ Sound(EachPart("destroy", m, t, v, v), t, L \ Before(v, Len(t.parts)))
           /\ SameTags(m, EachPart("destroy", m, t, v, v))
<1> DEFINE n == Len(t.parts)
           K == [i \in 0 .. n |-> L \ Before(v, i)]
<1>1. n \in Nat /\ Places(t) = 1 .. n /\ 0 \in 0 .. n /\ n \in 0 .. n
    BY TypeFacts
<1>2. K \in [0 .. n -> SUBSET (Local \X Places(t))] /\ \A i \in 0 .. n : K[i] = L \ Before(v, i)
    BY DEF Sound, Ordered
<1>3. K[0] = L
    BY <1>1, <1>2 DEF Before
<1> HIDE DEF K, n
<1>4. ASSUME NEW i \in 1 .. n, NEW x, Sound(x, t, K[i - 1])
      PROVE  /\ Sound(OnPart("destroy", x, t, v, v, i), t, K[i])
             /\ SameTags(x, OnPart("destroy", x, t, v, v, i))
    <2>1. /\ Before(v, i) = Before(v, i - 1) \cup {<<v, i>>} /\ <<v, i>> \notin Before(v, i - 1)
          /\ i - 1 \in 0 .. n /\ i \in 0 .. n /\ i \in Places(t)
        BY <1>1, BeforeNext
    <2>2. K[i] = K[i - 1] \ {<<v, i>>} /\ <<v, i>> \in K[i - 1]
        BY <1>2, <2>1
    <2>3. OnPart("destroy", x, t, v, v, i) = DestroyPart(x, t.parts[i], v, i)
        BY DEF OnPart
    <2> QED
        <3> DEFINE y == DestroyPart(x, t.parts[i], v, i)
        <3>1. Sound(y, t, K[i]) /\ OnlyAt(x, y, t, v, i)
            BY <1>4, <2>1, <2>2, DestroyIsSound
        <3> QED
            BY <2>3, <3>1 DEF OnlyAt, SameTags
<1>5. Sound(EachPart("destroy", m, t, v, v), t, K[n]) /\ SameTags(m, EachPart("destroy", m, t, v, v))
    BY <1>2, <1>3, <1>4, PartsAreSound DEF n
<1> QED
    BY <1>1, <1>2, <1>5 DEF n

(* A copy of each part: v becomes like w, which stays as it is.            *)
Copied(m, x, t, v, w, i) ==
    /\ x.tag = m.tag
    /\ \A u \in Local \ {v} : x.cell[u] = m.cell[u]
    /\ \A j \in 1 .. i : Class(x.cell[v][j]) = Class(m.cell[w][j])
    /\ v = w => \A j \in Places(t) : x.cell[w][j] = m.cell[w][j]

LEMMA CopiesAreSound ==
    ASSUME NEW t, IsType(t), NEW m, NEW L, Sound(m, t, L), NEW v \in Local, NEW w \in Local, v # w,
           \A j \in Places(t) : <<v, j>> \notin L /\ <<w, j>> \in L
    PROVE  LET x == EachPart("copy construct", m, t, v, w)
           IN  /\ Sound(x, t, L \cup Before(v, Len(t.parts)))
               /\ Copied(m, x, t, v, w, Len(t.parts))
<1> DEFINE n == Len(t.parts)
           M == MemorySet(t)
           IsOk(x, i) == Sound(x, t, L \cup Before(v, i)) /\ Copied(m, x, t, v, w, i)
           Ok == [i \in 0 .. n |-> {x \in M : IsOk(x, i)}]
<1>1. /\ n \in Nat /\ Places(t) = 1 .. n /\ 0 \in 0 .. n /\ n \in 0 .. n
      /\ \A i \in 1 .. n : i \in 0 .. n /\ i - 1 \in 0 .. n
    BY TypeFacts
<1>2. \A x, i : IsOk(x, i) => x \in M
    BY DEF Sound, Ordered, IsMemory, MemorySet
<1> HIDE DEF M
<1>3. Ok \in [0 .. n -> SUBSET M] /\ \A i \in 0 .. n : \A x : x \in Ok[i] <=> IsOk(x, i)
    BY <1>2
<1>4. IsOk(m, 0)
    <2>1. L \cup Before(v, 0) = L /\ 1 .. 0 = {}
        BY DEF Before
    <2> QED
        BY <2>1 DEF Copied
<1> HIDE DEF Ok, n
<1>5. ASSUME NEW i \in 1 .. n, NEW x, IsOk(x, i - 1)
      PROVE  IsOk(OnPart("copy construct", x, t, v, w, i), i)
    <2> DEFINE J == L \cup Before(v, i - 1)
               y == CopyConstructPart(x, t.parts[i], v, w, i)
    <2>0. \A j \in 1 .. n : j \in Places(t)
        BY <1>1
    <2>1. /\ L \cup Before(v, i) = J \cup {<<v, i>>} /\ <<v, i>> \notin J /\ i \in Places(t)
          /\ <<w, i>> \in J
        <3>1. /\ Before(v, i) = Before(v, i - 1) \cup {<<v, i>>} /\ <<v, i>> \notin Before(v, i - 1)
              /\ i \in Places(t)
            BY <1>1, BeforeNext
        <3> QED
            BY <3>1
    <2>2. OnPart("copy construct", x, t, v, w, i) = y
        BY DEF OnPart
    <2>3. Sound(x, t, J) /\ Copied(m, x, t, v, w, i - 1)
        BY <1>5
    <2> HIDE DEF J, y
    <2>a. Sound(x, t, J) /\ i \in Places(t) /\ <<w, i>> \in J /\ <<v, i>> \notin J
        BY <2>1, <2>3
    <2>4. /\ Sound(y, t, J \cup {<<v, i>>}) /\ OnlyAt(x, y, t, v, i)
          /\ Class(y.cell[v][i]) = Class(x.cell[w][i])
        BY <2>a, CopyConstructIsSound DEF y
    <2>5. y.tag = m.tag /\ \A u \in Local \ {v} : y.cell[u] = m.cell[u]
        BY <2>3, <2>4 DEF Copied, OnlyAt
    <2>6. ASSUME NEW j \in 1 .. i
          PROVE  Class(y.cell[v][j]) = Class(m.cell[w][j])
        <3>1. CASE j = i
            BY <2>3, <2>4, <3>1 DEF Copied
        <3>2. CASE j # i
            <4>1. j \in 1 .. i - 1 /\ j \in Places(t) \ {i}
                BY <1>1, <3>2
            <4> QED
                BY <2>3, <2>4, <4>1 DEF Copied, OnlyAt
        <3> QED
            BY <3>1, <3>2
    <2> QED
        BY <2>1, <2>2, <2>4, <2>5, <2>6 DEF Copied
<1> HIDE DEF IsOk
<1>6. m \in Ok[0]
    BY <1>1, <1>3, <1>4
<1>7. \A i \in 1 .. n : \A x \in Ok[i - 1] : OnPart("copy construct", x, t, v, w, i) \in Ok[i]
    BY <1>1, <1>3, <1>5
<1>8. EachPart("copy construct", m, t, v, w) \in Ok[n]
    BY <1>3, <1>6, <1>7, EachPartKeeps DEF n
<1>9. IsOk(EachPart("copy construct", m, t, v, w), n)
    BY <1>1, <1>3, <1>8
<1> QED
    BY <1>9 DEF IsOk, n

LEMMA CopiesToAreSound ==
    ASSUME NEW t, IsType(t), NEW m, NEW L, Sound(m, t, L), NEW v \in Local, NEW w \in Local,
           \A j \in Places(t) : <<v, j>> \in L /\ <<w, j>> \in L
    PROVE  LET x == EachPart("copy assign", m, t, v, w)
           IN  Sound(x, t, L) /\ Copied(m, x, t, v, w, Len(t.parts))
<1> DEFINE n == Len(t.parts)
           M == MemorySet(t)
           IsOk(x, i) == Sound(x, t, L) /\ Copied(m, x, t, v, w, i)
           Ok == [i \in 0 .. n |-> {x \in M : IsOk(x, i)}]
<1>1. /\ n \in Nat /\ Places(t) = 1 .. n /\ 0 \in 0 .. n /\ n \in 0 .. n
      /\ \A i \in 1 .. n : i \in 0 .. n /\ i - 1 \in 0 .. n
    BY TypeFacts
<1>2. \A x, i : IsOk(x, i) => x \in M
    BY DEF Sound, Ordered, IsMemory, MemorySet
<1> HIDE DEF M
<1>3. Ok \in [0 .. n -> SUBSET M] /\ \A i \in 0 .. n : \A x : x \in Ok[i] <=> IsOk(x, i)
    BY <1>2
<1>4. IsOk(m, 0)
    <2>1. 1 .. 0 = {}
        OBVIOUS
    <2> QED
        BY <2>1 DEF Copied
<1> HIDE DEF Ok, n
<1>5. ASSUME NEW i \in 1 .. n, NEW x, IsOk(x, i - 1)
      PROVE  IsOk(OnPart("copy assign", x, t, v, w, i), i)
    <2> DEFINE y == CopyAssignPart(x, t.parts[i], v, w, i)
    <2>1. i \in Places(t) /\ <<v, i>> \in L /\ <<w, i>> \in L
        BY <1>1
    <2>2. OnPart("copy assign", x, t, v, w, i) = y
        BY DEF OnPart
    <2>3. Sound(x, t, L) /\ Copied(m, x, t, v, w, i - 1)
        BY <1>5
    <2>4. /\ Sound(y, t, L) /\ OnlyAt(x, y, t, v, i)
          /\ Class(y.cell[v][i]) = Class(x.cell[w][i])
          /\ v = w => y.cell[v][i] = x.cell[v][i]
        BY <2>1, <2>3, CopyAssignIsSound
    <2> HIDE DEF y
    <2>5. y.tag = m.tag /\ \A u \in Local \ {v} : y.cell[u] = m.cell[u]
        BY <2>3, <2>4 DEF Copied, OnlyAt
    <2>6. x.cell[w][i] = m.cell[w][i]
        BY <2>1, <2>3 DEF Copied
    <2>7. ASSUME NEW j \in 1 .. i
          PROVE  Class(y.cell[v][j]) = Class(m.cell[w][j])
        <3>1. CASE j = i
            BY <2>4, <2>6, <3>1
        <3>2. CASE j # i
            <4>1. j \in 1 .. i - 1 /\ j \in Places(t) \ {i}
                BY <1>1, <3>2
            <4> QED
                BY <2>3, <2>4, <4>1 DEF Copied, OnlyAt
        <3> QED
            BY <3>1, <3>2
    <2>8. v = w => \A j \in Places(t) : y.cell[w][j] = m.cell[w][j]
        BY <2>3, <2>4, <2>6 DEF Copied, OnlyAt
    <2> QED
        BY <2>2, <2>4, <2>5, <2>7, <2>8 DEF Copied
<1> HIDE DEF IsOk
<1>6. m \in Ok[0]
    BY <1>1, <1>3, <1>4
<1>7. \A i \in 1 .. n : \A x \in Ok[i - 1] : OnPart("copy assign", x, t, v, w, i) \in Ok[i]
    BY <1>1, <1>3, <1>5
<1>8. EachPart("copy assign", m, t, v, w) \in Ok[n]
    BY <1>3, <1>6, <1>7, EachPartKeeps DEF n
<1>9. IsOk(EachPart("copy assign", m, t, v, w), n)
    BY <1>1, <1>3, <1>8
<1> QED
    BY <1>9 DEF IsOk, n

-----------------------------------------------------------------------------
(* What the locals in use hold is right; only a maybe has a tag.           *)
OnlyMaybeHasTag(m, t) == ~Tagged(t) => \A u \in Local : m.tag[u] = 0
Good(m, t, used) ==
    /\ used \subseteq Local
    /\ Sound(m, t, LiveParts(m, t, used))
    /\ OnlyMaybeHasTag(m, t)

LEMMA LiveFacts ==
    ASSUME NEW t, NEW m, NEW used, used \subseteq Local
    PROVE  /\ LiveParts(m, t, used) \subseteq Local \X Places(t)
           /\ \A u \in Local, j \in Places(t) :
                 <<u, j>> \in LiveParts(m, t, used) <=> u \in used /\ Data(m, t, u)
    BY DEF LiveParts

LEMMA GoodIf ==
    ASSUME NEW t, NEW x, NEW K, Sound(x, t, K), NEW used, used \subseteq Local,
           \A u \in Local, j \in Places(t) : <<u, j>> \in K <=> u \in used /\ Data(x, t, u),
           OnlyMaybeHasTag(x, t)
    PROVE  Good(x, t, used)
<1> DEFINE L == LiveParts(x, t, used)
<1>1. K \subseteq Local \X Places(t) /\ L \subseteq Local \X Places(t)
    BY LiveFacts DEF Sound, Ordered
<1>2. \A u \in Local, j \in Places(t) : <<u, j>> \in L <=> u \in used /\ Data(x, t, u)
    BY LiveFacts
<1> HIDE DEF L
<1>3. \A p \in Local \X Places(t) : p \in K <=> p \in L
    BY <1>2
<1>4. K = L
    BY <1>1, <1>3
<1> QED
    BY <1>4 DEF Good, L

LEMMA GoodFacts ==
    ASSUME NEW t, IsType(t), NEW m, NEW used, Good(m, t, used)
    PROVE  \E L : /\ Sound(m, t, L) /\ Ordered(m, t, L) /\ NoneLost(m, t, L) /\ IsMemory(m, t)
                  /\ \A u \in Local, j \in Places(t) :
                        <<u, j>> \in L <=> u \in used /\ Data(m, t, u)
                  /\ L \subseteq Local \X Places(t)
<1> DEFINE L == LiveParts(m, t, used)
<1>1. Sound(m, t, L) /\ used \subseteq Local
    BY DEF Good
<1>2. \A u \in Local, j \in Places(t) : <<u, j>> \in L <=> u \in used /\ Data(m, t, u)
    BY <1>1, LiveFacts
<1> HIDE DEF L
<1> QED
    BY <1>1, <1>2 DEF Sound, Ordered

(* A copy v of w, and w as it was.                                         *)
Alike(m, x, t, v, w) ==
    /\ x.cell[w] = m.cell[w] /\ x.tag[w] = m.tag[w] /\ x.tag[v] = m.tag[w]
    /\ Data(m, t, w) => \A j \in Places(t) : Class(x.cell[v][j]) = Class(m.cell[w][j])

LEMMA PlainCopies ==
    ASSUME NEW t, IsType(t), has_simple_copy(t), NEW m, NEW used, Good(m, t, used),
           NEW v \in Local, NEW w \in used
    PROVE  LET x == LoadStore(m, v, w)
           IN  Good(x, t, used \cup {v}) /\ Alike(m, x, t, v, w)
<1> DEFINE x == LoadStore(m, v, w)
           K == LiveParts(x, t, used \cup {v})
<1>1. w \in Local /\ used \cup {v} \subseteq Local
    BY DEF Good
<1>2. PICK L : Sound(m, t, L) /\ Ordered(m, t, L) /\ IsMemory(m, t)
    BY GoodFacts
<1>3. /\ IsMemory(x, t) /\ SameLists(m, x)
      /\ \A u \in Local : /\ x.tag[u] = IF u = v THEN m.tag[w] ELSE m.tag[u]
                          /\ x.cell[u] = IF u = v THEN m.cell[w] ELSE m.cell[u]
    BY <1>1, <1>2, LoadStoreFacts
<1> HIDE DEF x
<1>4. \A u \in Local, j \in Places(t) : m.cell[u][j] \in {Raw, Null, Plain}
    BY <1>2, PlainCells DEF Ordered
<1>5. \A u \in Local, j \in Places(t) : x.cell[u][j] \in {Raw, Null, Plain}
    BY <1>1, <1>3, <1>4
<1>6. K \subseteq Local \X Places(t)
    BY <1>1, LiveFacts
<1>7. Sound(x, t, K)
    BY <1>2, <1>3, <1>5, <1>6, PlainIsSound
<1>8. Good(x, t, used \cup {v})
    BY <1>1, <1>3, <1>7 DEF Good, OnlyMaybeHasTag
<1>9. Alike(m, x, t, v, w)
    BY <1>1, <1>3 DEF Alike
<1> QED
    BY <1>8, <1>9 DEF x

LEMMA MoveKeeps ==
    ASSUME NEW t, IsType(t), NEW m, NEW used, Good(m, t, used), NEW v \in Local, NEW w \in used,
           NEW x, Moves(m, x, t, v, w)
    PROVE  /\ Ordered(x, t, LiveParts(x, t, used \cup {v}))
           /\ v \notin used => Good(x, t, used \cup {v})
           /\ OnlyMaybeHasTag(x, t)
<1> DEFINE K == LiveParts(x, t, used \cup {v})
<1>1. w \in Local /\ used \cup {v} \subseteq Local
    BY DEF Good
<1>2. PICK L : /\ Sound(m, t, L) /\ Ordered(m, t, L) /\ NoneLost(m, t, L)
               /\ \A u \in Local, j \in Places(t) : <<u, j>> \in L <=> u \in used /\ Data(m, t, u)
    BY GoodFacts
<1>3. /\ K \subseteq Local \X Places(t)
      /\ \A u \in Local, j \in Places(t) :
            <<u, j>> \in K <=> u \in used \cup {v} /\ Data(x, t, u)
    BY <1>1, LiveFacts
<1> HIDE DEF K
<1>4. \A u \in Local : x.tag[u] = IF u = v THEN m.tag[w] ELSE IF u = w THEN 0 ELSE m.tag[u]
    BY DEF Moves
<1>5. \A u \in Local \ {v, w}, j \in Places(t) : <<u, j>> \in K <=> <<u, j>> \in L
    BY <1>2, <1>3, <1>4 DEF Data
<1>6. \A j \in Places(t) : <<v, j>> \in K <=> <<w, j>> \in L
    BY <1>1, <1>2, <1>3, <1>4 DEF Data
<1>7. /\ Ordered(x, t, K)
      /\ (\A j \in Places(t) : <<v, j>> \notin L) => NoneLost(x, t, K)
    BY <1>1, <1>2, <1>3, <1>5, <1>6, MoveIsOrdered
<1>8. OnlyMaybeHasTag(x, t)
    BY <1>1, <1>4 DEF Good, OnlyMaybeHasTag
<1>9. v \notin used => \A j \in Places(t) : <<v, j>> \notin L
    BY <1>2
<1> QED
    BY <1>1, <1>7, <1>8, <1>9 DEF Good, Sound, K

(* A whole value is moved: it is loaded, stored, and zeroed where it was.  *)
LEMMA LoadStoreMoves ==
    ASSUME NEW t, NEW m, IsMemory(m, t), NEW v \in Local, NEW w \in Local, v # w
    PROVE  Moves(m, Zeroed(LoadStore(m, v, w), t, w), t, v, w)
<1> DEFINE y == LoadStore(m, v, w)
           x == Zeroed(y, t, w)
<1>1. /\ IsMemory(y, t) /\ SameLists(m, y)
      /\ \A u \in Local : /\ y.tag[u] = IF u = v THEN m.tag[w] ELSE m.tag[u]
                          /\ y.cell[u] = IF u = v THEN m.cell[w] ELSE m.cell[u]
    BY LoadStoreFacts
<1> HIDE DEF y
<1>2. /\ IsMemory(x, t) /\ SameLists(y, x)
      /\ \A u \in Local : x.tag[u] = IF u = w THEN 0 ELSE y.tag[u]
      /\ \A j \in Places(t) : x.cell[w][j] = Null
      /\ \A u \in Local \ {w} : x.cell[u] = y.cell[u]
    BY <1>1, ZeroedFacts
<1> HIDE DEF x
<1>3. Moves(m, x, t, v, w)
    BY <1>1, <1>2 DEF Moves, SameLists
<1> QED
    BY <1>3 DEF x, y

(* A whole value is stored over what locals in use held.                   *)
LEMMA StoresOver ==
    ASSUME NEW t, IsType(t), NEW m, NEW used, Good(m, t, used), NEW y, NEW after,
           after \subseteq Local, Ordered(y, t, LiveParts(y, t, after)),
           y.alive = m.alive, m.storedOver \subseteq y.storedOver,
           OnlyMaybeHasTag(y, t)
    PROVE  Good(Storing(m, t, y), t, after)
<1> DEFINE x == Storing(m, t, y)
           K == LiveParts(y, t, after)
<1>1. PICK L : /\ Sound(m, t, L)
               /\ \A u \in Local, j \in Places(t) : <<u, j>> \in L <=> u \in used /\ Data(m, t, u)
    BY GoodFacts
<1>2. \A u \in Local, j \in Places(t) : <<u, j>> \in K <=> u \in after /\ Data(y, t, u)
    BY LiveFacts
<1>3. \A u \in Local, j \in Places(t) : <<u, j>> \in L => Data(m, t, u)
    BY <1>1
<1> HIDE DEF K
<1>4. Sound(x, t, K) /\ SameCells(y, x)
    BY <1>1, <1>3, StoringIsSound DEF K
<1> HIDE DEF x
<1>5. \A u \in Local, j \in Places(t) : <<u, j>> \in K <=> u \in after /\ Data(x, t, u)
    BY <1>2, <1>4 DEF SameCells, Data
<1>6. Good(x, t, after)
    BY <1>4, <1>5, GoodIf DEF SameCells, OnlyMaybeHasTag
<1> QED
    BY <1>6 DEF x

(* To tell again that something was stored over changes nothing.           *)
LEMMA StoringAgain ==
    ASSUME NEW t, IsType(t), NEW m, IsMemory(m, t), NEW y, NEW used, Good(y, t, used)
    PROVE  Good(Storing(m, t, y), t, used)
<1> DEFINE x == Storing(m, t, y)
           over == (m.alive \cap Held(m, t)) \ Held(y, t)
<1>1. PICK K : /\ Sound(y, t, K) /\ Ordered(y, t, K) /\ NoneLost(y, t, K) /\ IsMemory(y, t)
               /\ \A u \in Local, j \in Places(t) : <<u, j>> \in K <=> u \in used /\ Data(y, t, u)
    BY GoodFacts
<1>2. over \subseteq Nat
    BY MemoryFacts
<1>3. x = [y EXCEPT !.storedOver = @ \cup over]
    BY DEF Storing
<1> HIDE DEF over, x
<1>4. IsMemory(x, t) /\ SameCells(y, x) /\ x.storedOver = y.storedOver \cup over
    BY <1>1, <1>2, <1>3 DEF IsMemory, SameCells
<1>5. Ordered(x, t, K)
    <2>1. PlainHoldsNone(x, t)
        BY <1>1, <1>4 DEF Ordered, SameCells, PlainHoldsNone
    <2>2. HoldInstances(x, t, K)
        BY <1>1, <1>4 DEF Ordered, SameCells, HoldInstances
    <2>3. NoneTwice(x, t, K)
        BY <1>1, <1>4 DEF Ordered, SameCells, NoneTwice
    <2>4. NoneElsewhere(x, t, K)
        BY <1>1, <1>4 DEF Ordered, SameCells, NoneElsewhere, Data
    <2>5. Numbered(x, t)
        BY <1>1, <1>4 DEF Ordered, SameCells, Numbered
    <2> QED
        BY <1>1, <1>4, <2>1, <2>2, <2>3, <2>4, <2>5 DEF Ordered
<1>6. NoneLost(x, t, K)
    BY <1>1, <1>4 DEF NoneLost, SameCells
<1>7. \A u \in Local, j \in Places(t) : <<u, j>> \in K <=> u \in used /\ Data(x, t, u)
    BY <1>1, <1>4 DEF SameCells, Data
<1>8. used \subseteq Local /\ (OnlyMaybeHasTag(x, t))
    BY <1>4 DEF SameCells, Good, OnlyMaybeHasTag
<1>9. Good(x, t, used)
    BY <1>5, <1>6, <1>7, <1>8, GoodIf DEF Sound
<1> QED
    BY <1>9 DEF x
-----------------------------------------------------------------------------
(* maybe                                                                   *)
LEMMA MaybeFacts ==
    ASSUME NEW t, IsType(t), Tagged(t)
    PROVE  /\ Places(t) = {1} /\ t.parts[1] \in {"plain", "owner", "mover"} /\ t.kind = "maybe"
           /\ ~has_simple_move(t) => t.parts[1] = "owner"
           /\ has_simple_copy(t) => has_simple_move(t)
<1>1. /\ Places(t) = {1} /\ t.parts[1] \in {"plain", "owner", "mover"} /\ t.kind = "maybe"
      /\ DOMAIN t.parts = 1 .. 1
    BY TypeFacts
<1>2. ToSet(t.parts) = {t.parts[1]}
    BY <1>1 DEF ToSet
<1> QED
    BY <1>1, <1>2 DEF has_simple_move, has_simple_copy

LEMMA ValueCopied ==
    ASSUME NEW t, IsType(t), Tagged(t), NEW m, NEW used, Good(m, t, used), NEW v \in Local,
           NEW w \in used, m.tag[w] = 1, v \notin used \/ m.tag[v] = 0
    PROVE  LET x == SetTag(CopyConstructPart(m, t.parts[1], v, w, 1), v, 1)
           IN  Good(x, t, used \cup {v}) /\ Alike(m, x, t, v, w)
<1> DEFINE y == CopyConstructPart(m, t.parts[1], v, w, 1)
           x == SetTag(y, v, 1)
<1>1. w \in Local /\ used \cup {v} \subseteq Local /\ Places(t) = {1} /\ 1 \in Places(t) /\ 1 \in {0, 1}
    BY MaybeFacts DEF Good
<1>2. PICK L : /\ Sound(m, t, L)
               /\ \A u \in Local, j \in Places(t) : <<u, j>> \in L <=> u \in used /\ Data(m, t, u)
    BY GoodFacts
<1>3. <<w, 1>> \in L /\ <<v, 1>> \notin L /\ v # w
    BY <1>1, <1>2 DEF Data
<1> DEFINE K == L \cup {<<v, 1>>}
<1>4. Sound(y, t, K) /\ OnlyAt(m, y, t, v, 1) /\ Class(y.cell[v][1]) = Class(m.cell[w][1])
    BY <1>1, <1>2, <1>3, CopyConstructIsSound
<1>5. \A u \in Local, j \in Places(t) : <<u, j>> \in K <=> u = v \/ <<u, j>> \in L
    BY <1>1
<1> HIDE DEF y, K
<1>6. Ordered(y, t, K) /\ IsMemory(y, t) /\ NoneLost(y, t, K) /\ <<v, 1>> \in K
    BY <1>1, <1>4, <1>5 DEF Sound, Ordered
<1>a. Sound(x, t, K) /\ TagIs(y, x, t, v, 1)
    BY <1>4, <1>6, TagSetIsSound
<1>7. /\ IsMemory(x, t) /\ x.cell = y.cell
      /\ \A u \in Local : x.tag[u] = IF u = v THEN 1 ELSE y.tag[u]
    BY <1>a DEF TagIs
<1>8. Sound(x, t, K)
    BY <1>a
<1> HIDE DEF x
<1>9. \A u \in Local, j \in Places(t) : <<u, j>> \in K <=> u \in used \cup {v} /\ Data(x, t, u)
    BY <1>1, <1>2, <1>4, <1>5, <1>7 DEF Data, OnlyAt
<1>10. Good(x, t, used \cup {v})
    BY <1>1, <1>8, <1>9, GoodIf DEF OnlyMaybeHasTag
<1>11. Alike(m, x, t, v, w)
    BY <1>1, <1>3, <1>4, <1>7 DEF Alike, OnlyAt
<1> QED
    BY <1>10, <1>11 DEF x, y

LEMMA ValueMoved ==
    ASSUME NEW t, IsType(t), Tagged(t), NEW m, NEW used, Good(m, t, used), NEW v \in Local,
           NEW w \in used, m.tag[w] = 1, v \notin used \/ m.tag[v] = 0
    PROVE  LET x == SetTag(MoveConstructPart(m, t.parts[1], v, w, 1), v, 1)
           IN  Good(x, t, used \cup {v}) /\ IsMemory(x, t) /\ x.cell[w][1] = Null
<1> DEFINE y == MoveConstructPart(m, t.parts[1], v, w, 1)
           x == SetTag(y, v, 1)
<1>1. w \in Local /\ used \cup {v} \subseteq Local /\ Places(t) = {1} /\ 1 \in Places(t) /\ 1 \in {0, 1}
    BY MaybeFacts DEF Good
<1>2. PICK L : /\ Sound(m, t, L)
               /\ \A u \in Local, j \in Places(t) : <<u, j>> \in L <=> u \in used /\ Data(m, t, u)
    BY GoodFacts
<1>3. <<w, 1>> \in L /\ <<v, 1>> \notin L /\ v # w
    BY <1>1, <1>2 DEF Data
<1> DEFINE K == L \cup {<<v, 1>>}
<1>4. Sound(y, t, K) /\ Took(m, y, t, v, w, 1)
    BY <1>1, <1>2, <1>3, MoveConstructIsSound
<1>5. \A u \in Local, j \in Places(t) : <<u, j>> \in K <=> u = v \/ <<u, j>> \in L
    BY <1>1
<1> HIDE DEF y, K
<1>6. Ordered(y, t, K) /\ IsMemory(y, t) /\ NoneLost(y, t, K) /\ <<v, 1>> \in K
    BY <1>1, <1>4, <1>5 DEF Sound, Ordered
<1>a. Sound(x, t, K) /\ TagIs(y, x, t, v, 1)
    BY <1>4, <1>6, TagSetIsSound
<1>7. /\ IsMemory(x, t) /\ x.cell = y.cell
      /\ \A u \in Local : x.tag[u] = IF u = v THEN 1 ELSE y.tag[u]
    BY <1>a DEF TagIs
<1>8. Sound(x, t, K)
    BY <1>a
<1> HIDE DEF x
<1>9. \A u \in Local, j \in Places(t) : <<u, j>> \in K <=> u \in used \cup {v} /\ Data(x, t, u)
    BY <1>1, <1>2, <1>4, <1>5, <1>7 DEF Data, Took
<1>10. Good(x, t, used \cup {v})
    BY <1>1, <1>8, <1>9, GoodIf DEF OnlyMaybeHasTag
<1>11. x.cell[w][1] = Null
    BY <1>1, <1>3, <1>4, <1>7 DEF Took
<1> QED
    BY <1>7, <1>10, <1>11 DEF x, y

(* The tag of what holds no instance is reset.                             *)
LEMMA TagReset ==
    ASSUME NEW t, IsType(t), Tagged(t), NEW m, NEW used, Good(m, t, used), NEW v \in used
    PROVE  LET x == SetTag(m, v, 0)
           IN  /\ Ordered(x, t, LiveParts(x, t, used)) /\ SameLists(m, x)
               /\ m.cell[v][1] \notin m.alive => Good(x, t, used)
<1> DEFINE x == SetTag(m, v, 0)
           also == LiveParts(x, t, used)
<1>1. v \in Local /\ used \subseteq Local /\ Places(t) = {1} /\ 0 \in {0, 1} /\ 0 # 1
    BY MaybeFacts DEF Good
<1>2. PICK L : /\ Ordered(m, t, L) /\ NoneLost(m, t, L) /\ IsMemory(m, t)
               /\ \A u \in Local, j \in Places(t) : <<u, j>> \in L <=> u \in used /\ Data(m, t, u)
               /\ L \subseteq Local \X Places(t)
    BY GoodFacts
<1> DEFINE K == L \ {<<v, 1>>}
<1>4. /\ Ordered(x, t, K) /\ TagIs(m, x, t, v, 0)
      /\ m.cell[v][1] \notin m.alive => NoneLost(x, t, K)
    BY <1>1, <1>2, TagResetIsOrdered
<1>3. /\ SameLists(m, x) /\ x.cell = m.cell
      /\ \A u \in Local : x.tag[u] = IF u = v THEN 0 ELSE m.tag[u]
    BY <1>4 DEF TagIs
<1>5. \A u \in Local, j \in Places(t) : <<u, j>> \in K <=> u \in used /\ Data(x, t, u)
    BY <1>1, <1>2, <1>3 DEF Data
<1>6. K \subseteq Local \X Places(t) /\ also \subseteq Local \X Places(t)
    BY <1>1, <1>2, LiveFacts
<1>7. \A u \in Local, j \in Places(t) : <<u, j>> \in also <=> u \in used /\ Data(x, t, u)
    BY <1>1, LiveFacts
<1> HIDE DEF x, K, also
<1>8. \A p \in Local \X Places(t) : p \in K <=> p \in also
    BY <1>5, <1>7
<1>9. K = also
    BY <1>6, <1>8
<1>10. m.cell[v][1] \notin m.alive => Good(x, t, used)
    BY <1>1, <1>4, <1>9 DEF Good, Sound, also, OnlyMaybeHasTag
<1> QED
    BY <1>3, <1>4, <1>9, <1>10 DEF also, x

LeftEmpty(m, x, t, used, v) ==
    /\ Good(x, t, used) /\ x.tag[v] = 0
    /\ \A u \in Local \ {v} : x.cell[u] = m.cell[u] /\ x.tag[u] = m.tag[u]

LEMMA ValueDestroyed ==
    ASSUME NEW t, IsType(t), Tagged(t), NEW m, NEW used, Good(m, t, used), NEW v \in used,
           m.tag[v] = 1
    PROVE  /\ Good(DestroyPart(m, t.parts[1], v, 1), t, used \ {v})
           /\ LeftEmpty(m, SetTag(DestroyPart(m, t.parts[1], v, 1), v, 0), t, used, v)
<1> DEFINE y == DestroyPart(m, t.parts[1], v, 1)
           x == SetTag(y, v, 0)
<1>1. v \in Local /\ used \subseteq Local /\ Places(t) = {1} /\ 1 \in Places(t) /\ 0 \in {0, 1} /\ 0 # 1
    BY MaybeFacts DEF Good
<1>2. PICK L : /\ Sound(m, t, L) /\ L \subseteq Local \X Places(t)
               /\ \A u \in Local, j \in Places(t) : <<u, j>> \in L <=> u \in used /\ Data(m, t, u)
    BY GoodFacts
<1>3. <<v, 1>> \in L
    BY <1>1, <1>2 DEF Data
<1> DEFINE K == L \ {<<v, 1>>}
<1>4. Sound(y, t, K) /\ OnlyAt(m, y, t, v, 1)
    BY <1>1, <1>2, <1>3, DestroyIsSound
<1>5. \A u \in Local, j \in Places(t) : <<u, j>> \in K <=> u # v /\ <<u, j>> \in L
    BY <1>1
<1>6. K \ {<<v, 1>>} = K /\ <<v, 1>> \notin K
    OBVIOUS
<1> HIDE DEF y, K
<1>7. Ordered(y, t, K) /\ IsMemory(y, t) /\ NoneLost(y, t, K)
    BY <1>4 DEF Sound, Ordered
<1>9. Sound(x, t, K) /\ TagIs(y, x, t, v, 0)
    BY <1>1, <1>6, <1>7, TagResetIsOrdered DEF Sound
<1>8. /\ x.cell = y.cell /\ \A u \in Local : x.tag[u] = IF u = v THEN 0 ELSE y.tag[u]
    BY <1>9 DEF TagIs
<1> HIDE DEF x
<1>10. \A u \in Local, j \in Places(t) : <<u, j>> \in K <=> u \in used /\ Data(x, t, u)
    BY <1>1, <1>2, <1>4, <1>5, <1>8 DEF Data, OnlyAt
<1>11. \A u \in Local, j \in Places(t) : <<u, j>> \in K <=> u \in used \ {v} /\ Data(y, t, u)
    BY <1>1, <1>2, <1>4, <1>5 DEF Data, OnlyAt
<1>12. Good(x, t, used)
    BY <1>1, <1>9, <1>10, GoodIf DEF OnlyMaybeHasTag
<1>13. Good(y, t, used \ {v})
    BY <1>1, <1>4, <1>11, GoodIf DEF OnlyMaybeHasTag
<1>14. x.tag[v] = 0 /\ \A u \in Local \ {v} : x.cell[u] = m.cell[u] /\ x.tag[u] = m.tag[u]
    BY <1>1, <1>4, <1>8 DEF OnlyAt
<1> QED
    BY <1>12, <1>13, <1>14 DEF x, y, LeftEmpty
-----------------------------------------------------------------------------
(* The operations of a type, on the locals in use.                         *)
LEMMA ZeroedKeeps ==
    ASSUME NEW t, IsType(t), NEW m, NEW used, Good(m, t, used), NEW v \in Local \ used
    PROVE  LET x == Zeroed(m, t, v)
           IN  /\ Good(x, t, used \cup {v}) /\ x.tag[v] = 0
               /\ \A u \in Local \ {v} : x.cell[u] = m.cell[u] /\ x.tag[u] = m.tag[u]
<1> DEFINE x == Zeroed(m, t, v)
           K == LiveParts(x, t, used \cup {v})
<1>1. used \cup {v} \subseteq Local /\ v \notin used
    BY DEF Good
<1>2. PICK L : /\ Ordered(m, t, L) /\ NoneLost(m, t, L) /\ IsMemory(m, t)
               /\ \A u \in Local, j \in Places(t) : <<u, j>> \in L <=> u \in used /\ Data(m, t, u)
    BY GoodFacts
<1>3. /\ \A u \in Local : x.tag[u] = IF u = v THEN 0 ELSE m.tag[u]
      /\ \A u \in Local \ {v} : x.cell[u] = m.cell[u]
    BY <1>2, ZeroedFacts
<1>4. /\ K \subseteq Local \X Places(t)
      /\ \A u \in Local, j \in Places(t) : <<u, j>> \in K <=> u \in used \cup {v} /\ Data(x, t, u)
    BY <1>1, LiveFacts
<1> HIDE DEF K
<1>5. AgreeBut(t, L, K, v) /\ \A j \in Places(t) : <<v, j>> \notin L
    BY <1>1, <1>2, <1>3, <1>4 DEF AgreeBut, Data
<1>6. Ordered(x, t, K) /\ NoneLost(x, t, K)
    BY <1>2, <1>5, ZeroedIsOrdered
<1> HIDE DEF x
<1>7. Good(x, t, used \cup {v})
    BY <1>1, <1>3, <1>6 DEF Good, Sound, K, OnlyMaybeHasTag
<1> QED
    BY <1>3, <1>7 DEF x

(* After an operation on each part of a type without tags.                 *)
LEMMA PartsKeep ==
    ASSUME NEW t, IsType(t), ~Tagged(t), NEW m, NEW used, Good(m, t, used),
           NEW x, NEW K, Sound(x, t, K), x.tag = m.tag, NEW after, after \subseteq Local,
           \A u \in Local, j \in Places(t) : <<u, j>> \in K <=> u \in after
    PROVE  Good(x, t, after)
<1>1. \A u \in Local : x.tag[u] = 0
    BY DEF Good, OnlyMaybeHasTag
<1> QED
    BY <1>1, GoodIf DEF Data, OnlyMaybeHasTag

LEMMA WithoutTags ==
    ASSUME NEW t, IsType(t), ~Tagged(t), NEW m, NEW used, Good(m, t, used)
    PROVE  \E L : /\ Sound(m, t, L)
                  /\ \A u \in Local, j \in Places(t) : <<u, j>> \in L <=> u \in used
<1>1. PICK L : /\ Sound(m, t, L)
               /\ \A u \in Local, j \in Places(t) : <<u, j>> \in L <=> u \in used /\ Data(m, t, u)
    BY GoodFacts
<1> QED
    BY <1>1 DEF Data

LEMMA BeforeAll ==
    ASSUME NEW t, IsType(t), NEW v
    PROVE  \A u, j : <<u, j>> \in Before(v, Len(t.parts)) <=> u = v /\ j \in Places(t)
    BY TypeFacts DEF Before

LEMMA CopiedIsAlike ==
    ASSUME NEW t, IsType(t), ~Tagged(t), NEW m, NEW used, Good(m, t, used), NEW v \in Local,
           NEW w \in Local, NEW x, IsMemory(x, t), Copied(m, x, t, v, w, Len(t.parts))
    PROVE  Alike(m, x, t, v, w)
<1>1. /\ x.tag = m.tag /\ \A u \in Local : m.tag[u] = 0
      /\ \A j \in Places(t) : Class(x.cell[v][j]) = Class(m.cell[w][j])
    BY TypeFacts DEF Copied, Good, OnlyMaybeHasTag
<1>2. x.cell[w] = m.cell[w]
    <2>1. CASE v # w
        BY <2>1 DEF Copied
    <2>2. CASE v = w
        <3>1. IsMemory(m, t)
            BY GoodFacts
        <3>2. x.cell[w] \in [Places(t) -> Int] /\ m.cell[w] \in [Places(t) -> Int]
            BY <3>1, MemoryFacts
        <3>3. \A j \in Places(t) : x.cell[w][j] = m.cell[w][j]
            BY <2>2 DEF Copied
        <3> QED
            BY <3>2, <3>3
    <2> QED
        BY <2>1, <2>2
<1> QED
    BY <1>1, <1>2 DEF Alike

LEMMA CopyConstructs ==
    ASSUME NEW t, IsType(t), NEW m, NEW used, Good(m, t, used), NEW v \in Local \ used, NEW w \in used
    PROVE  LET x == copy_construct_value(m, t, v, w)
           IN  Good(x, t, used \cup {v}) /\ Alike(m, x, t, v, w)
<1> DEFINE x == copy_construct_value(m, t, v, w)
<1>1. w \in Local /\ v # w /\ used \cup {v} \subseteq Local
    BY DEF Good
<1>2. t.kind \in {"tuple", "struct", "maybe"} /\ (Tagged(t) <=> t.kind = "maybe")
    BY TypeFacts
<1>3. CASE has_simple_copy(t)
    <2>1. x = LoadStore(m, v, w)
        BY <1>2, <1>3 DEF copy_construct_value, MaybeCopyConstruct, TupleCopyConstruct
    <2> QED
        BY <1>1, <1>3, <2>1, PlainCopies
<1>4. CASE ~has_simple_copy(t) /\ ~Tagged(t)
    <2>1. x = EachPart("copy construct", m, t, v, w)
        BY <1>2, <1>4 DEF copy_construct_value, TupleCopyConstruct
    <2>2. PICK L : /\ Sound(m, t, L)
                   /\ \A u \in Local, j \in Places(t) : <<u, j>> \in L <=> u \in used
        BY <1>4, WithoutTags
    <2> DEFINE K == L \cup Before(v, Len(t.parts))
    <2>3. \A j \in Places(t) : <<v, j>> \notin L /\ <<w, j>> \in L
        BY <1>1, <2>2
    <2> DEFINE y == EachPart("copy construct", m, t, v, w)
    <2>a. Sound(y, t, K) /\ Copied(m, y, t, v, w, Len(t.parts))
        BY <1>1, <2>2, <2>3, CopiesAreSound
    <2>4. Sound(x, t, K) /\ Copied(m, x, t, v, w, Len(t.parts))
        BY <2>1, <2>a
    <2>5. \A u \in Local, j \in Places(t) : <<u, j>> \in K <=> u \in used \cup {v}
        BY <2>2, BeforeAll
    <2> HIDE DEF x, K
    <2>6. x.tag = m.tag /\ IsMemory(x, t)
        BY <2>4 DEF Copied, Sound, Ordered
    <2>7. Good(x, t, used \cup {v})
        BY <1>1, <1>4, <2>4, <2>5, <2>6, PartsKeep
    <2>8. Alike(m, x, t, v, w)
        BY <1>1, <1>4, <2>4, <2>6, CopiedIsAlike
    <2> QED
        BY <2>7, <2>8 DEF x
<1>5. CASE ~has_simple_copy(t) /\ Tagged(t) /\ m.tag[w] = 1
    <2>1. x = SetTag(CopyConstructPart(m, t.parts[1], v, w, 1), v, 1)
        BY <1>2, <1>5 DEF copy_construct_value, MaybeCopyConstruct
    <2> DEFINE y == SetTag(CopyConstructPart(m, t.parts[1], v, w, 1), v, 1)
    <2>2. Good(y, t, used \cup {v}) /\ Alike(m, y, t, v, w)
        BY <1>1, <1>5, ValueCopied
    <2> QED
        BY <2>1, <2>2
<1>6. CASE ~has_simple_copy(t) /\ Tagged(t) /\ m.tag[w] # 1
    <2>1. x = Zeroed(m, t, v)
        BY <1>2, <1>6 DEF copy_construct_value, MaybeCopyConstruct
    <2>2. /\ Good(x, t, used \cup {v}) /\ x.tag[v] = 0
          /\ \A u \in Local \ {v} : x.cell[u] = m.cell[u] /\ x.tag[u] = m.tag[u]
        BY <2>1, ZeroedKeeps
    <2>3. m.tag[w] = 0
        <3>1. IsMemory(m, t)
            BY GoodFacts
        <3> QED
            BY <1>1, <1>6, <3>1, MemoryFacts
    <2> HIDE DEF x
    <2> QED
        BY <1>1, <1>6, <2>2, <2>3 DEF x, Alike, Data
<1> QED
    BY <1>3, <1>4, <1>5, <1>6

LEMMA CopyAssigns ==
    ASSUME NEW t, IsType(t), NEW m, NEW used, Good(m, t, used), NEW v \in used, NEW w \in used
    PROVE  LET x == copy_assign_value(m, t, v, w)
           IN  Good(x, t, used) /\ Alike(m, x, t, v, w)
<1> DEFINE x == copy_assign_value(m, t, v, w)
<1>1. w \in Local /\ v \in Local /\ used \cup {v} = used /\ used \subseteq Local
    BY DEF Good
<1>2. /\ t.kind \in {"tuple", "struct", "maybe"} /\ (Tagged(t) <=> t.kind = "maybe")
      /\ Tagged(t) => Places(t) = {1}
    BY TypeFacts
<1>m. IsMemory(m, t) /\ m.tag[v] \in {0, 1} /\ m.tag[w] \in {0, 1} /\ 0 # 1
    <2>1. IsMemory(m, t)
        BY GoodFacts
    <2> QED
        BY <1>1, <2>1, MemoryFacts
<1>3. CASE has_simple_copy(t)
    <2>1. x = LoadStore(m, v, w)
        BY <1>2, <1>3 DEF copy_assign_value, MaybeCopyAssign, TupleCopyAssign
    <2> QED
        BY <1>1, <1>3, <2>1, PlainCopies
<1>4. CASE ~has_simple_copy(t) /\ ~Tagged(t)
    <2>1. x = EachPart("copy assign", m, t, v, w)
        BY <1>2, <1>4 DEF copy_assign_value, TupleCopyAssign
    <2>2. PICK L : /\ Sound(m, t, L)
                   /\ \A u \in Local, j \in Places(t) : <<u, j>> \in L <=> u \in used
        BY <1>4, WithoutTags
    <2>3. \A j \in Places(t) : <<v, j>> \in L /\ <<w, j>> \in L
        BY <1>1, <2>2
    <2>4. Sound(x, t, L) /\ Copied(m, x, t, v, w, Len(t.parts))
        BY <1>1, <2>1, <2>2, <2>3, CopiesToAreSound
    <2> HIDE DEF x
    <2>6. x.tag = m.tag /\ IsMemory(x, t)
        BY <2>4 DEF Copied, Sound, Ordered
    <2>7. Good(x, t, used)
        BY <1>1, <1>4, <2>2, <2>4, <2>6, PartsKeep
    <2>8. Alike(m, x, t, v, w)
        BY <1>1, <1>4, <2>4, <2>6, CopiedIsAlike
    <2> QED
        BY <2>7, <2>8 DEF x
<1>5. CASE ~has_simple_copy(t) /\ Tagged(t) /\ m.tag[v] = 1 /\ m.tag[w] = 1
    <2>1. x = CopyAssignPart(m, t.parts[1], v, w, 1)
        BY <1>2, <1>5 DEF copy_assign_value, MaybeCopyAssign
    <2>2. PICK L : /\ Sound(m, t, L)
                   /\ \A u \in Local, j \in Places(t) : <<u, j>> \in L <=> u \in used /\ Data(m, t, u)
        BY GoodFacts
    <2>3. 1 \in Places(t) /\ <<v, 1>> \in L /\ <<w, 1>> \in L
        BY <1>1, <1>2, <1>5, <2>2 DEF Data
    <2>4. /\ Sound(x, t, L) /\ OnlyAt(m, x, t, v, 1)
          /\ Class(x.cell[v][1]) = Class(m.cell[w][1])
          /\ v = w => x.cell[v][1] = m.cell[v][1]
        BY <1>1, <2>1, <2>2, <2>3, CopyAssignIsSound
    <2> HIDE DEF x
    <2>5. \A u \in Local, j \in Places(t) : <<u, j>> \in L <=> u \in used /\ Data(x, t, u)
        BY <2>2, <2>4 DEF OnlyAt, Data
    <2>6. Good(x, t, used)
        BY <1>1, <1>5, <2>4, <2>5, GoodIf DEF OnlyMaybeHasTag
    <2>7. x.cell[w] = m.cell[w]
        <3>1. CASE v # w
            BY <1>1, <2>4, <3>1 DEF OnlyAt
        <3>2. CASE v = w
            <4>1. IsMemory(x, t)
                BY <2>4 DEF Sound, Ordered
            <4>2. x.cell[w] \in [Places(t) -> Int] /\ m.cell[w] \in [Places(t) -> Int]
                BY <1>1, <1>m, <4>1, MemoryFacts
            <4>3. \A j \in Places(t) : x.cell[w][j] = m.cell[w][j]
                BY <1>2, <1>5, <2>4, <3>2
            <4> QED
                BY <4>2, <4>3
        <3> QED
            BY <3>1, <3>2
    <2> QED
        BY <1>1, <1>2, <1>5, <2>4, <2>6, <2>7 DEF x, Alike, OnlyAt
<1>6. CASE ~has_simple_copy(t) /\ Tagged(t) /\ m.tag[v] = 1 /\ m.tag[w] = 0
    <2>1. x = SetTag(DestroyPart(m, t.parts[1], v, 1), v, 0)
        BY <1>2, <1>6, <1>m DEF copy_assign_value, MaybeCopyAssign
    <2> DEFINE y == SetTag(DestroyPart(m, t.parts[1], v, 1), v, 0)
    <2>a. LeftEmpty(m, y, t, used, v)
        BY <1>6, ValueDestroyed
    <2>2. /\ Good(x, t, used) /\ x.tag[v] = 0
          /\ \A u \in Local \ {v} : x.cell[u] = m.cell[u] /\ x.tag[u] = m.tag[u]
        BY <2>1, <2>a DEF LeftEmpty
    <2>3. v # w
        BY <1>6, <1>m
    <2> HIDE DEF x
    <2> QED
        BY <1>1, <1>6, <1>m, <2>2, <2>3 DEF x, Alike, Data
<1>7. CASE ~has_simple_copy(t) /\ Tagged(t) /\ m.tag[v] = 0 /\ m.tag[w] = 1
    <2>1. x = SetTag(CopyConstructPart(m, t.parts[1], v, w, 1), v, 1)
        BY <1>2, <1>7, <1>m DEF copy_assign_value, MaybeCopyAssign
    <2> QED
        BY <1>1, <1>7, <2>1, ValueCopied
<1>8. CASE ~has_simple_copy(t) /\ Tagged(t) /\ m.tag[v] = 0 /\ m.tag[w] = 0
    <2>1. x = m
        BY <1>2, <1>8, <1>m DEF copy_assign_value, MaybeCopyAssign
    <2> QED
        BY <1>8, <1>m, <2>1 DEF Alike, Data
<1> QED
    BY <1>m, <1>3, <1>4, <1>5, <1>6, <1>7, <1>8
LEMMA MoveConstructs ==
    ASSUME NEW t, IsType(t), NEW m, NEW used, Good(m, t, used), NEW v \in Local \ used, NEW w \in used
    PROVE  Good(move_construct_value(m, t, v, w), t, used \cup {v})
<1> DEFINE x == move_construct_value(m, t, v, w)
           y == Zeroed(LoadStore(m, v, w), t, w)
<1>1. w \in Local /\ v # w /\ used \cup {v} \subseteq Local
    BY DEF Good
<1>2. t.kind \in {"tuple", "struct", "maybe"} /\ (Tagged(t) <=> t.kind = "maybe")
    BY TypeFacts
<1>m. IsMemory(m, t) /\ m.tag[w] \in {0, 1}
    <2>1. IsMemory(m, t)
        BY GoodFacts
    <2> QED
        BY <1>1, <2>1, MemoryFacts
<1>3. CASE (Tagged(t) /\ has_simple_copy(t)) \/ (~Tagged(t) /\ has_simple_move(t))
    <2>1. x = y
        BY <1>2, <1>3 DEF move_construct_value, MaybeMoveConstruct, TupleMoveConstruct
    <2>2. Moves(m, y, t, v, w)
        BY <1>1, <1>m, LoadStoreMoves
    <2>3. Good(y, t, used \cup {v})
        BY <1>1, <2>2, MoveKeeps
    <2> QED
        BY <2>1, <2>3
<1>4. CASE ~Tagged(t) /\ ~has_simple_move(t)
    <2> DEFINE z == EachPart("move construct", m, t, v, w)
    <2>1. x = z
        BY <1>2, <1>4 DEF move_construct_value, TupleMoveConstruct
    <2>2. PICK L : /\ Sound(m, t, L)
                   /\ \A u \in Local, j \in Places(t) : <<u, j>> \in L <=> u \in used
        BY <1>4, WithoutTags
    <2> DEFINE K == L \cup Before(v, Len(t.parts))
    <2>3. \A j \in Places(t) : <<v, j>> \notin L /\ <<w, j>> \in L
        BY <1>1, <2>2
    <2>4. Sound(z, t, K) /\ SameTags(m, z)
        BY <1>1, <2>2, <2>3, MovesAreSound
    <2>5. \A u \in Local, j \in Places(t) : <<u, j>> \in K <=> u \in used \cup {v}
        BY <2>2, BeforeAll
    <2> HIDE DEF z, K
    <2>6. Good(z, t, used \cup {v})
        BY <1>1, <1>4, <2>4, <2>5, PartsKeep DEF SameTags
    <2> QED
        BY <2>1, <2>6
<1>5. CASE Tagged(t) /\ ~has_simple_copy(t) /\ m.tag[w] = 1
    <2> DEFINE z == SetTag(MoveConstructPart(m, t.parts[1], v, w, 1), v, 1)
    <2>1. x = SetTag(z, w, 0)
        BY <1>2, <1>5 DEF move_construct_value, MaybeMoveConstruct
    <2>2. Good(z, t, used \cup {v}) /\ IsMemory(z, t) /\ z.cell[w][1] = Null
        BY <1>1, <1>5, ValueMoved
    <2> HIDE DEF z
    <2>3. z.cell[w][1] \notin z.alive /\ w \in used \cup {v}
        BY <2>2, MemoryFacts
    <2>4. Good(SetTag(z, w, 0), t, used \cup {v})
        BY <1>5, <2>2, <2>3, TagReset
    <2> QED
        BY <2>1, <2>4
<1>6. CASE Tagged(t) /\ ~has_simple_copy(t) /\ m.tag[w] # 1
    <2>1. x = Zeroed(m, t, v)
        BY <1>2, <1>6 DEF move_construct_value, MaybeMoveConstruct
    <2>2. Good(Zeroed(m, t, v), t, used \cup {v})
        BY ZeroedKeeps
    <2> QED
        BY <2>1, <2>2
<1> QED
    BY <1>3, <1>4, <1>5, <1>6

(* A local moved to itself is zeroed, and what it held is stored over.     *)
LEMMA LoadStoreItself ==
    ASSUME NEW t, NEW m, IsMemory(m, t), NEW v \in Local
    PROVE  LoadStore(m, v, v) = m
<1> DEFINE x == LoadStore(m, v, v)
<1>1. x = [m EXCEPT !.cell[v] = m.cell[v], !.tag[v] = m.tag[v]]
    BY DEF LoadStore
<1>2. /\ m.cell \in [Local -> [Places(t) -> Int]] /\ m.tag \in [Local -> {0, 1}]
    BY MemoryFacts
<1>3. /\ [m.cell EXCEPT ![v] = m.cell[v]] = m.cell /\ [m.tag EXCEPT ![v] = m.tag[v]] = m.tag
    BY <1>2
<1>4. x = [m EXCEPT !.cell = [m.cell EXCEPT ![v] = m.cell[v]], !.tag = [m.tag EXCEPT ![v] = m.tag[v]]]
    BY <1>1 DEF IsMemory
<1>5. [m EXCEPT !.cell = m.cell, !.tag = m.tag] = m
    BY DEF IsMemory
<1> QED
    BY <1>3, <1>4, <1>5

LEMMA SimpleMoves ==
    ASSUME NEW t, IsType(t), NEW m, NEW used, Good(m, t, used), NEW v \in used, NEW w \in used
    PROVE  Good(Storing(m, t, Zeroed(LoadStore(m, v, w), t, w)), t, used)
<1> DEFINE y == Zeroed(LoadStore(m, v, w), t, w)
           K == LiveParts(y, t, used)
<1>1. w \in Local /\ v \in Local /\ used \cup {v} = used /\ used \subseteq Local
    BY DEF Good
<1>2. PICK L : /\ Ordered(m, t, L) /\ IsMemory(m, t)
               /\ \A u \in Local, j \in Places(t) : <<u, j>> \in L <=> u \in used /\ Data(m, t, u)
    BY GoodFacts
<1>3. Ordered(y, t, K) /\ SameLists(m, y) /\ OnlyMaybeHasTag(y, t)
    <2>1. CASE v # w
        <3>1. Moves(m, y, t, v, w)
            BY <1>1, <1>2, <2>1, LoadStoreMoves
        <3> HIDE DEF y
        <3>2. /\ Ordered(y, t, LiveParts(y, t, used \cup {v}))
              /\ OnlyMaybeHasTag(y, t)
            BY <1>1, <3>1, MoveKeeps
        <3>3. SameLists(m, y)
            BY <3>1 DEF Moves
        <3> QED
            BY <1>1, <3>2, <3>3
    <2>2. CASE v = w
        <3>1. y = Zeroed(m, t, v)
            BY <1>1, <1>2, <2>2, LoadStoreItself
        <3>2. /\ SameLists(m, Zeroed(m, t, v))
              /\ \A u \in Local : Zeroed(m, t, v).tag[u] = IF u = v THEN 0 ELSE m.tag[u]
            BY <1>1, <1>2, ZeroedFacts
        <3>3. /\ K \subseteq Local \X Places(t)
              /\ \A u \in Local, j \in Places(t) : <<u, j>> \in K <=> u \in used /\ Data(y, t, u)
            BY <1>1, LiveFacts
        <3> HIDE DEF y, K
        <3>4. AgreeBut(t, L, K, v)
            BY <1>2, <3>1, <3>2, <3>3 DEF AgreeBut, Data
        <3>5. Ordered(Zeroed(m, t, v), t, K)
            BY <1>1, <1>2, <3>4, ZeroedIsOrdered
        <3> QED
            BY <3>1, <3>2, <3>5 DEF Good, OnlyMaybeHasTag
    <2> QED
        BY <2>1, <2>2
<1> HIDE DEF y
<1>4. Good(Storing(m, t, y), t, used)
    BY <1>1, <1>3, StoresOver DEF SameLists
<1> QED
    BY <1>4 DEF y

(* The assignment 'move: a local moved to itself holds nothing after.      *)
MovedTo(m, t, v, w) ==
    LET moved == move_assign_value(m, t, v, w)
    IN  IF v = w THEN Storing(m, t, moved) ELSE moved

LEMMA MoveAssigns ==
    ASSUME NEW t, IsType(t), NEW m, NEW used, Good(m, t, used), NEW v \in used, NEW w \in used
    PROVE  Good(MovedTo(m, t, v, w), t, used)
<1> DEFINE x == move_assign_value(m, t, v, w)
<1>1. w \in Local /\ v \in Local /\ used \cup {v} = used /\ used \subseteq Local
    BY DEF Good
<1>2. t.kind \in {"tuple", "struct", "maybe"} /\ (Tagged(t) <=> t.kind = "maybe")
    BY TypeFacts
<1>m. IsMemory(m, t) /\ m.tag[v] \in {0, 1} /\ m.tag[w] \in {0, 1} /\ 0 # 1
    <2>1. IsMemory(m, t)
        BY GoodFacts
    <2> QED
        BY <1>1, <2>1, MemoryFacts
<1> HIDE DEF x
<1>s. Good(x, t, used) => Good(MovedTo(m, t, v, w), t, used)
    <2>1. MovedTo(m, t, v, w) = IF v = w THEN Storing(m, t, x) ELSE x
        BY DEF MovedTo, x
    <2> QED
        BY <1>m, <2>1, StoringAgain
<1>3. CASE has_simple_move(t)
    <2>1. x = Storing(m, t, Zeroed(LoadStore(m, v, w), t, w))
        BY <1>2, <1>3 DEF move_assign_value, MaybeMoveAssign, TupleMoveAssign, x
    <2> QED
        BY <1>s, <2>1, SimpleMoves
<1>4. CASE ~has_simple_move(t) /\ ~Tagged(t)
    <2> DEFINE z == EachPart("move assign", m, t, v, w)
    <2>1. x = z
        BY <1>2, <1>4 DEF move_assign_value, TupleMoveAssign, x
    <2>2. PICK L : /\ Sound(m, t, L)
                   /\ \A u \in Local, j \in Places(t) : <<u, j>> \in L <=> u \in used
        BY <1>4, WithoutTags
    <2>3. \A j \in Places(t) : <<v, j>> \in L /\ <<w, j>> \in L
        BY <1>1, <2>2
    <2>4. Sound(z, t, L) /\ SameTags(m, z)
        BY <1>1, <1>4, <2>2, <2>3, MovesToAreSound
    <2> HIDE DEF z
    <2>5. Good(z, t, used)
        BY <1>1, <1>4, <2>2, <2>4, PartsKeep DEF SameTags
    <2> QED
        BY <1>s, <2>1, <2>5
<1>5. CASE ~has_simple_move(t) /\ Tagged(t) /\ m.tag[v] = 1 /\ m.tag[w] = 1
    <2> DEFINE y == MoveAssignPart(m, t, t.parts[1], v, w, 1)
    <2>1. x = SetTag(y, w, 0)
        BY <1>2, <1>5 DEF move_assign_value, MaybeMoveAssign, x
    <2>2. t.parts[1] = "owner" /\ Places(t) = {1} /\ 1 \in Places(t)
        BY <1>5, MaybeFacts
    <2>3. CASE v = w
        <3>1. y = m
            BY <2>2, <2>3 DEF MoveAssignPart
        <3> DEFINE z == SetTag(m, w, 0)
        <3>2. Ordered(z, t, LiveParts(z, t, used)) /\ SameLists(m, z)
            BY <1>5, TagReset
        <3>3. Good(Storing(m, t, z), t, used)
            BY <1>1, <1>5, <3>2, StoresOver DEF SameLists, OnlyMaybeHasTag
        <3>4. MovedTo(m, t, v, w) = Storing(m, t, z)
            BY <2>1, <2>3, <3>1 DEF MovedTo, x
        <3> QED
            BY <3>3, <3>4
    <2>4. CASE v # w
        <3>1. PICK L : /\ Sound(m, t, L)
                       /\ \A u \in Local, j \in Places(t) : <<u, j>> \in L <=> u \in used /\ Data(m, t, u)
            BY GoodFacts
        <3>2. <<v, 1>> \in L /\ <<w, 1>> \in L
            BY <1>1, <1>5, <2>2, <3>1 DEF Data
        <3>3. Sound(y, t, L) /\ OnlyAtBoth(m, y, t, v, w, 1)
            BY <1>1, <2>2, <3>1, <3>2, MoveAssignIsSound
        <3> DEFINE d == DestroyPart(m, t.parts[1], v, 1)
                   z == MoveConstructPart(d, t.parts[1], v, w, 1)
        <3>4. y = z
            BY <2>2, <2>4 DEF MoveAssignPart
        <3>5. Sound(d, t, L \ {<<v, 1>>})
            BY <1>1, <2>2, <3>1, <3>2, DestroyIsSound
        <3>6. <<w, 1>> \in L \ {<<v, 1>>}
            BY <2>4, <3>2
        <3> HIDE DEF d
        <3>7. Took(d, z, t, v, w, 1)
            BY <1>1, <2>2, <3>5, <3>6, MoveConstructIsSound
        <3>8. z.cell[w][1] = Null
            BY <1>1, <2>2, <3>7 DEF Took
        <3> HIDE DEF y, z
        <3>9. \A u \in Local, j \in Places(t) : <<u, j>> \in L <=> u \in used /\ Data(y, t, u)
            BY <3>1, <3>3 DEF OnlyAtBoth, Data
        <3>10. Good(y, t, used)
            BY <1>1, <1>5, <3>3, <3>9, GoodIf DEF OnlyMaybeHasTag
        <3>11. y.cell[w][1] \notin y.alive
            <4>1. IsMemory(y, t)
                BY <3>3 DEF Sound, Ordered
            <4> QED
                BY <3>4, <3>8, <4>1, MemoryFacts
        <3>12. Good(SetTag(y, w, 0), t, used)
            BY <1>5, <3>10, <3>11, TagReset
        <3> QED
            BY <1>s, <2>1, <3>12
    <2> QED
        BY <2>3, <2>4
<1>6. CASE ~has_simple_move(t) /\ Tagged(t) /\ m.tag[v] = 1 /\ m.tag[w] = 0
    <2> DEFINE z == SetTag(DestroyPart(m, t.parts[1], v, 1), v, 0)
    <2>1. x = z
        BY <1>2, <1>6, <1>m DEF move_assign_value, MaybeMoveAssign, x
    <2>2. LeftEmpty(m, z, t, used, v)
        BY <1>6, ValueDestroyed
    <2> HIDE DEF z
    <2> QED
        BY <1>s, <2>1, <2>2 DEF LeftEmpty
<1>7. CASE ~has_simple_move(t) /\ Tagged(t) /\ m.tag[v] = 0 /\ m.tag[w] = 1
    <2> DEFINE z == SetTag(MoveConstructPart(m, t.parts[1], v, w, 1), v, 1)
    <2>1. x = z
        BY <1>2, <1>7, <1>m DEF move_assign_value, MaybeMoveAssign, x
    <2>2. Good(z, t, used)
        BY <1>1, <1>7, ValueMoved
    <2> HIDE DEF z
    <2> QED
        BY <1>s, <2>1, <2>2
<1>8. CASE ~has_simple_move(t) /\ Tagged(t) /\ m.tag[v] = 0 /\ m.tag[w] = 0
    <2>1. x = m
        BY <1>2, <1>8, <1>m DEF move_assign_value, MaybeMoveAssign, x
    <2> QED
        BY <1>s, <2>1
<1> QED
    BY <1>m, <1>3, <1>4, <1>5, <1>6, <1>7, <1>8
LEMMA Destroys ==
    ASSUME NEW t, IsType(t), NEW m, NEW used, Good(m, t, used), NEW v \in used
    PROVE  Good(destroy_value(m, t, v), t, used \ {v})
<1> DEFINE x == destroy_value(m, t, v)
           after == used \ {v}
<1>1. v \in Local /\ used \subseteq Local /\ after \subseteq Local
    BY DEF Good
<1>2. /\ t.kind \in {"tuple", "struct", "maybe"} /\ (Tagged(t) <=> t.kind = "maybe")
      /\ Tagged(t) => Places(t) = {1}
    BY TypeFacts
<1>3. PICK L : /\ Sound(m, t, L) /\ Ordered(m, t, L) /\ NoneLost(m, t, L) /\ IsMemory(m, t)
               /\ \A u \in Local, j \in Places(t) : <<u, j>> \in L <=> u \in used /\ Data(m, t, u)
    BY GoodFacts
<1>4. CASE Tagged(t) /\ m.tag[v] = 1
    <2>1. x = DestroyPart(m, t.parts[1], v, 1)
        BY <1>2, <1>4 DEF destroy_value, MaybeDestroy
    <2>2. Good(DestroyPart(m, t.parts[1], v, 1), t, used \ {v})
        BY <1>4, ValueDestroyed
    <2> QED
        BY <2>1, <2>2
<1>5. CASE Tagged(t) /\ m.tag[v] # 1
    <2>1. x = m
        BY <1>2, <1>5 DEF destroy_value, MaybeDestroy
    <2>2. \A u \in Local, j \in Places(t) : <<u, j>> \in L <=> u \in after /\ Data(m, t, u)
        BY <1>3, <1>5 DEF Data
    <2>3. OnlyMaybeHasTag(m, t)
        BY DEF Good
    <2> HIDE DEF x, after
    <2>4. Good(m, t, after)
        BY <1>1, <1>3, <2>2, <2>3, GoodIf
    <2> QED
        BY <2>1, <2>4 DEF x, after
<1>6. CASE ~Tagged(t) /\ has_simple_move(t)
    <2> DEFINE y == Zeroed(m, t, v)
               K == LiveParts(y, t, after)
    <2>1. x = Storing(m, t, y)
        BY <1>2, <1>6 DEF destroy_value, TupleDestroy
    <2>2. /\ SameLists(m, y)
          /\ \A u \in Local : y.tag[u] = IF u = v THEN 0 ELSE m.tag[u]
        BY <1>1, <1>3, ZeroedFacts
    <2>3. /\ K \subseteq Local \X Places(t)
          /\ \A u \in Local, j \in Places(t) : <<u, j>> \in K <=> u \in after /\ Data(y, t, u)
        BY <1>1, LiveFacts
    <2> HIDE DEF K
    <2>4. AgreeBut(t, L, K, v)
        BY <1>3, <1>6, <2>3 DEF AgreeBut, Data
    <2>5. Ordered(y, t, K)
        BY <1>1, <1>3, <2>4, ZeroedIsOrdered
    <2>6. OnlyMaybeHasTag(y, t)
        BY <2>2 DEF OnlyMaybeHasTag, Good
    <2> HIDE DEF y, after, x
    <2>7. Good(Storing(m, t, y), t, after)
        BY <1>1, <2>2, <2>5, <2>6, StoresOver DEF SameLists, K
    <2> QED
        BY <2>1, <2>7 DEF x, after
<1>7. CASE ~Tagged(t) /\ ~has_simple_move(t)
    <2> DEFINE z == EachPart("destroy", m, t, v, v)
               K == L \ Before(v, Len(t.parts))
    <2>1. x = z
        BY <1>2, <1>7 DEF destroy_value, TupleDestroy
    <2>2. \A u \in Local, j \in Places(t) : <<u, j>> \in L <=> u \in used
        BY <1>3, <1>7 DEF Data
    <2>3. \A j \in Places(t) : <<v, j>> \in L
        BY <1>1, <2>2
    <2>4. Sound(z, t, K) /\ SameTags(m, z)
        BY <1>1, <1>3, <2>3, DestroysAreSound
    <2>5. \A u \in Local, j \in Places(t) : <<u, j>> \in K <=> u \in after
        BY <2>2, BeforeAll
    <2> HIDE DEF x, z, K, after
    <2>6. Good(z, t, after)
        BY <1>1, <1>7, <2>4, <2>5, PartsKeep DEF SameTags
    <2> QED
        BY <2>1, <2>6 DEF x, after
<1> QED
    BY <1>4, <1>5, <1>6, <1>7

-----------------------------------------------------------------------------
(* What an initialiser stores, and the arguments, one after the other.     *)
LEMMA Initialises ==
    ASSUME NEW t, IsType(t), NEW m, NEW used, Good(m, t, used), NEW v \in Local \ used,
           NEW tag \in Variants(t)
    PROVE  Good(Initialised(m, t, v, tag), t, used \cup {v})
<1> DEFINE x == Initialised(m, t, v, tag)
           after == used \cup {v}
<1>1. v \in Local /\ v \notin used /\ used \subseteq Local /\ after \subseteq Local
    BY DEF Good
<1>2. /\ t.kind \in {"tuple", "struct", "maybe"} /\ (Tagged(t) <=> t.kind = "maybe")
      /\ Tagged(t) => Places(t) = {1}
    BY TypeFacts
<1>3. PICK L : /\ Sound(m, t, L)
               /\ \A u \in Local, j \in Places(t) : <<u, j>> \in L <=> u \in used /\ Data(m, t, u)
    BY GoodFacts
<1>4. \A j \in Places(t) : <<v, j>> \notin L
    BY <1>1, <1>3
<1>5. CASE ~Tagged(t)
    <2> DEFINE z == EachPart("make", m, t, v, v)
               K == L \cup Before(v, Len(t.parts))
    <2>1. x = z
        BY <1>2, <1>5 DEF Initialised
    <2>2. Sound(z, t, K) /\ SameTags(m, z)
        BY <1>1, <1>3, <1>4, MakesAreSound
    <2>3. \A u \in Local, j \in Places(t) : <<u, j>> \in K <=> u \in after
        BY <1>3, <1>5, BeforeAll DEF Data
    <2> HIDE DEF x, z, K, after
    <2>4. Good(z, t, after)
        BY <1>1, <1>5, <2>2, <2>3, PartsKeep DEF SameTags
    <2> QED
        BY <2>1, <2>4 DEF x, after
<1>6. CASE Tagged(t) /\ tag = 0
    <2>1. x = Zeroed(m, t, v)
        BY <1>2, <1>6 DEF Initialised
    <2>2. Good(Zeroed(m, t, v), t, after)
        BY ZeroedKeeps
    <2> QED
        BY <2>1, <2>2
<1>7. CASE Tagged(t) /\ tag # 0
    <2> DEFINE y == MakePart(m, t.parts[1], v, 1)
               z == SetTag(y, v, 1)
               K == L \cup {<<v, 1>>}
    <2>1. tag = 1
        BY <1>2, <1>7 DEF Variants
    <2>2. x = z
        BY <1>2, <1>7, <2>1 DEF Initialised
    <2>3. 1 \in Places(t)
        BY <1>2, <1>7
    <2>4. Sound(y, t, K) /\ SameTags(m, y)
        BY <1>1, <1>3, <1>4, <2>3, MakePartIsSound
    <2>5. \A u \in Local, j \in Places(t) : <<u, j>> \in K <=> u = v \/ <<u, j>> \in L
        BY <1>2, <1>7
    <2> HIDE DEF y, x, K, after
    <2>6. Sound(z, t, K) /\ TagIs(y, z, t, v, 1)
        BY <1>1, <1>7, <2>3, <2>4, <2>5, TagSetIsSound
    <2>7. \A u \in Local, j \in Places(t) : <<u, j>> \in K <=> u \in after /\ Data(z, t, u)
        BY <1>1, <1>3, <2>4, <2>5, <2>6 DEF Data, TagIs, SameTags, after
    <2>8. OnlyMaybeHasTag(z, t)
        BY <1>7 DEF OnlyMaybeHasTag
    <2> HIDE DEF z
    <2>9. Good(z, t, after)
        BY <1>1, <2>6, <2>7, <2>8, GoodIf
    <2> QED
        BY <2>2, <2>9 DEF x, after
<1> QED
    BY <1>5, <1>6, <1>7
LEMMA TagsAre ==
    ASSUME NEW t, IsType(t)
    PROVE  Tags(t) = IF Tagged(t) THEN {0, 1} ELSE {0}
<1>1. Tagged(t) <=> t.kind = "maybe"
    BY TypeFacts
<1>2. Tagged(t) => findTagBitWidth(t) = 1
    BY <1>1 DEF findTagBitWidth
<1>3. 2^1 = 2
    OBVIOUS
<1>4. 0 .. (2 - 1) = {0, 1}
    OBVIOUS
<1> QED
    BY <1>2, <1>3, <1>4 DEF Tags

LEMMA MemoryIsGood ==
    ASSUME NEW t, IsType(t), NEW tags \in [Local -> Tags(t)]
    PROVE  Good(Memory(t, tags), t, {})
<1> DEFINE m == Memory(t, tags)
<1>1. /\ m.cell = [v \in Local |-> [i \in Places(t) |-> Raw]] /\ m.tag = tags
      /\ m.made = 0 /\ m.alive = {} /\ m.storedOver = {} /\ m.faults = 0
    BY DEF Memory
<1>2. IsMemory(m, t)
    <2>1. tags \in [Local -> {0, 1}]
        BY TagsAre
    <2>2. m.cell \in [Local -> [Places(t) -> Int]]
        BY <1>1 DEF Raw
    <2> QED
        BY <2>1, <2>2 DEF IsMemory, Memory
<1>3. \A v \in Local, i \in Places(t) : m.cell[v][i] = Raw
    BY <1>1
<1>4. OnlyMaybeHasTag(m, t)
    BY <1>1, TagsAre DEF OnlyMaybeHasTag
<1> HIDE DEF m
<1>5. PlainHoldsNone(m, t)
    BY <1>3 DEF PlainHoldsNone
<1>6. HoldInstances(m, t, {}) /\ NoneTwice(m, t, {}) /\ NoneElsewhere(m, t, {}) /\ NoneLost(m, t, {})
    BY <1>1 DEF HoldInstances, NoneTwice, NoneElsewhere, NoneLost
<1>7. Numbered(m, t)
    BY <1>1, <1>3 DEF Numbered, Raw
<1>8. Sound(m, t, {})
    BY <1>2, <1>5, <1>6, <1>7 DEF Sound, Ordered
<1>9. Good(m, t, {})
    BY <1>4, <1>8, GoodIf
<1> QED
    BY <1>9 DEF m

LEMMA ArgumentFacts ==
    /\ Len(Arguments) \in Nat /\ DOMAIN Arguments = 1 .. Len(Arguments)
    /\ \A k \in 1 .. Len(Arguments) : Arguments[k] \in Local
    /\ \A i, j \in 1 .. Len(Arguments) : Arguments[i] = Arguments[j] => i = j
    BY LocalAssumption, LenProperties DEF IsInjective

LEMMA EnteredIsGood ==
    ASSUME NEW t, IsType(t), NEW tags \in [Local -> Tags(t)],
           \A v \in ToSet(Arguments) : tags[v] \in Variants(t)
    PROVE  Good(Entered(t, tags), t, ToSet(Arguments))
<1> DEFINE n == Len(Arguments)
           M == MemorySet(t)
           m == Memory(t, tags)
           After(i, x) == Initialised(x, t, Arguments[i], tags[Arguments[i]])
           Given(k) == {Arguments[i] : i \in 1 .. k}
           Ok == [k \in 0 .. n |-> {x \in M : Good(x, t, Given(k))}]
           F == [i \in 1 .. n |-> [x \in Ok[i - 1] |-> After(i, x)]]
           Is(a) == a = [i \in 0 .. n |-> IF i = 0 THEN m ELSE After(i, a[i - 1])]
           a == CHOOSE a : Is(a)
<1>1. /\ n \in Nat /\ 0 \in 0 .. n /\ n \in 0 .. n
      /\ \A i \in 1 .. n : i \in 0 .. n /\ i # 0 /\ i - 1 \in 0 .. n
    BY ArgumentFacts
<1>2. \A x, used : Good(x, t, used) => x \in M
    BY DEF Good, Sound, Ordered, IsMemory, MemorySet
<1>3. Given(n) = ToSet(Arguments) /\ Given(0) = {}
    BY ArgumentFacts DEF ToSet
<1>4. ASSUME NEW i \in 1 .. n, NEW x, Good(x, t, Given(i - 1))
      PROVE  Good(After(i, x), t, Given(i))
    <2> DEFINE v == Arguments[i]
    <2>1. 1 .. i = (1 .. (i - 1)) \cup {i} /\ i \notin 1 .. (i - 1) /\ 1 .. (i - 1) \subseteq 1 .. n
        BY <1>1
    <2>2. v \in Local /\ Given(i) = Given(i - 1) \cup {v} /\ v \notin Given(i - 1)
        BY <2>1, ArgumentFacts
    <2>3. tags[v] \in Variants(t)
        BY ArgumentFacts DEF ToSet
    <2> HIDE DEF v, Given
    <2>4. Good(Initialised(x, t, v, tags[v]), t, Given(i - 1) \cup {v})
        BY <1>4, <2>2, <2>3, Initialises
    <2> QED
        BY <2>2, <2>4 DEF v
<1> HIDE DEF M, m, After, Given
<1>5. Ok \in [0 .. n -> SUBSET M] /\ \A i \in 0 .. n : \A x : x \in Ok[i] <=> Good(x, t, Given(i))
    BY <1>2
<1> HIDE DEF Ok
<1>6. m \in Ok[0]
    BY <1>1, <1>3, <1>5, MemoryIsGood DEF m
<1>7. \A i \in 1 .. n : \A x \in Ok[i - 1] : After(i, x) \in Ok[i]
    BY <1>1, <1>4, <1>5
<1>8. \A i \in 1 .. n : \A x \in Ok[i - 1] : F[i][x] = After(i, x)
    OBVIOUS
<1> HIDE DEF F, n
<1>9. PICK g \in [0 .. n -> M] : AreSteps(g, n, m, F, Ok)
    <2>1. StepsKeep(n, F, Ok)
        BY <1>7, <1>8 DEF StepsKeep
    <2> QED
        BY <1>1, <1>5, <1>6, <2>1, StepsExist
<1>10. \A i \in 0 .. n : g[i] = IF i = 0 THEN m ELSE After(i, g[i - 1])
    <2>1. \A i \in 0 .. n : i # 0 => i \in 1 .. n
        BY <1>1
    <2> QED
        BY <1>8, <1>9, <2>1 DEF AreSteps
<1>11. Is(g)
    BY <1>9, <1>10
<1>12. Is(a)
    BY <1>11
<1> HIDE DEF a
<1>13. a[0] = m /\ \A i \in 1 .. n : a[i] = After(i, a[i - 1])
    BY <1>1, <1>12
<1>14. \A i \in 1 .. n : a[i - 1] \in Ok[i - 1] => a[i] \in Ok[i]
    BY <1>7, <1>13
<1>15. a[n] \in Ok[n]
    BY <1>1, <1>6, <1>13, <1>14, StepByStep
<1>16. Entered(t, tags) = a[n]
    BY DEF Entered, a, Is, n, After, m
<1> QED
    BY <1>1, <1>3, <1>5, <1>15, <1>16
-----------------------------------------------------------------------------
(* The function's locals are distinct, and what those that remain to be    *)
(* destroyed hold is right.                                                *)
Inv ==
    /\ IsType(type)
    /\ locals \in Seq(Local) /\ IsInjective(locals)
    /\ ended \in 0 .. Len(locals) + 1
    /\ Good(mem, type, Remaining)

LEMMA LocalsFacts ==
    ASSUME Inv
    PROVE  /\ Len(locals) \in Nat /\ DOMAIN locals = 1 .. Len(locals)
           /\ \A i \in 1 .. Len(locals) : locals[i] \in Local
           /\ \A i, j \in 1 .. Len(locals) : locals[i] = locals[j] => i = j
           /\ ended \in Nat /\ Declared \subseteq Local
           /\ ended = 0 => Remaining = Declared
<1>1. /\ Len(locals) \in Nat /\ DOMAIN locals = 1 .. Len(locals)
      /\ \A i \in 1 .. Len(locals) : locals[i] \in Local
      /\ \A i, j \in 1 .. Len(locals) : locals[i] = locals[j] => i = j
      /\ ended \in Nat
    BY LenProperties DEF Inv, IsInjective
<1>2. Declared \subseteq Local
    BY <1>1 DEF Declared, ToSet
<1>3. ended = 0 => Remaining = Declared
    BY <1>1 DEF Remaining, Declared, ToSet
<1> QED
    BY <1>1, <1>2, <1>3

LEMMA DeclaresKeep ==
    ASSUME Inv, NEW v \in Local, Declare(v), Good(mem', type, Declared \cup {v})
    PROVE  Inv'
<1>1. v \notin Declared /\ locals' = Append(locals, v) /\ type' = type /\ ended' = 0 /\ ended = 0
    BY DEF Declare, Sentence
<1> DEFINE n == Len(locals)
<1>2. /\ n \in Nat /\ DOMAIN locals = 1 .. n /\ \A i \in 1 .. n : locals[i] \in Declared
      /\ \A i, j \in 1 .. n : locals[i] = locals[j] => i = j
      /\ locals \in Seq(Local)
    BY LocalsFacts DEF Declared, ToSet, Inv
<1>3. /\ locals' \in Seq(Local) /\ Len(locals') = n + 1 /\ DOMAIN locals' = 1 .. n + 1
      /\ \A i \in 1 .. n : locals'[i] = locals[i] /\ locals'[n + 1] = v
    BY <1>1, <1>2, AppendProperties
<1>4. IsInjective(locals')
    <2> SUFFICES ASSUME NEW i \in 1 .. n + 1, NEW j \in 1 .. n + 1, locals'[i] = locals'[j]
                 PROVE  i = j
        BY <1>3 DEF IsInjective
    <2>1. \A k \in 1 .. n + 1 : k # n + 1 => k \in 1 .. n /\ locals'[k] # v
        BY <1>1, <1>2, <1>3
    <2>2. locals'[n + 1] = v
        BY <1>1, <1>2, AppendProperties
    <2>3. CASE i = n + 1
        BY <2>1, <2>2, <2>3
    <2>4. CASE i # n + 1
        BY <1>2, <1>3, <2>1, <2>2, <2>4
    <2> QED
        BY <2>3, <2>4
<1>5. Remaining' = Declared \cup {v}
    <2>1. locals'[n + 1] = v
        BY <1>1, <1>2, AppendProperties
    <2>2. Remaining' = {locals'[i] : i \in 1 .. n + 1}
        BY <1>1, <1>2, <1>3 DEF Remaining
    <2>3. 1 .. n + 1 = (1 .. n) \cup {n + 1}
        BY <1>2
    <2>4. Declared = {locals[i] : i \in 1 .. n}
        BY <1>2 DEF Declared, ToSet
    <2> HIDE DEF n
    <2> QED
        BY <1>3, <2>1, <2>2, <2>3, <2>4
<1> QED
    BY <1>1, <1>2, <1>3, <1>4, <1>5 DEF Inv

LEMMA AssignsKeep ==
    ASSUME Inv, NEW v, NEW w, Assign(v, w), Good(mem', type, Declared)
    PROVE  Inv'
<1>1. locals' = locals /\ type' = type /\ ended' = ended /\ ended = 0
    BY DEF Assign, Sentence
<1>2. Remaining' = Declared
    BY <1>1, LocalsFacts DEF Remaining
<1> QED
    BY <1>1, <1>2 DEF Inv

LEMMA InitIsGood == Init /\ type.kind # "mix" => Inv
<1> SUFFICES ASSUME Init, type.kind # "mix" PROVE Inv
    OBVIOUS
<1>1. IsType(type) /\ locals = Arguments /\ ended = 0
    BY DEF Init, IsType
<1>2. /\ locals \in Seq(Local) /\ IsInjective(locals) /\ DOMAIN locals = 1 .. Len(locals)
      /\ Len(locals) \in Nat
    BY <1>1, LocalAssumption, LenProperties
<1>3. Remaining = ToSet(Arguments)
    BY <1>1, <1>2 DEF Remaining, ToSet
<1>4. PICK tags \in [Local -> Tags(type)] :
         (\A v \in ToSet(Arguments) : tags[v] \in Variants(type)) /\ mem = Entered(type, tags)
    BY DEF Init
<1>5. Good(mem, type, Remaining)
    BY <1>1, <1>3, <1>4, EnteredIsGood
<1> QED
    BY <1>1, <1>2, <1>5 DEF Inv

(* A sentence that copies, as the action property says it.                 *)
LEMMA CopySentences ==
    ASSUME Inv, NEW v \in Local, NEW w \in Local, DeclareCopy(v, w) \/ AssignCopy(v, w)
    PROVE  Inv' /\ Alike(mem, mem', type, v, w)
<1>1. IsType(type) /\ Good(mem, type, Remaining) /\ Declared \subseteq Local
    BY LocalsFacts DEF Inv
<1>2. CASE DeclareCopy(v, w)
    <2> DEFINE x == copy_construct_value(mem, type, v, w)
    <2>1. /\ Declare(v) /\ w \in Declared /\ mem' = x /\ v \notin Declared /\ ended = 0
        BY <1>2 DEF DeclareCopy, Declare, Sentence
    <2>2. Good(mem, type, Declared)
        BY <1>1, <2>1, LocalsFacts
    <2>3. Good(x, type, Declared \cup {v}) /\ Alike(mem, x, type, v, w)
        BY <1>1, <2>1, <2>2, CopyConstructs
    <2> HIDE DEF x
    <2> QED
        BY <2>1, <2>3, DeclaresKeep
<1>3. CASE AssignCopy(v, w)
    <2> DEFINE x == IF has_simple_copy(type) THEN LoadStore(mem, v, w)
                    ELSE copy_assign_value(mem, type, v, w)
    <2>1. /\ Assign(v, w) /\ w \in Declared /\ v \in Declared /\ mem' = x /\ ended = 0
        BY <1>3 DEF AssignCopy, Assign, Sentence
    <2>2. Good(mem, type, Declared) /\ Declared \cup {v} = Declared
        BY <1>1, <2>1, LocalsFacts
    <2>3. Good(x, type, Declared) /\ Alike(mem, x, type, v, w)
        <3>1. CASE has_simple_copy(type)
            BY <1>1, <2>1, <2>2, <3>1, PlainCopies
        <3>2. CASE ~has_simple_copy(type)
            BY <1>1, <2>1, <2>2, <3>2, CopyAssigns
        <3> QED
            BY <3>1, <3>2
    <2> HIDE DEF x
    <2> QED
        BY <2>1, <2>3, AssignsKeep
<1> QED
    BY <1>2, <1>3

LEMMA NextKeeps == Inv /\ [Next]_vars => Inv'
<1> SUFFICES ASSUME Inv, [Next]_vars PROVE Inv'
    OBVIOUS
<1>1. /\ IsType(type) /\ Good(mem, type, Remaining) /\ Declared \subseteq Local
      /\ ended = 0 => Good(mem, type, Declared)
    BY LocalsFacts DEF Inv
<1>2. ASSUME NEW v \in Local, DeclareEmpty(v)
      PROVE  Inv'
    <2>1. Declare(v) /\ v \in Local \ Declared /\ mem' = Zeroed(mem, type, v) /\ ended = 0
        BY <1>2 DEF DeclareEmpty, Declare, Sentence
    <2>2. Good(Zeroed(mem, type, v), type, Declared \cup {v})
        BY <1>1, <2>1, ZeroedKeeps
    <2> QED
        BY <2>1, <2>2, DeclaresKeep
<1>3. ASSUME NEW v \in Local, NEW w \in Local, DeclareSame(v, w)
      PROVE  Inv'
    <2>1. /\ Declare(v) /\ v \in Local \ Declared /\ w \in Declared /\ ended = 0 /\ v # w
        BY <1>3 DEF DeclareSame, Declare, Sentence
    <2>2. CASE has_simple_copy(type)
        <3>1. mem' = LoadStore(mem, v, w)
            BY <1>3, <2>2 DEF DeclareSame
        <3>2. Good(LoadStore(mem, v, w), type, Declared \cup {v})
            BY <1>1, <2>1, <2>2, PlainCopies
        <3> QED
            BY <2>1, <3>1, <3>2, DeclaresKeep
    <2>3. CASE ~has_simple_copy(type)
        <3> DEFINE x == Zeroed(LoadStore(mem, v, w), type, w)
        <3>1. mem' = x
            BY <1>3, <2>3 DEF DeclareSame
        <3>2. IsMemory(mem, type)
            BY <1>1, GoodFacts
        <3>3. Moves(mem, x, type, v, w)
            BY <2>1, <3>2, LoadStoreMoves
        <3> HIDE DEF x
        <3>4. Good(x, type, Declared \cup {v})
            BY <1>1, <2>1, <3>3, MoveKeeps
        <3> QED
            BY <2>1, <3>1, <3>4, DeclaresKeep
    <2> QED
        BY <2>2, <2>3
<1>4. ASSUME NEW v \in Local, NEW w \in Local, DeclareCopy(v, w) \/ AssignCopy(v, w)
      PROVE  Inv'
    BY <1>4, CopySentences
<1>5. ASSUME NEW v \in Local, NEW w \in Local, DeclareMove(v, w)
      PROVE  Inv'
    <2> DEFINE x == move_construct_value(mem, type, v, w)
    <2>1. Declare(v) /\ v \in Local \ Declared /\ w \in Declared /\ ended = 0 /\ mem' = x
        BY <1>5 DEF DeclareMove, Declare, Sentence
    <2>2. Good(x, type, Declared \cup {v})
        BY <1>1, <2>1, MoveConstructs
    <2> HIDE DEF x
    <2> QED
        BY <2>1, <2>2, DeclaresKeep
<1>6. ASSUME NEW v \in Local, NEW w \in Local, AssignSame(v, w)
      PROVE  Inv'
    <2>1. Assign(v, w) /\ v \in Declared /\ w \in Declared /\ ended = 0 /\ Declared \cup {v} = Declared
        BY <1>6 DEF AssignSame, Assign, Sentence
    <2>2. CASE has_simple_copy(type)
        <3>1. mem' = LoadStore(mem, v, w)
            BY <1>6, <2>2 DEF AssignSame
        <3>2. Good(LoadStore(mem, v, w), type, Declared)
            BY <1>1, <2>1, <2>2, PlainCopies
        <3> QED
            BY <2>1, <3>1, <3>2, AssignsKeep
    <2>3. CASE ~has_simple_copy(type)
        <3> DEFINE z == Zeroed(mem, type, w)
                   y == [z EXCEPT !.cell[v] = mem.cell[w], !.tag[v] = mem.tag[w]]
        <3>1. mem' = Storing(mem, type, y)
            BY <1>6, <2>3 DEF AssignSame
        <3>2. IsMemory(mem, type)
            BY <1>1, GoodFacts
        <3>3. /\ IsMemory(z, type) /\ SameLists(mem, z)
              /\ \A u \in Local : z.tag[u] = IF u = w THEN 0 ELSE mem.tag[u]
              /\ \A j \in Places(type) : z.cell[w][j] = Null
              /\ \A u \in Local \ {w} : z.cell[u] = mem.cell[u]
            BY <3>2, ZeroedFacts
        <3> HIDE DEF z
        <3>4. /\ mem.cell[w] \in [Places(type) -> Int] /\ mem.tag[w] \in {0, 1}
              /\ z.cell \in [Local -> [Places(type) -> Int]] /\ z.tag \in [Local -> {0, 1}]
            BY <3>2, <3>3, MemoryFacts
        <3>5. /\ y.cell = [z.cell EXCEPT ![v] = mem.cell[w]] /\ y.tag = [z.tag EXCEPT ![v] = mem.tag[w]]
              /\ SameLists(z, y) /\ y.faults = z.faults
            BY <3>3 DEF IsMemory, SameLists
        <3>6. IsMemory(y, type)
            <4>1. /\ [z.cell EXCEPT ![v] = mem.cell[w]] \in [Local -> [Places(type) -> Int]]
                  /\ [z.tag EXCEPT ![v] = mem.tag[w]] \in [Local -> {0, 1}]
                BY <3>4
            <4>2. y = [z EXCEPT !.cell = [z.cell EXCEPT ![v] = mem.cell[w]],
                                !.tag = [z.tag EXCEPT ![v] = mem.tag[w]]]
                BY <3>3 DEF IsMemory
            <4> QED
                BY <3>3, <4>1, <4>2 DEF IsMemory
        <3> HIDE DEF y
        <3>7. Moves(mem, y, type, v, w)
            BY <3>3, <3>4, <3>5, <3>6 DEF Moves, SameLists
        <3>8. Ordered(y, type, LiveParts(y, type, Declared)) /\ OnlyMaybeHasTag(y, type)
            BY <1>1, <2>1, <3>7, MoveKeeps
        <3>9. Good(Storing(mem, type, y), type, Declared)
            BY <1>1, <2>1, <3>7, <3>8, StoresOver DEF Moves, SameLists
        <3> QED
            BY <2>1, <3>1, <3>9, AssignsKeep
    <2> QED
        BY <2>2, <2>3
<1>7. ASSUME NEW v \in Local, NEW w \in Local, AssignMove(v, w)
      PROVE  Inv'
    <2>1. Assign(v, w) /\ v \in Declared /\ w \in Declared /\ ended = 0
        BY <1>7 DEF AssignMove, Assign, Sentence
    <2>2. CASE has_simple_move(type)
        <3> DEFINE y == Storing(mem, type, Zeroed(LoadStore(mem, v, w), type, w))
        <3>1. mem' = IF v = w THEN Storing(mem, type, y) ELSE y
            BY <1>7, <2>2 DEF AssignMove
        <3>2. Good(y, type, Declared)
            BY <1>1, <2>1, SimpleMoves
        <3>3. IsMemory(mem, type)
            BY <1>1, GoodFacts
        <3> HIDE DEF y
        <3>4. Good(Storing(mem, type, y), type, Declared)
            BY <1>1, <3>2, <3>3, StoringAgain
        <3> QED
            BY <2>1, <3>1, <3>2, <3>4, AssignsKeep
    <2>3. CASE ~has_simple_move(type)
        <3>1. mem' = MovedTo(mem, type, v, w)
            BY <1>7, <2>3 DEF AssignMove, MovedTo
        <3>2. Good(MovedTo(mem, type, v, w), type, Declared)
            BY <1>1, <2>1, MoveAssigns
        <3> QED
            BY <2>1, <3>1, <3>2, AssignsKeep
    <2> QED
        BY <2>2, <2>3
<1>8. CASE EndBlock
    <2>1. /\ ended = 0 /\ ended' = 1 /\ type' = type /\ mem' = mem /\ locals' = locals
        BY <1>8 DEF EndBlock
    <2>2. Remaining' = Declared
        BY <2>1, LocalsFacts DEF Remaining, Declared, ToSet
    <2> QED
        BY <1>1, <2>1, <2>2, LocalsFacts DEF Inv
<1>9. CASE DestroyLocal
    <2> DEFINE v == locals[ended]
    <2>1. /\ ended \in DOMAIN locals /\ mem' = destroy_value(mem, type, v) /\ ended' = ended + 1
          /\ type' = type /\ locals' = locals
        BY <1>9 DEF DestroyLocal
    <2>2. /\ Len(locals) \in Nat /\ DOMAIN locals = 1 .. Len(locals)
          /\ \A i, j \in 1 .. Len(locals) : locals[i] = locals[j] => i = j
        BY LocalsFacts
    <2>3. v \in Remaining
        BY <2>1, <2>2 DEF Remaining
    <2>4. Remaining' = Remaining \ {v}
        <3>1. \A i \in 1 .. Len(locals) : i >= ended + 1 <=> i >= ended /\ locals[i] # v
            BY <2>1, <2>2
        <3> QED
            BY <2>1, <2>2, <3>1 DEF Remaining
    <2> HIDE DEF v
    <2>5. Good(mem', type, Remaining \ {v})
        BY <1>1, <2>1, <2>3, Destroys
    <2>6. ended' \in 0 .. Len(locals) + 1
        BY <2>1, <2>2
    <2> QED
        BY <2>1, <2>4, <2>5, <2>6 DEF Inv
<1>10. CASE UNCHANGED vars
    BY <1>10 DEF Inv, vars, Remaining
<1> QED
    BY <1>2, <1>3, <1>4, <1>5, <1>6, <1>7, <1>8, <1>9, <1>10 DEF Next

LEMMA InvHolds == Spec /\ type.kind # "mix" => []Inv
<1> QED
    BY InitIsGood, NextKeeps, PTL DEF Spec

-----------------------------------------------------------------------------
LEMMA InvMeans == Inv => OwnersMeetInstances /\ AliveIffHeld
<1> SUFFICES ASSUME Inv PROVE OwnersMeetInstances /\ AliveIffHeld
    OBVIOUS
<1> DEFINE used == Remaining
           held == UNION {HeldBy(mem, type, v) : v \in used}
<1>1. IsType(type) /\ Good(mem, type, used) /\ used \subseteq Local
    BY DEF Inv, Good
<1>2. PICK L : /\ Sound(mem, type, L) /\ Ordered(mem, type, L) /\ IsMemory(mem, type)
               /\ NoneLost(mem, type, L)
               /\ \A u \in Local, j \in Places(type) :
                     <<u, j>> \in L <=> u \in used /\ Data(mem, type, u)
    BY <1>1, GoodFacts
<1>3. OwnersMeetInstances
    BY <1>2, MemoryFacts DEF OwnersMeetInstances
<1>4. \A u \in Local : HeldBy(mem, type, u) =
          IF Data(mem, type, u) THEN {mem.cell[u][j] : j \in Places(type)} \ {Raw, Null, Plain} ELSE {}
    BY <1>1, <1>2, HeldFacts
<1>5. mem.alive \cap {Raw, Null, Plain} = {}
    BY <1>2 DEF Ordered, Numbered, IsMemory, Raw, Null, Plain
<1>6. \A u \in used, j \in Places(type) : Data(mem, type, u) =>
          \/ mem.cell[u][j] \in {Raw, Null, Plain}
          \/ mem.cell[u][j] \in mem.alive
    BY <1>1, <1>2 DEF Ordered, PlainHoldsNone, HoldInstances
<1> HIDE DEF used
<1>7. held \subseteq mem.alive
    BY <1>1, <1>4, <1>6
<1>8. mem.alive \subseteq held \cup mem.storedOver
    <2> SUFFICES ASSUME NEW r \in mem.alive, r \notin mem.storedOver PROVE r \in held
        OBVIOUS
    <2>1. PICK u \in Local, j \in Places(type) : <<u, j>> \in L /\ mem.cell[u][j] = r
        BY <1>2 DEF NoneLost
    <2>2. u \in used /\ Data(mem, type, u)
        BY <1>2, <2>1
    <2>3. r \in HeldBy(mem, type, u)
        BY <1>4, <1>5, <2>1, <2>2
    <2> QED
        BY <2>2, <2>3
<1>9. ASSUME NEW v \in used, NEW w \in used, NEW i \in Places(type), NEW j \in Places(type),
             Holds(v, i) = Holds(w, j), Holds(v, i) # Null
      PROVE  v = w /\ i = j
    <2>1. /\ Holds(v, i) = mem.cell[v][i] /\ mem.cell[v][i] \in HeldBy(mem, type, v)
          /\ Holds(w, j) = mem.cell[w][j] /\ mem.cell[w][j] \in HeldBy(mem, type, w)
        BY <1>9 DEF Holds
    <2>2. /\ v \in Local /\ w \in Local /\ Data(mem, type, v) /\ Data(mem, type, w)
        BY <1>1, <1>4, <2>1
    <2>3. <<v, i>> \in L /\ <<w, j>> \in L /\ mem.cell[v][i] = mem.cell[w][j]
        BY <1>2, <1>9, <2>1, <2>2
    <2>4. mem.cell[v][i] \in mem.alive
        BY <1>7, <2>1
    <2> QED
        BY <1>2, <2>2, <2>3, <2>4 DEF Ordered, NoneTwice
<1>10. AliveIffHeld
    BY <1>7, <1>8, <1>9 DEF AliveIffHeld, used
<1> QED
    BY <1>3, <1>10

(* The functions of an owner meet an instance or what was moved from, and  *)
(* never anything else, however many locals, parts and sentences there     *)
(* are: for all types but a mix, whose assignments take the wrong tag.     *)
THEOREM OwnersMeet == Spec /\ type.kind # "mix" => []OwnersMeetInstances
<1> QED
    BY InvHolds, InvMeans, PTL

(* What is alive is held by one part of one local that is yet to be        *)
(* destroyed, or a whole value was stored over it; nothing else is held.   *)
THEOREM ResourcesAreHeldOnce == Spec /\ type.kind # "mix" => []AliveIffHeld
<1> QED
    BY InvHolds, InvMeans, PTL

LEMMA AlikeMeans ==
    ASSUME Inv, NEW v \in Local, NEW w \in Local, Alike(mem, mem', type, v, w)
    PROVE  /\ mem'.cell[w] = mem.cell[w] /\ mem'.tag[w] = mem.tag[w]
           /\ Shape(mem', v) = Shape(mem, w)
<1> DEFINE t == type
           Of(m, u) == [i \in Places(t) |-> IF m.cell[u][i] > Plain THEN "resource"
                                           ELSE IF m.cell[u][i] = Plain THEN "plain" ELSE "empty"]
<1>1. /\ mem'.cell[w] = mem.cell[w] /\ mem'.tag[w] = mem.tag[w] /\ mem'.tag[v] = mem.tag[w]
      /\ Data(mem, t, w) => \A j \in Places(t) : Class(mem'.cell[v][j]) = Class(mem.cell[w][j])
    BY DEF Alike
<1>2. Tagged(t) => \A tag : HasData(t, tag) <=> tag = 1
    BY TypeFacts DEF Inv, HasData
<1>3. Data(mem, t, w) => Of(mem', v) = Of(mem, w)
    BY <1>1 DEF Class
<1>4. Data(mem, t, w) <=> ~(Tagged(t) /\ ~HasData(t, mem.tag[w]))
    BY <1>2 DEF Data
<1> HIDE DEF Of
<1>5. /\ Shape(mem', v) =
            <<mem'.tag[v], IF Tagged(t) /\ ~HasData(t, mem'.tag[v]) THEN <<>> ELSE Of(mem', v)>>
      /\ Shape(mem, w) =
            <<mem.tag[w], IF Tagged(t) /\ ~HasData(t, mem.tag[w]) THEN <<>> ELSE Of(mem, w)>>
    BY DEF Shape, Of
<1> QED
    BY <1>1, <1>3, <1>4, <1>5

(* A copy is what its source is, part by part, and the source stays as it  *)
(* is.                                                                     *)
THEOREM CopiesAreAlike == Spec /\ type.kind # "mix" => CopiesAreLikeTheirSource
<1> DEFINE Is == \A v, w \in Local :
                    DeclareCopy(v, w) \/ AssignCopy(v, w) =>
                        /\ mem'.cell[w] = mem.cell[w] /\ mem'.tag[w] = mem.tag[w]
                        /\ Shape(mem', v) = Shape(mem, w)
<1>1. Inv /\ [Next]_vars => [Is]_vars
    <2> SUFFICES ASSUME Inv, NEW v \in Local, NEW w \in Local, DeclareCopy(v, w) \/ AssignCopy(v, w)
                 PROVE  /\ mem'.cell[w] = mem.cell[w] /\ mem'.tag[w] = mem.tag[w]
                        /\ Shape(mem', v) = Shape(mem, w)
        OBVIOUS
    <2>1. Alike(mem, mem', type, v, w)
        BY CopySentences
    <2> QED
        BY <2>1, AlikeMeans
<1> QED
    BY <1>1, InvHolds, PTL DEF Spec, CopiesAreLikeTheirSource
================================================================================

------------------------- MODULE NameResolution_proofs -------------------------
(***************************************************************************)
(* Proofs about NameResolution, for every finite set of modules and every  *)
(* set of programs.                                                        *)
(***************************************************************************)
EXTENDS NameResolution, SequenceTheorems, FiniteSetTheorems, WellFoundedInduction,
        TLAPS

-----------------------------------------------------------------------------
(* Facts about sequences, sets of numbers and functions that are recursive *)
(* by a rank, which the proofs below need.                                 *)

(* A sequence, of whatever.                                                *)
IsSeq(s) == s \in Seq(ToSet(s))

(* Length and domain of a sequence.                                        *)
LEMMA SeqFacts ==
    ASSUME NEW s, IsSeq(s)
    PROVE  /\ Len(s) \in Nat
           /\ DOMAIN s = 1 .. Len(s)
           /\ s = <<>> <=> Len(s) = 0
    BY LenProperties, EmptySeq DEF IsSeq

(* The empty sequence is one.                                              *)
LEMMA EmptyIsSeq == IsSeq(<<>>) /\ Len(<<>>) = 0
    BY DEF IsSeq

(* So is every sequence over a set.                                        *)
LEMMA SeqOfIsSeq ==
    ASSUME NEW S, NEW s \in Seq(S)
    PROVE  IsSeq(s)
<1>1. /\ Len(s) \in Nat /\ DOMAIN s = 1 .. Len(s) /\ s \in [1 .. Len(s) -> S]
    BY LenProperties
<1>2. s \in [1 .. Len(s) -> ToSet(s)]
    BY <1>1 DEF ToSet
<1> QED
    BY <1>1, <1>2 DEF IsSeq

(* The elements of a sequence over a set are of that set.                  *)
LEMMA ElementsOfSeq ==
    ASSUME NEW S, NEW s \in Seq(S)
    PROVE  \A x \in ToSet(s) : x \in S
<1>1. DOMAIN s = 1 .. Len(s) /\ s \in [1 .. Len(s) -> S]
    BY LenProperties
<1>2. \A i \in DOMAIN s : s[i] \in S
    BY <1>1
<1> QED
    BY <1>2 DEF ToSet

(* A function on the first numbers is a sequence.                          *)
LEMMA FunctionIsSeq ==
    ASSUME NEW n \in Nat, NEW S, NEW s \in [1 .. n -> S]
    PROVE  IsSeq(s) /\ Len(s) = n
<1>1. s \in Seq(S) /\ Len(s) = n
    OBVIOUS
<1> QED
    BY <1>1, SeqOfIsSeq

(* What Append gives, whatever the elements are.                           *)
LEMMA AppendAny ==
    ASSUME NEW s, IsSeq(s), NEW e
    PROVE  /\ IsSeq(Append(s, e))
           /\ Len(Append(s, e)) = Len(s) + 1
           /\ DOMAIN Append(s, e) = 1 .. Len(s) + 1
           /\ \A i \in 1 .. Len(s) : Append(s, e)[i] = s[i]
           /\ Append(s, e)[Len(s) + 1] = e
<1> DEFINE S == ToSet(s) \cup {e}
<1>1. s \in Seq(S)
    BY SeqMonotonic DEF IsSeq
<1>2. e \in S
    OBVIOUS
<1> HIDE DEF S
<1>3. /\ Append(s, e) \in Seq(S)
      /\ Len(Append(s, e)) = Len(s) + 1
      /\ \A i \in 1 .. Len(s) : Append(s, e)[i] = s[i]
      /\ Append(s, e)[Len(s) + 1] = e
    BY <1>1, <1>2, AppendProperties
<1>4. DOMAIN Append(s, e) = 1 .. Len(s) + 1
    BY <1>3, LenProperties
<1>5. IsSeq(Append(s, e))
    BY <1>3, SeqOfIsSeq
<1> QED
    BY <1>3, <1>4, <1>5

(* What Append adds to the elements.                                       *)
LEMMA AppendAdds ==
    ASSUME NEW s, IsSeq(s), NEW x
    PROVE  ToSet(Append(s, x)) = ToSet(s) \cup {x}
<1>1. /\ DOMAIN Append(s, x) = 1 .. Len(s) + 1 /\ Append(s, x)[Len(s) + 1] = x
      /\ \A i \in 1 .. Len(s) : Append(s, x)[i] = s[i]
      /\ Len(s) \in Nat /\ DOMAIN s = 1 .. Len(s)
    BY AppendAny, SeqFacts
<1>2. \A i \in 1 .. Len(s) + 1 : i \in 1 .. Len(s) \/ i = Len(s) + 1
    BY <1>1
<1>3. Len(s) + 1 \in 1 .. Len(s) + 1 /\ 1 .. Len(s) \subseteq 1 .. Len(s) + 1
    BY <1>1
<1> QED
    BY <1>1, <1>2, <1>3 DEF ToSet

(* A set of numbers that is not empty has a least one.                     *)
LEMMA LeastNumber ==
    ASSUME NEW I, I \subseteq Nat, I # {}
    PROVE  \E x \in I : \A y \in I : x <= y
<1> DEFINE R == OpToRel(<, Nat)
<1>1. IsWellFoundedOn(R, Nat)
    BY NatLessThanWellFounded
<1>2. ASSUME NEW x \in I, NEW y \in I, y < x
      PROVE  <<y, x>> \in R
    <2>1. <<y, x>> \in Nat \X Nat /\ <<y, x>>[1] = y /\ <<y, x>>[2] = x
        OBVIOUS
    <2> QED
        BY <1>2, <2>1, Zenon DEF OpToRel
<1> HIDE DEF R
<1>3. PICK x \in I : \A y \in I : ~(<<y, x>> \in R)
    BY <1>1, WFMin
<1>4. \A y \in I : ~(y < x)
    BY <1>2, <1>3, Zenon
<1> QED
    BY <1>3, <1>4

(* Min of a set of numbers is the least of them.                          *)
LEMMA MinIsMember ==
    ASSUME NEW I, I \subseteq Nat, I # {}
    PROVE  Min(I) \in I /\ \A y \in I : Min(I) =< y
<1>1. PICK x \in I : \A y \in I : x <= y
    BY LeastNumber
<1> QED
    BY <1>1 DEF Min

(* A function whose value at each member c of D is G[c] of its values at   *)
(* members of a lower rank.                                                *)
IsRecursiveOn(D, V, G) == \E f \in [D -> V] : \A c \in D : f[c] = G[c][f]

LooksLower(D, rank, V, G) ==
    /\ G \in [D -> [[D -> V] -> V]]
    /\ \A c \in D : \A f, g \in [D -> V] :
          (\A d \in D : rank[d] < rank[c] => f[d] = g[d]) => G[c][f] = G[c][g]

(* It exists: those right for the members of the lowest ranks are          *)
(* corrected rank by rank.                                                 *)
LEMMA RecursionByRank ==
    ASSUME NEW D, NEW n \in Nat, NEW rank \in [D -> 0 .. n], NEW V, V # {}, NEW G,
           LooksLower(D, rank, V, G)
    PROVE  IsRecursiveOn(D, V, G)
<1> USE DEF LooksLower, IsRecursiveOn
<1> DEFINE Good(m) == \E f \in [D -> V] : \A c \in D : rank[c] < m => f[c] = G[c][f]
           Bad == {m \in Nat : m <= n + 1 /\ ~Good(m)}
<1>1. Good(0)
    <2>1. PICK v \in V : TRUE
        OBVIOUS
    <2>2. [c \in D |-> v] \in [D -> V]
        OBVIOUS
    <2>3. \A c \in D : ~(rank[c] < 0)
        OBVIOUS
    <2> QED
        BY <2>2, <2>3
<1>2. ASSUME NEW m \in Nat, m <= n, Good(m)
      PROVE  Good(m + 1)
    <2>1. PICK f \in [D -> V] : \A c \in D : rank[c] < m => f[c] = G[c][f]
        BY <1>2
    <2>2. PICK g : g = [c \in D |-> IF rank[c] = m THEN G[c][f] ELSE f[c]]
        OBVIOUS
    <2>3. /\ g \in [D -> V]
          /\ \A c \in D : (rank[c] = m => g[c] = G[c][f]) /\ (rank[c] # m => g[c] = f[c])
        BY <2>1, <2>2
    <2>4. ASSUME NEW c \in D, rank[c] < m + 1
          PROVE  g[c] = G[c][g]
        <3>1. PICK r \in Nat : r = rank[c]
            OBVIOUS
        <3>2. r < m + 1
            BY <2>4, <3>1
        <3>3. r < m \/ r = m
            BY <3>2
        <3>4. rank[c] < m \/ rank[c] = m
            BY <3>1, <3>3
        <3>5. \A d \in D : rank[d] < rank[c] => f[d] = g[d]
            BY <2>3, <3>4
        <3>6. G[c][f] = G[c][g]
            BY <2>1, <2>3, <3>5
        <3> QED
            BY <2>1, <2>3, <3>4, <3>6
    <2> QED
        BY <2>3, <2>4
<1> HIDE DEF Good
<1>3. Bad = {}
    <2> SUFFICES ASSUME Bad # {} PROVE FALSE
        OBVIOUS
    <2>1. PICK m \in Bad : \A y \in Bad : m <= y
        BY LeastNumber
    <2>2. m \in Nat /\ m <= n + 1 /\ ~Good(m) /\ m # 0
        BY <1>1, <2>1
    <2>3. m - 1 \in Nat /\ m - 1 <= n /\ m - 1 \notin Bad /\ (m - 1) + 1 = m
        BY <2>1, <2>2
    <2>4. Good(m - 1)
        BY <2>2, <2>3
    <2>5. Good((m - 1) + 1)
        BY <1>2, <2>3, <2>4
    <2> QED
        BY <2>2, <2>3, <2>5
<1>4. n + 1 \in Nat /\ n + 1 <= n + 1
    OBVIOUS
<1>5. Good(n + 1)
    BY <1>3, <1>4
<1>6. \A c \in D : rank[c] < n + 1
    OBVIOUS
<1> QED
    BY <1>5, <1>6 DEF Good

(* In particular on the numbers up to n, by smaller or by larger ones.     *)
IsRecursive(n, V, G) == \E f \in [0 .. n -> V] : \A c \in 0 .. n : f[c] = G[c][f]

LooksUp(n, V, G) ==
    /\ G \in [0 .. n -> [[0 .. n -> V] -> V]]
    /\ \A c \in 0 .. n : \A f, g \in [0 .. n -> V] :
          (\A d \in 0 .. n : d < c => f[d] = g[d]) => G[c][f] = G[c][g]

LEMMA RecursionUp ==
    ASSUME NEW n \in Nat, NEW V, V # {}, NEW G, LooksUp(n, V, G)
    PROVE  IsRecursive(n, V, G)
<1>1. PICK rank \in [0 .. n -> 0 .. n] : \A c \in 0 .. n : rank[c] = c
    <2>1. [c \in 0 .. n |-> c] \in [0 .. n -> 0 .. n]
        OBVIOUS
    <2> QED
        BY <2>1
<1>2. \A c, d \in 0 .. n : d < c <=> rank[d] < rank[c]
    BY <1>1
<1>3. LooksLower(0 .. n, rank, V, G)
    BY <1>2 DEF LooksUp, LooksLower
<1>4. IsRecursiveOn(0 .. n, V, G)
    BY <1>3, RecursionByRank
<1> QED
    BY <1>4 DEF IsRecursive, IsRecursiveOn

-----------------------------------------------------------------------------
(* What is left to be called.                                              *)
LEMMA LeftToCall ==
    ASSUME NEW C, IsFiniteSet(C), NEW p \in SUBSET C
    PROVE  /\ Cardinality(C \ p) \in Nat /\ Cardinality(C \ p) <= Cardinality(C)
           /\ \A c \in C \ p : /\ p \cup {c} \in SUBSET C
                             /\ Cardinality(C \ (p \cup {c})) = Cardinality(C \ p) - 1
<1>1. PICK T : T = C \ p
    OBVIOUS
<1>2. IsFiniteSet(T) /\ Cardinality(T) \in Nat /\ Cardinality(T) <= Cardinality(C)
    BY <1>1, FS_Subset, FS_CardinalityType
<1>3. ASSUME NEW c \in T
      PROVE  p \cup {c} \in SUBSET C /\ Cardinality(C \ (p \cup {c})) = Cardinality(T) - 1
    <2>1. C \ (p \cup {c}) = T \ {c} /\ p \cup {c} \in SUBSET C
        BY <1>1, <1>3
    <2>2. Cardinality(T \ {c}) = IF c \in T THEN Cardinality(T) - 1 ELSE Cardinality(T)
        BY <1>2, FS_RemoveElement
    <2> QED
        BY <1>3, <2>1, <2>2
<1> QED
    BY <1>1, <1>2, <1>3

(* The sets of calls that may be open, from those to which nothing can be  *)
(* added: what is so for a set when it is for those with one call more.    *)
LEMMA FromAllOpen ==
    ASSUME NEW C, IsFiniteSet(C), NEW G,
           \A p \in SUBSET C : (\A c \in C \ p : p \cup {c} \in G) => p \in G
    PROVE  \A p \in SUBSET C : p \in G
<1> DEFINE Sizes == {k \in Nat : \E p \in SUBSET C : p \notin G /\ k = Cardinality(C \ p)}
<1> SUFFICES ASSUME NEW q \in SUBSET C, q \notin G
             PROVE  FALSE
    OBVIOUS
<1>1. \A p \in SUBSET C : Cardinality(C \ p) \in Nat
    BY LeftToCall
<1>2. Sizes \subseteq Nat /\ Sizes # {}
    BY <1>1
<1>3. PICK k \in Sizes : \A j \in Sizes : k <= j
    BY <1>2, LeastNumber
<1>4. PICK p \in SUBSET C : p \notin G /\ k = Cardinality(C \ p)
    BY <1>3
<1>5. ASSUME NEW c \in C \ p
      PROVE  p \cup {c} \in G
    <2>1. PICK r : r = p \cup {c}
        OBVIOUS
    <2>2. r \in SUBSET C /\ Cardinality(C \ r) = k - 1
        BY <1>4, <1>5, <2>1, LeftToCall
    <2>3. k - 1 \in Nat /\ k \in Nat
        <3>1. k \in Nat
            BY <1>2, <1>3
        <3>2. PICK m : m = Cardinality(C \ r) /\ m = k - 1
            BY <2>2
        <3>3. m \in Nat
            BY ONLY <1>1, <2>2, <3>2
        <3> QED
            BY <3>1, <3>2, <3>3
    <2>4. ~(k <= k - 1)
        BY <2>3
    <2>5. k - 1 \notin Sizes
        BY ONLY <1>3, <2>4
    <2> QED
        BY <2>1, <2>2, <2>3, <2>5
<1> QED
    BY <1>4, <1>5

(* The answers of calls that answer by R, a function of the answers of     *)
(* others.                                                                 *)
AnsweredBy(C, overflow, R, f) ==
    \A p \in SUBSET C : f[p] = [c \in C |-> IF c \in p THEN overflow ELSE R[c][f[p \cup {c}]]]
AreAnswered(C, V, overflow, R) ==
    \E f \in [SUBSET C -> [C -> V]] : AnsweredBy(C, overflow, R, f)

LEMMA CallsAreAnswered ==
    ASSUME NEW C, IsFiniteSet(C), NEW V, NEW overflow \in V, NEW R \in [C -> [[C -> V] -> V]]
    PROVE  AreAnswered(C, V, overflow, R)
<1>1. PICK n \in Nat : n = Cardinality(C)
    BY FS_CardinalityType
<1>2. PICK rank : rank = [p \in SUBSET C |-> Cardinality(C \ p)]
    OBVIOUS
<1>3. ASSUME NEW p \in SUBSET C
      PROVE  /\ rank[p] \in 0 .. n
             /\ \A c \in C \ p : rank[p \cup {c}] < rank[p]
    <2>1. /\ Cardinality(C \ p) \in Nat /\ Cardinality(C \ p) <= n
          /\ \A c \in C \ p : /\ p \cup {c} \in SUBSET C
                            /\ Cardinality(C \ (p \cup {c})) = Cardinality(C \ p) - 1
        BY <1>1, LeftToCall
    <2>2. /\ rank[p] = Cardinality(C \ p)
          /\ \A c \in C \ p : rank[p \cup {c}] = Cardinality(C \ p) - 1
        BY <1>2, <2>1
    <2>3. PICK k \in Nat : k = Cardinality(C \ p) /\ k <= n
        BY <2>1
    <2>4. k \in 0 .. n /\ k - 1 < k
        BY <2>3
    <2> QED
        BY <2>2, <2>3, <2>4
<1>4. PICK W : W = [C -> V]
    OBVIOUS
<1>5. PICK D : D = SUBSET C
    OBVIOUS
<1>6. rank \in [D -> 0 .. n]
    BY <1>2, <1>3, <1>5
<1>7. W # {}
    <2>1. [c \in C |-> overflow] \in W
        BY <1>4
    <2> QED
        BY <2>1
<1>8. PICK G : G = [p \in D |-> [f \in [D -> W] |->
                        [c \in C |-> IF c \in p THEN overflow ELSE R[c][f[p \cup {c}]]]]]
    OBVIOUS
<1>9. \A p \in D : \A f \in [D -> W] :
          G[p][f] = [c \in C |-> IF c \in p THEN overflow ELSE R[c][f[p \cup {c}]]]
    BY <1>8
<1>10. ASSUME NEW p \in D, NEW f \in [D -> W]
       PROVE  G[p][f] \in W
    <2>1. \A c \in C : p \cup {c} \in D
        BY <1>5
    <2>2. \A c \in C : f[p \cup {c}] \in [C -> V]
        BY <1>4, <2>1
    <2>3. \A c \in C : R[c][f[p \cup {c}]] \in V
        BY <2>2
    <2>4. [c \in C |-> IF c \in p THEN overflow ELSE R[c][f[p \cup {c}]]] \in [C -> V]
        BY <2>3
    <2> QED
        BY <1>4, <1>9, <2>4
<1>11. G \in [D -> [[D -> W] -> W]]
    <2>1. \A p \in D : G[p] \in [[D -> W] -> W]
        BY <1>8, <1>10
    <2> QED
        BY <1>8, <2>1
<1>12. ASSUME NEW p \in D, NEW f \in [D -> W], NEW g \in [D -> W],
              \A q \in D : rank[q] < rank[p] => f[q] = g[q]
       PROVE  G[p][f] = G[p][g]
    <2>1. \A c \in C : c \notin p => f[p \cup {c}] = g[p \cup {c}]
        BY <1>3, <1>5, <1>12
    <2>2. [c \in C |-> IF c \in p THEN overflow ELSE R[c][f[p \cup {c}]]]
             = [c \in C |-> IF c \in p THEN overflow ELSE R[c][g[p \cup {c}]]]
        BY <2>1
    <2>3. G[p][f] = [c \in C |-> IF c \in p THEN overflow ELSE R[c][f[p \cup {c}]]]
        BY <1>9
    <2>4. G[p][g] = [c \in C |-> IF c \in p THEN overflow ELSE R[c][g[p \cup {c}]]]
        BY <1>9
    <2> QED
        BY <2>2, <2>3, <2>4
<1>13. LooksLower(D, rank, W, G)
    BY <1>11, <1>12 DEF LooksLower
<1>14. IsRecursiveOn(D, W, G)
    BY <1>6, <1>7, <1>13, RecursionByRank
<1>15. PICK f \in [D -> W] : \A p \in D : f[p] = G[p][f]
    BY <1>14 DEF IsRecursiveOn
<1>16. AnsweredBy(C, overflow, R, f)
    <2>1. ASSUME NEW p \in SUBSET C
          PROVE  f[p] = [c \in C |-> IF c \in p THEN overflow ELSE R[c][f[p \cup {c}]]]
        <3>1. p \in D /\ f[p] = G[p][f]
            BY <1>5, <1>15
        <3> QED
            BY <1>9, <3>1
    <2> QED
        BY <2>1 DEF AnsweredBy
<1> QED
    BY <1>4, <1>5, <1>15, <1>16 DEF AreAnswered

(* What is computed in this way, whatever it may be, is of that type.      *)
WhenTyped(C, V, overflow, R, a) ==
    \A p \in SUBSET C :
        (\A c \in C \ p : a[p \cup {c}] \in [C -> V])
        => a[p] = [c \in C |-> IF c \in p THEN overflow ELSE R[c][a[p \cup {c}]]]

LEMMA AnswersAreTyped ==
    ASSUME NEW C, IsFiniteSet(C), NEW V, NEW overflow \in V, NEW R \in [C -> [[C -> V] -> V]],
           NEW a, WhenTyped(C, V, overflow, R, a)
    PROVE  \A p \in SUBSET C : a[p] \in [C -> V]
<1>1. PICK G : G = {p \in SUBSET C : a[p] \in [C -> V]}
    OBVIOUS
<1>2. ASSUME NEW p \in SUBSET C, \A c \in C \ p : p \cup {c} \in G
      PROVE  p \in G
    <2>1. \A c \in C \ p : a[p \cup {c}] \in [C -> V]
        BY <1>1, <1>2
    <2>2. a[p] = [c \in C |-> IF c \in p THEN overflow ELSE R[c][a[p \cup {c}]]]
        BY <2>1 DEF WhenTyped
    <2>3. \A c \in C \ p : R[c][a[p \cup {c}]] \in V
        <3>1. TAKE c \in C \ p
        <3>2. a[p \cup {c}] \in [C -> V] /\ R[c] \in [[C -> V] -> V]
            BY <2>1
        <3> QED
            BY <3>2
    <2>5. \A c \in C : (IF c \in p THEN overflow ELSE R[c][a[p \cup {c}]]) \in V
        BY <2>3
    <2>4. a[p] \in [C -> V]
        BY <2>2, <2>5
    <2> QED
        BY <1>1, <2>4
<1>3. \A p \in SUBSET C : p \in G
    BY <1>2, FromAllOpen
<1> QED
    BY <1>1, <1>3

-----------------------------------------------------------------------------
(* The first answer that is not none, if there is one.                     *)
LEMMA FirstOfIs ==
    ASSUME NEW n \in Nat, NEW a, DOMAIN a = 1 .. n, a = [i \in 1 .. n |-> a[i]]
    PROVE  \/ FirstOf(a) = None /\ \A i \in 1 .. n : a[i].is = "none"
           \/ \E i \in 1 .. n : FirstOf(a) = a[i] /\ a[i].is # "none"
<1>1. PICK S : S = {a[i] : i \in 1 .. n}
    OBVIOUS
<1>2. a \in [1 .. n -> S]
    BY <1>1
<1>3. Len(a) = n
    BY <1>2, FunctionIsSeq
<1>4. PICK I : I = {i \in 1 .. n : a[i].is # "none"}
    OBVIOUS
<1>5. FirstOf(a) = IF (IF I # {} THEN Min(I) ELSE 0) = 0 THEN None
                   ELSE a[IF I # {} THEN Min(I) ELSE 0]
    BY <1>3, <1>4 DEF FirstOf, SelectInSeq
<1>6. CASE I = {}
    BY <1>4, <1>5, <1>6
<1>7. CASE I # {}
    <2>1. I \subseteq Nat
        BY <1>4
    <2>2. Min(I) \in I
        BY <1>7, <2>1, MinIsMember
    <2>3. Min(I) \in 1 .. n /\ Min(I) # 0 /\ a[Min(I)].is # "none"
        BY <1>4, <2>2
    <2> QED
        BY <1>5, <1>7, <2>3
<1> QED
    BY <1>6, <1>7

(* The names of a state, as far as the lookups care.                       *)
NamesTyped ==
    \A m \in Mod :
        /\ IsSeq(SubmodulesOf(m)) /\ ToSet(SubmodulesOf(m)) \subseteq Mod
        /\ IsSeq(broughtModules[m]) /\ \A b \in ToSet(broughtModules[m]) : b.mod \in Mod
        /\ IsSeq(defined[m]) /\ IsSeq(broughtEntities[m])

(* The loops over the unnamed submodules and imports give an answer of one *)
(* of these, or all of these answer none.                                  *)
OfSubmodules(m, f, answer) == InUnnamedSubmodules(m, LAMBDA x : answer[<<f, x>>])
OfImports(m, f, answer)    == InUnnamedImports(m, LAMBDA x : answer[<<f, x>>])

AnswerOfOne(a, f, S, answer) ==
    \/ a = None /\ \A x \in S : answer[<<f, x>>].is = "none"
    \/ \E x \in S : a = answer[<<f, x>>] /\ a.is # "none"

LEMMA SubmodulesAnswer ==
    ASSUME NamesTyped, NEW m \in Mod, NEW f, NEW answer
    PROVE  AnswerOfOne(OfSubmodules(m, f, answer), f, UnnamedSubmodules(m), answer)
<1>1. PICK s : s = SubmodulesOf(m) /\ IsSeq(s)
    BY DEF NamesTyped
<1>2. PICK n \in Nat : DOMAIN s = 1 .. n
    BY <1>1, SeqFacts
<1>3. PICK a : a = [i \in 1 .. n |-> IF IsLib(s[i]) THEN None ELSE answer[<<f, s[i]>>]]
    OBVIOUS
<1>4. OfSubmodules(m, f, answer) = FirstOf(a)
    BY <1>1, <1>2, <1>3 DEF OfSubmodules, InUnnamedSubmodules, FirstAnswer
<1>5. \A i \in 1 .. n : s[i] \in UnnamedSubmodules(m) <=> ~IsLib(s[i])
    BY <1>1, <1>2 DEF UnnamedSubmodules, ToSet
<1>6. \A x \in UnnamedSubmodules(m) : \E i \in 1 .. n : x = s[i] /\ ~IsLib(s[i])
    BY <1>1, <1>2 DEF UnnamedSubmodules, ToSet
<1>7. \/ FirstOf(a) = None /\ \A i \in 1 .. n : a[i].is = "none"
      \/ \E i \in 1 .. n : FirstOf(a) = a[i] /\ a[i].is # "none"
    BY <1>3, FirstOfIs
<1>8. None.is = "none"
    BY DEF None, Answer
<1>9. \A i \in 1 .. n : a[i] = IF IsLib(s[i]) THEN None ELSE answer[<<f, s[i]>>]
    BY <1>3
<1>10. CASE FirstOf(a) = None /\ \A i \in 1 .. n : a[i].is = "none"
    <2>1. \A x \in UnnamedSubmodules(m) : answer[<<f, x>>].is = "none"
        BY <1>6, <1>9, <1>10
    <2> QED
        BY <1>4, <1>10, <2>1 DEF AnswerOfOne
<1>11. CASE \E i \in 1 .. n : FirstOf(a) = a[i] /\ a[i].is # "none"
    <2>1. PICK i \in 1 .. n : FirstOf(a) = a[i] /\ a[i].is # "none"
        BY <1>11
    <2>2. ~IsLib(s[i]) /\ a[i] = answer[<<f, s[i]>>] /\ s[i] \in UnnamedSubmodules(m)
        BY <1>5, <1>8, <1>9, <2>1
    <2> QED
        BY <1>4, <2>1, <2>2 DEF AnswerOfOne
<1> QED
    BY <1>7, <1>10, <1>11

LEMMA ImportsAnswer ==
    ASSUME NamesTyped, NEW m \in Mod, NEW f, NEW answer
    PROVE  AnswerOfOne(OfImports(m, f, answer), f, UnnamedImports(m), answer)
<1>1. PICK s : s = broughtModules[m] /\ IsSeq(s)
    BY DEF NamesTyped
<1>2. PICK n \in Nat : DOMAIN s = 1 .. n
    BY <1>1, SeqFacts
<1>3. PICK a : a = [i \in 1 .. n |->
                       IF IsUnnamedImport(s[i]) THEN answer[<<f, s[i].mod>>] ELSE None]
    OBVIOUS
<1>4. OfImports(m, f, answer) = FirstOf(a)
    BY <1>1, <1>2, <1>3 DEF OfImports, InUnnamedImports, FirstAnswer
<1>5. \A i \in 1 .. n : IsUnnamedImport(s[i]) => s[i].mod \in UnnamedImports(m)
    BY <1>1, <1>2 DEF UnnamedImports, ToSet
<1>6. \A x \in UnnamedImports(m) : \E i \in 1 .. n : x = s[i].mod /\ IsUnnamedImport(s[i])
    BY <1>1, <1>2 DEF UnnamedImports, ToSet
<1>7. \/ FirstOf(a) = None /\ \A i \in 1 .. n : a[i].is = "none"
      \/ \E i \in 1 .. n : FirstOf(a) = a[i] /\ a[i].is # "none"
    <2>1. DOMAIN a = 1 .. n /\ a = [i \in 1 .. n |-> a[i]]
        BY <1>3
    <2> QED
        BY ONLY <1>2, <2>1, FirstOfIs
<1>8. None.is = "none"
    BY DEF None, Answer
<1>9. \A i \in 1 .. n : a[i] = IF IsUnnamedImport(s[i]) THEN answer[<<f, s[i].mod>>] ELSE None
    BY <1>3
<1>10. CASE FirstOf(a) = None /\ \A i \in 1 .. n : a[i].is = "none"
    <2>1. \A x \in UnnamedImports(m) : answer[<<f, x>>].is = "none"
        BY <1>6, <1>9, <1>10
    <2> QED
        BY <1>4, <1>10, <2>1 DEF AnswerOfOne
<1>11. CASE \E i \in 1 .. n : FirstOf(a) = a[i] /\ a[i].is # "none"
    <2>1. PICK i \in 1 .. n : FirstOf(a) = a[i] /\ a[i].is # "none"
        BY <1>11
    <2>2. /\ IsUnnamedImport(s[i]) /\ a[i] = answer[<<f, s[i].mod>>]
          /\ s[i].mod \in UnnamedImports(m)
        BY <1>5, <1>8, <1>9, <2>1
    <2> QED
        BY <1>4, <2>1, <2>2 DEF AnswerOfOne
<1> QED
    BY <1>7, <1>10, <1>11

-----------------------------------------------------------------------------
(* The entities of a module itself under a name, and those brought into    *)
(* it; the lookups answer with one of them, or with none.                  *)
OwnSet(k, m, n, who) ==
    {e \in ToSet(defined[m]) : e.kind = k /\ e.name = n /\ is_accessible(e.visibility, who)}
BroughtSet(k, m, n, who) ==
    {b.entity : b \in {b \in ToSet(broughtEntities[m]) :
        b.entity.kind = k /\ matchBroughtEntity(b, n, who)}}

OneOf(a, S) == (a = None /\ S = {}) \/ \E e \in S : a = Found(e)

LEMMA OwnAnswer ==
    ASSUME NamesTyped, NEW m \in Mod, NEW k, NEW n, NEW who
    PROVE  OneOf(OwnEntity(k, m, n, who), OwnSet(k, m, n, who))
<1>1. PICK s : s = defined[m] /\ IsSeq(s)
    BY DEF NamesTyped
<1>2. PICK j \in Nat : DOMAIN s = 1 .. j
    BY <1>1, SeqFacts
<1>3. PICK T : T = OwnSet(k, m, n, who)
    OBVIOUS
<1>4. \A i \in 1 .. j : s[i] \in T <=>
          s[i].kind = k /\ s[i].name = n /\ is_accessible(s[i].visibility, who)
    BY <1>1, <1>2, <1>3 DEF OwnSet, ToSet
<1>5. \A e \in T : \E i \in 1 .. j : e = s[i]
    BY <1>1, <1>2, <1>3 DEF OwnSet, ToSet
<1>6. PICK a : a = [i \in 1 .. j |->
              IF s[i].kind = k /\ s[i].name = n /\ is_accessible(s[i].visibility, who)
              THEN Found(s[i]) ELSE None]
    OBVIOUS
<1>7. OwnEntity(k, m, n, who) = FirstOf(a)
    BY <1>1, <1>2, <1>6 DEF OwnEntity, FirstAnswer
<1>8. \A i \in 1 .. j : a[i] = IF s[i] \in T THEN Found(s[i]) ELSE None
    BY <1>4, <1>6
<1>9. \/ FirstOf(a) = None /\ \A i \in 1 .. j : a[i].is = "none"
      \/ \E i \in 1 .. j : FirstOf(a) = a[i] /\ a[i].is # "none"
    <2>1. DOMAIN a = 1 .. j /\ a = [i \in 1 .. j |-> a[i]]
        BY <1>6
    <2> QED
        BY ONLY <1>2, <2>1, FirstOfIs
<1>10. None.is = "none" /\ \A x : Found(x).is = "found"
    BY DEF None, Answer, Found
<1>11. OneOf(FirstOf(a), T)
    BY <1>5, <1>8, <1>9, <1>10 DEF OneOf
<1> QED
    BY <1>3, <1>7, <1>11

LEMMA BroughtAnswer ==
    ASSUME NamesTyped, NEW m \in Mod, NEW k, NEW n, NEW who
    PROVE  OneOf(has_brought(k, m, n, who), BroughtSet(k, m, n, who))
<1>1. PICK s : s = broughtEntities[m] /\ IsSeq(s)
    BY DEF NamesTyped
<1>2. PICK j \in Nat : DOMAIN s = 1 .. j
    BY <1>1, SeqFacts
<1>3. PICK T : T = BroughtSet(k, m, n, who)
    OBVIOUS
<1>4. \A i \in 1 .. j :
          s[i].entity.kind = k /\ matchBroughtEntity(s[i], n, who) => s[i].entity \in T
    BY <1>1, <1>2, <1>3 DEF BroughtSet, ToSet
<1>5. \A e \in T : \E i \in 1 .. j :
          e = s[i].entity /\ s[i].entity.kind = k /\ matchBroughtEntity(s[i], n, who)
    BY <1>1, <1>2, <1>3 DEF BroughtSet, ToSet
<1>6. PICK a : a = [i \in 1 .. j |->
              IF s[i].entity.kind = k /\ matchBroughtEntity(s[i], n, who)
              THEN Found(s[i].entity) ELSE None]
    OBVIOUS
<1>7. has_brought(k, m, n, who) = FirstOf(a)
    BY <1>1, <1>2, <1>6 DEF has_brought, FirstAnswer
<1>8. \A i \in 1 .. j : a[i] = IF s[i].entity.kind = k /\ matchBroughtEntity(s[i], n, who)
                              THEN Found(s[i].entity) ELSE None
    BY <1>6
<1>9. \/ FirstOf(a) = None /\ \A i \in 1 .. j : a[i].is = "none"
      \/ \E i \in 1 .. j : FirstOf(a) = a[i] /\ a[i].is # "none"
    BY <1>6, FirstOfIs
<1>10. None.is = "none" /\ \A x : Found(x).is = "found"
    BY DEF None, Answer, Found
<1>11. OneOf(FirstOf(a), T)
    BY <1>4, <1>5, <1>8, <1>9, <1>10 DEF OneOf
<1> QED
    BY <1>3, <1>7, <1>11

(* What is under a name: what the module has itself, and what is under it  *)
(* in the modules it links to.                                             *)
LEMMA SpanFacts ==
    ASSUME NamesTyped, NEW m \in Mod
    PROVE  /\ Links(m) \subseteq Mod
           /\ m \in Span(m) /\ Span(m) \subseteq Mod
           /\ \A x \in Links(m) : Span(x) \subseteq Span(m)
           /\ \A x \in Span(m) : x = m \/ \E y \in Links(m) : x \in Span(y)
<1>1. \A x \in Mod : Links(x) \subseteq Mod
    BY DEF NamesTyped, Links, UnnamedSubmodules, UnnamedImports
<1>2. \A x \in Mod : x \in Span(x) /\ Span(x) \subseteq Mod
    BY DEF Span
<1>3. ASSUME NEW x \in Mod, NEW y \in Span(x)
      PROVE  Links(y) \subseteq Span(x)
    BY <1>1, <1>3 DEF Span
<1>4. ASSUME NEW x \in Mod, NEW y \in Span(x)
      PROVE  Span(y) \subseteq Span(x)
    <2>1. PICK S : S = Span(x)
        OBVIOUS
    <2>2. S \in SUBSET Mod /\ y \in S /\ \A z \in S : Links(z) \subseteq S
        BY <1>2, <1>3, <1>4, <2>1
    <2>3. \A z \in Span(y) : z \in S
        BY <2>2 DEF Span
    <2> QED
        BY <2>1, <2>3
<1>5. PICK T : T = {m} \cup UNION {Span(y) : y \in Links(m)}
    OBVIOUS
<1>6. T \in SUBSET Mod /\ m \in T
    BY <1>1, <1>2, <1>5
<1>7. ASSUME NEW z \in T
      PROVE  Links(z) \subseteq T
    <2>1. CASE z = m
        BY <1>1, <1>2, <1>5, <2>1
    <2>2. CASE \E y \in Links(m) : z \in Span(y)
        BY <1>1, <1>3, <1>5, <2>2
    <2> QED
        BY <1>5, <1>7, <2>1, <2>2
<1>8. Span(m) \subseteq T
    BY <1>6, <1>7 DEF Span
<1> QED
    BY <1>1, <1>2, <1>3, <1>4, <1>5, <1>8

LEMMA CandidatesFacts ==
    ASSUME NamesTyped, NEW k, NEW m \in Mod, NEW n, NEW who
    PROVE  /\ OwnSet(k, m, n, who) \subseteq Candidates(k, m, n, who)
           /\ BroughtSet(k, m, n, who) \subseteq Candidates(k, m, n, who)
           /\ \A y \in Links(m) : Candidates(k, y, n, who) \subseteq Candidates(k, m, n, who)
           /\ \A e \in Candidates(k, m, n, who) :
                 /\ e.kind = k /\ is_accessible(e.visibility, who)
                 /\ \/ e \in OwnSet(k, m, n, who) \/ e \in BroughtSet(k, m, n, who)
                    \/ \E y \in Links(m) : e \in Candidates(k, y, n, who)
<1> DEFINE At(x) == OwnSet(k, x, n, who) \cup BroughtSet(k, x, n, who)
<1>1. \A x : BroughtSet(k, x, n, who) =
          {b.entity : b \in {b \in ToSet(broughtEntities[x]) :
                /\ b.entity.kind = k
                /\ n = IF b.name = NoName THEN b.entity.name ELSE b.name
                /\ is_accessible(b.visibility, who)
                /\ is_accessible(b.entity.visibility, who)}}
    BY DEF BroughtSet, matchBroughtEntity
<1>2. \A x, e : e \in At(x) => e.kind = k /\ is_accessible(e.visibility, who)
    BY DEF OwnSet, BroughtSet, matchBroughtEntity
<1>3. ASSUME NEW x
      PROVE  Candidates(k, x, n, who) = UNION {At(y) : y \in Span(x)}
    BY <1>1 DEF Candidates, OwnSet
<1> HIDE DEF At
<1>4. /\ Links(m) \subseteq Mod /\ m \in Span(m)
      /\ \A x \in Links(m) : Span(x) \subseteq Span(m)
      /\ \A x \in Span(m) : x = m \/ \E y \in Links(m) : x \in Span(y)
    BY SpanFacts
<1>5. At(m) \subseteq Candidates(k, m, n, who)
    BY <1>3, <1>4
<1>6. \A y \in Links(m) : Candidates(k, y, n, who) \subseteq Candidates(k, m, n, who)
    BY <1>3, <1>4
<1>7. ASSUME NEW e \in Candidates(k, m, n, who)
      PROVE  /\ e.kind = k /\ is_accessible(e.visibility, who)
             /\ e \in At(m) \/ \E y \in Links(m) : e \in Candidates(k, y, n, who)
    <2>1. PICK x \in Span(m) : e \in At(x)
        BY <1>3, <1>7
    <2>2. x = m \/ \E y \in Links(m) : e \in Candidates(k, y, n, who)
        BY <1>3, <1>4, <2>1
    <2> QED
        BY <1>2, <2>1, <2>2
<1> QED
    BY <1>5, <1>6, <1>7 DEF At

(* A module from which a circle of links is in reach.                      *)
LEMMA RoundFacts ==
    ASSUME NamesTyped, NEW m \in Mod
    PROVE  /\ \A y \in Links(m) : GoesRound(y) => GoesRound(m)
           /\ \A y \in Links(m) : m \in Span(y) => GoesRound(y)
           /\ (\A y \in Links(m) : ~GoesRound(y)) => ~GoesRound(m)
<1>1. /\ Links(m) \subseteq Mod /\ m \in Span(m)
      /\ \A x \in Links(m) : Span(x) \subseteq Span(m)
      /\ \A x \in Span(m) : x = m \/ \E y \in Links(m) : x \in Span(y)
    BY SpanFacts
<1>2. \A y \in Links(m) : GoesRound(y) => GoesRound(m)
    BY <1>1 DEF GoesRound
<1>3. \A y \in Links(m) : m \in Span(y) => GoesRound(y)
    BY DEF GoesRound
<1>4. ASSUME GoesRound(m)
      PROVE  \E y \in Links(m) : GoesRound(y)
    <2>1. PICK x \in Span(m) : \E y \in Links(x) : x \in Span(y)
        BY <1>4 DEF GoesRound
    <2>2. PICK y \in Links(x) : x \in Span(y)
        BY <2>1
    <2>3. CASE x = m
        BY <1>3, <2>2, <2>3
    <2>4. CASE \E z \in Links(m) : x \in Span(z)
        BY <2>2, <2>4 DEF GoesRound
    <2> QED
        BY <1>1, <2>3, <2>4
<1> QED
    BY <1>2, <1>3, <1>4

LEMMA ElsewhereFacts ==
    ASSUME NamesTyped, NEW k, NEW m \in Mod, NEW n, NEW who
    PROVE  /\ \A y \in Links(m) : HasFromElsewhere(k, y, n, who) => HasFromElsewhere(k, m, n, who)
           /\ \A y \in UnnamedSubmodules(m) :
                 OwnSet(k, y, n, who) = {} /\ Candidates(k, y, n, who) # {}
                 => HasFromElsewhere(k, m, n, who)
<1>1. Links(m) \subseteq Mod /\ m \in Span(m) /\ \A x \in Links(m) : Span(x) \subseteq Span(m)
    BY SpanFacts
<1>2. \A y \in Links(m) : HasFromElsewhere(k, y, n, who) => HasFromElsewhere(k, m, n, who)
    BY <1>1 DEF HasFromElsewhere
<1>3. ASSUME NEW y \in UnnamedSubmodules(m), OwnSet(k, y, n, who) = {},
             Candidates(k, y, n, who) # {}
      PROVE  HasFromElsewhere(k, m, n, who)
    <2>1. PICK e \in Candidates(k, y, n, who) : TRUE
        BY <1>3
    <2>2. y \in Mod
        BY <1>1, <1>3 DEF Links
    <2>3. e.kind = k /\ is_accessible(e.visibility, who)
        BY <2>1, <2>2, CandidatesFacts
    <2>4. e \notin ToSet(defined[y]) \/ e.name # n
        BY <1>3, <2>3 DEF OwnSet
    <2> QED
        BY <1>1, <1>3, <2>1, <2>4 DEF HasFromElsewhere
<1> QED
    BY <1>2, <1>3

-----------------------------------------------------------------------------
(* A call made by a call on the same module is deeper than it; the others  *)
(* are on modules it links to.  When a call is open again, its module goes *)
(* round.                                                                  *)
Depth(f) == IF f \in {"import", "inSub"} THEN 0
            ELSE IF f = "named" THEN 1
            ELSE IF f \in {"known", "get"} THEN 2 ELSE 3
MadeBy(c) == {d \in Calls : \/ d[2] = c[2] /\ Depth(c[1]) < Depth(d[1])
                            \/ d[2] \in Links(c[2])}

OnTheWay(c, open) ==
    \A d \in open : /\ c[2] \in Span(d[2])
                    /\ d[2] = c[2] => GoesRound(c[2]) \/ Depth(d[1]) < Depth(c[1])

LEMMA OpenedOnTheWay ==
    ASSUME NamesTyped, NEW c \in Calls, NEW open \in SUBSET Calls, OnTheWay(c, open),
           NEW d \in MadeBy(c)
    PROVE  OnTheWay(d, open \cup {c})
<1>1. c[2] \in Mod /\ d[2] \in Mod /\ \A b \in open : b[2] \in Mod
    BY DEF Calls, MadeBy
<1>2. ASSUME NEW x \in Mod, c[2] \in Span(x)
      PROVE  d[2] \in Span(x)
    <2>1. d[2] = c[2] \/ d[2] \in Links(c[2])
        BY DEF MadeBy
    <2>2. CASE d[2] = c[2]
        BY <1>2, <2>2
    <2>3. CASE d[2] \in Links(c[2])
        BY <1>1, <1>2, <2>3 DEF Span
    <2> QED
        BY <2>1, <2>2, <2>3
<1>3. c[2] \in Span(c[2])
    BY <1>1, SpanFacts
<1>4. ASSUME NEW b \in open \cup {c}
      PROVE  /\ d[2] \in Span(b[2])
             /\ d[2] \in Links(c[2]) /\ b[2] = d[2] => GoesRound(d[2])
    <2>1. b[2] \in Mod /\ c[2] \in Span(b[2])
        BY <1>1, <1>3, <1>4 DEF OnTheWay
    <2>2. d[2] \in Links(c[2]) /\ b[2] = d[2] => GoesRound(d[2])
        BY <1>1, <2>1, RoundFacts
    <2> QED
        BY <1>2, <2>1, <2>2
<1>5. ASSUME NEW b \in open \cup {c}, d[2] = c[2], Depth(c[1]) < Depth(d[1]), b[2] = d[2]
      PROVE  GoesRound(d[2]) \/ Depth(b[1]) < Depth(d[1])
    <2>1. \A f : Depth(f) \in Nat
        BY DEF Depth
    <2>2. CASE b = c
        BY <1>5, <2>2
    <2>3. CASE b \in open
        BY <1>5, <2>1, <2>3 DEF OnTheWay
    <2> QED
        BY <2>2, <2>3
<1> QED
    BY <1>4, <1>5 DEF OnTheWay, MadeBy

-----------------------------------------------------------------------------
(* What an answer that is not none says about the module the call is on.   *)
(* A null pointer is followed only where a scheme does not look for what   *)
(* is brought, and where something is missed for this.                     *)
Sound(s, n, who, m, a) ==
    /\ a.is \in {"found", "none", "overflow", "crash", "nullptr"}
    /\ a.is = "found" => a.what \in Candidates(s.kind, m, n, who)
    /\ a.is = "overflow" => GoesRound(m)
    /\ a.is \in {"crash", "nullptr"} => ~s.getsBrought /\ HasFromElsewhere(s.kind, m, n, who)

(* And what none says.                                                     *)
Nothing(s, n, who, m) == Candidates(s.kind, m, n, who) = {} /\ ~GoesRound(m)

NoneMeans(s, n, who, f, m) ==
    /\ f \in {"known", "named", "import"} => Nothing(s, n, who, m)
    /\ f = "has" => /\ OwnSet(s.kind, m, n, who) = {}
                    /\ \A y \in UnnamedSubmodules(m) : Nothing(s, n, who, y)
    /\ f = "inImports" => \A y \in UnnamedImports(m) : Nothing(s, n, who, y)
    /\ f = "inSub" => IF s.getsBrought THEN Candidates(s.kind, m, n, who) = {}
                      ELSE OwnSet(s.kind, m, n, who) = {}
    /\ f = "get" => \/ Candidates(s.kind, m, n, who) = {}
                    \/ ~s.getsBrought /\ HasFromElsewhere(s.kind, m, n, who)

Right(s, n, who, c, a) ==
    /\ Sound(s, n, who, c[2], a)
    /\ a.is = "nullptr" => c[1] \in {"get", "inSub"}
    /\ a.is = "none" => NoneMeans(s, n, who, c[1], c[2])

AllRight(s, n, who, c, answer) == \A d \in MadeBy(c) : Right(s, n, who, d, answer[d])

LEMMA SoundFacts ==
    ASSUME NamesTyped, NEW s, NEW n, NEW who, NEW m \in Mod
    PROVE  /\ None.is = "none" /\ Sound(s, n, who, m, None)
           /\ \A e \in Candidates(s.kind, m, n, who) :
                 Found(e).is = "found" /\ Sound(s, n, who, m, Found(e))
           /\ \A y \in Links(m) : \A a : Sound(s, n, who, y, a) => Sound(s, n, who, m, a)
<1>1. /\ \A y \in Links(m) : /\ GoesRound(y) => GoesRound(m)
                             /\ HasFromElsewhere(s.kind, y, n, who)
                                => HasFromElsewhere(s.kind, m, n, who)
      /\ \A y \in Links(m) : Candidates(s.kind, y, n, who) \subseteq Candidates(s.kind, m, n, who)
    BY RoundFacts, ElsewhereFacts, CandidatesFacts
<1>2. None.is = "none" /\ \A e : Found(e).is = "found" /\ Found(e).what = e
    BY DEF None, Answer, Found
<1>3. \A y \in Links(m) : \A a : Sound(s, n, who, y, a) => Sound(s, n, who, m, a)
    BY <1>1 DEF Sound
<1> QED
    BY <1>2, <1>3 DEF Sound

(* has_X.                                                                  *)
LEMMA HasIsRight ==
    ASSUME NamesTyped, NEW s, NEW n, NEW who, NEW m \in Mod, NEW answer,
           AllRight(s, n, who, <<"has", m>>, answer)
    PROVE  Right(s, n, who, <<"has", m>>, LookupAnswers(s, n, who, <<"has", m>>, answer))
<1>1. PICK o, a, r : /\ o = OwnEntity(s.kind, m, n, who) /\ a = OfSubmodules(m, "known", answer)
                     /\ r = o ?? a
    OBVIOUS
<1>2. LookupAnswers(s, n, who, <<"has", m>>, answer) = r
    BY <1>1 DEF LookupAnswers, OfSubmodules
<1>3. OneOf(o, OwnSet(s.kind, m, n, who)) /\ AnswerOfOne(a, "known", UnnamedSubmodules(m), answer)
    BY <1>1, OwnAnswer, SubmodulesAnswer
<1>4. ASSUME NEW y \in UnnamedSubmodules(m)
      PROVE  /\ Right(s, n, who, <<"known", y>>, answer[<<"known", y>>])
             /\ y \in Links(m)
    <2>1. y \in Links(m) /\ y \in Mod
        BY SpanFacts DEF Links
    <2>2. <<"known", y>> \in MadeBy(<<"has", m>>)
        BY <2>1 DEF MadeBy, Calls
    <2> QED
        BY <2>1, <2>2 DEF AllRight
<1>5. r = IF o.is = "none" THEN a ELSE o
    BY <1>1 DEF ??
<1>6. CASE o # None
    <2>1. PICK e \in OwnSet(s.kind, m, n, who) : o = Found(e)
        BY <1>3, <1>6 DEF OneOf
    <2>2. e \in Candidates(s.kind, m, n, who)
        BY CandidatesFacts
    <2>3. Sound(s, n, who, m, o) /\ o.is = "found"
        BY <2>1, <2>2, SoundFacts
    <2> QED
        BY <1>2, <1>5, <2>3 DEF Right
<1>7. CASE o = None /\ a = None /\ \A y \in UnnamedSubmodules(m) : answer[<<"known", y>>].is = "none"
    <2>1. \A y \in UnnamedSubmodules(m) : Nothing(s, n, who, y)
        BY <1>4, <1>7 DEF Right, NoneMeans
    <2>2. OwnSet(s.kind, m, n, who) = {}
        BY <1>3, <1>7 DEF OneOf, None, Answer, Found
    <2>3. r = None /\ None.is = "none" /\ Sound(s, n, who, m, None)
        BY <1>5, <1>7, SoundFacts
    <2> QED
        BY <1>2, <2>1, <2>2, <2>3 DEF Right, NoneMeans
<1>8. CASE o = None /\ \E y \in UnnamedSubmodules(m) : a = answer[<<"known", y>>] /\ a.is # "none"
    <2>1. PICK y \in UnnamedSubmodules(m) : a = answer[<<"known", y>>] /\ a.is # "none"
        BY <1>8
    <2>2. Sound(s, n, who, y, a) /\ a.is # "nullptr"
        BY <1>4, <2>1 DEF Right
    <2>3. Sound(s, n, who, m, a) /\ None.is = "none"
        BY <1>4, <2>2, SoundFacts
    <2> QED
        BY <1>2, <1>5, <1>8, <2>1, <2>2, <2>3 DEF Right
<1> QED
    BY <1>3, <1>6, <1>7, <1>8 DEF AnswerOfOne

(* has_X, has_brought_X and has_X_in_imports, asked in this order.         *)
LEMMA KnownIsRight ==
    ASSUME NamesTyped, NEW s, NEW n, NEW who, NEW m \in Mod, NEW answer,
           AllRight(s, n, who, <<"known", m>>, answer)
    PROVE  Right(s, n, who, <<"known", m>>, LookupAnswers(s, n, who, <<"known", m>>, answer))
<1>1. PICK h, b, i, r : /\ h = answer[<<"has", m>>] /\ b = has_brought(s.kind, m, n, who)
                        /\ i = answer[<<"inImports", m>>]
                        /\ r = h ?? (b ?? i)
    OBVIOUS
<1>2. LookupAnswers(s, n, who, <<"known", m>>, answer) = r
    BY <1>1 DEF LookupAnswers
<1>3. OneOf(b, BroughtSet(s.kind, m, n, who))
    BY <1>1, BroughtAnswer
<1>4. <<"has", m>> \in MadeBy(<<"known", m>>) /\ <<"inImports", m>> \in MadeBy(<<"known", m>>)
    BY DEF MadeBy, Calls, Depth
<1>5. Right(s, n, who, <<"has", m>>, h) /\ Right(s, n, who, <<"inImports", m>>, i)
    BY <1>1, <1>4 DEF AllRight
<1>6. r = IF h.is # "none" THEN h ELSE IF b.is # "none" THEN b ELSE i
    BY <1>1 DEF ??
<1>7. CASE h.is # "none"
    BY <1>2, <1>5, <1>6, <1>7 DEF Right
<1>8. CASE h.is = "none" /\ b # None
    <2>1. PICK e \in BroughtSet(s.kind, m, n, who) : b = Found(e)
        BY <1>3, <1>8 DEF OneOf
    <2>2. e \in Candidates(s.kind, m, n, who)
        BY CandidatesFacts
    <2>3. Sound(s, n, who, m, b) /\ b.is = "found"
        BY <2>1, <2>2, SoundFacts
    <2> QED
        BY <1>2, <1>6, <1>8, <2>3 DEF Right
<1>9. CASE h.is = "none" /\ b = None /\ i.is # "none"
    <2>1. None.is = "none"
        BY SoundFacts
    <2> QED
        BY <1>2, <1>5, <1>6, <1>9, <2>1 DEF Right
<1>10. CASE h.is = "none" /\ b = None /\ i.is = "none"
    <2>1. r = i /\ None.is = "none"
        BY <1>6, <1>10, SoundFacts
    <2>2. BroughtSet(s.kind, m, n, who) = {}
        BY <1>3, <1>10 DEF OneOf, None, Answer, Found
    <2>3. /\ OwnSet(s.kind, m, n, who) = {}
          /\ \A y \in UnnamedSubmodules(m) : Nothing(s, n, who, y)
          /\ \A y \in UnnamedImports(m) : Nothing(s, n, who, y)
        BY <1>5, <1>10 DEF Right, NoneMeans
    <2>4. \A y \in Links(m) : Nothing(s, n, who, y)
        BY <2>3 DEF Links
    <2>5. ~GoesRound(m)
        BY <2>4, RoundFacts DEF Nothing
    <2>6. Candidates(s.kind, m, n, who) = {}
        BY <2>2, <2>3, <2>4, CandidatesFacts DEF Nothing
    <2> QED
        BY <1>2, <1>5, <1>10, <2>1, <2>5, <2>6 DEF Right, NoneMeans, Nothing
<1> QED
    BY <1>7, <1>8, <1>9, <1>10

(* And then get_X.  It finds what is known, unless something is missed.    *)
LEMMA NamedIsRight ==
    ASSUME NamesTyped, NEW s, NEW n, NEW who, NEW m \in Mod, NEW answer,
           AllRight(s, n, who, <<"named", m>>, answer)
    PROVE  Right(s, n, who, <<"named", m>>, LookupAnswers(s, n, who, <<"named", m>>, answer))
<1>1. PICK k, g, r : /\ k = answer[<<"known", m>>] /\ g = answer[<<"get", m>>]
                     /\ r = Fetch(k, g)
    OBVIOUS
<1>2. LookupAnswers(s, n, who, <<"named", m>>, answer) = r
    BY <1>1 DEF LookupAnswers
<1>3. <<"known", m>> \in MadeBy(<<"named", m>>) /\ <<"get", m>> \in MadeBy(<<"named", m>>)
    BY DEF MadeBy, Calls, Depth
<1>4. Right(s, n, who, <<"known", m>>, k) /\ Right(s, n, who, <<"get", m>>, g)
    BY <1>1, <1>3 DEF AllRight
<1>5. r = IF k.is # "found" THEN k
          ELSE IF g.is \in {"none", "nullptr"} THEN Answer("crash") ELSE g
    BY <1>1 DEF Fetch
<1>6. CASE k.is # "found"
    BY <1>2, <1>4, <1>5, <1>6 DEF Right, NoneMeans
<1>7. CASE k.is = "found" /\ g.is \notin {"none", "nullptr"}
    BY <1>2, <1>4, <1>5, <1>7 DEF Right
<1>8. CASE k.is = "found" /\ g.is \in {"none", "nullptr"}
    <2>1. Candidates(s.kind, m, n, who) # {}
        BY <1>4, <1>8 DEF Right, Sound
    <2>2. ~s.getsBrought /\ HasFromElsewhere(s.kind, m, n, who)
        BY <1>4, <1>8, <2>1 DEF Right, Sound, NoneMeans
    <2>3. r.is = "crash"
        BY <1>5, <1>8 DEF Answer
    <2> QED
        BY <1>2, <2>2, <2>3 DEF Right, Sound
<1> QED
    BY <1>6, <1>7, <1>8

(* What may be seen through the bring of a module may be seen.             *)
LEMMA ImportIsRight ==
    ASSUME NamesTyped, NEW s, NEW n, NEW who, NEW m \in Mod, NEW answer,
           AllRight(s, n, who, <<"import", m>>, answer)
    PROVE  Right(s, n, who, <<"import", m>>, LookupAnswers(s, n, who, <<"import", m>>, answer))
<1>1. PICK a : a = answer[<<"named", m>>]
    OBVIOUS
<1>2. <<"named", m>> \in MadeBy(<<"import", m>>)
    BY DEF MadeBy, Calls, Depth
<1>3. Right(s, n, who, <<"named", m>>, a)
    BY <1>1, <1>2 DEF AllRight
<1>4. a.is = "found" => is_accessible(a.what.visibility, who)
    BY <1>3, CandidatesFacts DEF Right, Sound
<1>5. LookupAnswers(s, n, who, <<"import", m>>, answer) = a
    BY <1>1, <1>4 DEF LookupAnswers
<1> QED
    BY <1>3, <1>5 DEF Right, NoneMeans

(* has_X_in_imports.                                                       *)
LEMMA InImportsIsRight ==
    ASSUME NamesTyped, NEW s, NEW n, NEW who, NEW m \in Mod, NEW answer,
           AllRight(s, n, who, <<"inImports", m>>, answer)
    PROVE  Right(s, n, who, <<"inImports", m>>,
                 LookupAnswers(s, n, who, <<"inImports", m>>, answer))
<1>1. PICK a : a = OfImports(m, "import", answer)
    OBVIOUS
<1>2. LookupAnswers(s, n, who, <<"inImports", m>>, answer) = a
    BY <1>1 DEF LookupAnswers, OfImports
<1>3. AnswerOfOne(a, "import", UnnamedImports(m), answer)
    BY <1>1, ImportsAnswer
<1>4. ASSUME NEW y \in UnnamedImports(m)
      PROVE  Right(s, n, who, <<"import", y>>, answer[<<"import", y>>]) /\ y \in Links(m)
    <2>1. y \in Links(m) /\ y \in Mod
        BY SpanFacts DEF Links
    <2>2. <<"import", y>> \in MadeBy(<<"inImports", m>>)
        BY <2>1 DEF MadeBy, Calls
    <2> QED
        BY <2>1, <2>2 DEF AllRight
<1>5. CASE a = None /\ \A y \in UnnamedImports(m) : answer[<<"import", y>>].is = "none"
    <2>1. \A y \in UnnamedImports(m) : Nothing(s, n, who, y)
        BY <1>4, <1>5 DEF Right, NoneMeans
    <2>2. a = None /\ None.is = "none" /\ Sound(s, n, who, m, None)
        BY <1>5, SoundFacts
    <2> QED
        BY <1>2, <2>1, <2>2 DEF Right, NoneMeans
<1>6. CASE \E y \in UnnamedImports(m) : a = answer[<<"import", y>>] /\ a.is # "none"
    <2>1. PICK y \in UnnamedImports(m) : a = answer[<<"import", y>>] /\ a.is # "none"
        BY <1>6
    <2>2. Sound(s, n, who, y, a) /\ a.is # "nullptr"
        BY <1>4, <2>1 DEF Right
    <2>3. Sound(s, n, who, m, a)
        BY <1>4, <2>2, SoundFacts
    <2> QED
        BY <1>2, <2>1, <2>2, <2>3 DEF Right
<1> QED
    BY <1>3, <1>5, <1>6 DEF AnswerOfOne

(* What get_X does with a submodule.                                       *)
LEMMA InSubIsRight ==
    ASSUME NamesTyped, NEW s, s.getsBrought \in BOOLEAN, NEW n, NEW who, NEW m \in Mod, NEW answer,
           AllRight(s, n, who, <<"inSub", m>>, answer)
    PROVE  Right(s, n, who, <<"inSub", m>>, LookupAnswers(s, n, who, <<"inSub", m>>, answer))
<1>1. PICK f, k, g, r : /\ f = IF s.getsBrought THEN "known" ELSE "has"
                        /\ k = answer[<<f, m>>] /\ g = answer[<<"get", m>>]
                        /\ r = IF k.is # "found" THEN k
                               ELSE IF g.is = "none" THEN Answer("nullptr") ELSE g
    OBVIOUS
<1>2. LookupAnswers(s, n, who, <<"inSub", m>>, answer) = r
    BY <1>1 DEF LookupAnswers
<1>3. /\ <<"known", m>> \in MadeBy(<<"inSub", m>>) /\ <<"has", m>> \in MadeBy(<<"inSub", m>>)
      /\ <<"get", m>> \in MadeBy(<<"inSub", m>>)
    BY DEF MadeBy, Calls, Depth
<1>4. Right(s, n, who, <<f, m>>, k) /\ Right(s, n, who, <<"get", m>>, g)
    BY <1>1, <1>3 DEF AllRight
<1>5. CASE k.is # "found"
    <2>1. r.is = "none" => NoneMeans(s, n, who, "inSub", m)
        BY <1>1, <1>4, <1>5 DEF Right, NoneMeans, Nothing
    <2> QED
        BY <1>1, <1>2, <1>4, <1>5, <2>1 DEF Right
<1>6. CASE k.is = "found" /\ g.is # "none"
    BY <1>1, <1>2, <1>4, <1>6 DEF Right
<1>7. CASE k.is = "found" /\ g.is = "none"
    <2>1. Candidates(s.kind, m, n, who) # {}
        BY <1>4, <1>7 DEF Right, Sound
    <2>2. ~s.getsBrought /\ HasFromElsewhere(s.kind, m, n, who)
        BY <1>4, <1>7, <2>1 DEF Right, NoneMeans
    <2>3. r.is = "nullptr"
        BY <1>1, <1>7 DEF Answer
    <2> QED
        BY <1>2, <2>2, <2>3 DEF Right, Sound
<1> QED
    BY <1>5, <1>6, <1>7

(* get_X.                                                                  *)
LEMMA GetIsRight ==
    ASSUME NamesTyped, NEW s, s.getsBrought \in BOOLEAN, NEW n, NEW who, NEW m \in Mod, NEW answer,
           AllRight(s, n, who, <<"get", m>>, answer)
    PROVE  Right(s, n, who, <<"get", m>>, LookupAnswers(s, n, who, <<"get", m>>, answer))
<1>1. PICK o, a, b, i, r : /\ o = OwnEntity(s.kind, m, n, who)
                           /\ a = OfSubmodules(m, "inSub", answer)
                           /\ b = has_brought(s.kind, m, n, who) /\ i = answer[<<"inImports", m>>]
                           /\ r = o ?? (a ?? (b ?? i))
    OBVIOUS
<1>2. LookupAnswers(s, n, who, <<"get", m>>, answer) = r
    BY <1>1 DEF LookupAnswers, OfSubmodules
<1>3. /\ OneOf(o, OwnSet(s.kind, m, n, who)) /\ OneOf(b, BroughtSet(s.kind, m, n, who))
      /\ AnswerOfOne(a, "inSub", UnnamedSubmodules(m), answer)
    BY <1>1, OwnAnswer, BroughtAnswer, SubmodulesAnswer
<1>4. <<"inImports", m>> \in MadeBy(<<"get", m>>)
    BY DEF MadeBy, Calls, Depth
<1>5. Right(s, n, who, <<"inImports", m>>, i)
    BY <1>1, <1>4 DEF AllRight
<1>6. ASSUME NEW y \in UnnamedSubmodules(m)
      PROVE  Right(s, n, who, <<"inSub", y>>, answer[<<"inSub", y>>]) /\ y \in Links(m)
    <2>1. y \in Links(m) /\ y \in Mod
        BY SpanFacts DEF Links
    <2>2. <<"inSub", y>> \in MadeBy(<<"get", m>>)
        BY <2>1 DEF MadeBy, Calls
    <2> QED
        BY <2>1, <2>2 DEF AllRight
<1>7. r = IF o.is # "none" THEN o ELSE IF a.is # "none" THEN a
          ELSE IF b.is # "none" THEN b ELSE i
    BY <1>1 DEF ??
<1>8. None.is = "none"
    BY SoundFacts
<1>9. CASE o # None
    <2>1. PICK e \in OwnSet(s.kind, m, n, who) : o = Found(e)
        BY <1>3, <1>9 DEF OneOf
    <2>2. e \in Candidates(s.kind, m, n, who)
        BY CandidatesFacts
    <2>3. Sound(s, n, who, m, o) /\ o.is = "found"
        BY <2>1, <2>2, SoundFacts
    <2> QED
        BY <1>2, <1>7, <2>3 DEF Right
<1>10. CASE o = None /\ \E y \in UnnamedSubmodules(m) : a = answer[<<"inSub", y>>] /\ a.is # "none"
    <2>1. PICK y \in UnnamedSubmodules(m) : a = answer[<<"inSub", y>>] /\ a.is # "none"
        BY <1>10
    <2>2. Sound(s, n, who, m, a)
        BY <1>6, <2>1, SoundFacts DEF Right
    <2> QED
        BY <1>2, <1>7, <1>8, <1>10, <2>1, <2>2 DEF Right
<1>11. CASE o = None /\ a = None /\ b # None
    <2>1. PICK e \in BroughtSet(s.kind, m, n, who) : b = Found(e)
        BY <1>3, <1>11 DEF OneOf
    <2>2. e \in Candidates(s.kind, m, n, who)
        BY CandidatesFacts
    <2>3. Sound(s, n, who, m, b) /\ b.is = "found"
        BY <2>1, <2>2, SoundFacts
    <2> QED
        BY <1>2, <1>7, <1>8, <1>11, <2>3 DEF Right
<1>12. CASE o = None /\ a = None /\ b = None /\ i.is # "none"
    BY <1>2, <1>5, <1>7, <1>8, <1>12 DEF Right
<1>13. CASE /\ o = None /\ a = None /\ b = None /\ i.is = "none"
            /\ \A y \in UnnamedSubmodules(m) : answer[<<"inSub", y>>].is = "none"
    <2>1. r = i
        BY <1>7, <1>8, <1>13
    <2>2. OwnSet(s.kind, m, n, who) = {} /\ BroughtSet(s.kind, m, n, who) = {}
        BY <1>3, <1>13 DEF OneOf, None, Answer, Found
    <2>3. \A y \in UnnamedImports(m) : Candidates(s.kind, y, n, who) = {}
        BY <1>5, <1>13 DEF Right, NoneMeans, Nothing
    <2>4. \A y \in UnnamedSubmodules(m) :
              IF s.getsBrought THEN Candidates(s.kind, y, n, who) = {}
              ELSE OwnSet(s.kind, y, n, who) = {}
        BY <1>6, <1>13 DEF Right, NoneMeans
    <2>5. (\A y \in UnnamedSubmodules(m) : Candidates(s.kind, y, n, who) = {})
             => Candidates(s.kind, m, n, who) = {}
        BY <2>2, <2>3, CandidatesFacts DEF Links
    <2>6. ~s.getsBrought /\ (\E y \in UnnamedSubmodules(m) : Candidates(s.kind, y, n, who) # {})
             => HasFromElsewhere(s.kind, m, n, who)
        BY <2>4, ElsewhereFacts
    <2>7. NoneMeans(s, n, who, "get", m)
        BY <2>4, <2>5, <2>6 DEF NoneMeans
    <2> QED
        BY <1>2, <1>5, <1>13, <2>1, <2>7 DEF Right
<1> QED
    BY <1>3, <1>9, <1>10, <1>11, <1>12, <1>13 DEF AnswerOfOne

LEMMA AnswersAreRight ==
    ASSUME NamesTyped, NEW s, s.getsBrought \in BOOLEAN, NEW n, NEW who, NEW c \in Calls, NEW answer,
           AllRight(s, n, who, c, answer)
    PROVE  Right(s, n, who, c, LookupAnswers(s, n, who, c, answer))
<1>1. PICK f, m : c = <<f, m>> /\ m \in Mod
                  /\ f \in {"has", "inImports", "get", "known", "named", "import", "inSub"}
    BY DEF Calls
<1>2. AllRight(s, n, who, <<f, m>>, answer)
    BY <1>1
<1>3. Right(s, n, who, <<f, m>>, LookupAnswers(s, n, who, <<f, m>>, answer))
    BY <1>1, <1>2, HasIsRight, InImportsIsRight, GetIsRight, KnownIsRight, NamedIsRight,
       ImportIsRight, InSubIsRight
<1> QED
    BY <1>1, <1>3

-----------------------------------------------------------------------------
(* The lookup answers every call: what one does is a function of the       *)
(* answers of the others.                                                  *)
Refusals == {"none", "overflow", "crash", "nullptr", "notAccessible", "noParent", "noModule",
             "notRecognised", "notAValue", "noEntity", "nameInUse", "noParentLib"}
AnswersOf(E) == {Found(e) : e \in E} \cup {Answer(t) : t \in Refusals}

LEMMA AnswersFacts ==
    ASSUME NEW E
    PROVE  /\ None \in AnswersOf(E) /\ Answer("overflow") \in AnswersOf(E)
           /\ Answer("crash") \in AnswersOf(E) /\ Answer("nullptr") \in AnswersOf(E)
           /\ \A a, b \in AnswersOf(E) : a ?? b \in AnswersOf(E)
           /\ \A a, b \in AnswersOf(E) : Fetch(a, b) \in AnswersOf(E)
           /\ \A S \in SUBSET E : \A a : OneOf(a, S) => a \in AnswersOf(E)
           /\ \A t \in Refusals : Answer(t) \in AnswersOf(E)
           /\ \A e \in E : Found(e) \in AnswersOf(E)
           /\ \A a \in AnswersOf(E) : /\ a.is \in {"found"} \cup Refusals
                                      /\ (a.is = "found" => (a.what \in E /\ a = Found(a.what)))
                                      /\ (a.is # "found" => a = Answer(a.is))
<1>1. \A a, b \in AnswersOf(E) : Fetch(a, b) \in AnswersOf(E)
    BY DEF AnswersOf, Fetch, Refusals
<1>2. \A a, b \in AnswersOf(E) : a ?? b \in AnswersOf(E)
    BY DEF ??
<1>3. \A S \in SUBSET E : \A a : OneOf(a, S) => a \in AnswersOf(E)
    BY DEF AnswersOf, OneOf, None, Refusals
<1>4. \A a \in AnswersOf(E) : /\ a.is \in {"found"} \cup Refusals
                               /\ (a.is = "found" => (a.what \in E /\ a = Found(a.what)))
                               /\ (a.is # "found" => a = Answer(a.is))
    BY DEF AnswersOf, Found, Answer, Refusals
<1> QED
    BY <1>1, <1>2, <1>3, <1>4 DEF AnswersOf, None, Refusals

LEMMA LookupIsFunction ==
    ASSUME NamesTyped, NEW s, NEW n, NEW who, NEW E,
           \A x \in Mod : Candidates(s.kind, x, n, who) \subseteq E,
           NEW c \in Calls, NEW answer \in [Calls -> AnswersOf(E)]
    PROVE  LookupAnswers(s, n, who, c, answer) \in AnswersOf(E)
<1>1. PICK f, m : c = <<f, m>> /\ m \in Mod
                  /\ f \in {"has", "inImports", "get", "known", "named", "import", "inSub"}
    BY DEF Calls
<1>2. PICK V : V = AnswersOf(E)
    OBVIOUS
<1>3. /\ None \in V /\ Answer("nullptr") \in V
      /\ \A a, b \in V : a ?? b \in V /\ Fetch(a, b) \in V
    BY <1>2, AnswersFacts
<1>4. \A x \in Mod : \A g \in {"has", "inImports", "get", "known", "named", "import", "inSub"} :
          answer[<<g, x>>] \in V
    BY <1>2 DEF Calls
<1>5. OwnEntity(s.kind, m, n, who) \in V /\ has_brought(s.kind, m, n, who) \in V
    BY <1>1, <1>2, AnswersFacts, OwnAnswer, BroughtAnswer, CandidatesFacts
<1>6. \A y \in Links(m) : y \in Mod
    BY <1>1, SpanFacts
<1>7. ASSUME NEW g \in {"known", "inSub"}
      PROVE  OfSubmodules(m, g, answer) \in V
    <2>1. AnswerOfOne(OfSubmodules(m, g, answer), g, UnnamedSubmodules(m), answer)
        BY <1>1, SubmodulesAnswer
    <2>2. \A y \in UnnamedSubmodules(m) : answer[<<g, y>>] \in V
        BY <1>4, <1>6 DEF Links
    <2> QED
        BY <1>3, <2>1, <2>2 DEF AnswerOfOne
<1>8. OfImports(m, "import", answer) \in V
    <2>1. AnswerOfOne(OfImports(m, "import", answer), "import", UnnamedImports(m), answer)
        BY <1>1, ImportsAnswer
    <2>2. \A y \in UnnamedImports(m) : answer[<<"import", y>>] \in V
        BY <1>4, <1>6 DEF Links
    <2> QED
        BY <1>3, <2>1, <2>2 DEF AnswerOfOne
<1>9. CASE f = "has"
    BY <1>1, <1>2, <1>3, <1>5, <1>7, <1>9 DEF LookupAnswers, OfSubmodules
<1>10. CASE f = "known"
    BY <1>1, <1>2, <1>3, <1>4, <1>5, <1>10 DEF LookupAnswers
<1>11. CASE f = "named"
    BY <1>1, <1>2, <1>3, <1>4, <1>11 DEF LookupAnswers
<1>12. CASE f = "import"
    BY <1>1, <1>2, <1>3, <1>4, <1>12 DEF LookupAnswers
<1>13. CASE f = "inImports"
    BY <1>1, <1>2, <1>8, <1>13 DEF LookupAnswers, OfImports
<1>14. CASE f = "inSub"
    BY <1>1, <1>2, <1>3, <1>4, <1>14 DEF LookupAnswers
<1>15. CASE f = "get"
    BY <1>1, <1>2, <1>3, <1>4, <1>5, <1>7, <1>15 DEF LookupAnswers, OfSubmodules
<1> QED
    BY <1>1, <1>9, <1>10, <1>11, <1>12, <1>13, <1>14, <1>15

LEMMA CallsAreFinite == IsFiniteSet(Calls)
<1>1. PICK F : F = {"has", "inImports", "get", "known", "named", "import", "inSub"}
    OBVIOUS
<1>2. IsFiniteSet(F)
    <2>1. /\ IsFiniteSet({}) /\ \A S, x : IsFiniteSet(S) => IsFiniteSet(S \cup {x})
        BY FS_EmptySet, FS_AddElement
    <2>2. F = (((((({} \cup {"has"}) \cup {"inImports"}) \cup {"get"}) \cup {"known"})
               \cup {"named"}) \cup {"import"}) \cup {"inSub"}
        BY <1>1
    <2> QED
        BY <2>1, <2>2
<1>3. IsFiniteSet(F \X Mod)
    BY <1>2, ModAssumption, FS_Product
<1> QED
    BY <1>1, <1>3 DEF Calls

(* What Called is made of, for a lookup.                                   *)
LookupSteps(s, n, who, a) ==
    a = [open \in SUBSET Calls |->
            [c \in Calls |-> IF c \in open THEN Answer("overflow")
                             ELSE LookupAnswers(s, n, who, c, a[open \cup {c}])]]

Reach(s, n, who) == UNION {Candidates(s.kind, x, n, who) : x \in Mod}

LEMMA LookupHasSteps ==
    ASSUME NamesTyped, NEW s, NEW n, NEW who
    PROVE  \E a : /\ LookupSteps(s, n, who, a) /\ Lookup(s, n, who) = a[{}]
                 /\ \A p \in SUBSET Calls : a[p] \in [Calls -> AnswersOf(Reach(s, n, who))]
<1>1. PICK E, V : E = Reach(s, n, who) /\ V = AnswersOf(E)
    OBVIOUS
<1>2. \A x \in Mod : Candidates(s.kind, x, n, who) \subseteq E
    BY <1>1 DEF Reach
<1>3. \A c \in Calls : \A h \in [Calls -> V] : LookupAnswers(s, n, who, c, h) \in V
    BY <1>1, <1>2, LookupIsFunction
<1>4. PICK R : R = [c \in Calls |-> [h \in [Calls -> V] |-> LookupAnswers(s, n, who, c, h)]]
    OBVIOUS
<1>5. R \in [Calls -> [[Calls -> V] -> V]]
    BY <1>3, <1>4
<1>6. Answer("overflow") \in V
    BY <1>1, AnswersFacts
<1>7. AreAnswered(Calls, V, Answer("overflow"), R)
    BY <1>5, <1>6, CallsAreFinite, CallsAreAnswered
<1>8. PICK g \in [SUBSET Calls -> [Calls -> V]] : AnsweredBy(Calls, Answer("overflow"), R, g)
    BY <1>7 DEF AreAnswered
<1>9. ASSUME NEW p \in SUBSET Calls
      PROVE  g[p] = [c \in Calls |-> IF c \in p THEN Answer("overflow")
                                     ELSE LookupAnswers(s, n, who, c, g[p \cup {c}])]
    <2>1. \A c \in Calls : g[p \cup {c}] \in [Calls -> V]
        BY <1>8
    <2>2. \A c \in Calls : R[c][g[p \cup {c}]] = LookupAnswers(s, n, who, c, g[p \cup {c}])
        BY <1>4, <2>1
    <2>3. g[p] = [c \in Calls |-> IF c \in p THEN Answer("overflow") ELSE R[c][g[p \cup {c}]]]
        BY <1>8 DEF AnsweredBy
    <2> QED
        BY <2>2, <2>3
<1>10. LookupSteps(s, n, who, g)
    BY <1>8, <1>9 DEF LookupSteps
<1>11. PICK a : a = CHOOSE b : LookupSteps(s, n, who, b)
    OBVIOUS
<1>12. LookupSteps(s, n, who, a)
    BY <1>10, <1>11
<1>13. Lookup(s, n, who) = (CHOOSE b : LookupSteps(s, n, who, b))[{}]
    BY DEF Lookup, Called, LookupSteps
<1>14. ASSUME NEW p \in SUBSET Calls, \A c \in Calls \ p : a[p \cup {c}] \in [Calls -> V]
       PROVE  a[p] = [c \in Calls |-> IF c \in p THEN Answer("overflow")
                                       ELSE R[c][a[p \cup {c}]]]
    <2>1. a[p] = [c \in Calls |-> IF c \in p THEN Answer("overflow")
                                   ELSE LookupAnswers(s, n, who, c, a[p \cup {c}])]
        BY <1>12 DEF LookupSteps
    <2>2. \A c \in Calls \ p :
              R[c][a[p \cup {c}]] = LookupAnswers(s, n, who, c, a[p \cup {c}])
        BY <1>4, <1>14
    <2>3. \A c \in Calls :
              (IF c \in p THEN Answer("overflow") ELSE R[c][a[p \cup {c}]])
              = (IF c \in p THEN Answer("overflow")
                 ELSE LookupAnswers(s, n, who, c, a[p \cup {c}]))
        BY <2>2
    <2> QED
        BY <2>1, <2>3
<1>15. WhenTyped(Calls, V, Answer("overflow"), R, a)
    BY <1>14 DEF WhenTyped
<1>16. \A p \in SUBSET Calls : a[p] \in [Calls -> V]
    BY <1>5, <1>6, <1>15, CallsAreFinite, AnswersAreTyped
<1> QED
    BY <1>1, <1>11, <1>12, <1>13, <1>16

LEMMA LookupIsRight ==
    ASSUME NamesTyped, NEW s, s.getsBrought \in BOOLEAN, NEW n, NEW who, NEW c \in Calls
    PROVE  Right(s, n, who, c, Lookup(s, n, who)[c])
<1>1. PICK a : LookupSteps(s, n, who, a) /\ Lookup(s, n, who) = a[{}]
    BY LookupHasSteps
<1>2. PICK G : G = {p \in SUBSET Calls : \A d \in Calls :
                        OnTheWay(d, p) => Right(s, n, who, d, a[p][d])}
    OBVIOUS
<1>3. ASSUME NEW p \in SUBSET Calls, \A d \in Calls \ p : p \cup {d} \in G
      PROVE  p \in G
    <2>1. SUFFICES ASSUME NEW d \in Calls, OnTheWay(d, p)
                   PROVE  Right(s, n, who, d, a[p][d])
        BY <1>2
    <2>2. a[p][d] = IF d \in p THEN Answer("overflow")
                    ELSE LookupAnswers(s, n, who, d, a[p \cup {d}])
        <3>1. a[p] = [e \in Calls |-> IF e \in p THEN Answer("overflow")
                                      ELSE LookupAnswers(s, n, who, e, a[p \cup {e}])]
            BY <1>1 DEF LookupSteps
        <3> QED
            BY <3>1
    <2>3. CASE d \in p
        <3>1. GoesRound(d[2]) \/ Depth(d[1]) < Depth(d[1])
            BY <2>1, <2>3 DEF OnTheWay
        <3>2. Depth(d[1]) \in Nat
            BY DEF Depth
        <3>3. GoesRound(d[2])
            BY <3>1, <3>2
        <3>4. a[p][d].is = "overflow"
            BY <2>2, <2>3 DEF Answer
        <3> QED
            BY <3>3, <3>4 DEF Right, Sound
    <2>4. CASE d \notin p
        <3>1. p \cup {d} \in G
            BY <1>3, <2>4
        <3>2. \A e \in MadeBy(d) : OnTheWay(e, p \cup {d}) /\ e \in Calls
            BY <2>1, OpenedOnTheWay DEF MadeBy
        <3>3. AllRight(s, n, who, d, a[p \cup {d}])
            BY <1>2, <3>1, <3>2 DEF AllRight
        <3> QED
            BY <2>2, <2>4, <3>3, AnswersAreRight
    <2> QED
        BY <2>3, <2>4
<1>4. {} \in G
    BY <1>3, CallsAreFinite, FromAllOpen
<1>5. OnTheWay(c, {})
    BY DEF OnTheWay
<1> QED
    BY <1>1, <1>2, <1>4, <1>5

-----------------------------------------------------------------------------
(* The lookups of modules answer with a module, or with no more than a     *)
(* reason.                                                                 *)
LEMMA FirstIsTyped ==
    ASSUME NEW n \in Nat, NEW V, None \in V, NEW a, DOMAIN a = 1 .. n, a = [i \in 1 .. n |-> a[i]],
           \A i \in 1 .. n : a[i] \in V
    PROVE  FirstOf(a) \in V
BY FirstOfIs

LEMMA BroughtLibAnswer ==
    ASSUME NamesTyped, NEW n, NEW who, NEW m \in Mod
    PROVE  has_brought_lib(m, n, who) \in AnswersOf(Mod)
<1>1. PICK s : s = broughtModules[m] /\ IsSeq(s) /\ \A b \in ToSet(s) : b.mod \in Mod
    BY DEF NamesTyped
<1>2. PICK j \in Nat : DOMAIN s = 1 .. j
    BY <1>1, SeqFacts
<1>3. \A i \in 1 .. j : s[i].mod \in Mod
    BY <1>1, <1>2 DEF ToSet
<1>4. PICK a : a = [i \in 1 .. j |-> IF IsLib(s[i].mod) /\ ModuleSeen(s[i], n, who)
                                    THEN Found(s[i].mod) ELSE None]
    OBVIOUS
<1>5. PICK V : V = AnswersOf(Mod)
    OBVIOUS
<1>6. None \in V /\ \A x \in Mod : Found(x) \in V
    BY <1>5, AnswersFacts
<1>7. DOMAIN a = 1 .. j /\ a = [i \in 1 .. j |-> a[i]] /\ \A i \in 1 .. j : a[i] \in V
    BY <1>3, <1>4, <1>6
<1>8. FirstOf(a) \in V
    BY <1>6, <1>7, FirstIsTyped
<1> QED
    BY <1>1, <1>2, <1>4, <1>5, <1>8 DEF FirstAnswer, has_brought_lib

LEMMA LibsAreTyped ==
    ASSUME NamesTyped, NEW n, NEW who, NEW c \in Calls, NEW answer \in [Calls -> AnswersOf(Mod)]
    PROVE  LibAnswers(n, who, c, answer) \in AnswersOf(Mod)
<1>1. PICK f, m : c = <<f, m>> /\ m \in Mod
                  /\ f \in {"has", "inImports", "get", "known", "named", "import", "inSub"}
    BY DEF Calls
<1>2. PICK V : V = AnswersOf(Mod)
    OBVIOUS
<1>3. /\ None \in V /\ \A x \in Mod : Found(x) \in V
      /\ \A a, b \in V : a ?? b \in V /\ Fetch(a, b) \in V
    BY <1>2, AnswersFacts
<1>4. \A x \in Mod : \A g \in {"has", "inImports", "get", "known", "named", "import", "inSub"} :
          answer[<<g, x>>] \in V
    BY <1>2 DEF Calls
<1>5. FirstAnswer(SubmodulesOf(m), LAMBDA x : answer[<<"inSub", x>>]) \in V
    <2>1. PICK s : s = SubmodulesOf(m) /\ IsSeq(s) /\ ToSet(s) \subseteq Mod
        BY <1>1 DEF NamesTyped
    <2>2. PICK j \in Nat : DOMAIN s = 1 .. j
        BY <2>1, SeqFacts
    <2>3. \A i \in 1 .. j : s[i] \in Mod
        BY <2>1, <2>2 DEF ToSet
    <2>4. PICK a : a = [i \in 1 .. j |-> answer[<<"inSub", s[i]>>]]
        OBVIOUS
    <2>5. DOMAIN a = 1 .. j /\ a = [i \in 1 .. j |-> a[i]] /\ \A i \in 1 .. j : a[i] \in V
        BY <1>4, <2>3, <2>4
    <2>6. FirstOf(a) \in V
        BY <1>3, <2>5, FirstIsTyped
    <2> QED
        BY <2>1, <2>2, <2>4, <2>6 DEF FirstAnswer
<1>6. OfImports(m, "import", answer) \in V
    <2>1. AnswerOfOne(OfImports(m, "import", answer), "import", UnnamedImports(m), answer)
        BY <1>1, ImportsAnswer
    <2>2. \A y \in UnnamedImports(m) : answer[<<"import", y>>] \in V
        BY <1>1, <1>4, SpanFacts DEF Links
    <2> QED
        BY <1>3, <2>1, <2>2 DEF AnswerOfOne
<1>7. has_brought_lib(m, n, who) \in V
    BY <1>1, <1>2, BroughtLibAnswer
<1>8. CASE f = "has"
    BY <1>1, <1>2, <1>5, <1>8 DEF LibAnswers
<1>9. CASE f = "known"
    BY <1>1, <1>2, <1>3, <1>4, <1>7, <1>9 DEF LibAnswers
<1>10. CASE f = "named"
    BY <1>1, <1>2, <1>3, <1>4, <1>10 DEF LibAnswers
<1>11. CASE f = "import"
    BY <1>1, <1>2, <1>3, <1>4, <1>11 DEF LibAnswers
<1>12. CASE f = "inImports"
    BY <1>1, <1>2, <1>6, <1>12 DEF LibAnswers, OfImports
<1>13. CASE f = "inSub"
    BY <1>1, <1>2, <1>3, <1>4, <1>13 DEF LibAnswers
<1>14. CASE f = "get"
    BY <1>1, <1>2, <1>3, <1>4, <1>5, <1>7, <1>14 DEF LibAnswers
<1> QED
    BY <1>1, <1>8, <1>9, <1>10, <1>11, <1>12, <1>13, <1>14

LEMMA BroughtModAnswer ==
    ASSUME NamesTyped, NEW n, NEW who, NEW m \in Mod
    PROVE  has_brought_mod(m, n, who) \in AnswersOf(Mod)
<1>1. PICK s : s = broughtModules[m] /\ IsSeq(s) /\ \A b \in ToSet(s) : b.mod \in Mod
    BY DEF NamesTyped
<1>2. PICK j \in Nat : DOMAIN s = 1 .. j
    BY <1>1, SeqFacts
<1>3. \A i \in 1 .. j : s[i].mod \in Mod
    BY <1>1, <1>2 DEF ToSet
<1>4. PICK a : a = [i \in 1 .. j |-> IF ModuleSeen(s[i], n, who) THEN Found(s[i].mod) ELSE None]
    OBVIOUS
<1>5. PICK V : V = AnswersOf(Mod)
    OBVIOUS
<1>6. None \in V /\ \A x \in Mod : Found(x) \in V
    BY <1>5, AnswersFacts
<1>7. DOMAIN a = 1 .. j /\ a = [i \in 1 .. j |-> a[i]] /\ \A i \in 1 .. j : a[i] \in V
    BY <1>3, <1>4, <1>6
<1>8. FirstOf(a) \in V
    BY <1>6, <1>7, FirstIsTyped
<1> QED
    BY <1>1, <1>2, <1>4, <1>5, <1>8 DEF FirstAnswer, has_brought_mod

LEMMA BroughtAreTyped ==
    ASSUME NamesTyped, NEW n, NEW who, NEW c \in BroughtCalls,
           NEW answer \in [BroughtCalls -> AnswersOf(Mod)]
    PROVE  BroughtAnswers(n, who, c, answer) \in AnswersOf(Mod)
<1>1. PICK f, m : c = <<f, m>> /\ m \in Mod
                  /\ f \in {"known", "named", "import", "inImports", "get"}
    BY DEF BroughtCalls
<1>2. PICK V : V = AnswersOf(Mod)
    OBVIOUS
<1>3. /\ None \in V /\ \A x \in Mod : Found(x) \in V
      /\ \A a, b \in V : a ?? b \in V /\ Fetch(a, b) \in V
    BY <1>2, AnswersFacts
<1>4. \A x \in Mod : \A g \in {"known", "named", "import", "inImports", "get"} :
          answer[<<g, x>>] \in V
    BY <1>2 DEF BroughtCalls
<1>5. OfImports(m, "import", answer) \in V
    <2>1. AnswerOfOne(OfImports(m, "import", answer), "import", UnnamedImports(m), answer)
        BY <1>1, ImportsAnswer
    <2>2. \A y \in UnnamedImports(m) : answer[<<"import", y>>] \in V
        BY <1>1, <1>4, SpanFacts DEF Links
    <2> QED
        BY <1>3, <2>1, <2>2 DEF AnswerOfOne
<1>6. has_brought_mod(m, n, who) \in V
    BY <1>1, <1>2, BroughtModAnswer
<1>7. ASSUME f = "get"
      PROVE  BroughtAnswers(n, who, c, answer) \in V
    <2>1. PICK s : s = broughtModules[m] /\ IsSeq(s) /\ \A b \in ToSet(s) : b.mod \in Mod
        BY <1>1 DEF NamesTyped
    <2>2. PICK j \in Nat : DOMAIN s = 1 .. j
        BY <2>1, SeqFacts
    <2>3. \A i \in 1 .. j : s[i].mod \in Mod
        BY <2>1, <2>2 DEF ToSet
    <2>4. PICK a : a = [i \in 1 .. j |->
              IF IsUnnamedImport(s[i]) THEN answer[<<"import", s[i].mod>>]
              ELSE IF /\ n = IF s[i].name # NoName THEN s[i].name ELSE program.name[s[i].mod]
                      /\ is_accessible(s[i].visibility, who)
              THEN Found(s[i].mod) ELSE None]
        OBVIOUS
    <2>5. DOMAIN a = 1 .. j /\ a = [i \in 1 .. j |-> a[i]] /\ \A i \in 1 .. j : a[i] \in V
        BY <1>3, <1>4, <2>3, <2>4
    <2>6. FirstOf(a) \in V
        BY <1>3, <2>5, FirstIsTyped
    <2>7. BroughtAnswers(n, who, c, answer) = FirstOf(a)
        BY <1>1, <1>7, <2>1, <2>2, <2>4 DEF BroughtAnswers, FirstAnswer
    <2> QED
        BY <2>6, <2>7
<1>8. CASE f = "known"
    BY <1>1, <1>2, <1>3, <1>4, <1>6, <1>8 DEF BroughtAnswers
<1>9. CASE f = "named"
    BY <1>1, <1>2, <1>3, <1>4, <1>9 DEF BroughtAnswers
<1>10. CASE f = "import"
    BY <1>1, <1>2, <1>3, <1>4, <1>10 DEF BroughtAnswers
<1>11. CASE f = "inImports"
    BY <1>1, <1>2, <1>5, <1>11 DEF BroughtAnswers, OfImports
<1> QED
    BY <1>1, <1>2, <1>7, <1>8, <1>9, <1>10, <1>11

LEMMA BroughtCallsAreFinite == IsFiniteSet(BroughtCalls)
<1>1. BroughtCalls \subseteq Calls
    BY DEF BroughtCalls, Calls
<1> QED
    BY <1>1, CallsAreFinite, FS_Subset

(* What Called is made of, for the lookups of modules, and of what type.   *)
LibSteps(n, who, a) ==
    a = [open \in SUBSET Calls |->
            [c \in Calls |-> IF c \in open THEN Answer("overflow")
                         ELSE LibAnswers(n, who, c, a[open \cup {c}])]]

LEMMA LibLookupHasSteps ==
    ASSUME NamesTyped, NEW n, NEW who
    PROVE  \E a : /\ LibSteps(n, who, a) /\ LibLookup(n, who) = a[{}]
                 /\ \A p \in SUBSET Calls : a[p] \in [Calls -> AnswersOf(Mod)]
<1>1. PICK C, V : C = Calls /\ V = AnswersOf(Mod)
    OBVIOUS
<1>2. \A c \in C : \A h \in [C -> V] : LibAnswers(n, who, c, h) \in V
    BY <1>1, LibsAreTyped
<1>3. PICK R : R = [c \in C |-> [h \in [C -> V] |-> LibAnswers(n, who, c, h)]]
    OBVIOUS
<1>4. R \in [C -> [[C -> V] -> V]]
    BY <1>2, <1>3
<1>5. Answer("overflow") \in V
    BY <1>1, AnswersFacts
<1>6. IsFiniteSet(C)
    BY <1>1, CallsAreFinite
<1>7. AreAnswered(C, V, Answer("overflow"), R)
    BY <1>4, <1>5, <1>6, CallsAreAnswered
<1>8. PICK g \in [SUBSET C -> [C -> V]] : AnsweredBy(C, Answer("overflow"), R, g)
    BY <1>7 DEF AreAnswered
<1>9. ASSUME NEW p \in SUBSET C
      PROVE  g[p] = [c \in C |-> IF c \in p THEN Answer("overflow")
                                ELSE LibAnswers(n, who, c, g[p \cup {c}])]
    <2>1. \A c \in C : g[p \cup {c}] \in [C -> V]
        BY <1>8
    <2>2. \A c \in C : R[c][g[p \cup {c}]] = LibAnswers(n, who, c, g[p \cup {c}])
        BY <1>3, <2>1
    <2>3. g[p] = [c \in C |-> IF c \in p THEN Answer("overflow") ELSE R[c][g[p \cup {c}]]]
        BY <1>8 DEF AnsweredBy
    <2> QED
        BY <2>2, <2>3
<1>10. LibSteps(n, who, g)
    BY <1>1, <1>8, <1>9 DEF LibSteps
<1>11. PICK a : a = CHOOSE b : LibSteps(n, who, b)
    OBVIOUS
<1>12. LibSteps(n, who, a)
    BY <1>10, <1>11
<1>13. LibLookup(n, who) = (CHOOSE b : LibSteps(n, who, b))[{}]
    BY DEF LibLookup, Called, LibSteps
<1>14. ASSUME NEW p \in SUBSET C, \A c \in C \ p : a[p \cup {c}] \in [C -> V]
       PROVE  a[p] = [c \in C |-> IF c \in p THEN Answer("overflow") ELSE R[c][a[p \cup {c}]]]
    <2>1. a[p] = [c \in C |-> IF c \in p THEN Answer("overflow")
                             ELSE LibAnswers(n, who, c, a[p \cup {c}])]
        BY <1>1, <1>12 DEF LibSteps
    <2>2. \A c \in C \ p : R[c][a[p \cup {c}]] = LibAnswers(n, who, c, a[p \cup {c}])
        BY <1>3, <1>14
    <2>3. \A c \in C : (IF c \in p THEN Answer("overflow") ELSE R[c][a[p \cup {c}]])
                     = (IF c \in p THEN Answer("overflow") ELSE LibAnswers(n, who, c, a[p \cup {c}]))
        BY <2>2
    <2> QED
        BY <2>1, <2>3
<1>15. \A p \in SUBSET C : a[p] \in [C -> V]
    <2>1. WhenTyped(C, V, Answer("overflow"), R, a)
        BY <1>14 DEF WhenTyped
    <2> QED
        BY <1>4, <1>5, <1>6, <2>1, AnswersAreTyped
<1> QED
    BY <1>1, <1>11, <1>12, <1>13, <1>15


BroughtSteps(n, who, a) ==
    a = [open \in SUBSET BroughtCalls |->
            [c \in BroughtCalls |-> IF c \in open THEN Answer("overflow")
                         ELSE BroughtAnswers(n, who, c, a[open \cup {c}])]]

LEMMA BroughtLookupHasSteps ==
    ASSUME NamesTyped, NEW n, NEW who
    PROVE  \E a : /\ BroughtSteps(n, who, a) /\ BroughtLookup(n, who) = a[{}]
                 /\ \A p \in SUBSET BroughtCalls : a[p] \in [BroughtCalls -> AnswersOf(Mod)]
<1>1. PICK C, V : C = BroughtCalls /\ V = AnswersOf(Mod)
    OBVIOUS
<1>2. \A c \in C : \A h \in [C -> V] : BroughtAnswers(n, who, c, h) \in V
    BY <1>1, BroughtAreTyped
<1>3. PICK R : R = [c \in C |-> [h \in [C -> V] |-> BroughtAnswers(n, who, c, h)]]
    OBVIOUS
<1>4. R \in [C -> [[C -> V] -> V]]
    BY <1>2, <1>3
<1>5. Answer("overflow") \in V
    BY <1>1, AnswersFacts
<1>6. IsFiniteSet(C)
    BY <1>1, BroughtCallsAreFinite
<1>7. AreAnswered(C, V, Answer("overflow"), R)
    BY <1>4, <1>5, <1>6, CallsAreAnswered
<1>8. PICK g \in [SUBSET C -> [C -> V]] : AnsweredBy(C, Answer("overflow"), R, g)
    BY <1>7 DEF AreAnswered
<1>9. ASSUME NEW p \in SUBSET C
      PROVE  g[p] = [c \in C |-> IF c \in p THEN Answer("overflow")
                                ELSE BroughtAnswers(n, who, c, g[p \cup {c}])]
    <2>1. \A c \in C : g[p \cup {c}] \in [C -> V]
        BY <1>8
    <2>2. \A c \in C : R[c][g[p \cup {c}]] = BroughtAnswers(n, who, c, g[p \cup {c}])
        BY <1>3, <2>1
    <2>3. g[p] = [c \in C |-> IF c \in p THEN Answer("overflow") ELSE R[c][g[p \cup {c}]]]
        BY <1>8 DEF AnsweredBy
    <2> QED
        BY <2>2, <2>3
<1>10. BroughtSteps(n, who, g)
    BY <1>1, <1>8, <1>9 DEF BroughtSteps
<1>11. PICK a : a = CHOOSE b : BroughtSteps(n, who, b)
    OBVIOUS
<1>12. BroughtSteps(n, who, a)
    BY <1>10, <1>11
<1>13. BroughtLookup(n, who) = (CHOOSE b : BroughtSteps(n, who, b))[{}]
    BY DEF BroughtLookup, Called, BroughtSteps
<1>14. ASSUME NEW p \in SUBSET C, \A c \in C \ p : a[p \cup {c}] \in [C -> V]
       PROVE  a[p] = [c \in C |-> IF c \in p THEN Answer("overflow") ELSE R[c][a[p \cup {c}]]]
    <2>1. a[p] = [c \in C |-> IF c \in p THEN Answer("overflow")
                             ELSE BroughtAnswers(n, who, c, a[p \cup {c}])]
        BY <1>1, <1>12 DEF BroughtSteps
    <2>2. \A c \in C \ p : R[c][a[p \cup {c}]] = BroughtAnswers(n, who, c, a[p \cup {c}])
        BY <1>3, <1>14
    <2>3. \A c \in C : (IF c \in p THEN Answer("overflow") ELSE R[c][a[p \cup {c}]])
                     = (IF c \in p THEN Answer("overflow") ELSE BroughtAnswers(n, who, c, a[p \cup {c}]))
        BY <2>2
    <2> QED
        BY <2>1, <2>3
<1>15. \A p \in SUBSET C : a[p] \in [C -> V]
    <2>1. WhenTyped(C, V, Answer("overflow"), R, a)
        BY <1>14 DEF WhenTyped
    <2> QED
        BY <1>4, <1>5, <1>6, <2>1, AnswersAreTyped
<1> QED
    BY <1>1, <1>11, <1>12, <1>13, <1>15

-----------------------------------------------------------------------------
(* What the lookups of the module answer, wherever they are asked.         *)
LEMMA LookupIsTyped ==
    ASSUME NamesTyped, NEW s, NEW n, NEW who, NEW c \in Calls
    PROVE  Lookup(s, n, who)[c] \in AnswersOf(Reach(s, n, who))
<1>1. PICK a : /\ Lookup(s, n, who) = a[{}]
               /\ \A p \in SUBSET Calls : a[p] \in [Calls -> AnswersOf(Reach(s, n, who))]
    BY LookupHasSteps
<1> QED
    BY <1>1

LEMMA LibLookupIsTyped ==
    ASSUME NamesTyped, NEW n, NEW who, NEW m \in Mod
    PROVE  /\ has_lib(m, n, who) \in AnswersOf(Mod)
           /\ has_lib_in_imports(m, n, who) \in AnswersOf(Mod)
           /\ get_lib(m, n, who) \in AnswersOf(Mod)
           /\ lib(m, n, who) \in AnswersOf(Mod)
<1>1. PICK a : /\ LibLookup(n, who) = a[{}]
               /\ \A p \in SUBSET Calls : a[p] \in [Calls -> AnswersOf(Mod)]
    BY LibLookupHasSteps
<1>2. LibLookup(n, who) \in [Calls -> AnswersOf(Mod)]
    BY <1>1
<1>3. \A f \in {"has", "inImports", "get", "named"} : <<f, m>> \in Calls
    BY DEF Calls
<1> QED
    BY <1>2, <1>3 DEF has_lib, has_lib_in_imports, get_lib, lib

LEMMA BroughtLookupIsTyped ==
    ASSUME NamesTyped, NEW n, NEW who, NEW m \in Mod
    PROVE  /\ get_brought_mod(m, n, who) \in AnswersOf(Mod)
           /\ brought_mod(m, n, who) \in AnswersOf(Mod)
<1>1. PICK a : /\ BroughtLookup(n, who) = a[{}]
               /\ \A p \in SUBSET BroughtCalls : a[p] \in [BroughtCalls -> AnswersOf(Mod)]
    BY BroughtLookupHasSteps
<1>2. BroughtLookup(n, who) \in [BroughtCalls -> AnswersOf(Mod)]
    BY <1>1
<1>3. \A f \in {"get", "named"} : <<f, m>> \in BroughtCalls
    BY DEF BroughtCalls
<1> QED
    BY <1>2, <1>3 DEF get_brought_mod, brought_mod

LEMMA QualifiersAreTyped ==
    ASSUME NamesTyped, NEW n, NEW who, NEW m \in Mod
    PROVE  /\ BringQualifier(m, n, who) \in AnswersOf(Mod)
           /\ UseQualifier(m, n, who) \in AnswersOf(Mod)
<1>1. PICK V : V = AnswersOf(Mod)
    OBVIOUS
<1>2. /\ \A a, b \in V : a ?? b \in V /\ Fetch(a, b) \in V
      /\ Answer("notAccessible") \in V
    BY <1>1, AnswersFacts DEF Refusals
<1>3. /\ lib(m, n, who) \in V /\ has_lib(m, n, who) \in V /\ get_lib(m, n, who) \in V
      /\ has_brought_mod(m, n, who) \in V /\ get_brought_mod(m, n, who) \in V
      /\ brought_mod(m, n, who) \in V
    BY <1>1, LibLookupIsTyped, BroughtLookupIsTyped, BroughtModAnswer
<1> QED
    BY <1>1, <1>2, <1>3 DEF BringQualifier, UseQualifier

(* The module a path is in: one of the modules, or a reason that is never  *)
(* that there is none.                                                     *)
LEMMA QualifiedIsTyped ==
    ASSUME NamesTyped, program \in ProgramType, NEW m \in Mod, NEW path \in PathType,
           NEW bringing
    PROVE  /\ Qualified(m, path, bringing) \in AnswersOf(Mod)
           /\ Qualified(m, path, bringing).is # "none"
           /\ (path.relative = 0 /\ Len(path.names) = 1)
              => Qualified(m, path, bringing) = Found(m)
<1> DEFINE Qualifier(x, w) == IF bringing THEN BringQualifier(x, w, m) ELSE UseQualifier(x, w, m)
           V == {a \in AnswersOf(Mod) : a.is # "none"}
<1>1. PICK k : k = Len(path.names) - 1
    OBVIOUS
<1>2. k \in Nat /\ path.relative \in Nat
    <2>1. path.names \in Seq(Name) /\ path.names # <<>> /\ path.relative \in Nat
        BY DEF PathType
    <2>2. Len(path.names) \in Nat /\ Len(path.names) # 0
        BY <2>1, EmptySeq, LenProperties
    <2> QED
        BY <1>1, <2>1, <2>2
<1>3. \A a \in V : a.is = "found" => a.what \in Mod
    BY AnswersFacts
<1>4. \A a \in AnswersOf(Mod) : a ?? Answer("noModule") \in V
    <2>1. Answer("noModule") \in V
        BY AnswersFacts DEF Refusals, Answer
    <2> QED
        BY <2>1 DEF ??
<1>5. \A x \in Mod : \A w : Qualifier(x, w) ?? Answer("noModule") \in V
    BY <1>4, QualifiersAreTyped
<1>6. Start(m, path) \in V /\ (path.relative = 0 => Start(m, path) = Found(m))
    <2>1. program.parent[m] \in Mod \cup {NoMod}
        BY DEF ProgramType
    <2>2. Answer("noParent") \in V /\ \A x \in Mod : Found(x) \in V
        BY AnswersFacts DEF Refusals, Answer, Found
    <2> QED
        BY <1>2, <2>1, <2>2 DEF Start, has_nth_parent, get_nth_parent, ParentOf
<1> HIDE DEF V
<1> DEFINE IsAt(f) == f = [i \in 0 .. k |->
                 IF i = 0 THEN Start(m, path)
                 ELSE IF f[i - 1].is # "found" THEN f[i - 1]
                 ELSE Qualifier(f[i - 1].what, path.names[i]) ?? Answer("noModule")]
<1>7. \E f : IsAt(f) /\ f \in [0 .. k -> V]
    <2>1. PICK G : G = [i \in 0 .. k |-> [f \in [0 .. k -> V] |->
                 IF i = 0 THEN Start(m, path)
                 ELSE IF f[i - 1].is # "found" THEN f[i - 1]
                 ELSE Qualifier(f[i - 1].what, path.names[i]) ?? Answer("noModule")]]
        OBVIOUS
    <2>2. \A i \in 0 .. k : \A f \in [0 .. k -> V] :
              G[i][f] = IF i = 0 THEN Start(m, path)
                        ELSE IF f[i - 1].is # "found" THEN f[i - 1]
                        ELSE Qualifier(f[i - 1].what, path.names[i]) ?? Answer("noModule")
        BY <2>1
    <2>3. \A i \in 0 .. k : i # 0 => i - 1 \in 0 .. k /\ i - 1 < i
        BY <1>2
    <2>4. \A i \in 0 .. k : \A f \in [0 .. k -> V] : G[i][f] \in V
        <3>1. SUFFICES ASSUME NEW i \in 0 .. k, NEW f \in [0 .. k -> V]
                       PROVE  G[i][f] \in V
            OBVIOUS
        <3>2. i # 0 => f[i - 1] \in V
            BY <2>3
        <3> QED
            BY <1>3, <1>5, <1>6, <2>2, <3>2
    <2>5. G \in [0 .. k -> [[0 .. k -> V] -> V]]
        <3>1. \A i \in 0 .. k : G[i] \in [[0 .. k -> V] -> V]
            BY <2>1, <2>4
        <3> QED
            BY <2>1, <3>1
    <2>6. \A i \in 0 .. k : \A f, g \in [0 .. k -> V] :
              (\A j \in 0 .. k : j < i => f[j] = g[j]) => G[i][f] = G[i][g]
        <3>1. SUFFICES ASSUME NEW i \in 0 .. k, NEW f \in [0 .. k -> V], NEW g \in [0 .. k -> V],
                              \A j \in 0 .. k : j < i => f[j] = g[j]
                       PROVE  G[i][f] = G[i][g]
            OBVIOUS
        <3>3. i # 0 => f[i - 1] = g[i - 1]
            BY <2>3, <3>1
        <3> QED
            BY <2>2, <3>3
    <2>7. LooksUp(k, V, G)
        BY <2>5, <2>6 DEF LooksUp
    <2>8. IsRecursive(k, V, G)
        BY <1>2, <1>6, <2>7, RecursionUp
    <2>9. PICK f \in [0 .. k -> V] : \A i \in 0 .. k : f[i] = G[i][f]
        BY <2>8 DEF IsRecursive
    <2>10. IsAt(f)
        BY <2>2, <2>9
    <2> QED
        BY <2>9, <2>10
<1>8. PICK f : f = CHOOSE g : IsAt(g)
    OBVIOUS
<1>9. IsAt(f)
    BY <1>7, <1>8
<1>10. Qualified(m, path, bringing) = f[k]
    <2>1. Qualified(m, path, bringing) = (CHOOSE g : IsAt(g))[k]
        BY <1>1 DEF Qualified
    <2> QED
        BY <1>8, <2>1
<1>11. \A i \in 0 .. k : f[i] \in V
    <2>1. PICK B : B = {i \in 0 .. k : f[i] \notin V}
        OBVIOUS
    <2>2. SUFFICES ASSUME B # {}
                   PROVE  FALSE
        BY <2>1
    <2>3. PICK i \in B : \A j \in B : i <= j
        BY <2>1, <2>2, LeastNumber
    <2>4. i # 0 => i - 1 \in 0 .. k /\ ~(i <= i - 1)
        <3>1. i \in 0 .. k
            BY <2>1, <2>3
        <3> HIDE DEF IsAt
        <3> QED
            BY ONLY <1>2, <3>1
    <2>5. i # 0 => f[i - 1] \in V
        BY <2>1, <2>3, <2>4
    <2>6. f[i] = IF i = 0 THEN Start(m, path)
                 ELSE IF f[i - 1].is # "found" THEN f[i - 1]
                 ELSE Qualifier(f[i - 1].what, path.names[i]) ?? Answer("noModule")
        BY <1>9, <2>1
    <2>7. f[i] \in V
        BY <1>3, <1>5, <1>6, <2>5, <2>6
    <2> QED
        BY <2>1, <2>7
<1>12. k = 0 => f[k] = Start(m, path)
    BY <1>2, <1>9
<1> QED
    BY <1>1, <1>2, <1>6, <1>10, <1>11, <1>12 DEF V

-----------------------------------------------------------------------------
(* The entries of the modules.                                             *)
EntriesTyped == \A m \in Mod : IsSeq(entries[m])

(* The first of the indices of s that are in I, or 0: what SelectInSeq     *)
(* answers.                                                                *)
IsFirst(i, s, I) == /\ i = 0 => I = {}
                    /\ i # 0 => i \in I /\ i \in DOMAIN s /\ \A j \in I : i <= j

LEMMA LeastIndex ==
    ASSUME NEW s, IsSeq(s), NEW I, I \subseteq DOMAIN s
    PROVE  IsFirst(IF I # {} THEN Min(I) ELSE 0, s, I)
<1>1. PICK j \in Nat : DOMAIN s = 1 .. j
    BY SeqFacts
<1>2. CASE I = {}
    BY <1>2 DEF IsFirst
<1>3. CASE I # {}
    <2>1. I \subseteq Nat /\ 0 \notin I
        BY <1>1
    <2>2. PICK i \in I : \A k \in I : i <= k
        BY <1>3, <2>1, LeastNumber
    <2>3. Min(I) = i
        BY <2>1, <2>2, MinIsMember
    <2> QED
        BY <1>3, <2>1, <2>2, <2>3 DEF IsFirst
<1> QED
    BY <1>2, <1>3

OwnIndex(x, n) == SelectInSeq(entries[x], LAMBDA e : e.name = n)

LEMMA OwnIndexIs ==
    ASSUME EntriesTyped, NEW x \in Mod, NEW n
    PROVE  IsFirst(OwnIndex(x, n), entries[x], {i \in DOMAIN entries[x] : entries[x][i].name = n})
<1>1. PICK s : s = entries[x] /\ IsSeq(s)
    BY DEF EntriesTyped
<1>2. DOMAIN s = 1 .. Len(s)
    BY <1>1, SeqFacts
<1>3. PICK I : I = {i \in 1 .. Len(s) : s[i].name = n}
    OBVIOUS
<1>4. OwnIndex(x, n) = IF I # {} THEN Min(I) ELSE 0
    BY <1>1, <1>3 DEF OwnIndex, SelectInSeq
<1> QED
    BY <1>1, <1>2, <1>3, <1>4, LeastIndex

LEMMA PlaceIndexIs ==
    ASSUME EntriesTyped, here \in Mod
    PROVE  /\ HereEntry[1] = here
           /\ IsFirst(HereEntry[2], entries[here],
                      {i \in DOMAIN entries[here] : /\ entries[here][i].node = place.node
                                                   /\ entries[here][i].group = place.group})
<1>1. PICK s : s = entries[here] /\ IsSeq(s)
    BY DEF EntriesTyped
<1>2. DOMAIN s = 1 .. Len(s)
    BY <1>1, SeqFacts
<1>3. PICK I : I = {i \in 1 .. Len(s) : s[i].node = place.node /\ s[i].group = place.group}
    OBVIOUS
<1>4. HereEntry = <<here, IF I # {} THEN Min(I) ELSE 0>>
    BY <1>1, <1>3 DEF HereEntry, SelectInSeq
<1> QED
    BY <1>1, <1>2, <1>3, <1>4, LeastIndex

(* What the two searches for entries go on to, in the modules linked to.   *)
EachSubmodule(x, answer) == InUnnamedSubmodules(x, LAMBDA y : answer[y])
EachImport(x, answer)    == InUnnamedImports(x, LAMBDA y : answer[y])

LEMMA LinkedAnswers ==
    ASSUME NamesTyped, NEW x \in Mod, NEW V, None \in V, NEW answer, \A y \in Mod : answer[y] \in V
    PROVE  /\ EachSubmodule(x, answer) \in V
           /\ EachImport(x, answer) \in V
<1>1. EachSubmodule(x, answer) \in V
    <2>1. PICK s : s = SubmodulesOf(x) /\ IsSeq(s) /\ ToSet(s) \subseteq Mod
        BY DEF NamesTyped
    <2>2. PICK j \in Nat : DOMAIN s = 1 .. j
        BY <2>1, SeqFacts
    <2>3. \A i \in 1 .. j : s[i] \in Mod
        BY <2>1, <2>2 DEF ToSet
    <2>4. PICK a : a = [i \in 1 .. j |-> IF IsLib(s[i]) THEN None ELSE answer[s[i]]]
        OBVIOUS
    <2>5. DOMAIN a = 1 .. j /\ a = [i \in 1 .. j |-> a[i]] /\ \A i \in 1 .. j : a[i] \in V
        BY <2>3, <2>4
    <2>6. FirstOf(a) \in V
        BY <2>5, FirstIsTyped
    <2> QED
        BY <2>1, <2>2, <2>4, <2>6 DEF FirstAnswer, InUnnamedSubmodules, EachSubmodule
<1>2. EachImport(x, answer) \in V
    <2>1. PICK s : s = broughtModules[x] /\ IsSeq(s) /\ \A b \in ToSet(s) : b.mod \in Mod
        BY DEF NamesTyped
    <2>2. PICK j \in Nat : DOMAIN s = 1 .. j
        BY <2>1, SeqFacts
    <2>3. \A i \in 1 .. j : s[i].mod \in Mod
        BY <2>1, <2>2 DEF ToSet
    <2>4. PICK a : a = [i \in 1 .. j |-> IF IsUnnamedImport(s[i]) THEN answer[s[i].mod] ELSE None]
        OBVIOUS
    <2>5. DOMAIN a = 1 .. j /\ a = [i \in 1 .. j |-> a[i]] /\ \A i \in 1 .. j : a[i] \in V
        BY <2>3, <2>4
    <2>6. FirstOf(a) \in V
        BY <2>5, FirstIsTyped
    <2> QED
        BY <2>1, <2>2, <2>4, <2>6 DEF FirstAnswer, InUnnamedImports, EachImport
<1> QED
    BY <1>1, <1>2

EntryAnswers(n, x, answer) ==
    IF OwnIndex(x, n) # 0 THEN Found(<<x, OwnIndex(x, n)>>)
    ELSE EachSubmodule(x, answer) ?? EachImport(x, answer)

LEMMA EntriesAreTyped ==
    ASSUME NamesTyped, EntriesTyped, NEW n, NEW x \in Mod,
           NEW answer \in [Mod -> AnswersOf(AllEntries)]
    PROVE  EntryAnswers(n, x, answer) \in AnswersOf(AllEntries)
<1>1. PICK V : V = AnswersOf(AllEntries)
    OBVIOUS
<1>2. /\ None \in V /\ \A e \in AllEntries : Found(e) \in V
      /\ \A a, b \in V : a ?? b \in V
    BY <1>1, AnswersFacts
<1>3. \A y \in Mod : answer[y] \in V
    BY <1>1
<1>4. /\ EachSubmodule(x, answer) \in V
      /\ EachImport(x, answer) \in V
    BY <1>2, <1>3, LinkedAnswers
<1>5. OwnIndex(x, n) # 0 => <<x, OwnIndex(x, n)>> \in AllEntries
    BY OwnIndexIs DEF IsFirst, AllEntries
<1> QED
    BY <1>1, <1>2, <1>4, <1>5 DEF EntryAnswers


EntrySteps(n, a) ==
    a = [open \in SUBSET Mod |->
            [c \in Mod |-> IF c \in open THEN Answer("overflow")
                         ELSE EntryAnswers(n, c, a[open \cup {c}])]]

LEMMA EntryNamedHasSteps ==
    ASSUME NamesTyped, EntriesTyped, NEW n
    PROVE  \E a : /\ EntrySteps(n, a) /\ \A m : EntryNamed(m, n) = a[{}][m]
                 /\ \A p \in SUBSET Mod : a[p] \in [Mod -> AnswersOf(AllEntries)]
<1>1. PICK C, V : C = Mod /\ V = AnswersOf(AllEntries)
    OBVIOUS
<1>2. \A c \in C : \A h \in [C -> V] : EntryAnswers(n, c, h) \in V
    BY <1>1, EntriesAreTyped
<1>3. PICK R : R = [c \in C |-> [h \in [C -> V] |-> EntryAnswers(n, c, h)]]
    OBVIOUS
<1>4. R \in [C -> [[C -> V] -> V]]
    BY <1>2, <1>3
<1>5. Answer("overflow") \in V
    BY <1>1, AnswersFacts
<1>6. IsFiniteSet(C)
    BY <1>1, ModAssumption
<1>7. AreAnswered(C, V, Answer("overflow"), R)
    BY <1>4, <1>5, <1>6, CallsAreAnswered
<1>8. PICK g \in [SUBSET C -> [C -> V]] : AnsweredBy(C, Answer("overflow"), R, g)
    BY <1>7 DEF AreAnswered
<1>9. ASSUME NEW p \in SUBSET C
      PROVE  g[p] = [c \in C |-> IF c \in p THEN Answer("overflow")
                                ELSE EntryAnswers(n, c, g[p \cup {c}])]
    <2>1. \A c \in C : g[p \cup {c}] \in [C -> V]
        BY <1>8
    <2>2. \A c \in C : R[c][g[p \cup {c}]] = EntryAnswers(n, c, g[p \cup {c}])
        BY <1>3, <2>1
    <2>3. g[p] = [c \in C |-> IF c \in p THEN Answer("overflow") ELSE R[c][g[p \cup {c}]]]
        BY <1>8 DEF AnsweredBy
    <2> QED
        BY <2>2, <2>3
<1>10. EntrySteps(n, g)
    BY <1>1, <1>8, <1>9 DEF EntrySteps
<1>11. PICK a : a = CHOOSE b : EntrySteps(n, b)
    OBVIOUS
<1>12. EntrySteps(n, a)
    BY <1>10, <1>11
<1>13. \A m : EntryNamed(m, n) = (CHOOSE b : EntrySteps(n, b))[{}][m]
    BY DEF EntryNamed, EntryAnswers, OwnIndex, EachSubmodule, EachImport, Called, EntrySteps
<1>14. ASSUME NEW p \in SUBSET C, \A c \in C \ p : a[p \cup {c}] \in [C -> V]
       PROVE  a[p] = [c \in C |-> IF c \in p THEN Answer("overflow") ELSE R[c][a[p \cup {c}]]]
    <2>1. a[p] = [c \in C |-> IF c \in p THEN Answer("overflow")
                             ELSE EntryAnswers(n, c, a[p \cup {c}])]
        BY <1>1, <1>12 DEF EntrySteps
    <2>2. \A c \in C \ p : R[c][a[p \cup {c}]] = EntryAnswers(n, c, a[p \cup {c}])
        BY <1>3, <1>14
    <2>3. \A c \in C : (IF c \in p THEN Answer("overflow") ELSE R[c][a[p \cup {c}]])
                     = (IF c \in p THEN Answer("overflow") ELSE EntryAnswers(n, c, a[p \cup {c}]))
        BY <2>2
    <2> QED
        BY <2>1, <2>3
<1>15. \A p \in SUBSET C : a[p] \in [C -> V]
    <2>1. WhenTyped(C, V, Answer("overflow"), R, a)
        BY <1>14 DEF WhenTyped
    <2> QED
        BY <1>4, <1>5, <1>6, <2>1, AnswersAreTyped
<1> QED
    BY <1>1, <1>11, <1>12, <1>13, <1>15

(* A module that has an entry under a name answers with the first such.    *)
LEMMA EntryNamedIs ==
    ASSUME NamesTyped, EntriesTyped, NEW n, NEW m \in Mod
    PROVE  /\ EntryNamed(m, n) \in AnswersOf(AllEntries)
           /\ OwnIndex(m, n) # 0 => EntryNamed(m, n) = Found(<<m, OwnIndex(m, n)>>)
<1>1. PICK a : /\ EntrySteps(n, a) /\ \A x : EntryNamed(x, n) = a[{}][x]
               /\ \A p \in SUBSET Mod : a[p] \in [Mod -> AnswersOf(AllEntries)]
    BY EntryNamedHasSteps
<1>2. EntryNamed(m, n) = a[{}][m] /\ a[{}] \in [Mod -> AnswersOf(AllEntries)]
    BY <1>1
<1>3. a[{}][m] = EntryAnswers(n, m, a[{} \cup {m}])
    <2>1. a[{}] = [c \in Mod |-> IF c \in {} THEN Answer("overflow")
                                ELSE EntryAnswers(n, c, a[{} \cup {c}])]
        BY <1>1 DEF EntrySteps
    <2> QED
        BY <2>1
<1> QED
    BY <1>2, <1>3 DEF EntryAnswers

BelowAnswers(n, x, answer) ==
    InUnnamedSubmodules(x, LAMBDA y : EntryNamed(y, n) ?? answer[y])
        ?? FirstAnswer(broughtModules[x], LAMBDA b :
               IF b.name = NoName THEN EntryNamed(b.mod, n) ?? answer[b.mod] ELSE None)

LEMMA BelowAreTyped ==
    ASSUME NamesTyped, EntriesTyped, NEW n, NEW x \in Mod,
           NEW answer \in [Mod -> AnswersOf(AllEntries)]
    PROVE  BelowAnswers(n, x, answer) \in AnswersOf(AllEntries)
<1>1. PICK V : V = AnswersOf(AllEntries)
    OBVIOUS
<1>2. None \in V /\ \A a, b \in V : a ?? b \in V
    BY <1>1, AnswersFacts
<1>3. \A y \in Mod : EntryNamed(y, n) ?? answer[y] \in V
    <2>1. \A y \in Mod : EntryNamed(y, n) \in V /\ answer[y] \in V
        BY <1>1, EntryNamedIs
    <2> QED
        BY <1>2, <2>1
<1>4. InUnnamedSubmodules(x, LAMBDA y : EntryNamed(y, n) ?? answer[y]) \in V
    <2>1. PICK s : s = SubmodulesOf(x) /\ IsSeq(s) /\ ToSet(s) \subseteq Mod
        BY DEF NamesTyped
    <2>2. PICK j \in Nat : DOMAIN s = 1 .. j
        BY <2>1, SeqFacts
    <2>3. \A i \in 1 .. j : s[i] \in Mod
        BY <2>1, <2>2 DEF ToSet
    <2>4. PICK a : a = [i \in 1 .. j |-> IF IsLib(s[i]) THEN None
                                        ELSE EntryNamed(s[i], n) ?? answer[s[i]]]
        OBVIOUS
    <2>5. DOMAIN a = 1 .. j /\ a = [i \in 1 .. j |-> a[i]] /\ \A i \in 1 .. j : a[i] \in V
        BY <1>2, <1>3, <2>3, <2>4
    <2>6. FirstOf(a) \in V
        BY <1>2, <2>5, FirstIsTyped
    <2> QED
        BY <2>1, <2>2, <2>4, <2>6 DEF FirstAnswer, InUnnamedSubmodules
<1>5. FirstAnswer(broughtModules[x], LAMBDA b :
          IF b.name = NoName THEN EntryNamed(b.mod, n) ?? answer[b.mod] ELSE None) \in V
    <2>1. PICK s : s = broughtModules[x] /\ IsSeq(s) /\ \A b \in ToSet(s) : b.mod \in Mod
        BY DEF NamesTyped
    <2>2. PICK j \in Nat : DOMAIN s = 1 .. j
        BY <2>1, SeqFacts
    <2>3. \A i \in 1 .. j : s[i].mod \in Mod
        BY <2>1, <2>2 DEF ToSet
    <2>4. PICK a : a = [i \in 1 .. j |-> IF s[i].name = NoName
                                        THEN EntryNamed(s[i].mod, n) ?? answer[s[i].mod] ELSE None]
        OBVIOUS
    <2>5. DOMAIN a = 1 .. j /\ a = [i \in 1 .. j |-> a[i]] /\ \A i \in 1 .. j : a[i] \in V
        BY <1>2, <1>3, <2>3, <2>4
    <2>6. FirstOf(a) \in V
        BY <1>2, <2>5, FirstIsTyped
    <2> QED
        BY <2>1, <2>2, <2>4, <2>6 DEF FirstAnswer
<1> QED
    BY <1>1, <1>2, <1>4, <1>5 DEF BelowAnswers


BelowSteps(n, a) ==
    a = [open \in SUBSET Mod |->
            [c \in Mod |-> IF c \in open THEN Answer("overflow")
                         ELSE BelowAnswers(n, c, a[open \cup {c}])]]

LEMMA EntryBelowHasSteps ==
    ASSUME NamesTyped, EntriesTyped, NEW n
    PROVE  \E a : /\ BelowSteps(n, a) /\ \A m : EntryBelow(m, n) = a[{}][m]
                 /\ \A p \in SUBSET Mod : a[p] \in [Mod -> AnswersOf(AllEntries)]
<1>1. PICK C, V : C = Mod /\ V = AnswersOf(AllEntries)
    OBVIOUS
<1>2. \A c \in C : \A h \in [C -> V] : BelowAnswers(n, c, h) \in V
    BY <1>1, BelowAreTyped
<1>3. PICK R : R = [c \in C |-> [h \in [C -> V] |-> BelowAnswers(n, c, h)]]
    OBVIOUS
<1>4. R \in [C -> [[C -> V] -> V]]
    BY <1>2, <1>3
<1>5. Answer("overflow") \in V
    BY <1>1, AnswersFacts
<1>6. IsFiniteSet(C)
    BY <1>1, ModAssumption
<1>7. AreAnswered(C, V, Answer("overflow"), R)
    BY <1>4, <1>5, <1>6, CallsAreAnswered
<1>8. PICK g \in [SUBSET C -> [C -> V]] : AnsweredBy(C, Answer("overflow"), R, g)
    BY <1>7 DEF AreAnswered
<1>9. ASSUME NEW p \in SUBSET C
      PROVE  g[p] = [c \in C |-> IF c \in p THEN Answer("overflow")
                                ELSE BelowAnswers(n, c, g[p \cup {c}])]
    <2>1. \A c \in C : g[p \cup {c}] \in [C -> V]
        BY <1>8
    <2>2. \A c \in C : R[c][g[p \cup {c}]] = BelowAnswers(n, c, g[p \cup {c}])
        BY <1>3, <2>1
    <2>3. g[p] = [c \in C |-> IF c \in p THEN Answer("overflow") ELSE R[c][g[p \cup {c}]]]
        BY <1>8 DEF AnsweredBy
    <2> QED
        BY <2>2, <2>3
<1>10. BelowSteps(n, g)
    BY <1>1, <1>8, <1>9 DEF BelowSteps
<1>11. PICK a : a = CHOOSE b : BelowSteps(n, b)
    OBVIOUS
<1>12. BelowSteps(n, a)
    BY <1>10, <1>11
<1>13. \A m : EntryBelow(m, n) = (CHOOSE b : BelowSteps(n, b))[{}][m]
    BY DEF EntryBelow, BelowAnswers, Called, BelowSteps
<1>14. ASSUME NEW p \in SUBSET C, \A c \in C \ p : a[p \cup {c}] \in [C -> V]
       PROVE  a[p] = [c \in C |-> IF c \in p THEN Answer("overflow") ELSE R[c][a[p \cup {c}]]]
    <2>1. a[p] = [c \in C |-> IF c \in p THEN Answer("overflow")
                             ELSE BelowAnswers(n, c, a[p \cup {c}])]
        BY <1>1, <1>12 DEF BelowSteps
    <2>2. \A c \in C \ p : R[c][a[p \cup {c}]] = BelowAnswers(n, c, a[p \cup {c}])
        BY <1>3, <1>14
    <2>3. \A c \in C : (IF c \in p THEN Answer("overflow") ELSE R[c][a[p \cup {c}]])
                     = (IF c \in p THEN Answer("overflow") ELSE BelowAnswers(n, c, a[p \cup {c}]))
        BY <2>2
    <2> QED
        BY <2>1, <2>3
<1>15. \A p \in SUBSET C : a[p] \in [C -> V]
    <2>1. WhenTyped(C, V, Answer("overflow"), R, a)
        BY <1>14 DEF WhenTyped
    <2> QED
        BY <1>4, <1>5, <1>6, <2>1, AnswersAreTyped
<1> QED
    BY <1>1, <1>11, <1>12, <1>13, <1>15

LEMMA EntryBelowIs ==
    ASSUME NamesTyped, EntriesTyped, NEW n, NEW m \in Mod
    PROVE  EntryBelow(m, n) \in AnswersOf(AllEntries)
<1>1. PICK a : /\ \A x : EntryBelow(x, n) = a[{}][x]
               /\ \A p \in SUBSET Mod : a[p] \in [Mod -> AnswersOf(AllEntries)]
    BY EntryBelowHasSteps
<1>2. EntryBelow(m, n) = a[{}][m] /\ a[{}] \in [Mod -> AnswersOf(AllEntries)]
    BY <1>1
<1> QED
    BY <1>2

-----------------------------------------------------------------------------
(* What looking a name up comes to, as an outcome: it is found, or there   *)
(* is a reason, never that the program is stuck.                           *)
Proper(a) == a.is \in {"found"} \cup Refusals

LEMMA ProperFacts ==
    /\ \A a, b : Proper(a) /\ Proper(b) => Proper(a ?? b) /\ Proper(NotAValue(a))
    /\ \A t \in Refusals : Proper(Answer(t))
    /\ \A x : Proper(Found(x))
    /\ Proper(None)
    /\ \A E : \A a \in AnswersOf(E) : Proper(a)
    /\ \A S, a : OneOf(a, S) => Proper(a)
<1>1. \A t \in Refusals : Proper(Answer(t))
    BY DEF Proper, Answer
<1>2. \A x : Proper(Found(x))
    BY DEF Proper, Found
<1>3. Proper(None)
    BY <1>1 DEF None, Refusals
<1>4. \A a, b : Proper(a) /\ Proper(b) => Proper(a ?? b) /\ Proper(NotAValue(a))
    BY <1>1 DEF ??, NotAValue, Refusals
<1> QED
    BY <1>1, <1>2, <1>3, <1>4 DEF AnswersOf, OneOf

LEMMA FirstIsProper ==
    ASSUME NEW n \in Nat, NEW a, DOMAIN a = 1 .. n, a = [i \in 1 .. n |-> a[i]],
           \A i \in 1 .. n : Proper(a[i])
    PROVE  Proper(FirstOf(a))
BY FirstOfIs, ProperFacts

LEMMA LookupsAreProper ==
    ASSUME NamesTyped, NEW m \in Mod, NEW n, NEW who, NEW s
    PROVE  /\ Proper(has(s, m, n, who)) /\ Proper(has_in_imports(s, m, n, who))
           /\ Proper(EntityNamed(s, m, n, who))
           /\ Proper(has_brought(s.kind, m, n, who))
<1>1. \A f \in {"has", "inImports", "named"} : <<f, m>> \in Calls
    BY DEF Calls
<1>2. \A c \in Calls : Proper(Lookup(s, n, who)[c])
    BY LookupIsTyped, ProperFacts
<1>3. Proper(has_brought(s.kind, m, n, who))
    BY BroughtAnswer, ProperFacts
<1> QED
    BY <1>1, <1>2, <1>3 DEF has, has_in_imports, EntityNamed

LEMMA FirstNamedIsProper ==
    ASSUME NamesTyped, NEW m \in Mod, NEW n, NEW who, NEW order, NEW j \in Nat, DOMAIN order = 1 .. j
    PROVE  Proper(FirstNamed(order, m, n, who))
<1>1. PICK a : a = [i \in 1 .. j |-> EntityNamed(order[i], m, n, who)]
    OBVIOUS
<1>2. FirstNamed(order, m, n, who) = FirstOf(a)
    BY <1>1 DEF FirstNamed, FirstAnswer
<1>3. DOMAIN a = 1 .. j /\ a = [i \in 1 .. j |-> a[i]] /\ \A i \in 1 .. j : Proper(a[i])
    BY <1>1, LookupsAreProper
<1> QED
    BY <1>2, <1>3, FirstIsProper

LEMMA OrdersHaveDomains ==
    /\ DOMAIN CheckOrder = 1 .. 11 /\ DOMAIN BringOrder = 1 .. 12
    /\ DOMAIN TypeOrder = 1 .. 8 /\ DOMAIN GenericOrder = 1 .. 3
    /\ DOMAIN <<function, global>> = 1 .. 2
BY DEF CheckOrder, BringOrder, TypeOrder, GenericOrder

LEMMA ChecksAreProper ==
    ASSUME NamesTyped, NEW m \in Mod, NEW n, NEW who
    PROVE  /\ Proper(name_check_in_module(m, n))
           /\ Proper(Bringable(m, n, who))
           /\ Proper(ValueNamed(m, n, who))
<1>1. \A s : Proper(Taken(s, m, n))
    BY LookupsAreProper, ProperFacts DEF Taken
<1>2. Proper(FirstAnswer(CheckOrder, LAMBDA s : Taken(s, m, n)))
    <2>1. PICK a : a = [i \in 1 .. 11 |-> Taken(CheckOrder[i], m, n)]
        OBVIOUS
    <2>2. DOMAIN a = 1 .. 11 /\ a = [i \in 1 .. 11 |-> a[i]] /\ \A i \in 1 .. 11 : Proper(a[i])
        BY <1>1, <2>1
    <2>3. Proper(FirstOf(a))
        BY <2>2, FirstIsProper
    <2> QED
        BY <2>1, <2>3, OrdersHaveDomains DEF FirstAnswer
<1>3. /\ Proper(has_lib(m, n, m)) /\ Proper(has_lib_in_imports(m, n, m))
      /\ Proper(lib(m, n, who))
    BY LibLookupIsTyped, ProperFacts
<1>4. Proper(has_brought_lib(m, n, NoMod))
    BY BroughtLibAnswer, ProperFacts
<1>5. Proper(has(opaque_type, m, n, m))
    BY LookupsAreProper
<1>6. Proper(name_check_in_module(m, n))
    BY <1>2, <1>3, <1>4, <1>5, ProperFacts DEF name_check_in_module
<1>7. Proper(Bringable(m, n, who))
    BY OrdersHaveDomains, FirstNamedIsProper DEF Bringable
<1>8. /\ Proper(FirstNamed(<<function, global>>, m, n, who))
      /\ Proper(FirstNamed(TypeOrder, m, n, who)) /\ Proper(FirstNamed(GenericOrder, m, n, who))
    BY OrdersHaveDomains, FirstNamedIsProper
<1>9. Proper(Answer("noEntity"))
    BY ProperFacts DEF Refusals
<1>10. Proper(ValueNamed(m, n, who))
    BY <1>3, <1>8, <1>9, ProperFacts DEF ValueNamed
<1> QED
    BY <1>6, <1>7, <1>10

-----------------------------------------------------------------------------
(* The invariant.  The places of the entries: the groups of a node, 0 for  *)
(* a declaration and for the sentence itself; the name an entry of a group *)
(* has.                                                                    *)
GroupsOf(d) == IF d.is = "bring" THEN 0 .. Len(d.groups) ELSE {0}
IsPlace(m, i, g) == i \in DOMAIN program.nodes[m] /\ g \in GroupsOf(program.nodes[m][i])
GroupName(g) == IF g.alias # NoName THEN g.alias ELSE Last(g.path.names)

NamesInv ==
    /\ program \in Programs
    /\ defined = [m \in Mod |-> defined[m]]
    /\ broughtModules = [m \in Mod |-> broughtModules[m]]
    /\ broughtEntities = [m \in Mod |-> broughtEntities[m]]
    /\ \A m \in Mod : IsSeq(defined[m]) /\ \A e \in ToSet(defined[m]) : e.kind \in Kind
    /\ \A m \in Mod : IsSeq(broughtModules[m]) /\ \A b \in ToSet(broughtModules[m]) : b.mod \in Mod
    /\ \A m \in Mod : IsSeq(broughtEntities[m])

EntryIsOfNode(e) ==
    /\ e[1] \in ToSet(program.order)
    /\ IsPlace(e[1], Entry(e).node, Entry(e).group)
    /\ Entry(e).group > 0 => Entry(e).name = GroupName(Declaration(e).groups[Entry(e).group])

EntriesInv ==
    /\ entries = [m \in Mod |-> entries[m]]
    /\ \A m \in Mod : IsSeq(entries[m])
    /\ \A e \in AllEntries : EntryIsOfNode(e)

PlaceInv ==
    /\ place \in [mod : Nat \ {0}, node : Nat \ {0}, group : Nat]
    /\ place.group > 0 => AtNode /\ node.is = "bring" /\ place.group <= Len(node.groups)

(* What the pass create_entities has passed has its entries.               *)
HasEntry(m, i, g) ==
    \E k \in DOMAIN entries[m] : entries[m][k].node = i /\ entries[m][k].group = g
Passed(j, i, g) ==
    \/ j < place.mod
    \/ j = place.mod /\ i < place.node
    \/ j = place.mod /\ i = place.node /\ g < place.group

CreatedInv ==
    \A j \in DOMAIN program.order : \A i, g :
        IsPlace(program.order[j], i, g) /\ (pass # "create" \/ Passed(j, i, g))
        => HasEntry(program.order[j], i, g)

WaitsInv ==
    /\ complete \subseteq AllEntries
    /\ DOMAIN waits \subseteq AllEntries
    /\ \A e \in DOMAIN waits : waits[e] \in AllEntries
    /\ pass = "create" => DOMAIN waits = {}
    /\ pass = "emit" /\ place.group > 0 => active \in AllEntries
    /\ \A e \in DOMAIN waits : IsBareGroup(e) => waits[e][1] = e[1] /\ waits[e][2] < e[2]

(* When nothing goes on, whatever is not complete waits for another such.  *)
StuckInv ==
    outcome = "stuck" =>
        /\ AllEntries # complete
        /\ \A e \in AllEntries \ complete : e \in DOMAIN waits /\ waits[e] \notin complete

Inv == NamesInv /\ EntriesInv /\ PlaceInv /\ CreatedInv /\ WaitsInv /\ StuckInv

-----------------------------------------------------------------------------
(* A program, and the node the pass is at.                                 *)
LEMMA ProgramFacts ==
    ASSUME program \in Programs
    PROVE  /\ program \in ProgramType
           /\ program.order \in Seq(Mod) /\ ToSet(program.order) \subseteq Mod
           /\ DOMAIN program.order = 1 .. Len(program.order) /\ Len(program.order) \in Nat
           /\ \A j \in DOMAIN program.order :
                  program.order[j] \in Mod /\ program.order[j] \in ToSet(program.order)
           /\ \A m \in Mod : /\ program.nodes[m] \in Seq(NodeType)
                             /\ DOMAIN program.nodes[m] = 1 .. Len(program.nodes[m])
                             /\ Len(program.nodes[m]) \in Nat
                             /\ \A i \in DOMAIN program.nodes[m] : program.nodes[m][i] \in NodeType
           /\ \A m \in Mod : program.submodules[m] \in Seq(Mod)
           /\ program.brings \in [Mod -> Seq(BringType)]
<1>1. program \in ProgramType
    BY ProgramsAssumption
<1>2. /\ program.order \in Seq(Mod) /\ program.nodes \in [Mod -> Seq(NodeType)]
      /\ program.submodules \in [Mod -> Seq(Mod)] /\ program.brings \in [Mod -> Seq(BringType)]
    BY <1>1 DEF ProgramType
<1>3. \A S : \A s \in Seq(S) : /\ DOMAIN s = 1 .. Len(s) /\ Len(s) \in Nat
                               /\ \A i \in DOMAIN s : s[i] \in S /\ s[i] \in ToSet(s)
    BY LenProperties, ElementOfSeq DEF ToSet
<1>4. \A j \in DOMAIN program.order :
          program.order[j] \in Mod /\ program.order[j] \in ToSet(program.order)
    BY <1>2, <1>3
<1>5. ToSet(program.order) \subseteq Mod
    BY <1>4 DEF ToSet
<1> QED
    BY <1>1, <1>2, <1>3, <1>4, <1>5

LEMMA NodeFacts ==
    ASSUME NEW d \in NodeType
    PROVE  /\ d.is = "bring" => /\ d.groups \in Seq(GroupType) /\ Len(d.groups) \in Nat \ {0}
                                /\ DOMAIN d.groups = 1 .. Len(d.groups)
                                /\ \A g \in 1 .. Len(d.groups) :
                                      d.groups[g] \in GroupType /\ d.groups[g].path \in PathType
           /\ d.is # "bring" => /\ d.is = "define" /\ d.kind \in Kind
                                /\ d.uses \in Seq(PathType)
                                /\ d.uses # <<>> => Head(d.uses) \in PathType
           /\ d.is = "define" => d.is # "bring"
<1>1. CASE d \in [is : {"define"}, kind : Kind, name : Name, spec : SpecType, uses : Seq(PathType)]
    <2>1. d.is = "define" /\ d.kind \in Kind /\ d.uses \in Seq(PathType)
        BY <1>1
    <2>2. d.uses # <<>> => Head(d.uses) \in PathType
        BY <2>1, HeadTailProperties
    <2> QED
        BY <2>1, <2>2
<1>2. CASE d \in [is : {"bring"}, groups : Seq(GroupType) \ {<<>>}, spec : SpecType]
    <2>1. d.is = "bring" /\ d.groups \in Seq(GroupType) /\ d.groups # <<>>
        BY <1>2
    <2>2. Len(d.groups) \in Nat \ {0} /\ DOMAIN d.groups = 1 .. Len(d.groups)
        BY <2>1, LenProperties, EmptySeq
    <2>3. \A g \in 1 .. Len(d.groups) : d.groups[g] \in GroupType
        BY <2>1, ElementOfSeq
    <2>4. \A g \in GroupType : g.path \in PathType
        BY DEF GroupType
    <2> QED
        BY <2>1, <2>2, <2>3, <2>4
<1> QED
    BY <1>1, <1>2 DEF NodeType

LEMMA NamesAreTyped ==
    ASSUME NamesInv
    PROVE  NamesTyped
<1>1. \A m \in Mod : program.submodules[m] \in Seq(Mod)
    BY ProgramFacts DEF NamesInv
<1>2. \A m \in Mod : IsSeq(SubmodulesOf(m)) /\ ToSet(SubmodulesOf(m)) \subseteq Mod
    BY <1>1, SeqOfIsSeq, ElementsOfSeq DEF SubmodulesOf
<1> QED
    BY <1>2 DEF NamesTyped, NamesInv

(* A list of some module grows by one.                                     *)
Lists(f) == f = [m \in Mod |-> f[m]] /\ \A m \in Mod : IsSeq(f[m])
Grown(f, h, x, g) ==
    /\ \A m \in Mod : \A y \in ToSet(g[m]) : y \in ToSet(f[m]) \/ (m = h /\ y = x)
    /\ \A m \in Mod : \A i \in DOMAIN f[m] : i \in DOMAIN g[m] /\ g[m][i] = f[m][i]
    /\ \A m \in Mod : \A i \in DOMAIN g[m] : i \in DOMAIN f[m] \/ (m = h /\ i = Len(f[h]) + 1)
    /\ Len(f[h]) + 1 \in DOMAIN g[h] /\ g[h][Len(f[h]) + 1] = x

LEMMA ListGrows ==
    ASSUME NEW f, Lists(f), NEW h \in Mod, NEW x, NEW g, g = [f EXCEPT ![h] = Append(f[h], x)]
    PROVE  Lists(g) /\ Grown(f, h, x, g)
<1> USE DEF Lists
<1>1. g = [m \in Mod |-> IF m = h THEN Append(f[h], x) ELSE f[m]]
    BY Zenon
<1>2. IsSeq(f[h]) /\ DOMAIN f[h] = 1 .. Len(f[h]) /\ Len(f[h]) \in Nat
    BY SeqFacts
<1>3. PICK s : s = Append(f[h], x)
    OBVIOUS
<1>4. /\ IsSeq(s) /\ DOMAIN s = 1 .. Len(f[h]) + 1 /\ s[Len(f[h]) + 1] = x
      /\ \A i \in 1 .. Len(f[h]) : s[i] = f[h][i]
      /\ ToSet(s) = ToSet(f[h]) \cup {x}
    BY <1>2, <1>3, AppendAny, AppendAdds
<1>5. \A m \in Mod : g[m] = IF m = h THEN s ELSE f[m]
    BY <1>1, <1>3
<1>6. g = [m \in Mod |-> g[m]]
    BY <1>1
<1>7. \A m \in Mod : IsSeq(g[m])
    BY <1>4, <1>5
<1>8. \A m \in Mod : \A y \in ToSet(g[m]) : y \in ToSet(f[m]) \/ (m = h /\ y = x)
    BY <1>4, <1>5
<1>9. \A m \in Mod : \A i \in DOMAIN f[m] : i \in DOMAIN g[m] /\ g[m][i] = f[m][i]
    BY <1>2, <1>4, <1>5
<1>10. \A m \in Mod : \A i \in DOMAIN g[m] : i \in DOMAIN f[m] \/ (m = h /\ i = Len(f[h]) + 1)
    BY <1>2, <1>4, <1>5
<1>11. Len(f[h]) + 1 \in DOMAIN g[h] /\ g[h][Len(f[h]) + 1] = x
    BY <1>2, <1>4, <1>5
<1> QED
    BY <1>6, <1>7, <1>8, <1>9, <1>10, <1>11 DEF Grown

(* Where the pass is: a node of a module of the program.                   *)
LEMMA HereFacts ==
    ASSUME NamesInv, PlaceInv, AtNode
    PROVE  /\ place.mod \in DOMAIN program.order /\ here = program.order[place.mod]
           /\ here \in Mod /\ here \in ToSet(program.order)
           /\ place.node \in DOMAIN program.nodes[here]
           /\ node = program.nodes[here][place.node] /\ node \in NodeType
           /\ IsPlace(here, place.node, place.group)
           /\ place.group > 0 => group \in GroupType /\ group.path \in PathType
<1>1. place.mod \in Nat \ {0} /\ place.node \in Nat \ {0} /\ place.group \in Nat
    BY DEF PlaceInv
<1>2. program \in Programs
    BY DEF NamesInv
<1>3. place.mod \in DOMAIN program.order
    BY <1>1, <1>2, ProgramFacts DEF AtNode
<1>4. here = program.order[place.mod] /\ here \in Mod /\ here \in ToSet(program.order)
    BY <1>2, <1>3, ProgramFacts DEF here
<1>5. place.node \in DOMAIN program.nodes[here]
    BY <1>1, <1>2, <1>4, ProgramFacts DEF AtNode
<1>6. node = program.nodes[here][place.node] /\ node \in NodeType
    BY <1>2, <1>4, <1>5, ProgramFacts DEF node, NodeOf
<1>7. place.group > 0 => node.is = "bring" /\ place.group \in 1 .. Len(node.groups)
    <2>1. node.is = "bring" => Len(node.groups) \in Nat
        BY <1>6, NodeFacts
    <2> QED
        BY <1>1, <2>1 DEF PlaceInv
<1>8. place.group \in GroupsOf(node)
    <2>1. node.is = "bring" => Len(node.groups) \in Nat
        BY <1>6, NodeFacts
    <2> QED
        BY <1>1, <1>7, <2>1 DEF GroupsOf
<1>9. IsPlace(here, place.node, place.group)
    BY <1>5, <1>6, <1>8 DEF IsPlace
<1>10. place.group > 0 => group \in GroupType /\ group.path \in PathType
    BY <1>6, <1>7, NodeFacts DEF group
<1> QED
    BY <1>3, <1>4, <1>5, <1>6, <1>9, <1>10

(* The modules the group the pass is at is about.                          *)
LEMMA TargetsAreTyped ==
    ASSUME NamesInv, PlaceInv, AtNode, place.group > 0
    PROVE  /\ GroupParent \in AnswersOf(Mod) /\ GroupParent.is # "none"
           /\ GroupModule \in AnswersOf(Mod)
           /\ GroupModule.is = "found" => GroupModule.what \in Mod
           /\ GroupModule.is = "none" => GroupParent.is = "found" /\ GroupParent.what \in Mod
           /\ (group.path.relative = 0 /\ Len(group.path.names) = 1) => GroupParent = Found(here)
<1>1. NamesTyped /\ program \in ProgramType
    BY NamesAreTyped, ProgramFacts DEF NamesInv
<1>2. here \in Mod /\ group.path \in PathType
    BY HereFacts
<1>3. /\ GroupParent \in AnswersOf(Mod) /\ GroupParent.is # "none"
      /\ (group.path.relative = 0 /\ Len(group.path.names) = 1) => GroupParent = Found(here)
    BY <1>1, <1>2, QualifiedIsTyped DEF GroupParent
<1>4. GroupParent.is = "found" => GroupParent.what \in Mod
    BY <1>3, AnswersFacts
<1>5. GroupModule = IF GroupParent.is # "found" THEN GroupParent
                    ELSE BringQualifier(GroupParent.what, LastName, here)
    BY DEF GroupModule
<1>6. GroupModule \in AnswersOf(Mod)
    BY <1>1, <1>3, <1>4, <1>5, QualifiersAreTyped
<1>7. GroupModule.is = "found" => GroupModule.what \in Mod
    BY <1>6, AnswersFacts
<1> QED
    BY <1>3, <1>4, <1>5, <1>6, <1>7

(* The pass goes on to the next group or to the next node.                 *)
LEMMA AdvanceFacts ==
    ASSUME NamesInv, PlaceInv, AtNode, Advance, program' = program
    PROVE  /\ PlaceInv'
           /\ \A j, i, g : IsPlace(program.order[j], i, g) /\ Passed(j, i, g)'
                           => Passed(j, i, g)
                              \/ (j = place.mod /\ i = place.node /\ g = place.group)
<1>1. place \in [mod : Nat \ {0}, node : Nat \ {0}, group : Nat]
    BY DEF PlaceInv
<1>2. /\ here \in Mod /\ node = program.nodes[here][place.node] /\ here = program.order[place.mod]
      /\ place.node \in DOMAIN program.nodes[here] /\ node \in NodeType
    BY HereFacts
<1>3. node.is = "bring" => Len(node.groups) \in Nat
    BY <1>2, NodeFacts
<1>4. DOMAIN program.nodes[here] = 1 .. Len(program.nodes[here]) /\ Len(program.nodes[here]) \in Nat
    BY <1>2, ProgramFacts DEF NamesInv
<1>5. CASE node.is = "bring" /\ place.group < Len(node.groups)
    <2>1. /\ place'.mod = place.mod /\ place'.node = place.node
          /\ place'.group = place.group + 1
          /\ place' \in [mod : Nat \ {0}, node : Nat \ {0}, group : Nat]
        BY <1>1, <1>5 DEF Advance
    <2>2. here' = here /\ node' = node
        BY <2>1 DEF here, node, NodeOf
    <2>3. AtNode'
        BY <2>1, <2>2 DEF AtNode
    <2>4. PlaceInv'
        BY <1>1, <1>3, <1>5, <2>1, <2>2, <2>3 DEF PlaceInv
    <2>5. ASSUME NEW j, NEW i, NEW g, IsPlace(program.order[j], i, g), Passed(j, i, g)'
          PROVE  Passed(j, i, g) \/ (j = place.mod /\ i = place.node /\ g = place.group)
        <3>1. (j = place.mod /\ i = place.node) => g \in Nat
            BY <1>2, <2>5 DEF IsPlace, GroupsOf
        <3> QED
            BY <1>1, <2>1, <2>5, <3>1 DEF Passed
    <2> QED
        BY <2>4, <2>5
<1>6. CASE ~(node.is = "bring" /\ place.group < Len(node.groups))
    <2>1. /\ place'.mod = place.mod /\ place'.node = place.node + 1 /\ place'.group = 0
          /\ place' \in [mod : Nat \ {0}, node : Nat \ {0}, group : Nat]
        <3>1. place' = [place EXCEPT !.node = @ + 1, !.group = 0]
            BY <1>6 DEF Advance
        <3>2. place = [mod |-> place.mod, node |-> place.node, group |-> place.group]
            BY <1>1
        <3>3. place' = [mod |-> place.mod, node |-> place.node + 1, group |-> 0]
            BY <3>1, <3>2
        <3> QED
            BY <1>1, <3>3
    <2>2. PlaceInv'
        BY <2>1 DEF PlaceInv
    <2>3. ASSUME NEW j, NEW i, NEW g, IsPlace(program.order[j], i, g), Passed(j, i, g)'
          PROVE  Passed(j, i, g) \/ (j = place.mod /\ i = place.node /\ g = place.group)
        <3>1. CASE j = place.mod
            <4>1. i \in DOMAIN program.nodes[here] /\ g \in GroupsOf(program.nodes[here][i])
                BY <1>2, <2>3, <3>1 DEF IsPlace
            <4>2. i \in Nat
                BY <1>4, <4>1
            <4>3. i = place.node => g \in Nat /\ g <= place.group
                <5>1. PICK x : x = program.nodes[here][i]
                    OBVIOUS
                <5>2. g \in GroupsOf(x)
                    BY <4>1, <5>1
                <5>3. ASSUME i = place.node PROVE x = node
                    BY <1>2, <5>1, <5>3
                <5>4. ASSUME i = place.node PROVE g \in Nat /\ g <= place.group
                    BY <1>1, <1>3, <1>6, <5>2, <5>3, <5>4 DEF GroupsOf
                <5> QED
                    BY <5>4
            <4>4. i < place.node + 1 \/ (i = place.node + 1 /\ g < 0)
                BY <2>1, <2>3, <3>1, <1>1 DEF Passed
            <4>5. i < place.node \/ i = place.node \/ (i = place.node + 1 /\ g < 0)
                BY <1>1, <4>2, <4>4
            <4>6. i = place.node + 1 => g \in Nat
                <5>1. program.nodes[here][i] \in NodeType
                    BY <1>2, <4>1, ProgramFacts DEF NamesInv
                <5> QED
                    BY <4>1, <5>1, NodeFacts DEF GroupsOf
            <4> QED
                BY <1>1, <3>1, <4>2, <4>3, <4>5, <4>6 DEF Passed
        <3>2. CASE j # place.mod
            BY <2>1, <2>3, <3>2 DEF Passed
        <3> QED
            BY <3>1, <3>2
    <2> QED
        BY <2>2, <2>3
<1> QED
    BY <1>5, <1>6

(* What is said of the entries says nothing else of the state.             *)
LEMMA SameEntries ==
    ASSUME program' = program, entries' = entries
    PROVE  /\ AllEntries' = AllEntries
           /\ EntriesInv => EntriesInv'
           /\ \A e : IsBareGroup(e)' <=> IsBareGroup(e)
           /\ \A m, i, g : HasEntry(m, i, g) => HasEntry(m, i, g)'
           /\ \A m, i, g : IsPlace(m, i, g)' <=> IsPlace(m, i, g)
<1>1. AllEntries' = AllEntries
    BY DEF AllEntries
<1>2. \A e : Entry(e)' = Entry(e) /\ Declaration(e)' = Declaration(e)
    BY DEF Entry, Declaration, NodeOf
<1>3. \A m, i, g : IsPlace(m, i, g)' <=> IsPlace(m, i, g)
    BY DEF IsPlace
<1>4. \A e : EntryIsOfNode(e)' <=> EntryIsOfNode(e)
    BY <1>2, <1>3 DEF EntryIsOfNode
<1>5. \A e : IsBareGroup(e)' <=> IsBareGroup(e)
    BY <1>2 DEF IsBareGroup, IsDeclaration
<1> QED
    BY <1>1, <1>3, <1>4, <1>5 DEF EntriesInv, HasEntry

-----------------------------------------------------------------------------
(* How the parts of the invariant are kept: by what leaves them alone ...  *)
LEMMA NamesStay ==
    ASSUME NamesInv, UNCHANGED <<program, namesVars>>
    PROVE  NamesInv'
BY DEF NamesInv, namesVars

LEMMA PlaceStays ==
    ASSUME PlaceInv, program' = program, place' = place
    PROVE  PlaceInv'
BY DEF PlaceInv, AtNode, node, here, NodeOf

LEMMA CreatedStays ==
    ASSUME CreatedInv, program' = program, entries' = entries, pass' = pass,
           pass # "create" \/ place' = place
    PROVE  CreatedInv'
<1>1. ASSUME NEW j \in DOMAIN program'.order, NEW i, NEW g,
             IsPlace(program.order[j], i, g)', (pass # "create" \/ Passed(j, i, g))'
      PROVE  HasEntry(program.order[j], i, g)'
    <2>1. IsPlace(program.order[j], i, g)
        BY <1>1 DEF IsPlace
    <2>2. pass # "create" \/ Passed(j, i, g)
        BY <1>1 DEF Passed
    <2>3. HasEntry(program.order[j], i, g)
        BY <1>1, <2>1, <2>2 DEF CreatedInv
    <2> QED
        BY <2>3 DEF HasEntry
<1> QED
    BY <1>1 DEF CreatedInv

LEMMA WaitsStay ==
    ASSUME WaitsInv, program' = program, entries' = entries, waits' = waits, pass' = pass,
           complete' \subseteq AllEntries,
           pass' = "emit" /\ place'.group > 0 => active' \in AllEntries
    PROVE  WaitsInv'
<1>1. AllEntries' = AllEntries /\ \A e : IsBareGroup(e)' <=> IsBareGroup(e)
    BY SameEntries
<1> QED
    BY <1>1 DEF WaitsInv

LEMMA NotStuck ==
    ASSUME outcome' # "stuck"
    PROVE  StuckInv'
BY DEF StuckInv

(* ... by a failure ...                                                    *)
LEMMA FailKeepsInv ==
    ASSUME Inv, NEW error, error # "stuck", Fail(error)
    PROVE  Inv'
<1>1. /\ UNCHANGED <<program, namesVars>> /\ outcome' = error
      /\ pass' = pass /\ place' = place /\ active' = active /\ entries' = entries
      /\ waits' = waits /\ complete' = complete
    BY DEF Fail
<1>2. NamesInv' /\ PlaceInv' /\ CreatedInv' /\ StuckInv'
    BY <1>1, NamesStay, PlaceStays, CreatedStays, NotStuck DEF Inv
<1>3. EntriesInv'
    BY <1>1, SameEntries DEF Inv
<1>4. WaitsInv'
    BY <1>1, WaitsStay DEF Inv, WaitsInv
<1> QED
    BY <1>2, <1>3, <1>4 DEF Inv

LEMMA EmitFailsKeepsInv ==
    ASSUME Inv, NEW e \in AllEntries, NEW error, error # "stuck", EmitFails(e, error)
    PROVE  Inv'
<1>1. /\ UNCHANGED <<program, namesVars>> /\ outcome' = error
      /\ pass' = pass /\ place' = place /\ active' = e /\ entries' = entries
      /\ waits' = waits /\ complete' = complete
    BY DEF EmitFails
<1>2. NamesInv' /\ PlaceInv' /\ CreatedInv' /\ StuckInv'
    BY <1>1, NamesStay, PlaceStays, CreatedStays, NotStuck DEF Inv
<1>3. EntriesInv'
    BY <1>1, SameEntries DEF Inv
<1>4. WaitsInv'
    BY <1>1, WaitsStay DEF Inv, WaitsInv
<1> QED
    BY <1>2, <1>3, <1>4 DEF Inv

(* ... by what is brought and by what is defined ...                       *)
LEMMA BroughtModuleKeepsNames ==
    ASSUME NamesInv, here \in Mod, NEW m \in Mod, bring_module(m),
           UNCHANGED <<program, defined, broughtEntities>>
    PROVE  NamesInv'
<1>1. PICK b : b = [mod |-> m, name |-> group.alias, visibility |-> BroughtVisibility]
    OBVIOUS
<1>2. broughtModules' = [broughtModules EXCEPT ![here] = Append(broughtModules[here], b)]
    BY <1>1 DEF bring_module
<1>3. /\ broughtModules' = [x \in Mod |-> broughtModules'[x]]
      /\ \A x \in Mod : IsSeq(broughtModules'[x])
      /\ \A x \in Mod : \A y \in ToSet(broughtModules'[x]) :
             y \in ToSet(broughtModules[x]) \/ y = b
    <2>1. Lists(broughtModules)
        BY DEF NamesInv, Lists
    <2>2. Lists(broughtModules') /\ Grown(broughtModules, here, b, broughtModules')
        BY <1>2, <2>1, ListGrows
    <2> QED
        BY <2>2 DEF Lists, Grown
<1>4. b.mod = m
    BY <1>1
<1> QED
    BY <1>3, <1>4 DEF NamesInv

LEMMA BroughtEntityKeepsNames ==
    ASSUME NamesInv, here \in Mod, NEW x, bring_entity(x),
           UNCHANGED <<program, defined, broughtModules>>
    PROVE  NamesInv'
<1>1. PICK b : b = [entity |-> x, name |-> group.alias, visibility |-> BroughtVisibility]
    OBVIOUS
<1>2. broughtEntities' = [broughtEntities EXCEPT ![here] = Append(broughtEntities[here], b)]
    BY <1>1 DEF bring_entity
<1>3. /\ broughtEntities' = [m \in Mod |-> broughtEntities'[m]]
      /\ \A m \in Mod : IsSeq(broughtEntities'[m])
    <2>1. Lists(broughtEntities)
        BY DEF NamesInv, Lists
    <2>2. Lists(broughtEntities')
        BY <1>2, <2>1, ListGrows
    <2> QED
        BY <2>2 DEF Lists
<1> QED
    BY <1>3 DEF NamesInv

LEMMA EntryFacts ==
    ASSUME NamesInv, EntriesInv, NEW e \in AllEntries
    PROVE  /\ e[1] \in Mod /\ e = <<e[1], e[2]>> /\ e[1] \in ToSet(program.order)
           /\ Declaration(e) \in NodeType
           /\ Declaration(e) = program.nodes[e[1]][Entry(e).node]
           /\ Entry(e).node \in DOMAIN program.nodes[e[1]]
           /\ Entry(e).group \in GroupsOf(Declaration(e))
<1>1. PICK m, i : m \in Mod /\ i \in DOMAIN entries[m] /\ e = <<m, i>>
    BY DEF AllEntries
<1>2. EntryIsOfNode(e)
    BY DEF EntriesInv
<1>3. /\ e[1] \in ToSet(program.order) /\ Entry(e).node \in DOMAIN program.nodes[e[1]]
      /\ Entry(e).group \in GroupsOf(program.nodes[e[1]][Entry(e).node])
    BY <1>2 DEF EntryIsOfNode, IsPlace
<1>4. Declaration(e) = program.nodes[e[1]][Entry(e).node]
    BY DEF Declaration, NodeOf
<1> QED
    BY <1>1, <1>3, <1>4, ProgramFacts DEF NamesInv

LEMMA DefinedKeepsNames ==
    ASSUME NamesInv, EntriesInv, NEW e \in AllEntries, IsDeclaration(e), define(e),
           UNCHANGED <<program, broughtModules, broughtEntities>>
    PROVE  NamesInv'
<1>1. PICK x : x = NewEntity(e)
    OBVIOUS
<1>2. e[1] \in Mod /\ Declaration(e) \in NodeType
    BY EntryFacts
<1>3. x.kind \in Kind
    <2>1. Declaration(e).kind \in Kind
        BY <1>2, NodeFacts DEF IsDeclaration
    <2> QED
        BY <1>1, <2>1 DEF NewEntity
<1>4. defined' = [defined EXCEPT ![e[1]] = Append(defined[e[1]], x)]
    BY <1>1 DEF define
<1>5. /\ defined' = [m \in Mod |-> defined'[m]]
      /\ \A m \in Mod : IsSeq(defined'[m])
      /\ \A m \in Mod : \A y \in ToSet(defined'[m]) : y \in ToSet(defined[m]) \/ y = x
    <2>1. Lists(defined)
        BY DEF NamesInv, Lists
    <2>2. Lists(defined') /\ Grown(defined, e[1], x, defined')
        BY <1>2, <1>4, <2>1, ListGrows
    <2> QED
        BY <2>2 DEF Lists, Grown
<1> QED
    BY <1>3, <1>5 DEF NamesInv

(* ... and by an entry that is added where the pass is.                    *)
LEMMA AddedKeepsEntries ==
    ASSUME NamesInv, EntriesInv, PlaceInv, CreatedInv, AtNode, pass = "create",
           NEW name, place.group > 0 => name = GroupName(group),
           add_entity(name), Advance, program' = program, pass' = pass
    PROVE  /\ EntriesInv' /\ PlaceInv' /\ CreatedInv'
           /\ AllEntries \subseteq AllEntries' /\ NewEntry \in AllEntries'
<1>1. PICK x : x = EntryOf(name, place.node, place.group)
    OBVIOUS
<1>2. /\ here \in Mod /\ here \in ToSet(program.order) /\ node = program.nodes[here][place.node]
      /\ IsPlace(here, place.node, place.group) /\ here = program.order[place.mod]
    BY HereFacts
<1>3. x.name = name /\ x.node = place.node /\ x.group = place.group
    BY <1>1 DEF EntryOf
<1>4. entries' = [entries EXCEPT ![here] = Append(entries[here], x)]
    BY <1>1 DEF add_entity
<1>5. /\ entries' = [m \in Mod |-> entries'[m]]
      /\ \A m \in Mod : IsSeq(entries'[m])
      /\ \A m \in Mod : \A i \in DOMAIN entries[m] :
             i \in DOMAIN entries'[m] /\ entries'[m][i] = entries[m][i]
      /\ \A m \in Mod : \A i \in DOMAIN entries'[m] :
             i \in DOMAIN entries[m] \/ (m = here /\ i = Len(entries[here]) + 1)
      /\ Len(entries[here]) + 1 \in DOMAIN entries'[here]
      /\ entries'[here][Len(entries[here]) + 1] = x
    <2>1. Lists(entries)
        BY DEF EntriesInv, Lists
    <2>2. Lists(entries') /\ Grown(entries, here, x, entries')
        BY <1>2, <1>4, <2>1, ListGrows
    <2> QED
        BY <2>2 DEF Lists, Grown
<1>6. \A m, i, g : IsPlace(m, i, g)' <=> IsPlace(m, i, g)
    BY DEF IsPlace
<1>7. ASSUME NEW e \in AllEntries'
      PROVE  EntryIsOfNode(e)'
    <2>1. PICK m, i : m \in Mod /\ i \in DOMAIN entries'[m] /\ e = <<m, i>>
        BY DEF AllEntries
    <2>2. Entry(e)' = entries'[m][i] /\ e[1] = m
        BY <2>1 DEF Entry
    <2>3. Declaration(e)' = program.nodes[m][entries'[m][i].node]
        BY <2>2 DEF Declaration, NodeOf
    <2>4. CASE i \in DOMAIN entries[m]
        <3>1. entries'[m][i] = entries[m][i] /\ e \in AllEntries /\ Entry(e) = entries[m][i]
            BY <1>5, <2>1, <2>4 DEF AllEntries, Entry
        <3>2. EntryIsOfNode(e) /\ Declaration(e)' = Declaration(e)
            BY <2>2, <2>3, <3>1 DEF EntriesInv, Declaration, NodeOf
        <3> QED
            BY <1>6, <2>2, <3>1, <3>2 DEF EntryIsOfNode
    <2>5. CASE m = here /\ i = Len(entries[here]) + 1
        <3>1. Entry(e)' = x /\ Declaration(e)' = node
            BY <1>2, <1>3, <1>5, <2>2, <2>3, <2>5
        <3>2. place.group > 0 => node.groups[place.group] = group
            BY DEF group
        <3>3. x.group > 0 => x.name = GroupName(node.groups[x.group])
            BY <1>3, <3>2
        <3>4. GroupName(node.groups[x.group])' = GroupName(node'.groups[x.group])
            BY DEF GroupName
        <3> QED
            BY <1>2, <1>3, <1>6, <2>2, <2>5, <3>1, <3>3 DEF EntryIsOfNode, GroupName
    <2> QED
        BY <1>5, <2>1, <2>4, <2>5
<1>8. EntriesInv'
    BY <1>5, <1>7 DEF EntriesInv
<1>9. /\ PlaceInv'
      /\ \A j, i, g : IsPlace(program.order[j], i, g) /\ Passed(j, i, g)'
                      => Passed(j, i, g) \/ (j = place.mod /\ i = place.node /\ g = place.group)
    BY AdvanceFacts
<1>10. ASSUME NEW j \in DOMAIN program'.order, NEW i, NEW g,
              IsPlace(program.order[j], i, g)', (pass # "create" \/ Passed(j, i, g))'
       PROVE  HasEntry(program.order[j], i, g)'
    <2>1. IsPlace(program.order[j], i, g) /\ Passed(j, i, g)'
        BY <1>6, <1>10
    <2>2. program.order[j] \in Mod
        BY ProgramFacts DEF NamesInv
    <2>3. CASE Passed(j, i, g)
        <3>1. HasEntry(program.order[j], i, g)
            BY <2>1, <2>3 DEF CreatedInv
        <3> QED
            BY <1>5, <2>2, <3>1 DEF HasEntry
    <2>4. CASE j = place.mod /\ i = place.node /\ g = place.group
        BY <1>2, <1>3, <1>5, <2>4 DEF HasEntry
    <2> QED
        BY <1>9, <2>1, <2>3, <2>4
<1>11. CreatedInv'
    BY <1>10 DEF CreatedInv
<1>12. AllEntries \subseteq AllEntries'
    BY <1>5 DEF AllEntries
<1>13. NewEntry \in AllEntries'
    BY <1>2, <1>5 DEF NewEntry, AllEntries
<1> QED
    BY <1>8, <1>9, <1>11, <1>12, <1>13

-----------------------------------------------------------------------------
(* The steps of the passes over the nodes.                                 *)
LEMMA NextModuleKeepsInv ==
    ASSUME Inv, NextModule
    PROVE  Inv'
<1>1. /\ UNCHANGED <<program, namesVars>> /\ entries' = entries /\ pass' = pass /\ waits' = waits
      /\ complete' = complete /\ outcome' = "running" /\ pass # "emit" /\ ~AtNode
      /\ place' = [mod |-> place.mod + 1, node |-> 1, group |-> 0]
    BY DEF NextModule
<1>2. place \in [mod : Nat \ {0}, node : Nat \ {0}, group : Nat] /\ program \in Programs
    BY DEF Inv, PlaceInv, NamesInv
<1>3. place' \in [mod : Nat \ {0}, node : Nat \ {0}, group : Nat] /\ place'.mod = place.mod + 1
      /\ place'.node = 1 /\ place'.group = 0
    BY <1>1, <1>2
<1>4. PlaceInv'
    BY <1>3 DEF PlaceInv
<1>5. ASSUME NEW j \in DOMAIN program'.order, NEW i, NEW g,
             IsPlace(program.order[j], i, g)', (pass # "create" \/ Passed(j, i, g))'
      PROVE  HasEntry(program.order[j], i, g)'
    <2>1. IsPlace(program.order[j], i, g) /\ j \in DOMAIN program.order
        BY <1>1, <1>5, SameEntries
    <2>2. j \in Nat /\ program.order[j] \in Mod
        BY <1>2, <2>1, ProgramFacts
    <2>3. CASE pass # "create"
        <3>1. HasEntry(program.order[j], i, g)
            BY <2>1, <2>3 DEF Inv, CreatedInv
        <3> QED
            BY <1>1, <3>1 DEF HasEntry
    <2>4. CASE Passed(j, i, g)'
        <3>1. i \in DOMAIN program.nodes[program.order[j]]
              /\ g \in GroupsOf(program.nodes[program.order[j]][i])
            BY <2>1 DEF IsPlace
        <3>2. DOMAIN program.nodes[program.order[j]] = 1 .. Len(program.nodes[program.order[j]])
              /\ Len(program.nodes[program.order[j]]) \in Nat
              /\ program.nodes[program.order[j]][i] \in NodeType
            BY <1>2, <2>2, <3>1, ProgramFacts
        <3>3. i \in Nat \ {0} /\ g \in Nat
            BY <3>1, <3>2, NodeFacts DEF GroupsOf
        <3>4. j < place.mod \/ j = place.mod
            BY <1>2, <1>3, <2>2, <2>4, <3>3 DEF Passed
        <3>5. ASSUME j = place.mod
              PROVE  Passed(j, i, g)
            <4>1. here = program.order[j] /\ j <= Len(program.order)
                BY <1>2, <2>1, <3>5, ProgramFacts DEF here
            <4>2. ~(place.node <= Len(program.nodes[here]))
                BY <1>1, <3>5, <4>1 DEF AtNode
            <4>3. i < place.node
                BY <1>2, <3>1, <3>2, <4>1, <4>2
            <4> QED
                BY <3>5, <4>3 DEF Passed
        <3>6. Passed(j, i, g)
            BY <3>4, <3>5 DEF Passed
        <3>7. HasEntry(program.order[j], i, g)
            BY <2>1, <3>6 DEF Inv, CreatedInv
        <3> QED
            BY <1>1, <3>7 DEF HasEntry
    <2> QED
        BY <1>1, <1>5, <2>3, <2>4
<1>6. CreatedInv'
    BY <1>5 DEF CreatedInv
<1>7. NamesInv' /\ EntriesInv' /\ StuckInv'
    BY <1>1, NamesStay, SameEntries, NotStuck DEF Inv
<1>8. WaitsInv'
    BY <1>1, WaitsStay DEF Inv, WaitsInv
<1> QED
    BY <1>4, <1>6, <1>7, <1>8 DEF Inv

LEMMA NextPassKeepsInv ==
    ASSUME Inv, NextPass
    PROVE  Inv'
<1>1. /\ UNCHANGED <<program, namesVars>> /\ entries' = entries /\ waits' = waits
      /\ complete' = complete /\ outcome' = "running" /\ pass # "emit"
      /\ place.mod > Len(program.order)
      /\ pass' = (IF pass = "create" THEN "update" ELSE "emit")
      /\ place' = [mod |-> 1, node |-> 1, group |-> 0]
    BY DEF NextPass
<1>2. place \in [mod : Nat \ {0}, node : Nat \ {0}, group : Nat] /\ program \in Programs
    BY DEF Inv, PlaceInv, NamesInv
<1>3. PlaceInv'
    BY <1>1 DEF PlaceInv
<1>4. ASSUME NEW j \in DOMAIN program'.order, NEW i, NEW g,
             IsPlace(program.order[j], i, g)', (pass # "create" \/ Passed(j, i, g))'
      PROVE  HasEntry(program.order[j], i, g)'
    <2>1. IsPlace(program.order[j], i, g) /\ j \in DOMAIN program.order
        BY <1>1, <1>4, SameEntries
    <2>2. j < place.mod
        BY <1>1, <1>2, <2>1, ProgramFacts
    <2>3. HasEntry(program.order[j], i, g)
        BY <2>1, <2>2 DEF Inv, CreatedInv, Passed
    <2> QED
        BY <1>1, <2>3 DEF HasEntry
<1>5. CreatedInv'
    BY <1>4 DEF CreatedInv
<1>6. NamesInv' /\ EntriesInv' /\ StuckInv'
    BY <1>1, NamesStay, SameEntries, NotStuck DEF Inv
<1>7. AllEntries' = AllEntries /\ \A e : IsBareGroup(e)' <=> IsBareGroup(e)
    BY <1>1, SameEntries
<1>8. WaitsInv'
    BY <1>1, <1>7 DEF Inv, WaitsInv
<1> QED
    BY <1>3, <1>5, <1>6, <1>8 DEF Inv

LEMMA AddedKeepsWaits ==
    ASSUME WaitsInv, pass = "create", pass' = pass, waits' = waits,
           complete' \subseteq AllEntries'
    PROVE  WaitsInv'
BY DEF WaitsInv

LEMMA CreateDeclarationKeepsInv ==
    ASSUME Inv, CreateDeclaration
    PROVE  Inv'
<1>1. CASE entity_name_check(here, node)
    BY <1>1, FailKeepsInv DEF CreateDeclaration
<1>2. CASE ~entity_name_check(here, node)
    <2>1. /\ add_entity(node.name) /\ Advance /\ UNCHANGED <<program, namesVars>> /\ pass' = pass
          /\ pass = "create" /\ AtNode /\ node.is = "define" /\ waits' = waits
          /\ complete' = complete /\ outcome' = "running"
        BY <1>2 DEF CreateDeclaration
    <2>2. ~(place.group > 0)
        BY <2>1 DEF Inv, PlaceInv
    <2>3. EntriesInv' /\ PlaceInv' /\ CreatedInv' /\ AllEntries \subseteq AllEntries'
        BY <2>1, <2>2, AddedKeepsEntries DEF Inv
    <2>4. WaitsInv'
        BY <2>1, <2>3, AddedKeepsWaits DEF Inv, WaitsInv
    <2> QED
        BY <2>1, <2>3, <2>4, NamesStay, NotStuck DEF Inv
<1> QED
    BY <1>1, <1>2

LEMMA CreateSentenceKeepsInv ==
    ASSUME Inv, CreateSentence
    PROVE  Inv'
<1>1. /\ add_entity(NoName) /\ Advance /\ UNCHANGED <<program, namesVars>> /\ pass' = pass
      /\ pass = "create" /\ AtNode /\ ~(place.group > 0) /\ waits' = waits
      /\ complete' = complete /\ outcome' = "running"
    BY DEF CreateSentence
<1>2. EntriesInv' /\ PlaceInv' /\ CreatedInv' /\ AllEntries \subseteq AllEntries'
    BY <1>1, AddedKeepsEntries DEF Inv
<1>3. WaitsInv'
    BY <1>1, <1>2, AddedKeepsWaits DEF Inv, WaitsInv
<1> QED
    BY <1>1, <1>2, <1>3, NamesStay, NotStuck DEF Inv

LEMMA CreateGroupKeepsInv ==
    ASSUME Inv, CreateGroup
    PROVE  Inv'
<1>1. pass = "create" /\ AtNode /\ place.group > 0
    BY DEF CreateGroup
<1>2. /\ here \in Mod /\ GroupModule \in AnswersOf(Mod)
      /\ GroupModule.is = "found" => GroupModule.what \in Mod
    BY <1>1, HereFacts, TargetsAreTyped DEF Inv
<1>3. GroupModule.is # "stuck"
    BY <1>2, AnswersFacts DEF Refusals
<1>4. CASE Fail(GroupModule.is)
    BY <1>3, <1>4, FailKeepsInv
<1>5. CASE Fail("noParentLib")
    BY <1>5, FailKeepsInv
<1>6. CASE /\ add_entity(IF group.alias # NoName THEN group.alias ELSE LastName)
           /\ IF GroupModule.is = "found"
              THEN /\ bring_module(GroupModule.what)
                   /\ complete' = complete \cup {NewEntry}
                   /\ already' = already \cup {NewEntry}
              ELSE UNCHANGED <<broughtModules, complete, already>>
           /\ Advance
           /\ UNCHANGED <<program, defined, broughtEntities, pass, active, waits, created, met,
                          outcome>>
           /\ outcome = "running"
    <2>1. PICK name : name = GroupName(group)
        OBVIOUS
    <2>2. add_entity(name)
        BY <1>6, <2>1 DEF GroupName, LastName
    <2>3. /\ EntriesInv' /\ PlaceInv' /\ CreatedInv'
          /\ AllEntries \subseteq AllEntries' /\ NewEntry \in AllEntries'
        BY <1>1, <1>6, <2>1, <2>2, AddedKeepsEntries DEF Inv
    <2>4. NamesInv'
        <3>1. CASE GroupModule.is = "found"
            BY <1>2, <1>6, <3>1, BroughtModuleKeepsNames DEF Inv
        <3>2. CASE GroupModule.is # "found"
            BY <1>6, <3>2, NamesStay DEF Inv, namesVars
        <3> QED
            BY <3>1, <3>2
    <2>5. complete \subseteq AllEntries
        BY DEF Inv, WaitsInv
    <2>6. complete' \subseteq AllEntries'
        BY <1>6, <2>3, <2>5
    <2>7. WaitsInv'
        BY <1>1, <1>6, <2>6, AddedKeepsWaits DEF Inv
    <2> QED
        BY <1>6, <2>3, <2>4, <2>7, NotStuck DEF Inv
<1> QED
    BY <1>4, <1>5, <1>6 DEF CreateGroup

-----------------------------------------------------------------------------
(* The entry of what the pass is at, once all entries are created.         *)
LEMMA HereEntryIs ==
    ASSUME NamesInv, EntriesInv, PlaceInv, CreatedInv, AtNode, pass # "create"
    PROVE  /\ HereEntry \in AllEntries /\ HereEntry = <<here, HereEntry[2]>>
           /\ HereEntry[2] \in DOMAIN entries[here]
           /\ Entry(HereEntry).node = place.node /\ Entry(HereEntry).group = place.group
           /\ Declaration(HereEntry) = node
<1>1. /\ place.mod \in DOMAIN program.order /\ here = program.order[place.mod] /\ here \in Mod
      /\ IsPlace(here, place.node, place.group) /\ node = program.nodes[here][place.node]
    BY HereFacts
<1>2. HasEntry(here, place.node, place.group)
    BY <1>1 DEF CreatedInv
<1>3. EntriesTyped
    BY DEF EntriesInv, EntriesTyped
<1>4. PICK I : I = {i \in DOMAIN entries[here] : /\ entries[here][i].node = place.node
                                               /\ entries[here][i].group = place.group}
    OBVIOUS
<1>5. HereEntry[1] = here /\ IsFirst(HereEntry[2], entries[here], I)
    BY <1>1, <1>3, <1>4, PlaceIndexIs
<1>6. I # {}
    BY <1>2, <1>4 DEF HasEntry
<1>7. HereEntry[2] \in I
    BY <1>5, <1>6 DEF IsFirst
<1>8. HereEntry = <<here, HereEntry[2]>>
    BY DEF HereEntry
<1>9. HereEntry[2] \in DOMAIN entries[here]
    BY <1>4, <1>7
<1>10. HereEntry \in AllEntries
    BY <1>1, <1>8, <1>9 DEF AllEntries
<1>11. Entry(HereEntry).node = place.node /\ Entry(HereEntry).group = place.group
    BY <1>4, <1>5, <1>7 DEF Entry
<1>12. Declaration(HereEntry) = node
    BY <1>1, <1>5, <1>11 DEF Declaration, NodeOf
<1> QED
    BY <1>8, <1>9, <1>10, <1>11, <1>12

LEMMA WaitForKeepsInv ==
    ASSUME Inv, pass = "update", outcome = "running", AtNode, NEW answer,
           answer.is = "found" => answer.what \in AllEntries,
           answer.is = "found" /\ answer.what # HereEntry /\ IsBareGroup(HereEntry)
               => answer.what[1] = HereEntry[1] /\ answer.what[2] < HereEntry[2],
           WaitFor(answer)
    PROVE  Inv'
<1>1. /\ UNCHANGED <<program, namesVars>> /\ entries' = entries /\ pass' = pass
      /\ complete' = complete /\ outcome' = "running" /\ Advance
      /\ waits' = (IF answer.is = "found" /\ answer.what # HereEntry
                   THEN [e \in DOMAIN waits \cup {HereEntry} |->
                            IF e \in DOMAIN waits THEN waits[e] ELSE answer.what]
                   ELSE waits)
    BY DEF WaitFor
<1>2. NamesInv' /\ EntriesInv' /\ CreatedInv' /\ StuckInv'
    BY <1>1, NamesStay, SameEntries, CreatedStays, NotStuck DEF Inv
<1>3. PlaceInv'
    BY <1>1, AdvanceFacts DEF Inv
<1>4. AllEntries' = AllEntries /\ \A e : IsBareGroup(e)' <=> IsBareGroup(e)
    BY <1>1, SameEntries
<1>5. HereEntry \in AllEntries
    BY HereEntryIs DEF Inv
<1>6. ASSUME ~(answer.is = "found" /\ answer.what # HereEntry)
      PROVE  WaitsInv'
    BY <1>1, <1>4, <1>6 DEF Inv, WaitsInv
<1>7. ASSUME answer.is = "found" /\ answer.what # HereEntry
      PROVE  WaitsInv'
    <2>1. DOMAIN waits' = DOMAIN waits \cup {HereEntry}
        BY <1>1, <1>7
    <2>2. \A e \in DOMAIN waits' : \/ (e \in DOMAIN waits /\ waits'[e] = waits[e])
                                  \/ (e = HereEntry /\ waits'[e] = answer.what)
        BY <1>1, <1>7
    <2>3. DOMAIN waits' \subseteq AllEntries' /\ \A e \in DOMAIN waits' : waits'[e] \in AllEntries'
        BY <1>4, <1>5, <1>7, <2>1, <2>2 DEF Inv, WaitsInv
    <2>4. \A e \in DOMAIN waits' :
              IsBareGroup(e)' => waits'[e][1] = e[1] /\ waits'[e][2] < e[2]
        BY <1>4, <1>7, <2>2 DEF Inv, WaitsInv
    <2> QED
        BY <1>1, <1>4, <2>3, <2>4 DEF Inv, WaitsInv
<1>8. WaitsInv'
    BY <1>6, <1>7
<1> QED
    BY <1>2, <1>3, <1>8 DEF Inv

LEMMA UpdateDeclarationKeepsInv ==
    ASSUME Inv, UpdateDeclaration
    PROVE  Inv'
<1>1. pass = "update" /\ outcome = "running" /\ AtNode /\ node.is = "define"
    BY DEF UpdateDeclaration
<1>2. PICK parent : parent = IF node.uses = <<>> THEN None ELSE UseParent(here, Head(node.uses))
    OBVIOUS
<1>3. PICK answer : answer = IF parent.is # "found" THEN parent
                             ELSE EntryNamed(parent.what, Last(Head(node.uses).names))
    OBVIOUS
<1>4. IF answer.is \in {"found", "none"} THEN WaitFor(answer) ELSE Fail(answer.is)
    BY <1>2, <1>3 DEF UpdateDeclaration
<1>5. /\ NamesTyped /\ EntriesTyped /\ program \in ProgramType
      /\ here \in Mod /\ node \in NodeType
    BY <1>1, NamesAreTyped, ProgramFacts, HereFacts DEF Inv, NamesInv, EntriesInv, EntriesTyped
<1>6. parent \in AnswersOf(Mod)
    <2>1. node.uses # <<>> => Head(node.uses) \in PathType
        BY <1>1, <1>5, NodeFacts
    <2>2. node.uses # <<>> => UseParent(here, Head(node.uses)) \in AnswersOf(Mod)
        BY <1>5, <2>1, QualifiedIsTyped DEF UseParent
    <2> QED
        BY <1>2, <2>2, AnswersFacts
<1>7. parent.is = "found" => answer \in AnswersOf(AllEntries)
    <2>1. parent.is = "found" => parent.what \in Mod
        BY <1>6, AnswersFacts
    <2> QED
        BY <1>3, <1>5, <2>1, EntryNamedIs
<1>8. answer.is = "found" => answer.what \in AllEntries
    BY <1>3, <1>7, AnswersFacts
<1>9. answer.is # "stuck"
    BY <1>3, <1>6, <1>7, AnswersFacts DEF Refusals
<1>10. ~IsBareGroup(HereEntry)
    <2>1. Declaration(HereEntry) = node
        BY <1>1, HereEntryIs DEF Inv
    <2> QED
        BY <1>1, <2>1 DEF IsBareGroup, IsDeclaration
<1>11. CASE WaitFor(answer)
    BY <1>1, <1>8, <1>10, <1>11, WaitForKeepsInv
<1>12. CASE Fail(answer.is)
    BY <1>9, <1>12, FailKeepsInv
<1> QED
    BY <1>4, <1>11, <1>12

LEMMA UpdateGroupKeepsInv ==
    ASSUME Inv, UpdateGroup
    PROVE  Inv'
<1>1. pass = "update" /\ outcome = "running" /\ AtNode /\ node.is = "bring"
    BY DEF UpdateGroup
<1>2. PICK target : target = IF place.group = 0 THEN None ELSE GroupModule
    OBVIOUS
<1>3. PICK parent : parent = IF place.group = 0 THEN NoMod ELSE GroupParent.what
    OBVIOUS
<1>4. PICK answer : answer = IF place.group = 0 \/ target.is = "found" THEN None
                             ELSE IF target.is # "none" THEN target
                             ELSE EntryNamed(parent, LastName)
                                     ?? (EntryBelow(parent, LastName) ?? Answer("notRecognised"))
    OBVIOUS
<1>5. IF answer.is \in {"found", "none"} THEN WaitFor(answer) ELSE Fail(answer.is)
    BY <1>2, <1>3, <1>4 DEF UpdateGroup
<1>6. /\ NamesTyped /\ EntriesTyped /\ here \in Mod /\ place.group \in Nat
    BY <1>1, NamesAreTyped, HereFacts DEF Inv, EntriesInv, EntriesTyped, PlaceInv
<1>7. place.group > 0 =>
          /\ GroupModule \in AnswersOf(Mod)
          /\ GroupModule.is = "none" => GroupParent.what \in Mod
          /\ (group.path.relative = 0 /\ Len(group.path.names) = 1) => GroupParent = Found(here)
    BY <1>1, TargetsAreTyped DEF Inv
<1>8. None.is = "none" /\ target \in AnswersOf(Mod)
    BY <1>2, <1>6, <1>7, AnswersFacts DEF None, Answer
<1>9. CASE place.group = 0 \/ target.is # "none"
    <2>1. answer.is # "found" /\ answer.is # "stuck"
        BY <1>4, <1>8, <1>9, AnswersFacts DEF Refusals
    <2>2. CASE WaitFor(answer)
        BY <1>1, <2>1, <2>2, WaitForKeepsInv
    <2>3. CASE Fail(answer.is)
        BY <2>1, <2>3, FailKeepsInv
    <2> QED
        BY <1>5, <2>2, <2>3
<1>10. CASE place.group > 0 /\ target.is = "none"
    <2>1. parent \in Mod /\ parent = GroupParent.what
        BY <1>2, <1>3, <1>7, <1>10
    <2>2. answer = EntryNamed(parent, LastName)
                      ?? (EntryBelow(parent, LastName) ?? Answer("notRecognised"))
        BY <1>4, <1>10
    <2>3. PICK V : V = AnswersOf(AllEntries)
        OBVIOUS
    <2>4. /\ EntryNamed(parent, LastName) \in V /\ EntryBelow(parent, LastName) \in V
          /\ Answer("notRecognised") \in V /\ \A a, b \in V : a ?? b \in V
        BY <1>6, <2>1, <2>3, EntryNamedIs, EntryBelowIs, AnswersFacts DEF Refusals
    <2>5. answer \in AnswersOf(AllEntries)
        BY <2>2, <2>3, <2>4
    <2>6. (answer.is = "found" => answer.what \in AllEntries) /\ answer.is # "stuck"
        BY <2>5, AnswersFacts DEF Refusals
    <2>7. ASSUME answer.what # HereEntry, IsBareGroup(HereEntry)
          PROVE  answer.what[1] = HereEntry[1] /\ answer.what[2] < HereEntry[2]
        <3>1. /\ HereEntry = <<here, HereEntry[2]>> /\ HereEntry[2] \in DOMAIN entries[here]
              /\ Entry(HereEntry).group = place.group /\ Declaration(HereEntry) = node
              /\ HereEntry \in AllEntries
            BY <1>1, HereEntryIs DEF Inv
        <3>2. group.alias = NoName /\ group.path.relative = 0 /\ Len(group.path.names) = 1
            BY <2>7, <3>1 DEF IsBareGroup, group
        <3>3. parent = here
            BY <1>7, <1>10, <2>1, <3>2 DEF Found
        <3>4. Entry(HereEntry).name = LastName
            <4>1. EntryIsOfNode(HereEntry)
                BY <3>1 DEF Inv, EntriesInv
            <4> QED
                BY <1>10, <3>1, <3>2, <4>1 DEF EntryIsOfNode, GroupName, LastName, group
        <3>5. PICK I : I = {i \in DOMAIN entries[here] : entries[here][i].name = LastName}
            OBVIOUS
        <3>6. HereEntry[2] \in I
            BY <3>1, <3>4, <3>5 DEF Entry
        <3>7. PICK own : own = OwnIndex(here, LastName)
            OBVIOUS
        <3>8. IsFirst(own, entries[here], I)
            BY <1>6, <3>5, <3>7, OwnIndexIs
        <3>9. own # 0 /\ own <= HereEntry[2] /\ own \in DOMAIN entries[here]
            BY <3>6, <3>8 DEF IsFirst
        <3>10. answer = Found(<<here, own>>)
            BY <1>6, <2>2, <3>3, <3>7, <3>9, EntryNamedIs DEF ??, Found
        <3>11. own # HereEntry[2]
            BY <2>7, <3>1, <3>10 DEF Found
        <3>12. own \in Nat /\ HereEntry[2] \in Nat
            <4>1. DOMAIN entries[here] = 1 .. Len(entries[here])
                BY <1>6, SeqFacts DEF EntriesTyped
            <4> QED
                BY <3>1, <3>9, <4>1
        <3>13. own < HereEntry[2]
            BY <3>9, <3>11, <3>12
        <3> QED
            BY <3>1, <3>10, <3>13 DEF Found
    <2>8. CASE WaitFor(answer)
        BY <1>1, <2>6, <2>7, <2>8, WaitForKeepsInv
    <2>9. CASE Fail(answer.is)
        BY <2>6, <2>9, FailKeepsInv
    <2> QED
        BY <1>5, <2>8, <2>9
<1> QED
    BY <1>6, <1>9, <1>10

-----------------------------------------------------------------------------
(* The steps of the phases.                                                *)
LEMMA EmitIsProper ==
    ASSUME NamesInv, EntriesInv, NEW e \in AllEntries, IsDeclaration(e)
    PROVE  Proper(DeclarationError(e)) /\ Proper(UseMeets(e))
<1>1. /\ NamesTyped /\ program \in ProgramType /\ e[1] \in Mod /\ Declaration(e) \in NodeType
    BY NamesAreTyped, ProgramFacts, EntryFacts DEF NamesInv
<1>2. Proper(DeclarationError(e))
    <2>1. PICK taken : taken = IF Declaration(e).kind \in NameChecked
                               THEN name_check_in_module(e[1], Declaration(e).name) ELSE None
        OBVIOUS
    <2>2. Proper(taken)
        BY <1>1, <2>1, ChecksAreProper, ProperFacts
    <2>3. Proper(Answer("nameInUse")) /\ Proper(Answer("noParentLib")) /\ Proper(None)
        BY ProperFacts DEF Refusals
    <2>4. DeclarationError(e) =
              IF taken.is = "found" THEN Answer("nameInUse")
              ELSE taken ?? (IF NewEntity(e).visibility = NoMod THEN Answer("noParentLib") ELSE None)
        BY <2>1 DEF DeclarationError
    <2> QED
        BY <2>2, <2>3, <2>4, ProperFacts
<1>3. Proper(UseMeets(e))
    <2>1. CASE Declaration(e).uses = <<>>
        BY <2>1, ProperFacts DEF UseMeets
    <2>2. CASE Declaration(e).uses # <<>>
        <3>1. PICK path \in PathType : path = Head(Declaration(e).uses)
            BY <1>1, <2>2, NodeFacts DEF IsDeclaration
        <3>2. PICK parent : parent = UseParent(e[1], path)
            OBVIOUS
        <3>3. parent \in AnswersOf(Mod)
            BY <1>1, <3>2, QualifiedIsTyped DEF UseParent
        <3>4. parent.is = "found" => parent.what \in Mod
            BY <3>3, AnswersFacts
        <3>5. UseMeets(e) = IF parent.is # "found" THEN parent
                            ELSE ValueNamed(parent.what, Last(path.names), e[1])
            BY <2>2, <3>1, <3>2 DEF UseMeets
        <3> QED
            BY <1>1, <3>3, <3>4, <3>5, ChecksAreProper, ProperFacts
    <2> QED
        BY <2>1, <2>2
<1> QED
    BY <1>2, <1>3

LEMMA CreateFunctionKeepsInv ==
    ASSUME Inv, NEW e \in AllEntries, CreateFunction(e)
    PROVE  Inv'
<1>1. IsDeclaration(e) /\ outcome = "running"
    BY DEF CreateFunction
<1>2. PICK error : error = DeclarationError(e)
    OBVIOUS
<1>3. error.is # "stuck"
    BY <1>1, <1>2, EmitIsProper DEF Inv, Proper, Refusals
<1>4. CASE EmitFails(e, error.is)
    BY <1>3, <1>4, EmitFailsKeepsInv
<1>5. CASE /\ define(e)
           /\ active' = e
           /\ UNCHANGED <<program, broughtModules, broughtEntities, pass, place, entries,
                          waits, complete, already, met, outcome>>
    <2>1. NamesInv'
        BY <1>1, <1>5, DefinedKeepsNames DEF Inv
    <2>2. EntriesInv' /\ PlaceInv' /\ CreatedInv' /\ StuckInv'
        BY <1>1, <1>5, SameEntries, PlaceStays, CreatedStays, NotStuck DEF Inv
    <2>3. WaitsInv'
        BY <1>5, WaitsStay DEF Inv, WaitsInv
    <2> QED
        BY <2>1, <2>2, <2>3 DEF Inv
<1> QED
    BY <1>2, <1>4, <1>5 DEF CreateFunction

LEMMA EmitBodyKeepsInv ==
    ASSUME Inv, NEW e \in AllEntries, e \in created => IsDeclaration(e), EmitBody(e)
    PROVE  Inv'
<1>1. IsDeclaration(e) /\ outcome = "running"
    BY DEF EmitBody, Ready
<1>2. PICK use : use = UseMeets(e)
    OBVIOUS
<1>3. use.is # "stuck"
    BY <1>1, <1>2, EmitIsProper DEF Inv, Proper, Refusals
<1>4. CASE EmitFails(e, use.is)
    BY <1>3, <1>4, EmitFailsKeepsInv
<1>5. CASE /\ complete' = complete \cup {e}
           /\ active' = e
           /\ UNCHANGED <<program, namesVars, pass, place, entries, waits, created, already,
                          outcome>>
    <2>1. NamesInv' /\ EntriesInv' /\ PlaceInv' /\ CreatedInv' /\ StuckInv'
        BY <1>1, <1>5, NamesStay, SameEntries, PlaceStays, CreatedStays, NotStuck DEF Inv
    <2>2. complete' \subseteq AllEntries
        BY <1>5 DEF Inv, WaitsInv
    <2>3. WaitsInv'
        BY <1>5, <2>2, WaitsStay DEF Inv
    <2> QED
        BY <2>1, <2>3 DEF Inv
<1> QED
    BY <1>2, <1>4, <1>5 DEF EmitBody

LEMMA EmitDeclarationKeepsInv ==
    ASSUME Inv, NEW e \in AllEntries, EmitDeclaration(e)
    PROVE  Inv'
<1>1. IsDeclaration(e) /\ outcome = "running"
    BY DEF EmitDeclaration, Ready
<1>2. PICK error, use : error = DeclarationError(e) /\ use = UseMeets(e)
    OBVIOUS
<1>3. error.is # "stuck" /\ use.is # "stuck"
    BY <1>1, <1>2, EmitIsProper DEF Inv, Proper, Refusals
<1>4. CASE EmitFails(e, error.is) \/ EmitFails(e, use.is)
    BY <1>3, <1>4, EmitFailsKeepsInv
<1>5. CASE /\ define(e)
           /\ complete' = complete \cup {e}
           /\ active' = e
           /\ UNCHANGED <<program, broughtModules, broughtEntities, pass, place, entries,
                          waits, created, already, outcome>>
    <2>1. NamesInv'
        BY <1>1, <1>5, DefinedKeepsNames DEF Inv
    <2>2. EntriesInv' /\ PlaceInv' /\ CreatedInv' /\ StuckInv'
        BY <1>1, <1>5, SameEntries, PlaceStays, CreatedStays, NotStuck DEF Inv
    <2>3. complete' \subseteq AllEntries
        BY <1>5 DEF Inv, WaitsInv
    <2>4. WaitsInv'
        BY <1>5, <2>3, WaitsStay DEF Inv
    <2> QED
        BY <2>1, <2>2, <2>4 DEF Inv
<1> QED
    BY <1>2, <1>4, <1>5 DEF EmitDeclaration

LEMMA StartBringsKeepsInv ==
    ASSUME Inv, NEW e \in AllEntries, StartBrings(e)
    PROVE  Inv'
<1>1. /\ ~IsDeclaration(e) /\ outcome' = "running" /\ pass = "emit"
      /\ UNCHANGED <<program, namesVars, pass, entries, waits, complete>>
      /\ active' = e
      /\ place' = [mod |-> SelectInSeq(program.order, LAMBDA m : m = e[1]),
                   node |-> Entry(e).node, group |-> 1]
    BY DEF StartBrings, Ready
<1>2. /\ e[1] \in Mod /\ e[1] \in ToSet(program.order) /\ Declaration(e) \in NodeType
      /\ Declaration(e) = program.nodes[e[1]][Entry(e).node]
      /\ Entry(e).node \in DOMAIN program.nodes[e[1]]
    BY EntryFacts DEF Inv
<1>3. Declaration(e).is = "bring" /\ Len(Declaration(e).groups) \in Nat \ {0}
    BY <1>1, <1>2, NodeFacts DEF IsDeclaration
<1>4. PICK k : k = SelectInSeq(program.order, LAMBDA m : m = e[1])
    OBVIOUS
<1>5. k \in DOMAIN program.order /\ program.order[k] = e[1]
    <2>1. PICK s : s = program.order /\ IsSeq(s)
        BY ProgramFacts, SeqOfIsSeq DEF Inv, NamesInv
    <2>2. DOMAIN s = 1 .. Len(s)
        BY <2>1, SeqFacts
    <2>3. PICK I : I = {i \in 1 .. Len(s) : s[i] = e[1]}
        OBVIOUS
    <2>4. k = IF I # {} THEN Min(I) ELSE 0
        BY <1>4, <2>1, <2>3 DEF SelectInSeq
    <2>5. I # {}
        BY <1>2, <2>1, <2>2, <2>3 DEF ToSet
    <2>6. IsFirst(k, s, I)
        BY <2>1, <2>2, <2>3, <2>4, LeastIndex
    <2> QED
        BY <2>1, <2>2, <2>3, <2>5, <2>6 DEF IsFirst
<1>6. /\ place'.mod = k /\ place'.node = Entry(e).node /\ place'.group = 1
      /\ place' = [mod |-> k, node |-> Entry(e).node, group |-> 1]
    BY <1>1, <1>4
<1>7. /\ k \in Nat \ {0} /\ k <= Len(program.order)
      /\ Entry(e).node \in Nat \ {0} /\ Entry(e).node <= Len(program.nodes[e[1]])
    BY <1>2, <1>5, ProgramFacts DEF Inv, NamesInv
<1>8. here' = e[1] /\ node' = Declaration(e)
    BY <1>1, <1>2, <1>5, <1>6 DEF here, node, NodeOf
<1>9. AtNode'
    BY <1>1, <1>6, <1>7, <1>8 DEF AtNode
<1>10. place' \in [mod : Nat \ {0}, node : Nat \ {0}, group : Nat]
    BY <1>6, <1>7
<1>11. PlaceInv'
    BY <1>3, <1>6, <1>8, <1>9, <1>10 DEF PlaceInv
<1>12. NamesInv' /\ EntriesInv' /\ CreatedInv' /\ StuckInv'
    BY <1>1, NamesStay, SameEntries, CreatedStays, NotStuck DEF Inv
<1>13. WaitsInv'
    BY <1>1, WaitsStay DEF Inv, WaitsInv
<1> QED
    BY <1>11, <1>12, <1>13 DEF Inv

LEMMA HandleGroupKeepsInv ==
    ASSUME Inv, HandleGroup
    PROVE  Inv'
<1>1. /\ outcome = "running" /\ pass = "emit" /\ place.group # 0
      /\ UNCHANGED <<program, pass, active, entries, waits>>
    BY DEF HandleGroup, Idle
<1>2. place.group > 0 /\ AtNode /\ node.is = "bring" /\ place.group <= Len(node.groups)
      /\ place \in [mod : Nat \ {0}, node : Nat \ {0}, group : Nat]
    BY <1>1 DEF Inv, PlaceInv
<1>3. /\ here \in Mod /\ node \in NodeType /\ NamesTyped
      /\ GroupModule \in AnswersOf(Mod)
      /\ GroupModule.is = "found" => GroupModule.what \in Mod
      /\ GroupModule.is = "none" => GroupParent.what \in Mod
    BY <1>2, HereFacts, TargetsAreTyped, NamesAreTyped DEF Inv
<1>4. HereEntry \in AllEntries /\ active \in AllEntries
    BY <1>1, <1>2, HereEntryIs DEF Inv, WaitsInv
<1>5. PICK target : target = IF GroupModule.is = "none" THEN Bringable(GroupParent.what, LastName, here)
                             ELSE GroupModule
    OBVIOUS
<1>6. target.is # "stuck"
    <2>1. Proper(target)
        BY <1>3, <1>5, ChecksAreProper, ProperFacts
    <2> QED
        BY <2>1 DEF Proper, Refusals
<1>7. EntriesInv' /\ CreatedInv'
    BY <1>1, SameEntries, CreatedStays DEF Inv
<1>8. ASSUME NEW brought, GroupDone(brought)
      PROVE  PlaceInv' /\ WaitsInv'
    <2>1. /\ place' = [place EXCEPT !.group = IF place.group = Len(node.groups) THEN 0 ELSE @ + 1]
          /\ complete' = complete \cup (IF brought THEN {HereEntry} ELSE {})
                                  \cup (IF place.group = Len(node.groups) THEN {active} ELSE {})
        BY <1>8 DEF GroupDone
    <2>2. Len(node.groups) \in Nat
        BY <1>2, <1>3, NodeFacts
    <2>3. PICK g : g = IF place.group = Len(node.groups) THEN 0 ELSE place.group + 1
        OBVIOUS
    <2>4. g \in Nat /\ (g > 0 => g <= Len(node.groups))
        BY <1>2, <2>2, <2>3
    <2>5. /\ place' = [mod |-> place.mod, node |-> place.node, group |-> g]
          /\ place'.mod = place.mod /\ place'.node = place.node /\ place'.group = g
        BY <1>2, <2>1, <2>3
    <2>6. here' = here /\ node' = node
        BY <1>1, <2>5 DEF here, node, NodeOf
    <2>7. AtNode'
        BY <1>1, <1>2, <2>5, <2>6 DEF AtNode
    <2>8. PlaceInv'
        BY <1>2, <2>4, <2>5, <2>6, <2>7 DEF PlaceInv
    <2>9. complete' \subseteq AllEntries
        BY <1>4, <2>1 DEF Inv, WaitsInv
    <2>10. WaitsInv'
        BY <1>1, <1>4, <2>9, WaitsStay DEF Inv
    <2> QED
        BY <2>8, <2>10
<1>9. CASE GroupDone(FALSE) /\ UNCHANGED <<namesVars, outcome>>
    BY <1>1, <1>7, <1>8, <1>9, NamesStay, NotStuck DEF Inv
<1>10. CASE /\ target.is = "found"
            /\ IF GroupModule.is = "found" THEN bring_module(target.what) /\ UNCHANGED broughtEntities
               ELSE bring_entity(target.what) /\ UNCHANGED broughtModules
            /\ GroupDone(TRUE)
            /\ UNCHANGED <<defined, outcome>>
    <2>1. CASE GroupModule.is = "found"
        <3>1. target.what \in Mod
            BY <1>3, <1>5, <2>1
        <3>2. NamesInv'
            BY <1>1, <1>3, <1>10, <2>1, <3>1, BroughtModuleKeepsNames DEF Inv
        <3> QED
            BY <1>1, <1>7, <1>8, <1>10, <3>2, NotStuck DEF Inv
    <2>2. CASE GroupModule.is # "found"
        <3>1. NamesInv'
            BY <1>1, <1>3, <1>10, <2>2, BroughtEntityKeepsNames DEF Inv
        <3> QED
            BY <1>1, <1>7, <1>8, <1>10, <3>1, NotStuck DEF Inv
    <2> QED
        BY <2>1, <2>2
<1>11. CASE /\ outcome' \in {target.is, "noParentLib"}
            /\ UNCHANGED <<namesVars, place, already, complete>>
    <2>1. NamesInv' /\ PlaceInv' /\ StuckInv'
        BY <1>1, <1>6, <1>11, NamesStay, PlaceStays, NotStuck DEF Inv
    <2>2. WaitsInv'
        BY <1>1, <1>4, <1>11, WaitsStay DEF Inv, WaitsInv
    <2> QED
        BY <1>7, <2>1, <2>2 DEF Inv
<1>12. \/ GroupDone(FALSE) /\ UNCHANGED <<namesVars, outcome>>
       \/ /\ target.is = "found"
          /\ IF GroupModule.is = "found" THEN bring_module(target.what) /\ UNCHANGED broughtEntities
             ELSE bring_entity(target.what) /\ UNCHANGED broughtModules
          /\ GroupDone(TRUE)
          /\ UNCHANGED <<defined, outcome>>
       \/ /\ outcome' \in {target.is, "noParentLib"}
          /\ UNCHANGED <<namesVars, place, already, complete>>
    BY <1>5 DEF HandleGroup
<1> QED
    BY <1>9, <1>10, <1>11, <1>12

LEMMA FinishKeepsInv ==
    ASSUME Inv, Finish
    PROVE  Inv'
<1>1. /\ outcome = "running" /\ pass = "emit" /\ Idle /\ ~\E e \in AllEntries : Ready(e)
      /\ Fail(IF AllEntries = complete THEN "done" ELSE "stuck")
    BY DEF Finish
<1>2. CASE AllEntries = complete
    BY <1>1, <1>2, FailKeepsInv
<1>3. CASE AllEntries # complete
    <2>1. /\ UNCHANGED <<program, namesVars>> /\ outcome' = "stuck"
          /\ pass' = pass /\ place' = place /\ active' = active /\ entries' = entries
          /\ waits' = waits /\ complete' = complete
        BY <1>1, <1>3 DEF Fail
    <2>2. \A e \in AllEntries \ complete : e \in DOMAIN waits /\ waits[e] \notin complete
        BY <1>1 DEF Ready
    <2>3. AllEntries' = AllEntries
        BY <2>1, SameEntries
    <2>4. StuckInv'
        BY <1>3, <2>1, <2>2, <2>3 DEF StuckInv
    <2>5. NamesInv' /\ EntriesInv' /\ PlaceInv' /\ CreatedInv'
        BY <2>1, NamesStay, SameEntries, PlaceStays, CreatedStays DEF Inv
    <2>6. WaitsInv'
        BY <2>1, WaitsStay DEF Inv, WaitsInv
    <2> QED
        BY <2>4, <2>5, <2>6 DEF Inv
<1> QED
    BY <1>2, <1>3

LEMMA StutterKeepsInv ==
    ASSUME Inv, UNCHANGED vars
    PROVE  Inv'
<1>1. /\ UNCHANGED <<program, namesVars>> /\ outcome' = outcome
      /\ pass' = pass /\ place' = place /\ active' = active /\ entries' = entries
      /\ waits' = waits /\ complete' = complete
    BY DEF vars, resolutionVars
<1>2. NamesInv' /\ EntriesInv' /\ PlaceInv' /\ CreatedInv'
    BY <1>1, NamesStay, SameEntries, PlaceStays, CreatedStays DEF Inv
<1>3. WaitsInv'
    BY <1>1, WaitsStay DEF Inv, WaitsInv
<1>4. AllEntries' = AllEntries
    BY <1>1, SameEntries
<1>5. StuckInv'
    BY <1>1, <1>4 DEF Inv, StuckInv
<1> QED
    BY <1>2, <1>3, <1>5 DEF Inv

(* The functions whose prototype is created are declarations.              *)
FunctionsInv ==
    /\ pass = "create" => created = {}
    /\ \A e \in created : IsDeclaration(e)

LEMMA FunctionsStay ==
    ASSUME FunctionsInv, program' = program, created' = created,
           pass' = "create" => pass = "create", pass = "create" \/ entries' = entries
    PROVE  FunctionsInv'
<1>1. entries' = entries => \A e : IsDeclaration(e)' <=> IsDeclaration(e)
    BY DEF IsDeclaration, Declaration, NodeOf, Entry
<1> QED
    BY <1>1 DEF FunctionsInv

LEMMA NextKeepsFunctions ==
    ASSUME FunctionsInv, [Next]_vars
    PROVE  FunctionsInv'
<1>1. ASSUME NEW error, Fail(error)
      PROVE  FunctionsInv'
    BY <1>1, FunctionsStay DEF Fail
<1>2. ASSUME NEW e, NEW error, EmitFails(e, error)
      PROVE  FunctionsInv'
    BY <1>2, FunctionsStay DEF EmitFails
<1>3. ASSUME NEW answer, WaitFor(answer)
      PROVE  FunctionsInv'
    BY <1>3, FunctionsStay DEF WaitFor
<1>4. CASE NextModule
    BY <1>4, FunctionsStay DEF NextModule
<1>5. CASE NextPass
    BY <1>5, FunctionsStay DEF NextPass
<1>6. CASE CreateDeclaration
    BY <1>1, <1>6, FunctionsStay DEF CreateDeclaration
<1>7. CASE CreateSentence
    BY <1>7, FunctionsStay DEF CreateSentence
<1>8. CASE CreateGroup
    BY <1>1, <1>8, FunctionsStay DEF CreateGroup
<1>9. CASE UpdateDeclaration
    BY <1>1, <1>3, <1>9 DEF UpdateDeclaration
<1>10. CASE UpdateGroup
    BY <1>1, <1>3, <1>10 DEF UpdateGroup
<1>11. ASSUME NEW e \in AllEntries, CreateFunction(e)
       PROVE  FunctionsInv'
    <2>1. pass = "emit" /\ IsDeclaration(e)
        BY <1>11 DEF CreateFunction
    <2>2. CASE \E error : EmitFails(e, error)
        BY <1>2, <2>2
    <2>3. CASE created' = created \cup {e}
               /\ UNCHANGED <<program, broughtModules, broughtEntities, pass, place, entries,
                              waits, complete, already, met, outcome>>
        <3>1. \A d : IsDeclaration(d)' <=> IsDeclaration(d)
            BY <2>3 DEF IsDeclaration, Declaration, NodeOf, Entry
        <3> QED
            BY <2>1, <2>3, <3>1 DEF FunctionsInv
    <2> QED
        BY <1>11, <2>2, <2>3 DEF CreateFunction
<1>12. ASSUME NEW e \in AllEntries, EmitBody(e)
       PROVE  FunctionsInv'
    BY <1>2, <1>12, FunctionsStay DEF EmitBody
<1>13. ASSUME NEW e \in AllEntries, EmitDeclaration(e)
       PROVE  FunctionsInv'
    BY <1>2, <1>13, FunctionsStay DEF EmitDeclaration
<1>14. ASSUME NEW e \in AllEntries, StartBrings(e)
       PROVE  FunctionsInv'
    BY <1>14, FunctionsStay DEF StartBrings
<1>15. CASE HandleGroup
    BY <1>15, FunctionsStay DEF HandleGroup
<1>16. CASE Finish
    BY <1>1, <1>16 DEF Finish
<1>17. CASE UNCHANGED vars
    BY <1>17, FunctionsStay DEF vars, resolutionVars
<1> QED
    BY <1>4, <1>5, <1>6, <1>7, <1>8, <1>9, <1>10, <1>11, <1>12, <1>13, <1>14, <1>15, <1>16, <1>17
       DEF Next, Ended

LEMMA InitEstablishesInv ==
    ASSUME Init
    PROVE  Inv /\ FunctionsInv
<1>1. /\ program \in Programs
      /\ defined = [m \in Mod |-> <<>>] /\ broughtModules = program.brings
      /\ broughtEntities = [m \in Mod |-> <<>>]
      /\ pass = "create" /\ place = [mod |-> 1, node |-> 1, group |-> 0]
      /\ entries = [m \in Mod |-> <<>>]
      /\ waits = <<>> /\ created = {} /\ complete = {} /\ outcome = "running"
    BY DEF Init
<1>2. NamesInv
    <2>1. broughtModules \in [Mod -> Seq(BringType)]
        BY <1>1, ProgramFacts
    <2>2. \A m \in Mod : broughtModules[m] \in Seq(BringType)
        BY <2>1
    <2>3. \A m \in Mod : /\ IsSeq(broughtModules[m])
                         /\ \A b \in ToSet(broughtModules[m]) : b.mod \in Mod
        <3>1. \A m \in Mod : /\ IsSeq(broughtModules[m])
                             /\ \A b \in ToSet(broughtModules[m]) : b \in BringType
            BY <2>2, SeqOfIsSeq, ElementsOfSeq
        <3>2. \A b \in BringType : b.mod \in Mod
            BY DEF BringType
        <3> QED
            BY <3>1, <3>2
    <2>4. broughtModules = [m \in Mod |-> broughtModules[m]]
        BY <2>1
    <2>5. IsSeq(<<>>) /\ ToSet(<<>>) = {}
        BY EmptyIsSeq, SeqFacts DEF ToSet
    <2> QED
        BY <1>1, <2>3, <2>4, <2>5 DEF NamesInv
<1>3. AllEntries = {}
    <2>1. DOMAIN <<>> = {}
        OBVIOUS
    <2> QED
        BY <1>1, <2>1 DEF AllEntries
<1>4. EntriesInv
    BY <1>1, <1>3, EmptyIsSeq DEF EntriesInv
<1>5. PlaceInv
    BY <1>1 DEF PlaceInv
<1>6. CreatedInv
    <2>1. ASSUME NEW j \in DOMAIN program.order, NEW i, NEW g,
                 IsPlace(program.order[j], i, g), Passed(j, i, g)
          PROVE  FALSE
        <3>1. j \in Nat \ {0} /\ program.order[j] \in Mod
            BY <1>1, ProgramFacts
        <3>2. /\ i \in DOMAIN program.nodes[program.order[j]]
              /\ g \in GroupsOf(program.nodes[program.order[j]][i])
            BY <2>1 DEF IsPlace
        <3>3. i \in Nat \ {0} /\ program.nodes[program.order[j]][i] \in NodeType
            BY <1>1, <3>1, <3>2, ProgramFacts
        <3>4. g \in Nat
            BY <3>2, <3>3, NodeFacts DEF GroupsOf
        <3> QED
            BY <1>1, <2>1, <3>1, <3>3, <3>4 DEF Passed
    <2> QED
        BY <1>1, <2>1 DEF CreatedInv
<1>7. WaitsInv
    <2>1. DOMAIN waits = {}
        BY <1>1
    <2> QED
        BY <1>1, <1>3, <2>1 DEF WaitsInv
<1>8. StuckInv /\ FunctionsInv
    BY <1>1 DEF StuckInv, FunctionsInv
<1> QED
    BY <1>2, <1>4, <1>5, <1>6, <1>7, <1>8 DEF Inv

LEMMA NextKeepsInv ==
    ASSUME Inv, FunctionsInv, [Next]_vars
    PROVE  Inv'
<1>1. ASSUME NEW e \in AllEntries, EmitBody(e)
      PROVE  Inv'
    BY <1>1, EmitBodyKeepsInv DEF FunctionsInv
<1>2. CASE \E e \in AllEntries :
               CreateFunction(e) \/ EmitBody(e) \/ EmitDeclaration(e) \/ StartBrings(e)
    BY <1>1, <1>2, CreateFunctionKeepsInv, EmitDeclarationKeepsInv, StartBringsKeepsInv
<1>3. CASE NextModule \/ NextPass
    BY <1>3, NextModuleKeepsInv, NextPassKeepsInv
<1>4. CASE CreateDeclaration \/ CreateSentence \/ CreateGroup
    BY <1>4, CreateDeclarationKeepsInv, CreateSentenceKeepsInv, CreateGroupKeepsInv
<1>5. CASE UpdateDeclaration \/ UpdateGroup
    BY <1>5, UpdateDeclarationKeepsInv, UpdateGroupKeepsInv
<1>6. CASE HandleGroup \/ Finish
    BY <1>6, HandleGroupKeepsInv, FinishKeepsInv
<1>7. CASE UNCHANGED vars
    BY <1>7, StutterKeepsInv
<1> QED
    BY <1>2, <1>3, <1>4, <1>5, <1>6, <1>7 DEF Next, Ended

THEOREM InvariantHolds == Spec => [](Inv /\ FunctionsInv)
<1>1. Init => Inv /\ FunctionsInv
    BY InitEstablishesInv
<1>2. Inv /\ FunctionsInv /\ [Next]_vars => (Inv /\ FunctionsInv)'
    BY NextKeepsInv, NextKeepsFunctions
<1> QED
    BY <1>1, <1>2, PTL DEF Spec

-----------------------------------------------------------------------------
(* Every lookup of the name of an entity, in every module, for everybody,  *)
(* at the end of every run, finds what is there: the four functions of a   *)
(* kind agree with each other and with what they are for.                  *)
LEMMA SchemeOfKind ==
    ASSUME NEW k \in Kind
    PROVE  LET s == CHOOSE s \in Schemes : s.kind = k
           IN  /\ s.kind = k /\ s.getsBrought \in BOOLEAN
               /\ ~s.getsBrought => k = "generic struct type"
<1>1. \A c : Scheme(c) = [kind |-> c, getsBrought |-> TRUE]
    BY DEF Scheme
<1>2. PICK g : g = Scheme("generic struct type")
    OBVIOUS
<1>3. \A c : Scheme(c).kind = c /\ Scheme(c).getsBrought = TRUE
    BY <1>1
<1>4. generic_struct_type.kind = "generic struct type" /\ generic_struct_type.getsBrought = FALSE
    <2>1. generic_struct_type = [g EXCEPT !.getsBrought = FALSE]
        BY <1>2 DEF generic_struct_type
    <2>2. g = [kind |-> "generic struct type", getsBrought |-> TRUE]
        BY <1>1, <1>2
    <2>3. [g EXCEPT !.getsBrought = FALSE].kind = "generic struct type"
        BY <2>2
    <2>4. [g EXCEPT !.getsBrought = FALSE].getsBrought = FALSE
        BY <2>2
    <2> QED
        BY <2>1, <2>3, <2>4
<1>5. \A s \in Schemes : s = generic_struct_type \/ \E c : s = Scheme(c)
    BY Zenon
    DEF Schemes, opaque_type, struct_type, mix_type, choice_type, flag_type, type_definition,
        generic_type_def, skill, generic_skill, function, prerun_function, generic_function,
        region, global, prerun_global
<1>6. ASSUME NEW s \in Schemes
      PROVE  s.getsBrought \in BOOLEAN /\ (~s.getsBrought => s.kind = "generic struct type")
    <2>1. CASE s = generic_struct_type
        BY <1>4, <2>1, Zenon
    <2>2. CASE \E c : s = Scheme(c)
        BY <1>3, <2>2, Zenon
    <2> QED
        BY <1>5, <2>1, <2>2
<1>7. \E s \in Schemes : s.kind = k
    <2>1. CASE k = "generic struct type"
        <3>1. generic_struct_type \in Schemes
            BY DEF Schemes
        <3> QED
            BY <1>4, <2>1, <3>1
    <2>2. CASE k # "generic struct type"
        <3>1. Scheme(k) \in Schemes
            BY <2>2
            DEF Kind, Schemes, opaque_type, struct_type, mix_type, choice_type, flag_type,
                type_definition, generic_type_def, skill, generic_skill, function,
                prerun_function, generic_function, region, global, prerun_global
        <3> QED
            BY <1>3, <3>1
    <2> QED
        BY <2>1, <2>2
<1> QED
    BY <1>6, <1>7

THEOREM LookupsAreSound == Spec => []LookupsFindWhatIsThere
<1>1. Inv => LookupsFindWhatIsThere
    <2> DEFINE Of(k) == CHOOSE s \in Schemes : s.kind = k
               Finds(k, m, who, n) ==
                   LET res == EntityNamed(Of(k), m, n, who)
                       there == Candidates(k, m, n, who)
                   IN  CASE res.is = "found"    -> res.what \in there
                         [] res.is = "none"     -> there = {} /\ ~GoesRound(m)
                         [] res.is = "overflow" -> GoesRound(m)
                         [] res.is = "crash"    -> /\ k = "generic struct type"
                                                   /\ HasFromElsewhere(k, m, n, who)
                         [] OTHER               -> FALSE
    <2>1. ASSUME Inv, NEW k \in KindsInPlay, NEW m \in ToSet(program.order),
                 NEW who \in ToSet(program.order), NEW n \in NamesInPlay
          PROVE  Finds(k, m, who, n)
        <3>1. k \in Kind
            BY <2>1 DEF Inv, NamesInv, KindsInPlay
        <3>2. PICK s : s = Of(k)
            OBVIOUS
        <3>3. /\ s.kind = k /\ s.getsBrought \in BOOLEAN
              /\ ~s.getsBrought => k = "generic struct type"
            BY <3>1, <3>2, SchemeOfKind
        <3>4. m \in Mod /\ NamesTyped
            BY <2>1, ProgramFacts, NamesAreTyped DEF Inv, NamesInv
        <3>5. PICK c : c = <<"named", m>>
            OBVIOUS
        <3>6. c \in Calls
            BY <3>4, <3>5 DEF Calls
        <3>7. PICK res : res = EntityNamed(s, m, n, who)
            OBVIOUS
        <3>8. res = Lookup(s, n, who)[c]
            BY <3>5, <3>7 DEF EntityNamed
        <3>9. Right(s, n, who, c, res)
            <4>0. NamesTyped /\ s.getsBrought \in BOOLEAN
                BY <3>3, <3>4
            <4>1. Right(s, n, who, c, Lookup(s, n, who)[c])
                BY <4>0, <3>6, LookupIsRight
            <4> QED
                BY <3>8, <4>1, Zenon
        <3>10. /\ res.is \in {"found", "none", "overflow", "crash"}
               /\ res.is = "found" => res.what \in Candidates(k, m, n, who)
               /\ res.is = "none" => Candidates(k, m, n, who) = {} /\ ~GoesRound(m)
               /\ res.is = "overflow" => GoesRound(m)
               /\ res.is = "crash" => k = "generic struct type" /\ HasFromElsewhere(k, m, n, who)
            BY <3>3, <3>5, <3>9 DEF Right, Sound, NoneMeans, Nothing
        <3> QED
            BY <3>2, <3>7, <3>10
    <2> QED
        BY <2>1 DEF LookupsFindWhatIsThere
<1> QED
    BY <1>1, InvariantHolds, PTL

-----------------------------------------------------------------------------
(* In a finite set in which each waits for one of the set, some wait for   *)
(* each other in a circle: the smallest of the sets that are closed.       *)
IsCircle(w, U) == {w[e] : e \in U} = U

LEMMA CircleExists ==
    ASSUME NEW T, IsFiniteSet(T), T # {}, NEW w, \A e \in T : w[e] \in T
    PROVE  \E U \in SUBSET T : U # {} /\ IsCircle(w, U)
<1>1. PICK P : P = {U \in SUBSET T : U # {} /\ \A e \in U : w[e] \in U}
    OBVIOUS
<1>2. \A U \in P : IsFiniteSet(U) /\ Cardinality(U) \in Nat
    BY <1>1, FS_Subset, FS_CardinalityType
<1>3. PICK Sizes : Sizes = {Cardinality(U) : U \in P}
    OBVIOUS
<1>4. Sizes \subseteq Nat /\ Sizes # {}
    <2>1. T \in P
        BY <1>1
    <2> QED
        BY <1>2, <1>3, <2>1
<1>5. PICK k \in Sizes : \A j \in Sizes : k <= j
    BY <1>4, LeastNumber
<1>6. PICK U \in P : Cardinality(U) = k
    BY <1>3
<1>7. PICK W : W = {w[e] : e \in U}
    OBVIOUS
<1>8. W \subseteq U /\ W \in P
    BY <1>1, <1>7
<1>9. Cardinality(U) <= Cardinality(W)
    BY <1>3, <1>5, <1>6, <1>8
<1>10. W = U
    <2>1. /\ Cardinality(W) <= Cardinality(U)
          /\ Cardinality(W) = Cardinality(U) => W = U
        BY <1>2, <1>8, FS_Subset
    <2> QED
        BY <1>2, <1>8, <1>9, <2>1
<1> QED
    BY <1>1, <1>6, <1>7, <1>10 DEF IsCircle

LEMMA EntriesAreFinite ==
    ASSUME EntriesInv
    PROVE  IsFiniteSet(AllEntries)
<1>1. ASSUME NEW m \in Mod
      PROVE  IsFiniteSet({<<m, i>> : i \in DOMAIN entries[m]})
    <2>1. DOMAIN entries[m] = 1 .. Len(entries[m]) /\ Len(entries[m]) \in Nat
        BY SeqFacts DEF EntriesInv
    <2>2. IsFiniteSet(1 .. Len(entries[m]))
        BY <2>1, FS_Interval
    <2>3. IsFiniteSet({m} \X (1 .. Len(entries[m])))
        BY <2>2, FS_Singleton, FS_Product
    <2>4. {<<m, i>> : i \in DOMAIN entries[m]} \subseteq {m} \X (1 .. Len(entries[m]))
        BY <2>1
    <2> QED
        BY <2>3, <2>4, FS_Subset
<1>2. PICK S : S = {{<<m, i>> : i \in DOMAIN entries[m]} : m \in Mod}
    OBVIOUS
<1>3. PICK f : f = [m \in Mod |-> {<<m, i>> : i \in DOMAIN entries[m]}]
    OBVIOUS
<1>4. f \in Surjection(Mod, S)
    BY <1>2, <1>3 DEF Surjection
<1>5. IsFiniteSet(S)
    BY <1>4, ModAssumption, FS_Surjection
<1>6. IsFiniteSet(UNION S)
    BY <1>1, <1>2, <1>5, FS_UNION
<1> QED
    BY <1>2, <1>6 DEF AllEntries

(* When nothing goes on, entries wait for each other in a circle; and a    *)
(* bring of a bare name that is not given another waits for nothing but    *)
(* an entry of its module before it.                                       *)
THEOREM StuckEntriesWaitForEachOther == Spec => []StuckIsCircleOfWaits
<1>1. Inv => StuckIsCircleOfWaits
    <2>1. SUFFICES ASSUME Inv
                   PROVE  StuckIsCircleOfWaits
        OBVIOUS
    <2>2. \A e \in DOMAIN waits : IsBareGroup(e) => waits[e][1] = e[1] /\ waits[e][2] < e[2]
        BY <2>1 DEF Inv, WaitsInv
    <2>3. ASSUME outcome = "stuck"
          PROVE  \E circle \in (SUBSET (DOMAIN waits \ complete)) \ {{}} :
                     {waits[e] : e \in circle} = circle
        <3>1. PICK T : T = AllEntries \ complete
            OBVIOUS
        <3>2. T # {}
            BY <2>1, <2>3, <3>1 DEF Inv, StuckInv, WaitsInv
        <3>3. T \subseteq DOMAIN waits \ complete /\ \A e \in T : waits[e] \in T
            BY <2>1, <2>3, <3>1 DEF Inv, StuckInv, WaitsInv
        <3>4. IsFiniteSet(T)
            BY <2>1, <3>1, EntriesAreFinite, FS_Subset DEF Inv
        <3>5. PICK U \in SUBSET T : U # {} /\ IsCircle(waits, U)
            <4>1. PICK w : w = waits /\ \A e \in T : w[e] \in T
                BY <3>3
            <4>2. \E U \in SUBSET T : U # {} /\ IsCircle(w, U)
                BY ONLY <3>2, <3>4, <4>1, CircleExists
            <4> QED
                BY <4>1, <4>2
        <3>6. U \in (SUBSET (DOMAIN waits \ complete)) \ {{}}
            BY <3>3, <3>5
        <3> QED
            BY <3>5, <3>6 DEF IsCircle
    <2> QED
        BY <2>2, <2>3 DEF StuckIsCircleOfWaits
<1> QED
    BY <1>1, InvariantHolds, PTL
===============================================================================

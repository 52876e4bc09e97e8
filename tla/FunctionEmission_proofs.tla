------------------------- MODULE FunctionEmission_proofs -------------------------
(***************************************************************************)
(* Proofs about FunctionEmission, for all functions made of well-formed    *)
(* sentences: every block a run can come to has been closed, and the names *)
(* seen where emission has come to are those in scope there.               *)
(***************************************************************************)
EXTENDS FunctionEmission, SequenceTheorems, FiniteSetTheorems, WellFoundedInduction,
        TLAPS

-----------------------------------------------------------------------------
(* Facts about sequences, sets of numbers and functions that are recursive *)
(* by a rank, which the proofs below need.                                 *)

(* A sequence, of whatever.                                                *)
IsSeq(s) == s \in Seq(ToSet(s))

(* Length and domain of a sequence.                                        *)
LEMMA SeqFacts ==
    ASSUME NEW s, IsSeq(s)
    PROVE  /\ Len(s) \in Nat
           /\ DOMAIN s = 1 .. Len(s)
           /\ s = <<>> <=> Len(s) = 0
    BY LenProperties, EmptySeq DEF IsSeq

(* The empty sequence is one.                                              *)
LEMMA EmptyIsSeq == IsSeq(<<>>) /\ Len(<<>>) = 0
    BY DEF IsSeq

(* So is every sequence over a set.                                        *)
LEMMA SeqOfIsSeq ==
    ASSUME NEW S, NEW s \in Seq(S)
    PROVE  IsSeq(s)
<1>1. /\ Len(s) \in Nat /\ DOMAIN s = 1 .. Len(s) /\ s \in [1 .. Len(s) -> S]
    BY LenProperties
<1>2. s \in [1 .. Len(s) -> ToSet(s)]
    BY <1>1 DEF ToSet
<1> QED
    BY <1>1, <1>2 DEF IsSeq

(* The elements of a sequence over a set are of that set.                  *)
LEMMA ElementsOfSeq ==
    ASSUME NEW S, NEW s \in Seq(S)
    PROVE  \A x \in ToSet(s) : x \in S
<1>1. DOMAIN s = 1 .. Len(s) /\ s \in [1 .. Len(s) -> S]
    BY LenProperties
<1>2. \A i \in DOMAIN s : s[i] \in S
    BY <1>1
<1> QED
    BY <1>2 DEF ToSet

(* And the sequence of one element.                                        *)
LEMMA SingletonIsSeq ==
    ASSUME NEW e
    PROVE  IsSeq(<<e>>) /\ Len(<<e>>) = 1 /\ DOMAIN <<e>> = 1 .. 1 /\ <<e>>[1] = e
<1>1. <<e>> \in Seq({e}) /\ Len(<<e>>) = 1 /\ <<e>>[1] = e
    OBVIOUS
<1>2. IsSeq(<<e>>)
    BY <1>1, SeqOfIsSeq
<1> QED
    BY <1>1, <1>2, SeqFacts

(* A function on the first numbers is a sequence.                          *)
LEMMA FunctionIsSeq ==
    ASSUME NEW n \in Nat, NEW S, NEW s \in [1 .. n -> S]
    PROVE  IsSeq(s) /\ Len(s) = n
<1>1. s \in Seq(S) /\ Len(s) = n
    OBVIOUS
<1> QED
    BY <1>1, SeqOfIsSeq

(* What Append gives, whatever the elements are.                           *)
LEMMA AppendAny ==
    ASSUME NEW s, IsSeq(s), NEW e
    PROVE  /\ IsSeq(Append(s, e))
           /\ Len(Append(s, e)) = Len(s) + 1
           /\ DOMAIN Append(s, e) = 1 .. Len(s) + 1
           /\ \A i \in 1 .. Len(s) : Append(s, e)[i] = s[i]
           /\ Append(s, e)[Len(s) + 1] = e
<1> DEFINE S == ToSet(s) \cup {e}
<1>1. s \in Seq(S)
    BY SeqMonotonic DEF IsSeq
<1>2. e \in S
    OBVIOUS
<1> HIDE DEF S
<1>3. /\ Append(s, e) \in Seq(S)
      /\ Len(Append(s, e)) = Len(s) + 1
      /\ \A i \in 1 .. Len(s) : Append(s, e)[i] = s[i]
      /\ Append(s, e)[Len(s) + 1] = e
    BY <1>1, <1>2, AppendProperties
<1>4. DOMAIN Append(s, e) = 1 .. Len(s) + 1
    BY <1>3, LenProperties
<1>5. IsSeq(Append(s, e))
    BY <1>3, SeqOfIsSeq
<1> QED
    BY <1>3, <1>4, <1>5

(* What Append adds to the elements.                                       *)
LEMMA AppendAdds ==
    ASSUME NEW s, IsSeq(s), NEW x
    PROVE  ToSet(Append(s, x)) = ToSet(s) \cup {x}
<1>1. /\ DOMAIN Append(s, x) = 1 .. Len(s) + 1 /\ Append(s, x)[Len(s) + 1] = x
      /\ \A i \in 1 .. Len(s) : Append(s, x)[i] = s[i]
      /\ Len(s) \in Nat /\ DOMAIN s = 1 .. Len(s)
    BY AppendAny, SeqFacts
<1>2. \A i \in 1 .. Len(s) + 1 : i \in 1 .. Len(s) \/ i = Len(s) + 1
    BY <1>1
<1>3. Len(s) + 1 \in 1 .. Len(s) + 1 /\ 1 .. Len(s) \subseteq 1 .. Len(s) + 1
    BY <1>1
<1> QED
    BY <1>1, <1>2, <1>3 DEF ToSet

(* What Front leaves, of a sequence that is not empty.                     *)
LEMMA FrontAny ==
    ASSUME NEW s, IsSeq(s), Len(s) # 0
    PROVE  /\ IsSeq(Front(s))
           /\ Len(Front(s)) = Len(s) - 1
           /\ DOMAIN Front(s) = 1 .. Len(s) - 1
           /\ \A i \in 1 .. Len(s) - 1 : Front(s)[i] = s[i]
           /\ Len(s) \in Nat \ {0} /\ Last(s) = s[Len(s)]
<1> DEFINE S == ToSet(s)
<1>1. /\ Len(s) \in Nat /\ DOMAIN s = 1 .. Len(s)
    BY SeqFacts
<1>2. \A i \in 1 .. Len(s) - 1 : s[i] \in S
    BY <1>1 DEF ToSet
<1> HIDE DEF S
<1>3. 1 \in Int /\ Len(s) - 1 \in Int
    BY <1>1
<1> DEFINE n == Len(s) - 1
<1>4. \A i \in 1 .. n : s[i] \in S
    BY <1>2
<1> HIDE DEF n
<1>5. n \in Int
    BY <1>3 DEF n
<1>6. /\ SubSeq(s, 1, n) \in Seq(S)
      /\ Len(SubSeq(s, 1, n)) = IF 1 <= n THEN n - 1 + 1 ELSE 0
      /\ \A i \in 1 .. n - 1 + 1 : SubSeq(s, 1, n)[i] = s[1 + i - 1]
    BY <1>4, <1>5, SubSeqProperties
<1>7. Front(s) = SubSeq(s, 1, n)
    BY DEF Front, n
<1>8. n \in Nat /\ n - 1 + 1 = n /\ \A i \in 1 .. n : 1 + i - 1 = i
    BY <1>1 DEF n
<1>9. /\ Front(s) \in Seq(S) /\ Len(Front(s)) = n
      /\ \A i \in 1 .. n : Front(s)[i] = s[i]
    BY <1>6, <1>7, <1>8
<1>10. DOMAIN Front(s) = 1 .. n
    BY <1>9, LenProperties
<1>11. IsSeq(Front(s))
    BY <1>9, SeqOfIsSeq
<1> QED
    BY <1>1, <1>9, <1>10, <1>11 DEF n, Last

(* What the update of one element changes.                                 *)
LEMMA ExceptAny ==
    ASSUME NEW s, IsSeq(s), NEW i \in DOMAIN s, NEW e
    PROVE  /\ IsSeq([s EXCEPT ![i] = e])
           /\ Len([s EXCEPT ![i] = e]) = Len(s)
           /\ DOMAIN [s EXCEPT ![i] = e] = DOMAIN s
           /\ \A j \in DOMAIN s : [s EXCEPT ![i] = e][j] = IF j = i THEN e ELSE s[j]
<1> DEFINE S == ToSet(s) \cup {e}
<1>1. s \in Seq(S) /\ e \in S /\ i \in 1 .. Len(s) /\ DOMAIN s = 1 .. Len(s)
    BY SeqMonotonic, SeqFacts DEF IsSeq
<1> HIDE DEF S
<1>2. /\ [s EXCEPT ![i] = e] \in Seq(S)
      /\ Len([s EXCEPT ![i] = e]) = Len(s)
      /\ \A j \in 1 .. Len(s) : [s EXCEPT ![i] = e][j] = IF j = i THEN e ELSE s[j]
    BY <1>1, ExceptSeq
<1> QED
    BY <1>1, <1>2, SeqOfIsSeq

(* Which elements a concatenation has, and where.                          *)
LEMMA ConcatAny ==
    ASSUME NEW s, IsSeq(s), NEW t, IsSeq(t)
    PROVE  /\ IsSeq(s \o t)
           /\ Len(s \o t) = Len(s) + Len(t)
           /\ DOMAIN (s \o t) = 1 .. Len(s) + Len(t)
           /\ \A i \in 1 .. Len(s) + Len(t) :
                 (s \o t)[i] = IF i <= Len(s) THEN s[i] ELSE t[i - Len(s)]
<1> DEFINE S == ToSet(s) \cup ToSet(t)
<1>1. s \in Seq(S) /\ t \in Seq(S)
    BY SeqMonotonic DEF IsSeq
<1> HIDE DEF S
<1>2. /\ s \o t \in Seq(S)
      /\ Len(s \o t) = Len(s) + Len(t)
      /\ \A i \in 1 .. Len(s) + Len(t) :
            (s \o t)[i] = IF i <= Len(s) THEN s[i] ELSE t[i - Len(s)]
    BY <1>1, ConcatProperties
<1>3. DOMAIN (s \o t) = 1 .. Len(s) + Len(t)
    BY <1>2, LenProperties
<1> QED
    BY <1>2, <1>3, SeqOfIsSeq

(* A set of numbers that is not empty has a least one.                     *)
LEMMA LeastNumber ==
    ASSUME NEW I, I \subseteq Nat, I # {}
    PROVE  \E x \in I : \A y \in I : x <= y
<1> DEFINE R == OpToRel(<, Nat)
<1>1. IsWellFoundedOn(R, Nat)
    BY NatLessThanWellFounded
<1>2. ASSUME NEW x \in I, NEW y \in I, y < x
      PROVE  <<y, x>> \in R
    <2>1. <<y, x>> \in Nat \X Nat /\ <<y, x>>[1] = y /\ <<y, x>>[2] = x
        OBVIOUS
    <2> QED
        BY <1>2, <2>1, Zenon DEF OpToRel
<1> HIDE DEF R
<1>3. PICK x \in I : \A y \in I : ~(<<y, x>> \in R)
    BY <1>1, WFMin
<1>4. \A y \in I : ~(y < x)
    BY <1>2, <1>3, Zenon
<1> QED
    BY <1>3, <1>4

(* A function whose value at each member c of D is G[c] of its values at   *)
(* members of a lower rank.                                                *)
IsRecursiveOn(D, V, G) == \E f \in [D -> V] : \A c \in D : f[c] = G[c][f]

LooksLower(D, rank, V, G) ==
    /\ G \in [D -> [[D -> V] -> V]]
    /\ \A c \in D : \A f, g \in [D -> V] :
          (\A d \in D : rank[d] < rank[c] => f[d] = g[d]) => G[c][f] = G[c][g]

(* It exists: those right for the members of the lowest ranks are          *)
(* corrected rank by rank.                                                 *)
LEMMA RecursionByRank ==
    ASSUME NEW D, NEW n \in Nat, NEW rank \in [D -> 0 .. n], NEW V, V # {}, NEW G,
           LooksLower(D, rank, V, G)
    PROVE  IsRecursiveOn(D, V, G)
<1> USE DEF LooksLower, IsRecursiveOn
<1> DEFINE Good(m) == \E f \in [D -> V] : \A c \in D : rank[c] < m => f[c] = G[c][f]
           Bad == {m \in Nat : m <= n + 1 /\ ~Good(m)}
<1>1. Good(0)
    <2>1. PICK v \in V : TRUE
        OBVIOUS
    <2>2. [c \in D |-> v] \in [D -> V]
        OBVIOUS
    <2>3. \A c \in D : ~(rank[c] < 0)
        OBVIOUS
    <2> QED
        BY <2>2, <2>3
<1>2. ASSUME NEW m \in Nat, m <= n, Good(m)
      PROVE  Good(m + 1)
    <2>1. PICK f \in [D -> V] : \A c \in D : rank[c] < m => f[c] = G[c][f]
        BY <1>2
    <2>2. PICK g : g = [c \in D |-> IF rank[c] = m THEN G[c][f] ELSE f[c]]
        OBVIOUS
    <2>3. /\ g \in [D -> V]
          /\ \A c \in D : (rank[c] = m => g[c] = G[c][f]) /\ (rank[c] # m => g[c] = f[c])
        BY <2>1, <2>2
    <2>4. ASSUME NEW c \in D, rank[c] < m + 1
          PROVE  g[c] = G[c][g]
        <3>1. PICK r \in Nat : r = rank[c]
            OBVIOUS
        <3>2. r < m + 1
            BY <2>4, <3>1
        <3>3. r < m \/ r = m
            BY <3>2
        <3>4. rank[c] < m \/ rank[c] = m
            BY <3>1, <3>3
        <3>5. \A d \in D : rank[d] < rank[c] => f[d] = g[d]
            BY <2>3, <3>4
        <3>6. G[c][f] = G[c][g]
            BY <2>1, <2>3, <3>5
        <3> QED
            BY <2>1, <2>3, <3>4, <3>6
    <2> QED
        BY <2>3, <2>4
<1> HIDE DEF Good
<1>3. Bad = {}
    <2> SUFFICES ASSUME Bad # {} PROVE FALSE
        OBVIOUS
    <2>1. PICK m \in Bad : \A y \in Bad : m <= y
        BY LeastNumber
    <2>2. m \in Nat /\ m <= n + 1 /\ ~Good(m) /\ m # 0
        BY <1>1, <2>1
    <2>3. m - 1 \in Nat /\ m - 1 <= n /\ m - 1 \notin Bad /\ (m - 1) + 1 = m
        BY <2>1, <2>2
    <2>4. Good(m - 1)
        BY <2>2, <2>3
    <2>5. Good((m - 1) + 1)
        BY <1>2, <2>3, <2>4
    <2> QED
        BY <2>2, <2>3, <2>5
<1>4. n + 1 \in Nat /\ n + 1 <= n + 1
    OBVIOUS
<1>5. Good(n + 1)
    BY <1>3, <1>4
<1>6. \A c \in D : rank[c] < n + 1
    OBVIOUS
<1> QED
    BY <1>5, <1>6 DEF Good

(* In particular on the numbers up to n, by smaller or by larger ones.     *)
IsRecursive(n, V, G) == \E f \in [0 .. n -> V] : \A c \in 0 .. n : f[c] = G[c][f]

LooksUp(n, V, G) ==
    /\ G \in [0 .. n -> [[0 .. n -> V] -> V]]
    /\ \A c \in 0 .. n : \A f, g \in [0 .. n -> V] :
          (\A d \in 0 .. n : d < c => f[d] = g[d]) => G[c][f] = G[c][g]

LooksDown(n, V, G) ==
    /\ G \in [0 .. n -> [[0 .. n -> V] -> V]]
    /\ \A c \in 0 .. n : \A f, g \in [0 .. n -> V] :
          (\A d \in 0 .. n : d > c => f[d] = g[d]) => G[c][f] = G[c][g]

LEMMA RecursionUp ==
    ASSUME NEW n \in Nat, NEW V, V # {}, NEW G, LooksUp(n, V, G)
    PROVE  IsRecursive(n, V, G)
<1>1. PICK rank \in [0 .. n -> 0 .. n] : \A c \in 0 .. n : rank[c] = c
    <2>1. [c \in 0 .. n |-> c] \in [0 .. n -> 0 .. n]
        OBVIOUS
    <2> QED
        BY <2>1
<1>2. \A c, d \in 0 .. n : d < c <=> rank[d] < rank[c]
    BY <1>1
<1>3. LooksLower(0 .. n, rank, V, G)
    BY <1>2 DEF LooksUp, LooksLower
<1>4. IsRecursiveOn(0 .. n, V, G)
    BY <1>3, RecursionByRank
<1> QED
    BY <1>4 DEF IsRecursive, IsRecursiveOn

LEMMA RecursionDown ==
    ASSUME NEW n \in Nat, NEW V, V # {}, NEW G, LooksDown(n, V, G)
    PROVE  IsRecursive(n, V, G)
<1>1. PICK rank \in [0 .. n -> 0 .. n] : \A c \in 0 .. n : rank[c] = n - c
    <2>1. [c \in 0 .. n |-> n - c] \in [0 .. n -> 0 .. n]
        OBVIOUS
    <2> QED
        BY <2>1
<1>2. \A c, d \in 0 .. n : d > c <=> rank[d] < rank[c]
    BY <1>1
<1>3. LooksLower(0 .. n, rank, V, G)
    BY <1>2 DEF LooksDown, LooksLower
<1>4. IsRecursiveOn(0 .. n, V, G)
    BY <1>3, RecursionByRank
<1> QED
    BY <1>4 DEF IsRecursive, IsRecursiveOn

(* FlattenSeq of sequences over a set is one.                              *)
LEMMA FlattenIsSeq ==
    ASSUME NEW S, NEW n \in Nat, NEW s \in [1 .. n -> Seq(S)]
    PROVE  FlattenSeq(s) \in Seq(S)
<1>1. s \in Seq(Seq(S)) /\ Len(s) = n
    OBVIOUS
<1>2. ASSUME n = 0
      PROVE  FlattenSeq(s) \in Seq(S)
    <2>1. FlattenSeq(s) = s /\ s = <<>>
        BY <1>1, <1>2, EmptySeq DEF FlattenSeq
    <2> QED
        BY <2>1
<1>3. ASSUME n # 0
      PROVE  FlattenSeq(s) \in Seq(S)
    <2> DEFINE V == Seq(S)
               Step(c, g) == IF c = 0 THEN <<>> ELSE IF c = 1 THEN s[c] ELSE g[c - 1] \o s[c]
               G == [c \in 0 .. n |-> [g \in [0 .. n -> V] |-> Step(c, g)]]
    <2>1. \A c \in 0 .. n : \A g \in [0 .. n -> V] : Step(c, g) \in V
        OBVIOUS
    <2>2. \A c \in 0 .. n : \A g, h \in [0 .. n -> V] :
             (\A d \in 0 .. n : d < c => g[d] = h[d]) => Step(c, g) = Step(c, h)
        OBVIOUS
    <2>3. V # {}
        <3>1. <<>> \in V
            OBVIOUS
        <3> QED
            BY <3>1
    <2> HIDE DEF Step, V
    <2>4. G \in [0 .. n -> [[0 .. n -> V] -> V]]
        BY <2>1
    <2>5. \A c \in 0 .. n : \A g \in [0 .. n -> V] : G[c][g] = Step(c, g)
        OBVIOUS
    <2> HIDE DEF G
    <2>6. LooksUp(n, V, G)
        <3>1. ASSUME NEW c \in 0 .. n, NEW g \in [0 .. n -> V], NEW h \in [0 .. n -> V],
                     \A d \in 0 .. n : d < c => g[d] = h[d]
              PROVE  G[c][g] = G[c][h]
            <4>1. Step(c, g) = Step(c, h)
                BY <2>2, <3>1
            <4> QED
                BY <2>5, <4>1
        <3> QED
            BY <2>4, <3>1 DEF LooksUp
    <2>7. PICK g \in [0 .. n -> V] : \A c \in 0 .. n : g[c] = Step(c, g)
        <3>1. IsRecursive(n, V, G)
            BY <2>3, <2>6, RecursionUp
        <3> QED
            BY <2>5, <3>1 DEF IsRecursive
    <2> DEFINE flat == [c \in 1 .. n |-> g[c]]
    <2>8. ASSUME NEW c \in 1 .. n
          PROVE  flat[c] = IF c = 1 THEN s[c] ELSE flat[c - 1] \o s[c]
        <3>1. flat[c] = g[c] /\ g[c] = Step(c, g) /\ c # 0
            BY <2>7
        <3>2. c # 1 => c - 1 \in 1 .. n /\ flat[c - 1] = g[c - 1]
            OBVIOUS
        <3> HIDE DEF flat
        <3> QED
            BY <3>1, <3>2 DEF Step
    <2>9. DOMAIN flat = 1 .. n /\ flat = [c \in 1 .. n |-> flat[c]]
        OBVIOUS
    <2> HIDE DEF flat
    <2>10. flat = [c \in 1 .. n |-> IF c = 1 THEN s[c] ELSE flat[c - 1] \o s[c]]
        BY <2>8, <2>9
    <2>11. PICK f : /\ f = [c \in 1 .. Len(s) |-> IF c = 1 THEN s[c] ELSE f[c - 1] \o s[c]]
                    /\ FlattenSeq(s) = f[Len(s)]
        BY <1>1, <1>3, <2>10 DEF FlattenSeq
    <2>12. \A c \in 1 .. n : f[c] = IF c = 1 THEN s[c] ELSE f[c - 1] \o s[c]
        BY <1>1, <2>11
    <2> DEFINE Bad == {c \in 1 .. n : f[c] \notin Seq(S)}
    <2>13. Bad = {}
        <3> SUFFICES ASSUME Bad # {} PROVE FALSE
            OBVIOUS
        <3>1. PICK c \in Bad : \A y \in Bad : c <= y
            <4>1. Bad \subseteq Nat
                OBVIOUS
            <4> QED
                BY <4>1, LeastNumber
        <3>2. c # 1
            BY <2>12, <3>1
        <3>3. c - 1 \in 1 .. n /\ c - 1 \notin Bad
            BY <3>1, <3>2
        <3>4. f[c] = f[c - 1] \o s[c] /\ f[c - 1] \in Seq(S) /\ s[c] \in Seq(S)
            BY <2>12, <3>1, <3>2, <3>3
        <3>5. f[c] \in Seq(S)
            BY <3>4
        <3> QED
            BY <3>1, <3>5
    <2>14. n \in 1 .. n
        BY <1>3
    <2>15. f[n] \in Seq(S)
        BY <2>13, <2>14
    <2> QED
        BY <1>1, <2>11, <2>15
<1> QED
    BY <1>2, <1>3

(* SetToSeq of a finite set is a sequence over it.                         *)
LEMMA SetToSeqIsSeq ==
    ASSUME NEW S, IsFiniteSet(S)
    PROVE  SetToSeq(S) \in Seq(S)
<1>1. Cardinality(S) \in Nat /\ ExistsBijection(1 .. Cardinality(S), S)
    BY FS_CardinalityType
<1>2. PICK f : f \in Bijection(1 .. Cardinality(S), S)
    BY <1>1 DEF ExistsBijection
<1>3. f \in [1 .. Cardinality(S) -> S] /\ IsInjective(f)
    BY <1>2 DEF Bijection, Injection, IsInjective
<1>4. SetToSeq(S) \in [1 .. Cardinality(S) -> S]
    BY <1>3 DEF SetToSeq
<1> QED
    BY <1>1, <1>4

(* A set of numbers up to n that has a member has a greatest one.          *)
LEMMA GreatestNumber ==
    ASSUME NEW n \in Nat, NEW I, I \subseteq 0 .. n, I # {}
    PROVE  \E x \in I : \A y \in I : y <= x
<1> DEFINE J == {k \in Nat : \E x \in I : k = n - x}
<1>1. PICK z \in I : TRUE
    OBVIOUS
<1>2. n - z \in J
    BY <1>1
<1>3. PICK k \in J : \A y \in J : k <= y
    BY <1>2, LeastNumber
<1>4. PICK x \in I : k = n - x
    BY <1>3
<1>5. ASSUME NEW y \in I
      PROVE  y <= x
    <2>1. n - y \in J /\ x \in 0 .. n /\ y \in 0 .. n
        BY <1>4, <1>5
    <2>2. n - x <= n - y
        BY <1>3, <1>4, <2>1
    <2> QED
        BY <2>1, <2>2
<1> QED
    BY <1>4, <1>5

-----------------------------------------------------------------------------
(* A function and its blocks as records, whose links lead to blocks there  *)
(* are: parent and previous to earlier ones, next and active to later.     *)
BlockFields(b) ==
    b = [parent |-> b.parent, previous |-> b.previous, next |-> b.next, active |-> b.active,
         values |-> b.values, code |-> b.code]

IsBlockAt(bs, m, k) ==
    /\ BlockFields(bs[k])
    /\ bs[k].parent \in 0 .. k - 1 /\ bs[k].previous \in 0 .. k - 1
    /\ bs[k].next = 0 \/ bs[k].next \in k + 1 .. Len(bs)
    /\ bs[k].active # 0 => bs[k].active \in k + 1 .. Len(bs) /\ bs[bs[k].active].parent = k
    /\ bs[k].values \in Seq(1 .. m) /\ IsSeq(bs[k].code)

Built(f) ==
    /\ f = [blocks |-> f.blocks, locals |-> f.locals, active |-> f.active]
    /\ IsSeq(f.blocks) /\ IsSeq(f.locals)
    /\ \A k \in DOMAIN f.blocks : IsBlockAt(f.blocks, Len(f.locals), k)
    /\ f.active \in DOMAIN f.blocks

LEMMA BuiltFacts ==
    ASSUME NEW f, Built(f)
    PROVE  /\ Len(f.blocks) \in Nat /\ DOMAIN f.blocks = 1 .. Len(f.blocks)
           /\ Len(f.locals) \in Nat /\ DOMAIN f.locals = 1 .. Len(f.locals)
           /\ f.active \in 1 .. Len(f.blocks)
    BY SeqFacts DEF Built

(* The active blocks below each other end.                                 *)
LEMMA DownExists ==
    ASSUME NEW f, Built(f)
    PROVE  \E down : down = [c \in DOMAIN f.blocks |->
              IF f.blocks[c].active = 0 THEN c ELSE down[f.blocks[c].active]]
<1>1. PICK n \in Nat : n = Len(f.blocks) /\ DOMAIN f.blocks = 1 .. n
    BY BuiltFacts
<1>2. \A c \in 1 .. n : f.blocks[c].active = 0 \/ f.blocks[c].active \in c + 1 .. n
    BY <1>1 DEF Built, IsBlockAt
<1> DEFINE V == 0 .. n
           Step(c, g) == IF c = 0 THEN 0 ELSE IF f.blocks[c].active = 0 THEN c ELSE g[f.blocks[c].active]
           G == [c \in 0 .. n |-> [g \in [0 .. n -> V] |-> Step(c, g)]]
<1>3. \A c \in 0 .. n : \A g \in [0 .. n -> V] : Step(c, g) \in V
    BY <1>1, <1>2
<1>4. \A c \in 0 .. n : \A g, h \in [0 .. n -> V] :
         (\A d \in 0 .. n : d > c => g[d] = h[d]) => Step(c, g) = Step(c, h)
    BY <1>1, <1>2
<1>5. V # {}
    OBVIOUS
<1> HIDE DEF Step, V
<1>6. G \in [0 .. n -> [[0 .. n -> V] -> V]]
    BY <1>3
<1>7. \A c \in 0 .. n : \A g \in [0 .. n -> V] : G[c][g] = Step(c, g)
    OBVIOUS
<1> HIDE DEF G
<1>8. LooksDown(n, V, G)
    <2>1. \A c \in 0 .. n : \A g, h \in [0 .. n -> V] :
             (\A d \in 0 .. n : d > c => g[d] = h[d]) => G[c][g] = G[c][h]
        BY <1>4, <1>7
    <2> QED
        BY <1>6, <2>1 DEF LooksDown
<1>9. IsRecursive(n, V, G)
    BY <1>5, <1>8, RecursionDown
<1>10. PICK g \in [0 .. n -> V] : \A c \in 0 .. n : g[c] = Step(c, g)
    BY <1>7, <1>9 DEF IsRecursive
<1> DEFINE down == [c \in DOMAIN f.blocks |-> g[c]]
<1>11. \A c \in 1 .. n : down[c] = IF f.blocks[c].active = 0 THEN c ELSE down[f.blocks[c].active]
    BY <1>1, <1>2, <1>10 DEF Step
<1>12. DOMAIN down = 1 .. n /\ down = [c \in 1 .. n |-> down[c]]
    BY <1>1
<1> HIDE DEF down
<1>13. down = [c \in 1 .. n |-> IF f.blocks[c].active = 0 THEN c ELSE down[f.blocks[c].active]]
    BY <1>11, <1>12
<1> QED
    BY <1>1, <1>13

LEMMA CurrentFollows ==
    ASSUME NEW f, Built(f)
    PROVE  \E down : /\ down = [c \in DOMAIN f.blocks |->
                           IF f.blocks[c].active = 0 THEN c ELSE down[f.blocks[c].active]]
                     /\ Current(f) = down[f.active]
    BY DownExists DEF Current

(* The blocks of S are active, and c is the last of them.                  *)
Leads(f, c) ==
    \E S \in SUBSET DOMAIN f.blocks :
       /\ f.active \in S
       /\ \A x \in S : IF f.blocks[x].active = 0 THEN x = c ELSE f.blocks[x].active \in S

LEMMA CurrentIs ==
    ASSUME NEW f, Built(f), NEW c, Leads(f, c)
    PROVE  Current(f) = c
<1>1. PICK n \in Nat : n = Len(f.blocks) /\ DOMAIN f.blocks = 1 .. n
    BY BuiltFacts
<1>2. PICK S \in SUBSET (1 .. n) :
         /\ f.active \in S
         /\ \A x \in S : IF f.blocks[x].active = 0 THEN x = c ELSE f.blocks[x].active \in S
    BY <1>1 DEF Leads
<1>3. PICK down : /\ down = [x \in 1 .. n |-> IF f.blocks[x].active = 0 THEN x ELSE down[f.blocks[x].active]]
                  /\ Current(f) = down[f.active]
    BY <1>1, CurrentFollows
<1>4. \A x \in 1 .. n : /\ down[x] = IF f.blocks[x].active = 0 THEN x ELSE down[f.blocks[x].active]
                        /\ f.blocks[x].active = 0 \/ f.blocks[x].active \in x + 1 .. n
    BY <1>1, <1>3 DEF Built, IsBlockAt
<1> DEFINE Bad == {k \in Nat : \E x \in S : k = n - x /\ down[x] # c}
<1>5. Bad = {}
    <2> SUFFICES ASSUME Bad # {} PROVE FALSE
        OBVIOUS
    <2>1. PICK k \in Bad : \A y \in Bad : k <= y
        BY LeastNumber
    <2>2. PICK x \in S : k = n - x /\ down[x] # c
        BY <2>1
    <2>3. f.blocks[x].active # 0 /\ f.blocks[x].active \in S
        BY <1>2, <1>4, <2>2
    <2>4. PICK a \in S : a = f.blocks[x].active /\ a \in x + 1 .. n /\ down[a] # c
        BY <1>4, <2>2, <2>3
    <2>5. n - a \in Nat /\ n - a < k
        <3>1. n \in Nat /\ x \in 1 .. n /\ a \in x + 1 .. n /\ k = n - x
            BY <1>1, <1>2, <2>2, <2>4
        <3> QED
            BY <3>1
    <2> QED
        BY <2>1, <2>4, <2>5
<1>6. \A x \in S : n - x \in Nat
    BY <1>1
<1> QED
    BY <1>2, <1>3, <1>5, <1>6

LEMMA CurrentLeads ==
    ASSUME NEW f, Built(f)
    PROVE  Leads(f, Current(f)) /\ Current(f) \in 1 .. Len(f.blocks)
<1>1. PICK n \in Nat : n = Len(f.blocks) /\ DOMAIN f.blocks = 1 .. n /\ f.active \in 1 .. n
    BY BuiltFacts
<1>2. PICK down : /\ down = [x \in 1 .. n |-> IF f.blocks[x].active = 0 THEN x ELSE down[f.blocks[x].active]]
                  /\ Current(f) = down[f.active]
    BY <1>1, CurrentFollows
<1>3. \A x \in 1 .. n : /\ down[x] = IF f.blocks[x].active = 0 THEN x ELSE down[f.blocks[x].active]
                        /\ f.blocks[x].active = 0 \/ f.blocks[x].active \in x + 1 .. n
    BY <1>1, <1>2 DEF Built, IsBlockAt
<1> DEFINE S == {x \in 1 .. n : down[x] = Current(f)}
<1>4. \A x \in S : IF f.blocks[x].active = 0 THEN x = Current(f) ELSE f.blocks[x].active \in S
    BY <1>1, <1>3
<1>5. f.active \in S /\ S \in SUBSET DOMAIN f.blocks
    BY <1>1, <1>2
<1>6. Leads(f, Current(f))
    BY <1>4, <1>5 DEF Leads
<1> DEFINE Bad == {k \in Nat : \E x \in S : k = n - x}
<1>7. PICK k \in Bad : \A y \in Bad : k <= y
    <2>1. n - f.active \in Bad
        BY <1>1, <1>5
    <2> QED
        BY <2>1, LeastNumber
<1>8. PICK x \in S : k = n - x
    BY <1>7
<1>9. f.blocks[x].active = 0
    <2> SUFFICES ASSUME f.blocks[x].active # 0 PROVE FALSE
        OBVIOUS
    <2>1. PICK a \in S : a = f.blocks[x].active /\ a \in x + 1 .. n
        BY <1>3, <1>4
    <2>2. n - a \in Nat /\ n - a < k
        BY <1>1, <1>8, <2>1
    <2> QED
        BY <1>7, <2>1, <2>2
<1> QED
    BY <1>1, <1>4, <1>6, <1>8, <1>9

-----------------------------------------------------------------------------
(* The blocks above a block.                                               *)
LEMMA UpExists ==
    ASSUME NEW f, Built(f)
    PROVE  \E up : up = [c \in 0 .. Len(f.blocks) |->
                          IF c = 0 THEN {} ELSE {c} \cup up[f.blocks[c].parent]]
<1>1. PICK n \in Nat : n = Len(f.blocks) /\ DOMAIN f.blocks = 1 .. n /\ Len(f.blocks) = n
    BY BuiltFacts
<1>2. \A c \in 1 .. n : f.blocks[c].parent \in 0 .. c - 1
    BY <1>1 DEF Built, IsBlockAt
<1> DEFINE V == SUBSET (0 .. n)
           Step(c, g) == IF c = 0 THEN {} ELSE {c} \cup g[f.blocks[c].parent]
           G == [c \in 0 .. n |-> [g \in [0 .. n -> V] |-> Step(c, g)]]
<1>3. \A c \in 0 .. n : \A g \in [0 .. n -> V] : Step(c, g) \in V
    BY <1>1, <1>2
<1>4. \A c \in 0 .. n : \A g, h \in [0 .. n -> V] :
         (\A d \in 0 .. n : d < c => g[d] = h[d]) => Step(c, g) = Step(c, h)
    <2> SUFFICES ASSUME NEW c \in 0 .. n, NEW g \in [0 .. n -> V], NEW h \in [0 .. n -> V],
                        \A d \in 0 .. n : d < c => g[d] = h[d]
                 PROVE  Step(c, g) = Step(c, h)
        OBVIOUS
    <2>1. c # 0 => g[f.blocks[c].parent] = h[f.blocks[c].parent]
        BY <1>2
    <2> HIDE DEF V
    <2> QED
        BY <2>1
<1>5. V # {}
    OBVIOUS
<1> HIDE DEF Step, V
<1>6. G \in [0 .. n -> [[0 .. n -> V] -> V]]
    BY <1>3
<1>7. \A c \in 0 .. n : \A g \in [0 .. n -> V] : G[c][g] = Step(c, g)
    OBVIOUS
<1> HIDE DEF G
<1>8. LooksUp(n, V, G)
    <2>1. ASSUME NEW c \in 0 .. n, NEW g \in [0 .. n -> V], NEW h \in [0 .. n -> V],
                 \A d \in 0 .. n : d < c => g[d] = h[d]
          PROVE  G[c][g] = G[c][h]
        <3>1. Step(c, g) = Step(c, h)
            BY <1>4, <2>1
        <3> QED
            BY <1>7, <3>1
    <2> QED
        BY <1>6, <2>1 DEF LooksUp
<1>9. IsRecursive(n, V, G)
    BY <1>5, <1>8, RecursionUp
<1>10. PICK g \in [0 .. n -> V] : \A c \in 0 .. n : g[c] = Step(c, g)
    BY <1>7, <1>9 DEF IsRecursive
<1>11. \A c \in 0 .. n : g[c] = IF c = 0 THEN {} ELSE {c} \cup g[f.blocks[c].parent]
    BY <1>10 DEF Step
<1>12. g = [c \in 0 .. n |-> g[c]]
    BY <1>10
<1>13. g = [c \in 0 .. n |-> IF c = 0 THEN {} ELSE {c} \cup g[f.blocks[c].parent]]
    BY <1>11, <1>12
<1> QED
    BY <1>1, <1>13

(* Every block above b but b is the parent of one, and one has no parent.  *)
LEMMA LineageFacts ==
    ASSUME NEW f, Built(f), NEW b \in 1 .. Len(f.blocks)
    PROVE  /\ Lineage(f, b) \subseteq 1 .. Len(f.blocks) /\ b \in Lineage(f, b)
           /\ \A c \in Lineage(f, b) \ {b} : \E d \in Lineage(f, b) : f.blocks[d].parent = c
           /\ \E c \in Lineage(f, b) : f.blocks[c].parent = 0
<1>1. PICK n \in Nat : n = Len(f.blocks) /\ DOMAIN f.blocks = 1 .. n /\ Len(f.blocks) = n
    BY BuiltFacts
<1>2. PICK up : /\ up = [c \in 0 .. n |-> IF c = 0 THEN {} ELSE {c} \cup up[f.blocks[c].parent]]
                /\ Lineage(f, b) = up[b]
    BY <1>1, UpExists DEF Lineage
<1>3. \A c \in 1 .. n : f.blocks[c].parent \in 0 .. c - 1
    BY <1>1 DEF Built, IsBlockAt
<1>4. \A c \in 1 .. n : up[c] = {c} \cup up[f.blocks[c].parent]
    <2>1. \A c \in 1 .. n : c \in 0 .. n /\ c # 0
        OBVIOUS
    <2> QED
        BY <1>2, <2>1
<1>5. up[0] = {}
    BY <1>1, <1>2
<1> DEFINE Good(x) == /\ up[x] \subseteq 1 .. n /\ x \in up[x]
                      /\ \A c \in up[x] \ {x} : \E d \in up[x] : f.blocks[d].parent = c
                      /\ \E c \in up[x] : f.blocks[c].parent = 0
           Bad == {x \in 1 .. n : ~Good(x)}
<1>6. ASSUME NEW x \in 1 .. n, \A y \in 1 .. n : y < x => Good(y)
      PROVE  Good(x)
    <2>1. PICK p \in 0 .. n : p = f.blocks[x].parent /\ p < x /\ up[x] = {x} \cup up[p]
        BY <1>3, <1>4
    <2>2. CASE p = 0
        BY <1>5, <2>1, <2>2
    <2>3. CASE p # 0
        <3>1. Good(p) /\ p \in 1 .. n
            BY <1>6, <2>1, <2>3
        <3> QED
            BY <2>1, <3>1
    <2> QED
        BY <2>2, <2>3
<1> HIDE DEF Good
<1>7. Bad = {}
    <2> SUFFICES ASSUME Bad # {} PROVE FALSE
        OBVIOUS
    <2>1. PICK x \in Bad : \A y \in Bad : x <= y
        <3>1. Bad \subseteq Nat
            OBVIOUS
        <3> QED
            BY <3>1, LeastNumber
    <2>2. \A y \in 1 .. n : y < x => Good(y)
        BY <2>1
    <2> QED
        BY <1>6, <2>1, <2>2
<1>8. Good(b)
    BY <1>1, <1>7
<1> QED
    BY <1>1, <1>2, <1>8 DEF Good

-----------------------------------------------------------------------------
(* The locals of a function that are found are locals of the function.     *)
LEMMA SeenExists ==
    ASSUME NEW f, Built(f)
    PROVE  \E seen : seen = [c \in 0 .. Len(f.blocks) |->
              IF c = 0 THEN {}
              ELSE ToSet(f.blocks[c].values) \cup seen[f.blocks[c].previous] \cup seen[f.blocks[c].parent]]
<1>1. PICK n \in Nat : n = Len(f.blocks) /\ DOMAIN f.blocks = 1 .. n /\ Len(f.blocks) = n
    BY BuiltFacts
<1>2. PICK m \in Nat : m = Len(f.locals)
    BY BuiltFacts
<1> DEFINE own == [c \in 1 .. n |-> ToSet(f.blocks[c].values)]
<1>14. \A c \in 1 .. n : /\ f.blocks[c].parent \in 0 .. c - 1 /\ f.blocks[c].previous \in 0 .. c - 1
                         /\ f.blocks[c].values \in Seq(1 .. m)
    BY <1>1, <1>2 DEF Built, IsBlockAt
<1>16. \A c \in 1 .. n : f.blocks[c].parent \in 0 .. c - 1 /\ f.blocks[c].previous \in 0 .. c - 1
    BY <1>14
<1>15. \A c \in 1 .. n : own[c] = ToSet(f.blocks[c].values) /\ own[c] \subseteq 1 .. m
    BY <1>14, ElementsOfSeq
<1> HIDE DEF own
<1> DEFINE V == SUBSET (1 .. m)
           Step(c, g) == IF c = 0 THEN {}
                         ELSE own[c] \cup g[f.blocks[c].previous] \cup g[f.blocks[c].parent]
           G == [c \in 0 .. n |-> [g \in [0 .. n -> V] |-> Step(c, g)]]
<1>3. \A c \in 0 .. n : \A g \in [0 .. n -> V] : Step(c, g) \in V
    <2> SUFFICES ASSUME NEW c \in 0 .. n, NEW g \in [0 .. n -> V] PROVE Step(c, g) \in V
        OBVIOUS
    <2>1. c # 0 => g[f.blocks[c].parent] \in V /\ g[f.blocks[c].previous] \in V
        BY <1>16
    <2> QED
        BY <1>15, <2>1
<1>4. \A c \in 0 .. n : \A g, h \in [0 .. n -> V] :
         (\A d \in 0 .. n : d < c => g[d] = h[d]) => Step(c, g) = Step(c, h)
    <2> SUFFICES ASSUME NEW c \in 0 .. n, NEW g \in [0 .. n -> V], NEW h \in [0 .. n -> V],
                        \A d \in 0 .. n : d < c => g[d] = h[d]
                 PROVE  Step(c, g) = Step(c, h)
        OBVIOUS
    <2>1. c # 0 => g[f.blocks[c].parent] = h[f.blocks[c].parent]
                        /\ g[f.blocks[c].previous] = h[f.blocks[c].previous]
        BY <1>16
    <2> HIDE DEF V
    <2> QED
        BY <2>1
<1>5. V # {}
    OBVIOUS
<1> HIDE DEF Step, V
<1>6. G \in [0 .. n -> [[0 .. n -> V] -> V]]
    BY <1>3
<1>7. \A c \in 0 .. n : \A g \in [0 .. n -> V] : G[c][g] = Step(c, g)
    OBVIOUS
<1> HIDE DEF G
<1>8. LooksUp(n, V, G)
    <2>1. ASSUME NEW c \in 0 .. n, NEW g \in [0 .. n -> V], NEW h \in [0 .. n -> V],
                 \A d \in 0 .. n : d < c => g[d] = h[d]
          PROVE  G[c][g] = G[c][h]
        <3>1. Step(c, g) = Step(c, h)
            BY <1>4, <2>1
        <3> QED
            BY <1>7, <3>1
    <2> QED
        BY <1>6, <2>1 DEF LooksUp
<1>9. IsRecursive(n, V, G)
    BY <1>5, <1>8, RecursionUp
<1>10. PICK g \in [0 .. n -> V] : \A c \in 0 .. n : g[c] = Step(c, g)
    BY <1>7, <1>9 DEF IsRecursive
<1>11. \A c \in 0 .. n : g[c] = IF c = 0 THEN {} ELSE ToSet(f.blocks[c].values)
                             \cup g[f.blocks[c].previous] \cup g[f.blocks[c].parent]
    BY <1>10, <1>15 DEF Step
<1>12. g = [c \in 0 .. n |-> g[c]] 
    BY <1>10
<1>13. g = [c \in 0 .. n |-> IF c = 0 THEN {} ELSE ToSet(f.blocks[c].values)
               \cup g[f.blocks[c].previous] \cup g[f.blocks[c].parent]]
    BY <1>11, <1>12
<1> QED
    BY <1>1, <1>2, <1>12, <1>13

LEMMA VisibleAreLocals ==
    ASSUME NEW f, Built(f), NEW b \in 1 .. Len(f.blocks)
    PROVE  SetToSeq(Visible(f, b)) \in Seq(1 .. Len(f.locals))
<1>1. PICK n \in Nat : n = Len(f.blocks) /\ DOMAIN f.blocks = 1 .. n /\ Len(f.blocks) = n
    BY BuiltFacts
<1>2. PICK m \in Nat : m = Len(f.locals)
    BY BuiltFacts
<1>3. \A c \in 1 .. n : /\ f.blocks[c].parent \in 0 .. c - 1 /\ f.blocks[c].previous \in 0 .. c - 1
                         /\ ToSet(f.blocks[c].values) \subseteq 1 .. m
    BY <1>1, <1>2, ElementsOfSeq DEF Built, IsBlockAt
<1>4. PICK seen : /\ seen = [c \in 0 .. n |-> IF c = 0 THEN {}
                             ELSE ToSet(f.blocks[c].values) \cup seen[f.blocks[c].previous]
                                     \cup seen[f.blocks[c].parent]]
                  /\ Visible(f, b) = seen[b]
    BY <1>1, SeenExists DEF Visible
<1>10. 0 \in 0 .. n /\ \A c \in 1 .. n : c \in 0 .. n /\ c # 0
    BY <1>1
<1>5. /\ seen[0] = {}
      /\ \A c \in 1 .. n : seen[c] = ToSet(f.blocks[c].values) \cup seen[f.blocks[c].previous]
                                       \cup seen[f.blocks[c].parent]
    BY <1>4, <1>10, Zenon
<1>11. \A c \in 1 .. n : f.blocks[c].parent \in 0 .. c - 1 /\ f.blocks[c].previous \in 0 .. c - 1
    BY <1>3
<1> DEFINE Bad == {c \in 0 .. n : ~(seen[c] \subseteq 1 .. m)}
<1>6. Bad = {}
    <2> SUFFICES ASSUME Bad # {} PROVE FALSE
        OBVIOUS
    <2>1. PICK c \in Bad : \A y \in Bad : c <= y
        <3>1. Bad \subseteq Nat
            OBVIOUS
        <3> QED
            BY <3>1, LeastNumber
    <2>2. c \in 1 .. n
        BY <1>5, <2>1
    <2>3. seen[f.blocks[c].previous] \subseteq 1 .. m /\ seen[f.blocks[c].parent] \subseteq 1 .. m
        <3>1. \A p \in 0 .. n : p < c => seen[p] \subseteq 1 .. m
            BY <2>1, <2>2
        <3>2. f.blocks[c].previous \in 0 .. n /\ f.blocks[c].previous < c
              /\ f.blocks[c].parent \in 0 .. n /\ f.blocks[c].parent < c
            BY <1>1, <1>11, <2>2
        <3> QED
            BY <3>1, <3>2
    <2>4. seen[c] \subseteq 1 .. m
        BY <1>3, <1>5, <2>2, <2>3
    <2> QED
        BY <2>1, <2>4
<1>12. b \in 0 .. n
    BY <1>1
<1>7. Visible(f, b) \subseteq 1 .. m /\ IsFiniteSet(1 .. m)
    <2>1. seen[b] \subseteq 1 .. m
        BY <1>6, <1>12
    <2>2. IsFiniteSet(1 .. m)
        BY <1>2, FS_Interval
    <2> QED
        BY <1>4, <2>1, <2>2
<1>8. IsFiniteSet(Visible(f, b))
    BY <1>7, FS_Subset
<1>9. SetToSeq(Visible(f, b)) \in Seq(Visible(f, b))
    BY <1>8, SetToSeqIsSeq
<1> QED
    BY <1>2, <1>7, <1>9, SeqMonotonic

-----------------------------------------------------------------------------
(* The locals collected are a sequence of locals of the function.          *)
LEMMA AlongExists ==
    ASSUME NEW f, Built(f)
    PROVE  \E along : along = [c \in 0 .. Len(f.blocks) |->
              IF c = 0 THEN <<>> ELSE f.blocks[c].values \o along[f.blocks[c].next]]
<1>1. PICK n \in Nat : n = Len(f.blocks) /\ DOMAIN f.blocks = 1 .. n /\ Len(f.blocks) = n
    BY BuiltFacts
<1>2. PICK m \in Nat : m = Len(f.locals)
    BY BuiltFacts
<1>14. \A c \in 1 .. n : f.blocks[c].values \in Seq(1 .. m)
    BY <1>1, <1>2 DEF Built, IsBlockAt
<1>16. \A c \in 1 .. n : /\ f.blocks[c].next = 0 \/ f.blocks[c].next \in c + 1 .. n
                         /\ f.blocks[c].parent \in 0 .. c - 1
    BY <1>1 DEF Built, IsBlockAt
<1> DEFINE V == Seq(1 .. m)
           Step(c, g) == IF c = 0 THEN <<>>
                         ELSE f.blocks[c].values \o (IF f.blocks[c].next = 0 THEN <<>> ELSE g[f.blocks[c].next])
           G == [c \in 0 .. n |-> [g \in [0 .. n -> V] |-> Step(c, g)]]
<1>3. \A c \in 0 .. n : \A g \in [0 .. n -> V] : Step(c, g) \in V
    <2> SUFFICES ASSUME NEW c \in 0 .. n, NEW g \in [0 .. n -> V] PROVE Step(c, g) \in V
        OBVIOUS
    <2>1. <<>> \in V /\ \A x, y \in V : x \o y \in V
        OBVIOUS
    <2>2. c # 0 => f.blocks[c].values \in V /\ (f.blocks[c].next # 0 => g[f.blocks[c].next] \in V)
        BY <1>1, <1>14, <1>16
    <2> HIDE DEF V
    <2> QED
        BY <2>1, <2>2
<1>4. \A c \in 0 .. n : \A g, h \in [0 .. n -> V] :
         (\A d \in 0 .. n : d > c => g[d] = h[d]) => Step(c, g) = Step(c, h)
    <2> SUFFICES ASSUME NEW c \in 0 .. n, NEW g \in [0 .. n -> V], NEW h \in [0 .. n -> V],
                        \A d \in 0 .. n : d > c => g[d] = h[d]
                 PROVE  Step(c, g) = Step(c, h)
        OBVIOUS
    <2>1. c # 0 /\ f.blocks[c].next # 0 => g[f.blocks[c].next] = h[f.blocks[c].next]
        BY <1>1, <1>16
    <2> HIDE DEF V
    <2> QED
        BY <2>1
<1>5. V # {}
    <2>1. <<>> \in V
        OBVIOUS
    <2> QED
        BY <2>1
<1> HIDE DEF Step, V
<1>6. G \in [0 .. n -> [[0 .. n -> V] -> V]]
    BY <1>3
<1>7. \A c \in 0 .. n : \A g \in [0 .. n -> V] : G[c][g] = Step(c, g)
    OBVIOUS
<1> HIDE DEF G
<1>8. LooksDown(n, V, G)
    <2>1. ASSUME NEW c \in 0 .. n, NEW g \in [0 .. n -> V], NEW h \in [0 .. n -> V],
                 \A d \in 0 .. n : d > c => g[d] = h[d]
          PROVE  G[c][g] = G[c][h]
        <3>1. Step(c, g) = Step(c, h)
            BY <1>4, <2>1
        <3> QED
            BY <1>7, <3>1
    <2> QED
        BY <1>6, <2>1 DEF LooksDown
<1>9. IsRecursive(n, V, G)
    BY <1>5, <1>8, RecursionDown
<1>10. PICK g \in [0 .. n -> V] : \A c \in 0 .. n : g[c] = Step(c, g)
    BY <1>7, <1>9 DEF IsRecursive
<1>11. g[0] = <<>> /\ \A c \in 1 .. n : g[c] = f.blocks[c].values \o g[f.blocks[c].next]
    <2>1. g[0] = <<>>
        BY <1>1, <1>10 DEF Step
    <2>2. \A c \in 1 .. n : c \in 0 .. n /\ c # 0
        OBVIOUS
    <2> QED
        BY <1>10, <2>1, <2>2 DEF Step
<1>17. \A c \in 0 .. n : c = 0 \/ c \in 1 .. n
    OBVIOUS
<1>12. g = [c \in 0 .. n |-> g[c]]
    BY <1>10
<1>13. g = [c \in 0 .. n |-> IF c = 0 THEN <<>> ELSE f.blocks[c].values \o g[f.blocks[c].next]]
    BY <1>11, <1>12, <1>17
<1> QED
    BY <1>1, <1>13

LEMMA LocalsAlongAreLocals ==
    ASSUME NEW f, Built(f), NEW b \in 1 .. Len(f.blocks)
    PROVE  LocalsAlong(f, b) \in Seq(1 .. Len(f.locals))
<1>1. PICK n \in Nat : n = Len(f.blocks) /\ DOMAIN f.blocks = 1 .. n /\ Len(f.blocks) = n
    BY BuiltFacts
<1>2. PICK m \in Nat : m = Len(f.locals)
    BY BuiltFacts
<1>14. \A c \in 1 .. n : f.blocks[c].values \in Seq(1 .. m)
    BY <1>1, <1>2 DEF Built, IsBlockAt
<1>16. \A c \in 1 .. n : /\ f.blocks[c].next = 0 \/ f.blocks[c].next \in c + 1 .. n
                         /\ f.blocks[c].parent \in 0 .. c - 1
    BY <1>1 DEF Built, IsBlockAt
<1>3. PICK along : /\ along = [c \in 0 .. n |->
                       IF c = 0 THEN <<>> ELSE f.blocks[c].values \o along[f.blocks[c].next]]
                  /\ LocalsAlong(f, b) = along[b]
    BY <1>1, AlongExists DEF LocalsAlong
<1>4. 0 \in 0 .. n /\ \A c \in 1 .. n : c \in 0 .. n /\ c # 0
    BY <1>1
<1>5. along[0] = <<>> /\ \A c \in 1 .. n : along[c] = f.blocks[c].values \o along[f.blocks[c].next]
    BY <1>3, <1>4, Zenon
<1> DEFINE Bad == {x \in 1 .. n : along[x] \notin Seq(1 .. m)}
<1>6. Bad = {}
    <2> SUFFICES ASSUME Bad # {} PROVE FALSE
        OBVIOUS
    <2>1. Bad \subseteq 0 .. n
        OBVIOUS
    <2>2. PICK x \in Bad : \A y \in Bad : y <= x
        BY <1>1, <2>1, GreatestNumber
    <2>3. PICK a : a = f.blocks[x].next /\ (a = 0 \/ a \in x + 1 .. n)
        BY <1>16
    <2>4. a # 0 => a \notin Bad /\ a \in 1 .. n
        BY <1>1, <2>2, <2>3
    <2>5. along[a] \in Seq(1 .. m)
        <3>1. <<>> \in Seq(1 .. m)
            OBVIOUS
        <3> QED
            BY <1>5, <2>4, <3>1
    <2>6. along[x] = f.blocks[x].values \o along[a] /\ f.blocks[x].values \in Seq(1 .. m)
        BY <1>5, <1>14, <2>3
    <2>7. along[x] \in Seq(1 .. m)
        BY <2>5, <2>6
    <2> QED
        BY <2>2, <2>7
<1>7. b \in 1 .. n
    BY <1>1
<1>8. along[b] \in Seq(1 .. m)
    BY <1>6, <1>7
<1> QED
    BY <1>2, <1>3, <1>8

LEMMA FromExists ==
    ASSUME NEW f, Built(f)
    PROVE  \E from : from = [c \in 0 .. Len(f.blocks) |->
              IF c = 0 THEN <<>>
              ELSE LET children == [d \in DOMAIN f.blocks |->
                                       IF f.blocks[d].parent = c THEN from[d] ELSE <<>>]
                   IN  f.blocks[c].values \o FlattenSeq(children) \o from[f.blocks[c].next]]
<1>1. PICK n \in Nat : n = Len(f.blocks) /\ DOMAIN f.blocks = 1 .. n /\ Len(f.blocks) = n
    BY BuiltFacts
<1>2. PICK m \in Nat : m = Len(f.locals)
    BY BuiltFacts
<1>14. \A c \in 1 .. n : f.blocks[c].values \in Seq(1 .. m)
    BY <1>1, <1>2 DEF Built, IsBlockAt
<1>16. \A c \in 1 .. n : /\ f.blocks[c].next = 0 \/ f.blocks[c].next \in c + 1 .. n
                         /\ f.blocks[c].parent \in 0 .. c - 1
    BY <1>1 DEF Built, IsBlockAt
<1> DEFINE Kids(c, g) == [d \in 1 .. n |-> IF f.blocks[d].parent = c THEN g[d] ELSE <<>>]
           After2(c, g) == IF f.blocks[c].next = 0 THEN <<>> ELSE g[f.blocks[c].next]
<1>17. \A d \in 1 .. n : f.blocks[d].parent < d
    BY <1>16
<1> DEFINE V == Seq(1 .. m)
           Step(c, g) == IF c = 0 THEN <<>>
                         ELSE f.blocks[c].values \o FlattenSeq(Kids(c, g)) \o After2(c, g)
           G == [c \in 0 .. n |-> [g \in [0 .. n -> V] |-> Step(c, g)]]
<1>3. \A c \in 0 .. n : \A g \in [0 .. n -> V] : Step(c, g) \in V
    <2> SUFFICES ASSUME NEW c \in 0 .. n, NEW g \in [0 .. n -> V] PROVE Step(c, g) \in V
        OBVIOUS
    <2>1. <<>> \in V /\ \A x, y \in V : x \o y \in V
        OBVIOUS
    <2>2. c # 0 => f.blocks[c].values \in V
        BY <1>14
    <2>3. c # 0 => After2(c, g) \in V
        <3> HIDE DEF V
        <3>1. c # 0 /\ f.blocks[c].next # 0 => f.blocks[c].next \in 0 .. n
            BY <1>1, <1>16
        <3> QED
            BY <2>1, <3>1
    <2>4. Kids(c, g) \in [1 .. n -> V]
        <3> HIDE DEF V
        <3>1. \A d \in 1 .. n : g[d] \in V
            BY <1>1
        <3> QED
            BY <2>1, <3>1
    <2>5. FlattenSeq(Kids(c, g)) \in V
        BY <2>4, FlattenIsSeq
    <2> HIDE DEF V, Kids, After2
    <2> QED
        BY <2>1, <2>2, <2>3, <2>5
<1>4. \A c \in 0 .. n : \A g, h \in [0 .. n -> V] :
         (\A d \in 0 .. n : d > c => g[d] = h[d]) => Step(c, g) = Step(c, h)
    <2> SUFFICES ASSUME NEW c \in 0 .. n, NEW g \in [0 .. n -> V], NEW h \in [0 .. n -> V],
                        \A d \in 0 .. n : d > c => g[d] = h[d]
                 PROVE  Step(c, g) = Step(c, h)
        OBVIOUS
    <2>1. c # 0 => After2(c, g) = After2(c, h)
        BY <1>1, <1>16
    <2>2. \A d \in 1 .. n : f.blocks[d].parent = c => g[d] = h[d]
        BY <1>17
    <2>3. Kids(c, g) = Kids(c, h)
        BY <2>2
    <2> HIDE DEF V, Kids, After2
    <2> QED
        BY <2>1, <2>3
<1>5. V # {}
    <2>1. <<>> \in V
        OBVIOUS
    <2> QED
        BY <2>1
<1> HIDE DEF Step, V, Kids, After2
<1>6. G \in [0 .. n -> [[0 .. n -> V] -> V]]
    BY <1>3
<1>7. \A c \in 0 .. n : \A g \in [0 .. n -> V] : G[c][g] = Step(c, g)
    OBVIOUS
<1> HIDE DEF G
<1>8. LooksDown(n, V, G)
    <2>1. ASSUME NEW c \in 0 .. n, NEW g \in [0 .. n -> V], NEW h \in [0 .. n -> V],
                 \A d \in 0 .. n : d > c => g[d] = h[d]
          PROVE  G[c][g] = G[c][h]
        <3>1. Step(c, g) = Step(c, h)
            BY <1>4, <2>1
        <3> QED
            BY <1>7, <3>1
    <2> QED
        BY <1>6, <2>1 DEF LooksDown
<1>9. IsRecursive(n, V, G)
    BY <1>5, <1>8, RecursionDown
<1>10. PICK g \in [0 .. n -> V] : \A c \in 0 .. n : g[c] = Step(c, g)
    BY <1>7, <1>9 DEF IsRecursive
<1>18. \A c \in 1 .. n : c \in 0 .. n /\ c # 0
    OBVIOUS
<1>11. g[0] = <<>>
    BY <1>10 DEF Step
<1>19. \A c \in 1 .. n : g[c] = f.blocks[c].values \o FlattenSeq(Kids(c, g)) \o g[f.blocks[c].next]
    BY <1>10, <1>11, <1>18 DEF Step, After2
<1>20. \A c \in 0 .. n : c = 0 \/ c \in 1 .. n
    OBVIOUS
<1>12. g = [c \in 0 .. n |-> g[c]]
    BY <1>10
<1>13. g = [c \in 0 .. n |-> IF c = 0 THEN <<>>
               ELSE f.blocks[c].values \o FlattenSeq(Kids(c, g)) \o g[f.blocks[c].next]]
    BY <1>11, <1>12, <1>19, <1>20, ZenonT(60)
<1> QED
    BY <1>1, <1>13 DEF Kids

LEMMA LocalsFromAreLocals ==
    ASSUME NEW f, Built(f), NEW b \in 1 .. Len(f.blocks)
    PROVE  LocalsFrom(f, b) \in Seq(1 .. Len(f.locals))
<1>1. PICK n \in Nat : n = Len(f.blocks) /\ DOMAIN f.blocks = 1 .. n /\ Len(f.blocks) = n
    BY BuiltFacts
<1>2. PICK m \in Nat : m = Len(f.locals)
    BY BuiltFacts
<1>14. \A c \in 1 .. n : f.blocks[c].values \in Seq(1 .. m)
    BY <1>1, <1>2 DEF Built, IsBlockAt
<1>16. \A c \in 1 .. n : /\ f.blocks[c].next = 0 \/ f.blocks[c].next \in c + 1 .. n
                         /\ f.blocks[c].parent \in 0 .. c - 1
    BY <1>1 DEF Built, IsBlockAt
<1>3. PICK from : /\ from = [c \in 0 .. n |->
                       IF c = 0 THEN <<>>
                       ELSE LET children == [d \in DOMAIN f.blocks |->
                                                IF f.blocks[d].parent = c THEN from[d] ELSE <<>>]
                            IN  f.blocks[c].values \o FlattenSeq(children) \o from[f.blocks[c].next]]
                  /\ LocalsFrom(f, b) = from[b]
    BY <1>1, FromExists DEF LocalsFrom
<1> DEFINE Kids(c) == [d \in 1 .. n |-> IF f.blocks[d].parent = c THEN from[d] ELSE <<>>]
<1>4. 0 \in 0 .. n /\ \A c \in 1 .. n : c \in 0 .. n /\ c # 0
    BY <1>1
<1>5. from = [c \in 0 .. n |-> IF c = 0 THEN <<>>
                               ELSE f.blocks[c].values \o FlattenSeq(Kids(c)) \o from[f.blocks[c].next]]
    BY <1>1, <1>3, Zenon
<1> HIDE DEF Kids
<1>9. from[0] = <<>> /\ \A c \in 1 .. n :
         from[c] = f.blocks[c].values \o FlattenSeq(Kids(c)) \o from[f.blocks[c].next]
    BY <1>5, <1>4, Zenon
<1> DEFINE Bad == {x \in 1 .. n : from[x] \notin Seq(1 .. m)}
<1>6. Bad = {}
    <2> SUFFICES ASSUME Bad # {} PROVE FALSE
        OBVIOUS
    <2>1. Bad \subseteq 0 .. n
        OBVIOUS
    <2>2. PICK x \in Bad : \A y \in Bad : y <= x
        BY <1>1, <2>1, GreatestNumber
    <2>3. \A d \in 1 .. n : d > x => from[d] \in Seq(1 .. m)
        BY <1>1, <2>2
    <2>4. from[f.blocks[x].next] \in Seq(1 .. m)
        <3>3. x \in 1 .. n /\ (f.blocks[x].next = 0 \/ f.blocks[x].next \in x + 1 .. n)
            BY <1>16, <2>2
        <3>1. f.blocks[x].next = 0 \/ (f.blocks[x].next \in 1 .. n /\ f.blocks[x].next > x)
            BY ONLY <1>1, <3>3
        <3>2. <<>> \in Seq(1 .. m)
            OBVIOUS
        <3> QED
            BY <1>9, <2>3, <3>1, <3>2
    <2>5. Kids(x) \in [1 .. n -> Seq(1 .. m)]
        <3>1. \A d \in 1 .. n : f.blocks[d].parent = x => d > x
            BY <1>1, <1>16, <2>2, SMTT(30)
        <3>2. <<>> \in Seq(1 .. m)
            OBVIOUS
        <3> QED
            BY <2>3, <3>1, <3>2 DEF Kids
    <2>6. FlattenSeq(Kids(x)) \in Seq(1 .. m)
        BY <2>5, FlattenIsSeq
    <2>7. from[x] = f.blocks[x].values \o FlattenSeq(Kids(x)) \o from[f.blocks[x].next]
          /\ f.blocks[x].values \in Seq(1 .. m)
        BY <1>9, <1>14
    <2>8. from[x] \in Seq(1 .. m)
        BY <2>4, <2>6, <2>7
    <2> QED
        BY <2>2, <2>8
<1>7. b \in 1 .. n
    BY <1>1
<1>8. from[b] \in Seq(1 .. m)
    BY <1>6, <1>7
<1> QED
    BY <1>2, <1>3, <1>8

(* What destroys locals destroys nothing else.                             *)
LEMMA DestructorsDestroy ==
    ASSUME NEW f, NEW m, NEW locals \in Seq(m), NEW why
    PROVE  /\ IsSeq(Destructors(f, locals, why))
           /\ \A i \in DOMAIN Destructors(f, locals, why) :
                 /\ Destructors(f, locals, why)[i].op = "destroy"
                 /\ Destructors(f, locals, why)[i].why = why
<1>1. PICK n \in Nat : n = Len(locals) /\ DOMAIN locals = 1 .. n
    BY LenProperties
<1> DEFINE S == {OnLocal("destroy", l, why) : l \in m}
           s == [i \in DOMAIN locals |-> IF Destructible(f.locals[locals[i]])
                                        THEN <<OnLocal("destroy", locals[i], why)>> ELSE <<>>]
<1>2. s \in [1 .. n -> Seq(S)]
    <2>1. \A i \in 1 .. n : OnLocal("destroy", locals[i], why) \in S
        BY <1>1, ElementOfSeq
    <2> HIDE DEF S
    <2>2. \A x \in S : <<x>> \in Seq(S)
        OBVIOUS
    <2>3. <<>> \in Seq(S)
        OBVIOUS
    <2> QED
        BY <1>1, <2>1, <2>2, <2>3
<1>3. PICK code : code = Destructors(f, locals, why) /\ code \in Seq(S)
    BY <1>2, FlattenIsSeq DEF Destructors
<1>4. \A i \in DOMAIN code : code[i] \in S
    BY <1>3, LenProperties
<1>5. IsSeq(code)
    BY <1>3, SeqOfIsSeq
<1> QED
    BY <1>3, <1>4, <1>5 DEF OnLocal, Instr

-----------------------------------------------------------------------------
(* What is known of a function under construction: n blocks, the current   *)
(* one c, T those with a terminator.  A terminator that is reached goes to *)
(* a block of G.  Nothing but what a scope destroys follows a terminator,  *)
(* unless in a block of X.                                                 *)
LiveOf(x) ==
    IF x.op \notin {"br", "cond"} THEN {}
    ELSE IF x.op = "br" \/ x.why = "true" THEN {x.yes}
    ELSE IF x.why = "false" THEN {x.no} ELSE {x.yes, x.no}

OfScope(x) == x.op = "destroy" /\ x.why = "scope"
OneEnd(code) == \A i, j \in DOMAIN code : i < j /\ code[i].op \in Terminators => OfScope(code[j])
Terminated(f) == {b \in DOMAIN f.blocks : IsTerminated(f.blocks[b])}

Sum(f, n, c, T, G, X) ==
    /\ Built(f)
    /\ Len(f.blocks) = n /\ Current(f) = c /\ Terminated(f) = T
    /\ \A b \in 1 .. n : \A i \in DOMAIN f.blocks[b].code : LiveOf(f.blocks[b].code[i]) \subseteq G
    /\ \A b \in (1 .. n) \ X : OneEnd(f.blocks[b].code)

LEMMA SumFacts ==
    ASSUME NEW f, NEW n, NEW c, NEW T, NEW G, NEW X, Sum(f, n, c, T, G, X)
    PROVE  n \in Nat /\ c \in 1 .. n /\ T \subseteq 1 .. n
    BY BuiltFacts, CurrentLeads DEF Sum, Terminated

LEMMA WiderSum ==
    ASSUME NEW f, NEW n, NEW c, NEW T, NEW G, NEW X, Sum(f, n, c, T, G, X), NEW H, G \subseteq H
    PROVE  Sum(f, n, c, T, H, X)
    BY DEF Sum

(* The links that are active decide which block is current.                *)
LEMMA SameActive ==
    ASSUME NEW f, Built(f), NEW g, Built(g), Len(f.blocks) <= Len(g.blocks), g.active = f.active,
           \A k \in 1 .. Len(f.blocks) : g.blocks[k].active = f.blocks[k].active
    PROVE  Current(g) = Current(f)
<1>1. PICK c : c = Current(f) /\ Leads(f, c)
    BY CurrentLeads
<1>2. DOMAIN f.blocks \subseteq DOMAIN g.blocks /\ DOMAIN f.blocks = 1 .. Len(f.blocks)
    BY BuiltFacts
<1>3. Leads(g, c)
    BY <1>1, <1>2 DEF Leads
<1> QED
    BY <1>1, <1>3, CurrentIs

(* The instructions decide the rest.                                       *)
LEMMA SameCode ==
    ASSUME NEW f, NEW n, NEW c, NEW T, NEW G, NEW X, Sum(f, n, c, T, G, X),
           NEW g, Built(g), Len(g.blocks) = n,
           \A k \in 1 .. n : g.blocks[k].code = f.blocks[k].code
    PROVE  Sum(g, n, Current(g), T, G, X)
<1>1. DOMAIN f.blocks = 1 .. n /\ DOMAIN g.blocks = 1 .. n
    BY BuiltFacts DEF Sum
<1>2. Terminated(g) = Terminated(f)
    BY <1>1 DEF Terminated, IsTerminated
<1> QED
    BY <1>2 DEF Sum

(* A block that is created is the last and has no instructions.            *)
LEMMA CreateDoes ==
    ASSUME NEW f, NEW n, NEW c, NEW T, NEW G, NEW X, Sum(f, n, c, T, G, X), NEW p \in 0 .. n
    PROVE  /\ Sum(Create(f, p), n + 1, c, T, G, X) /\ Created(Create(f, p)) = n + 1
           /\ Create(f, p).locals = f.locals /\ Create(f, p).blocks[n + 1] = Block(p)
           /\ \A k \in 1 .. n : Create(f, p).blocks[k] = f.blocks[k]
<1>1. PICK bs, ls, a : f = [blocks |-> bs, locals |-> ls, active |-> a]
    BY DEF Sum, Built
<1>2. f.blocks = bs /\ f.locals = ls /\ f.active = a
    BY <1>1
<1>3. PICK new : new = Block(p)
    OBVIOUS
<1>4. PICK cs : cs = Append(bs, new)
    OBVIOUS
<1>5. PICK g : g = Create(f, p) /\ g = [blocks |-> cs, locals |-> ls, active |-> a]
    <2>1. Create(f, p) = [f EXCEPT !.blocks = cs]
        BY <1>2, <1>3, <1>4 DEF Create
    <2>2. [f EXCEPT !.blocks = cs] = [blocks |-> cs, locals |-> ls, active |-> a]
        BY <1>1
    <2> QED
        BY <2>1, <2>2
<1>6. g.blocks = cs /\ g.locals = ls /\ g.active = a
    BY <1>5
<1>7. IsSeq(bs) /\ Len(bs) = n /\ n \in Nat /\ DOMAIN bs = 1 .. n
    BY <1>2, SeqFacts DEF Sum, Built
<1>8. /\ IsSeq(cs) /\ Len(cs) = n + 1 /\ DOMAIN cs = 1 .. n + 1 /\ cs[n + 1] = new
      /\ \A k \in 1 .. n : cs[k] = bs[k]
    BY <1>4, <1>7, AppendAny
<1>9. PICK m \in Nat : m = Len(ls)
    BY <1>2, BuiltFacts DEF Sum
<1>10. \A k \in 1 .. n : IsBlockAt(bs, m, k)
    BY <1>2, <1>7, <1>9 DEF Sum, Built
<1>11. /\ new.parent = p /\ new.previous = 0 /\ new.next = 0 /\ new.active = 0
       /\ new.values = <<>> /\ new.code = <<>> /\ BlockFields(new)
    BY <1>3 DEF Block, BlockFields
<1>12. IsBlockAt(cs, m, n + 1)
    <2>1. <<>> \in Seq(1 .. m) /\ IsSeq(<<>>)
        BY EmptyIsSeq
    <2> QED
        BY <1>7, <1>8, <1>11, <2>1 DEF IsBlockAt
<1>13. ASSUME NEW k \in 1 .. n
       PROVE  IsBlockAt(cs, m, k)
    <2>1. cs[k] = bs[k] /\ IsBlockAt(bs, m, k)
        BY <1>8, <1>10
    <2>2. bs[k].next = 0 \/ bs[k].next \in k + 1 .. n + 1
        BY <1>7, <2>1 DEF IsBlockAt
    <2>3. bs[k].active # 0 => bs[k].active \in k + 1 .. n + 1 /\ cs[bs[k].active].parent = k
        BY <1>7, <1>8, <2>1 DEF IsBlockAt
    <2> QED
        BY <1>8, <2>1, <2>2, <2>3 DEF IsBlockAt
<1>14. Built(g)
    <2>1. \A k \in 1 .. n + 1 : IsBlockAt(cs, m, k)
        BY <1>7, <1>12, <1>13
    <2>2. IsSeq(ls) /\ a \in 1 .. n + 1
        BY <1>2, <1>7 DEF Sum, Built
    <2> QED
        BY <1>5, <1>6, <1>8, <1>9, <2>1, <2>2 DEF Built
<1>15. Current(g) = c
    <2>1. Len(f.blocks) <= Len(g.blocks) /\ Built(f) /\ Current(f) = c
        BY <1>2, <1>6, <1>7, <1>8 DEF Sum
    <2>2. \A k \in 1 .. Len(f.blocks) : g.blocks[k].active = f.blocks[k].active
        BY <1>2, <1>6, <1>7, <1>8
    <2> QED
        BY <1>2, <1>6, <1>14, <2>1, <2>2, SameActive
<1>16. DOMAIN new.code = {}
    BY <1>11, EmptyIsSeq, SeqFacts
<1>17. Terminated(g) = T
    <2>1. ~IsTerminated(new)
        BY <1>16 DEF IsTerminated
    <2>2. \A k \in 1 .. n + 1 : k \in 1 .. n \/ k = n + 1
        BY <1>7
    <2>3. 1 .. n \subseteq 1 .. n + 1
        BY <1>7
    <2>4. T = {b \in 1 .. n : IsTerminated(bs[b])}
        BY <1>2, <1>7 DEF Sum, Terminated
    <2>5. Terminated(g) = {b \in 1 .. n + 1 : IsTerminated(cs[b])}
        BY <1>6, <1>8 DEF Terminated
    <2> QED
        BY <1>8, <2>1, <2>2, <2>3, <2>4, <2>5
<1>18. \A k \in 1 .. n + 1 : (k \in 1 .. n /\ cs[k] = bs[k]) \/ DOMAIN cs[k].code = {}
    BY <1>7, <1>8, <1>16
<1>19. \A b \in 1 .. n + 1 : \A i \in DOMAIN cs[b].code : LiveOf(cs[b].code[i]) \subseteq G
    BY <1>2, <1>18 DEF Sum
<1>20. \A b \in (1 .. n + 1) \ X : OneEnd(cs[b].code)
    BY <1>2, <1>18 DEF Sum, OneEnd
<1> QED
    BY <1>2, <1>3, <1>5, <1>6, <1>8, <1>14, <1>15, <1>17, <1>19, <1>20 DEF Sum, Created

LEMMA CreateKeeps ==
    ASSUME NEW f, NEW n, NEW c, NEW T, NEW G, NEW X, Sum(f, n, c, T, G, X), NEW p \in 0 .. n
    PROVE  Sum(Create(f, p), n + 1, c, T, G, X) /\ Created(Create(f, p)) = n + 1
    BY CreateDoes


LEMMA Parts ==
    ASSUME NEW f, NEW n, NEW c, NEW T, NEW G, NEW X, Sum(f, n, c, T, G, X)
    PROVE  /\ f = [blocks |-> f.blocks, locals |-> f.locals, active |-> f.active]
           /\ IsSeq(f.blocks) /\ Len(f.blocks) = n /\ n \in Nat /\ DOMAIN f.blocks = 1 .. n
           /\ IsSeq(f.locals) /\ Len(f.locals) \in Nat /\ f.active \in 1 .. n
           /\ \A k \in 1 .. n : IsBlockAt(f.blocks, Len(f.locals), k)
    BY BuiltFacts DEF Sum, Built

LEMMA BuiltOf ==
    ASSUME NEW cs, IsSeq(cs), NEW ls, IsSeq(ls), NEW a \in 1 .. Len(cs),
           \A k \in 1 .. Len(cs) : IsBlockAt(cs, Len(ls), k)
    PROVE  Built([blocks |-> cs, locals |-> ls, active |-> a])
    BY SeqFacts DEF Built

(* One field of a block is set.                                            *)
LEMMA BlockExcept ==
    ASSUME NEW x, BlockFields(x), NEW v
    PROVE  /\ [x EXCEPT !.previous = v] = [parent |-> x.parent, previous |-> v, next |-> x.next,
                  active |-> x.active, values |-> x.values, code |-> x.code]
           /\ [x EXCEPT !.next = v] = [parent |-> x.parent, previous |-> x.previous, next |-> v,
                  active |-> x.active, values |-> x.values, code |-> x.code]
           /\ [x EXCEPT !.active = v] = [parent |-> x.parent, previous |-> x.previous, next |-> x.next,
                  active |-> v, values |-> x.values, code |-> x.code]
           /\ [x EXCEPT !.values = v] = [parent |-> x.parent, previous |-> x.previous, next |-> x.next,
                  active |-> x.active, values |-> v, code |-> x.code]
           /\ [x EXCEPT !.code = v] = [parent |-> x.parent, previous |-> x.previous, next |-> x.next,
                  active |-> x.active, values |-> x.values, code |-> v]
<1>1. PICK p, q, r, t, u, w : x = [parent |-> p, previous |-> q, next |-> r, active |-> t, values |-> u, code |-> w]
    BY DEF BlockFields
<1> QED
    BY <1>1

(* Links to an earlier block, and back.                                    *)
LEMMA LinkDoes ==
    ASSUME NEW f, NEW n, NEW c, NEW T, NEW G, NEW X, Sum(f, n, c, T, G, X),
           NEW b \in 1 .. n, NEW before \in 1 .. n, before < b
    PROVE  /\ Sum(Link(f, b, before), n, c, T, G, X) /\ Link(f, b, before).locals = f.locals
           /\ \A k \in 1 .. n :
                 /\ Link(f, b, before).blocks[k].parent = f.blocks[k].parent
                 /\ Link(f, b, before).blocks[k].previous = IF k = b THEN before ELSE f.blocks[k].previous
                 /\ Link(f, b, before).blocks[k].next = IF k = before THEN b ELSE f.blocks[k].next
                 /\ Link(f, b, before).blocks[k].values = f.blocks[k].values
                 /\ Link(f, b, before).blocks[k].code = f.blocks[k].code
<1>1. PICK bs, ls, a : bs = f.blocks /\ ls = f.locals /\ a = f.active
    OBVIOUS
<1>2. /\ f = [blocks |-> bs, locals |-> ls, active |-> a]
      /\ IsSeq(bs) /\ Len(bs) = n /\ n \in Nat /\ DOMAIN bs = 1 .. n
      /\ IsSeq(ls) /\ Len(ls) \in Nat /\ a \in 1 .. n
      /\ \A k \in 1 .. n : IsBlockAt(bs, Len(ls), k)
    BY <1>1, Parts
<1>3. PICK x : x = [bs[b] EXCEPT !.previous = before]
    OBVIOUS
<1>4. PICK y : y = [bs[before] EXCEPT !.next = b]
    OBVIOUS
<1>5. PICK ds : ds = [bs EXCEPT ![b] = x]
    OBVIOUS
<1>6. /\ IsSeq(ds) /\ Len(ds) = n /\ DOMAIN ds = 1 .. n
      /\ \A k \in 1 .. n : ds[k] = IF k = b THEN x ELSE bs[k]
    BY <1>2, <1>5, ExceptAny
<1>7. PICK cs : cs = [ds EXCEPT ![before] = y]
    OBVIOUS
<1>8. /\ IsSeq(cs) /\ Len(cs) = n /\ DOMAIN cs = 1 .. n
      /\ \A k \in 1 .. n : cs[k] = IF k = before THEN y ELSE ds[k]
    BY <1>6, <1>7, ExceptAny
<1>9. Link(f, b, before) = [blocks |-> cs, locals |-> ls, active |-> a]
    <2>1. Link(f, b, before) = [[f EXCEPT !.blocks = ds] EXCEPT !.blocks[before].next = b]
        BY <1>1, <1>3, <1>5 DEF Link
    <2>2. [f EXCEPT !.blocks = ds] = [blocks |-> ds, locals |-> ls, active |-> a]
        BY <1>2
    <2>3. ds[before] = bs[before]
        BY <1>6
    <2>4. [[blocks |-> ds, locals |-> ls, active |-> a] EXCEPT !.blocks[before].next = b]
              = [blocks |-> cs, locals |-> ls, active |-> a]
        BY <1>4, <1>7, <2>3
    <2> QED
        BY <2>1, <2>2, <2>4
<1>10. /\ BlockFields(x) /\ x.parent = bs[b].parent /\ x.previous = before /\ x.next = bs[b].next
       /\ x.active = bs[b].active /\ x.values = bs[b].values /\ x.code = bs[b].code
    <2>1. BlockFields(bs[b])
        BY <1>2 DEF IsBlockAt
    <2> QED
        BY <1>3, <2>1, BlockExcept DEF BlockFields
<1>11. /\ BlockFields(y) /\ y.parent = bs[before].parent /\ y.previous = bs[before].previous /\ y.next = b
       /\ y.active = bs[before].active /\ y.values = bs[before].values /\ y.code = bs[before].code
    <2>1. BlockFields(bs[before])
        BY <1>2 DEF IsBlockAt
    <2> QED
        BY <1>4, <2>1, BlockExcept DEF BlockFields
<1>18. n \in Nat /\ \A k \in 1 .. n : BlockFields(bs[k])
    BY <1>2 DEF IsBlockAt
<1>12. \A k \in 1 .. n : /\ BlockFields(cs[k])
                         /\ cs[k].parent = bs[k].parent /\ cs[k].active = bs[k].active
                         /\ cs[k].values = bs[k].values /\ cs[k].code = bs[k].code
                         /\ cs[k].previous = IF k = b THEN before ELSE bs[k].previous
                         /\ cs[k].next = IF k = before THEN b ELSE bs[k].next
    <2> SUFFICES ASSUME NEW k \in 1 .. n
                 PROVE  /\ BlockFields(cs[k])
                        /\ cs[k].parent = bs[k].parent /\ cs[k].active = bs[k].active
                        /\ cs[k].values = bs[k].values /\ cs[k].code = bs[k].code
                        /\ cs[k].previous = IF k = b THEN before ELSE bs[k].previous
                        /\ cs[k].next = IF k = before THEN b ELSE bs[k].next
        OBVIOUS
    <2>1. CASE k = before
        BY <1>8, <1>11, <1>18, <2>1
    <2>2. CASE k = b
        BY <1>6, <1>8, <1>10, <1>18, <2>2
    <2>3. CASE k # b /\ k # before
        BY <1>6, <1>8, <1>18, <2>3
    <2> QED
        BY <2>1, <2>2, <2>3
<1>13. ASSUME NEW k \in 1 .. n
       PROVE  IsBlockAt(cs, Len(ls), k)
    <2>1. IsBlockAt(bs, Len(ls), k)
        BY <1>2
    <2>2. cs[k].previous \in 0 .. k - 1
        BY <1>12, <1>18, <2>1 DEF IsBlockAt
    <2>3. cs[k].next = 0 \/ cs[k].next \in k + 1 .. n
        <3>1. bs[k].next = 0 \/ bs[k].next \in k + 1 .. n
            BY <1>2, <2>1 DEF IsBlockAt
        <3> QED
            BY <1>12, <1>18, <3>1
    <2>4. bs[k].active # 0 => bs[k].active \in 1 .. n
        BY <1>2, <2>1 DEF IsBlockAt
    <2>5. cs[k].active # 0 => cs[k].active \in k + 1 .. n /\ cs[cs[k].active].parent = k
        <3>1. cs[k].active = bs[k].active
            BY <1>12
        <3>2. bs[k].active # 0 => bs[k].active \in k + 1 .. n /\ bs[bs[k].active].parent = k
            BY <2>1, <1>2 DEF IsBlockAt
        <3>3. bs[k].active # 0 => cs[bs[k].active].parent = bs[bs[k].active].parent
            BY <1>12, <2>4
        <3> QED
            BY ONLY <3>1, <3>2, <3>3
    <2> QED
        BY <1>8, <1>12, <2>1, <2>2, <2>3, <2>5 DEF IsBlockAt
<1>14. PICK g : g = Link(f, b, before)
    OBVIOUS
<1>15. Built(g) /\ g.blocks = cs /\ g.active = a
    BY <1>2, <1>8, <1>9, <1>13, <1>14, BuiltOf
<1>16. Current(g) = c
    BY <1>1, <1>2, <1>8, <1>12, <1>15, SameActive DEF Sum
<1>17. Sum(g, n, Current(g), T, G, X)
    BY <1>1, <1>8, <1>12, <1>15, SameCode
<1> QED
    BY <1>1, <1>9, <1>12, <1>14, <1>15, <1>16, <1>17

LEMMA LinkKeeps ==
    ASSUME NEW f, NEW n, NEW c, NEW T, NEW G, NEW X, Sum(f, n, c, T, G, X),
           NEW b \in 1 .. n, NEW before \in 1 .. n, before < b
    PROVE  Sum(Link(f, b, before), n, c, T, G, X)
    BY LinkDoes


(* A local that is declared in a block.                                    *)
LEMMA NewLocalDoes ==
    ASSUME NEW f, NEW n, NEW c, NEW T, NEW G, NEW X, Sum(f, n, c, T, G, X),
           NEW b \in 1 .. n, NEW local
    PROVE  /\ Sum(NewLocal(f, b, local), n, c, T, G, X)
           /\ NewLocal(f, b, local).locals = Append(f.locals, local)
           /\ \A k \in 1 .. n :
                 /\ NewLocal(f, b, local).blocks[k].parent = f.blocks[k].parent
                 /\ NewLocal(f, b, local).blocks[k].previous = f.blocks[k].previous
                 /\ NewLocal(f, b, local).blocks[k].next = f.blocks[k].next
                 /\ NewLocal(f, b, local).blocks[k].values =
                       IF k = b THEN Append(f.blocks[k].values, Len(f.locals) + 1) ELSE f.blocks[k].values
                 /\ NewLocal(f, b, local).blocks[k].code = f.blocks[k].code
<1>1. PICK bs, ls, a : bs = f.blocks /\ ls = f.locals /\ a = f.active
    OBVIOUS
<1>2. /\ f = [blocks |-> bs, locals |-> ls, active |-> a]
      /\ IsSeq(bs) /\ Len(bs) = n /\ n \in Nat /\ DOMAIN bs = 1 .. n
      /\ IsSeq(ls) /\ Len(ls) \in Nat /\ a \in 1 .. n
      /\ \A k \in 1 .. n : IsBlockAt(bs, Len(ls), k)
    BY <1>1, Parts
<1>3. PICK m \in Nat : m = Len(ls)
    BY <1>2
<1>4. PICK ms : ms = Append(ls, local) /\ IsSeq(ms) /\ Len(ms) = m + 1
    BY <1>2, <1>3, AppendAny
<1>5. PICK x : x = [bs[b] EXCEPT !.values = Append(bs[b].values, m + 1)]
    OBVIOUS
<1>6. PICK cs : cs = [bs EXCEPT ![b] = x]
    OBVIOUS
<1>7. /\ IsSeq(cs) /\ Len(cs) = n /\ DOMAIN cs = 1 .. n
      /\ \A k \in 1 .. n : cs[k] = IF k = b THEN x ELSE bs[k]
    BY <1>2, <1>6, ExceptAny
<1>8. NewLocal(f, b, local) = [blocks |-> cs, locals |-> ms, active |-> a]
    <2>1. NewLocal(f, b, local) = [[f EXCEPT !.locals = ms] EXCEPT !.blocks[b].values = Append(@, m + 1)]
        BY <1>1, <1>3, <1>4 DEF NewLocal
    <2>2. [f EXCEPT !.locals = ms] = [blocks |-> bs, locals |-> ms, active |-> a]
        BY <1>2
    <2>3. [[blocks |-> bs, locals |-> ms, active |-> a] EXCEPT !.blocks[b].values = Append(@, m + 1)]
              = [blocks |-> cs, locals |-> ms, active |-> a]
        BY <1>5, <1>6
    <2> QED
        BY ONLY <2>1, <2>2, <2>3, Zenon
<1>9. /\ BlockFields(x) /\ x.parent = bs[b].parent /\ x.previous = bs[b].previous /\ x.next = bs[b].next
      /\ x.active = bs[b].active /\ x.code = bs[b].code /\ x.values = Append(bs[b].values, m + 1)
    <2>1. BlockFields(bs[b])
        BY <1>2 DEF IsBlockAt
    <2> QED
        BY <1>5, <2>1, BlockExcept DEF BlockFields
<1>10. \A k \in 1 .. n : bs[k].values \in Seq(1 .. m)
    BY <1>2, <1>3 DEF IsBlockAt
<1>11. \A k \in 1 .. n : cs[k].values \in Seq(1 .. m + 1)
    <2>1. \A k \in 1 .. n : bs[k].values \in Seq(1 .. m + 1)
        BY <1>3, <1>10, SeqMonotonic
    <2>2. m + 1 \in 1 .. m + 1
        BY <1>3
    <2>3. Append(bs[b].values, m + 1) \in Seq(1 .. m + 1)
        BY <2>1, <2>2
    <2> QED
        BY <1>7, <1>9, <2>1, <2>3
<1>12. \A k \in 1 .. n : /\ BlockFields(cs[k])
                         /\ cs[k].parent = bs[k].parent /\ cs[k].active = bs[k].active
                         /\ cs[k].previous = bs[k].previous /\ cs[k].next = bs[k].next
                         /\ cs[k].code = bs[k].code
    BY <1>2, <1>7, <1>9 DEF IsBlockAt
<1>13. ASSUME NEW k \in 1 .. n
       PROVE  IsBlockAt(cs, m + 1, k)
    <2>1. IsBlockAt(bs, m, k)
        BY <1>2, <1>3
    <2>2. bs[k].active # 0 => bs[k].active \in 1 .. n
        BY <1>2, <2>1 DEF IsBlockAt
    <2>3. cs[k].active # 0 => cs[k].active \in k + 1 .. n /\ cs[cs[k].active].parent = k
        BY <1>2, <1>12, <2>1, <2>2 DEF IsBlockAt
    <2> QED
        BY <1>2, <1>7, <1>11, <1>12, <2>1, <2>3 DEF IsBlockAt
<1>14. PICK g : g = NewLocal(f, b, local)
    OBVIOUS
<1>18. \A k \in 1 .. Len(cs) : IsBlockAt(cs, Len(ms), k)
    BY <1>4, <1>7, <1>13
<1>15. Built(g) /\ g.blocks = cs /\ g.active = a
    <2>1. a \in 1 .. Len(cs)
        BY <1>2, <1>7
    <2>2. Built([blocks |-> cs, locals |-> ms, active |-> a])
        BY <1>4, <1>7, <1>18, <2>1, BuiltOf
    <2> QED
        BY <1>8, <1>14, <2>2
<1>16. Current(g) = c
    BY <1>1, <1>2, <1>7, <1>12, <1>15, SameActive DEF Sum
<1>17. Sum(g, n, Current(g), T, G, X)
    BY <1>1, <1>7, <1>12, <1>15, SameCode
<1> QED
    <2>1. g.locals = ms
        BY <1>8, <1>14
    <2>2. \A k \in 1 .. n : cs[k].values = IF k = b THEN Append(bs[k].values, m + 1) ELSE bs[k].values
        BY <1>7, <1>9
    <2>3. \A k \in 1 .. n :
             /\ g.blocks[k].parent = f.blocks[k].parent
             /\ g.blocks[k].previous = f.blocks[k].previous
             /\ g.blocks[k].next = f.blocks[k].next
             /\ g.blocks[k].values = IF k = b THEN Append(f.blocks[k].values, Len(f.locals) + 1) ELSE f.blocks[k].values
             /\ g.blocks[k].code = f.blocks[k].code
        BY <1>1, <1>3, <1>12, <1>15, <2>2
    <2>4. Sum(g, n, c, T, G, X) /\ g.locals = Append(f.locals, local)
        BY <1>1, <1>4, <1>16, <1>17, <2>1
    <2> QED
        BY <1>14, <2>3, <2>4

LEMMA NewLocalKeeps ==
    ASSUME NEW f, NEW n, NEW c, NEW T, NEW G, NEW X, Sum(f, n, c, T, G, X),
           NEW b \in 1 .. n, NEW local
    PROVE  Sum(NewLocal(f, b, local), n, c, T, G, X)
    BY NewLocalDoes


(* Any block can be made the current one.                                  *)
LEMMA SetActiveDoes ==
    ASSUME NEW f, NEW n, NEW c, NEW T, NEW G, NEW X, Sum(f, n, c, T, G, X), NEW b \in 1 .. n
    PROVE  /\ Sum(SetActive(f, b), n, b, T, G, X) /\ SetActive(f, b).locals = f.locals
           /\ \A k \in 1 .. n :
                 /\ SetActive(f, b).blocks[k].parent = f.blocks[k].parent
                 /\ SetActive(f, b).blocks[k].previous = f.blocks[k].previous
                 /\ SetActive(f, b).blocks[k].next = f.blocks[k].next
                 /\ SetActive(f, b).blocks[k].values = f.blocks[k].values
                 /\ SetActive(f, b).blocks[k].code = f.blocks[k].code
<1>1. PICK bs, ls, a : bs = f.blocks /\ ls = f.locals /\ a = f.active
    OBVIOUS
<1>2. /\ f = [blocks |-> bs, locals |-> ls, active |-> a]
      /\ IsSeq(bs) /\ Len(bs) = n /\ n \in Nat /\ DOMAIN bs = 1 .. n
      /\ IsSeq(ls) /\ Len(ls) \in Nat /\ a \in 1 .. n
      /\ \A k \in 1 .. n : IsBlockAt(bs, Len(ls), k)
    BY <1>1, Parts
<1>3. PICK line : line = Lineage(f, b)
    OBVIOUS
<1>4. /\ line \subseteq 1 .. n /\ b \in line
      /\ \A x \in line \ {b} : \E d \in line : bs[d].parent = x
      /\ \E x \in line : bs[x].parent = 0
    <2>1. Built(f) /\ b \in 1 .. Len(f.blocks)
        BY <1>1, <1>2 DEF Sum
    <2>2. /\ Lineage(f, b) \subseteq 1 .. Len(f.blocks) /\ b \in Lineage(f, b)
          /\ \A x \in Lineage(f, b) \ {b} : \E d \in Lineage(f, b) : f.blocks[d].parent = x
          /\ \E x \in Lineage(f, b) : f.blocks[x].parent = 0
        BY <2>1, LineageFacts
    <2> QED
        BY <1>1, <1>2, <1>3, <2>2
<1> DEFINE Below(x) == CHOOSE d \in line : f.blocks[d].parent = x
           act(k) == IF k = b THEN 0 ELSE IF k \in line THEN Below(k) ELSE bs[k].active
           cs == [k \in 1 .. n |-> [bs[k] EXCEPT !.active = act(k)]]
<1>5. PICK r \in line : r = (CHOOSE x \in line : f.blocks[x].parent = 0) /\ bs[r].parent = 0
    BY <1>1, <1>4
<1>6. \A x \in line \ {b} : Below(x) \in line /\ bs[Below(x)].parent = x
    BY <1>1, <1>4
<1>7. SetActive(f, b) = [blocks |-> cs, locals |-> ls, active |-> r]
    <2>1. \A k \in 1 .. n : bs[k] = [bs[k] EXCEPT !.active = bs[k].active]
        BY <1>2 DEF IsBlockAt, BlockFields
    <2>2. PICK ds : ds = [k \in DOMAIN bs |->
                             IF k = b THEN [bs[k] EXCEPT !.active = 0]
                             ELSE IF k \in line THEN [bs[k] EXCEPT !.active = Below(k)] ELSE bs[k]]
        OBVIOUS
    <2>3. ds = cs
        <3>1. ASSUME NEW k \in 1 .. n
              PROVE  ds[k] = cs[k]
            <4>1. CASE k = b
                BY <1>2, <2>2, <4>1
            <4>2. CASE k # b /\ k \in line
                BY <1>2, <2>2, <4>2
            <4>3. CASE k # b /\ k \notin line
                <5>1. ds[k] = bs[k]
                    BY <1>2, <2>2, <4>3
                <5>2. cs[k] = [bs[k] EXCEPT !.active = bs[k].active]
                    BY <4>3
                <5> HIDE DEF cs
                <5> QED
                    BY <2>1, <5>1, <5>2
            <4> QED
                BY <4>1, <4>2, <4>3
        <3>2. DOMAIN ds = 1 .. n /\ ds = [k \in 1 .. n |-> ds[k]]
            BY <1>2, <2>2
        <3>3. cs = [k \in 1 .. n |-> cs[k]]
            OBVIOUS
        <3> HIDE DEF cs
        <3> QED
            BY <3>1, <3>2, <3>3
    <2>4. SetActive(f, b) = [[f EXCEPT !.blocks = ds] EXCEPT !.active = r]
        BY <1>1, <1>3, <1>5, <2>2 DEF SetActive
    <2> HIDE DEF cs
    <2> QED
        BY <1>2, <2>3, <2>4
<1> HIDE DEF Below
<1>8. \A k \in 1 .. n : act(k) # 0 => act(k) \in k + 1 .. n /\ bs[act(k)].parent = k
    <2> SUFFICES ASSUME NEW k \in 1 .. n, act(k) # 0
                 PROVE  act(k) \in k + 1 .. n /\ bs[act(k)].parent = k
        OBVIOUS
    <2>1. CASE k \in line
        <3>1. act(k) \in 1 .. n /\ bs[act(k)].parent = k
            BY <1>4, <1>6, <2>1
        <3>2. bs[act(k)].parent \in 0 .. act(k) - 1
            BY <1>2, <3>1 DEF IsBlockAt
        <3> HIDE DEF act
        <3> QED
            BY <1>2, <3>1, <3>2
    <2>2. CASE k \notin line
        BY <1>2, <1>4, <2>2 DEF IsBlockAt
    <2> QED
        BY <2>1, <2>2
<1> HIDE DEF act
<1>9. \A k \in 1 .. n : /\ BlockFields(cs[k]) /\ cs[k].active = act(k)
                        /\ cs[k].parent = bs[k].parent /\ cs[k].next = bs[k].next
                        /\ cs[k].previous = bs[k].previous /\ cs[k].values = bs[k].values
                        /\ cs[k].code = bs[k].code
    BY <1>2 DEF IsBlockAt, BlockFields
<1>10. IsSeq(cs) /\ Len(cs) = n
    <2>1. cs \in [1 .. n -> {cs[k] : k \in 1 .. n}]
        OBVIOUS
    <2> HIDE DEF cs
    <2> QED
        BY <1>2, <2>1, FunctionIsSeq
<1> HIDE DEF cs
<1>11. ASSUME NEW k \in 1 .. n
       PROVE  IsBlockAt(cs, Len(ls), k)
    <2>1. IsBlockAt(bs, Len(ls), k)
        BY <1>2
    <2>2. act(k) # 0 => act(k) \in k + 1 .. n /\ bs[act(k)].parent = k /\ act(k) \in 1 .. n
        BY <1>2, <1>8
    <2>3. cs[k].active # 0 => cs[k].active \in k + 1 .. n /\ cs[cs[k].active].parent = k
        BY <1>9, <2>2
    <2> QED
        BY <1>2, <1>9, <1>10, <2>1, <2>3 DEF IsBlockAt
<1>12. PICK g : g = SetActive(f, b)
    OBVIOUS
<1>13. Built(g) /\ g.blocks = cs /\ g.active = r
    BY <1>2, <1>4, <1>5, <1>7, <1>10, <1>11, <1>12, BuiltOf
<1>14. Current(g) = b
    <2>1. DOMAIN g.blocks = 1 .. n
        BY <1>10, <1>13, BuiltFacts
    <2>2. \A x \in line : IF cs[x].active = 0 THEN x = b ELSE cs[x].active \in line
        <3> SUFFICES ASSUME NEW x \in line, x # b PROVE cs[x].active # 0 /\ cs[x].active \in line
            BY <1>4, <1>9 DEF act
        <3>1. cs[x].active = Below(x) /\ Below(x) \in line
            BY <1>4, <1>6, <1>9 DEF act
        <3> QED
            BY <1>4, <3>1
    <2>3. Leads(g, b)
        BY <1>4, <1>13, <2>1, <2>2 DEF Leads
    <2> QED
        BY <1>13, <2>3, CurrentIs
<1>15. Sum(g, n, Current(g), T, G, X)
    BY <1>1, <1>9, <1>10, <1>13, SameCode
<1> QED
    <2>1. g.locals = ls
        BY <1>7, <1>12
    <2> QED
        BY <1>1, <1>9, <1>12, <1>13, <1>14, <1>15, <2>1

LEMMA SetActiveKeeps ==
    ASSUME NEW f, NEW n, NEW c, NEW T, NEW G, NEW X, Sum(f, n, c, T, G, X), NEW b \in 1 .. n
    PROVE  Sum(SetActive(f, b), n, b, T, G, X)
    BY SetActiveDoes


-----------------------------------------------------------------------------
(* Instructions are added to the current block.                            *)
LEMMA EmitDoes ==
    ASSUME NEW f, NEW n, NEW c, NEW T, NEW G, NEW X, Sum(f, n, c, T, G, X),
           NEW code, IsSeq(code)
    PROVE  /\ Built(Emit(f, code)) /\ Len(Emit(f, code).blocks) = n /\ Current(Emit(f, code)) = c
           /\ Emit(f, code).blocks[c].code = f.blocks[c].code \o code
           /\ \A k \in 1 .. n : k # c => Emit(f, code).blocks[k].code = f.blocks[k].code
           /\ Emit(f, code).locals = f.locals
           /\ \A k \in 1 .. n :
                 /\ Emit(f, code).blocks[k].parent = f.blocks[k].parent
                 /\ Emit(f, code).blocks[k].previous = f.blocks[k].previous
                 /\ Emit(f, code).blocks[k].next = f.blocks[k].next
                 /\ Emit(f, code).blocks[k].values = f.blocks[k].values
<1>1. PICK bs, ls, a : bs = f.blocks /\ ls = f.locals /\ a = f.active
    OBVIOUS
<1>2. /\ f = [blocks |-> bs, locals |-> ls, active |-> a]
      /\ IsSeq(bs) /\ Len(bs) = n /\ n \in Nat /\ DOMAIN bs = 1 .. n
      /\ IsSeq(ls) /\ Len(ls) \in Nat /\ a \in 1 .. n
      /\ \A k \in 1 .. n : IsBlockAt(bs, Len(ls), k)
    BY <1>1, Parts
<1>15. c \in 1 .. n
    BY SumFacts
<1>3. c \in 1 .. n /\ Current(f) = c
    BY <1>15 DEF Sum
<1>4. PICK x : x = [bs[c] EXCEPT !.code = bs[c].code \o code]
    OBVIOUS
<1>5. PICK cs : cs = [bs EXCEPT ![c] = x]
    OBVIOUS
<1>14. c \in DOMAIN bs /\ IsSeq(bs) /\ Len(bs) = n /\ DOMAIN bs = 1 .. n
    BY <1>2, <1>3
<1>6. /\ IsSeq(cs) /\ Len(cs) = n /\ DOMAIN cs = 1 .. n
      /\ \A k \in 1 .. n : cs[k] = IF k = c THEN x ELSE bs[k]
    BY ONLY <1>5, <1>14, ExceptAny
<1>7. Emit(f, code) = [blocks |-> cs, locals |-> ls, active |-> a]
    <2>1. Emit(f, code) = [[blocks |-> bs, locals |-> ls, active |-> a]
                              EXCEPT !.blocks[c].code = @ \o code]
        BY <1>2, <1>3 DEF Emit
    <2> QED
        BY <1>4, <1>5, <2>1
<1>8. /\ BlockFields(x) /\ x.parent = bs[c].parent /\ x.previous = bs[c].previous /\ x.next = bs[c].next
      /\ x.active = bs[c].active /\ x.values = bs[c].values /\ x.code = bs[c].code \o code
    <2>1. BlockFields(bs[c])
        BY <1>2, <1>3 DEF IsBlockAt
    <2> QED
        BY <1>4, <2>1, BlockExcept DEF BlockFields
<1>9. \A k \in 1 .. n : /\ BlockFields(cs[k])
                        /\ cs[k].parent = bs[k].parent /\ cs[k].active = bs[k].active
                        /\ cs[k].previous = bs[k].previous /\ cs[k].next = bs[k].next
                        /\ cs[k].values = bs[k].values
                        /\ cs[k].code = IF k = c THEN bs[k].code \o code ELSE bs[k].code
    BY <1>2, <1>6, <1>8 DEF IsBlockAt
<1>10. ASSUME NEW k \in 1 .. n
       PROVE  IsBlockAt(cs, Len(ls), k)
    <2>1. IsBlockAt(bs, Len(ls), k)
        BY <1>2
    <2>2. bs[k].active # 0 => bs[k].active \in 1 .. n
        BY <1>2, <2>1 DEF IsBlockAt
    <2>3. cs[k].active # 0 => cs[k].active \in k + 1 .. n /\ cs[cs[k].active].parent = k
        BY <1>2, <1>9, <2>1, <2>2, ZenonT(60) DEF IsBlockAt
    <2>4. IsSeq(cs[k].code)
        <3>1. IsSeq(bs[k].code)
            BY <2>1 DEF IsBlockAt
        <3>2. IsSeq(bs[k].code \o code)
            BY <3>1, ConcatAny
        <3> QED
            BY <1>9, <3>1, <3>2
    <2> QED
        BY <1>2, <1>6, <1>9, <2>1, <2>3, <2>4 DEF IsBlockAt
<1>11. PICK g : g = Emit(f, code)
    OBVIOUS
<1>12. Built(g) /\ g.blocks = cs /\ g.active = a
    <2>1. \A k \in 1 .. Len(cs) : IsBlockAt(cs, Len(ls), k)
        BY <1>6, <1>10
    <2>2. Built([blocks |-> cs, locals |-> ls, active |-> a])
        BY <1>2, <1>6, <2>1, BuiltOf
    <2> QED
        BY <1>7, <1>11, <2>2
<1>13. Current(g) = c
    BY <1>1, <1>2, <1>6, <1>9, <1>12, SameActive DEF Sum
<1> QED
    <2>1. g.locals = ls
        BY <1>7, <1>11
    <2> QED
        BY <1>1, <1>3, <1>6, <1>9, <1>11, <1>12, <1>13, <2>1

LEMMA EmitIs ==
    ASSUME NEW f, NEW n, NEW c, NEW T, NEW G, NEW X, Sum(f, n, c, T, G, X),
           NEW code, IsSeq(code)
    PROVE  /\ Built(Emit(f, code)) /\ Len(Emit(f, code).blocks) = n /\ Current(Emit(f, code)) = c
           /\ Emit(f, code).blocks[c].code = f.blocks[c].code \o code
           /\ \A k \in 1 .. n : k # c => Emit(f, code).blocks[k].code = f.blocks[k].code
    BY EmitDoes


LEMMA CodeFacts ==
    ASSUME NEW f, NEW n, NEW c, NEW T, NEW G, NEW X, Sum(f, n, c, T, G, X), NEW b \in 1 .. n
    PROVE  /\ IsSeq(f.blocks[b].code) /\ Len(f.blocks[b].code) \in Nat
           /\ DOMAIN f.blocks[b].code = 1 .. Len(f.blocks[b].code)
           /\ b \in T <=> IsTerminated(f.blocks[b])
<1>1. IsSeq(f.blocks[b].code) /\ DOMAIN f.blocks = 1 .. n
    BY Parts DEF IsBlockAt
<1> QED
    BY <1>1, SeqFacts DEF Sum, Terminated

(* Instructions that end nothing, after an end only those of a scope.      *)
LEMMA EmitKeeps ==
    ASSUME NEW f, NEW n, NEW c, NEW T, NEW G, NEW X, Sum(f, n, c, T, G, X),
           NEW code, IsSeq(code), \A i \in DOMAIN code : code[i].op \notin {"br", "cond", "ret"},
           c \in X \/ c \notin T \/ \A i \in DOMAIN code : OfScope(code[i])
    PROVE  Sum(Emit(f, code), n, c, T, G, X)
<1>1. PICK g : g = Emit(f, code)
    OBVIOUS
<1>2. /\ Built(g) /\ Len(g.blocks) = n /\ Current(g) = c
      /\ g.blocks[c].code = f.blocks[c].code \o code
      /\ \A k \in 1 .. n : k # c => g.blocks[k].code = f.blocks[k].code
    BY ONLY Sum(f, n, c, T, G, X), IsSeq(code), <1>1, EmitIs, SMTT(30)
<1>3. n \in Nat /\ c \in 1 .. n /\ T \subseteq 1 .. n /\ DOMAIN g.blocks = 1 .. n
    BY <1>2, SumFacts, BuiltFacts
<1>4. PICK s : s = f.blocks[c].code
    OBVIOUS
<1>5. PICK p \in Nat : IsSeq(s) /\ p = Len(s) /\ DOMAIN s = 1 .. p
    BY <1>3, <1>4, CodeFacts
<1>6. PICK q \in Nat : q = Len(code) /\ DOMAIN code = 1 .. q
    BY SeqFacts
<1>17. PICK t : t = s \o code
    OBVIOUS
<1>7. /\ t = s \o code /\ DOMAIN t = 1 .. p + q
      /\ \A i \in 1 .. p + q : t[i] = IF i <= p THEN s[i] ELSE code[i - p]
    <2>1. IsSeq(s) /\ IsSeq(code) /\ Len(s) = p /\ Len(code) = q
        BY <1>5, <1>6
    <2> QED
        BY ONLY <1>17, <2>1, ConcatAny
<1>8. \A i \in DOMAIN t : (i \in DOMAIN s /\ i <= p /\ t[i] = s[i])
                             \/ (i > p /\ i - p \in DOMAIN code /\ t[i] = code[i - p])
    BY <1>5, <1>6, <1>7
<1>9. \A i \in DOMAIN s : i \in DOMAIN t /\ t[i] = s[i]
    BY <1>5, <1>6, <1>7
<1>10. (\E i \in DOMAIN t : t[i].op \in Terminators) <=> (\E i \in DOMAIN s : s[i].op \in Terminators)
    BY <1>8, <1>9 DEF Terminators
<1>11. \A b \in 1 .. n : IsTerminated(g.blocks[b]) <=> IsTerminated(f.blocks[b])
    <2>1. IsTerminated(g.blocks[c]) <=> IsTerminated(f.blocks[c])
        BY <1>2, <1>4, <1>7, <1>10 DEF IsTerminated
    <2>2. \A b \in 1 .. n : b # c => (IsTerminated(g.blocks[b]) <=> IsTerminated(f.blocks[b]))
        BY <1>2 DEF IsTerminated
    <2> QED
        BY <2>1, <2>2
<1>12. Terminated(g) = T
    BY <1>3, <1>11, CodeFacts DEF Terminated
<1>13. \A i \in DOMAIN t : LiveOf(t[i]) \subseteq G
    BY <1>3, <1>4, <1>8 DEF Sum, LiveOf
<1>14. \A b \in 1 .. n : \A i \in DOMAIN g.blocks[b].code : LiveOf(g.blocks[b].code[i]) \subseteq G
    BY <1>2, <1>4, <1>7, <1>13 DEF Sum
<1>15. c \in X \/ OneEnd(t)
    <2> SUFFICES ASSUME c \notin X PROVE OneEnd(t)
        OBVIOUS
    <2>1. OneEnd(s)
        BY <1>3, <1>4 DEF Sum
    <2>2. c \notin T => \A i \in DOMAIN t : t[i].op \notin Terminators
        BY <1>3, <1>4, <1>10, CodeFacts DEF IsTerminated
    <2>3. c \in T => \A i \in DOMAIN code : OfScope(code[i])
        OBVIOUS
    <2> SUFFICES ASSUME NEW i \in DOMAIN t, NEW j \in DOMAIN t, i < j, t[i].op \in Terminators
                 PROVE  OfScope(t[j])
        BY DEF OneEnd
    <2>4. i \in DOMAIN s /\ t[i] = s[i]
        BY <1>8 DEF Terminators
    <2> QED
        BY <1>8, <2>1, <2>2, <2>3, <2>4 DEF OneEnd
<1>16. \A b \in (1 .. n) \ X : OneEnd(g.blocks[b].code)
    BY <1>2, <1>4, <1>7, <1>15 DEF Sum
<1> QED
    BY <1>1, <1>2, <1>12, <1>14, <1>16 DEF Sum

(* A terminator closes the current block.                                  *)
LEMMA EmitCloses ==
    ASSUME NEW f, NEW n, NEW c, NEW T, NEW G, NEW X, Sum(f, n, c, T, G, X),
           NEW code, IsSeq(code), NEW q \in Nat \ {0}, q = Len(code), code[q].op \in {"br", "cond", "ret"},
           \A i \in 1 .. q - 1 : code[i].op \notin {"br", "cond", "ret"},
           c \in X \/ c \notin T
    PROVE  Sum(Emit(f, code), n, c, T \cup {c}, G \cup LiveOf(code[q]), X)
<1>1. PICK g : g = Emit(f, code)
    OBVIOUS
<1>2. /\ Built(g) /\ Len(g.blocks) = n /\ Current(g) = c
      /\ g.blocks[c].code = f.blocks[c].code \o code
      /\ \A k \in 1 .. n : k # c => g.blocks[k].code = f.blocks[k].code
    BY ONLY Sum(f, n, c, T, G, X), IsSeq(code), <1>1, EmitIs, SMTT(30)
<1>3. n \in Nat /\ c \in 1 .. n /\ T \subseteq 1 .. n /\ DOMAIN g.blocks = 1 .. n
    BY <1>2, SumFacts, BuiltFacts
<1>4. PICK s : s = f.blocks[c].code
    OBVIOUS
<1>5. PICK p \in Nat : IsSeq(s) /\ p = Len(s) /\ DOMAIN s = 1 .. p
    BY <1>3, <1>4, CodeFacts
<1>6. DOMAIN code = 1 .. q
    BY SeqFacts
<1>19. PICK t : t = s \o code
    OBVIOUS
<1>7. /\ t = s \o code /\ DOMAIN t = 1 .. p + q /\ IsSeq(t) /\ Len(t) = p + q
      /\ \A i \in 1 .. p + q : t[i] = IF i <= p THEN s[i] ELSE code[i - p]
    <2>1. IsSeq(s) /\ IsSeq(code) /\ Len(s) = p /\ Len(code) = q
        BY <1>5
    <2> QED
        BY ONLY <1>19, <2>1, ConcatAny
<1>8. \A i \in DOMAIN t : (i \in DOMAIN s /\ i <= p /\ t[i] = s[i])
                             \/ (i > p /\ i - p \in 1 .. q - 1 /\ t[i] = code[i - p])
                             \/ (i = p + q /\ t[i] = code[q])
    <2> SUFFICES ASSUME NEW i \in 1 .. p + q
                 PROVE  \/ i \in 1 .. p /\ i <= p /\ t[i] = s[i]
                        \/ i > p /\ i - p \in 1 .. q - 1 /\ t[i] = code[i - p]
                        \/ i = p + q /\ t[i] = code[q]
        BY <1>5, <1>7
    <2>1. t[i] = IF i <= p THEN s[i] ELSE code[i - p]
        BY <1>7
    <2>2. i <= p \/ (i > p /\ i - p \in 1 .. q - 1) \/ (i = p + q /\ ~(i <= p) /\ i - p = q)
        BY <1>5
    <2>3. i <= p => i \in 1 .. p
        BY <1>5
    <2>4. i > p => ~(i <= p)
        BY <1>5
    <2> QED
        BY <2>1, <2>2, <2>3, <2>4
<1>9. p + q \in DOMAIN t /\ t[p + q] = code[q]
    <2>1. p + q \in 1 .. p + q /\ ~(p + q <= p) /\ (p + q) - p = q
        BY <1>5
    <2> QED
        BY <1>7, <2>1
<1>10. IsTerminated(g.blocks[c])
    BY <1>2, <1>4, <1>7, <1>9 DEF IsTerminated, Terminators
<1>11. \A b \in 1 .. n : b # c => (IsTerminated(g.blocks[b]) <=> IsTerminated(f.blocks[b]))
    BY <1>2 DEF IsTerminated
<1>18. \A b \in 1 .. n : b \in T <=> IsTerminated(f.blocks[b])
    BY CodeFacts
<1>12. Terminated(g) = T \cup {c}
    BY <1>3, <1>10, <1>11, <1>18 DEF Terminated
<1>13. \A i \in DOMAIN t : LiveOf(t[i]) \subseteq G \cup LiveOf(code[q])
    BY <1>3, <1>4, <1>8 DEF Sum, LiveOf
<1>14. \A b \in 1 .. n : \A i \in DOMAIN g.blocks[b].code :
          LiveOf(g.blocks[b].code[i]) \subseteq G \cup LiveOf(code[q])
    BY <1>2, <1>4, <1>7, <1>13 DEF Sum
<1>15. c \in X \/ OneEnd(t)
    <2> SUFFICES ASSUME c \notin X PROVE OneEnd(t)
        OBVIOUS
    <2>1. \A i \in DOMAIN s : s[i].op \notin Terminators
        BY <1>3, <1>4, CodeFacts DEF IsTerminated
    <2>2. \A i \in DOMAIN t : t[i].op \in Terminators => i = p + q
        BY <1>8, <2>1 DEF Terminators
    <2>3. \A i, j \in DOMAIN t : i < j => i # p + q
        BY <1>5, <1>7
    <2> QED
        BY <2>2, <2>3 DEF OneEnd
<1>16. \A b \in (1 .. n) \ X : OneEnd(g.blocks[b].code)
    BY <1>2, <1>4, <1>7, <1>15 DEF Sum
<1> QED
    BY <1>1, <1>2, <1>12, <1>14, <1>16 DEF Sum

(* A branch closes the current block if it is open.                        *)
LEMMA AddBranchForKeeps ==
    ASSUME NEW f, NEW n, NEW c, NEW T, NEW G, NEW X, Sum(f, n, c, T, G, X), NEW b, NEW why
    PROVE  Sum(AddBranchFor(f, b, why), n, c, T \cup {c}, G \cup {b}, X)
<1>4. c \in 1 .. n
    BY SumFacts
<1>1. c \in 1 .. n /\ Current(f) = c
    BY <1>4 DEF Sum
<1>2. CASE c \in T
    <2>1. AddBranchFor(f, b, why) = f
        BY <1>1, <1>2, CodeFacts DEF AddBranchFor
    <2>2. T \cup {c} = T
        BY <1>2
    <2> QED
        BY <2>1, <2>2, WiderSum
<1>3. CASE c \notin T
    <2>5. PICK x : x = BrFor(b, why)
        OBVIOUS
    <2>1. x = BrFor(b, why) /\ x.op = "br" /\ LiveOf(x) = {b}
        BY <2>5 DEF BrFor, Instr, LiveOf
    <2>2. AddBranchFor(f, b, why) = Emit(f, <<x>>)
        BY <1>1, <1>3, <2>1, CodeFacts DEF AddBranchFor
    <2>3. PICK code : code = <<x>> /\ IsSeq(code) /\ Len(code) = 1 /\ code[1] = x
        BY SingletonIsSeq
    <2>4. /\ 1 \in Nat \ {0} /\ 1 = Len(code) /\ code[1].op \in {"br", "cond", "ret"}
          /\ \A i \in 1 .. 1 - 1 : code[i].op \notin {"br", "cond", "ret"}
        BY <2>1, <2>3
    <2>6. Sum(Emit(f, code), n, c, T \cup {c}, G \cup LiveOf(code[1]), X)
        BY <1>3, <2>3, <2>4, EmitCloses
    <2> QED
        BY <2>1, <2>2, <2>3, <2>6
<1> QED
    BY <1>2, <1>3

LEMMA AddBranchKeeps ==
    ASSUME NEW f, NEW n, NEW c, NEW T, NEW G, NEW X, Sum(f, n, c, T, G, X), NEW b
    PROVE  Sum(AddBranch(f, b), n, c, T \cup {c}, G \cup {b}, X)
    BY AddBranchForKeeps DEF AddBranch

(* One terminator.                                                         *)
LEMMA EndsWith ==
    ASSUME NEW f, NEW n, NEW c, NEW T, NEW G, NEW X, Sum(f, n, c, T, G, X),
           NEW x, x.op \in {"br", "cond", "ret"}, c \in X \/ c \notin T
    PROVE  /\ Sum(Emit(f, <<x>>), n, c, T \cup {c}, G \cup LiveOf(x), X)
           /\ Emit(f, <<x>>).blocks[c].code # <<>> /\ Last(Emit(f, <<x>>).blocks[c].code) = x
<1>1. PICK code : code = <<x>> /\ IsSeq(code) /\ Len(code) = 1 /\ code[1] = x
    BY SingletonIsSeq
<1>4. PICK q : q = 1
    OBVIOUS
<1>2. /\ q \in Nat \ {0} /\ q = Len(code) /\ code[q].op \in {"br", "cond", "ret"}
      /\ \A i \in 1 .. q - 1 : code[i].op \notin {"br", "cond", "ret"}
    BY <1>1, <1>4
<1>3. Sum(Emit(f, code), n, c, T \cup {c}, G \cup LiveOf(code[q]), X)
    BY <1>1, <1>2, EmitCloses
<1>5. PICK t : t = f.blocks[c].code
    OBVIOUS
<1>6. IsSeq(t) /\ Len(t) \in Nat
    BY <1>5, SumFacts, CodeFacts
<1>10. IsSeq(code)
    BY <1>1
<1>11. Emit(f, code).blocks[c].code = f.blocks[c].code \o code
    BY ONLY Sum(f, n, c, T, G, X), <1>10, EmitIs
<1>7. Emit(f, code).blocks[c].code = t \o code
    BY <1>5, <1>11
<1>8. IsSeq(t \o code) /\ Len(t \o code) = Len(t) + 1 /\ (t \o code)[Len(t) + 1] = x
    BY <1>1, <1>6, ConcatAny
<1>9. t \o code # <<>> /\ Last(t \o code) = x
    BY <1>6, <1>8, SeqFacts DEF Last
<1> QED
    BY <1>1, <1>3, <1>4, <1>7, <1>9

(* One instruction on a local.                                             *)
LEMMA OnLocalKeeps ==
    ASSUME NEW f, NEW n, NEW c, NEW T, NEW G, NEW X, Sum(f, n, c, T, G, X),
           NEW op, op \notin {"br", "cond", "ret"}, NEW l, NEW why, c \in X \/ c \notin T
    PROVE  Sum(Emit(f, <<OnLocal(op, l, why)>>), n, c, T, G, X)
<1>5. PICK x : x = OnLocal(op, l, why)
    OBVIOUS
<1>1. x = OnLocal(op, l, why) /\ x.op = op
    BY <1>5 DEF OnLocal, Instr
<1>2. PICK code : code = <<x>> /\ IsSeq(code) /\ DOMAIN code = 1 .. 1 /\ code[1] = x
    BY SingletonIsSeq
<1>3. \A i \in DOMAIN code : code[i].op \notin {"br", "cond", "ret"}
    BY <1>1, <1>2
<1>4. Sum(Emit(f, code), n, c, T, G, X)
    BY <1>2, <1>3, EmitKeeps
<1> QED
    BY <1>1, <1>2, <1>4

(* The destruction of locals: anywhere for a scope, in an open block else. *)
LEMMA DestroyKeeps ==
    ASSUME NEW f, NEW n, NEW c, NEW T, NEW G, NEW X, Sum(f, n, c, T, G, X),
           NEW m, NEW locals \in Seq(m), NEW why, c \in X \/ c \notin T \/ why = "scope"
    PROVE  Sum(Destroy(f, locals, why), n, c, T, G, X)
<1>1. PICK code : code = Destructors(f, locals, why)
    OBVIOUS
<1>6. IsSeq(Destructors(f, locals, why))
    BY DestructorsDestroy
<1>7. \A i \in DOMAIN Destructors(f, locals, why) : Destructors(f, locals, why)[i].op = "destroy"
    BY DestructorsDestroy
<1>8. \A i \in DOMAIN Destructors(f, locals, why) : Destructors(f, locals, why)[i].why = why
    BY DestructorsDestroy
<1>2. IsSeq(code) /\ \A i \in DOMAIN code : code[i].op = "destroy" /\ code[i].why = why
    BY <1>1, <1>6, <1>7, <1>8
<1>3. \A i \in DOMAIN code : code[i].op \notin {"br", "cond", "ret"}
    BY <1>2
<1>4. c \in X \/ c \notin T \/ \A i \in DOMAIN code : OfScope(code[i])
    BY <1>2 DEF OfScope
<1>5. Sum(Emit(f, code), n, c, T, G, X)
    BY <1>2, <1>3, <1>4, EmitKeeps
<1> QED
    BY <1>1, <1>5 DEF Destroy

LEMMA DestroyLocalsKeeps ==
    ASSUME NEW f, NEW n, NEW c, NEW T, NEW G, NEW X, Sum(f, n, c, T, G, X), NEW b \in 1 .. n
    PROVE  Sum(DestroyLocals(f, b), n, c, T, G, X)
<1>1. LocalsAlong(f, b) \in Seq(1 .. Len(f.locals))
    BY LocalsAlongAreLocals DEF Sum
<1> QED
    BY <1>1, DestroyKeeps DEF DestroyLocals

LEMMA DestroyLocalsFromKeeps ==
    ASSUME NEW f, NEW n, NEW c, NEW T, NEW G, NEW X, Sum(f, n, c, T, G, X), NEW b \in 1 .. n,
           c \in X \/ c \notin T
    PROVE  Sum(DestroyLocalsFrom(f, b), n, c, T, G, X)
<1>1. LocalsFrom(f, b) \in Seq(1 .. Len(f.locals))
    BY LocalsFromAreLocals DEF Sum
<1> QED
    BY <1>1, DestroyKeeps DEF DestroyLocalsFrom

LEMMA DestructorCallerKeeps ==
    ASSUME NEW f, NEW n, NEW c, NEW T, NEW G, NEW X, Sum(f, n, c, T, G, X), c \in X \/ c \notin T
    PROVE  Sum(DestructorCaller(f), n, c, T, G, X)
<1>3. c \in 1 .. n
    BY SumFacts
<1>1. c \in 1 .. n /\ Current(f) = c /\ Len(f.blocks) = n /\ Built(f)
    BY <1>3 DEF Sum
<1>2. SetToSeq(Visible(f, c)) \in Seq(1 .. Len(f.locals))
    BY <1>1, VisibleAreLocals
<1> QED
    BY <1>1, <1>2, DestroyKeeps DEF DestructorCaller

-----------------------------------------------------------------------------
(* The frames.  Each reserves blocks that are empty and not the current    *)
(* one, and makes them current later; it promises to close those that may  *)
(* have been branched to, all but the block after an arm with a condition  *)
(* that is known.                                                          *)
Reserved(a) ==
    CASE a.is = "arm" -> {a.rest} \cup ({a.otherwise} \ {0})
      [] a.is \in {"else", "bare else", "loop"} -> {a.rest}
      [] a.is \in {"loop if", "loop to"} -> {a.cond, a.rest}
      [] a.is = "loop in" -> {a.cond, a.true, a.rest}
      [] OTHER -> {}
Promised(a) ==
    IF a.is = "arm" /\ a.snt.arms[a.i].cond = "true" THEN {a.rest} ELSE Reserved(a)

(* The block it goes back to, and the blocks whose locals it destroys or   *)
(* in which it creates others.                                             *)
Back(a) == IF a.is = "loop in" THEN {a.body} ELSE IF a.is \in Loops THEN {a.true} ELSE {}
Mentions(a) ==
    Back(a) \cup (IF a.is \in {"arm", "else"} THEN {a.block} ELSE {})
            \cup (IF a.is = "arm" THEN {a.curr} \ {0} ELSE {})

(* Without a block after it an arm is the last, or is known to be taken.   *)
ArmOK(a) ==
    /\ a.snt \in Sentences /\ a.i \in DOMAIN a.snt.arms /\ a.rest # a.otherwise
    /\ \/ /\ a.snt.is = "if"
          /\ ~FalseTill(a.snt, a.i + 1) /\ ~TrueKnownBefore(a.snt, a.i)
          /\ a.otherwise = 0 =>
                TrueKnownBefore(a.snt, a.i + 1) \/ (a.i = Len(a.snt.arms) /\ a.snt.orElse = <<>>)
       \/ /\ a.snt.is = "match"
          /\ a.curr # 0
          /\ a.otherwise = 0 => a.i = Len(a.snt.arms) /\ a.snt.orElse = <<>>

AfterOK(a) ==
    \/ a.is \in {"function", "else", "bare else", "loop"}
    \/ a.is = "arm" /\ ArmOK(a)
    \/ a.is \in {"loop if", "loop to"} /\ a.cond # a.rest
    \/ a.is = "loop in" /\ a.cond # a.true /\ a.cond # a.rest /\ a.true # a.rest

FrameOK(x) ==
    /\ x = [body |-> x.body, next |-> x.next, ended |-> x.ended, after |-> x.after]
    /\ x.body \in Seq(Sentences) /\ x.next \in Nat \ {0} /\ x.ended \in BOOLEAN /\ AfterOK(x.after)

FramesOK(fs, p) ==
    /\ IsSeq(fs) /\ fs # <<>> /\ fs[1].body = p.body
    /\ \A i \in DOMAIN fs : FrameOK(fs[i]) /\ (fs[i].after.is = "function" <=> i = 1)
    /\ \A i \in DOMAIN fs : i # Len(fs) => ~fs[i].ended
    /\ \A i, j \in DOMAIN fs : i # j => Reserved(fs[i].after) \cap Reserved(fs[j].after) = {}

AllReserved(fs) == UNION {Reserved(fs[i].after) : i \in DOMAIN fs}
AllPromised(fs) == UNION {Promised(fs[i].after) : i \in DOMAIN fs}
AllBack(fs)     == UNION {Back(fs[i].after) : i \in DOMAIN fs}
AllMentioned(fs) == UNION {Mentions(fs[i].after) : i \in DOMAIN fs}
Breaking(fs)    == {i \in DOMAIN fs : fs[i].after.is \in {"loop if", "loop to", "loop"}}

(* The blocks that a jump by the records goes to.                          *)
ByContinue(loops) ==
    UNION {{loops[i].main, IF loops[i].kind = "loop" THEN loops[i].main ELSE loops[i].cond} :
              i \in DOMAIN loops}
ByBreak(breaks) == UNION {{breaks[i].true, breaks[i].rest} : i \in DOMAIN breaks}
JumpedTo(loops, breaks) == ByContinue(loops) \cup ByBreak(breaks)

(* Every block that is or will be branched to is closed, current or        *)
(* promised to be closed; the current one is open until its body ended.    *)
StrayIn(p) == \E i \in DOMAIN p.body : p.body[i].is = "continue"

Sound(f, fs, H, p, n, c, T) ==
    /\ FramesOK(fs, p)
    /\ Sum(f, n, c, T, T \cup {c} \cup AllPromised(fs), {})
    /\ AllReserved(fs) \subseteq (1 .. n) \ (T \cup {c})
    /\ AllMentioned(fs) \subseteq 1 .. n
    /\ H \cup AllBack(fs) \subseteq T \cup {c} \cup AllPromised(fs)
    /\ c \in T => Last(fs).ended
    /\ fs[1].ended => StrayIn(p) \/ (f.blocks[c].code # <<>> /\ Last(f.blocks[c].code).op = "ret")

-----------------------------------------------------------------------------
(* What frames are known by: what they reserve, promise, go back to and    *)
(* mention, and how many of them a break leaves.                           *)
Framed(fs, p, R, P, B, M, k) ==
    /\ FramesOK(fs, p)
    /\ AllReserved(fs) = R /\ AllPromised(fs) = P /\ AllBack(fs) = B /\ AllMentioned(fs) = M
    /\ Cardinality(Breaking(fs)) = k

LEMMA FramesFacts ==
    ASSUME NEW fs, NEW p, FramesOK(fs, p)
    PROVE  /\ IsSeq(fs) /\ Len(fs) \in Nat \ {0} /\ DOMAIN fs = 1 .. Len(fs) /\ Last(fs) = fs[Len(fs)]
           /\ Len(fs) \in DOMAIN fs /\ 1 \in DOMAIN fs
           /\ FrameOK(Last(fs)) /\ IsFiniteSet(Breaking(fs))
<1>1. IsSeq(fs) /\ Len(fs) \in Nat \ {0} /\ DOMAIN fs = 1 .. Len(fs) /\ Last(fs) = fs[Len(fs)]
    BY SeqFacts DEF FramesOK, Last
<1>2. Len(fs) \in DOMAIN fs /\ 1 \in DOMAIN fs
    BY <1>1
<1>3. IsFiniteSet(1 .. Len(fs)) /\ Breaking(fs) \subseteq 1 .. Len(fs)
    <2>1. IsFiniteSet(1 .. Len(fs))
        BY <1>1, FS_Interval
    <2> QED
        BY <1>1, <2>1 DEF Breaking
<1>4. IsFiniteSet(Breaking(fs))
    BY <1>3, FS_Subset
<1> QED
    BY <1>1, <1>2, <1>4 DEF FramesOK

(* The innermost goes on.                                                  *)
LEMMA FrameGoesOn ==
    ASSUME NEW fs, NEW p, NEW R, NEW P, NEW B, NEW M, NEW k, Framed(fs, p, R, P, B, M, k),
           NEW gs, IsSeq(gs), Len(gs) = Len(fs), DOMAIN gs = DOMAIN fs,
           \A i \in DOMAIN fs : i # Len(fs) => gs[i] = fs[i],
           FrameOK(gs[Len(fs)]), gs[Len(fs)].after = fs[Len(fs)].after, gs[Len(fs)].body = fs[Len(fs)].body
    PROVE  Framed(gs, p, R, P, B, M, k)
<1>1. /\ IsSeq(fs) /\ Len(fs) \in Nat \ {0} /\ DOMAIN fs = 1 .. Len(fs)
      /\ Len(fs) \in DOMAIN fs /\ 1 \in DOMAIN fs
    BY FramesFacts DEF Framed
<1>2. \A i \in DOMAIN fs : gs[i].after = fs[i].after /\ gs[i].body = fs[i].body
    OBVIOUS
<1>3. AllReserved(gs) = R /\ AllPromised(gs) = P /\ AllBack(gs) = B /\ AllMentioned(gs) = M
    BY <1>2 DEF Framed, AllReserved, AllPromised, AllBack, AllMentioned
<1>4. Breaking(gs) = Breaking(fs)
    BY <1>2 DEF Breaking
<1>5. gs # <<>>
    BY <1>1, SeqFacts
<1>6. FramesOK(fs, p)
    BY DEF Framed
<1>7. \A i \in DOMAIN fs : FrameOK(gs[i])
    BY <1>6 DEF FramesOK
<1>8. FramesOK(gs, p)
    <2>1. \A i \in DOMAIN gs : FrameOK(gs[i]) /\ (gs[i].after.is = "function" <=> i = 1)
        BY <1>1, <1>2, <1>6, <1>7 DEF FramesOK
    <2>2. \A i \in DOMAIN gs : i # Len(gs) => ~gs[i].ended
        BY <1>6 DEF FramesOK
    <2>3. \A i, j \in DOMAIN gs : i # j => Reserved(gs[i].after) \cap Reserved(gs[j].after) = {}
        BY <1>2, <1>6 DEF FramesOK
    <2>4. gs[1].body = p.body
        BY <1>1, <1>2, <1>6 DEF FramesOK
    <2> QED
        BY <1>5, <2>1, <2>2, <2>3, <2>4 DEF FramesOK
<1> QED
    BY <1>3, <1>4, <1>8 DEF Framed

LEMMA FrameAdvances ==
    ASSUME NEW fs, NEW p, NEW R, NEW P, NEW B, NEW M, NEW k, Framed(fs, p, R, P, B, M, k)
    PROVE  /\ Framed([fs EXCEPT ![Len(fs)].next = @ + 1], p, R, P, B, M, k)
           /\ Last([fs EXCEPT ![Len(fs)].next = @ + 1]).ended = Last(fs).ended
           /\ Framed([fs EXCEPT ![Len(fs)].next = @ + 1, ![Len(fs)].ended = TRUE], p, R, P, B, M, k)
           /\ Last([fs EXCEPT ![Len(fs)].next = @ + 1, ![Len(fs)].ended = TRUE]).ended
<1>1. /\ IsSeq(fs) /\ Len(fs) \in Nat \ {0} /\ DOMAIN fs = 1 .. Len(fs)
      /\ Len(fs) \in DOMAIN fs /\ 1 \in DOMAIN fs /\ FrameOK(Last(fs)) /\ Last(fs) = fs[Len(fs)]
    BY FramesFacts DEF Framed
<1>2. PICK x : x = Last(fs)
    OBVIOUS
<1>3. /\ x = [body |-> x.body, next |-> x.next, ended |-> x.ended, after |-> x.after]
      /\ x.body \in Seq(Sentences) /\ x.next \in Nat \ {0} /\ x.ended \in BOOLEAN /\ AfterOK(x.after)
    BY <1>1, <1>2 DEF FrameOK
<1>4. PICK y : y = [body |-> x.body, next |-> x.next + 1, ended |-> x.ended, after |-> x.after]
    OBVIOUS
<1>5. PICK z : z = [body |-> x.body, next |-> x.next + 1, ended |-> TRUE, after |-> x.after]
    OBVIOUS
<1>6. FrameOK(y) /\ y.after = x.after /\ y.body = x.body /\ y.ended = x.ended
    BY <1>3, <1>4 DEF FrameOK
<1>7. FrameOK(z) /\ z.after = x.after /\ z.body = x.body /\ z.ended
    BY <1>3, <1>5 DEF FrameOK
<1>8. PICK gs : gs = [fs EXCEPT ![Len(fs)] = y]
    OBVIOUS
<1>9. PICK hs : hs = [fs EXCEPT ![Len(fs)] = z]
    OBVIOUS
<1>10. [fs EXCEPT ![Len(fs)].next = @ + 1] = gs
    <2>1. [x EXCEPT !.next = @ + 1] = y
        BY <1>3, <1>4
    <2>2. [fs EXCEPT ![Len(fs)].next = @ + 1] = [fs EXCEPT ![Len(fs)] = [x EXCEPT !.next = @ + 1]]
        BY <1>1, <1>2
    <2> QED
        BY <1>8, <2>1, <2>2
<1>11. [fs EXCEPT ![Len(fs)].next = @ + 1, ![Len(fs)].ended = TRUE] = hs
    <2>1. [y EXCEPT !.ended = TRUE] = z
        <3>1. PICK t : t = TRUE
            OBVIOUS
        <3>2. z = [body |-> x.body, next |-> x.next + 1, ended |-> t, after |-> x.after]
            BY <1>5, <3>1
        <3>3. [y EXCEPT !.ended = t] = z
            BY <1>4, <3>2
        <3> QED
            BY <3>1, <3>3
    <2>2. [fs EXCEPT ![Len(fs)].next = @ + 1, ![Len(fs)].ended = TRUE]
             = [gs EXCEPT ![Len(fs)] = [gs[Len(fs)] EXCEPT !.ended = TRUE]]
        BY <1>10
    <2>3. gs[Len(fs)] = y
        BY <1>1, <1>8
    <2>4. [gs EXCEPT ![Len(fs)] = z] = hs
        BY <1>8, <1>9
    <2> QED
        BY <2>1, <2>2, <2>3, <2>4
<1>12. /\ IsSeq(gs) /\ Len(gs) = Len(fs) /\ DOMAIN gs = DOMAIN fs
       /\ \A i \in DOMAIN fs : gs[i] = IF i = Len(fs) THEN y ELSE fs[i]
    BY <1>1, <1>8, ExceptAny
<1>13. /\ IsSeq(hs) /\ Len(hs) = Len(fs) /\ DOMAIN hs = DOMAIN fs
       /\ \A i \in DOMAIN fs : hs[i] = IF i = Len(fs) THEN z ELSE fs[i]
    BY <1>1, <1>9, ExceptAny
<1>14. Framed(gs, p, R, P, B, M, k) /\ Last(gs).ended = x.ended
    <2>1. gs[Len(fs)] = y /\ \A i \in DOMAIN fs : i # Len(fs) => gs[i] = fs[i]
        BY <1>1, <1>12
    <2>2. Framed(gs, p, R, P, B, M, k)
        BY <1>1, <1>2, <1>6, <1>12, <2>1, FrameGoesOn
    <2> QED
        BY <1>6, <1>12, <2>1, <2>2 DEF Last
<1>15. Framed(hs, p, R, P, B, M, k) /\ Last(hs).ended
    <2>1. hs[Len(fs)] = z /\ \A i \in DOMAIN fs : i # Len(fs) => hs[i] = fs[i]
        BY <1>1, <1>13
    <2>2. Framed(hs, p, R, P, B, M, k)
        BY <1>1, <1>2, <1>7, <1>13, <2>1, FrameGoesOn
    <2> QED
        BY <1>7, <1>13, <2>1, <2>2 DEF Last
<1> QED
    BY <1>2, <1>10, <1>11, <1>14, <1>15

(* Another is begun.                                                       *)
IsBreaking(a) == a.is \in {"loop if", "loop to", "loop"}

LEMMA FrameIsPushed ==
    ASSUME NEW fs, NEW p, NEW R, NEW P, NEW B, NEW M, NEW k, Framed(fs, p, R, P, B, M, k), ~Last(fs).ended,
           NEW x, FrameOK(x), x.after.is # "function", Reserved(x.after) \cap R = {}
    PROVE  /\ Framed(Append(fs, x), p, R \cup Reserved(x.after), P \cup Promised(x.after),
                   B \cup Back(x.after), M \cup Mentions(x.after), IF IsBreaking(x.after) THEN k + 1 ELSE k)
           /\ Last(Append(fs, x)) = x
<1>1. /\ IsSeq(fs) /\ Len(fs) \in Nat \ {0} /\ DOMAIN fs = 1 .. Len(fs)
      /\ Len(fs) \in DOMAIN fs /\ 1 \in DOMAIN fs /\ Last(fs) = fs[Len(fs)]
      /\ IsFiniteSet(Breaking(fs)) /\ FramesOK(fs, p)
    BY FramesFacts DEF Framed
<1>2. PICK gs : gs = Append(fs, x)
    OBVIOUS
<1>3. PICK m \in Nat \ {0} : m = Len(fs)
    BY <1>1
<1>4. /\ IsSeq(gs) /\ Len(gs) = m + 1 /\ DOMAIN gs = 1 .. m + 1 /\ gs[m + 1] = x
      /\ \A i \in 1 .. m : gs[i] = fs[i]
    BY <1>1, <1>2, <1>3, AppendAny
<1>5. /\ DOMAIN fs = 1 .. m /\ m + 1 \in DOMAIN gs /\ m + 1 \notin DOMAIN fs
      /\ \A i \in DOMAIN gs : i \in DOMAIN fs \/ i = m + 1
      /\ \A i \in DOMAIN fs : i \in DOMAIN gs /\ gs[i] = fs[i] /\ i # m + 1
    BY <1>1, <1>3, <1>4
<1>6. AllReserved(gs) = R \cup Reserved(x.after) /\ AllPromised(gs) = P \cup Promised(x.after)
    BY <1>4, <1>5 DEF Framed, AllReserved, AllPromised
<1>7. AllBack(gs) = B \cup Back(x.after) /\ AllMentioned(gs) = M \cup Mentions(x.after)
    BY <1>4, <1>5 DEF Framed, AllBack, AllMentioned
<1>8. Breaking(gs) = IF IsBreaking(x.after) THEN Breaking(fs) \cup {m + 1} ELSE Breaking(fs)
    BY <1>4, <1>5 DEF Breaking, IsBreaking
<1>9. m + 1 \notin Breaking(fs)
    BY <1>5 DEF Breaking
<1>10. Cardinality(Breaking(gs)) = IF IsBreaking(x.after) THEN k + 1 ELSE k
    BY <1>1, <1>8, <1>9, FS_AddElement DEF Framed
<1>11. FramesOK(gs, p)
    <2>1. gs # <<>> /\ gs[1].body = p.body
        BY <1>1, <1>4, <1>5, SeqFacts DEF FramesOK
    <2>2. \A i \in DOMAIN gs : FrameOK(gs[i]) /\ (gs[i].after.is = "function" <=> i = 1)
        <3>1. m + 1 # 1
            BY <1>3
        <3> QED
            BY <1>1, <1>4, <1>5, <3>1 DEF FramesOK
    <2>3. \A i \in DOMAIN gs : i # Len(gs) => ~gs[i].ended
        BY <1>1, <1>3, <1>4, <1>5 DEF FramesOK
    <2>4. \A i \in DOMAIN fs : Reserved(fs[i].after) \cap Reserved(x.after) = {}
        BY DEF Framed, AllReserved
    <2>5. \A i, j \in DOMAIN gs : i # j => Reserved(gs[i].after) \cap Reserved(gs[j].after) = {}
        <3> SUFFICES ASSUME NEW i \in DOMAIN gs, NEW j \in DOMAIN gs, i # j
                     PROVE  Reserved(gs[i].after) \cap Reserved(gs[j].after) = {}
            OBVIOUS
        <3>1. CASE i \in DOMAIN fs /\ j \in DOMAIN fs
            BY <1>1, <1>5, <3>1 DEF FramesOK
        <3>2. CASE i = m + 1 /\ j \in DOMAIN fs
            BY <1>4, <1>5, <2>4, <3>2
        <3>3. CASE i \in DOMAIN fs /\ j = m + 1
            BY <1>4, <1>5, <2>4, <3>3
        <3> QED
            BY <1>5, <3>1, <3>2, <3>3
    <2> QED
        BY <1>4, <2>1, <2>2, <2>3, <2>5 DEF FramesOK
<1>12. Last(gs) = x
    BY <1>4 DEF Last
<1> QED
    BY <1>2, <1>6, <1>7, <1>10, <1>11, <1>12 DEF Framed

(* The innermost is over.                                                  *)
LEMMA FrameIsPopped ==
    ASSUME NEW fs, NEW p, NEW R, NEW P, NEW B, NEW M, NEW k, Framed(fs, p, R, P, B, M, k),
           NEW a, a = Last(fs).after, a.is # "function"
    PROVE  /\ ~Last(Front(fs)).ended /\ k \in Nat
           /\ \E Q, O, C, N, j : /\ Framed(Front(fs), p, Q, O, C, N, j)
                                 /\ R = Q \cup Reserved(a) /\ Q \cap Reserved(a) = {}
                                 /\ P = O \cup Promised(a) /\ B = C \cup Back(a) /\ M = N \cup Mentions(a)
                                 /\ j \in Nat /\ k = IF IsBreaking(a) THEN j + 1 ELSE j
<1>1. /\ IsSeq(fs) /\ Len(fs) \in Nat \ {0} /\ DOMAIN fs = 1 .. Len(fs)
      /\ Len(fs) \in DOMAIN fs /\ 1 \in DOMAIN fs /\ Last(fs) = fs[Len(fs)]
      /\ IsFiniteSet(Breaking(fs)) /\ FramesOK(fs, p)
    BY FramesFacts DEF Framed
<1>2. PICK gs : gs = Front(fs)
    OBVIOUS
<1>3. PICK m \in Nat \ {0} : m + 1 = Len(fs)
    <2>1. Len(fs) # 1
        BY <1>1 DEF FramesOK
    <2>2. Len(fs) - 1 \in Nat \ {0} /\ (Len(fs) - 1) + 1 = Len(fs)
        BY <1>1, <2>1
    <2> QED
        BY <2>2
<1>4. IsSeq(gs) /\ Len(gs) = m /\ DOMAIN gs = 1 .. m /\ \A i \in 1 .. m : gs[i] = fs[i]
    <2>1. /\ IsSeq(gs) /\ Len(gs) = Len(fs) - 1 /\ DOMAIN gs = 1 .. Len(fs) - 1
          /\ \A i \in 1 .. Len(fs) - 1 : gs[i] = fs[i]
        BY <1>1, <1>2, FrontAny
    <2>2. Len(fs) - 1 = m
        BY <1>3
    <2> QED
        BY <2>1, <2>2
<1>5. /\ m + 1 \in DOMAIN fs /\ m + 1 \notin DOMAIN gs /\ fs[m + 1].after = a
      /\ \A i \in DOMAIN fs : i \in DOMAIN gs \/ i = m + 1
      /\ \A i \in DOMAIN gs : i \in DOMAIN fs /\ gs[i] = fs[i] /\ i # m + 1
    BY <1>1, <1>3, <1>4
<1>6. R = AllReserved(gs) \cup Reserved(a) /\ P = AllPromised(gs) \cup Promised(a)
    BY <1>5 DEF Framed, AllReserved, AllPromised
<1>7. B = AllBack(gs) \cup Back(a) /\ M = AllMentioned(gs) \cup Mentions(a)
    BY <1>5 DEF Framed, AllBack, AllMentioned
<1>8. Breaking(fs) = IF IsBreaking(a) THEN Breaking(gs) \cup {m + 1} ELSE Breaking(gs)
    BY <1>5 DEF Breaking, IsBreaking
<1>9. m + 1 \notin Breaking(gs) /\ Breaking(gs) \subseteq Breaking(fs)
    BY <1>5, <1>8 DEF Breaking
<1>10. IsFiniteSet(Breaking(gs)) /\ Cardinality(Breaking(gs)) \in Nat
    BY <1>1, <1>9, FS_Subset, FS_CardinalityType
<1>11. k = IF IsBreaking(a) THEN Cardinality(Breaking(gs)) + 1 ELSE Cardinality(Breaking(gs))
    BY <1>8, <1>9, <1>10, FS_AddElement DEF Framed
<1>12. FramesOK(gs, p)
    <2>1. gs # <<>> /\ gs[1].body = p.body
        BY <1>1, <1>3, <1>4, <1>5, SeqFacts DEF FramesOK
    <2>2. \A i \in DOMAIN gs : FrameOK(gs[i]) /\ (gs[i].after.is = "function" <=> i = 1)
        BY <1>1, <1>5 DEF FramesOK
    <2>3. \A i \in DOMAIN gs : ~gs[i].ended
        BY <1>1, <1>3, <1>5 DEF FramesOK
    <2>4. \A i, j \in DOMAIN gs : i # j => Reserved(gs[i].after) \cap Reserved(gs[j].after) = {}
        <3>1. \A i, j \in DOMAIN fs : i # j => Reserved(fs[i].after) \cap Reserved(fs[j].after) = {}
            BY <1>1 DEF FramesOK
        <3> QED
            BY <1>5, <3>1
    <2>5. IsSeq(gs)
        BY <1>4
    <2> QED
        BY ONLY <2>1, <2>2, <2>3, <2>4, <2>5 DEF FramesOK
<1>13. ~Last(gs).ended
    <2>1. m \in DOMAIN gs /\ m # Len(fs) /\ m \in DOMAIN fs
        BY <1>3, <1>4, <1>5
    <2> QED
        BY <1>1, <1>4, <1>5, <2>1 DEF Last, FramesOK
<1>14. AllReserved(gs) \cap Reserved(a) = {}
    <2>1. \A i \in DOMAIN gs : Reserved(fs[i].after) \cap Reserved(fs[m + 1].after) = {}
        BY <1>1, <1>5 DEF FramesOK
    <2>2. \A i \in DOMAIN gs : Reserved(gs[i].after) \cap Reserved(a) = {}
        BY <1>5, <2>1
    <2> QED
        BY <2>2 DEF AllReserved
<1>15. Framed(gs, p, AllReserved(gs), AllPromised(gs), AllBack(gs), AllMentioned(gs), Cardinality(Breaking(gs)))
    BY <1>12 DEF Framed
<1>16. k \in Nat
    BY <1>10, <1>11
<1> QED
    BY <1>2, <1>6, <1>7, <1>10, <1>11, <1>13, <1>14, <1>15, <1>16

-----------------------------------------------------------------------------
(* Within a step: the frames fs go on at the end of it.  Of the blocks W   *)
(* some may have been branched to that no frame promises to close; those   *)
(* of U are empty and no frame's.  Of the frames k are loops that breaks   *)
(* leave; the blocks of H must be closed in the end.                       *)
Amid(f, fs, n, c, T, W, U, p, H, k) ==
    \E R, P, B, M :
       /\ Framed(fs, p, R, P, B, M, k) /\ ~Last(fs).ended
       /\ Sum(f, n, c, T, W \cup T \cup P, {})
       /\ H \cup B \subseteq W \cup T \cup P
       /\ R \subseteq (1 .. n) \ (T \cup {c}) /\ U \subseteq (1 .. n) \ (T \cup {c} \cup R)
       /\ M \subseteq 1 .. n

(* Between steps.                                                          *)
Rests(f, fs, n, c, T, p, H, k) == Sound(f, fs, H, p, n, c, T) /\ Cardinality(Breaking(fs)) = k

LEMMA AmidFacts ==
    ASSUME NEW f, NEW fs, NEW n, NEW c, NEW T, NEW W, NEW U, NEW p, NEW H, NEW k,
           Amid(f, fs, n, c, T, W, U, p, H, k)
    PROVE  n \in Nat /\ c \in 1 .. n /\ U \subseteq (1 .. n) \ (T \cup {c}) /\ Current(f) = c /\ Len(f.blocks) = n
<1>1. PICK R, P, B, M :
        /\ Sum(f, n, c, T, W \cup T \cup P, {})
        /\ U \subseteq (1 .. n) \ (T \cup {c} \cup R)
    BY DEF Amid
<1>2. n \in Nat /\ c \in 1 .. n
    BY <1>1, SumFacts
<1>3. Current(f) = c /\ Len(f.blocks) = n
    BY <1>1 DEF Sum
<1> QED
    BY <1>1, <1>2, <1>3

(* What the blocks go through, with the same blocks current and closed.    *)
LEMMA SameAmid ==
    ASSUME NEW f, NEW fs, NEW n, NEW c, NEW T, NEW W, NEW U, NEW p, NEW H, NEW k,
           Amid(f, fs, n, c, T, W, U, p, H, k),
           NEW g, \A P : Sum(f, n, c, T, W \cup T \cup P, {}) => Sum(g, n, c, T, W \cup T \cup P, {})
    PROVE  Amid(g, fs, n, c, T, W, U, p, H, k)
    BY DEF Amid

LEMMA AmidCreate ==
    ASSUME NEW f, NEW fs, NEW n, NEW c, NEW T, NEW W, NEW U, NEW p, NEW H, NEW k,
           Amid(f, fs, n, c, T, W, U, p, H, k), NEW q \in 0 .. n
    PROVE  Amid(Create(f, q), fs, n + 1, c, T, W, U \cup {n + 1}, p, H, k) /\ Created(Create(f, q)) = n + 1
           /\ Created(f) = n
<1>1. PICK R, P, B, M :
       /\ Framed(fs, p, R, P, B, M, k) /\ ~Last(fs).ended
       /\ Sum(f, n, c, T, W \cup T \cup P, {})
       /\ H \cup B \subseteq W \cup T \cup P
       /\ R \subseteq (1 .. n) \ (T \cup {c}) /\ U \subseteq (1 .. n) \ (T \cup {c} \cup R)
       /\ M \subseteq 1 .. n
    BY DEF Amid
<1>2. Sum(Create(f, q), n + 1, c, T, W \cup T \cup P, {}) /\ Created(Create(f, q)) = n + 1
    BY <1>1, CreateKeeps
<1>3. n \in Nat /\ c \in 1 .. n /\ T \subseteq 1 .. n
    BY <1>1, SumFacts
<1>4. 1 .. n \subseteq 1 .. n + 1 /\ n + 1 \in 1 .. n + 1 /\ n + 1 \notin 1 .. n
    BY <1>3
<1>5. R \subseteq (1 .. n + 1) \ (T \cup {c}) /\ M \subseteq 1 .. n + 1
    BY <1>1, <1>4
<1>6. U \cup {n + 1} \subseteq (1 .. n + 1) \ (T \cup {c} \cup R)
    BY <1>1, <1>3, <1>4
<1>7. Amid(Create(f, q), fs, n + 1, c, T, W, U \cup {n + 1}, p, H, k)
    BY <1>1, <1>2, <1>5, <1>6 DEF Amid
<1>8. Created(f) = n
    BY <1>1 DEF Sum, Created
<1> QED
    BY <1>2, <1>7, <1>8

LEMMA AmidLink ==
    ASSUME NEW f, NEW fs, NEW n, NEW c, NEW T, NEW W, NEW U, NEW p, NEW H, NEW k,
           Amid(f, fs, n, c, T, W, U, p, H, k), NEW b \in 1 .. n, NEW before \in 1 .. n, before < b
    PROVE  Amid(Link(f, b, before), fs, n, c, T, W, U, p, H, k)
<1>1. \A P : Sum(f, n, c, T, W \cup T \cup P, {}) => Sum(Link(f, b, before), n, c, T, W \cup T \cup P, {})
    BY LinkKeeps
<1> QED
    BY <1>1, SameAmid

LEMMA AmidNewLocal ==
    ASSUME NEW f, NEW fs, NEW n, NEW c, NEW T, NEW W, NEW U, NEW p, NEW H, NEW k,
           Amid(f, fs, n, c, T, W, U, p, H, k), NEW b \in 1 .. n, NEW local
    PROVE  Amid(NewLocal(f, b, local), fs, n, c, T, W, U, p, H, k)
<1>1. \A P : Sum(f, n, c, T, W \cup T \cup P, {}) => Sum(NewLocal(f, b, local), n, c, T, W \cup T \cup P, {})
    BY NewLocalKeeps
<1> QED
    BY <1>1, SameAmid

LEMMA AmidOnLocal ==
    ASSUME NEW f, NEW fs, NEW n, NEW c, NEW T, NEW W, NEW U, NEW p, NEW H, NEW k,
           Amid(f, fs, n, c, T, W, U, p, H, k), c \notin T,
           NEW op, op \notin {"br", "cond", "ret"}, NEW l, NEW why
    PROVE  Amid(Emit(f, <<OnLocal(op, l, why)>>), fs, n, c, T, W, U, p, H, k)
<1>1. \A P : Sum(f, n, c, T, W \cup T \cup P, {})
          => Sum(Emit(f, <<OnLocal(op, l, why)>>), n, c, T, W \cup T \cup P, {})
    BY OnLocalKeeps
<1> QED
    BY <1>1, SameAmid

LEMMA AmidDestroy ==
    ASSUME NEW f, NEW fs, NEW n, NEW c, NEW T, NEW W, NEW U, NEW p, NEW H, NEW k,
           Amid(f, fs, n, c, T, W, U, p, H, k), NEW b \in 1 .. n
    PROVE  Amid(DestroyLocals(f, b), fs, n, c, T, W, U, p, H, k)
<1>1. \A P : Sum(f, n, c, T, W \cup T \cup P, {}) => Sum(DestroyLocals(f, b), n, c, T, W \cup T \cup P, {})
    BY DestroyLocalsKeeps
<1> QED
    BY <1>1, SameAmid

(* The current block is closed by branches to G; what was branched to is   *)
(* in V, closed or to be closed.                                           *)
LEMMA AmidCloses ==
    ASSUME NEW f, NEW fs, NEW n, NEW c, NEW T, NEW W, NEW U, NEW p, NEW H, NEW k,
           Amid(f, fs, n, c, T, W, U, p, H, k),
           NEW g, NEW G,
           \A O : Sum(f, n, c, T, O, {}) => Sum(g, n, c, T \cup {c}, O \cup G, {}),
           NEW V, W \cup G \subseteq V \cup T \cup {c} \cup H, W \subseteq V \cup T \cup {c}
    PROVE  Amid(g, fs, n, c, T \cup {c}, V, U, p, H, k)
<1>1. PICK R, P, B, M :
       /\ Framed(fs, p, R, P, B, M, k) /\ ~Last(fs).ended
       /\ Sum(f, n, c, T, W \cup T \cup P, {})
       /\ H \cup B \subseteq W \cup T \cup P
       /\ R \subseteq (1 .. n) \ (T \cup {c}) /\ U \subseteq (1 .. n) \ (T \cup {c} \cup R)
       /\ M \subseteq 1 .. n
    BY DEF Amid
<1>2. W \cup T \cup P \cup G \subseteq V \cup (T \cup {c}) \cup P
    BY <1>1
<1>3. Sum(g, n, c, T \cup {c}, W \cup T \cup P \cup G, {})
    BY <1>1
<1>4. Sum(g, n, c, T \cup {c}, V \cup (T \cup {c}) \cup P, {})
    BY <1>2, <1>3, WiderSum
<1>5. H \cup B \subseteq V \cup (T \cup {c}) \cup P
    BY <1>1
<1>6. /\ R \subseteq (1 .. n) \ ((T \cup {c}) \cup {c})
      /\ U \subseteq (1 .. n) \ ((T \cup {c}) \cup {c} \cup R)
    BY <1>1
<1> QED
    BY <1>1, <1>4, <1>5, <1>6 DEF Amid

LEMMA AmidBranch ==
    ASSUME NEW f, NEW fs, NEW n, NEW c, NEW T, NEW W, NEW U, NEW p, NEW H, NEW k,
           Amid(f, fs, n, c, T, W, U, p, H, k),
           NEW b, NEW V, b \in V \cup T \cup {c} \cup H, W \subseteq V \cup T \cup {c}
    PROVE  Amid(AddBranch(f, b), fs, n, c, T \cup {c}, V, U, p, H, k)
<1>1. \A O : Sum(f, n, c, T, O, {}) => Sum(AddBranch(f, b), n, c, T \cup {c}, O \cup {b}, {})
    BY AddBranchKeeps
<1>2. W \cup {b} \subseteq V \cup T \cup {c} \cup H
    OBVIOUS
<1> QED
    BY <1>1, <1>2, AmidCloses

LEMMA AmidCondBr ==
    ASSUME NEW f, NEW fs, NEW n, NEW c, NEW T, NEW W, NEW U, NEW p, NEW H, NEW k,
           Amid(f, fs, n, c, T, W, U, p, H, k), c \notin T,
           NEW yes, NEW no, NEW known, NEW V, LiveOf(CondBr(yes, no, known)) \subseteq V \cup T \cup {c} \cup H,
           W \subseteq V \cup T \cup {c}
    PROVE  Amid(Emit(f, <<CondBr(yes, no, known)>>), fs, n, c, T \cup {c}, V, U, p, H, k)
<1>1. PICK x : x = CondBr(yes, no, known)
    OBVIOUS
<1>2. x.op \in {"br", "cond", "ret"}
    BY <1>1 DEF CondBr, Instr
<1>3. \A O : Sum(f, n, c, T, O, {}) => Sum(Emit(f, <<x>>), n, c, T \cup {c}, O \cup LiveOf(x), {})
    BY <1>2, EndsWith
<1>4. W \cup LiveOf(x) \subseteq V \cup T \cup {c} \cup H
    BY <1>1
<1>5. Amid(Emit(f, <<x>>), fs, n, c, T \cup {c}, V, U, p, H, k)
    BY <1>3, <1>4, AmidCloses
<1> QED
    BY <1>1, <1>5

(* Where the two ways of a conditional branch go.                          *)
LEMMA BothLive ==
    ASSUME NEW yes, NEW no, NEW known
    PROVE  /\ LiveOf(CondBr(yes, no, known)) \subseteq {yes, no}
           /\ known = "true" => LiveOf(CondBr(yes, no, known)) = {yes}
    BY DEF LiveOf, CondBr, Instr

LEMMA AmidSetActive ==
    ASSUME NEW f, NEW fs, NEW n, NEW c, NEW T, NEW W, NEW U, NEW p, NEW H, NEW k,
           Amid(f, fs, n, c, T, W, U, p, H, k), NEW b \in U
    PROVE  Amid(SetActive(f, b), fs, n, b, T, W, U \ {b}, p, H, k) /\ b \notin T /\ b \in 1 .. n
<1>1. PICK R, P, B, M :
       /\ Framed(fs, p, R, P, B, M, k) /\ ~Last(fs).ended
       /\ Sum(f, n, c, T, W \cup T \cup P, {})
       /\ H \cup B \subseteq W \cup T \cup P
       /\ R \subseteq (1 .. n) \ (T \cup {c}) /\ U \subseteq (1 .. n) \ (T \cup {c} \cup R)
       /\ M \subseteq 1 .. n
    BY DEF Amid
<1>2. b \in 1 .. n /\ b \notin T /\ b \notin R
    BY <1>1
<1>3. Sum(SetActive(f, b), n, b, T, W \cup T \cup P, {})
    BY <1>1, <1>2, SetActiveKeeps
<1>4. R \subseteq (1 .. n) \ (T \cup {b}) /\ U \ {b} \subseteq (1 .. n) \ (T \cup {b} \cup R)
    BY <1>1, <1>2
<1>5. PICK S : S = U \ {b}
    OBVIOUS
<1>6. /\ Framed(fs, p, R, P, B, M, k) /\ ~Last(fs).ended
      /\ Sum(SetActive(f, b), n, b, T, W \cup T \cup P, {})
      /\ H \cup B \subseteq W \cup T \cup P
      /\ R \subseteq (1 .. n) \ (T \cup {b}) /\ S \subseteq (1 .. n) \ (T \cup {b} \cup R)
      /\ M \subseteq 1 .. n
    BY <1>1, <1>3, <1>4, <1>5
<1>7. PICK g : g = SetActive(f, b)
    OBVIOUS
<1>8. Amid(g, fs, n, b, T, W, S, p, H, k)
    BY ONLY <1>6, <1>7 DEF Amid
<1>9. Amid(SetActive(f, b), fs, n, b, T, W, U \ {b}, p, H, k)
    BY <1>5, <1>7, <1>8
<1> QED
    BY <1>2, <1>9

(* A sentence begins: the frame has gone on to the next one.               *)
LEMMA SentenceBegins ==
    ASSUME NEW f, NEW fs, NEW n, NEW c, NEW T, NEW p, NEW H, NEW k, Rests(f, fs, n, c, T, p, H, k),
           ~Last(fs).ended
    PROVE  Amid(f, [fs EXCEPT ![Len(fs)].next = @ + 1], n, c, T, {c}, {}, p, H, k) /\ c \notin T /\ c \in 1 .. n
<1>1. PICK R, P, B, M : Framed(fs, p, R, P, B, M, k)
    BY DEF Rests, Sound, Framed
<1>2. PICK gs : gs = [fs EXCEPT ![Len(fs)].next = @ + 1]
    OBVIOUS
<1>3. Framed(gs, p, R, P, B, M, k) /\ ~Last(gs).ended
    BY <1>1, <1>2, FrameAdvances
<1>4. /\ Sum(f, n, c, T, T \cup {c} \cup P, {}) /\ R \subseteq (1 .. n) \ (T \cup {c})
      /\ M \subseteq 1 .. n /\ H \cup B \subseteq T \cup {c} \cup P /\ c \notin T
    BY <1>1 DEF Rests, Sound, Framed
<1>5. {c} \cup T \cup P = T \cup {c} \cup P
    OBVIOUS
<1>6. Sum(f, n, c, T, {c} \cup T \cup P, {}) /\ H \cup B \subseteq {c} \cup T \cup P
    BY <1>4, <1>5
<1>7. c \in 1 .. n
    BY <1>4, SumFacts
<1>8. {} \subseteq (1 .. n) \ (T \cup {c} \cup R)
    OBVIOUS
<1>9. Amid(f, gs, n, c, T, {c}, {}, p, H, k)
    BY ONLY <1>3, <1>4, <1>6, <1>8 DEF Amid
<1> QED
    BY <1>2, <1>4, <1>7, <1>9

(* The sentences go on.                                                    *)
LEMMA SentencesGoOn ==
    ASSUME NEW f, NEW fs, NEW n, NEW c, NEW T, NEW W, NEW U, NEW p, NEW H, NEW k,
           Amid(f, fs, n, c, T, W, U, p, H, k), c \notin T, W \subseteq {c} \cup T,
           NEW J, J \subseteq H \cup {c} \cup T
    PROVE  Rests(f, fs, n, c, T, p, J, k)
<1>1. PICK R, P, B, M :
       /\ Framed(fs, p, R, P, B, M, k) /\ ~Last(fs).ended
       /\ Sum(f, n, c, T, W \cup T \cup P, {})
       /\ H \cup B \subseteq W \cup T \cup P
       /\ R \subseteq (1 .. n) \ (T \cup {c}) /\ U \subseteq (1 .. n) \ (T \cup {c} \cup R)
       /\ M \subseteq 1 .. n
    BY DEF Amid
<1>2. W \cup T \cup P \subseteq T \cup {c} \cup P
    OBVIOUS
<1>3. Sum(f, n, c, T, T \cup {c} \cup P, {})
    BY <1>1, <1>2, WiderSum
<1>4. ~fs[1].ended
    BY <1>1, FramesFacts DEF Framed, FramesOK
<1>5. J \cup B \subseteq T \cup {c} \cup P
    BY <1>1
<1>6. Sound(f, fs, J, p, n, c, T)
    BY <1>1, <1>3, <1>4, <1>5 DEF Sound, Framed
<1> QED
    BY <1>1, <1>6 DEF Rests, Framed

(* The sentences within another begin in the current block.                *)
LEMMA BodyBegins ==
    ASSUME NEW f, NEW fs, NEW n, NEW c, NEW T, NEW W, NEW U, NEW p, NEW H, NEW k,
           Amid(f, fs, n, c, T, W, U, p, H, k), c \notin T,
           NEW x, FrameOK(x), ~x.ended, x.after.is # "function",
           Reserved(x.after) \subseteq U, Mentions(x.after) \subseteq 1 .. n,
           W \cup Back(x.after) \subseteq {c} \cup T \cup Promised(x.after),
           NEW J, J \subseteq H \cup {c} \cup T \cup Promised(x.after)
    PROVE  Rests(f, Append(fs, x), n, c, T, p, J, IF IsBreaking(x.after) THEN k + 1 ELSE k)
<1>1. PICK R, P, B, M :
       /\ Framed(fs, p, R, P, B, M, k) /\ ~Last(fs).ended
       /\ Sum(f, n, c, T, W \cup T \cup P, {})
       /\ H \cup B \subseteq W \cup T \cup P
       /\ R \subseteq (1 .. n) \ (T \cup {c}) /\ U \subseteq (1 .. n) \ (T \cup {c} \cup R)
       /\ M \subseteq 1 .. n
    BY DEF Amid
<1>2. PICK Q, O, C, N, j, gs :
        /\ Q = R \cup Reserved(x.after) /\ O = P \cup Promised(x.after)
        /\ C = B \cup Back(x.after) /\ N = M \cup Mentions(x.after)
        /\ j = (IF IsBreaking(x.after) THEN k + 1 ELSE k) /\ gs = Append(fs, x)
    OBVIOUS
<1>3. Reserved(x.after) \cap R = {}
    BY <1>1
<1>4. Framed(gs, p, Q, O, C, N, j) /\ Last(gs) = x
    <2>1. /\ Framed(Append(fs, x), p, R \cup Reserved(x.after), P \cup Promised(x.after),
                   B \cup Back(x.after), M \cup Mentions(x.after), IF IsBreaking(x.after) THEN k + 1 ELSE k)
          /\ Last(Append(fs, x)) = x
        BY <1>1, <1>3, FrameIsPushed, ZenonT(60)
    <2> QED
        BY ONLY <1>2, <2>1
<1>5. W \cup T \cup P \subseteq T \cup {c} \cup O
    BY <1>2
<1>6. Sum(f, n, c, T, T \cup {c} \cup O, {})
    BY <1>1, <1>5, WiderSum
<1>7. Q \subseteq (1 .. n) \ (T \cup {c}) /\ N \subseteq 1 .. n
    BY <1>1, <1>2
<1>8. J \cup C \subseteq T \cup {c} \cup O
    <2>1. B \subseteq T \cup {c} \cup O /\ H \subseteq T \cup {c} \cup O
        BY <1>1, <1>5
    <2>2. Back(x.after) \subseteq T \cup {c} \cup O /\ Promised(x.after) \subseteq O
        BY <1>2
    <2> QED
        BY <1>2, <2>1, <2>2
<1>9. ~gs[1].ended
    BY <1>4, FramesFacts DEF Framed, FramesOK
<1>10. Sound(f, gs, J, p, n, c, T)
    BY <1>4, <1>6, <1>7, <1>8, <1>9 DEF Sound, Framed
<1> QED
    BY <1>2, <1>4, <1>10 DEF Rests, Framed

(* The sentences within another are over.                                  *)
LEMMA BodyEnds ==
    ASSUME NEW f, NEW fs, NEW n, NEW c, NEW T, NEW p, NEW H, NEW k, Rests(f, fs, n, c, T, p, H, k),
           NEW a, a = Last(fs).after, a.is # "function"
    PROVE  \E j : /\ Amid(f, Front(fs), n, c, T, {c} \cup Promised(a), Reserved(a), p, H \cup Back(a), j)
                  /\ j \in Nat /\ k = IF IsBreaking(a) THEN j + 1 ELSE j
                  /\ Mentions(a) \subseteq 1 .. n /\ AfterOK(a)
<1>1. PICK R, P, B, M : Framed(fs, p, R, P, B, M, k)
    BY DEF Rests, Sound, Framed
<1>2. /\ Sum(f, n, c, T, T \cup {c} \cup P, {}) /\ R \subseteq (1 .. n) \ (T \cup {c})
      /\ M \subseteq 1 .. n /\ H \cup B \subseteq T \cup {c} \cup P
    BY <1>1 DEF Rests, Sound, Framed
<1>3. PICK Q, O, C, N, j :
        /\ Framed(Front(fs), p, Q, O, C, N, j) /\ ~Last(Front(fs)).ended
        /\ R = Q \cup Reserved(a) /\ Q \cap Reserved(a) = {}
        /\ P = O \cup Promised(a) /\ B = C \cup Back(a) /\ M = N \cup Mentions(a)
        /\ j \in Nat /\ k = IF IsBreaking(a) THEN j + 1 ELSE j
    BY <1>1, FrameIsPopped
<1>4. T \cup {c} \cup P = ({c} \cup Promised(a)) \cup T \cup O
    BY <1>3
<1>5. PICK W, U, J, gs : W = {c} \cup Promised(a) /\ U = Reserved(a) /\ J = H \cup Back(a) /\ gs = Front(fs)
    OBVIOUS
<1>6. /\ Framed(gs, p, Q, O, C, N, j) /\ ~Last(gs).ended
      /\ Sum(f, n, c, T, W \cup T \cup O, {})
      /\ J \cup C \subseteq W \cup T \cup O
      /\ Q \subseteq (1 .. n) \ (T \cup {c}) /\ U \subseteq (1 .. n) \ (T \cup {c} \cup Q)
      /\ N \subseteq 1 .. n
    <2>1. Sum(f, n, c, T, W \cup T \cup O, {})
        BY <1>2, <1>4, <1>5
    <2>2. J \cup C \subseteq W \cup T \cup O
        BY <1>2, <1>3, <1>4, <1>5
    <2>3. U \subseteq (1 .. n) \ (T \cup {c} \cup Q)
        BY <1>2, <1>3, <1>5
    <2> QED
        BY <1>2, <1>3, <1>5, <2>1, <2>2, <2>3
<1>7. Amid(f, gs, n, c, T, W, U, p, J, j)
    BY ONLY <1>6 DEF Amid
<1>8. AfterOK(a)
    BY <1>1, FramesFacts DEF Framed, FrameOK
<1>9. Mentions(a) \subseteq 1 .. n
    BY <1>2, <1>3
<1> QED
    BY <1>3, <1>5, <1>7, <1>8, <1>9

-----------------------------------------------------------------------------
(* What an if or a match comes to.                                         *)
Lands(o, p, H, k) == \E n, c, T : Rests(o.fn, o.frames, n, c, T, p, H, k)

LEMMA AmidSeq ==
    ASSUME NEW f, NEW fs, NEW n, NEW c, NEW T, NEW W, NEW U, NEW p, NEW H, NEW k,
           Amid(f, fs, n, c, T, W, U, p, H, k)
    PROVE  IsSeq(fs)
<1>1. PICK R, P, B, M : Framed(fs, p, R, P, B, M, k)
    BY DEF Amid
<1> QED
    BY <1>1 DEF Framed, FramesOK

LEMMA ConcatOne ==
    ASSUME NEW s, IsSeq(s), NEW x
    PROVE  s \o <<>> = s /\ s \o <<x>> = Append(s, x)
<1>1. s \o <<>> = s
    BY DEF IsSeq
<1>2. PICK S : S = ToSet(s) \cup {x}
    OBVIOUS
<1>3. s \in Seq(S) /\ x \in S
    <2>1. s \in Seq(ToSet(s)) /\ ToSet(s) \subseteq S
        BY <1>2 DEF IsSeq
    <2> QED
        BY <1>2, <2>1, SeqMonotonic
<1> QED
    BY <1>1, <1>3

LEMMA OutcomeIs ==
    ASSUME NEW f, NEW fs, IsSeq(fs), NEW x
    PROVE  /\ Outcome(f, fs, <<>>) = [fn |-> f, frames |-> fs]
           /\ Outcome(f, fs, <<x>>) = [fn |-> f, frames |-> Append(fs, x)]
    BY ConcatOne DEF Outcome

LEMMA LandsAlone ==
    ASSUME NEW f, NEW fs, IsSeq(fs), NEW n, NEW c, NEW T, NEW p, NEW H, NEW k, Rests(f, fs, n, c, T, p, H, k)
    PROVE  Lands(Outcome(f, fs, <<>>), p, H, k)
<1>1. PICK o : o = Outcome(f, fs, <<>>)
    OBVIOUS
<1>2. o = [fn |-> f, frames |-> fs]
    BY <1>1, OutcomeIs
<1>3. o.fn = f /\ o.frames = fs
    BY ONLY <1>2
<1> QED
    BY <1>1, <1>3 DEF Lands

LEMMA LandsWith ==
    ASSUME NEW f, NEW fs, IsSeq(fs), NEW x, NEW n, NEW c, NEW T, NEW p, NEW H, NEW k,
           Rests(f, Append(fs, x), n, c, T, p, H, k)
    PROVE  Lands(Outcome(f, fs, <<x>>), p, H, k)
<1>1. PICK o : o = Outcome(f, fs, <<x>>)
    OBVIOUS
<1>2. o = [fn |-> f, frames |-> Append(fs, x)]
    BY <1>1, OutcomeIs
<1>3. o.fn = f /\ o.frames = Append(fs, x)
    BY ONLY <1>2
<1> QED
    BY <1>1, <1>3 DEF Lands

LEMMA ArmsFacts ==
    ASSUME NEW snt \in Sentences, snt.is \in {"if", "match"}
    PROVE  /\ Len(snt.arms) \in Nat /\ DOMAIN snt.arms = 1 .. Len(snt.arms)
           /\ \A i \in 1 .. Len(snt.arms) : /\ snt.arms[i].body \in Seq(Sentences)
                                           /\ snt.arms[i].cond \in {"unknown", "true", "false"}
           /\ snt.orElse # <<>> => snt.orElse[1] \in Seq(Sentences)
<1>1. snt.arms \in Seq(ToSet(snt.arms))
    BY SentencesAssumption
<1>2. Len(snt.arms) \in Nat /\ DOMAIN snt.arms = 1 .. Len(snt.arms)
    BY <1>1, LenProperties
<1>3. \A i \in DOMAIN snt.arms : /\ snt.arms[i].body \in Seq(Sentences)
                                 /\ snt.arms[i].cond \in {"unknown", "true", "false"}
    BY SentencesAssumption
<1>4. snt.orElse # <<>> => snt.orElse[1] \in Seq(Sentences)
    BY SentencesAssumption
<1> QED
    BY <1>2, <1>3, <1>4

LEMMA FrameBegins ==
    ASSUME NEW body \in Seq(Sentences), NEW a, AfterOK(a), NEW x, x = Frame(body, a)
    PROVE  FrameOK(x) /\ x.ended = FALSE /\ x.after = a
<1>1. PICK t : t = FALSE
    OBVIOUS
<1>2. x = [body |-> body, next |-> 1, ended |-> t, after |-> a]
    BY <1>1 DEF Frame
<1>3. x.body = body /\ x.next = 1 /\ x.ended = t /\ x.after = a
    BY <1>2
<1>4. x = [body |-> x.body, next |-> x.next, ended |-> x.ended, after |-> x.after]
    BY <1>2, <1>3
<1>5. x.ended = FALSE /\ x.ended \in BOOLEAN
    BY <1>1, <1>3
<1>6. x.body \in Seq(Sentences) /\ x.next \in Nat \ {0} /\ AfterOK(x.after)
    BY <1>3
<1> QED
    BY <1>3, <1>4, <1>5, <1>6 DEF FrameOK

(* The sentences of an arm, and those of an else.                          *)
ArmBegins(x, snt, i, block, otherwise, rest, curr) ==
    /\ FrameOK(x) /\ ~x.ended /\ x.after.is = "arm" /\ ~IsBreaking(x.after)
    /\ Reserved(x.after) = {rest} \cup ({otherwise} \ {0})
    /\ Promised(x.after) = IF snt.arms[i].cond = "true" THEN {rest} ELSE {rest} \cup ({otherwise} \ {0})
    /\ Back(x.after) = {} /\ Mentions(x.after) = {block} \cup ({curr} \ {0})

LEMMA ArmFrameFacts ==
    ASSUME NEW snt \in Sentences, snt.is \in {"if", "match"}, NEW i \in 1 .. Len(snt.arms),
           NEW block, NEW otherwise, NEW rest, NEW curr, rest # otherwise,
           \/ /\ snt.is = "if"
              /\ ~FalseTill(snt, i + 1) /\ ~TrueKnownBefore(snt, i)
              /\ otherwise = 0 =>
                    TrueKnownBefore(snt, i + 1) \/ (i = Len(snt.arms) /\ snt.orElse = <<>>)
           \/ /\ snt.is = "match"
              /\ curr # 0
              /\ otherwise = 0 => i = Len(snt.arms) /\ snt.orElse = <<>>,
           NEW x, x = ArmFrame(snt, i, block, otherwise, rest, curr)
    PROVE  ArmBegins(x, snt, i, block, otherwise, rest, curr)
<1>1. PICK a : a = [is |-> "arm", snt |-> snt, i |-> i, block |-> block,
                    otherwise |-> otherwise, rest |-> rest, curr |-> curr]
    OBVIOUS
<1>2. /\ a.is = "arm" /\ a.snt = snt /\ a.i = i /\ a.block = block /\ a.otherwise = otherwise
      /\ a.rest = rest /\ a.curr = curr
    BY <1>1
<1>3. i \in DOMAIN snt.arms /\ snt.arms[i].body \in Seq(Sentences)
    BY ArmsFacts
<1>4. ArmOK(a)
    BY <1>2, <1>3 DEF ArmOK
<1>5. x = Frame(snt.arms[i].body, a) /\ AfterOK(a)
    BY <1>1, <1>2, <1>4 DEF ArmFrame, AfterOK
<1>6. FrameOK(x) /\ x.ended = FALSE /\ x.after = a
    BY <1>3, <1>5, FrameBegins
<1>7. /\ Reserved(a) = {rest} \cup ({otherwise} \ {0})
      /\ Promised(a) = IF snt.arms[i].cond = "true" THEN {rest} ELSE {rest} \cup ({otherwise} \ {0})
    BY <1>2 DEF Reserved, Promised
<1>8. Back(a) = {} /\ Mentions(a) = {block} \cup ({curr} \ {0}) /\ ~IsBreaking(a)
    BY <1>2 DEF Back, Mentions, IsBreaking, Loops
<1> QED
    BY <1>2, <1>6, <1>7, <1>8 DEF ArmBegins

ElseBegins(x, is, block, rest) ==
    /\ FrameOK(x) /\ ~x.ended /\ x.after.is = is /\ ~IsBreaking(x.after)
    /\ Reserved(x.after) = {rest} /\ Promised(x.after) = {rest}
    /\ Back(x.after) = {} /\ Mentions(x.after) = IF is = "else" THEN {block} ELSE {}

LEMMA ElseFrameFacts ==
    ASSUME NEW snt \in Sentences, snt.is \in {"if", "match"}, snt.orElse # <<>>,
           NEW is \in {"else", "bare else"}, NEW block, NEW rest,
           NEW x, x = ElseFrame(is, snt, block, rest)
    PROVE  ElseBegins(x, is, block, rest)
<1>1. PICK a : a = [is |-> is, block |-> block, rest |-> rest]
    OBVIOUS
<1>2. a.is = is /\ a.block = block /\ a.rest = rest
    BY <1>1
<1>3. PICK body \in Seq(Sentences) : body = snt.orElse[1]
    BY ArmsFacts
<1>4. AfterOK(a)
    BY <1>2 DEF AfterOK
<1>5. x = Frame(body, a)
    BY <1>1, <1>3 DEF ElseFrame
<1>6. FrameOK(x) /\ x.ended = FALSE /\ x.after = a
    BY ONLY <1>3, <1>4, <1>5, FrameBegins
<1>7. Reserved(a) = {rest} /\ Promised(a) = {rest}
    BY <1>2 DEF Reserved, Promised
<1>8. Back(a) = {} /\ Mentions(a) = (IF is = "else" THEN {block} ELSE {}) /\ ~IsBreaking(a)
    BY <1>2 DEF Back, Mentions, IsBreaking, Loops
<1> QED
    BY <1>2, <1>6, <1>7, <1>8 DEF ElseBegins

(* The block after it becomes current.                                     *)
LEMMA FinishLands ==
    ASSUME NEW f, NEW fs, NEW n, NEW c, NEW T, NEW W, NEW U, NEW p, NEW H, NEW k,
           Amid(f, fs, n, c, T, W, U, p, H, k), NEW rest \in U, W \subseteq {rest} \cup T
    PROVE  Lands(Finish(f, fs, rest), p, H, k)
<1>1. Amid(SetActive(f, rest), fs, n, rest, T, W, U \ {rest}, p, H, k) /\ rest \notin T
    BY AmidSetActive
<1>2. Rests(SetActive(f, rest), fs, n, rest, T, p, H, k)
    BY <1>1, SentencesGoOn
<1> QED
    BY <1>2, AmidSeq, LandsAlone DEF Finish

LEMMA BranchAndFinish ==
    ASSUME NEW f, NEW fs, NEW n, NEW c, NEW T, NEW W, NEW U, NEW p, NEW H, NEW k,
           Amid(f, fs, n, c, T, W, U, p, H, k), NEW rest \in U, W \subseteq {c, rest}
    PROVE  Lands(Finish(AddBranch(f, rest), fs, rest), p, H, k)
<1>1. Amid(AddBranch(f, rest), fs, n, c, T \cup {c}, {rest}, U, p, H, k)
    BY AmidBranch
<1> QED
    BY <1>1, FinishLands

LEMMA NewBlockIsNew ==
    ASSUME NEW f, NEW fs, NEW n, NEW c, NEW T, NEW W, NEW U, NEW p, NEW H, NEW k,
           Amid(f, fs, n, c, T, W, U, p, H, k)
    PROVE  /\ Created(Create(f, Current(f))) = n + 1 /\ Created(f) = n
           /\ n + 1 \notin T \cup {c} /\ n + 1 \in 1 .. n + 1 /\ n + 1 # 0
<1>1. n \in Nat /\ c \in 0 .. n /\ c \in 1 .. n /\ Current(f) = c
    BY AmidFacts
<1>2. Created(Create(f, c)) = n + 1 /\ Created(f) = n
    BY <1>1, AmidCreate
<1>3. T \subseteq 1 .. n
    <2>1. PICK P : Sum(f, n, c, T, W \cup T \cup P, {})
        BY DEF Amid
    <2> QED
        BY <2>1, SumFacts
<1>4. n + 1 \notin 1 .. n /\ n + 1 \in 1 .. n + 1 /\ n + 1 # 0
    BY <1>1
<1> QED
    BY <1>1, <1>2, <1>3, <1>4

(* A new block becomes current, after a branch to it.                      *)
LEMMA NewBlockWithin ==
    ASSUME NEW f, NEW fs, NEW n, NEW c, NEW T, NEW W, NEW U, NEW p, NEW H, NEW k,
           Amid(f, fs, n, c, T, W, U, p, H, k), NEW rest \in U, W \subseteq {c, rest},
           NEW m, m = n + 1, NEW parent \in 0 .. n,
           NEW g, g = SetActive(AddBranch(Create(f, parent), m), m), NEW V, V = {m, rest}
    PROVE  Amid(g, fs, m, m, T \cup {c}, V, U, p, H, k) /\ Created(Create(f, parent)) = m
<1>1. n \in Nat /\ c \in 1 .. n /\ U \subseteq (1 .. n) \ (T \cup {c})
    BY AmidFacts
<1>2. /\ Amid(Create(f, parent), fs, n + 1, c, T, W, U \cup {n + 1}, p, H, k)
      /\ Created(Create(f, parent)) = n + 1
    BY <1>1, AmidCreate
<1>3. PICK h, S : h = Create(f, parent) /\ S = U \cup {m}
    OBVIOUS
<1>4. Amid(h, fs, m, c, T, W, S, p, H, k)
    BY <1>2, <1>3
<1>5. m \in V \cup T \cup {c} \cup H /\ W \subseteq V \cup T \cup {c}
    BY <1>3
<1>6. Amid(AddBranch(h, m), fs, m, c, T \cup {c}, V, S, p, H, k)
    BY <1>4, <1>5, AmidBranch
<1>7. m \in S
    BY <1>3
<1>8. Amid(SetActive(AddBranch(h, m), m), fs, m, m, T \cup {c}, V, S \ {m}, p, H, k)
    BY <1>6, <1>7, AmidSetActive
<1>9. U = S \ {m}
    BY <1>1, <1>3
<1> QED
    BY <1>2, <1>3, <1>8, <1>9

LEMMA NewBlockIsCurrent ==
    ASSUME NEW f, NEW fs, NEW n, NEW c, NEW T, NEW W, NEW U, NEW p, NEW H, NEW k,
           Amid(f, fs, n, c, T, W, U, p, H, k), NEW rest \in U, W \subseteq {c, rest},
           NEW m, m = n + 1, NEW g, g = SetActive(AddBranch(Create(f, Current(f)), m), m), NEW V, V = {m, rest}
    PROVE  Amid(g, fs, m, m, T \cup {c}, V, U, p, H, k)
<1>1. PICK q : q = c
    OBVIOUS
<1>2. q \in 0 .. n /\ Current(f) = q
    BY <1>1, AmidFacts
<1>3. g = SetActive(AddBranch(Create(f, q), m), m)
    BY <1>2
<1>4. Amid(f, fs, n, c, T, W, U, p, H, k) /\ rest \in U /\ W \subseteq {c, rest} /\ m = n + 1 /\ V = {m, rest}
    OBVIOUS
<1> QED
    BY ONLY <1>2, <1>3, <1>4, NewBlockWithin

LEMMA IfEndLands ==
    ASSUME NEW f, NEW fs, NEW n, NEW c, NEW T, NEW W, NEW U, NEW p, NEW H, NEW k,
           Amid(f, fs, n, c, T, W, U, p, H, k), NEW rest, U = {rest}, W \subseteq {c, rest},
           NEW snt \in Sentences, snt.is = "if",
           TrueKnownBefore(snt, Len(snt.arms) + 1) => W \subseteq {rest} \cup T,
           c \in T => snt.orElse = <<>> \/ TrueKnownBefore(snt, Len(snt.arms) + 1)
    PROVE  Lands(IfEnd(f, fs, snt, rest), p, H, k)
<1>1. rest \in U
    OBVIOUS
<1>6. IsSeq(fs)
    BY AmidSeq
<1>7. snt \in Sentences /\ snt.is \in {"if", "match"}
    OBVIOUS
<1>2. CASE snt.orElse = <<>>
    BY <1>1, <1>2, BranchAndFinish DEF IfEnd
<1>3. CASE snt.orElse # <<>> /\ FalseTill(snt, Len(snt.arms) + 1)
    <2>1. PICK m, g, V, x : /\ m = n + 1 /\ g = SetActive(AddBranch(Create(f, Current(f)), m), m)
                            /\ V = {m, rest} /\ x = ElseFrame("else", snt, m, rest)
        OBVIOUS
    <2>2. /\ Created(Create(f, Current(f))) = m
          /\ Amid(g, fs, m, m, T \cup {c}, V, U, p, H, k)
          /\ m \notin T \cup {c} /\ m \in 1 .. m
        <3>1. Amid(f, fs, n, c, T, W, U, p, H, k) /\ rest \in U /\ W \subseteq {c, rest} /\ m = n + 1
            BY <1>1, <2>1
        <3>2. g = SetActive(AddBranch(Create(f, Current(f)), m), m) /\ V = {m, rest}
            BY <2>1
        <3>3. Amid(g, fs, m, m, T \cup {c}, V, U, p, H, k)
            BY ONLY <3>1, <3>2, NewBlockIsCurrent
        <3> QED
            BY <2>1, <3>3, NewBlockIsNew
    <2>3. /\ FrameOK(x) /\ ~x.ended /\ x.after.is # "function" /\ ~IsBreaking(x.after)
          /\ Reserved(x.after) = {rest} /\ Promised(x.after) = {rest}
          /\ Back(x.after) = {} /\ Mentions(x.after) = {m}
        <3>1. PICK is \in {"else", "bare else"} : is = "else"
            OBVIOUS
        <3>2. x = ElseFrame(is, snt, m, rest)
            BY <2>1, <3>1
        <3>3. ElseBegins(x, is, m, rest)
            BY ONLY <1>3, <1>7, <3>1, <3>2, ElseFrameFacts
        <3> QED
            BY ONLY <3>1, <3>3 DEF ElseBegins
    <2>7. Reserved(x.after) \subseteq U /\ Mentions(x.after) \subseteq 1 .. m
        BY <2>2, <2>3
    <2>8. V \cup Back(x.after) \subseteq {m} \cup (T \cup {c}) \cup Promised(x.after)
        BY <2>1, <2>3
    <2>4. Rests(g, Append(fs, x), m, m, T \cup {c}, p, H, k)
        BY ONLY <2>2, <2>3, <2>7, <2>8, BodyBegins
    <2>5. IfEnd(f, fs, snt, rest) = Outcome(g, fs, <<x>>)
        BY <1>3, <2>1, <2>2 DEF IfEnd
    <2> QED
        BY <1>6, <2>4, <2>5, LandsWith
<1>4. CASE snt.orElse # <<>> /\ ~FalseTill(snt, Len(snt.arms) + 1) /\ TrueKnownBefore(snt, Len(snt.arms) + 1)
    BY <1>1, <1>4, FinishLands DEF IfEnd
<1>5. CASE snt.orElse # <<>> /\ ~FalseTill(snt, Len(snt.arms) + 1) /\ ~TrueKnownBefore(snt, Len(snt.arms) + 1)
    <2>1. PICK x : x = ElseFrame("bare else", snt, 0, rest)
        OBVIOUS
    <2>2. /\ FrameOK(x) /\ ~x.ended /\ x.after.is # "function" /\ ~IsBreaking(x.after)
          /\ Reserved(x.after) = {rest} /\ Promised(x.after) = {rest}
          /\ Back(x.after) = {} /\ Mentions(x.after) = {}
        <3>1. PICK is \in {"else", "bare else"} : is = "bare else"
            OBVIOUS
        <3>4. PICK b : b = 0
            OBVIOUS
        <3>2. x = ElseFrame(is, snt, b, rest)
            BY <2>1, <3>1, <3>4
        <3>3. ElseBegins(x, is, b, rest)
            BY ONLY <1>5, <1>7, <3>1, <3>2, ElseFrameFacts
        <3> QED
            BY ONLY <3>1, <3>3 DEF ElseBegins
    <2>3. c \notin T
        BY <1>5
    <2>4. Rests(f, Append(fs, x), n, c, T, p, H, k)
        BY <2>2, <2>3, BodyBegins
    <2>5. IfEnd(f, fs, snt, rest) = Outcome(f, fs, <<x>>)
        BY <1>5, <2>1 DEF IfEnd
    <2> QED
        BY <1>6, <2>4, <2>5, LandsWith
<1> QED
    BY <1>2, <1>3, <1>4, <1>5

(* A block for the arm, and one for what comes after it.                   *)
LEMMA BranchingLands ==
    ASSUME NEW f, NEW fs, NEW n, NEW c, NEW T, NEW W, NEW U, NEW p, NEW H, NEW k,
           Amid(f, fs, n, c, T, W, U, p, H, k), c \notin T,
           NEW rest, U = {rest}, W \subseteq {c, rest},
           NEW snt \in Sentences, NEW i \in 1 .. Len(snt.arms), NEW parent \in 1 .. n, NEW curr \in 0 .. n,
           \/ snt.is = "if" /\ ~FalseTill(snt, i + 1) /\ ~TrueKnownBefore(snt, i)
           \/ snt.is = "match" /\ curr # 0
    PROVE  Lands(Branching(f, fs, snt, i, rest, parent, curr), p, H, k)
<1>1. /\ n \in Nat /\ c \in 1 .. n /\ parent \in 0 .. n /\ rest \in 1 .. n /\ rest # 0
      /\ snt.is \in {"if", "match"} /\ IsSeq(fs) /\ curr \in Nat
    BY AmidFacts, AmidSeq
<1>2. PICK m, q : m = n + 1 /\ q = n + 2
    OBVIOUS
<1>3. /\ m \in Nat /\ m \in 1 .. m /\ m \in 1 .. q /\ m # rest /\ m # 0 /\ q # 0 /\ m # q /\ rest # q
      /\ parent \in 0 .. m /\ curr \in 0 .. m /\ q = m + 1
    BY <1>1, <1>2
<1>4. PICK t : t = Create(f, parent)
    OBVIOUS
<1>5. Amid(t, fs, m, c, T, W, U \cup {m}, p, H, k) /\ Created(t) = m
    <2>1. /\ Amid(Create(f, parent), fs, n + 1, c, T, W, U \cup {n + 1}, p, H, k)
          /\ Created(Create(f, parent)) = n + 1
        BY <1>1, AmidCreate
    <2> QED
        BY <1>2, <1>4, <2>1
<1>6. PICK known : known = snt.arms[i].cond
    OBVIOUS
<1>7. CASE i = Len(snt.arms) /\ snt.orElse = <<>>
    <2>1. PICK V, S, b : V = {m, rest} /\ S = U \cup {m} /\ b = 0
        OBVIOUS
    <2>2. PICK g : g = Emit(t, <<CondBr(m, rest, known)>>)
        OBVIOUS
    <2>3. LiveOf(CondBr(m, rest, known)) \subseteq V \cup T \cup {c} \cup H /\ W \subseteq V \cup T \cup {c}
        BY <2>1, BothLive
    <2>4. Amid(g, fs, m, c, T \cup {c}, V, S, p, H, k)
        BY <1>5, <2>1, <2>2, <2>3, AmidCondBr
    <2>5. Amid(SetActive(g, m), fs, m, m, T \cup {c}, V, S \ {m}, p, H, k) /\ m \notin T \cup {c}
        <3>1. m \in S
            BY <2>1
        <3> QED
            BY <2>4, <3>1, AmidSetActive
    <2>6. PICK x : x = ArmFrame(snt, i, m, b, rest, curr)
        OBVIOUS
    <2>7. ArmBegins(x, snt, i, m, b, rest, curr)
        BY <1>1, <1>7, <2>1, <2>6, ArmFrameFacts
    <2>8. /\ FrameOK(x) /\ ~x.ended /\ x.after.is = "arm" /\ ~IsBreaking(x.after)
          /\ Reserved(x.after) = {rest} /\ Promised(x.after) = {rest}
          /\ Back(x.after) = {} /\ Mentions(x.after) = {m} \cup ({curr} \ {0})
        BY <2>1, <2>7 DEF ArmBegins
    <2>9. Reserved(x.after) \subseteq S \ {m} /\ Mentions(x.after) \subseteq 1 .. m
        BY <1>1, <1>3, <2>1, <2>8
    <2>10. V \cup Back(x.after) \subseteq {m} \cup (T \cup {c}) \cup Promised(x.after)
        BY <2>1, <2>8
    <2>11. H \subseteq H \cup {m} \cup (T \cup {c}) \cup Promised(x.after) /\ x.after.is # "function"
        BY <2>8
    <2>12. Rests(SetActive(g, m), Append(fs, x), m, m, T \cup {c}, p, H, k)
        BY ONLY <2>5, <2>8, <2>9, <2>10, <2>11, BodyBegins, ZenonT(60)
    <2>13. Branching(f, fs, snt, i, rest, parent, curr) = Outcome(SetActive(g, m), fs, <<x>>)
        BY <1>4, <1>5, <1>6, <1>7, <2>1, <2>2, <2>6 DEF Branching
    <2> QED
        BY <1>1, <2>12, <2>13, LandsWith
<1>8. CASE ~(i = Len(snt.arms) /\ snt.orElse = <<>>)
    <2>1. PICK V, S : V = {m, rest} \cup (IF known = "true" THEN {} ELSE {q}) /\ S = U \cup {m} \cup {q}
        OBVIOUS
    <2>2. PICK d : d = Create(t, parent)
        OBVIOUS
    <2>3. Amid(d, fs, q, c, T, W, S, p, H, k) /\ Created(d) = q
        BY <1>3, <1>5, <2>1, <2>2, AmidCreate
    <2>4. PICK g : g = Emit(d, <<CondBr(m, q, known)>>)
        OBVIOUS
    <2>5. LiveOf(CondBr(m, q, known)) \subseteq V \cup T \cup {c} \cup H /\ W \subseteq V \cup T \cup {c}
        BY <2>1, BothLive
    <2>6. Amid(g, fs, q, c, T \cup {c}, V, S, p, H, k)
        BY <2>3, <2>4, <2>5, AmidCondBr
    <2>7. Amid(SetActive(g, m), fs, q, m, T \cup {c}, V, S \ {m}, p, H, k) /\ m \notin T \cup {c}
        BY <2>1, <2>6, AmidSetActive
    <2>8. PICK x : x = ArmFrame(snt, i, m, q, rest, curr)
        OBVIOUS
    <2>9. ArmBegins(x, snt, i, m, q, rest, curr)
        BY <1>1, <1>3, <2>8, ArmFrameFacts
    <2>10. /\ FrameOK(x) /\ ~x.ended /\ x.after.is = "arm" /\ ~IsBreaking(x.after)
           /\ Reserved(x.after) = {rest, q}
           /\ Promised(x.after) = (IF known = "true" THEN {rest} ELSE {rest, q})
           /\ Back(x.after) = {} /\ Mentions(x.after) = {m} \cup ({curr} \ {0})
        BY <1>3, <1>6, <2>9 DEF ArmBegins
    <2>11. Reserved(x.after) \subseteq S \ {m} /\ Mentions(x.after) \subseteq 1 .. q
        BY <1>1, <1>3, <2>1, <2>10
    <2>12. V \cup Back(x.after) \subseteq {m} \cup (T \cup {c}) \cup Promised(x.after)
        BY <2>1, <2>10
    <2>13. H \subseteq H \cup {m} \cup (T \cup {c}) \cup Promised(x.after) /\ x.after.is # "function"
        BY <2>10
    <2>14. Rests(SetActive(g, m), Append(fs, x), q, m, T \cup {c}, p, H, k)
        BY ONLY <2>7, <2>10, <2>11, <2>12, <2>13, BodyBegins, ZenonT(60)
    <2>15. Branching(f, fs, snt, i, rest, parent, curr) = Outcome(SetActive(g, m), fs, <<x>>)
        BY <1>4, <1>5, <1>6, <1>8, <2>2, <2>3, <2>4, <2>8 DEF Branching
    <2> QED
        BY <1>1, <2>14, <2>15, LandsWith
<1> QED
    BY <1>7, <1>8

LEMMA IfArmLands ==
    ASSUME NEW f, NEW fs, NEW n, NEW c, NEW T, NEW W, NEW U, NEW p, NEW H, NEW k,
           Amid(f, fs, n, c, T, W, U, p, H, k),
           NEW rest, U = {rest}, W \subseteq {c, rest},
           NEW snt \in Sentences, snt.is = "if", NEW i \in 1 .. Len(snt.arms) + 1,
           TrueKnownBefore(snt, i) => W \subseteq {rest} \cup T,
           c \in T => TrueKnownBefore(snt, i) \/ (i = Len(snt.arms) + 1 /\ snt.orElse = <<>>),
           i <= Len(snt.arms) /\ FalseTill(snt, i) => snt.arms[i].cond # "false"
    PROVE  Lands(IfArm(f, fs, snt, i, rest), p, H, k)
<1>1. /\ n \in Nat /\ c \in 1 .. n /\ Current(f) = c /\ rest \in 1 .. n /\ rest # 0 /\ IsSeq(fs)
      /\ Len(snt.arms) \in Nat /\ i \in Nat /\ rest \in U
    BY AmidFacts, AmidSeq, ArmsFacts
<1>2. CASE i > Len(snt.arms) \/ TrueKnownBefore(snt, i)
    <2>1. TrueKnownBefore(snt, i) => TrueKnownBefore(snt, Len(snt.arms) + 1)
        BY <1>1 DEF TrueKnownBefore
    <2>2. i > Len(snt.arms) => i = Len(snt.arms) + 1
        BY <1>1
    <2>3. TrueKnownBefore(snt, Len(snt.arms) + 1) => W \subseteq {rest} \cup T
        BY <1>2, <2>2
    <2>4. c \in T => snt.orElse = <<>> \/ TrueKnownBefore(snt, Len(snt.arms) + 1)
        BY <2>1
    <2> QED
        BY <1>2, <2>3, <2>4, IfEndLands DEF IfArm
<1>3. CASE ~(i > Len(snt.arms) \/ TrueKnownBefore(snt, i))
    <2>1. i \in 1 .. Len(snt.arms) /\ i + 1 \in Nat /\ c \notin T
        BY <1>1, <1>3
    <2>2. snt.arms[i].cond \in {"unknown", "true", "false"}
        BY <2>1, ArmsFacts
    <2>3. FalseTill(snt, i + 1) => FalseTill(snt, i) /\ snt.arms[i].cond = "false"
        <3>1. \A j \in 1 .. i - 1 : j \in 1 .. (i + 1) - 1
            BY <1>1
        <3>2. i \in 1 .. (i + 1) - 1
            BY <2>1
        <3> QED
            BY <3>1, <3>2 DEF FalseTill
    <2>4. ~FalseTill(snt, i + 1)
        BY <2>1, <2>3
    <2>5. CASE Known(snt, i) /\ FalseTill(snt, i)
        <3>1. snt.arms[i].cond = "true"
            BY <2>1, <2>2, <2>5 DEF Known
        <3>2. TrueKnownBefore(snt, i + 1)
            <4>1. i \in 1 .. (i + 1) - 1
                BY <2>1
            <4> QED
                BY <3>1, <4>1 DEF TrueKnownBefore
        <3>3. PICK m, g, V, z : /\ m = n + 1 /\ g = SetActive(AddBranch(Create(f, Current(f)), m), m)
                                /\ V = {m, rest} /\ z = 0
            OBVIOUS
        <3>4. Amid(f, fs, n, c, T, W, U, p, H, k) /\ rest \in U /\ W \subseteq {c, rest} /\ m = n + 1
            BY <1>1, <3>3
        <3>5. g = SetActive(AddBranch(Create(f, Current(f)), m), m) /\ V = {m, rest}
            BY <3>3
        <3>6. Amid(g, fs, m, m, T \cup {c}, V, U, p, H, k)
            BY ONLY <3>4, <3>5, NewBlockIsCurrent
        <3>7. /\ Created(Create(f, Current(f))) = m
              /\ m \notin T \cup {c} /\ m \in 1 .. m /\ m # 0
            BY <3>3, NewBlockIsNew
        <3>8. PICK x : x = ArmFrame(snt, i, m, z, rest, z)
            OBVIOUS
        <3>9. ArmBegins(x, snt, i, m, z, rest, z)
            BY <1>1, <1>3, <2>1, <2>4, <3>2, <3>3, <3>8, ArmFrameFacts
        <3>10. /\ FrameOK(x) /\ ~x.ended /\ x.after.is = "arm" /\ ~IsBreaking(x.after)
               /\ Reserved(x.after) = {rest} /\ Promised(x.after) = {rest}
               /\ Back(x.after) = {} /\ Mentions(x.after) = {m}
            BY <3>3, <3>9 DEF ArmBegins
        <3>11. Reserved(x.after) \subseteq U /\ Mentions(x.after) \subseteq 1 .. m
            BY <3>7, <3>10
        <3>12. V \cup Back(x.after) \subseteq {m} \cup (T \cup {c}) \cup Promised(x.after)
            BY <3>3, <3>10
        <3>13. H \subseteq H \cup {m} \cup (T \cup {c}) \cup Promised(x.after) /\ x.after.is # "function"
            BY <3>10
        <3>14. m \notin T \cup {c}
            BY <3>7
        <3>15. Rests(g, Append(fs, x), m, m, T \cup {c}, p, H, k)
            BY ONLY <3>6, <3>14, <3>10, <3>11, <3>12, <3>13, BodyBegins
        <3>16. IfArm(f, fs, snt, i, rest) = Outcome(g, fs, <<x>>)
            BY <1>3, <2>5, <3>3, <3>7, <3>8 DEF IfArm
        <3> QED
            BY <1>1, <3>15, <3>16, LandsWith
    <2>6. CASE ~(Known(snt, i) /\ FalseTill(snt, i))
        <3>1. PICK z : z = 0
            OBVIOUS
        <3>2. c \in 1 .. n /\ z \in 0 .. n
            BY <1>1, <3>1
        <3>3. Lands(Branching(f, fs, snt, i, rest, c, z), p, H, k)
            BY <1>3, <2>1, <2>4, <3>2, BranchingLands
        <3> QED
            BY <1>1, <1>3, <2>6, <3>1, <3>3 DEF IfArm
    <2> QED
        BY <2>5, <2>6
<1> QED
    BY <1>2, <1>3

LEMMA MatchEndLands ==
    ASSUME NEW f, NEW fs, NEW n, NEW c, NEW T, NEW W, NEW U, NEW p, NEW H, NEW k,
           Amid(f, fs, n, c, T, W, U, p, H, k),
           NEW rest, U = {rest}, W \subseteq {c, rest}, NEW curr \in 1 .. n,
           NEW snt \in Sentences, snt.is = "match", c \in T => snt.orElse = <<>>
    PROVE  Lands(MatchEnd(f, fs, snt, rest, curr), p, H, k)
<1>1. n \in Nat /\ c \in 1 .. n /\ Current(f) = c /\ rest \in U /\ IsSeq(fs)
    BY AmidFacts, AmidSeq
<1>2. CASE snt.exhaustive \/ snt.orElse = <<>>
    BY <1>1, <1>2, BranchAndFinish DEF MatchEnd
<1>3. CASE ~(snt.exhaustive \/ snt.orElse = <<>>)
    <2>1. PICK m, g, V : /\ m = n + 1 /\ g = SetActive(AddBranch(Create(f, curr), m), m)
                         /\ V = {m, rest}
        OBVIOUS
    <2>2. curr \in 0 .. n
        BY <1>1
    <2>3. Amid(g, fs, m, m, T \cup {c}, V, U, p, H, k) /\ Created(Create(f, curr)) = m
        <3>1. Amid(f, fs, n, c, T, W, U, p, H, k) /\ rest \in U /\ W \subseteq {c, rest}
            BY <1>1
        <3> QED
            BY ONLY <3>1, <2>1, <2>2, NewBlockWithin
    <2>4. m \notin T \cup {c} /\ m \in 1 .. m
        BY <2>1, NewBlockIsNew
    <2>5. PICK x, is : x = ElseFrame(is, snt, m, rest) /\ is = "else"
        OBVIOUS
    <2>6. snt \in Sentences /\ snt.is \in {"if", "match"} /\ snt.orElse # <<>> /\ is \in {"else", "bare else"}
        BY <1>3, <2>5
    <2>7. ElseBegins(x, is, m, rest)
        BY ONLY <2>5, <2>6, ElseFrameFacts
    <2>8. /\ FrameOK(x) /\ ~x.ended /\ x.after.is # "function" /\ ~IsBreaking(x.after)
          /\ Reserved(x.after) = {rest} /\ Promised(x.after) = {rest}
          /\ Back(x.after) = {} /\ Mentions(x.after) = {m}
        BY ONLY <2>5, <2>7 DEF ElseBegins
    <2>9. Reserved(x.after) \subseteq U /\ Mentions(x.after) \subseteq 1 .. m
        BY <1>1, <2>4, <2>8
    <2>10. V \cup Back(x.after) \subseteq {m} \cup (T \cup {c}) \cup Promised(x.after)
        BY <2>1, <2>8
    <2>11. Rests(g, Append(fs, x), m, m, T \cup {c}, p, H, k)
        BY ONLY <2>3, <2>4, <2>8, <2>9, <2>10, BodyBegins
    <2>12. MatchEnd(f, fs, snt, rest, curr) = Outcome(g, fs, <<x>>)
        BY <1>3, <2>1, <2>3, <2>5 DEF MatchEnd, MatchElse
    <2> QED
        BY <1>1, <2>11, <2>12, LandsWith
<1> QED
    BY <1>2, <1>3

-----------------------------------------------------------------------------
(* The inductive invariant.  While blocks are emitted: the first block and *)
(* those that the records lead to will be closed, there is a record in     *)
(* breakables for each loop that a break leaves, and one in loopsInfo.     *)
Due == {1} \cup JumpedTo(loopsInfo, breakables)

Going(f, fs, p, loops, breaks) ==
    /\ \E n, c, T : Rests(f, fs, n, c, T, p, {1} \cup JumpedTo(loops, breaks), Len(breaks))
    /\ IsSeq(loops) /\ IsSeq(breaks) /\ Len(breaks) <= Len(loops)

EmitInv == Going(fn, frames, program, loopsInfo, breakables)

(* During the run: the rest of the block has a terminator, and so has      *)
(* every block that is branched to.                                        *)
Closed(f) ==
    \A b \in DOMAIN f.blocks :
       /\ IsSeq(f.blocks[b].code)
       /\ \A i \in DOMAIN f.blocks[b].code : LiveOf(f.blocks[b].code[i]) \subseteq Terminated(f)
Runs(f, b, i) ==
    /\ Closed(f) /\ b \in DOMAIN f.blocks /\ i \in Nat \ {0}
    /\ \E j \in DOMAIN f.blocks[b].code : i <= j /\ f.blocks[b].code[j].op \in Terminators

RunInv == at = [block |-> at.block, next |-> at.next] /\ Runs(fn, at.block, at.next)

OneEnds(f) == \A b \in DOMAIN f.blocks : OneEnd(f.blocks[b].code)

IInv ==
    /\ program \in Programs
    /\ phase = "emit" => EmitInv
    /\ phase = "run" => RunInv
    /\ ~StrayContinue => OneEnds(fn)

(* What a step of the emission does: it fails, or the invariant goes on.   *)
Kept ==
    \/ phase' \in {"error", "crash"} /\ program' = program /\ fn' = fn
    \/ phase' = phase /\ program' = program /\ Going(fn', frames', program, loopsInfo', breakables')

LEMMA BlocksHaveOneEnd ==
    ASSUME NEW f, NEW fs, NEW p, NEW loops, NEW breaks, Going(f, fs, p, loops, breaks)
    PROVE  OneEnds(f)
<1>1. PICK n, c, T, H, k : Rests(f, fs, n, c, T, p, H, k)
    BY DEF Going
<1>2. PICK G : Sum(f, n, c, T, G, {})
    BY <1>1 DEF Rests, Sound
<1>3. DOMAIN f.blocks = 1 .. n
    BY <1>2, Parts
<1>4. \A b \in (1 .. n) \ {} : OneEnd(f.blocks[b].code)
    BY <1>2 DEF Sum
<1> QED
    BY <1>3, <1>4 DEF OneEnds

LEMMA Failing ==
    ASSUME NEW how \in {"error", "crash"}, Fail(how)
    PROVE  Kept
    BY DEF Fail, Kept, emitVars

LEMMA GoingOn ==
    ASSUME EmitInv, NEW f, NEW fs, Go(f, fs), NEW n, NEW c, NEW T,
           Rests(f, fs, n, c, T, program, Due, Len(breakables))
    PROVE  Kept
<1>1. /\ fn' = f /\ frames' = fs /\ phase' = phase /\ loopsInfo' = loopsInfo
      /\ breakables' = breakables /\ program' = program
    BY DEF Go, Still
<1>2. Going(f, fs, program, loopsInfo, breakables)
    BY DEF EmitInv, Going, Due
<1> QED
    BY <1>1, <1>2 DEF Kept

(* The sentence that is next.                                              *)
LEMMA NextSentence ==
    ASSUME EmitInv, InBody
    PROVE  /\ Snt \in Sentences /\ ~Last(frames).ended
           /\ \E n, c, T : /\ Rests(fn, frames, n, c, T, program, Due, Len(breakables))
                           /\ Amid(fn, Advanced, n, c, T, {c}, {}, program, Due, Len(breakables))
                           /\ c \notin T /\ c \in 1 .. n /\ Here = c /\ Len(fn.blocks) = n
<1>1. PICK n, c, T : Rests(fn, frames, n, c, T, program, Due, Len(breakables))
    BY DEF EmitInv, Going, Due
<1>2. ~Last(frames).ended
    BY DEF InBody, Top
<1>3. /\ Amid(fn, [frames EXCEPT ![Len(frames)].next = @ + 1], n, c, T, {c}, {}, program, Due, Len(breakables))
      /\ c \notin T /\ c \in 1 .. n
    BY <1>1, <1>2, SentenceBegins
<1>4. Amid(fn, Advanced, n, c, T, {c}, {}, program, Due, Len(breakables))
    BY <1>3 DEF Advanced
<1>5. Here = c /\ Len(fn.blocks) = n
    BY <1>4, AmidFacts DEF Here
<1>6. FrameOK(Top)
    BY <1>1, FramesFacts DEF Rests, Sound, Top
<1>7. Top.body \in Seq(Sentences) /\ Top.next \in Nat \ {0} /\ Top.next <= Len(Top.body)
    BY <1>6 DEF FrameOK, InBody
<1>8. Snt \in Sentences
    <2>1. PICK body \in Seq(Sentences), q \in Nat \ {0} : body = Top.body /\ q = Top.next /\ q <= Len(body)
        BY <1>7
    <2>2. q \in 1 .. Len(body) /\ Len(body) \in Nat
        BY <2>1, LenProperties
    <2>3. body[q] \in Sentences
        BY <2>2, ElementOfSeq
    <2> QED
        BY <2>1, <2>3 DEF Snt
<1> QED
    BY <1>1, <1>2, <1>3, <1>4, <1>5, <1>8

(* A sentence that leaves the current block open.                          *)
LEMMA SentenceIsDone ==
    ASSUME EmitInv, NEW f, Go(f, Advanced), NEW n, NEW c, NEW T, c \notin T,
           Amid(f, Advanced, n, c, T, {c}, {}, program, Due, Len(breakables))
    PROVE  Kept
<1>1. Rests(f, Advanced, n, c, T, program, Due, Len(breakables))
    BY SentencesGoOn
<1> QED
    BY <1>1, GoingOn

LEMMA AmidMoved ==
    ASSUME NEW f, NEW fs, NEW n, NEW c, NEW T, NEW W, NEW U, NEW p, NEW H, NEW k,
           Amid(f, fs, n, c, T, W, U, p, H, k), c \notin T, NEW from
    PROVE  Amid(Moved(f, from), fs, n, c, T, W, U, p, H, k)
    BY AmidOnLocal DEF Moved

-----------------------------------------------------------------------------
(* The sentences without others.                                           *)
LEMMA LetIsKept ==
    ASSUME EmitInv, LocalDeclaration
    PROVE  Kept
<1>1. InBody
    BY DEF LocalDeclaration, At
<1>2. PICK n, c, T : /\ Amid(fn, Advanced, n, c, T, {c}, {}, program, Due, Len(breakables))
                     /\ c \notin T /\ c \in 1 .. n /\ Here = c
    BY <1>1, NextSentence
<1>3. CASE Fail("error")
    BY <1>3, Failing
<1>4. CASE ~Fail("error")
    <2>1. PICK f, new, l : /\ f = Moved(fn, Snt.from) /\ l = Local(Snt.name, "local", Site)
                           /\ new = NewLocal(f, Here, l)
        OBVIOUS
    <2>2. PICK g : g = Emit(new, <<OnLocal("init", Len(new.locals), "")>>)
        OBVIOUS
    <2>3. Go(g, Advanced)
        BY <1>4, <2>1, <2>2 DEF LocalDeclaration
    <2>4. Amid(f, Advanced, n, c, T, {c}, {}, program, Due, Len(breakables))
        BY <1>2, <2>1, AmidMoved
    <2>5. Amid(new, Advanced, n, c, T, {c}, {}, program, Due, Len(breakables))
        BY <1>2, <2>1, <2>4, AmidNewLocal
    <2>6. Amid(g, Advanced, n, c, T, {c}, {}, program, Due, Len(breakables))
        BY <1>2, <2>2, <2>5, AmidOnLocal
    <2> QED
        BY <1>2, <2>3, <2>6, SentenceIsDone
<1> QED
    BY <1>3, <1>4

LEMMA UseIsKept ==
    ASSUME EmitInv, UseEntity \/ MoveEntity
    PROVE  Kept
<1>1. InBody
    BY DEF UseEntity, MoveEntity, At
<1>2. PICK n, c, T : /\ Amid(fn, Advanced, n, c, T, {c}, {}, program, Due, Len(breakables))
                     /\ c \notin T /\ c \in 1 .. n /\ Here = c
    BY <1>1, NextSentence
<1>3. CASE Fail("error")
    BY <1>3, Failing
<1>4. CASE ~Fail("error") /\ UseEntity
    <2>1. PICK g : g = Emit(fn, <<OnLocal("use", LocalOf(Snt.name), "")>>)
        OBVIOUS
    <2>2. Go(g, Advanced)
        BY <1>4, <2>1 DEF UseEntity
    <2>3. Amid(g, Advanced, n, c, T, {c}, {}, program, Due, Len(breakables))
        BY <1>2, <2>1, AmidOnLocal
    <2> QED
        BY <1>2, <2>2, <2>3, SentenceIsDone
<1>5. CASE ~Fail("error") /\ MoveEntity
    <2>1. PICK g : g = Moved(fn, Snt.name)
        OBVIOUS
    <2>2. Go(g, Advanced)
        BY <1>5, <2>1 DEF MoveEntity
    <2>3. Amid(g, Advanced, n, c, T, {c}, {}, program, Due, Len(breakables))
        BY <1>2, <2>1, AmidMoved
    <2> QED
        BY <1>2, <2>2, <2>3, SentenceIsDone
<1> QED
    BY <1>3, <1>4, <1>5

LEMMA AssignmentIsKept ==
    ASSUME EmitInv, Assignment
    PROVE  Kept
<1>1. InBody
    BY DEF Assignment, At
<1>2. PICK n, c, T : /\ Amid(fn, Advanced, n, c, T, {c}, {}, program, Due, Len(breakables))
                     /\ c \notin T /\ c \in 1 .. n /\ Here = c
    BY <1>1, NextSentence
<1>3. CASE Fail("error")
    BY <1>3, Failing
<1>4. CASE ~Fail("error")
    <2>1. PICK f, g : f = Emit(fn, <<OnLocal("init", LocalOf(Snt.name), "assign")>>) /\ g = Moved(f, Snt.from)
        OBVIOUS
    <2>2. Go(g, Advanced)
        BY <1>4, <2>1 DEF Assignment
    <2>3. Amid(f, Advanced, n, c, T, {c}, {}, program, Due, Len(breakables))
        BY <1>2, <2>1, AmidOnLocal
    <2>4. Amid(g, Advanced, n, c, T, {c}, {}, program, Due, Len(breakables))
        BY <1>2, <2>1, <2>3, AmidMoved
    <2> QED
        BY <1>2, <2>2, <2>4, SentenceIsDone
<1> QED
    BY <1>3, <1>4

(* A sentence that ends its body: the current block is closed.             *)
LEMMA BodyIsCut ==
    ASSUME NEW f, NEW fs, NEW n, NEW c, NEW T, NEW p, NEW H, NEW k, Rests(f, fs, n, c, T, p, H, k),
           ~Last(fs).ended,
           NEW g, Sum(g, n, c, T \cup {c}, T \cup {c} \cup AllPromised(fs), {}),
           Len(fs) = 1 => StrayIn(p) \/ (g.blocks[c].code # <<>> /\ Last(g.blocks[c].code).op = "ret"),
           NEW hs, hs = [fs EXCEPT ![Len(fs)].next = @ + 1, ![Len(fs)].ended = TRUE]
    PROVE  Rests(g, hs, n, c, T \cup {c}, p, H, k)
<1>1. PICK R, P, B, M : Framed(fs, p, R, P, B, M, k)
    BY DEF Rests, Sound, Framed
<1>2. Framed(hs, p, R, P, B, M, k) /\ Last(hs).ended
    BY <1>1, FrameAdvances
<1>3. /\ R \subseteq (1 .. n) \ (T \cup {c}) /\ M \subseteq 1 .. n /\ H \cup B \subseteq T \cup {c} \cup P
      /\ P = AllPromised(fs)
    BY <1>1 DEF Rests, Sound, Framed
<1>4. PICK S : S = T \cup {c}
    OBVIOUS
<1>5. S \cup {c} = S
    BY <1>4
<1>6. /\ Sum(g, n, c, S, S \cup {c} \cup P, {}) /\ R \subseteq (1 .. n) \ (S \cup {c})
      /\ H \cup B \subseteq S \cup {c} \cup P
    BY <1>3, <1>4, <1>5
<1>7. Len(hs) = Len(fs)
    <2>1. IsSeq(fs) /\ Len(fs) \in DOMAIN fs
        BY <1>1, FramesFacts DEF Framed
    <2>2. PICK y : y = [fs[Len(fs)] EXCEPT !.next = @ + 1, !.ended = TRUE]
        OBVIOUS
    <2>3. hs = [fs EXCEPT ![Len(fs)] = y]
        BY <2>2
    <2> QED
        BY <2>1, <2>3, ExceptAny
<1>8. hs[1].ended => Len(fs) = 1
    BY <1>2, <1>7, FramesFacts DEF Framed, FramesOK
<1>9. Sound(g, hs, H, p, n, c, S)
    BY <1>2, <1>3, <1>6, <1>8 DEF Sound, Framed
<1> QED
    BY <1>2, <1>4, <1>9 DEF Rests, Framed

(* What is known before a sentence that ends its body.                     *)
LEMMA BeforeCut ==
    ASSUME NEW f, NEW fs, NEW n, NEW c, NEW T, NEW p, NEW H, NEW k, Rests(f, fs, n, c, T, p, H, k),
           ~Last(fs).ended
    PROVE  /\ Sum(f, n, c, T, T \cup {c} \cup AllPromised(fs), {}) /\ c \notin T /\ c \in 1 .. n
           /\ H \subseteq T \cup {c} \cup AllPromised(fs) /\ H \subseteq 1 .. n
           /\ Len(fs) = 1 => k = 0
<1>1. /\ Sum(f, n, c, T, T \cup {c} \cup AllPromised(fs), {}) /\ c \notin T
      /\ H \subseteq T \cup {c} \cup AllPromised(fs)
      /\ AllReserved(fs) \subseteq (1 .. n) \ (T \cup {c}) /\ FramesOK(fs, p) /\ k = Cardinality(Breaking(fs))
    BY DEF Rests, Sound
<1>2. c \in 1 .. n /\ T \subseteq 1 .. n
    BY <1>1, SumFacts
<1>3. AllPromised(fs) \subseteq AllReserved(fs)
    <2>1. \A a : Promised(a) \subseteq Reserved(a)
        BY DEF Promised, Reserved
    <2> QED
        BY <2>1 DEF AllPromised, AllReserved
<1>4. Len(fs) = 1 => k = 0
    <2>1. SUFFICES ASSUME Len(fs) = 1 PROVE k = 0
        OBVIOUS
    <2>2. DOMAIN fs = 1 .. 1 /\ fs[1].after.is = "function"
        BY <1>1, <2>1, FramesFacts DEF FramesOK
    <2>3. Breaking(fs) = {}
        <3>1. \A i \in 1 .. 1 : i = 1
            OBVIOUS
        <3> QED
            BY <2>2, <3>1 DEF Breaking
    <2> QED
        BY <1>1, <2>3, FS_EmptySet
<1> QED
    BY <1>1, <1>2, <1>3, <1>4

LEMMA GiveIsKept ==
    ASSUME EmitInv, GiveSentence
    PROVE  Kept
<1>1. InBody
    BY DEF GiveSentence, At
<1>2. PICK n, c, T : Rests(fn, frames, n, c, T, program, Due, Len(breakables)) /\ ~Last(frames).ended
    BY <1>1, NextSentence
<1>3. PICK G : G = T \cup {c} \cup AllPromised(frames)
    OBVIOUS
<1>4. Sum(fn, n, c, T, G, {}) /\ c \notin T
    BY <1>2, <1>3, BeforeCut
<1>5. ASSUME NEW f, Sum(f, n, c, T, G, {}), NEW why, Go(Emit(f, <<Ret(why)>>), Ended)
      PROVE  Kept
    <2>1. PICK x, g : x = Ret(why) /\ g = Emit(f, <<x>>)
        OBVIOUS
    <2>2. x.op = "ret" /\ LiveOf(x) = {}
        BY <2>1 DEF Ret, Instr, LiveOf
    <2>3. x.op \in {"br", "cond", "ret"}
        BY <2>2
    <2>4. Sum(g, n, c, T \cup {c}, G \cup LiveOf(x), {}) /\ g.blocks[c].code # <<>> /\ Last(g.blocks[c].code) = x
        BY <1>4, <1>5, <2>1, <2>3, EndsWith, SMTT(30)
    <2>5. Sum(g, n, c, T \cup {c}, T \cup {c} \cup AllPromised(frames), {})
        BY <1>3, <2>2, <2>4
    <2>6. Rests(g, Ended, n, c, T \cup {c}, program, Due, Len(breakables))
        BY <1>2, <2>2, <2>4, <2>5, BodyIsCut DEF Ended
    <2> QED
        BY <1>5, <2>1, <2>6, GoingOn
<1>6. CASE Fail("error")
    BY <1>6, Failing
<1>7. CASE ~Fail("error") /\ Snt.value = "self"
    <2>1. Go(Emit(fn, <<Ret("self")>>), Ended)
        BY <1>7 DEF GiveSentence
    <2> QED
        BY <1>4, <1>5, <2>1
<1>8. CASE ~Fail("error") /\ Snt.value # "self"
    <2>1. PICK f, g : f = (IF Snt.value = "nothing" THEN fn ELSE Moved(fn, Snt.value)) /\ g = DestructorCaller(f)
        OBVIOUS
    <2>2. Sum(f, n, c, T, G, {})
        BY <1>4, <2>1, OnLocalKeeps DEF Moved
    <2>3. Sum(g, n, c, T, G, {})
        BY <1>4, <2>1, <2>2, DestructorCallerKeeps
    <2>4. Go(Emit(g, <<Ret(program.gives)>>), Ended)
        BY <1>8, <2>1 DEF GiveSentence
    <2> QED
        BY <1>5, <2>3, <2>4
<1> QED
    BY <1>6, <1>7, <1>8

(* A jump to a block that will be closed.                                  *)
LEMMA JumpIsKept ==
    ASSUME EmitInv, InBody, NEW from \in Due, NEW to \in Due, NEW why, JumpTo(from, to, why),
           Len(breakables) # 0 \/ Snt.is = "continue"
    PROVE  Kept
<1>1. PICK n, c, T : Rests(fn, frames, n, c, T, program, Due, Len(breakables)) /\ ~Last(frames).ended
    BY NextSentence
<1>2. PICK G : G = T \cup {c} \cup AllPromised(frames)
    OBVIOUS
<1>3. Sum(fn, n, c, T, G, {}) /\ c \notin T /\ from \in 1 .. n /\ to \in G
    BY <1>1, <1>2, BeforeCut
<1>4. PICK f, g : f = DestroyLocalsFrom(fn, from) /\ g = AddBranchFor(f, to, why)
    OBVIOUS
<1>5. Sum(f, n, c, T, G, {})
    BY <1>3, <1>4, DestroyLocalsFromKeeps
<1>6. Sum(g, n, c, T \cup {c}, G \cup {to}, {})
    BY <1>4, <1>5, AddBranchForKeeps
<1>7. Sum(g, n, c, T \cup {c}, T \cup {c} \cup AllPromised(frames), {})
    <2>1. G \cup {to} = T \cup {c} \cup AllPromised(frames)
        BY <1>2, <1>3
    <2> QED
        BY <1>6, <2>1
<1>8. Len(frames) = 1 => StrayIn(program)
    <2>1. SUFFICES ASSUME Len(frames) = 1 PROVE StrayIn(program)
        OBVIOUS
    <2>2. Len(breakables) = 0
        BY <1>1, <2>1, BeforeCut
    <2>3. FramesOK(frames, program)
        BY <1>1 DEF Rests, Sound
    <2>4. Top = frames[1] /\ Top.body = program.body /\ FrameOK(Top)
        BY <2>1, <2>3, FramesFacts DEF FramesOK, Top
    <2>5. Top.body \in Seq(Sentences) /\ Top.next \in Nat \ {0} /\ Top.next <= Len(Top.body)
        BY <2>4 DEF FrameOK, InBody
    <2>6. Top.next \in DOMAIN program.body
        BY <2>4, <2>5, LenProperties
    <2> QED
        BY <2>2, <2>4, <2>6 DEF StrayIn, Snt
<1>9. Rests(g, Ended, n, c, T \cup {c}, program, Due, Len(breakables))
    BY <1>1, <1>7, <1>8, BodyIsCut DEF Ended
<1>10. Go(g, Ended)
    BY <1>4 DEF JumpTo
<1> QED
    BY <1>9, <1>10, GoingOn

LEMMA JumpedToFacts ==
    ASSUME NEW loops, NEW breaks
    PROVE  /\ \A i \in DOMAIN loops :
                 /\ loops[i].main \in JumpedTo(loops, breaks)
                 /\ loops[i].kind # "loop" => loops[i].cond \in JumpedTo(loops, breaks)
           /\ \A i \in DOMAIN breaks :
                 breaks[i].true \in JumpedTo(loops, breaks) /\ breaks[i].rest \in JumpedTo(loops, breaks)
<1>1. ASSUME NEW i \in DOMAIN loops
      PROVE  /\ loops[i].main \in JumpedTo(loops, breaks)
             /\ loops[i].kind # "loop" => loops[i].cond \in JumpedTo(loops, breaks)
    <2>1. PICK S : S = {loops[i].main, IF loops[i].kind = "loop" THEN loops[i].main ELSE loops[i].cond}
        OBVIOUS
    <2>2. S \subseteq JumpedTo(loops, breaks)
        <3>1. S \subseteq ByContinue(loops)
            BY <2>1 DEF ByContinue
        <3> QED
            BY <3>1 DEF JumpedTo
    <2> QED
        BY <2>1, <2>2
<1>2. ASSUME NEW i \in DOMAIN breaks
      PROVE  breaks[i].true \in JumpedTo(loops, breaks) /\ breaks[i].rest \in JumpedTo(loops, breaks)
    <2>1. PICK S : S = {breaks[i].true, breaks[i].rest}
        OBVIOUS
    <2>2. S \subseteq JumpedTo(loops, breaks)
        <3>1. S \subseteq ByBreak(breaks)
            BY <2>1 DEF ByBreak
        <3> QED
            BY <3>1 DEF JumpedTo
    <2> QED
        BY <2>1, <2>2
<1> QED
    BY <1>1, <1>2

LEMMA BreakIsKept ==
    ASSUME EmitInv, Break
    PROVE  Kept
<1>1. InBody /\ IsSeq(breakables)
    BY DEF Break, At, EmitInv, Going
<1>2. CASE Fail("error")
    BY <1>2, Failing
<1>3. CASE ~Fail("error")
    <2>1. PICK i : i \in Chosen(breakables, Snt.tag)
                   /\ i = CHOOSE j \in Chosen(breakables, Snt.tag) : TRUE
        BY <1>3 DEF Break
    <2>2. i \in DOMAIN breakables
        BY <1>1, <2>1, SeqFacts DEF Chosen
    <2>3. JumpTo(breakables[i].true, breakables[i].rest, "")
        BY <1>3, <2>1 DEF Break
    <2>4. breakables[i].true \in Due /\ breakables[i].rest \in Due
        BY <2>2, JumpedToFacts DEF Due
    <2>5. Len(breakables) # 0
        BY <1>1, <2>2, SeqFacts
    <2> QED
        BY <1>1, <2>3, <2>4, <2>5, JumpIsKept
<1> QED
    BY <1>2, <1>3

LEMMA ContinueIsKept ==
    ASSUME EmitInv, Continue
    PROVE  Kept
<1>1. InBody /\ IsSeq(loopsInfo) /\ Snt.is = "continue"
    BY DEF Continue, At, EmitInv, Going
<1>2. CASE Chosen(loopsInfo, Snt.tag) = {}
    <2>1. PICK how \in {"error", "crash"} : Fail(how)
        BY <1>2 DEF Continue
    <2> QED
        BY <2>1, Failing
<1>3. CASE Chosen(loopsInfo, Snt.tag) # {}
    <2>1. PICK i : i \in Chosen(loopsInfo, Snt.tag)
                   /\ i = CHOOSE j \in Chosen(loopsInfo, Snt.tag) : TRUE
        BY <1>3
    <2>2. i \in DOMAIN loopsInfo
        BY <1>1, <2>1, SeqFacts DEF Chosen
    <2>3. PICK from, to : /\ from = loopsInfo[i].main
                          /\ to = IF loopsInfo[i].kind = "loop" THEN loopsInfo[i].main ELSE loopsInfo[i].cond
        OBVIOUS
    <2>4. PICK why : JumpTo(from, to, why)
        BY <1>3, <2>1, <2>3 DEF Continue
    <2>5. from \in Due /\ to \in Due
        BY <2>2, <2>3, JumpedToFacts DEF Due
    <2> QED
        BY <1>1, <2>4, <2>5, JumpIsKept
<1> QED
    BY <1>2, <1>3

-----------------------------------------------------------------------------
(* if and match.                                                           *)
LEMMA FirstArmFacts ==
    ASSUME NEW snt \in Sentences, snt.is = "if"
    PROVE  /\ FirstArm(snt) \in 1 .. Len(snt.arms) + 1 /\ FalseTill(snt, FirstArm(snt))
           /\ FirstArm(snt) > Len(snt.arms) \/ snt.arms[FirstArm(snt)].cond # "false"
<1>1. PICK n \in Nat : n = Len(snt.arms)
    BY ArmsFacts
<1>2. PICK I : I = {j \in 1 .. n + 1 : j > n \/ snt.arms[j].cond # "false"}
    OBVIOUS
<1>3. I \subseteq Nat /\ n + 1 \in I
    BY <1>1, <1>2
<1>4. PICK m \in I : \A j \in I : m <= j
    BY <1>3, LeastNumber
<1>5. m \in 1 .. n + 1 /\ (m > n \/ snt.arms[m].cond # "false")
    BY <1>2
<1>6. \A j \in 1 .. m - 1 : snt.arms[j].cond = "false"
    <2>1. SUFFICES ASSUME NEW j \in 1 .. m - 1, snt.arms[j].cond # "false" PROVE FALSE
        OBVIOUS
    <2>2. j \in 1 .. n + 1 /\ ~(m <= j)
        BY <1>1, <1>5
    <2>3. j \in I
        BY <1>2, <2>1, <2>2
    <2> QED
        BY <1>4, <2>2, <2>3
<1>7. FalseTill(snt, m)
    BY <1>6 DEF FalseTill
<1> QED
    BY <1>1, <1>5, <1>7 DEF FirstArm

LEMMA OutcomeIsTaken ==
    ASSUME EmitInv, NEW o, Take(o), Lands(o, program, Due, Len(breakables))
    PROVE  Kept
<1>1. PICK n, c, T : Rests(o.fn, o.frames, n, c, T, program, Due, Len(breakables))
    BY DEF Lands
<1>2. Go(o.fn, o.frames)
    BY DEF Take
<1> QED
    BY <1>1, <1>2, GoingOn

(* The block for what comes after an if or a match.                        *)
LEMMA RestIsMade ==
    ASSUME NEW f, NEW fs, NEW n, NEW c, NEW T, NEW p, NEW H, NEW k,
           Amid(f, fs, n, c, T, {c}, {}, p, H, k), NEW parent \in 0 .. n,
           NEW g, g = Link(Create(f, parent), n + 1, c), NEW U, U = {n + 1}, NEW W, W = {c}
    PROVE  Amid(g, fs, n + 1, c, T, W, U, p, H, k)
<1>1. n \in Nat /\ c \in 1 .. n
    BY AmidFacts
<1>2. Amid(Create(f, parent), fs, n + 1, c, T, {c}, {} \cup {n + 1}, p, H, k)
    BY AmidCreate
<1>3. {} \cup {n + 1} = U
    OBVIOUS
<1>4. Amid(Create(f, parent), fs, n + 1, c, T, W, U, p, H, k)
    BY <1>2, <1>3
<1>5. n + 1 \in 1 .. n + 1 /\ c \in 1 .. n + 1 /\ c < n + 1
    BY <1>1
<1> QED
    BY <1>4, <1>5, AmidLink

LEMMA ParentIsThere ==
    ASSUME NEW f, NEW fs, NEW n, NEW c, NEW T, NEW W, NEW U, NEW p, NEW H, NEW k,
           Amid(f, fs, n, c, T, W, U, p, H, k)
    PROVE  f.blocks[c].parent \in 0 .. n
<1>1. PICK P : Sum(f, n, c, T, W \cup T \cup P, {})
    BY DEF Amid
<1>2. IsBlockAt(f.blocks, Len(f.locals), c) /\ c \in 1 .. n /\ n \in Nat
    BY <1>1, SumFacts, Parts
<1>3. f.blocks[c].parent \in 0 .. c - 1
    BY <1>2 DEF IsBlockAt
<1> QED
    BY <1>2, <1>3

LEMMA IfIsKept ==
    ASSUME EmitInv, IfElse
    PROVE  Kept
<1>1. InBody /\ Snt.is = "if"
    BY DEF IfElse, At
<1>2. PICK n, c, T : /\ Amid(fn, Advanced, n, c, T, {c}, {}, program, Due, Len(breakables))
                     /\ c \notin T /\ c \in 1 .. n /\ Here = c /\ Len(fn.blocks) = n
    BY <1>1, NextSentence
<1>3. PICK snt \in Sentences : snt = Snt
    BY <1>1, NextSentence
<1>4. PICK z, m, g, U, W : /\ z = 0 /\ m = n + 1 /\ g = Link(Create(fn, z), m, c)
                           /\ U = {m} /\ W = {c}
    OBVIOUS
<1>5. z \in 0 .. n
    <2>1. n \in Nat
        BY <1>2, AmidFacts
    <2> QED
        BY <1>4, <2>1
<1>6. Amid(g, Advanced, m, c, T, W, U, program, Due, Len(breakables))
    BY <1>2, <1>4, <1>5, RestIsMade
<1>7. Created(Create(fn, z)) = m
    BY <1>2, <1>4, <1>5, AmidCreate
<1>8. PICK i : i = FirstArm(snt)
    OBVIOUS
<1>9. i \in 1 .. Len(snt.arms) + 1 /\ FalseTill(snt, i) /\ (i > Len(snt.arms) \/ snt.arms[i].cond # "false")
    BY <1>1, <1>3, <1>8, FirstArmFacts
<1>10. ~TrueKnownBefore(snt, i)
    BY <1>9 DEF FalseTill, TrueKnownBefore
<1>11. i <= Len(snt.arms) => snt.arms[i].cond # "false"
    <2>1. Len(snt.arms) \in Nat
        BY <1>1, <1>3, ArmsFacts
    <2> QED
        BY <1>9, <2>1
<1>12. Lands(IfArm(g, Advanced, snt, i, m), program, Due, Len(breakables))
    <2>1. W \subseteq {c, m} /\ snt.is = "if"
        BY <1>1, <1>3, <1>4
    <2> QED
        BY <1>2, <1>4, <1>6, <1>9, <1>10, <1>11, <2>1, IfArmLands
<1>13. Take(IfArm(g, Advanced, snt, i, m))
    BY <1>2, <1>3, <1>4, <1>7, <1>8 DEF IfElse
<1> QED
    BY <1>12, <1>13, OutcomeIsTaken

LEMMA MatchIsKept ==
    ASSUME EmitInv, MatchSentence
    PROVE  Kept
<1>1. InBody /\ Snt.is = "match"
    BY DEF MatchSentence, At
<1>2. PICK n, c, T : /\ Amid(fn, Advanced, n, c, T, {c}, {}, program, Due, Len(breakables))
                     /\ c \notin T /\ c \in 1 .. n /\ Here = c /\ Len(fn.blocks) = n
    BY <1>1, NextSentence
<1>3. PICK snt \in Sentences : snt = Snt
    BY <1>1, NextSentence
<1>4. PICK z, m, g, U, W : /\ z = fn.blocks[c].parent /\ m = n + 1 /\ g = Link(Create(fn, z), m, c)
                           /\ U = {m} /\ W = {c}
    OBVIOUS
<1>5. z \in 0 .. n
    BY <1>2, <1>4, ParentIsThere
<1>6. Amid(g, Advanced, m, c, T, W, U, program, Due, Len(breakables))
    BY <1>2, <1>4, <1>5, RestIsMade
<1>7. Created(Create(fn, z)) = m
    BY <1>2, <1>4, <1>5, AmidCreate
<1>8. W \subseteq {c, m} /\ snt.is = "match" /\ Len(snt.arms) \in Nat /\ c \in 1 .. m /\ c \in 0 .. m /\ c # 0
    BY <1>1, <1>2, <1>3, <1>4, AmidFacts, ArmsFacts
<1>9. PICK i : i = 1
    OBVIOUS
<1>10. Lands(NextArm(g, Advanced, snt, i, m, c), program, Due, Len(breakables))
    <2>1. CASE i > Len(snt.arms)
        <3>1. Lands(MatchEnd(g, Advanced, snt, m, c), program, Due, Len(breakables))
            BY <1>2, <1>4, <1>6, <1>8, MatchEndLands
        <3> QED
            BY <1>8, <2>1, <3>1 DEF NextArm
    <2>2. CASE ~(i > Len(snt.arms))
        <3>1. i \in 1 .. Len(snt.arms)
            BY <1>8, <1>9, <2>2
        <3>2. Lands(Branching(g, Advanced, snt, i, m, c, c), program, Due, Len(breakables))
            BY <1>2, <1>4, <1>6, <1>8, <3>1, BranchingLands
        <3> QED
            BY <1>8, <2>2, <3>2 DEF NextArm
    <2> QED
        BY <2>1, <2>2
<1>11. CASE Fail("error")
    BY <1>11, Failing
<1>12. CASE ~Fail("error")
    <2>1. Take(NextArm(g, Advanced, snt, i, m, c))
        BY <1>2, <1>3, <1>4, <1>7, <1>9, <1>12 DEF MatchSentence
    <2> QED
        BY <1>10, <2>1, OutcomeIsTaken
<1> QED
    BY <1>11, <1>12

(* The sentences of a body are over.                                       *)
LEMMA BodyIsOver ==
    ASSUME EmitInv, NEW a, a = Top.after, a.is # "function"
    PROVE  \E n, c, T, H, j :
              /\ Amid(fn, Front(frames), n, c, T, {c} \cup Promised(a), Reserved(a), program, H, j)
              /\ H = Due \cup Back(a)
              /\ Len(breakables) = IF IsBreaking(a) THEN j + 1 ELSE j
              /\ j \in Nat /\ Mentions(a) \subseteq 1 .. n /\ AfterOK(a) /\ Here = c /\ c \in 1 .. n
<1>1. PICK n, c, T : Rests(fn, frames, n, c, T, program, Due, Len(breakables))
    BY DEF EmitInv, Going, Due
<1>2. a = Last(frames).after
    BY DEF Top
<1>3. PICK j : /\ Amid(fn, Front(frames), n, c, T, {c} \cup Promised(a), Reserved(a), program, Due \cup Back(a), j)
               /\ j \in Nat /\ Len(breakables) = IF IsBreaking(a) THEN j + 1 ELSE j
               /\ Mentions(a) \subseteq 1 .. n /\ AfterOK(a)
    BY <1>1, <1>2, BodyEnds
<1>4. Here = c /\ c \in 1 .. n
    BY <1>3, AmidFacts DEF Here
<1> QED
    BY <1>3, <1>4

LEMMA EndArmIsKept ==
    ASSUME EmitInv, EndArm
    PROVE  Kept
<1>1. PICK a : a = Top.after
    OBVIOUS
<1>2. a.is = "arm"
    BY <1>1 DEF EndArm, After
<1>3. PICK n, c, T, H, j :
              /\ Amid(fn, Front(frames), n, c, T, {c} \cup Promised(a), Reserved(a), program, H, j)
              /\ H = Due \cup Back(a)
              /\ Len(breakables) = IF IsBreaking(a) THEN j + 1 ELSE j
              /\ Mentions(a) \subseteq 1 .. n /\ AfterOK(a) /\ c \in 1 .. n
    BY <1>1, <1>2, BodyIsOver
<1>4. H = Due /\ j = Len(breakables)
    BY <1>2, <1>3 DEF Back, IsBreaking, Loops
<1>5. PICK gs, W, P, R : gs = Front(frames) /\ W = {c} \cup Promised(a) /\ P = Promised(a) /\ R = Reserved(a)
    OBVIOUS
<1>6. Amid(fn, gs, n, c, T, W, R, program, Due, Len(breakables))
    BY <1>3, <1>4, <1>5
<1>7. /\ R = {a.rest} \cup ({a.otherwise} \ {0})
      /\ P = IF a.snt.arms[a.i].cond = "true" THEN {a.rest} ELSE R
      /\ a.block \in 1 .. n /\ (a.curr # 0 => a.curr \in 1 .. n)
    BY <1>2, <1>3, <1>5 DEF Reserved, Promised, Mentions
<1>8. ArmOK(a)
    BY <1>2, <1>3 DEF AfterOK
<1>9. CASE Fail("error")
    BY <1>9, Failing
<1>10. CASE ~Fail("error")
    <2>1. PICK f, g : f = DestroyLocals(fn, a.block) /\ g = AddBranch(f, a.rest)
        OBVIOUS
    <2>2. Amid(f, gs, n, c, T, W, R, program, Due, Len(breakables))
        BY <1>6, <1>7, <2>1, AmidDestroy
    <2>3. PICK S : S = T \cup {c}
        OBVIOUS
    <2>4. a.rest \in P \cup T \cup {c} \cup Due /\ W \subseteq P \cup T \cup {c}
        BY <1>5, <1>7
    <2>5. Amid(g, gs, n, c, S, P, R, program, Due, Len(breakables))
        BY <2>1, <2>2, <2>3, <2>4, AmidBranch
    <2>6. PICK snt \in Sentences : snt = a.snt
        BY <1>8 DEF ArmOK
    <2>7. PICK open : open = IF a.otherwise = 0 THEN g ELSE SetActive(g, a.otherwise)
        OBVIOUS
    <2>8. PICK U : U = {a.rest}
        OBVIOUS
    <2>9. \E d : /\ Amid(open, gs, n, d, S, P, U, program, Due, Len(breakables))
                 /\ P \subseteq {d, a.rest} /\ (d \in S => a.otherwise = 0)
        <3>1. CASE a.otherwise = 0
            BY <1>7, <2>5, <2>7, <2>8, <3>1
        <3>2. CASE a.otherwise # 0
            <4>1. a.otherwise \in R /\ R \ {a.otherwise} = U
                BY <1>7, <1>8, <2>8, <3>2 DEF ArmOK
            <4>2. Amid(open, gs, n, a.otherwise, S, P, U, program, Due, Len(breakables)) /\ a.otherwise \notin S
                BY <2>5, <2>7, <3>2, <4>1, AmidSetActive
            <4> QED
                BY <1>7, <4>2
        <3> QED
            BY <3>1, <3>2
    <2>10. PICK d : /\ Amid(open, gs, n, d, S, P, U, program, Due, Len(breakables))
                    /\ P \subseteq {d, a.rest} /\ (d \in S => a.otherwise = 0)
        BY <2>9
    <2>11. Take(NextArm(open, gs, snt, a.i + 1, a.rest, a.curr))
        BY <1>1, <1>5, <1>10, <2>1, <2>6, <2>7 DEF EndArm
    <2>12. PICK i : i = a.i + 1
        OBVIOUS
    <2>13. Len(snt.arms) \in Nat /\ a.i \in 1 .. Len(snt.arms) /\ snt.is \in {"if", "match"} /\ i \in 1 .. Len(snt.arms) + 1
        <3>1. snt.is \in {"if", "match"} /\ a.i \in DOMAIN snt.arms
            BY <1>8, <2>6 DEF ArmOK
        <3>2. Len(snt.arms) \in Nat /\ DOMAIN snt.arms = 1 .. Len(snt.arms)
            BY <3>1, ArmsFacts
        <3> QED
            BY <2>12, <3>1, <3>2
    <2>14. Lands(NextArm(open, gs, snt, i, a.rest, a.curr), program, Due, Len(breakables))
        <3>1. CASE snt.is = "if"
            <4>1. TrueKnownBefore(snt, i) => snt.arms[a.i].cond = "true"
                <5>1. ~TrueKnownBefore(snt, a.i)
                    BY <1>8, <2>6, <3>1 DEF ArmOK
                <5>2. \A x \in 1 .. i - 1 : x = a.i \/ x \in 1 .. a.i - 1
                    BY <2>12, <2>13
                <5> QED
                    BY <5>1, <5>2 DEF TrueKnownBefore
            <4>2. TrueKnownBefore(snt, i) => P \subseteq {a.rest} \cup S
                BY <1>7, <2>6, <4>1
            <4>3. d \in S => TrueKnownBefore(snt, i) \/ (i = Len(snt.arms) + 1 /\ snt.orElse = <<>>)
                BY <1>8, <2>6, <2>10, <2>12, <3>1 DEF ArmOK
            <4>4. ~FalseTill(snt, i)
                BY <1>8, <2>6, <2>12, <3>1 DEF ArmOK
            <4>5. Lands(IfArm(open, gs, snt, i, a.rest), program, Due, Len(breakables))
                BY <2>8, <2>10, <2>13, <3>1, <4>2, <4>3, <4>4, IfArmLands
            <4> QED
                BY <3>1, <4>5 DEF NextArm
        <3>2. CASE snt.is = "match"
            <4>1. /\ a.curr # 0
                  /\ a.otherwise = 0 => a.i = Len(snt.arms) /\ snt.orElse = <<>>
                BY <1>8, <2>6, <3>2 DEF ArmOK
            <4>2. CASE i > Len(snt.arms)
                <5>1. a.curr \in 1 .. n
                    BY <1>7, <4>1
                <5>2. Lands(MatchEnd(open, gs, snt, a.rest, a.curr), program, Due, Len(breakables))
                    BY <2>8, <2>10, <3>2, <4>1, <5>1, MatchEndLands
                <5> QED
                    BY <3>2, <4>2, <5>2 DEF NextArm
            <4>3. CASE ~(i > Len(snt.arms))
                <5>1. i \in 1 .. Len(snt.arms) /\ d \notin S
                    BY <2>10, <2>12, <2>13, <4>1, <4>3
                <5>2. a.curr \in 1 .. n /\ a.curr \in 0 .. n
                    BY <1>7, <4>1
                <5>3. Lands(Branching(open, gs, snt, i, a.rest, a.curr, a.curr), program, Due, Len(breakables))
                    BY <2>8, <2>10, <3>2, <4>1, <5>1, <5>2, BranchingLands
                <5> QED
                    BY <3>2, <4>3, <5>3 DEF NextArm
            <4> QED
                BY <4>2, <4>3
        <3> QED
            BY <2>13, <3>1, <3>2
    <2> QED
        BY <2>11, <2>12, <2>14, OutcomeIsTaken
<1> QED
    BY <1>9, <1>10

LEMMA EndElseIsKept ==
    ASSUME EmitInv, EndElse
    PROVE  Kept
<1>1. PICK a : a = Top.after
    OBVIOUS
<1>2. a.is \in {"else", "bare else"}
    BY <1>1 DEF EndElse, After
<1>3. PICK n, c, T, H, j :
              /\ Amid(fn, Front(frames), n, c, T, {c} \cup Promised(a), Reserved(a), program, H, j)
              /\ H = Due \cup Back(a)
              /\ Len(breakables) = IF IsBreaking(a) THEN j + 1 ELSE j
              /\ Mentions(a) \subseteq 1 .. n /\ AfterOK(a) /\ Here = c /\ c \in 1 .. n
    BY <1>1, <1>2, BodyIsOver
<1>4. H = Due /\ j = Len(breakables)
    BY <1>2, <1>3 DEF Back, IsBreaking, Loops
<1>5. Reserved(a) = {a.rest} /\ Promised(a) = {a.rest} /\ (a.is = "else" => a.block \in 1 .. n)
    BY <1>2, <1>3 DEF Reserved, Promised, Mentions
<1>6. PICK gs, W, R, b : /\ gs = Front(frames) /\ W = {c, a.rest} /\ R = {a.rest}
                         /\ b = IF a.is = "bare else" THEN c ELSE a.block
    OBVIOUS
<1>7. Amid(fn, gs, n, c, T, W, R, program, Due, Len(breakables))
    <2>1. {c} \cup Promised(a) = W
        BY <1>5, <1>6
    <2> QED
        BY <1>3, <1>4, <1>5, <1>6, <2>1
<1>8. b \in 1 .. n
    BY <1>2, <1>3, <1>5, <1>6
<1>9. PICK f, g, h, S : /\ f = DestroyLocals(fn, b) /\ g = AddBranch(f, a.rest)
                        /\ h = SetActive(g, a.rest) /\ S = T \cup {c}
    OBVIOUS
<1>10. Amid(f, gs, n, c, T, W, R, program, Due, Len(breakables))
    BY <1>7, <1>8, <1>9, AmidDestroy
<1>11. a.rest \in R \cup T \cup {c} \cup Due /\ W \subseteq R \cup T \cup {c} /\ a.rest \in R
    BY <1>6
<1>12. Amid(g, gs, n, c, S, R, R, program, Due, Len(breakables))
    BY <1>9, <1>10, <1>11, AmidBranch
<1>13. Amid(h, gs, n, a.rest, S, R, R \ {a.rest}, program, Due, Len(breakables)) /\ a.rest \notin S
    BY <1>9, <1>11, <1>12, AmidSetActive
<1>14. Rests(h, gs, n, a.rest, S, program, Due, Len(breakables))
    <2>1. R \subseteq {a.rest} \cup S
        BY <1>6
    <2> QED
        BY <1>13, <2>1, SentencesGoOn
<1>15. Go(h, gs)
    BY <1>1, <1>3, <1>6, <1>9 DEF EndElse
<1> QED
    BY <1>14, <1>15, GoingOn

-----------------------------------------------------------------------------
(* Loops.  The records are added to.                                       *)
LEMMA RecordsAreAdded ==
    ASSUME NEW loops, IsSeq(loops), NEW info, NEW S, info.main \in S, info.kind # "loop" => info.cond \in S
    PROVE  /\ IsSeq(Append(loops, info)) /\ Len(Append(loops, info)) = Len(loops) + 1 /\ Len(loops) \in Nat
           /\ ByContinue(Append(loops, info)) \subseteq ByContinue(loops) \cup S
<1>1. PICK m \in Nat : m = Len(loops)
    BY SeqFacts
<1>2. PICK more : more = Append(loops, info)
    OBVIOUS
<1>3. /\ IsSeq(more) /\ Len(more) = m + 1 /\ DOMAIN more = 1 .. m + 1 /\ DOMAIN loops = 1 .. m
      /\ more[m + 1] = info /\ \A i \in 1 .. m : more[i] = loops[i]
    BY <1>1, <1>2, AppendAny, SeqFacts
<1>4. ByContinue(more) \subseteq ByContinue(loops) \cup S
    <2>1. SUFFICES ASSUME NEW i \in DOMAIN more, NEW x,
                          x \in {more[i].main, IF more[i].kind = "loop" THEN more[i].main ELSE more[i].cond}
                   PROVE  x \in ByContinue(loops) \cup S
        BY DEF ByContinue
    <2>2. CASE i \in 1 .. m
        <3>1. x \in {loops[i].main, IF loops[i].kind = "loop" THEN loops[i].main ELSE loops[i].cond}
            BY <1>3, <2>1, <2>2
        <3> QED
            BY <1>3, <2>2, <3>1 DEF ByContinue
    <2>3. CASE i = m + 1
        BY <1>3, <2>1, <2>3
    <2> QED
        BY <1>1, <1>3, <2>2, <2>3
<1> QED
    BY <1>1, <1>2, <1>3, <1>4

LEMMA BreaksAreAdded ==
    ASSUME NEW breaks, IsSeq(breaks), NEW b, NEW S, b.true \in S, b.rest \in S
    PROVE  /\ IsSeq(breaks \o <<b>>) /\ Len(breaks \o <<b>>) = Len(breaks) + 1 /\ Len(breaks) \in Nat
           /\ ByBreak(breaks \o <<b>>) \subseteq ByBreak(breaks) \cup S
<1>1. PICK m \in Nat : m = Len(breaks)
    BY SeqFacts
<1>2. PICK more : more = Append(breaks, b)
    OBVIOUS
<1>3. /\ IsSeq(more) /\ Len(more) = m + 1 /\ DOMAIN more = 1 .. m + 1 /\ DOMAIN breaks = 1 .. m
      /\ more[m + 1] = b /\ \A i \in 1 .. m : more[i] = breaks[i]
    BY <1>1, <1>2, AppendAny, SeqFacts
<1>4. ByBreak(more) \subseteq ByBreak(breaks) \cup S
    <2>1. SUFFICES ASSUME NEW i \in DOMAIN more, NEW x, x \in {more[i].true, more[i].rest}
                   PROVE  x \in ByBreak(breaks) \cup S
        BY DEF ByBreak
    <2>2. CASE i \in 1 .. m
        <3>1. x \in {breaks[i].true, breaks[i].rest}
            BY <1>3, <2>1, <2>2
        <3> QED
            BY <1>3, <2>2, <3>1 DEF ByBreak
    <2>3. CASE i = m + 1
        BY <1>3, <2>1, <2>3
    <2> QED
        BY <1>1, <1>3, <2>2, <2>3
<1>5. breaks \o <<b>> = more
    BY <1>2, ConcatOne
<1> QED
    BY <1>1, <1>3, <1>4, <1>5

(* The body of a loop begins.                                              *)
LEMMA LoopOpens ==
    ASSUME EmitInv, NEW f, NEW n, NEW c, NEW T, NEW W, NEW U,
           Amid(f, Advanced, n, c, T, W, U, program, Due, Len(breakables)), c \notin T,
           NEW a, AfterOK(a), a.is # "function", Snt.body \in Seq(Sentences),
           Reserved(a) \subseteq U, Mentions(a) \subseteq 1 .. n,
           W \cup Back(a) \subseteq {c} \cup T \cup Promised(a),
           NEW info, NEW breaks, IsSeq(breakables \o breaks),
           Len(breakables \o breaks) = IF IsBreaking(a) THEN Len(breakables) + 1 ELSE Len(breakables),
           ByBreak(breakables \o breaks) \subseteq ByBreak(breakables) \cup ({c} \cup T \cup Promised(a)),
           info.main \in {c} \cup T \cup Promised(a),
           info.kind # "loop" => info.cond \in {c} \cup T \cup Promised(a),
           Open(f, info, breaks, a)
    PROVE  Kept
<1>1. IsSeq(loopsInfo) /\ IsSeq(breakables) /\ Len(breakables) <= Len(loopsInfo)
    BY DEF EmitInv, Going
<1>2. PICK S, x, fs, loops, bs : /\ S = {c} \cup T \cup Promised(a) /\ x = Frame(Snt.body, a)
                                 /\ fs = Append(Advanced, x) /\ loops = Append(loopsInfo, info)
                                 /\ bs = breakables \o breaks
    OBVIOUS
<1>3. FrameOK(x) /\ x.ended = FALSE /\ x.after = a
    <2>1. x = Frame(Snt.body, a)
        BY <1>2
    <2> QED
        BY <2>1, FrameBegins
<1>4. /\ IsSeq(loops) /\ Len(loops) = Len(loopsInfo) + 1
      /\ ByContinue(loops) \subseteq ByContinue(loopsInfo) \cup S
    BY <1>1, <1>2, RecordsAreAdded
<1>5. PICK J : J = {1} \cup JumpedTo(loops, bs)
    OBVIOUS
<1>6. J \subseteq Due \cup {c} \cup T \cup Promised(a)
    BY <1>2, <1>4, <1>5 DEF Due, JumpedTo
<1>7. Rests(f, fs, n, c, T, program, J, IF IsBreaking(a) THEN Len(breakables) + 1 ELSE Len(breakables))
    <2>1. ~x.ended
        BY <1>3
    <2>2. Rests(f, Append(Advanced, x), n, c, T, program, J,
                IF IsBreaking(x.after) THEN Len(breakables) + 1 ELSE Len(breakables))
        BY <1>3, <1>6, <2>1, BodyBegins
    <2> QED
        BY <1>2, <1>3, <2>2
<1>8. Len(bs) <= Len(loops)
    BY <1>1, <1>2, <1>4, SeqFacts
<1>9. Going(f, fs, program, loops, bs)
    BY <1>2, <1>4, <1>5, <1>7, <1>8 DEF Going
<1>10. /\ fn' = f /\ frames' = fs /\ phase' = phase /\ loopsInfo' = loops
       /\ breakables' = bs /\ program' = program
    BY <1>2 DEF Open, Still
<1> QED
    BY <1>9, <1>10 DEF Kept

(* A loop that a break leaves: its body begins in block c.                 *)
LEMMA BreakableOpens ==
    ASSUME EmitInv, NEW f, NEW n, NEW c, NEW T, NEW W, NEW U,
           Amid(f, Advanced, n, c, T, W, U, program, Due, Len(breakables)), c \notin T,
           NEW a, AfterOK(a), a.is # "function", IsBreaking(a), Snt.body \in Seq(Sentences),
           Reserved(a) \subseteq U, Mentions(a) \subseteq 1 .. n,
           W \cup Back(a) \subseteq {c} \cup T \cup Promised(a),
           NEW info, info.main \in {c} \cup T \cup Promised(a),
           info.kind # "loop" => info.cond \in {c} \cup T \cup Promised(a),
           NEW b, b.true = c, b.rest \in Promised(a),
           Open(f, info, <<b>>, a)
    PROVE  Kept
<1>1. IsSeq(breakables)
    BY DEF EmitInv, Going
<1>2. PICK Q : Q = {c} \cup T \cup Promised(a)
    OBVIOUS
<1>3. b.true \in Q /\ b.rest \in Q
    BY <1>2
<1>4. /\ IsSeq(breakables \o <<b>>) /\ Len(breakables \o <<b>>) = Len(breakables) + 1
      /\ ByBreak(breakables \o <<b>>) \subseteq ByBreak(breakables) \cup Q
    BY <1>1, <1>3, BreaksAreAdded
<1>5. PICK breaks : breaks = <<b>>
    OBVIOUS
<1>6. /\ IsSeq(breakables \o breaks) /\ Open(f, info, breaks, a)
      /\ Len(breakables \o breaks) = IF IsBreaking(a) THEN Len(breakables) + 1 ELSE Len(breakables)
      /\ ByBreak(breakables \o breaks) \subseteq ByBreak(breakables) \cup ({c} \cup T \cup Promised(a))
    BY <1>2, <1>4, <1>5
<1> QED
    BY <1>6, LoopOpens

(* A new block, named.                                                     *)
LEMMA OneMore ==
    ASSUME NEW f, NEW fs, NEW n, NEW c, NEW T, NEW W, NEW U, NEW p, NEW H, NEW k,
           Amid(f, fs, n, c, T, W, U, p, H, k), NEW q \in 0 .. n,
           NEW g, g = Create(f, q), NEW m, m = n + 1, NEW S, S = U \cup {m}
    PROVE  Amid(g, fs, m, c, T, W, S, p, H, k)
<1>1. Amid(Create(f, q), fs, n + 1, c, T, W, U \cup {n + 1}, p, H, k)
    BY AmidCreate
<1>2. S = U \cup {n + 1}
    OBVIOUS
<1> QED
    BY <1>1, <1>2

(* It becomes current.                                                     *)
LEMMA Activated ==
    ASSUME NEW f, NEW fs, NEW n, NEW c, NEW T, NEW W, NEW U, NEW p, NEW H, NEW k,
           Amid(f, fs, n, c, T, W, U, p, H, k), NEW b \in U,
           NEW g, g = SetActive(f, b), NEW S, S = U \ {b}
    PROVE  Amid(g, fs, n, b, T, W, S, p, H, k) /\ b \notin T /\ b \in 1 .. n
<1>1. Amid(SetActive(f, b), fs, n, b, T, W, U \ {b}, p, H, k) /\ b \notin T /\ b \in 1 .. n
    BY AmidSetActive
<1> QED
    BY <1>1

LEMMA LoopIfIsKept ==
    ASSUME EmitInv, EnterLoopIf
    PROVE  Kept
<1>1. InBody /\ Snt.is = "loop if" /\ IsSeq(breakables)
    BY DEF EnterLoopIf, At, EmitInv, Going
<1>2. PICK n, c, T : /\ Amid(fn, Advanced, n, c, T, {c}, {}, program, Due, Len(breakables))
                     /\ c \notin T /\ c \in 1 .. n /\ Here = c
    BY <1>1, NextSentence
<1>3. Snt.body \in Seq(Sentences)
    BY <1>1, NextSentence, SentencesAssumption
<1>4. n \in Nat /\ Created(fn) = n
    BY <1>2, AmidFacts, NewBlockIsNew
<1>5. PICK t, d, r : t = n + 1 /\ d = n + 2 /\ r = n + 3
    OBVIOUS
<1>6. /\ d = t + 1 /\ r = d + 1 /\ d # r /\ t # d /\ t # r /\ c \in 0 .. n /\ c \in 0 .. t /\ c \in 0 .. d
      /\ t = Created(fn) + 1 /\ d = Created(fn) + 2 /\ r = Created(fn) + 3
    BY <1>2, <1>4, <1>5
<1>7. CASE Fail("error")
    BY <1>7, Failing
<1>8. CASE ~Fail("error")
    <2>1. PICK f1, f2, f3, U1, U2, U3, W :
            /\ f1 = Create(fn, c) /\ f2 = Create(f1, c) /\ f3 = Create(f2, c)
            /\ U1 = {} \cup {t} /\ U2 = U1 \cup {d} /\ U3 = U2 \cup {r} /\ W = {c}
        OBVIOUS
    <2>2. Amid(f1, Advanced, t, c, T, W, U1, program, Due, Len(breakables))
        BY <1>2, <1>5, <1>6, <2>1, OneMore
    <2>3. Amid(f2, Advanced, d, c, T, W, U2, program, Due, Len(breakables))
        BY <1>6, <2>1, <2>2, OneMore
    <2>4. Amid(f3, Advanced, r, c, T, W, U3, program, Due, Len(breakables))
        BY <1>6, <2>1, <2>3, OneMore
    <2>5. PICK g, h, V, S, U : /\ g = (IF Snt.isDo THEN AddBranch(f3, t) ELSE Emit(f3, <<CondBr(t, r, "unknown")>>))
                               /\ h = SetActive(g, t) /\ V = {t, r} /\ S = T \cup {c} /\ U = U3 \ {t}
        OBVIOUS
    <2>6. W \subseteq V \cup T \cup {c} /\ t \in V \cup T \cup {c} \cup Due /\ t \in U3 /\ U = {d, r}
          /\ LiveOf(CondBr(t, r, "unknown")) \subseteq V \cup T \cup {c} \cup Due
        BY <1>6, <2>1, <2>5, BothLive
    <2>7. Amid(g, Advanced, r, c, S, V, U3, program, Due, Len(breakables))
        <3>1. Amid(AddBranch(f3, t), Advanced, r, c, S, V, U3, program, Due, Len(breakables))
            BY <2>4, <2>5, <2>6, AmidBranch
        <3>2. Amid(Emit(f3, <<CondBr(t, r, "unknown")>>), Advanced, r, c, S, V, U3, program, Due, Len(breakables))
            BY <1>2, <2>4, <2>5, <2>6, AmidCondBr
        <3> QED
            BY <2>5, <3>1, <3>2
    <2>8. Amid(h, Advanced, r, t, S, V, U, program, Due, Len(breakables)) /\ t \notin S /\ t \in 1 .. r
        BY <2>5, <2>6, <2>7, Activated
    <2>9. PICK a : a = [is |-> "loop if", true |-> t, cond |-> d, rest |-> r]
        OBVIOUS
    <2>10. a.is = "loop if" /\ a.true = t /\ a.cond = d /\ a.rest = r
        BY <2>9
    <2>11. /\ AfterOK(a) /\ a.is # "function" /\ IsBreaking(a)
           /\ Reserved(a) = {d, r} /\ Promised(a) = {d, r} /\ Mentions(a) = {t} /\ Back(a) = {t}
        BY <1>6, <2>10 DEF AfterOK, IsBreaking, Reserved, Promised, Mentions, Back, Loops
    <2>12. PICK info, b : info = LoopInfo("loop if", Snt.tag, t, d, r) /\ b = Breakable(Snt.tag, t, r)
        OBVIOUS
    <2>13. info.main = t /\ info.cond = d /\ b.true = t /\ b.rest = r
        BY <2>12 DEF LoopInfo, Breakable
    <2>14. Open(h, info, <<b>>, a)
        BY <1>2, <1>6, <1>8, <2>1, <2>5, <2>9, <2>12 DEF EnterLoopIf
    <2>15. /\ info.main \in {t} \cup S \cup Promised(a)
           /\ info.kind # "loop" => info.cond \in {t} \cup S \cup Promised(a)
           /\ Reserved(a) \subseteq U /\ Mentions(a) \subseteq 1 .. r
           /\ V \cup Back(a) \subseteq {t} \cup S \cup Promised(a)
           /\ b.true = t /\ b.rest \in Promised(a)
        BY <2>5, <2>6, <2>8, <2>11, <2>13
    <2> QED
        BY <1>3, <2>8, <2>11, <2>14, <2>15, BreakableOpens
<1> QED
    BY <1>7, <1>8

LEMMA LoopEverIsKept ==
    ASSUME EmitInv, EnterLoop
    PROVE  Kept
<1>1. InBody /\ Snt.is = "loop"
    BY DEF EnterLoop, At
<1>2. PICK n, c, T : /\ Amid(fn, Advanced, n, c, T, {c}, {}, program, Due, Len(breakables))
                     /\ c \notin T /\ c \in 1 .. n /\ Here = c
    BY <1>1, NextSentence
<1>3. Snt.body \in Seq(Sentences)
    BY <1>1, NextSentence, SentencesAssumption
<1>4. n \in Nat /\ Created(fn) = n
    BY <1>2, AmidFacts, NewBlockIsNew
<1>5. PICK t, r, z : t = n + 1 /\ r = n + 2 /\ z = 0
    OBVIOUS
<1>6. /\ r = t + 1 /\ t # r /\ c \in 0 .. n /\ z \in 0 .. t /\ c \in 1 .. r /\ r \in 1 .. r /\ c < r
      /\ t = Created(fn) + 1 /\ r = Created(fn) + 2
    BY <1>2, <1>4, <1>5
<1>7. CASE Fail("error")
    BY <1>7, Failing
<1>8. CASE ~Fail("error")
    <2>1. PICK f1, f2, f3, U1, U2, W :
            /\ f1 = Create(fn, c) /\ f2 = Create(f1, z) /\ f3 = Link(f2, r, c)
            /\ U1 = {} \cup {t} /\ U2 = U1 \cup {r} /\ W = {c}
        OBVIOUS
    <2>2. Amid(f1, Advanced, t, c, T, W, U1, program, Due, Len(breakables))
        BY <1>2, <1>5, <1>6, <2>1, OneMore
    <2>3. Amid(f2, Advanced, r, c, T, W, U2, program, Due, Len(breakables))
        BY <1>6, <2>1, <2>2, OneMore
    <2>4. Amid(f3, Advanced, r, c, T, W, U2, program, Due, Len(breakables))
        BY <1>6, <2>1, <2>3, AmidLink
    <2>5. PICK g, h, V, S, U : /\ g = AddBranch(f3, t) /\ h = SetActive(g, t)
                               /\ V = {t} /\ S = T \cup {c} /\ U = U2 \ {t}
        OBVIOUS
    <2>6. W \subseteq V \cup T \cup {c} /\ t \in V \cup T \cup {c} \cup Due /\ t \in U2 /\ U = {r}
        BY <1>6, <2>1, <2>5
    <2>7. Amid(g, Advanced, r, c, S, V, U2, program, Due, Len(breakables))
        BY <2>4, <2>5, <2>6, AmidBranch
    <2>8. Amid(h, Advanced, r, t, S, V, U, program, Due, Len(breakables)) /\ t \notin S /\ t \in 1 .. r
        BY <2>5, <2>6, <2>7, Activated
    <2>9. PICK a : a = [is |-> "loop", true |-> t, rest |-> r]
        OBVIOUS
    <2>10. a.is = "loop" /\ a.true = t /\ a.rest = r
        BY <2>9
    <2>11. /\ AfterOK(a) /\ a.is # "function" /\ IsBreaking(a)
           /\ Reserved(a) = {r} /\ Promised(a) = {r} /\ Mentions(a) = {t} /\ Back(a) = {t}
        BY <2>10 DEF AfterOK, IsBreaking, Reserved, Promised, Mentions, Back, Loops
    <2>12. PICK info, b : info = LoopInfo("loop", Snt.tag, t, z, r) /\ b = Breakable(Snt.tag, t, r)
        OBVIOUS
    <2>13. info.main = t /\ info.kind = "loop" /\ b.true = t /\ b.rest = r
        BY <2>12 DEF LoopInfo, Breakable
    <2>14. Open(h, info, <<b>>, a)
        BY <1>2, <1>5, <1>6, <1>8, <2>1, <2>5, <2>9, <2>12 DEF EnterLoop
    <2>15. /\ info.main \in {t} \cup S \cup Promised(a)
           /\ info.kind # "loop" => info.cond \in {t} \cup S \cup Promised(a)
           /\ Reserved(a) \subseteq U /\ Mentions(a) \subseteq 1 .. r
           /\ V \cup Back(a) \subseteq {t} \cup S \cup Promised(a)
           /\ b.true = t /\ b.rest \in Promised(a)
        BY <2>5, <2>6, <2>8, <2>11, <2>13
    <2> QED
        BY <1>3, <2>8, <2>11, <2>14, <2>15, BreakableOpens
<1> QED
    BY <1>7, <1>8

LEMMA PairIsSeq ==
    ASSUME NEW x, NEW y
    PROVE  IsSeq(<<x, y>>) /\ Len(<<x, y>>) = 2 /\ <<x, y>>[1] = x /\ <<x, y>>[2] = y
<1>1. <<x, y>> \in Seq({x, y})
    OBVIOUS
<1> QED
    BY <1>1, SeqOfIsSeq

(* An instruction on a local, then the branches.                           *)
LEMMA AmidUseThenBr ==
    ASSUME NEW f, NEW fs, NEW n, NEW c, NEW T, NEW W, NEW U, NEW p, NEW H, NEW k,
           Amid(f, fs, n, c, T, W, U, p, H, k), c \notin T, NEW l,
           NEW yes, NEW no, NEW known, NEW V, LiveOf(CondBr(yes, no, known)) \subseteq V \cup T \cup {c} \cup H,
           W \subseteq V \cup T \cup {c}
    PROVE  Amid(Emit(f, <<OnLocal("use", l, ""), CondBr(yes, no, known)>>), fs, n, c, T \cup {c}, V, U, p, H, k)
<1>1. PICK u, x : u = OnLocal("use", l, "") /\ x = CondBr(yes, no, known)
    OBVIOUS
<1>2. u.op = "use" /\ x.op = "cond"
    BY <1>1 DEF OnLocal, CondBr, Instr
<1>3. PICK code : code = <<u, x>>
    OBVIOUS
<1>4. IsSeq(code) /\ Len(code) = 2 /\ code[1] = u /\ code[2] = x
    BY ONLY <1>3, PairIsSeq
<1>5. PICK q : q = 2
    OBVIOUS
<1>6. /\ q \in Nat \ {0} /\ q = Len(code) /\ code[q].op \in {"br", "cond", "ret"}
      /\ \A i \in 1 .. q - 1 : code[i].op \notin {"br", "cond", "ret"}
    <2>1. \A i \in 1 .. q - 1 : i = 1
        BY <1>5
    <2> QED
        BY <1>2, <1>4, <1>5, <2>1
<1>7. \A O : Sum(f, n, c, T, O, {}) => Sum(Emit(f, code), n, c, T \cup {c}, O \cup LiveOf(code[q]), {})
    BY <1>4, <1>6, EmitCloses
<1>8. W \cup LiveOf(code[q]) \subseteq V \cup T \cup {c} \cup H
    BY <1>1, <1>4, <1>5
<1>9. Amid(Emit(f, code), fs, n, c, T \cup {c}, V, U, p, H, k)
    BY <1>7, <1>8, AmidCloses
<1> QED
    BY <1>1, <1>3, <1>9

LEMMA LoopToIsKept ==
    ASSUME EmitInv, EnterLoopTo
    PROVE  Kept
<1>1. InBody /\ Snt.is = "loop to"
    BY DEF EnterLoopTo, At
<1>2. PICK n, c, T : /\ Amid(fn, Advanced, n, c, T, {c}, {}, program, Due, Len(breakables))
                     /\ c \notin T /\ c \in 1 .. n /\ Here = c
    BY <1>1, NextSentence
<1>3. Snt.body \in Seq(Sentences)
    BY <1>1, NextSentence, SentencesAssumption
<1>4. n \in Nat /\ Created(fn) = n
    BY <1>2, AmidFacts, NewBlockIsNew
<1>5. PICK l, t, d, r, q : l = n + 1 /\ t = n + 2 /\ d = n + 3 /\ r = n + 4 /\ q = fn.blocks[c].parent
    OBVIOUS
<1>6. /\ t = l + 1 /\ d = t + 1 /\ r = d + 1 /\ d # r /\ t # d /\ t # r /\ l # t /\ l # d /\ l # r
      /\ c \in 0 .. n /\ l \in 0 .. l /\ l \in 0 .. t /\ c \in 1 .. r /\ r \in 1 .. r /\ c < r
      /\ l = Created(fn) + 1 /\ t = Created(fn) + 2 /\ d = Created(fn) + 3 /\ r = Created(fn) + 4
    BY <1>2, <1>4, <1>5
<1>7. q \in 0 .. d
    <2>1. q \in 0 .. n
        BY <1>2, <1>5, ParentIsThere
    <2> QED
        BY <1>4, <1>5, <2>1
<1>8. CASE Fail("error")
    BY <1>8, Failing
<1>9. CASE ~Fail("error")
    <2>1. PICK local, index, e, x :
            /\ local = Local(Snt.tag, "index", Site) /\ index = NewLocal(fn, c, local)
            /\ x = Len(index.locals) /\ e = Emit(index, <<OnLocal("init", x, "")>>)
        OBVIOUS
    <2>2. PICK f1, f2, f3, f4, f5, U1, U2, U3, U4, W :
            /\ f1 = Create(e, c) /\ f2 = Create(f1, l) /\ f3 = Create(f2, l) /\ f4 = Create(f3, q)
            /\ f5 = Link(f4, r, c)
            /\ U1 = {} \cup {l} /\ U2 = U1 \cup {t} /\ U3 = U2 \cup {d} /\ U4 = U3 \cup {r} /\ W = {c}
        OBVIOUS
    <2>3. Amid(index, Advanced, n, c, T, W, {}, program, Due, Len(breakables))
        BY <1>2, <2>1, <2>2, AmidNewLocal
    <2>4. Amid(e, Advanced, n, c, T, W, {}, program, Due, Len(breakables))
        BY <1>2, <2>1, <2>3, AmidOnLocal
    <2>5. Amid(f1, Advanced, l, c, T, W, U1, program, Due, Len(breakables))
        BY <1>5, <1>6, <2>2, <2>4, OneMore
    <2>6. Amid(f2, Advanced, t, c, T, W, U2, program, Due, Len(breakables))
        BY <1>6, <2>2, <2>5, OneMore
    <2>7. Amid(f3, Advanced, d, c, T, W, U3, program, Due, Len(breakables))
        BY <1>6, <2>2, <2>6, OneMore
    <2>8. Amid(f4, Advanced, r, c, T, W, U4, program, Due, Len(breakables))
        BY <1>6, <1>7, <2>2, <2>7, OneMore
    <2>9. Amid(f5, Advanced, r, c, T, W, U4, program, Due, Len(breakables))
        BY <1>6, <2>2, <2>8, AmidLink
    <2>10. PICK g, f, V, S, U : /\ g = AddBranch(f5, l) /\ f = SetActive(g, l)
                                /\ V = {l} /\ S = T \cup {c} /\ U = U4 \ {l}
        OBVIOUS
    <2>11. W \subseteq V \cup T \cup {c} /\ l \in V \cup T \cup {c} \cup Due /\ l \in U4 /\ U = {t, d, r}
        BY <1>6, <2>2, <2>10
    <2>12. Amid(g, Advanced, r, c, S, V, U4, program, Due, Len(breakables))
        BY <2>9, <2>10, <2>11, AmidBranch
    <2>13. Amid(f, Advanced, r, l, S, V, U, program, Due, Len(breakables)) /\ l \notin S
        BY <2>10, <2>11, <2>12, Activated
    <2>14. PICK i, h, X, Y, Z : /\ i = Emit(f, <<OnLocal("use", x, ""), CondBr(t, r, "unknown")>>)
                                /\ h = SetActive(i, t) /\ X = {t, r} /\ Y = S \cup {l} /\ Z = U \ {t}
        OBVIOUS
    <2>15. /\ LiveOf(CondBr(t, r, "unknown")) \subseteq X \cup S \cup {l} \cup Due
           /\ V \subseteq X \cup S \cup {l} /\ t \in U /\ Z = {d, r}
        BY <1>6, <2>10, <2>11, <2>14, BothLive
    <2>16. Amid(i, Advanced, r, l, Y, X, U, program, Due, Len(breakables))
        BY <2>13, <2>14, <2>15, AmidUseThenBr
    <2>17. Amid(h, Advanced, r, t, Y, X, Z, program, Due, Len(breakables)) /\ t \notin Y /\ t \in 1 .. r
        <3>1. t \in U
            BY <2>15
        <3>2. h = SetActive(i, t) /\ Z = U \ {t}
            BY <2>14
        <3> QED
            BY <2>16, <3>1, <3>2, Activated
    <2>18. PICK a : a = [is |-> "loop to", true |-> t, cond |-> d, rest |-> r, index |-> x]
        OBVIOUS
    <2>19. a.is = "loop to" /\ a.true = t /\ a.cond = d /\ a.rest = r
        BY <2>18
    <2>20. /\ AfterOK(a) /\ a.is # "function" /\ IsBreaking(a)
           /\ Reserved(a) = {d, r} /\ Promised(a) = {d, r} /\ Mentions(a) = {t} /\ Back(a) = {t}
        BY <1>6, <2>19 DEF AfterOK, IsBreaking, Reserved, Promised, Mentions, Back, Loops
    <2>21. PICK info, b : info = LoopInfo("loop to", Snt.tag, t, d, r) /\ b = Breakable(Snt.tag, t, r)
        OBVIOUS
    <2>22. info.main = t /\ info.cond = d /\ b.true = t /\ b.rest = r
        BY <2>21 DEF LoopInfo, Breakable
    <2>23. Open(h, info, <<b>>, a)
        BY <1>2, <1>5, <1>6, <1>9, <2>1, <2>2, <2>10, <2>14, <2>18, <2>21 DEF EnterLoopTo
    <2>24. /\ info.main \in {t} \cup Y \cup Promised(a)
           /\ info.kind # "loop" => info.cond \in {t} \cup Y \cup Promised(a)
           /\ Reserved(a) \subseteq Z /\ Mentions(a) \subseteq 1 .. r
           /\ X \cup Back(a) \subseteq {t} \cup Y \cup Promised(a)
           /\ b.true = t /\ b.rest \in Promised(a)
        BY <2>14, <2>15, <2>17, <2>20, <2>22
    <2> QED
        BY <1>3, <2>17, <2>20, <2>23, <2>24, BreakableOpens
<1> QED
    BY <1>8, <1>9

LEMMA LoopInIsKept ==
    ASSUME EmitInv, EnterLoopIn
    PROVE  Kept
<1>1. InBody /\ Snt.is = "loop in" /\ IsSeq(breakables)
    BY DEF EnterLoopIn, At, EmitInv, Going
<1>2. PICK n, c, T : /\ Amid(fn, Advanced, n, c, T, {c}, {}, program, Due, Len(breakables))
                     /\ c \notin T /\ c \in 1 .. n /\ Here = c
    BY <1>1, NextSentence
<1>3. Snt.body \in Seq(Sentences)
    BY <1>1, NextSentence, SentencesAssumption
<1>4. n \in Nat /\ Created(fn) = n
    BY <1>2, AmidFacts, NewBlockIsNew
<1>5. PICK m, l, d, t, r, q : /\ m = n + 1 /\ l = n + 2 /\ d = n + 3 /\ t = n + 4 /\ r = n + 5
                              /\ q = fn.blocks[c].parent
    OBVIOUS
<1>6. /\ l = m + 1 /\ d = l + 1 /\ t = d + 1 /\ r = t + 1
      /\ m # l /\ m # d /\ m # t /\ m # r /\ l # d /\ l # t /\ l # r /\ d # t /\ d # r /\ t # r
      /\ m \in 0 .. m /\ m \in 0 .. l /\ m \in 0 .. d
      /\ c \in 1 .. m /\ m \in 1 .. m /\ c < m
      /\ l \in 1 .. d /\ d \in 1 .. d /\ l < d /\ d \in 1 .. t /\ t \in 1 .. t /\ d < t
      /\ m \in 1 .. r /\ r \in 1 .. r /\ m < r
      /\ m = Created(fn) + 1 /\ l = Created(fn) + 2 /\ d = Created(fn) + 3 /\ t = Created(fn) + 4
      /\ r = Created(fn) + 5
    BY <1>2, <1>4, <1>5
<1>7. q \in 0 .. n /\ q \in 0 .. t
    <2>1. q \in 0 .. n
        BY <1>2, <1>5, ParentIsThere
    <2> QED
        BY <1>4, <1>5, <2>1
<1>8. CASE Fail("error")
    BY <1>8, Failing
<1>9. CASE ~Fail("error")
    <2>1. PICK f1, f2, f3, f4, f5 :
            /\ f1 = Create(fn, q) /\ f2 = Link(f1, m, c) /\ f3 = Create(f2, m) /\ f4 = Create(f3, m)
            /\ f5 = Link(f4, d, l)
        OBVIOUS
    <2>2. PICK f6, f7, f8, f9 :
            /\ f6 = Create(f5, m) /\ f7 = Link(f6, t, d) /\ f8 = Create(f7, q) /\ f9 = Link(f8, r, m)
        OBVIOUS
    <2>3. PICK U1, U2, U3, U4, U5, W :
            /\ U1 = {} \cup {m} /\ U2 = U1 \cup {l} /\ U3 = U2 \cup {d} /\ U4 = U3 \cup {t}
            /\ U5 = U4 \cup {r} /\ W = {c}
        OBVIOUS
    <2>4. Amid(f1, Advanced, m, c, T, W, U1, program, Due, Len(breakables))
        BY <1>2, <1>5, <1>7, <2>1, <2>3, OneMore
    <2>5. Amid(f2, Advanced, m, c, T, W, U1, program, Due, Len(breakables))
        BY <1>6, <2>1, <2>4, AmidLink
    <2>6. Amid(f3, Advanced, l, c, T, W, U2, program, Due, Len(breakables))
        BY <1>6, <2>1, <2>3, <2>5, OneMore
    <2>7. Amid(f4, Advanced, d, c, T, W, U3, program, Due, Len(breakables))
        BY <1>6, <2>1, <2>3, <2>6, OneMore, SMTT(30)
    <2>8. Amid(f5, Advanced, d, c, T, W, U3, program, Due, Len(breakables))
        BY <1>6, <2>1, <2>7, AmidLink
    <2>9. Amid(f6, Advanced, t, c, T, W, U4, program, Due, Len(breakables))
        BY <1>6, <2>2, <2>3, <2>8, OneMore
    <2>10. Amid(f7, Advanced, t, c, T, W, U4, program, Due, Len(breakables))
        BY <1>6, <2>2, <2>9, AmidLink
    <2>11. Amid(f8, Advanced, r, c, T, W, U5, program, Due, Len(breakables))
        BY <1>6, <1>7, <2>2, <2>3, <2>10, OneMore
    <2>12. Amid(f9, Advanced, r, c, T, W, U5, program, Due, Len(breakables))
        BY <1>6, <2>2, <2>11, AmidLink
    <2>13. PICK g, h, V, S, U : /\ g = AddBranch(f9, m) /\ h = SetActive(g, m)
                                /\ V = {m} /\ S = T \cup {c} /\ U = U5 \ {m}
        OBVIOUS
    <2>14. /\ W \subseteq V \cup T \cup {c} /\ m \in V \cup T \cup {c} \cup Due
        BY <2>3, <2>13
    <2>15. m \in U5 /\ U = {l, d, t, r}
        BY <1>6, <2>3, <2>13
    <2>16. Amid(g, Advanced, r, c, S, V, U5, program, Due, Len(breakables))
        BY <2>12, <2>13, <2>14, AmidBranch
    <2>17. Amid(h, Advanced, r, m, S, V, U, program, Due, Len(breakables)) /\ m \notin S /\ m \in 1 .. r
        BY <2>13, <2>15, <2>16, Activated
    <2>18. PICK local, item, e : /\ local = Local(Snt.tag, "item", Site) /\ item = NewLocal(h, m, local)
                                 /\ e = Emit(item, <<CondBr(l, r, "unknown")>>)
        OBVIOUS
    <2>19. Amid(item, Advanced, r, m, S, V, U, program, Due, Len(breakables))
        BY <2>17, <2>18, AmidNewLocal
    <2>20. PICK X, Y, Z, f : X = {l, r} /\ Y = S \cup {m} /\ Z = U \ {l} /\ f = SetActive(e, l)
        OBVIOUS
    <2>21. /\ LiveOf(CondBr(l, r, "unknown")) \subseteq X \cup S \cup {m} \cup Due
           /\ V \subseteq X \cup S \cup {m}
        BY <2>13, <2>20, BothLive
    <2>22. Amid(e, Advanced, r, m, Y, X, U, program, Due, Len(breakables))
        BY <2>17, <2>18, <2>19, <2>20, <2>21, AmidCondBr
    <2>23. l \in U /\ Z = {d, t, r}
        BY <1>6, <2>15, <2>20
    <2>24. Amid(f, Advanced, r, l, Y, X, Z, program, Due, Len(breakables)) /\ l \notin Y /\ l \in 1 .. r
        <3>1. f = SetActive(e, l) /\ Z = U \ {l} /\ l \in U
            BY <2>20, <2>23
        <3> QED
            BY <2>22, <3>1, Activated
    <2>25. PICK x, i : x = Len(item.locals) /\ i = Emit(f, <<OnLocal("init", x, "")>>)
        OBVIOUS
    <2>26. Amid(i, Advanced, r, l, Y, X, Z, program, Due, Len(breakables))
        BY <2>24, <2>25, AmidOnLocal
    <2>27. PICK a : a = [is |-> "loop in", body |-> l, cond |-> d, true |-> t, rest |-> r]
        OBVIOUS
    <2>28. a.is = "loop in" /\ a.body = l /\ a.cond = d /\ a.true = t /\ a.rest = r
        BY <2>27
    <2>29. /\ AfterOK(a) /\ a.is # "function" /\ ~IsBreaking(a)
           /\ Reserved(a) = {d, t, r} /\ Promised(a) = {d, t, r} /\ Mentions(a) = {l} /\ Back(a) = {l}
        BY <1>6, <2>28 DEF AfterOK, IsBreaking, Reserved, Promised, Mentions, Back, Loops
    <2>30. PICK info, breaks : info = LoopInfo("loop in", Snt.tag, m, d, r) /\ breaks = <<>>
        OBVIOUS
    <2>31. info.main = m /\ info.cond = d
        BY <2>30 DEF LoopInfo
    <2>32. Open(i, info, breaks, a)
        BY <1>2, <1>5, <1>6, <1>9, <2>1, <2>2, <2>13, <2>18, <2>20, <2>25, <2>27, <2>30 DEF EnterLoopIn
    <2>33. breakables \o breaks = breakables
        BY <1>1, <2>30, ConcatOne
    <2>34. /\ IsSeq(breakables \o breaks)
           /\ Len(breakables \o breaks) = IF IsBreaking(a) THEN Len(breakables) + 1 ELSE Len(breakables)
           /\ ByBreak(breakables \o breaks) \subseteq ByBreak(breakables) \cup ({l} \cup Y \cup Promised(a))
        BY <1>1, <2>29, <2>33
    <2>35. /\ info.main \in {l} \cup Y \cup Promised(a)
           /\ info.kind # "loop" => info.cond \in {l} \cup Y \cup Promised(a)
           /\ Reserved(a) \subseteq Z /\ Mentions(a) \subseteq 1 .. r
           /\ X \cup Back(a) \subseteq {l} \cup Y \cup Promised(a)
        BY <2>20, <2>23, <2>24, <2>29, <2>31
    <2> QED
        BY <1>3, <2>24, <2>26, <2>29, <2>32, <2>34, <2>35, LoopOpens
<1> QED
    BY <1>8, <1>9

-----------------------------------------------------------------------------
(* The ends of loops.  The last records go.                                *)
LEMMA RecordsGo ==
    ASSUME NEW loops, IsSeq(loops), Len(loops) # 0, NEW breaks, IsSeq(breaks), Len(breaks) # 0
    PROVE  /\ IsSeq(Front(loops)) /\ Len(Front(loops)) = Len(loops) - 1
           /\ IsSeq(Front(breaks)) /\ Len(Front(breaks)) = Len(breaks) - 1
           /\ JumpedTo(Front(loops), Front(breaks)) \subseteq JumpedTo(loops, breaks)
<1>1. /\ IsSeq(Front(loops)) /\ Len(Front(loops)) = Len(loops) - 1
      /\ \A i \in DOMAIN Front(loops) : i \in DOMAIN loops /\ Front(loops)[i] = loops[i]
    <2>1. /\ IsSeq(Front(loops)) /\ Len(Front(loops)) = Len(loops) - 1 /\ DOMAIN Front(loops) = 1 .. Len(loops) - 1
          /\ \A i \in 1 .. Len(loops) - 1 : Front(loops)[i] = loops[i]
        BY FrontAny
    <2>2. Len(loops) \in Nat /\ DOMAIN loops = 1 .. Len(loops)
        BY SeqFacts
    <2> QED
        BY <2>1, <2>2
<1>2. /\ IsSeq(Front(breaks)) /\ Len(Front(breaks)) = Len(breaks) - 1
      /\ \A i \in DOMAIN Front(breaks) : i \in DOMAIN breaks /\ Front(breaks)[i] = breaks[i]
    <2>1. /\ IsSeq(Front(breaks)) /\ Len(Front(breaks)) = Len(breaks) - 1 /\ DOMAIN Front(breaks) = 1 .. Len(breaks) - 1
          /\ \A i \in 1 .. Len(breaks) - 1 : Front(breaks)[i] = breaks[i]
        BY FrontAny
    <2>2. Len(breaks) \in Nat /\ DOMAIN breaks = 1 .. Len(breaks)
        BY SeqFacts
    <2> QED
        BY <2>1, <2>2
<1>3. ByContinue(Front(loops)) \subseteq ByContinue(loops)
    BY <1>1 DEF ByContinue
<1>4. ByBreak(Front(breaks)) \subseteq ByBreak(breaks)
    BY <1>2 DEF ByBreak
<1> QED
    BY <1>1, <1>2, <1>3, <1>4 DEF JumpedTo

LEMMA LoopCloses ==
    ASSUME EmitInv, NEW f, NEW n, NEW c, NEW T, NEW W, NEW U, NEW H, NEW j,
           Amid(f, Front(frames), n, c, T, W, U, program, H, j), c \notin T, W \subseteq {c} \cup T,
           Due \subseteq H, j \in Nat, Len(breakables) = j + 1, Close(f)
    PROVE  Kept
<1>1. IsSeq(loopsInfo) /\ IsSeq(breakables) /\ Len(breakables) <= Len(loopsInfo)
    BY DEF EmitInv, Going
<1>2. Len(loopsInfo) \in Nat /\ Len(loopsInfo) # 0 /\ Len(breakables) # 0
    BY <1>1, SeqFacts
<1>3. PICK fs, loops, bs : fs = Front(frames) /\ loops = Front(loopsInfo) /\ bs = Front(breakables)
    OBVIOUS
<1>4. /\ IsSeq(loops) /\ Len(loops) = Len(loopsInfo) - 1 /\ IsSeq(bs) /\ Len(bs) = Len(breakables) - 1
      /\ JumpedTo(loops, bs) \subseteq JumpedTo(loopsInfo, breakables)
    BY <1>1, <1>2, <1>3, RecordsGo
<1>5. Len(bs) = j /\ Len(bs) <= Len(loops)
    BY <1>1, <1>2, <1>4
<1>6. PICK J : J = {1} \cup JumpedTo(loops, bs)
    OBVIOUS
<1>7. J \subseteq H \cup {c} \cup T
    BY <1>4, <1>6 DEF Due
<1>8. Rests(f, fs, n, c, T, program, J, j)
    BY <1>3, <1>7, SentencesGoOn
<1>9. Going(f, fs, program, loops, bs)
    BY <1>4, <1>5, <1>6, <1>8 DEF Going
<1>10. /\ fn' = f /\ frames' = fs /\ phase' = phase /\ loopsInfo' = loops
       /\ breakables' = bs /\ program' = program
    BY <1>3 DEF Close, Still
<1> QED
    BY <1>9, <1>10 DEF Kept

(* From the end of the body to the condition.                              *)
AtCondition(g, a, d, W, U) ==
    \E n, T, H, j :
       /\ Amid(g, Front(frames), n, d, T, W, U, program, H, j) /\ d \notin T
       /\ Due \cup Back(a) \subseteq H /\ AfterOK(a)
       /\ j \in Nat /\ Len(breakables) = IF IsBreaking(a) THEN j + 1 ELSE j

LEMMA ToCondition ==
    ASSUME EmitInv, NEW a, a = Top.after, a.is \in {"loop if", "loop to", "loop in"},
           NEW b \in Back(a), NEW d, d = a.cond,
           NEW g, g = SetActive(AddBranch(DestroyLocals(fn, b), d), d),
           NEW W, W = Reserved(a), NEW U, U = W \ {d}
    PROVE  AtCondition(g, a, d, W, U)
<1>1. PICK n, c, T, H, j :
              /\ Amid(fn, Front(frames), n, c, T, {c} \cup Promised(a), Reserved(a), program, H, j)
              /\ H = Due \cup Back(a)
              /\ Len(breakables) = IF IsBreaking(a) THEN j + 1 ELSE j
              /\ j \in Nat /\ Mentions(a) \subseteq 1 .. n /\ AfterOK(a) /\ Here = c /\ c \in 1 .. n
    BY BodyIsOver
<1>2. Promised(a) = W /\ d \in W
    BY DEF Promised, Reserved
<1>3. PICK gs, V, f, h, S : /\ gs = Front(frames) /\ V = {c} \cup W /\ f = DestroyLocals(fn, b)
                            /\ h = AddBranch(f, d) /\ S = T \cup {c}
    OBVIOUS
<1>4. Amid(fn, gs, n, c, T, V, W, program, H, j)
    BY <1>1, <1>2, <1>3
<1>5. b \in 1 .. n
    BY <1>1 DEF Mentions
<1>6. Amid(f, gs, n, c, T, V, W, program, H, j)
    BY <1>3, <1>4, <1>5, AmidDestroy
<1>7. d \in W \cup T \cup {c} \cup H /\ V \subseteq W \cup T \cup {c}
    BY <1>2, <1>3
<1>8. Amid(h, gs, n, c, S, W, W, program, H, j)
    BY <1>3, <1>6, <1>7, AmidBranch
<1>9. d \in W /\ g = SetActive(h, d) /\ U = W \ {d}
    BY <1>2, <1>3
<1>10. Amid(g, gs, n, d, S, W, U, program, H, j) /\ d \notin S
    BY ONLY <1>8, <1>9, Activated
<1> QED
    BY <1>1, <1>3, <1>10 DEF AtCondition

LEMMA EndLoopIfIsKept ==
    ASSUME EmitInv, EndLoopIf
    PROVE  Kept
<1>1. PICK a, d, t, r : a = Top.after /\ d = a.cond /\ t = a.true /\ r = a.rest
    OBVIOUS
<1>2. a.is = "loop if"
    BY <1>1 DEF EndLoopIf, After
<1>3. PICK W, U, g : /\ W = Reserved(a) /\ U = W \ {d}
                     /\ g = SetActive(AddBranch(DestroyLocals(fn, t), d), d)
    OBVIOUS
<1>4. Back(a) = {t} /\ t \in Back(a) /\ a.is \in {"loop if", "loop to", "loop in"}
    BY <1>1, <1>2 DEF Back, Loops
<1>14. AtCondition(g, a, d, W, U)
    BY <1>1, <1>3, <1>4, ToCondition
<1>5. PICK n, T, H, j :
              /\ Amid(g, Front(frames), n, d, T, W, U, program, H, j) /\ d \notin T
              /\ Due \cup Back(a) \subseteq H /\ AfterOK(a)
              /\ j \in Nat /\ Len(breakables) = IF IsBreaking(a) THEN j + 1 ELSE j
    BY <1>14 DEF AtCondition
<1>15. t \in H /\ Due \subseteq H
    BY <1>4, <1>5
<1>6. Len(breakables) = j + 1
    BY <1>2, <1>5 DEF IsBreaking
<1>7. W = {d, r} /\ U = {r} /\ r \in U /\ d # r
    BY <1>1, <1>2, <1>3, <1>5 DEF Reserved, AfterOK
<1>8. PICK h, i, V, S, Z : /\ h = Emit(g, <<CondBr(t, r, "unknown")>>) /\ i = SetActive(h, r)
                           /\ V = {r} /\ S = T \cup {d} /\ Z = U \ {r}
    OBVIOUS
<1>9. /\ LiveOf(CondBr(t, r, "unknown")) \subseteq V \cup T \cup {d} \cup H
      /\ W \subseteq V \cup T \cup {d}
    <2>1. LiveOf(CondBr(t, r, "unknown")) \subseteq {t, r}
        BY BothLive
    <2> QED
        BY <1>7, <1>8, <1>15, <2>1
<1>10. Amid(h, Front(frames), n, d, S, V, U, program, H, j)
    BY <1>5, <1>8, <1>9, AmidCondBr
<1>11. Amid(i, Front(frames), n, r, S, V, Z, program, H, j) /\ r \notin S
    <2>1. r \in U /\ i = SetActive(h, r) /\ Z = U \ {r}
        BY <1>7, <1>8
    <2> QED
        BY ONLY <1>10, <2>1, Activated
<1>12. V \subseteq {r} \cup S /\ Due \subseteq H
    BY <1>5, <1>8
<1>13. Close(i)
    BY <1>1, <1>3, <1>8 DEF EndLoopIf
<1> QED
    BY <1>5, <1>6, <1>11, <1>12, <1>13, LoopCloses

LEMMA EndLoopToIsKept ==
    ASSUME EmitInv, EndLoopTo
    PROVE  Kept
<1>1. PICK a, d, t, r : a = Top.after /\ d = a.cond /\ t = a.true /\ r = a.rest
    OBVIOUS
<1>2. a.is = "loop to"
    BY <1>1 DEF EndLoopTo, After
<1>3. PICK W, U, g : /\ W = Reserved(a) /\ U = W \ {d}
                     /\ g = SetActive(AddBranch(DestroyLocals(fn, t), d), d)
    OBVIOUS
<1>4. Back(a) = {t} /\ t \in Back(a) /\ a.is \in {"loop if", "loop to", "loop in"}
    BY <1>1, <1>2 DEF Back, Loops
<1>14. AtCondition(g, a, d, W, U)
    BY <1>1, <1>3, <1>4, ToCondition
<1>5. PICK n, T, H, j :
              /\ Amid(g, Front(frames), n, d, T, W, U, program, H, j) /\ d \notin T
              /\ Due \cup Back(a) \subseteq H /\ AfterOK(a)
              /\ j \in Nat /\ Len(breakables) = IF IsBreaking(a) THEN j + 1 ELSE j
    BY <1>14 DEF AtCondition
<1>15. t \in H /\ Due \subseteq H
    BY <1>4, <1>5
<1>6. Len(breakables) = j + 1
    BY <1>2, <1>5 DEF IsBreaking
<1>7. W = {d, r} /\ U = {r} /\ r \in U /\ d # r
    BY <1>1, <1>2, <1>3, <1>5 DEF Reserved, AfterOK
<1>8. PICK h, i, V, S, Z : /\ h = Emit(g, <<OnLocal("use", a.index, ""), CondBr(t, r, "unknown")>>)
                           /\ i = SetActive(h, r)
                           /\ V = {r} /\ S = T \cup {d} /\ Z = U \ {r}
    OBVIOUS
<1>9. /\ LiveOf(CondBr(t, r, "unknown")) \subseteq V \cup T \cup {d} \cup H
      /\ W \subseteq V \cup T \cup {d}
    <2>1. LiveOf(CondBr(t, r, "unknown")) \subseteq {t, r}
        BY BothLive
    <2> QED
        BY <1>7, <1>8, <1>15, <2>1
<1>10. Amid(h, Front(frames), n, d, S, V, U, program, H, j)
    BY <1>5, <1>8, <1>9, AmidUseThenBr
<1>11. Amid(i, Front(frames), n, r, S, V, Z, program, H, j) /\ r \notin S
    <2>1. r \in U /\ i = SetActive(h, r) /\ Z = U \ {r}
        BY <1>7, <1>8
    <2> QED
        BY ONLY <1>10, <2>1, Activated
<1>12. V \subseteq {r} \cup S /\ Due \subseteq H
    BY <1>5, <1>8
<1>13. Close(i)
    BY <1>1, <1>3, <1>8 DEF EndLoopTo
<1> QED
    BY <1>5, <1>6, <1>11, <1>12, <1>13, LoopCloses

LEMMA EndLoopEverIsKept ==
    ASSUME EmitInv, EndLoop
    PROVE  Kept
<1>1. PICK a : a = Top.after
    OBVIOUS
<1>2. a.is = "loop"
    BY <1>1 DEF EndLoop, After
<1>3. PICK n, c, T, H, j :
              /\ Amid(fn, Front(frames), n, c, T, {c} \cup Promised(a), Reserved(a), program, H, j)
              /\ H = Due \cup Back(a)
              /\ Len(breakables) = IF IsBreaking(a) THEN j + 1 ELSE j
              /\ j \in Nat /\ Mentions(a) \subseteq 1 .. n /\ AfterOK(a) /\ Here = c /\ c \in 1 .. n
    BY <1>1, <1>2, BodyIsOver
<1>4. /\ Reserved(a) = {a.rest} /\ Promised(a) = {a.rest} /\ Back(a) = {a.true} /\ a.true \in 1 .. n
      /\ Len(breakables) = j + 1
    BY <1>2, <1>3 DEF Reserved, Promised, Mentions, Back, Loops, IsBreaking
<1>5. PICK gs, W, R, f, g, h, S, Z :
              /\ gs = Front(frames) /\ W = {c, a.rest} /\ R = {a.rest} /\ f = DestroyLocals(fn, a.true)
              /\ g = AddBranch(f, a.true) /\ h = SetActive(g, a.rest) /\ S = T \cup {c} /\ Z = R \ {a.rest}
    OBVIOUS
<1>6. Amid(fn, gs, n, c, T, W, R, program, H, j)
    <2>1. {c} \cup Promised(a) = W
        BY <1>4, <1>5
    <2> QED
        BY <1>3, <1>4, <1>5, <2>1
<1>7. Amid(f, gs, n, c, T, W, R, program, H, j)
    BY <1>4, <1>5, <1>6, AmidDestroy
<1>8. a.true \in R \cup T \cup {c} \cup H /\ W \subseteq R \cup T \cup {c} /\ a.rest \in R
    BY <1>3, <1>4, <1>5
<1>9. Amid(g, gs, n, c, S, R, R, program, H, j)
    BY <1>5, <1>7, <1>8, AmidBranch
<1>10. Amid(h, gs, n, a.rest, S, R, Z, program, H, j) /\ a.rest \notin S
    BY <1>5, <1>8, <1>9, Activated
<1>11. R \subseteq {a.rest} \cup S /\ Due \subseteq H
    BY <1>3, <1>5
<1>12. Close(h)
    BY <1>1, <1>5 DEF EndLoop
<1> QED
    BY <1>3, <1>4, <1>5, <1>10, <1>11, <1>12, LoopCloses

LEMMA EndLoopInIsKept ==
    ASSUME EmitInv, EndLoopIn
    PROVE  Kept
<1>1. PICK a, d, t, r, l : a = Top.after /\ d = a.cond /\ t = a.true /\ r = a.rest /\ l = a.body
    OBVIOUS
<1>2. a.is = "loop in"
    BY <1>1 DEF EndLoopIn, After
<1>3. PICK W, U, f : /\ W = Reserved(a) /\ U = W \ {d}
                     /\ f = SetActive(AddBranch(DestroyLocals(fn, l), d), d)
    OBVIOUS
<1>4. Back(a) = {l} /\ l \in Back(a) /\ a.is \in {"loop if", "loop to", "loop in"}
    BY <1>1, <1>2 DEF Back, Loops
<1>4a. AtCondition(f, a, d, W, U)
    BY <1>1, <1>3, <1>4, ToCondition
<1>5. PICK n, T, H, j :
              /\ Amid(f, Front(frames), n, d, T, W, U, program, H, j) /\ d \notin T
              /\ Due \cup Back(a) \subseteq H /\ AfterOK(a)
              /\ j \in Nat /\ Len(breakables) = IF IsBreaking(a) THEN j + 1 ELSE j
    BY <1>4a DEF AtCondition
<1>5a. l \in H /\ Due \subseteq H
    BY <1>4, <1>5
<1>6. Len(breakables) = j
    BY <1>2, <1>5 DEF IsBreaking
<1>7. /\ W = {d, t, r} /\ U = {t, r}
      /\ d # t /\ d # r /\ t # r
    BY <1>1, <1>2, <1>3, <1>5 DEF Reserved, AfterOK
<1>8. PICK e, g, V, S, Z : /\ e = Emit(f, <<CondBr(t, r, "unknown")>>) /\ g = SetActive(e, t)
                           /\ V = {t, r} /\ S = T \cup {d} /\ Z = U \ {t}
    OBVIOUS
<1>9. /\ LiveOf(CondBr(t, r, "unknown")) \subseteq V \cup T \cup {d} \cup H
      /\ W \subseteq V \cup T \cup {d} /\ t \in U /\ Z = {r}
    BY <1>7, <1>8, BothLive
<1>10. Amid(e, Front(frames), n, d, S, V, U, program, H, j)
    BY <1>5, <1>8, <1>9, AmidCondBr
<1>11. Amid(g, Front(frames), n, t, S, V, Z, program, H, j) /\ t \notin S
    BY <1>8, <1>9, <1>10, Activated
<1>12. PICK h, i, X, Y, E : /\ h = AddBranch(g, l) /\ i = SetActive(h, r)
                            /\ X = {r} /\ Y = S \cup {t} /\ E = Z \ {r}
    OBVIOUS
<1>13. l \in X \cup S \cup {t} \cup H /\ V \subseteq X \cup S \cup {t} /\ r \in Z
    BY <1>4, <1>5, <1>8, <1>9, <1>12
<1>14. Amid(h, Front(frames), n, t, Y, X, Z, program, H, j)
    BY <1>11, <1>12, <1>13, AmidBranch
<1>15. Amid(i, Front(frames), n, r, Y, X, E, program, H, j) /\ r \notin Y
    BY <1>12, <1>13, <1>14, Activated
<1>16. X \subseteq {r} \cup Y /\ Due \subseteq H \cup {r} \cup Y
    BY <1>5, <1>12
<1>17. Rests(i, Front(frames), n, r, Y, program, Due, Len(breakables))
    BY <1>6, <1>15, <1>16, SentencesGoOn
<1>18. Go(i, Front(frames))
    BY <1>1, <1>3, <1>8, <1>12 DEF EndLoopIn
<1> QED
    BY <1>17, <1>18, GoingOn

-----------------------------------------------------------------------------
(* The end of the function, and the run.                                   *)
LEMMA BlockRuns ==
    ASSUME NEW f, Closed(f), NEW b \in Terminated(f)
    PROVE  Runs(f, b, 1)
<1>1. b \in DOMAIN f.blocks /\ IsSeq(f.blocks[b].code)
    BY DEF Closed, Terminated
<1>2. PICK i \in DOMAIN f.blocks[b].code : f.blocks[b].code[i].op \in Terminators
    BY DEF Terminated, IsTerminated
<1>3. i \in 1 .. Len(f.blocks[b].code) /\ Len(f.blocks[b].code) \in Nat
    BY <1>1, <1>2, SeqFacts
<1> QED
    BY <1>1, <1>2, <1>3 DEF Runs

LEMMA AllIsClosed ==
    ASSUME NEW f, NEW n, NEW c, NEW T, NEW G, NEW X, Sum(f, n, c, T, G, X), G \subseteq T
    PROVE  Closed(f) /\ Terminated(f) = T /\ DOMAIN f.blocks = 1 .. n /\ (X = {} => OneEnds(f))
<1>1. DOMAIN f.blocks = 1 .. n /\ \A k \in 1 .. n : IsBlockAt(f.blocks, Len(f.locals), k)
    BY Parts
<1>2. \A k \in 1 .. n : IsSeq(f.blocks[k].code)
    BY <1>1 DEF IsBlockAt
<1>3. Terminated(f) = T /\ \A b \in 1 .. n : \A i \in DOMAIN f.blocks[b].code : LiveOf(f.blocks[b].code[i]) \subseteq G
    BY DEF Sum
<1>4. \A b \in (1 .. n) \ X : OneEnd(f.blocks[b].code)
    BY DEF Sum
<1> QED
    BY <1>1, <1>2, <1>3, <1>4 DEF Closed, OneEnds

Gives(f, c) == f.blocks[c].code # <<>> /\ Last(f.blocks[c].code).op = "ret"

LEMMA FunctionIsOver ==
    ASSUME NEW f, NEW fs, NEW n, NEW c, NEW T, NEW p, NEW H, NEW k, Rests(f, fs, n, c, T, p, H, k),
           Last(fs).after.is = "function"
    PROVE  /\ Sum(f, n, c, T, T \cup {c}, {}) /\ H \subseteq T \cup {c} /\ c \in 1 .. n
           /\ c \in T => StrayIn(p) \/ Gives(f, c)
<1>1. Sound(f, fs, H, p, n, c, T)
    BY DEF Rests
<1>2. FramesOK(fs, p)
    BY <1>1 DEF Sound
<1>3. DOMAIN fs = 1 .. 1 /\ Last(fs) = fs[1]
    <2>1. DOMAIN fs = 1 .. Len(fs) /\ Last(fs) = fs[Len(fs)] /\ Len(fs) \in DOMAIN fs
        BY <1>2, FramesFacts
    <2>2. Len(fs) = 1
        BY <1>2, <2>1 DEF FramesOK
    <2> QED
        BY <2>1, <2>2
<1>4. AllPromised(fs) = {}
    <2>1. \A i \in DOMAIN fs : fs[i] = Last(fs)
        BY <1>3
    <2>2. \A i \in DOMAIN fs : Promised(fs[i].after) = {}
        BY <2>1 DEF Promised, Reserved
    <2> QED
        BY <2>2 DEF AllPromised
<1>5. T \cup {c} \cup AllPromised(fs) = T \cup {c}
    BY <1>4
<1>6. Sum(f, n, c, T, T \cup {c}, {}) /\ H \subseteq T \cup {c}
    BY <1>1, <1>5 DEF Sound
<1>7. c \in T => StrayIn(p) \/ Gives(f, c)
    BY <1>1, <1>3 DEF Sound, Gives
<1> QED
    BY <1>6, <1>7, SumFacts

(* What the end of the function gives.                                     *)
Ready(f, p) == Runs(f, 1, 1) /\ (~StrayIn(p) => OneEnds(f))

LEMMA AllReady ==
    ASSUME NEW f, NEW n, NEW c, NEW T, NEW G, NEW X, Sum(f, n, c, T, G, X), G \subseteq T, 1 \in T,
           NEW p, X = {} \/ StrayIn(p)
    PROVE  Ready(f, p)
    BY AllIsClosed, BlockRuns DEF Ready

LEMMA FunctionEnds ==
    ASSUME EmitInv, EndFunction
    PROVE  \/ phase' \in {"error", "crash"} /\ program' = program /\ fn' = fn
           \/ /\ phase' = "run" /\ program' = program
              /\ at' = [block |-> 1, next |-> 1] /\ Ready(fn', program)
<1>1. PICK n, c, T : Rests(fn, frames, n, c, T, program, Due, Len(breakables))
    BY DEF EmitInv, Going, Due
<1>2. Last(frames).after.is = "function"
    BY DEF EndFunction, After, Top
<1>3. PICK G : G = T \cup {c}
    OBVIOUS
<1>4. /\ Sum(fn, n, c, T, G, {}) /\ 1 \in G /\ c \in 1 .. n
      /\ c \in T => StrayIn(program) \/ Gives(fn, c)
    <2>1. PICK H, k : Rests(fn, frames, n, c, T, program, H, k) /\ 1 \in H
        BY <1>1 DEF Due
    <2>2. Sum(fn, n, c, T, T \cup {c}, {})
        BY <1>2, <2>1, FunctionIsOver
    <2>3. H \subseteq T \cup {c} /\ c \in 1 .. n
        BY <1>2, <2>1, FunctionIsOver
    <2>4. c \in T => StrayIn(program) \/ Gives(fn, c)
        BY <1>2, <2>1, FunctionIsOver
    <2> QED
        BY <1>3, <2>1, <2>2, <2>3, <2>4
<1>5. Here = c
    BY <1>4 DEF Sum, Here
<1>7. CASE Fail("error")
    BY <1>7 DEF Fail, emitVars
<1>8. CASE ~Fail("error")
    <2>1. /\ fn' = IF Gives(fn, c) THEN fn ELSE Emit(DestructorCaller(fn), <<Ret("void")>>)
          /\ phase' = "run" /\ program' = program /\ at' = [block |-> 1, next |-> 1]
        BY <1>5, <1>8 DEF EndFunction, Gives
    <2>2. CASE Gives(fn, c)
        <3>1. c \in T
            <4>1. PICK code : code = fn.blocks[c].code
                OBVIOUS
            <4>2. IsSeq(code) /\ code # <<>> /\ Last(code).op = "ret"
                BY <1>4, <2>2, <4>1, CodeFacts DEF Gives
            <4>3. Len(code) \in DOMAIN code /\ Last(code) = code[Len(code)]
                BY <4>2, SeqFacts DEF Last
            <4>4. IsTerminated(fn.blocks[c])
                BY <4>1, <4>2, <4>3 DEF IsTerminated, Terminators
            <4> QED
                BY <1>4, <4>4, CodeFacts
        <3>2. G \subseteq T /\ 1 \in T
            BY <1>3, <1>4, <3>1
        <3>3. Ready(fn, program)
            BY <1>4, <3>2, AllReady
        <3> QED
            BY <2>1, <2>2, <3>3
    <2>3. CASE ~Gives(fn, c)
        <3>1. PICK X : X = IF c \in T THEN {c} ELSE {}
            OBVIOUS
        <3>2. (X = {} \/ StrayIn(program)) /\ (c \in X \/ c \notin T)
            BY <1>4, <2>3, <3>1
        <3>3. Sum(fn, n, c, T, G, X)
            BY <1>4 DEF Sum
        <3>4. PICK g, x, f : g = DestructorCaller(fn) /\ x = Ret("void") /\ f = Emit(g, <<x>>)
            OBVIOUS
        <3>5. Sum(g, n, c, T, G, X)
            BY <3>2, <3>3, <3>4, DestructorCallerKeeps
        <3>6. x.op = "ret" /\ LiveOf(x) = {}
            BY <3>4 DEF Ret, Instr, LiveOf
        <3>7. x.op \in {"br", "cond", "ret"}
            BY <3>6
        <3>8. Sum(f, n, c, T \cup {c}, G \cup LiveOf(x), X)
            BY <3>2, <3>4, <3>5, <3>7, EndsWith
        <3>9. Sum(f, n, c, G, G, X)
            BY <1>3, <3>6, <3>8
        <3>10. Ready(f, program)
            BY <1>4, <3>2, <3>9, AllReady
        <3> QED
            BY <2>1, <2>3, <3>4, <3>10
    <2> QED
        BY <2>1, <2>2, <2>3
<1> QED
    BY <1>7, <1>8

(* An instruction of the run.                                              *)
LEMMA RunGoesOn ==
    ASSUME RunInv, Execute
    PROVE  phase' = "run" => RunInv'
<1>1. PICK b, i, code : b = at.block /\ i = at.next /\ code = fn.blocks[b].code
    OBVIOUS
<1>2. /\ at = [block |-> b, next |-> i] /\ Closed(fn) /\ b \in DOMAIN fn.blocks /\ i \in Nat \ {0}
      /\ IsSeq(code) /\ i <= Len(code) /\ phase = "run" /\ fn' = fn /\ Code = code[i]
    BY <1>1 DEF RunInv, Runs, Closed, Execute, Running, emitVars, Code
<1>3. PICK j \in DOMAIN code : i <= j /\ code[j].op \in Terminators
    BY <1>1 DEF RunInv, Runs
<1>4. DOMAIN code = 1 .. Len(code) /\ Len(code) \in Nat /\ i \in DOMAIN code /\ j \in Nat
    BY <1>2, <1>3, SeqFacts
<1>5. PICK x : x = code[i]
    OBVIOUS
<1>6. LiveOf(x) \subseteq Terminated(fn)
    BY <1>1, <1>2, <1>4, <1>5 DEF Closed
<1>7. CASE x.op \in {"br", "cond"}
    <2>1. PICK t : /\ at' = [block |-> t, next |-> 1]
                   /\ t \in IF x.op = "br" \/ x.why = "true" THEN {x.yes}
                            ELSE IF x.why = "false" THEN {x.no} ELSE {x.yes, x.no}
        BY <1>2, <1>5, <1>7 DEF Execute
    <2>2. t \in Terminated(fn)
        BY <1>6, <1>7, <2>1 DEF LiveOf
    <2>3. Runs(fn, t, 1)
        BY <1>2, <2>2, BlockRuns
    <2> QED
        BY <1>2, <2>1, <2>3 DEF RunInv
<1>8. CASE x.op = "ret"
    BY <1>2, <1>5, <1>8 DEF Execute
<1>9. CASE x.op \notin {"br", "cond", "ret"}
    <2>1. at' = [at EXCEPT !.next = @ + 1]
        BY <1>2, <1>5, <1>9 DEF Execute
    <2>2. at' = [block |-> b, next |-> i + 1]
        BY <1>2, <2>1
    <2>3. i # j
        BY <1>3, <1>5, <1>9 DEF Terminators
    <2>4. i + 1 <= j /\ i + 1 \in Nat \ {0}
        BY <1>2, <1>3, <1>4, <2>3
    <2>5. Runs(fn, b, i + 1)
        BY <1>1, <1>2, <1>3, <2>4 DEF Runs
    <2> QED
        BY <1>2, <2>2, <2>5 DEF RunInv
<1> QED
    BY <1>7, <1>8, <1>9

-----------------------------------------------------------------------------
(* The function at first: one block, that initialises the arguments.       *)
(* The first block and its arguments.                                      *)
Shaped(args, m, f, ls, vs, code, x) ==
    /\ ls = [i \in 1 .. m |-> Local(args[i], "argument", NoSite)]
    /\ vs = [i \in 1 .. m |-> i]
    /\ code = [i \in 1 .. m |-> OnLocal("init", i, "")]
    /\ x = [parent |-> 0, previous |-> 0, next |-> 0, active |-> 0, values |-> vs, code |-> code]
    /\ f = [blocks |-> <<x>>, locals |-> ls, active |-> 1]

LEMMA FirstShape ==
    ASSUME NEW args, NEW m, DOMAIN args = 1 .. m, NEW f, f = WithArgs(args)
    PROVE  \E ls, vs, code, x : Shaped(args, m, f, ls, vs, code, x)
<1>2. PICK ls, vs, code : /\ ls = [i \in 1 .. m |-> Local(args[i], "argument", NoSite)]
                          /\ vs = [i \in 1 .. m |-> i]
                          /\ code = [i \in 1 .. m |-> OnLocal("init", i, "")]
    OBVIOUS
<1>3. PICK x : x = [parent |-> 0, previous |-> 0, next |-> 0, active |-> 0, values |-> vs, code |-> code]
    OBVIOUS
<1>4. f = [blocks |-> <<x>>, locals |-> ls, active |-> 1]
    <2>1. PICK y, z : /\ y = [parent |-> 0, previous |-> 0, next |-> 0, active |-> 0, values |-> <<>>, code |-> <<>>]
                      /\ z = [parent |-> 0, previous |-> 0, next |-> 0, active |-> 0, values |-> vs, code |-> <<>>]
        OBVIOUS
    <2>2. [y EXCEPT !.values = vs] = z /\ [z EXCEPT !.code = code] = x
        BY <1>3, <2>1
    <2>3. \A u, v : [<<u>> EXCEPT ![1] = v] = <<v>> /\ <<u>>[1] = u
        OBVIOUS
    <2>4. NewFunction = [blocks |-> <<y>>, locals |-> <<>>, active |-> 1]
        BY <2>1 DEF NewFunction, Block
    <2>5. f = [NewFunction EXCEPT !.locals = ls, !.blocks[1].values = vs, !.blocks[1].code = code]
        BY <1>2 DEF WithArgs
    <2>6. [NewFunction EXCEPT !.locals = ls] = [blocks |-> <<y>>, locals |-> ls, active |-> 1]
        BY <2>4
    <2>7. [[blocks |-> <<y>>, locals |-> ls, active |-> 1] EXCEPT !.blocks[1].values = vs]
             = [blocks |-> <<z>>, locals |-> ls, active |-> 1]
        BY <2>2, <2>3
    <2>8. [[blocks |-> <<z>>, locals |-> ls, active |-> 1] EXCEPT !.blocks[1].code = code]
             = [blocks |-> <<x>>, locals |-> ls, active |-> 1]
        BY <2>2, <2>3
    <2> QED
        BY <2>5, <2>6, <2>7, <2>8
<1> QED
    BY <1>2, <1>3, <1>4 DEF Shaped

LEMMA FirstBlock ==
    ASSUME NEW args, IsSeq(args), NEW f, f = WithArgs(args)
    PROVE  Sum(f, 1, 1, {}, {1}, {})
<1>1. PICK m \in Nat : m = Len(args) /\ DOMAIN args = 1 .. m
    BY SeqFacts
<1>2. PICK ls, vs, code, x : Shaped(args, m, f, ls, vs, code, x)
    BY <1>1, FirstShape
<1>3. /\ ls = [i \in 1 .. m |-> Local(args[i], "argument", NoSite)]
      /\ vs = [i \in 1 .. m |-> i]
      /\ code = [i \in 1 .. m |-> OnLocal("init", i, "")]
      /\ x = [parent |-> 0, previous |-> 0, next |-> 0, active |-> 0, values |-> vs, code |-> code]
    BY <1>2 DEF Shaped
<1>4. f = [blocks |-> <<x>>, locals |-> ls, active |-> 1]
    BY <1>2 DEF Shaped
<1>5. x.active = 0 /\ x.code = code
    BY <1>3
<1>6. IsSeq(ls) /\ Len(ls) = m
    <2>1. ls \in [1 .. m -> {Local(args[i], "argument", NoSite) : i \in 1 .. m}]
        BY <1>3
    <2> QED
        BY <2>1, FunctionIsSeq
<1>7. vs \in Seq(1 .. m)
    <2>1. vs \in [1 .. m -> 1 .. m]
        BY <1>3
    <2> QED
        BY <2>1, SeqDef
<1>8. IsSeq(code) /\ DOMAIN code = 1 .. m /\ \A i \in 1 .. m : code[i] = OnLocal("init", i, "")
    <2>1. code \in [1 .. m -> {OnLocal("init", i, "") : i \in 1 .. m}]
        BY <1>3
    <2>2. IsSeq(code)
        BY <2>1, FunctionIsSeq
    <2> QED
        BY <1>3, <2>2
<1>9. \A i \in DOMAIN code : code[i].op = "init" /\ LiveOf(code[i]) = {}
    <2>1. ASSUME NEW i PROVE OnLocal("init", i, "").op = "init" /\ LiveOf(OnLocal("init", i, "")) = {}
        BY DEF OnLocal, Instr, LiveOf
    <2> QED
        BY <1>8, <2>1
<1>10. PICK bs : bs = <<x>> /\ IsSeq(bs) /\ Len(bs) = 1 /\ DOMAIN bs = 1 .. 1 /\ bs[1] = x
    BY SingletonIsSeq
<1>11. IsBlockAt(bs, m, 1)
    <2>1. /\ x.parent = 0 /\ x.previous = 0 /\ x.next = 0 /\ x.active = 0 /\ x.values = vs /\ x.code = code
          /\ BlockFields(x)
        BY <1>3 DEF BlockFields
    <2>2. 0 \in 0 .. 1 - 1
        OBVIOUS
    <2> QED
        BY <1>7, <1>8, <1>10, <2>1, <2>2 DEF IsBlockAt
<1>12. Built(f) /\ f.blocks = bs /\ f.active = 1
    <2>1. \A k \in 1 .. Len(bs) : IsBlockAt(bs, Len(ls), k)
        <3>1. \A k \in 1 .. Len(bs) : k = 1
            BY <1>10
        <3> QED
            BY <1>6, <1>11, <3>1
    <2>2. 1 \in 1 .. Len(bs)
        BY <1>10
    <2>3. Built([blocks |-> bs, locals |-> ls, active |-> 1])
        BY <1>6, <1>10, <2>1, <2>2, BuiltOf
    <2> QED
        BY <1>4, <1>10, <2>3
<1>13. Current(f) = 1
    <2>1. Leads(f, 1)
        <3>1. {1} \in SUBSET DOMAIN f.blocks /\ f.active \in {1} /\ f.blocks[1].active = 0
            BY <1>10, <1>12, <1>5
        <3> QED
            BY <3>1 DEF Leads
    <2> QED
        BY <1>12, <2>1, CurrentIs
<1>14. f.blocks[1].code = code /\ \A b \in 1 .. 1 : b = 1
    BY <1>10, <1>12, <1>5
<1>15. Terminated(f) = {}
    BY <1>9, <1>10, <1>12, <1>14 DEF Terminated, IsTerminated, Terminators
<1>16. OneEnd(code)
    BY <1>9 DEF OneEnd, Terminators
<1> QED
    BY <1>9, <1>10, <1>12, <1>13, <1>14, <1>15, <1>16 DEF Sum

LEMMA FirstFrame ==
    ASSUME NEW p \in Programs, NEW fs, fs = <<Frame(p.body, [is |-> "function"])>>
    PROVE  Framed(fs, p, {}, {}, {}, {}, 0) /\ ~Last(fs).ended /\ ~fs[1].ended
<1>1. PICK a, x : a = [is |-> "function"] /\ x = Frame(p.body, a)
    OBVIOUS
<1>2. p.body \in Seq(Sentences) /\ a.is = "function" /\ AfterOK(a)
    BY <1>1, SentencesAssumption DEF AfterOK
<1>3. FrameOK(x) /\ x.ended = FALSE /\ x.after = a /\ x.body = p.body
    <2>1. FrameOK(x) /\ x.ended = FALSE /\ x.after = a
        BY <1>1, <1>2, FrameBegins
    <2> QED
        BY <1>1, <2>1 DEF Frame
<1>4. IsSeq(fs) /\ Len(fs) = 1 /\ DOMAIN fs = 1 .. 1 /\ fs[1] = x /\ \A i \in 1 .. 1 : i = 1
    BY <1>1, SingletonIsSeq
<1>5. Reserved(a) = {} /\ Promised(a) = {} /\ Back(a) = {} /\ Mentions(a) = {}
    BY <1>2 DEF Reserved, Promised, Back, Mentions, Loops
<1>6. /\ AllReserved(fs) = {} /\ AllPromised(fs) = {} /\ AllBack(fs) = {} /\ AllMentioned(fs) = {}
      /\ Breaking(fs) = {}
    <2>1. \A i \in DOMAIN fs : fs[i].after = a
        BY <1>3, <1>4
    <2> QED
        BY <1>2, <1>5, <2>1 DEF AllReserved, AllPromised, AllBack, AllMentioned, Breaking
<1>7. fs # <<>>
    BY <1>4, SeqFacts
<1>8. FramesOK(fs, p)
    BY <1>2, <1>3, <1>4, <1>7 DEF FramesOK
<1>9. Last(fs) = x
    BY <1>4 DEF Last
<1> QED
    BY <1>3, <1>4, <1>6, <1>8, <1>9, FS_EmptySet DEF Framed

LEMMA Begins ==
    ASSUME Init
    PROVE  IInv
<1>1. /\ program \in Programs /\ fn = WithArgs(program.args) /\ phase = "emit"
      /\ frames = <<Frame(program.body, [is |-> "function"])>> /\ loopsInfo = <<>> /\ breakables = <<>>
    BY DEF Init
<1>2. IsSeq(program.args)
    BY <1>1, SentencesAssumption DEF IsSeq
<1>3. Sum(fn, 1, 1, {}, {1}, {})
    BY <1>1, <1>2, FirstBlock
<1>4. Framed(frames, program, {}, {}, {}, {}, 0) /\ ~Last(frames).ended /\ ~frames[1].ended
    BY <1>1, FirstFrame
<1>5. PICK none : none = <<>> /\ IsSeq(none) /\ Len(none) = 0 /\ DOMAIN none = {}
    BY EmptyIsSeq, SeqFacts
<1>6. JumpedTo(none, none) = {}
    BY <1>5 DEF JumpedTo, ByContinue, ByBreak
<1>7. PICK T, S, H : T = {} /\ S = {1} /\ H = {1} \cup JumpedTo(none, none)
    OBVIOUS
<1>8. H = {1} /\ T \cup {1} \cup AllPromised(frames) = {1}
    BY <1>4, <1>6, <1>7 DEF Framed
<1>9. Sum(fn, 1, 1, T, T \cup {1} \cup AllPromised(frames), {})
    BY <1>3, <1>7, <1>8
<1>10. Sound(fn, frames, H, program, 1, 1, T)
    BY <1>4, <1>7, <1>8, <1>9 DEF Sound, Framed
<1>11. Cardinality(Breaking(frames)) = Len(none)
    BY <1>4, <1>5 DEF Framed
<1>12. Going(fn, frames, program, none, none)
    BY <1>5, <1>7, <1>10, <1>11 DEF Going, Rests
<1>13. OneEnds(fn)
    BY <1>12, BlocksHaveOneEnd
<1> QED
    BY <1>1, <1>5, <1>12, <1>13 DEF IInv, EmitInv

-----------------------------------------------------------------------------
LEMMA EmissionGoesOn ==
    ASSUME Kept, IInv, phase = "emit"
    PROVE  IInv'
<1>1. CASE phase' \in {"error", "crash"} /\ program' = program /\ fn' = fn
    BY <1>1 DEF IInv, StrayContinue
<1>2. CASE phase' = phase /\ program' = program /\ Going(fn', frames', program, loopsInfo', breakables')
    <2>1. OneEnds(fn')
        BY <1>2, BlocksHaveOneEnd
    <2> QED
        BY <1>2, <2>1 DEF IInv, EmitInv
<1> QED
    BY <1>1, <1>2 DEF Kept

LEMMA StepKeeps ==
    ASSUME IInv, [Next]_vars
    PROVE  IInv'
<1>1. ASSUME EmitStep, ~EndFunction
      PROVE  IInv'
    <2>1. phase = "emit"
        BY <1>1 DEF EmitStep, LocalDeclaration, UseEntity, MoveEntity, Assignment, GiveSentence, Break, Continue,
                    IfElse, MatchSentence, EndArm, EndElse, EnterLoopIf, EnterLoopTo, EnterLoop, EnterLoopIn,
                    EndLoopIf, EndLoopTo, EndLoop, EndLoopIn, At, After, Emitting
    <2>2. EmitInv
        BY <2>1 DEF IInv
    <2>3. CASE LocalDeclaration
        BY <2>1, <2>2, <2>3, LetIsKept, EmissionGoesOn
    <2>4. CASE UseEntity \/ MoveEntity
        BY <2>1, <2>2, <2>4, UseIsKept, EmissionGoesOn
    <2>5. CASE Assignment
        BY <2>1, <2>2, <2>5, AssignmentIsKept, EmissionGoesOn
    <2>6. CASE GiveSentence
        BY <2>1, <2>2, <2>6, GiveIsKept, EmissionGoesOn
    <2>7. CASE Break
        BY <2>1, <2>2, <2>7, BreakIsKept, EmissionGoesOn
    <2>8. CASE Continue
        BY <2>1, <2>2, <2>8, ContinueIsKept, EmissionGoesOn
    <2>9. CASE IfElse
        BY <2>1, <2>2, <2>9, IfIsKept, EmissionGoesOn
    <2>10. CASE MatchSentence
        BY <2>1, <2>2, <2>10, MatchIsKept, EmissionGoesOn
    <2>11. CASE EndArm
        BY <2>1, <2>2, <2>11, EndArmIsKept, EmissionGoesOn
    <2>12. CASE EndElse
        BY <2>1, <2>2, <2>12, EndElseIsKept, EmissionGoesOn
    <2>13. CASE EnterLoopIf
        BY <2>1, <2>2, <2>13, LoopIfIsKept, EmissionGoesOn
    <2>14. CASE EnterLoopTo
        BY <2>1, <2>2, <2>14, LoopToIsKept, EmissionGoesOn
    <2>15. CASE EnterLoop
        BY <2>1, <2>2, <2>15, LoopEverIsKept, EmissionGoesOn
    <2>16. CASE EnterLoopIn
        BY <2>1, <2>2, <2>16, LoopInIsKept, EmissionGoesOn
    <2>17. CASE EndLoopIf
        BY <2>1, <2>2, <2>17, EndLoopIfIsKept, EmissionGoesOn
    <2>18. CASE EndLoopTo
        BY <2>1, <2>2, <2>18, EndLoopToIsKept, EmissionGoesOn
    <2>19. CASE EndLoop
        BY <2>1, <2>2, <2>19, EndLoopEverIsKept, EmissionGoesOn
    <2>20. CASE EndLoopIn
        BY <2>1, <2>2, <2>20, EndLoopInIsKept, EmissionGoesOn
    <2> QED
        BY <1>1, <2>3, <2>4, <2>5, <2>6, <2>7, <2>8, <2>9, <2>10, <2>11, <2>12, <2>13, <2>14, <2>15,
           <2>16, <2>17, <2>18, <2>19, <2>20 DEF EmitStep
<1>2. CASE EndFunction
    <2>1. EmitInv
        BY <1>2 DEF EndFunction, After, Emitting, IInv
    <2>2. CASE phase' \in {"error", "crash"} /\ program' = program /\ fn' = fn
        BY <2>2 DEF IInv, StrayContinue
    <2>3. CASE /\ phase' = "run" /\ program' = program
               /\ at' = [block |-> 1, next |-> 1] /\ Ready(fn', program)
        BY <2>3 DEF IInv, RunInv, Ready, StrayIn, StrayContinue
    <2> QED
        BY <1>2, <2>1, <2>2, <2>3, FunctionEnds
<1>3. CASE Execute
    <2>1. program' = program /\ fn' = fn /\ phase = "run" /\ phase' \in {"run", "returned"}
        BY <1>3 DEF Execute, Running, emitVars
    <2>2. phase' = "run" => RunInv'
        BY <1>3, <2>1, RunGoesOn DEF IInv
    <2> QED
        BY <2>1, <2>2 DEF IInv, StrayContinue
<1>4. CASE UNCHANGED vars
    BY <1>4 DEF IInv, EmitInv, RunInv, StrayContinue, vars, emitVars
<1> QED
    BY <1>1, <1>2, <1>3, <1>4 DEF Next, Finished

LEMMA InvariantGives ==
    ASSUME IInv
    PROVE  BlocksAreClosed
<1>1. phase = "run" => Running
    <2>1. SUFFICES ASSUME phase = "run" PROVE Running
        OBVIOUS
    <2>2. Runs(fn, at.block, at.next)
        BY <2>1 DEF IInv, RunInv
    <2>3. PICK code, i : code = fn.blocks[at.block].code /\ i = at.next
        OBVIOUS
    <2>4. IsSeq(code) /\ i \in Nat /\ \E j \in DOMAIN code : i <= j
        BY <2>2, <2>3 DEF Runs, Closed
    <2>5. i <= Len(code)
        BY <2>4, SeqFacts
    <2> QED
        BY <2>1, <2>3, <2>5 DEF Running
<1>2. ~StrayContinue => OneEnds(fn)
    BY DEF IInv
<1> QED
    BY <1>1, <1>2 DEF BlocksAreClosed, OneEnds, OneEnd, OfScope

(* Every block that a run comes to ends in a terminator, and no block has  *)
(* two or anything but destroys of a scope after one, whatever the function*)
(* is made of: FunctionPrototype::emit_definition and the emit of the      *)
(* sentences close each block that they branch to.                         *)
THEOREM BlocksStayClosed == Spec => []BlocksAreClosed
<1>1. Init => IInv
    BY Begins
<1>2. IInv /\ [Next]_vars => IInv'
    BY StepKeeps
<1>3. IInv => BlocksAreClosed
    BY InvariantGives
<1> QED
    BY <1>1, <1>2, <1>3, PTL DEF Spec

-----------------------------------------------------------------------------
(* What is visible.  A block is known by its parent, the block before it   *)
(* and its locals.                                                         *)
Look(f, b) == <<f.blocks[b].parent, f.blocks[b].previous, f.blocks[b].values>>

LEMMA SameLook ==
    ASSUME NEW f, NEW b, NEW g, NEW c
    PROVE  Look(f, b) = Look(g, c) <=>
                 /\ f.blocks[b].parent = g.blocks[c].parent /\ f.blocks[b].previous = g.blocks[c].previous
                 /\ f.blocks[b].values = g.blocks[c].values
    BY DEF Look

LEMMA AnySum ==
    ASSUME NEW f, Built(f)
    PROVE  \E n, G : /\ Sum(f, n, Current(f), Terminated(f), G, 1 .. n) /\ n = Len(f.blocks) /\ n \in Nat
                     /\ Current(f) \in 1 .. n
<1>1. PICK n \in Nat : n = Len(f.blocks) /\ DOMAIN f.blocks = 1 .. n
    BY BuiltFacts
<1>2. PICK G : G = UNION {UNION {LiveOf(f.blocks[b].code[i]) : i \in DOMAIN f.blocks[b].code} : b \in 1 .. n}
    OBVIOUS
<1>3. \A b \in 1 .. n : \A i \in DOMAIN f.blocks[b].code : LiveOf(f.blocks[b].code[i]) \subseteq G
    <2> SUFFICES ASSUME NEW b \in 1 .. n, NEW i \in DOMAIN f.blocks[b].code
                 PROVE  LiveOf(f.blocks[b].code[i]) \subseteq G
        OBVIOUS
    <2>1. PICK S : S = UNION {LiveOf(f.blocks[b].code[j]) : j \in DOMAIN f.blocks[b].code}
        OBVIOUS
    <2>2. LiveOf(f.blocks[b].code[i]) \subseteq S
        BY <2>1
    <2>3. S \subseteq G
        BY <1>2, <2>1
    <2> QED
        BY <2>2, <2>3
<1>4. (1 .. n) \ (1 .. n) = {}
    OBVIOUS
<1>5. Sum(f, n, Current(f), Terminated(f), G, 1 .. n)
    BY <1>1, <1>3, <1>4 DEF Sum
<1> QED
    BY <1>1, <1>5, CurrentLeads

(* The same is seen from every block.                                      *)
Sees(f, g) ==
    /\ Built(g) /\ Len(g.blocks) = Len(f.blocks) /\ g.locals = f.locals
    /\ \A k \in 1 .. Len(f.blocks) : Look(g, k) = Look(f, k)

LEMMA CreateSees ==
    ASSUME NEW f, Built(f), NEW p \in 0 .. Len(f.blocks), NEW g, g = Create(f, p)
    PROVE  /\ Built(g) /\ Len(g.blocks) = Len(f.blocks) + 1 /\ Created(g) = Len(f.blocks) + 1
           /\ g.locals = f.locals /\ Current(g) = Current(f)
           /\ \A k \in 1 .. Len(f.blocks) : Look(g, k) = Look(f, k)
           /\ Look(g, Len(f.blocks) + 1) = <<p, 0, <<>>>>
<1>1. PICK n, G : /\ Sum(f, n, Current(f), Terminated(f), G, 1 .. n) /\ n = Len(f.blocks) /\ n \in Nat
    BY AnySum
<1>2. PICK c, T, X : c = Current(f) /\ T = Terminated(f) /\ X = 1 .. n
    OBVIOUS
<1>3. Sum(f, n, c, T, G, X) /\ p \in 0 .. n
    BY <1>1, <1>2
<1>4. /\ Sum(g, n + 1, c, T, G, X) /\ Created(g) = n + 1
      /\ g.locals = f.locals /\ g.blocks[n + 1] = Block(p)
      /\ \A k \in 1 .. n : g.blocks[k] = f.blocks[k]
    BY <1>3, CreateDoes
<1>5. Look(g, n + 1) = <<p, 0, <<>>>>
    BY <1>4 DEF Look, Block
<1>6. \A k \in 1 .. n : Look(g, k) = Look(f, k)
    BY <1>4 DEF Look
<1> QED
    BY <1>1, <1>2, <1>4, <1>5, <1>6 DEF Sum

LEMMA LinkSees ==
    ASSUME NEW f, Built(f), NEW b \in 1 .. Len(f.blocks), NEW before \in 1 .. Len(f.blocks), before < b,
           NEW g, g = Link(f, b, before)
    PROVE  /\ Built(g) /\ Len(g.blocks) = Len(f.blocks) /\ g.locals = f.locals /\ Current(g) = Current(f)
           /\ \A k \in 1 .. Len(f.blocks) : k # b => Look(g, k) = Look(f, k)
           /\ \A p, v : Look(f, b) = <<p, 0, v>> => Look(g, b) = <<p, before, v>>
<1>1. PICK n, G : /\ Sum(f, n, Current(f), Terminated(f), G, 1 .. n) /\ n = Len(f.blocks) /\ n \in Nat
    BY AnySum
<1>2. PICK c, T, X : c = Current(f) /\ T = Terminated(f) /\ X = 1 .. n
    OBVIOUS
<1>3. Sum(f, n, c, T, G, X) /\ b \in 1 .. n /\ before \in 1 .. n
    BY <1>1, <1>2
<1>4. /\ Sum(g, n, c, T, G, X) /\ g.locals = f.locals
      /\ \A k \in 1 .. n :
                 /\ g.blocks[k].parent = f.blocks[k].parent
                 /\ g.blocks[k].previous = IF k = b THEN before ELSE f.blocks[k].previous
                 /\ g.blocks[k].values = f.blocks[k].values
    <2>1. PICK d : d = before
        OBVIOUS
    <2>2. Sum(f, n, c, T, G, X) /\ b \in 1 .. n /\ d \in 1 .. n /\ d < b /\ g = Link(f, b, d)
        BY <1>3, <2>1
    <2> QED
        BY ONLY <2>1, <2>2, LinkDoes
<1>5. \A k \in 1 .. n : k # b => Look(g, k) = Look(f, k)
    BY <1>4, SameLook
<1>6. ASSUME NEW p, NEW v, Look(f, b) = <<p, 0, v>>
      PROVE  Look(g, b) = <<p, before, v>>
    <2>1. f.blocks[b].parent = p /\ f.blocks[b].values = v
        BY <1>6 DEF Look
    <2>2. g.blocks[b].parent = p /\ g.blocks[b].values = v /\ g.blocks[b].previous = before
        BY <1>3, <1>4, <2>1
    <2> QED
        BY <2>2 DEF Look
<1> QED
    BY <1>1, <1>2, <1>4, <1>5, <1>6 DEF Sum

(* The block b gets a local.                                               *)
Gains(f, g, b, local) ==
    /\ Built(g) /\ Len(g.blocks) = Len(f.blocks) /\ g.locals = Append(f.locals, local)
    /\ Current(g) = Current(f)
    /\ \A k \in 1 .. Len(f.blocks) : k # b => Look(g, k) = Look(f, k)
    /\ g.blocks[b].parent = f.blocks[b].parent /\ g.blocks[b].previous = f.blocks[b].previous
    /\ g.blocks[b].values = Append(f.blocks[b].values, Len(f.locals) + 1)

LEMMA NewLocalSees ==
    ASSUME NEW f, Built(f), NEW b \in 1 .. Len(f.blocks), NEW local,
           NEW g, g = NewLocal(f, b, local)
    PROVE  Gains(f, g, b, local)
<1>1. PICK n, G : /\ Sum(f, n, Current(f), Terminated(f), G, 1 .. n) /\ n = Len(f.blocks) /\ n \in Nat
    BY AnySum
<1>2. PICK c, T, X : c = Current(f) /\ T = Terminated(f) /\ X = 1 .. n
    OBVIOUS
<1>3. Sum(f, n, c, T, G, X) /\ b \in 1 .. n
    BY <1>1, <1>2
<1>4. /\ Sum(g, n, c, T, G, X) /\ g.locals = Append(f.locals, local)
      /\ \A k \in 1 .. n :
                 /\ g.blocks[k].parent = f.blocks[k].parent
                 /\ g.blocks[k].previous = f.blocks[k].previous
                 /\ g.blocks[k].values =
                       IF k = b THEN Append(f.blocks[k].values, Len(f.locals) + 1) ELSE f.blocks[k].values
    BY <1>3, NewLocalDoes
<1>5. \A k \in 1 .. n : k # b => Look(g, k) = Look(f, k)
    BY <1>4, SameLook
<1> QED
    BY <1>1, <1>2, <1>3, <1>4, <1>5 DEF Sum, Gains

LEMMA SetActiveSees ==
    ASSUME NEW f, Built(f), NEW b \in 1 .. Len(f.blocks), NEW g, g = SetActive(f, b)
    PROVE  Sees(f, g) /\ Current(g) = b
<1>1. PICK n, G : /\ Sum(f, n, Current(f), Terminated(f), G, 1 .. n) /\ n = Len(f.blocks) /\ n \in Nat
    BY AnySum
<1>2. PICK c, T, X : c = Current(f) /\ T = Terminated(f) /\ X = 1 .. n
    OBVIOUS
<1>3. Sum(f, n, c, T, G, X) /\ b \in 1 .. n
    BY <1>1, <1>2
<1>4. /\ Sum(g, n, b, T, G, X) /\ g.locals = f.locals
      /\ \A k \in 1 .. n :
                 /\ g.blocks[k].parent = f.blocks[k].parent
                 /\ g.blocks[k].previous = f.blocks[k].previous
                 /\ g.blocks[k].values = f.blocks[k].values
    BY <1>3, SetActiveDoes
<1>5. \A k \in 1 .. n : Look(g, k) = Look(f, k)
    BY <1>4, SameLook
<1> QED
    BY <1>1, <1>4, <1>5 DEF Sum, Sees

LEMMA EmitSees ==
    ASSUME NEW f, Built(f), NEW code, IsSeq(code), NEW g, g = Emit(f, code)
    PROVE  Sees(f, g) /\ Current(g) = Current(f)
<1>1. PICK n, G : /\ Sum(f, n, Current(f), Terminated(f), G, 1 .. n) /\ n = Len(f.blocks) /\ n \in Nat
    BY AnySum
<1>2. PICK c, T, X : c = Current(f) /\ T = Terminated(f) /\ X = 1 .. n
    OBVIOUS
<1>3. Sum(f, n, c, T, G, X)
    BY <1>1, <1>2
<1>4. /\ Built(g) /\ Len(g.blocks) = n /\ Current(g) = c /\ g.locals = f.locals
      /\ \A k \in 1 .. n :
                 /\ g.blocks[k].parent = f.blocks[k].parent
                 /\ g.blocks[k].previous = f.blocks[k].previous
                 /\ g.blocks[k].values = f.blocks[k].values
    BY <1>3, EmitDoes
<1>5. \A k \in 1 .. n : Look(g, k) = Look(f, k)
    BY <1>4, SameLook
<1> QED
    BY <1>1, <1>2, <1>4, <1>5 DEF Sees

LEMMA SeesAgain ==
    ASSUME NEW f, NEW g, NEW h, Sees(f, g), Sees(g, h)
    PROVE  Sees(f, h)
    BY DEF Sees

LEMMA SeesItself ==
    ASSUME NEW f, Built(f)
    PROVE  Sees(f, f)
    BY DEF Sees

LEMMA EmitOneSees ==
    ASSUME NEW f, Built(f), NEW x, NEW g, g = Emit(f, <<x>>)
    PROVE  Sees(f, g) /\ Current(g) = Current(f)
    BY SingletonIsSeq, EmitSees

LEMMA AddBranchSees ==
    ASSUME NEW f, Built(f), NEW b, NEW why
    PROVE  /\ Sees(f, AddBranchFor(f, b, why)) /\ Current(AddBranchFor(f, b, why)) = Current(f)
           /\ Sees(f, AddBranch(f, b)) /\ Current(AddBranch(f, b)) = Current(f)
<1>1. \A w : Sees(f, AddBranchFor(f, b, w)) /\ Current(AddBranchFor(f, b, w)) = Current(f)
    BY EmitOneSees, SeesItself DEF AddBranchFor
<1> QED
    BY <1>1 DEF AddBranch

LEMMA DestroySees ==
    ASSUME NEW f, Built(f), NEW m, NEW locals \in Seq(m), NEW why, NEW g, g = Destroy(f, locals, why)
    PROVE  Sees(f, g) /\ Current(g) = Current(f)
<1>1. IsSeq(Destructors(f, locals, why))
    BY DestructorsDestroy
<1> QED
    BY <1>1, EmitSees DEF Destroy

LEMMA DestroyLocalsSees ==
    ASSUME NEW f, Built(f), NEW b \in 1 .. Len(f.blocks)
    PROVE  /\ Sees(f, DestroyLocals(f, b)) /\ Current(DestroyLocals(f, b)) = Current(f)
           /\ Sees(f, DestroyLocalsFrom(f, b)) /\ Current(DestroyLocalsFrom(f, b)) = Current(f)
           /\ Sees(f, DestructorCaller(f)) /\ Current(DestructorCaller(f)) = Current(f)
<1>1. LocalsAlong(f, b) \in Seq(1 .. Len(f.locals)) /\ LocalsFrom(f, b) \in Seq(1 .. Len(f.locals))
    BY LocalsAlongAreLocals, LocalsFromAreLocals
<1>2. SetToSeq(Visible(f, Current(f))) \in Seq(1 .. Len(f.locals))
    BY CurrentLeads, VisibleAreLocals
<1>3. Sees(f, DestroyLocals(f, b)) /\ Current(DestroyLocals(f, b)) = Current(f)
    BY <1>1, DestroySees DEF DestroyLocals
<1>4. Sees(f, DestroyLocalsFrom(f, b)) /\ Current(DestroyLocalsFrom(f, b)) = Current(f)
    BY <1>1, DestroySees DEF DestroyLocalsFrom
<1>5. Sees(f, DestructorCaller(f)) /\ Current(DestructorCaller(f)) = Current(f)
    BY <1>2, DestroySees DEF DestructorCaller
<1> QED
    BY <1>3, <1>4, <1>5

LEMMA MovedSees ==
    ASSUME NEW f, Built(f), NEW from
    PROVE  Sees(f, Moved(f, from)) /\ Current(Moved(f, from)) = Current(f)
    BY EmitOneSees, SeesItself DEF Moved

(* A set of blocks that has, with each block, its parent and the one       *)
(* before it.                                                              *)
Into(f, D, b) == f.blocks[b].parent \in D \cup {0} /\ f.blocks[b].previous \in D \cup {0}
Shut(f, D)    == D \subseteq 1 .. Len(f.blocks) /\ \A b \in D : Into(f, D, b)

LEMMA VisibleIs ==
    ASSUME NEW f, Built(f)
    PROVE  /\ Visible(f, 0) = {}
           /\ \A b \in 1 .. Len(f.blocks) :
                 Visible(f, b) = ToSet(f.blocks[b].values) \cup Visible(f, f.blocks[b].previous)
                                     \cup Visible(f, f.blocks[b].parent)
<1>1. PICK n \in Nat : n = Len(f.blocks) /\ DOMAIN f.blocks = 1 .. n /\ Len(f.blocks) = n
    BY BuiltFacts
<1>2. PICK seen : /\ seen = [c \in 0 .. n |-> IF c = 0 THEN {}
                             ELSE ToSet(f.blocks[c].values) \cup seen[f.blocks[c].previous]
                                     \cup seen[f.blocks[c].parent]]
                  /\ \A b : Visible(f, b) = seen[b]
    BY <1>1, SeenExists DEF Visible
<1>3. 0 \in 0 .. n /\ \A c \in 1 .. n : c \in 0 .. n /\ c # 0
    BY <1>1
<1>4. /\ seen[0] = {}
      /\ \A c \in 1 .. n : seen[c] = ToSet(f.blocks[c].values) \cup seen[f.blocks[c].previous]
                                       \cup seen[f.blocks[c].parent]
    BY <1>2, <1>3, Zenon
<1>5. ASSUME NEW b \in 1 .. n
      PROVE  Visible(f, b) = ToSet(f.blocks[b].values) \cup Visible(f, f.blocks[b].previous)
                                 \cup Visible(f, f.blocks[b].parent)
    <2>1. PICK p, q : p = f.blocks[b].previous /\ q = f.blocks[b].parent
        OBVIOUS
    <2>2. Visible(f, b) = seen[b] /\ Visible(f, p) = seen[p] /\ Visible(f, q) = seen[q]
        BY <1>2
    <2>3. seen[b] = ToSet(f.blocks[b].values) \cup seen[p] \cup seen[q]
        BY <1>4, <2>1
    <2> QED
        BY ONLY <2>1, <2>2, <2>3
<1>6. Visible(f, 0) = {}
    BY <1>2, <1>4
<1> QED
    BY <1>1, <1>5, <1>6

(* What holds of a block when it holds of its parent and of the block      *)
(* before it holds of all blocks.                                          *)
LEMMA FromParents ==
    ASSUME NEW f, Built(f), NEW Z, 0 \in Z,
           \A b \in 1 .. Len(f.blocks) : f.blocks[b].parent \in Z /\ f.blocks[b].previous \in Z => b \in Z
    PROVE  \A b \in 1 .. Len(f.blocks) : b \in Z
<1>1. PICK n \in Nat : n = Len(f.blocks) /\ DOMAIN f.blocks = 1 .. n
    BY BuiltFacts
<1>2. \A c \in 1 .. n : f.blocks[c].parent \in 0 .. c - 1 /\ f.blocks[c].previous \in 0 .. c - 1
    BY <1>1 DEF Built, IsBlockAt
<1> SUFFICES ASSUME NEW b \in 1 .. n, b \notin Z PROVE FALSE
    BY <1>1
<1>3. PICK I : I = {c \in 1 .. n : c \notin Z}
    OBVIOUS
<1>4. PICK c \in I : \A d \in I : c <= d
    <2>1. I \subseteq Nat /\ I # {}
        BY <1>3
    <2> QED
        BY <2>1, LeastNumber
<1>5. c \in 1 .. n /\ c \notin Z
    BY <1>3
<1>6. \A p \in 0 .. c - 1 : p \in Z
    <2> SUFFICES ASSUME NEW p \in 0 .. c - 1, p \notin Z PROVE FALSE
        OBVIOUS
    <2>1. p # 0 /\ p \in 1 .. n /\ ~(c <= p)
        BY <1>1, <1>5
    <2>2. p \in I
        BY <1>3, <2>1
    <2> QED
        BY <1>4, <2>1, <2>2
<1> QED
    BY <1>1, <1>2, <1>5, <1>6

LEMMA VisibleIsLocal ==
    ASSUME NEW f, Built(f)
    PROVE  \A b \in 1 .. Len(f.blocks) : Visible(f, b) \subseteq 1 .. Len(f.locals)
<1>1. PICK Z : Z = {b \in 0 .. Len(f.blocks) : Visible(f, b) \subseteq 1 .. Len(f.locals)}
    OBVIOUS
<1>2. PICK n, m \in Nat : n = Len(f.blocks) /\ DOMAIN f.blocks = 1 .. n /\ m = Len(f.locals)
    BY BuiltFacts
<1>3. \A b \in 1 .. n : ToSet(f.blocks[b].values) \subseteq 1 .. m
    BY <1>2, ElementsOfSeq DEF Built, IsBlockAt
<1>4. 0 \in Z
    BY <1>1, <1>2, VisibleIs
<1>5. ASSUME NEW b \in 1 .. n, f.blocks[b].parent \in Z, f.blocks[b].previous \in Z
      PROVE  b \in Z
    <2>1. /\ Visible(f, f.blocks[b].parent) \subseteq 1 .. m
          /\ Visible(f, f.blocks[b].previous) \subseteq 1 .. m
        BY <1>1, <1>2, <1>5
    <2>2. Visible(f, b) = ToSet(f.blocks[b].values) \cup Visible(f, f.blocks[b].previous)
                                     \cup Visible(f, f.blocks[b].parent)
        BY <1>2, VisibleIs
    <2>3. Visible(f, b) \subseteq 1 .. m
        BY <1>3, <2>1, <2>2
    <2> QED
        BY <1>1, <1>2, <2>3
<1>6. \A b \in 1 .. n : b \in Z
    BY <1>2, <1>4, <1>5, FromParents
<1> QED
    BY <1>1, <1>2, <1>6

(* From a set of blocks that is closed the same is seen when they are the  *)
(* same.                                                                   *)
LEMMA SameSight ==
    ASSUME NEW f, Built(f), NEW g, Built(g), NEW D, Shut(f, D), D \subseteq 1 .. Len(g.blocks),
           \A b \in D : Look(g, b) = Look(f, b)
    PROVE  Shut(g, D) /\ \A b \in D : Visible(g, b) = Visible(f, b)
<1>1. \A b \in D : /\ g.blocks[b].parent = f.blocks[b].parent /\ g.blocks[b].previous = f.blocks[b].previous
                   /\ g.blocks[b].values = f.blocks[b].values
    BY SameLook
<1>2. PICK Z : Z = {b \in 0 .. Len(f.blocks) : b \in D => Visible(g, b) = Visible(f, b)}
    OBVIOUS
<1>3. PICK n \in Nat : n = Len(f.blocks) /\ DOMAIN f.blocks = 1 .. n
    BY BuiltFacts
<1>4. 0 \in Z
    BY <1>2, <1>3 DEF Shut
<1>5. ASSUME NEW b \in 1 .. n, f.blocks[b].parent \in Z, f.blocks[b].previous \in Z, b \in D
      PROVE  Visible(g, b) = Visible(f, b)
    <2>1. Into(f, D, b) /\ b \in 1 .. Len(g.blocks)
        BY <1>5 DEF Shut
    <2>2. \A p \in D \cup {0} : p \in Z => Visible(g, p) = Visible(f, p)
        BY <1>2, VisibleIs
    <2>3. /\ Visible(g, f.blocks[b].parent) = Visible(f, f.blocks[b].parent)
          /\ Visible(g, f.blocks[b].previous) = Visible(f, f.blocks[b].previous)
        BY <1>5, <2>1, <2>2 DEF Into
    <2>4. Visible(f, b) = ToSet(f.blocks[b].values) \cup Visible(f, f.blocks[b].previous)
                                     \cup Visible(f, f.blocks[b].parent)
        BY <1>3, VisibleIs
    <2>5. Visible(g, b) = ToSet(g.blocks[b].values) \cup Visible(g, g.blocks[b].previous)
                                     \cup Visible(g, g.blocks[b].parent)
        BY <2>1, VisibleIs
    <2> QED
        BY <1>1, <1>5, <2>3, <2>4, <2>5
<1>6. \A b \in 1 .. n : b \in Z
    <2>1. \A b \in 1 .. n : f.blocks[b].parent \in Z /\ f.blocks[b].previous \in Z => b \in Z
        BY <1>2, <1>3, <1>5
    <2> QED
        BY <1>3, <1>4, <2>1, FromParents
<1>7. Shut(g, D)
    BY <1>1 DEF Shut, Into
<1> QED
    BY <1>2, <1>3, <1>6, <1>7 DEF Shut

(* A function grows: blocks and locals are added, a block of B gets locals *)
(* and the others that were there stay as they are.                        *)
Grows(f, g, B) ==
    /\ Built(f) /\ Built(g) /\ Len(f.blocks) <= Len(g.blocks) /\ Len(f.locals) <= Len(g.locals)
    /\ \A l \in 1 .. Len(f.locals) : g.locals[l] = f.locals[l]
    /\ \A b \in 1 .. Len(f.blocks) : b \notin B => Look(g, b) = Look(f, b)
    /\ \A b \in 1 .. Len(f.blocks) : g.blocks[b].parent = f.blocks[b].parent
                                     /\ g.blocks[b].previous = f.blocks[b].previous

(* The names of the locals seen from b are those of N, each of one local   *)
(* only, but for arguments and indices without a name.                     *)
Shows(f, b, N) ==
    /\ {f.locals[l].name : l \in Visible(f, b)} = N
    /\ \A l, m \in Visible(f, b) : f.locals[l].name = f.locals[m].name =>
            \/ l = m \/ f.locals[l].name = NoTag
            \/ f.locals[l].kind = "argument" /\ f.locals[m].kind = "argument"

(* A block on top of a closed set.                                         *)
Tip(f, D, b, N) == b \in 1 .. Len(f.blocks) /\ Into(f, D, b) /\ Shows(f, b, N)

LEMMA ShowsSame ==
    ASSUME NEW f, NEW g, NEW B, Grows(f, g, B), NEW b \in 1 .. Len(f.blocks), NEW c,
           Visible(g, c) = Visible(f, b), NEW N, Shows(f, b, N)
    PROVE  Shows(g, c, N)
<1>1. \A l \in Visible(f, b) : g.locals[l] = f.locals[l]
    BY VisibleIsLocal DEF Grows
<1>2. {g.locals[l].name : l \in Visible(f, b)} = {f.locals[l].name : l \in Visible(f, b)}
    BY <1>1
<1> QED
    BY <1>1, <1>2 DEF Shows

LEMMA GrowsSight ==
    ASSUME NEW f, NEW g, NEW B, Grows(f, g, B), NEW D, Shut(f, D), D \cap B = {}
    PROVE  /\ Shut(g, D)
           /\ \A b \in D : \A N : Shows(f, b, N) => Shows(g, b, N)
           /\ \A b : \A N : b \notin B /\ Tip(f, D, b, N) => Tip(g, D, b, N)
           /\ \A b \in 1 .. Len(f.blocks) : Into(f, D, b) => Into(g, D, b)
<1>1. PICK n, m \in Nat : n = Len(f.blocks) /\ m = Len(g.blocks) /\ n <= m
    BY BuiltFacts DEF Grows
<1>2. D \subseteq 1 .. m /\ D \subseteq 1 .. n
    BY <1>1 DEF Shut
<1>3. \A b \in D : Look(g, b) = Look(f, b)
    BY <1>1, <1>2 DEF Grows
<1>4. Shut(g, D) /\ \A b \in D : Visible(g, b) = Visible(f, b)
    BY <1>1, <1>2, <1>3, SameSight DEF Grows
<1>5. \A b \in D : \A N : Shows(f, b, N) => Shows(g, b, N)
    BY <1>1, <1>2, <1>4, ShowsSame
<1>6. ASSUME NEW b \in 1 .. n, Into(f, D, b)
      PROVE  Into(g, D, b)
    BY <1>1, <1>6 DEF Into, Grows
<1>7. ASSUME NEW b, NEW N, b \notin B, Tip(f, D, b, N)
      PROVE  Tip(g, D, b, N)
    <2>1. b \in 1 .. n /\ b \in 1 .. m /\ Into(f, D, b) /\ Shows(f, b, N)
        BY <1>1, <1>7 DEF Tip
    <2>2. Look(g, b) = Look(f, b)
        BY <1>1, <1>7, <2>1 DEF Grows
    <2>3. g.blocks[b].parent = f.blocks[b].parent /\ g.blocks[b].previous = f.blocks[b].previous
          /\ g.blocks[b].values = f.blocks[b].values
        BY <2>2, SameLook
    <2>4. \A p \in D \cup {0} : Visible(g, p) = Visible(f, p)
        BY <1>4, VisibleIs DEF Grows
    <2>5. Visible(g, f.blocks[b].parent) = Visible(f, f.blocks[b].parent)
          /\ Visible(g, f.blocks[b].previous) = Visible(f, f.blocks[b].previous)
        BY <2>1, <2>4 DEF Into
    <2>6. Visible(f, b) = ToSet(f.blocks[b].values) \cup Visible(f, f.blocks[b].previous)
                              \cup Visible(f, f.blocks[b].parent)
        BY <1>1, <2>1, VisibleIs DEF Grows
    <2>7. Visible(g, b) = ToSet(g.blocks[b].values) \cup Visible(g, g.blocks[b].previous)
                              \cup Visible(g, g.blocks[b].parent)
        BY <1>1, <2>1, VisibleIs DEF Grows
    <2>8. Visible(g, b) = Visible(f, b)
        BY <2>3, <2>5, <2>6, <2>7
    <2>9. Shows(g, b, N)
        BY <1>1, <2>1, <2>8, ShowsSame
    <2> QED
        BY <1>1, <1>6, <2>1, <2>9 DEF Tip
<1> QED
    BY <1>1, <1>4, <1>5, <1>6, <1>7

LEMMA GrowsAgain ==
    ASSUME NEW f, NEW g, NEW h, NEW B, NEW C, Grows(f, g, B), Grows(g, h, C)
    PROVE  Grows(f, h, B \cup C)
<1>1. PICK n, m, k \in Nat : n = Len(f.blocks) /\ m = Len(g.blocks) /\ k = Len(h.blocks) /\ n <= m /\ m <= k
    BY BuiltFacts DEF Grows
<1>2. PICK i, j, l \in Nat : i = Len(f.locals) /\ j = Len(g.locals) /\ l = Len(h.locals) /\ i <= j /\ j <= l
    BY BuiltFacts DEF Grows
<1>3. (\A b \in 1 .. n : b \in 1 .. m) /\ (\A b \in 1 .. i : b \in 1 .. j) /\ n <= k /\ i <= l
    BY <1>1, <1>2
<1>4. \A b \in 1 .. n : b \notin B \cup C => Look(h, b) = Look(f, b)
    BY <1>1, <1>3 DEF Grows
<1>5. \A b \in 1 .. n : h.blocks[b].parent = f.blocks[b].parent /\ h.blocks[b].previous = f.blocks[b].previous
    BY <1>1, <1>3 DEF Grows
<1>6. \A x \in 1 .. i : h.locals[x] = f.locals[x]
    BY <1>2, <1>3 DEF Grows
<1> QED
    BY <1>1, <1>2, <1>3, <1>4, <1>5, <1>6 DEF Grows

LEMMA SeesGrows ==
    ASSUME NEW f, Built(f), NEW g, Sees(f, g)
    PROVE  Grows(f, g, {})
<1>1. PICK n, m \in Nat : n = Len(f.blocks) /\ m = Len(f.locals)
    BY BuiltFacts
<1> QED
    BY <1>1, SameLook DEF Sees, Grows

LEMMA CreateGrows ==
    ASSUME NEW f, Built(f), NEW p \in 0 .. Len(f.blocks), NEW g, g = Create(f, p)
    PROVE  Grows(f, g, {})
<1>1. PICK n, m \in Nat : n = Len(f.blocks) /\ m = Len(f.locals)
    BY BuiltFacts
<1>2. Built(g) /\ Len(g.blocks) = n + 1 /\ g.locals = f.locals /\ \A k \in 1 .. n : Look(g, k) = Look(f, k)
    BY <1>1, CreateSees
<1> QED
    BY <1>1, <1>2, SameLook DEF Grows

(* The block made known to those created after it is linked.               *)
LEMMA LinkGrows ==
    ASSUME NEW f, NEW h, NEW B, Grows(f, h, B), NEW b \in 1 .. Len(h.blocks), b > Len(f.blocks),
           NEW before \in 1 .. Len(h.blocks), before < b, NEW g, g = Link(h, b, before)
    PROVE  Grows(f, g, B)
<1>1. PICK n, m, k \in Nat : n = Len(f.blocks) /\ m = Len(f.locals) /\ k = Len(h.blocks) /\ n <= k
    BY BuiltFacts DEF Grows
<1>2. Built(g) /\ Len(g.blocks) = k /\ g.locals = h.locals /\ \A x \in 1 .. k : x # b => Look(g, x) = Look(h, x)
    <2>1. Built(h)
        BY DEF Grows
    <2> QED
        BY <1>1, <2>1, LinkSees
<1>3. \A x \in 1 .. n : x # b /\ x \in 1 .. k
    BY <1>1
<1>4. \A x \in 1 .. n : Look(g, x) = Look(h, x)
    BY <1>2, <1>3
<1>5. \A x \in 1 .. n : g.blocks[x].parent = h.blocks[x].parent /\ g.blocks[x].previous = h.blocks[x].previous
    BY <1>4, SameLook
<1> QED
    BY <1>1, <1>2, <1>4, <1>5 DEF Grows

LEMMA NewLocalGrows ==
    ASSUME NEW f, Built(f), NEW b \in 1 .. Len(f.blocks), NEW local, NEW g, g = NewLocal(f, b, local)
    PROVE  Grows(f, g, {b})
<1>1. PICK n, m \in Nat : n = Len(f.blocks) /\ m = Len(f.locals)
    BY BuiltFacts
<1>2. /\ Built(g) /\ Len(g.blocks) = n /\ g.locals = Append(f.locals, local)
      /\ \A k \in 1 .. n : k # b => Look(g, k) = Look(f, k)
      /\ g.blocks[b].parent = f.blocks[b].parent /\ g.blocks[b].previous = f.blocks[b].previous
    <2>1. Built(f) /\ b \in 1 .. Len(f.blocks) /\ g = NewLocal(f, b, local)
        OBVIOUS
    <2>2. /\ Built(g) /\ Len(g.blocks) = Len(f.blocks) /\ g.locals = Append(f.locals, local)
          /\ \A k \in 1 .. Len(f.blocks) : k # b => Look(g, k) = Look(f, k)
          /\ g.blocks[b].parent = f.blocks[b].parent /\ g.blocks[b].previous = f.blocks[b].previous
        <3>1. Gains(f, g, b, local)
            BY ONLY <2>1, NewLocalSees
        <3> QED
            BY <3>1 DEF Gains
    <2> QED
        BY <1>1, <2>2
<1>3. Len(g.locals) = m + 1 /\ \A l \in 1 .. m : g.locals[l] = f.locals[l]
    <2>1. IsSeq(f.locals)
        BY DEF Built
    <2> QED
        BY <1>1, <1>2, <2>1, AppendAny
<1>4. \A k \in 1 .. n : g.blocks[k].parent = f.blocks[k].parent /\ g.blocks[k].previous = f.blocks[k].previous
    BY <1>2, SameLook
<1> QED
    BY <1>1, <1>2, <1>3, <1>4, SMTT(40) DEF Grows

(* What is known is seen from one set is seen from a larger one.           *)
LEMMA TipWider ==
    ASSUME NEW f, NEW D, NEW E, D \subseteq E, NEW b, NEW N, Tip(f, D, b, N)
    PROVE  Tip(f, E, b, N)
    BY DEF Tip, Into

LEMMA TipRetires ==
    ASSUME NEW f, NEW D, Shut(f, D), NEW b, NEW N, Tip(f, D, b, N), NEW E, E = D \cup {b}
    PROVE  Shut(f, E) /\ Shows(f, b, N) /\ D \subseteq E /\ b \in E
    BY DEF Tip, Into, Shut

(* The parents of a block do not add to what is seen after it.             *)
LEMMA TipFrom ==
    ASSUME NEW f, Built(f), NEW D, Shut(f, D), NEW c \in D, NEW N, Shows(f, c, N),
           NEW b \in 1 .. Len(f.blocks), NEW p, NEW q, Look(f, b) = <<p, q, <<>>>>,
           (p = c /\ q = 0) \/ (q = c /\ p \in {0, f.blocks[c].parent})
    PROVE  Tip(f, D, b, N)
<1>1. f.blocks[b].parent = p /\ f.blocks[b].previous = q /\ f.blocks[b].values = <<>>
    BY DEF Look
<1>2. ToSet(<<>>) = {}
    BY DEF ToSet
<1>3. c \in 1 .. Len(f.blocks) /\ Into(f, D, c)
    BY DEF Shut
<1>4. Visible(f, b) = {} \cup Visible(f, q) \cup Visible(f, p)
    BY <1>1, <1>2, VisibleIs
<1>5. Visible(f, 0) = {} /\ Visible(f, f.blocks[c].parent) \subseteq Visible(f, c)
    BY <1>3, VisibleIs
<1>6. Visible(f, b) = Visible(f, c)
    BY <1>4, <1>5
<1>7. Into(f, D, b)
    BY <1>1, <1>3 DEF Into
<1> QED
    BY <1>6, <1>7 DEF Tip, Shows

(* A local more is seen from its block.                                    *)
LEMMA TipGains ==
    ASSUME NEW f, Built(f), NEW D, Shut(f, D), NEW b, b \notin D, NEW N, Tip(f, D, b, N),
           NEW local, local.name \notin N \/ local.name = NoTag, NEW g, g = NewLocal(f, b, local)
    PROVE  Tip(g, D, b, N \cup {local.name})
<1>1. PICK n, m \in Nat : n = Len(f.blocks) /\ m = Len(f.locals)
    BY BuiltFacts
<1>2. b \in 1 .. n /\ Into(f, D, b) /\ Shows(f, b, N)
    BY <1>1 DEF Tip
<1>3. /\ Built(g) /\ Len(g.blocks) = n /\ g.locals = Append(f.locals, local)
      /\ g.blocks[b].parent = f.blocks[b].parent /\ g.blocks[b].previous = f.blocks[b].previous
      /\ g.blocks[b].values = Append(f.blocks[b].values, m + 1)
    <2>1. Built(f) /\ b \in 1 .. Len(f.blocks) /\ g = NewLocal(f, b, local)
        BY <1>1, <1>2
    <2>2. /\ Built(g) /\ Len(g.blocks) = Len(f.blocks) /\ g.locals = Append(f.locals, local)
          /\ g.blocks[b].parent = f.blocks[b].parent /\ g.blocks[b].previous = f.blocks[b].previous
          /\ g.blocks[b].values = Append(f.blocks[b].values, Len(f.locals) + 1)
        <3>1. Gains(f, g, b, local)
            BY ONLY <2>1, NewLocalSees
        <3> QED
            BY <3>1 DEF Gains
    <2> QED
        BY <1>1, <2>2
<1>4. Grows(f, g, {b})
    BY <1>1, <1>2, NewLocalGrows
<1>5. PICK p, q : p = f.blocks[b].parent /\ q = f.blocks[b].previous
    OBVIOUS
<1>6. p \in D \cup {0} /\ q \in D \cup {0}
    BY <1>2, <1>5 DEF Into
<1>7. \A x \in D \cup {0} : Visible(g, x) = Visible(f, x)
    <2>1. D \subseteq 1 .. n /\ \A x \in D : Look(g, x) = Look(f, x)
        BY <1>1, <1>4 DEF Grows, Shut
    <2>2. \A x \in D : Visible(g, x) = Visible(f, x)
        BY <1>1, <1>3, <2>1, SameSight
    <2> QED
        BY <1>3, <2>2, VisibleIs
<1>8. Visible(f, b) = ToSet(f.blocks[b].values) \cup Visible(f, q) \cup Visible(f, p)
    BY <1>1, <1>2, <1>5, VisibleIs
<1>9. Visible(g, b) = ToSet(Append(f.blocks[b].values, m + 1)) \cup Visible(g, q) \cup Visible(g, p)
    <2>1. Built(g) /\ b \in 1 .. Len(g.blocks)
        BY <1>2, <1>3
    <2>2. Visible(g, b) = ToSet(g.blocks[b].values) \cup Visible(g, g.blocks[b].previous)
                              \cup Visible(g, g.blocks[b].parent)
        BY ONLY <2>1, VisibleIs
    <2> QED
        BY <1>3, <1>5, <2>2
<1>10. ToSet(Append(f.blocks[b].values, m + 1)) = ToSet(f.blocks[b].values) \cup {m + 1}
    <2>1. f.blocks[b].values \in Seq(1 .. m)
        BY <1>1, <1>2, BuiltFacts DEF Built, IsBlockAt
    <2>2. IsSeq(f.blocks[b].values)
        BY <2>1, SeqOfIsSeq
    <2> QED
        BY <2>2, AppendAdds
<1>11. Visible(g, b) = Visible(f, b) \cup {m + 1}
    BY <1>6, <1>7, <1>8, <1>9, <1>10
<1>12. Visible(f, b) \subseteq 1 .. m
    BY <1>1, <1>2, VisibleIsLocal
<1>13. (\A l \in 1 .. m : g.locals[l] = f.locals[l]) /\ g.locals[m + 1] = local
    <2>1. IsSeq(f.locals)
        BY DEF Built
    <2> QED
        BY <1>1, <1>3, <2>1, AppendAny
<1>14. {g.locals[l].name : l \in Visible(g, b)} = N \cup {local.name}
    <2>1. {g.locals[l].name : l \in Visible(f, b)} = N
        BY <1>2, <1>12, <1>13 DEF Shows
    <2> QED
        BY <1>11, <1>13, <2>1
<1>15. ASSUME NEW l \in Visible(g, b), NEW k \in Visible(g, b), g.locals[l].name = g.locals[k].name
       PROVE  \/ l = k \/ g.locals[l].name = NoTag
              \/ g.locals[l].kind = "argument" /\ g.locals[k].kind = "argument"
    <2>1. \A x \in Visible(f, b) : g.locals[x].name \in N
        BY <1>2, <1>12, <1>13 DEF Shows
    <2>2. CASE l \in Visible(f, b) /\ k \in Visible(f, b)
        BY <1>2, <1>12, <1>13, <1>15, <2>2 DEF Shows
    <2>3. CASE ~(l \in Visible(f, b) /\ k \in Visible(f, b))
        BY <1>11, <1>13, <1>15, <2>1, <2>3
    <2> QED
        BY <2>2, <2>3
<1>16. Into(g, D, b)
    BY <1>2, <1>3 DEF Into
<1> QED
    BY <1>1, <1>2, <1>3, <1>14, <1>15, <1>16 DEF Tip, Shows

-----------------------------------------------------------------------------
(* The names declared in the bodies of the first j frames.                 *)
Declared(x)     == UNION {Declares(x.body[q]) : q \in 1 .. x.next - 1}
Names(fs, p, j) == ToSet(p.args) \cup UNION {Declared(fs[i]) : i \in 1 .. j}

(* The blocks that a frame makes current when its body is over: the names  *)
(* declared before are seen from them, and from the block that a match     *)
(* stands in.                                                              *)
Tips(a) ==
    CASE a.is = "function" -> {}
      [] a.is = "arm" -> {a.rest} \cup ({a.otherwise} \ {0})
      [] OTHER -> {a.rest}
Waits(f, D, a, N) ==
    /\ \A b \in Tips(a) : b \notin D /\ Tip(f, D, b, N)
    /\ a.is = "arm" /\ a.snt.is = "match" => a.curr \in D /\ Shows(f, a.curr, N)

Under(f, fs, p, D) ==
    Shut(f, D) /\ \A i \in DOMAIN fs : Waits(f, D, fs[i].after, Names(fs, p, i - 1))

(* The names declared so far are seen from the current block.              *)
ScopedBy(f, fs, p, D) ==
    /\ Built(f) /\ Under(f, fs, p, D)
    /\ Current(f) \notin D /\ Tip(f, D, Current(f), Names(fs, p, Len(fs)))
Scoped(f, fs, p) == \E D : ScopedBy(f, fs, p, D)

(* No frame waits for the block.                                           *)
Apart(fs, b) == \A i \in DOMAIN fs : b \notin Tips(fs[i].after)

LEMMA TipsAreReserved ==
    ASSUME NEW a, AfterOK(a)
    PROVE  Tips(a) \subseteq Reserved(a)
    BY DEF AfterOK, Tips, Reserved, ArmOK

LEMMA ReservedIsApart ==
    ASSUME NEW fs, NEW p, FramesOK(fs, p), NEW b, b \notin AllReserved(fs)
    PROVE  Apart(fs, b)
<1> SUFFICES ASSUME NEW i \in DOMAIN fs, b \in Tips(fs[i].after) PROVE FALSE
    BY DEF Apart
<1>1. FrameOK(fs[i])
    BY DEF FramesOK
<1>2. b \in Reserved(fs[i].after)
    BY <1>1, TipsAreReserved DEF FrameOK
<1> QED
    BY <1>2 DEF AllReserved

LEMMA WaitsGrows ==
    ASSUME NEW f, NEW g, NEW B, Grows(f, g, B), NEW D, Shut(f, D), D \cap B = {},
           NEW a, Tips(a) \cap B = {}, NEW N, Waits(f, D, a, N)
    PROVE  Waits(g, D, a, N)
<1>1. /\ \A b \in D : \A M : Shows(f, b, M) => Shows(g, b, M)
      /\ \A b : \A M : b \notin B /\ Tip(f, D, b, M) => Tip(g, D, b, M)
    BY GrowsSight
<1> QED
    BY <1>1 DEF Waits

LEMMA UnderGrows ==
    ASSUME NEW f, NEW g, NEW B, Grows(f, g, B), NEW fs, NEW p, NEW D, Under(f, fs, p, D), D \cap B = {},
           \A b \in B : Apart(fs, b)
    PROVE  Under(g, fs, p, D)
<1>1. Shut(f, D)
    BY DEF Under
<1>2. Shut(g, D)
    BY <1>1, GrowsSight
<1>3. \A i \in DOMAIN fs : Tips(fs[i].after) \cap B = {}
    BY DEF Apart
<1>4. \A i \in DOMAIN fs : Waits(g, D, fs[i].after, Names(fs, p, i - 1))
    BY <1>1, <1>3, WaitsGrows DEF Under
<1> QED
    BY <1>2, <1>4 DEF Under

(* A block that no frame waits for joins those that are closed.            *)
LEMMA UnderRetires ==
    ASSUME NEW f, NEW fs, NEW p, NEW D, Under(f, fs, p, D), NEW b, NEW N, Tip(f, D, b, N), Apart(fs, b),
           NEW E, E = D \cup {b}
    PROVE  Under(f, fs, p, E) /\ Shows(f, b, N) /\ b \in E
<1>1. Shut(f, E) /\ Shows(f, b, N) /\ D \subseteq E /\ b \in E
    BY TipRetires DEF Under
<1>2. ASSUME NEW i \in DOMAIN fs
      PROVE  Waits(f, E, fs[i].after, Names(fs, p, i - 1))
    <2>1. PICK a, M : a = fs[i].after /\ M = Names(fs, p, i - 1)
        OBVIOUS
    <2>2. Waits(f, D, a, M) /\ b \notin Tips(a)
        BY <2>1 DEF Under, Apart
    <2>3. \A c \in Tips(a) : c \notin E /\ Tip(f, E, c, M)
        BY <1>1, <2>2, TipWider DEF Waits
    <2>4. Waits(f, E, a, M)
        BY <1>1, <2>2, <2>3 DEF Waits
    <2> QED
        BY <2>1, <2>4
<1> QED
    BY <1>1, <1>2 DEF Under

(* The frames, as far as names go.                                         *)
LEMMA InNames ==
    ASSUME NEW fs, NEW p, NEW j \in Nat
    PROVE  \A x : x \in Names(fs, p, j) <=> x \in ToSet(p.args) \/ \E i \in 1 .. j : x \in Declared(fs[i])
<1>1. PICK D : D = {Declared(fs[i]) : i \in 1 .. j}
    OBVIOUS
<1>2. \A x : x \in UNION D <=> \E i \in 1 .. j : x \in Declared(fs[i])
    BY <1>1
<1> QED
    BY <1>1, <1>2 DEF Names

LEMMA SameNames ==
    ASSUME NEW fs, NEW gs, NEW p, NEW j \in Nat, \A i \in 1 .. j : gs[i] = fs[i]
    PROVE  Names(gs, p, j) = Names(fs, p, j)
<1>1. \A x : x \in Names(gs, p, j) <=> x \in Names(fs, p, j)
    BY InNames
<1> QED
    BY <1>1

LEMMA MoreNames ==
    ASSUME NEW fs, NEW p, NEW j \in Nat
    PROVE  Names(fs, p, j + 1) = Names(fs, p, j) \cup Declared(fs[j + 1])
<1>1. \A i : i \in 1 .. j + 1 <=> i \in 1 .. j \/ i = j + 1
    OBVIOUS
<1>2. \A x : x \in Names(fs, p, j + 1) <=> x \in Names(fs, p, j) \/ x \in Declared(fs[j + 1])
    BY <1>1, InNames
<1> QED
    BY <1>2

LEMMA DeclaredMore ==
    ASSUME NEW x, NEW y, y.body = x.body, x.next \in Nat \ {0}, y.next = x.next + 1
    PROVE  Declared(y) = Declared(x) \cup Declares(x.body[x.next])
<1>1. \A q : q \in 1 .. y.next - 1 <=> q \in 1 .. x.next - 1 \/ q = x.next
    OBVIOUS
<1> QED
    BY <1>1 DEF Declared

LEMMA DeclaredNone ==
    ASSUME NEW x, x.next = 1
    PROVE  Declared(x) = {}
    BY DEF Declared

(* The frames that lie below.                                              *)
LEMMA SameUnder ==
    ASSUME NEW f, NEW fs, NEW p, NEW D, Under(f, fs, p, D), NEW gs, DOMAIN gs \subseteq DOMAIN fs,
           DOMAIN gs \subseteq Nat \ {0}, \A i \in DOMAIN gs : gs[i].after = fs[i].after,
           \A i \in DOMAIN gs : \A j \in 1 .. i - 1 : gs[j] = fs[j]
    PROVE  Under(f, gs, p, D)
<1>1. Shut(f, D)
    BY DEF Under
<1>2. ASSUME NEW i \in DOMAIN gs
      PROVE  Waits(f, D, gs[i].after, Names(gs, p, i - 1))
    <2>1. PICK j \in Nat : j = i - 1
        OBVIOUS
    <2>2. \A k \in 1 .. j : gs[k] = fs[k]
        BY <2>1
    <2>3. Names(gs, p, j) = Names(fs, p, j)
        BY <2>2, SameNames
    <2>4. Waits(f, D, fs[i].after, Names(fs, p, i - 1))
        BY DEF Under
    <2> QED
        BY <2>1, <2>3, <2>4
<1> QED
    BY <1>1, <1>2 DEF Under

(* The topmost frame has gone on to its next sentence.                     *)
LEMMA UnderAdvances ==
    ASSUME NEW f, NEW fs, NEW p, NEW D, Under(f, fs, p, D), FramesOK(fs, p),
           NEW x, x = fs[Len(fs)], NEW gs, IsSeq(gs), Len(gs) = Len(fs), DOMAIN gs = DOMAIN fs,
           \A i \in DOMAIN fs : i # Len(fs) => gs[i] = fs[i],
           gs[Len(fs)].after = x.after, gs[Len(fs)].body = x.body, gs[Len(fs)].next = x.next + 1
    PROVE  /\ Under(f, gs, p, D)
           /\ Names(gs, p, Len(gs)) = Names(fs, p, Len(fs)) \cup Declares(x.body[x.next])
<1>1. PICK m \in Nat : Len(fs) = m + 1 /\ DOMAIN fs = 1 .. m + 1 /\ IsSeq(fs)
    <2>1. Len(fs) \in Nat \ {0} /\ DOMAIN fs = 1 .. Len(fs) /\ IsSeq(fs)
        BY FramesFacts
    <2>2. PICK m : m = Len(fs) - 1
        OBVIOUS
    <2>3. m \in Nat /\ Len(fs) = m + 1
        BY <2>1, <2>2
    <2> QED
        BY <2>1, <2>3
<1>2. \A i \in 1 .. m : gs[i] = fs[i]
    BY <1>1
<1>3. Under(f, gs, p, D)
    <2>1. \A i \in DOMAIN gs : \A j \in 1 .. i - 1 : gs[j] = fs[j]
        BY <1>1
    <2>2. \A i \in DOMAIN gs : gs[i].after = fs[i].after
        OBVIOUS
    <2>3. DOMAIN gs \subseteq DOMAIN fs /\ DOMAIN gs \subseteq Nat \ {0}
        BY <1>1
    <2> QED
        BY ONLY Under(f, fs, p, D), <2>1, <2>2, <2>3, SameUnder
<1>4. Names(gs, p, m) = Names(fs, p, m)
    BY <1>2, SameNames
<1>7. Names(gs, p, m + 1) = Names(gs, p, m) \cup Declared(gs[m + 1])
    BY ONLY m \in Nat, MoreNames
<1>8. Names(fs, p, m + 1) = Names(fs, p, m) \cup Declared(fs[m + 1])
    BY ONLY m \in Nat, MoreNames
<1>5. /\ Names(gs, p, m + 1) = Names(gs, p, m) \cup Declared(gs[m + 1])
      /\ Names(fs, p, m + 1) = Names(fs, p, m) \cup Declared(x)
    BY <1>1, <1>7, <1>8
<1>6. Declared(gs[m + 1]) = Declared(x) \cup Declares(x.body[x.next])
    <2>1. x.next \in Nat \ {0}
        BY <1>1 DEF FramesOK, FrameOK
    <2> QED
        BY <1>1, <2>1, DeclaredMore
<1> QED
    BY <1>1, <1>3, <1>4, <1>5, <1>6

(* A frame for the sentences within one.                                   *)
Pushed(fs, x, gs) == gs = Append(fs, x)

LEMMA UnderPushes ==
    ASSUME NEW f, NEW fs, NEW p, NEW D, Under(f, fs, p, D), IsSeq(fs), NEW N, N = Names(fs, p, Len(fs)),
           NEW x, x.next = 1, Waits(f, D, x.after, N), NEW gs, Pushed(fs, x, gs)
    PROVE  Under(f, gs, p, D) /\ Names(gs, p, Len(gs)) = N
<1>1. PICK m \in Nat : Len(fs) = m /\ DOMAIN fs = 1 .. m
    BY SeqFacts
<1>2. /\ Len(gs) = m + 1 /\ DOMAIN gs = 1 .. m + 1 /\ gs[m + 1] = x
      /\ \A i \in 1 .. m : gs[i] = fs[i]
    BY <1>1, AppendAny DEF Pushed
<1>3. \A j \in 0 .. m : Names(gs, p, j) = Names(fs, p, j)
    <2> SUFFICES ASSUME NEW j \in 0 .. m PROVE Names(gs, p, j) = Names(fs, p, j)
        OBVIOUS
    <2>1. j \in Nat /\ \A i \in 1 .. j : gs[i] = fs[i]
        BY <1>1, <1>2
    <2> QED
        BY <2>1, SameNames
<1>4. ASSUME NEW i \in 1 .. m + 1
      PROVE  Waits(f, D, gs[i].after, Names(gs, p, i - 1))
    <2>1. CASE i = m + 1
        BY <1>1, <1>2, <1>3, <2>1
    <2>2. CASE i # m + 1
        <3>1. i \in 1 .. m /\ i - 1 \in 0 .. m
            BY <1>1, <2>2
        <3>2. Waits(f, D, fs[i].after, Names(fs, p, i - 1))
            BY <1>1, <3>1 DEF Under
        <3> QED
            BY <1>2, <1>3, <3>1, <3>2
    <2> QED
        BY <2>1, <2>2
<1>5. Under(f, gs, p, D)
    BY <1>2, <1>4 DEF Under
<1>7. Names(gs, p, m + 1) = Names(gs, p, m) \cup Declared(gs[m + 1])
    BY MoreNames
<1>6. Names(gs, p, m + 1) = Names(gs, p, m) \cup Declared(x) /\ Declared(x) = {}
    BY <1>2, <1>7, DeclaredNone
<1> QED
    BY <1>1, <1>2, <1>3, <1>5, <1>6

(* The topmost frame goes.                                                 *)
LEMMA UnderPops ==
    ASSUME NEW f, NEW fs, NEW p, NEW D, Under(f, fs, p, D), FramesOK(fs, p), Last(fs).after.is # "function",
           NEW gs, gs = Front(fs)
    PROVE  Under(f, gs, p, D) /\ Waits(f, D, Last(fs).after, Names(gs, p, Len(gs)))
<1>1. PICK m \in Nat : Len(fs) = m + 1 /\ DOMAIN fs = 1 .. m + 1 /\ IsSeq(fs) /\ Last(fs) = fs[m + 1]
    <2>1. Len(fs) \in Nat \ {0} /\ DOMAIN fs = 1 .. Len(fs) /\ IsSeq(fs) /\ Last(fs) = fs[Len(fs)]
        BY FramesFacts
    <2>2. PICK m : m = Len(fs) - 1
        OBVIOUS
    <2>3. m \in Nat /\ Len(fs) = m + 1
        BY <2>1, <2>2
    <2> QED
        BY <2>1, <2>3
<1>2. /\ Len(gs) = m /\ DOMAIN gs = 1 .. m /\ \A i \in 1 .. m : gs[i] = fs[i]
    BY <1>1, FrontAny
<1>3. Names(gs, p, m) = Names(fs, p, m)
    BY <1>2, SameNames
<1>4. Under(f, gs, p, D)
    <2>1. \A i \in DOMAIN gs : \A j \in 1 .. i - 1 : gs[j] = fs[j]
        BY <1>2
    <2>2. \A i \in DOMAIN gs : gs[i].after = fs[i].after
        BY <1>2
    <2>3. DOMAIN gs \subseteq DOMAIN fs /\ DOMAIN gs \subseteq Nat \ {0}
        BY <1>1, <1>2
    <2> QED
        BY ONLY Under(f, fs, p, D), <2>1, <2>2, <2>3, SameUnder
<1>5. Waits(f, D, fs[m + 1].after, Names(fs, p, m))
    <2>1. m + 1 \in DOMAIN fs /\ (m + 1) - 1 = m
        BY <1>1
    <2> QED
        BY <2>1 DEF Under
<1> QED
    BY <1>1, <1>2, <1>3, <1>4, <1>5

-----------------------------------------------------------------------------
(* Within a step.  The names N are seen from the blocks X, which no frame  *)
(* waits for, and from the blocks Y, which get no locals any more.         *)
Mid(f, fs, p, D, X, Y, N) ==
    /\ Built(f) /\ Under(f, fs, p, D)
    /\ \A b \in X : b \notin D /\ Tip(f, D, b, N) /\ Apart(fs, b)
    /\ \A b \in Y : b \in D /\ Shows(f, b, N)

LEMMA MidFacts ==
    ASSUME NEW f, NEW fs, NEW p, NEW D, NEW X, NEW Y, NEW N, Mid(f, fs, p, D, X, Y, N)
    PROVE  /\ Built(f) /\ Len(f.blocks) \in Nat /\ Shut(f, D) /\ D \subseteq 1 .. Len(f.blocks)
           /\ X \subseteq 1 .. Len(f.blocks) /\ Y \subseteq D /\ Y \subseteq 1 .. Len(f.blocks)
<1>1. Shut(f, D)
    BY DEF Mid, Under
<1>2. D \subseteq 1 .. Len(f.blocks)
    BY <1>1 DEF Shut
<1>3. X \subseteq 1 .. Len(f.blocks) /\ Y \subseteq D
    BY DEF Mid, Tip
<1> QED
    BY <1>1, <1>2, <1>3, BuiltFacts DEF Mid

LEMMA MidGrows ==
    ASSUME NEW f, NEW fs, NEW p, NEW D, NEW X, NEW Y, NEW N, Mid(f, fs, p, D, X, Y, N),
           NEW g, NEW B, Grows(f, g, B), D \cap B = {}, X \cap B = {}, \A b \in B : Apart(fs, b)
    PROVE  Mid(g, fs, p, D, X, Y, N)
<1>1. Under(f, fs, p, D) /\ Shut(f, D)
    BY DEF Mid, Under
<1>2. Under(g, fs, p, D)
    BY <1>1, UnderGrows
<1>3. /\ \A b \in D : \A M : Shows(f, b, M) => Shows(g, b, M)
      /\ \A b : \A M : b \notin B /\ Tip(f, D, b, M) => Tip(g, D, b, M)
    BY <1>1, GrowsSight
<1>4. \A b \in X : b \notin D /\ Tip(g, D, b, N) /\ Apart(fs, b)
    BY <1>3 DEF Mid
<1>5. \A b \in Y : b \in D /\ Shows(g, b, N)
    BY <1>3 DEF Mid
<1> QED
    BY <1>2, <1>4, <1>5 DEF Mid, Grows

LEMMA MidSees ==
    ASSUME NEW f, NEW fs, NEW p, NEW D, NEW X, NEW Y, NEW N, Mid(f, fs, p, D, X, Y, N),
           NEW g, Sees(f, g)
    PROVE  Mid(g, fs, p, D, X, Y, N) /\ Len(g.blocks) = Len(f.blocks)
<1>1. PICK B : B = {}
    OBVIOUS
<1>2. Grows(f, g, B)
    BY <1>1, SeesGrows DEF Mid
<1>3. D \cap B = {} /\ X \cap B = {} /\ \A b \in B : Apart(fs, b)
    BY <1>1
<1>4. Mid(g, fs, p, D, X, Y, N)
    BY ONLY Mid(f, fs, p, D, X, Y, N), <1>2, <1>3, MidGrows
<1> QED
    BY <1>4 DEF Sees

(* No frame waits for a block that is not there.                           *)
LEMMA FreshIsApart ==
    ASSUME NEW f, NEW fs, NEW p, NEW D, Under(f, fs, p, D), NEW m, m \notin 1 .. Len(f.blocks)
    PROVE  Apart(fs, m)
<1> SUFFICES ASSUME NEW i \in DOMAIN fs, m \in Tips(fs[i].after) PROVE FALSE
    BY DEF Apart
<1>1. Waits(f, D, fs[i].after, Names(fs, p, i - 1))
    BY DEF Under
<1> QED
    BY <1>1 DEF Waits, Tip

(* A block that is new, and a set with one block more.                     *)
Fresh(f, m)     == m = Len(f.blocks) + 1
Joined(Z, X, m) == Z = X \cup {m}

LEMMA MidMakes ==
    ASSUME NEW f, NEW fs, NEW p, NEW D, NEW X, NEW Y, NEW N, Mid(f, fs, p, D, X, Y, N),
           NEW q \in 0 .. Len(f.blocks), NEW g, g = Create(f, q), NEW m, m = Len(f.blocks) + 1
    PROVE  /\ Mid(g, fs, p, D, X, Y, N) /\ Look(g, m) = <<q, 0, <<>>>> /\ Len(g.blocks) = m
           /\ m \in 1 .. m /\ m \notin D /\ m \notin X /\ Apart(fs, m) /\ Current(g) = Current(f) /\ Created(g) = m
           /\ \A k \in 1 .. Len(f.blocks) : Look(g, k) = Look(f, k)
<1>1. /\ Built(f) /\ Len(f.blocks) \in Nat /\ D \subseteq 1 .. Len(f.blocks) /\ X \subseteq 1 .. Len(f.blocks)
    BY MidFacts
<1>2. PICK B : B = {}
    OBVIOUS
<1>3. Grows(f, g, B)
    BY <1>1, <1>2, CreateGrows
<1>4. D \cap B = {} /\ X \cap B = {} /\ \A b \in B : Apart(fs, b)
    BY <1>2
<1>5. Mid(g, fs, p, D, X, Y, N)
    BY ONLY Mid(f, fs, p, D, X, Y, N), <1>3, <1>4, MidGrows
<1>6. m \in 1 .. m /\ m \notin 1 .. Len(f.blocks)
    BY <1>1
<1>7. Apart(fs, m)
    BY <1>6, FreshIsApart DEF Mid
<1>8. /\ Len(g.blocks) = m /\ Created(g) = m /\ Current(g) = Current(f)
      /\ \A k \in 1 .. Len(f.blocks) : Look(g, k) = Look(f, k)
      /\ Look(g, m) = <<q, 0, <<>>>>
    BY <1>1, CreateSees
<1> QED
    BY <1>1, <1>5, <1>6, <1>7, <1>8

LEMMA MidFinds ==
    ASSUME NEW f, NEW fs, NEW p, NEW D, NEW X, NEW Y, NEW N, Mid(f, fs, p, D, X, Y, N), NEW c \in Y,
           NEW b \in 1 .. Len(f.blocks), b \notin D, Apart(fs, b),
           NEW r, NEW q, Look(f, b) = <<r, q, <<>>>>,
           (r = c /\ q = 0) \/ (q = c /\ r \in {0, f.blocks[c].parent}),
           NEW Z, Z = X \cup {b}
    PROVE  Mid(f, fs, p, D, Z, Y, N)
<1>1. c \in D /\ Shows(f, c, N) /\ Built(f) /\ Shut(f, D)
    BY DEF Mid, Under
<1>2. Tip(f, D, b, N)
    BY <1>1, TipFrom
<1> QED
    BY <1>2 DEF Mid

(* A new block within a block.                                             *)
LEMMA MidCreates ==
    ASSUME NEW f, NEW fs, NEW p, NEW D, NEW X, NEW Y, NEW N, Mid(f, fs, p, D, X, Y, N), NEW c \in Y,
           NEW g, g = Create(f, c), NEW m, Fresh(f, m), NEW Z, Joined(Z, X, m)
    PROVE  /\ Mid(g, fs, p, D, Z, Y, N) /\ Len(g.blocks) = m /\ Created(g) = m
           /\ Current(g) = Current(f)
<1>8. m = Len(f.blocks) + 1 /\ Z = X \cup {m}
    BY DEF Fresh, Joined
<1>1. PICK q : q = c
    OBVIOUS
<1>2. q \in 0 .. Len(f.blocks) /\ q \in Y
    BY <1>1, MidFacts
<1>3. g = Create(f, q)
    BY <1>1
<1>4. /\ Mid(g, fs, p, D, X, Y, N) /\ Look(g, m) = <<q, 0, <<>>>> /\ Len(g.blocks) = m
      /\ m \in 1 .. m /\ m \notin D /\ m \notin X /\ Apart(fs, m) /\ Current(g) = Current(f) /\ Created(g) = m
    BY ONLY Mid(f, fs, p, D, X, Y, N), <1>2, <1>3, <1>8, MidMakes
<1>5. PICK z : z = 0
    OBVIOUS
<1>6. m \in 1 .. Len(g.blocks) /\ Look(g, m) = <<q, z, <<>>>>
    BY <1>4, <1>5
<1>7. Mid(g, fs, p, D, Z, Y, N)
    BY ONLY <1>2, <1>4, <1>5, <1>6, <1>8, MidFinds
<1> QED
    BY <1>4, <1>7

(* A new block after a block.                                              *)
LEMMA MidLinks ==
    ASSUME NEW f, NEW fs, NEW p, NEW D, NEW X, NEW Y, NEW N, Mid(f, fs, p, D, X, Y, N), NEW c \in Y,
           NEW q \in {0, f.blocks[c].parent}, NEW m, Fresh(f, m),
           NEW g, g = Link(Create(f, q), m, c), NEW Z, Joined(Z, X, m)
    PROVE  /\ Mid(g, fs, p, D, Z, Y, N) /\ Len(g.blocks) = m /\ Created(Create(f, q)) = m
           /\ Current(g) = Current(f) /\ q \in 0 .. Len(f.blocks)
<1>14. m = Len(f.blocks) + 1 /\ Z = X \cup {m}
    BY DEF Fresh, Joined
<1>1. /\ Built(f) /\ Len(f.blocks) \in Nat /\ D \subseteq 1 .. Len(f.blocks) /\ c \in 1 .. Len(f.blocks)
      /\ X \subseteq 1 .. Len(f.blocks)
    BY MidFacts
<1>2. q \in 0 .. Len(f.blocks)
    <2>1. f.blocks[c].parent \in 0 .. c - 1
        BY <1>1, BuiltFacts DEF Built, IsBlockAt
    <2> QED
        BY <1>1, <2>1
<1>3. PICK h : h = Create(f, q)
    OBVIOUS
<1>4. /\ Mid(h, fs, p, D, X, Y, N) /\ Look(h, m) = <<q, 0, <<>>>> /\ Len(h.blocks) = m
      /\ m \in 1 .. m /\ m \notin D /\ m \notin X /\ Apart(fs, m) /\ Current(h) = Current(f) /\ Created(h) = m
      /\ \A k \in 1 .. Len(f.blocks) : Look(h, k) = Look(f, k)
    BY ONLY Mid(f, fs, p, D, X, Y, N), <1>2, <1>3, <1>14, MidMakes
<1>5. PICK B : B = {}
    OBVIOUS
<1>6. Grows(f, h, B)
    BY <1>1, <1>2, <1>3, <1>5, CreateGrows
<1>7. m \in 1 .. Len(h.blocks) /\ m > Len(f.blocks) /\ c \in 1 .. Len(h.blocks) /\ c < m /\ g = Link(h, m, c)
    BY <1>1, <1>3, <1>4, <1>14
<1>8. Grows(f, g, B)
    <2>1. PICK d : d = c
        OBVIOUS
    <2>2. d \in 1 .. Len(h.blocks) /\ d < m /\ g = Link(h, m, d)
        BY <1>7, <2>1
    <2> QED
        BY ONLY <1>6, <1>7, <2>2, LinkGrows
<1>9. D \cap B = {} /\ X \cap B = {} /\ \A b \in B : Apart(fs, b)
    BY <1>5
<1>10. Mid(g, fs, p, D, X, Y, N)
    BY ONLY Mid(f, fs, p, D, X, Y, N), <1>8, <1>9, MidGrows
<1>11. /\ Len(g.blocks) = m /\ Current(g) = Current(f) /\ Look(g, m) = <<q, c, <<>>>>
       /\ g.blocks[c].parent = f.blocks[c].parent
    <2>1. Built(h)
        BY <1>4 DEF Mid
    <2>2. PICK d : d = c
        OBVIOUS
    <2>3. d \in 1 .. Len(h.blocks) /\ d < m /\ g = Link(h, m, d)
        BY <1>7, <2>2
    <2>4. /\ Len(g.blocks) = Len(h.blocks) /\ Current(g) = Current(h)
          /\ \A k \in 1 .. Len(h.blocks) : k # m => Look(g, k) = Look(h, k)
          /\ \A r, v : Look(h, m) = <<r, 0, v>> => Look(g, m) = <<r, d, v>>
        BY ONLY <1>7, <2>1, <2>3, LinkSees
    <2>5. Look(g, m) = <<q, d, <<>>>>
        BY <1>4, <2>4
    <2>6. Look(g, d) = Look(f, d)
        <3>1. d \in 1 .. Len(f.blocks) /\ d # m
            BY <1>1, <1>7, <2>2
        <3> QED
            BY <1>4, <2>3, <2>4, <3>1
    <2>7. g.blocks[d].parent = f.blocks[d].parent
        BY <2>6, SameLook
    <2> QED
        BY <1>4, <2>2, <2>4, <2>5, <2>7
<1>12. m \in 1 .. Len(g.blocks) /\ ((q = c /\ c = 0) \/ (c = c /\ q \in {0, g.blocks[c].parent}))
    BY <1>4, <1>11
<1>13. Mid(g, fs, p, D, Z, Y, N)
    <2>1. PICK d : d = c
        OBVIOUS
    <2>2. Look(g, m) = <<q, d, <<>>>> /\ d = c /\ q \in {0, g.blocks[c].parent} /\ c \in Y
        BY <1>11, <2>1
    <2> QED
        BY ONLY <1>4, <1>10, <1>12, <2>2, <1>14, MidFinds
<1> QED
    BY <1>2, <1>3, <1>4, <1>11, <1>13

(* A block gets no locals any more.                                        *)
LEMMA MidRetires ==
    ASSUME NEW f, NEW fs, NEW p, NEW D, NEW X, NEW Y, NEW N, Mid(f, fs, p, D, X, Y, N), NEW c \in X,
           NEW E, E = D \cup {c}, NEW V, V = X \ {c}, NEW W, W = Y \cup {c}
    PROVE  Mid(f, fs, p, E, V, W, N)
<1>1. Built(f) /\ Under(f, fs, p, D) /\ Tip(f, D, c, N) /\ Apart(fs, c) /\ D \subseteq E
    BY DEF Mid
<1>2. Under(f, fs, p, E) /\ Shows(f, c, N) /\ c \in E
    BY <1>1, UnderRetires
<1>3. \A b \in V : b \notin E /\ Tip(f, E, b, N) /\ Apart(fs, b)
    <2> SUFFICES ASSUME NEW b \in V PROVE b \notin E /\ Tip(f, E, b, N) /\ Apart(fs, b)
        OBVIOUS
    <2>1. b \notin D /\ Tip(f, D, b, N) /\ Apart(fs, b) /\ b # c
        BY DEF Mid
    <2>2. Tip(f, E, b, N)
        BY <1>1, <2>1, TipWider
    <2> QED
        BY <2>1, <2>2
<1>4. \A b \in W : b \in E /\ Shows(f, b, N)
    BY <1>1, <1>2 DEF Mid
<1> QED
    BY <1>1, <1>2, <1>3, <1>4 DEF Mid

(* A local more: only from its block the names are known then.             *)
LEMMA MidGains ==
    ASSUME NEW f, NEW fs, NEW p, NEW D, NEW X, NEW Y, NEW N, Mid(f, fs, p, D, X, Y, N), NEW b \in X,
           NEW local, local.name \notin N \/ local.name = NoTag, NEW g, g = NewLocal(f, b, local),
           NEW M, M = N \cup {local.name}, NEW Z, Z = {b}, NEW W, W = {}
    PROVE  /\ Mid(g, fs, p, D, Z, W, M) /\ Len(g.blocks) = Len(f.blocks) /\ Current(g) = Current(f)
           /\ \A k \in 1 .. Len(f.blocks) : k # b => Look(g, k) = Look(f, k)
           /\ g.blocks[b].parent = f.blocks[b].parent
<1>1. /\ Built(f) /\ Under(f, fs, p, D) /\ Shut(f, D) /\ b \notin D /\ Tip(f, D, b, N) /\ Apart(fs, b)
      /\ b \in 1 .. Len(f.blocks)
    BY MidFacts DEF Mid
<1>2. Tip(g, D, b, M)
    <2>1. Tip(g, D, b, N \cup {local.name})
        BY ONLY <1>1, local.name \notin N \/ local.name = NoTag, g = NewLocal(f, b, local), TipGains
    <2> QED
        BY <2>1
<1>3. Gains(f, g, b, local)
    BY <1>1, NewLocalSees
<1>4. PICK B : B = {b}
    OBVIOUS
<1>5. Grows(f, g, B) /\ D \cap B = {} /\ \A k \in B : Apart(fs, k)
    <2>1. Grows(f, g, {b})
        BY <1>1, NewLocalGrows
    <2> QED
        BY <1>1, <1>4, <2>1
<1>6. Under(g, fs, p, D)
    BY ONLY <1>1, <1>5, UnderGrows
<1>7. Built(g)
    BY <1>3 DEF Gains
<1>8. \A k \in W : k \in D /\ Shows(g, k, M)
    OBVIOUS
<1>9. \A k \in Z : k \notin D /\ Tip(g, D, k, M) /\ Apart(fs, k)
    BY <1>1, <1>2
<1>10. Mid(g, fs, p, D, Z, W, M)
    BY ONLY <1>6, <1>7, <1>8, <1>9 DEF Mid
<1> QED
    BY <1>3, <1>10 DEF Gains

(* The frames go on.                                                       *)
LEMMA MidSettles ==
    ASSUME NEW f, NEW fs, NEW p, NEW D, NEW X, NEW Y, NEW N, Mid(f, fs, p, D, X, Y, N),
           N = Names(fs, p, Len(fs)), Current(f) \in X
    PROVE  Scoped(f, fs, p)
<1>1. Current(f) \notin D /\ Tip(f, D, Current(f), N) /\ Built(f) /\ Under(f, fs, p, D)
    BY DEF Mid
<1>2. ScopedBy(f, fs, p, D)
    BY <1>1 DEF ScopedBy
<1> QED
    BY <1>2 DEF Scoped

LEMMA MidPushes ==
    ASSUME NEW f, NEW fs, NEW p, NEW D, NEW X, NEW Y, NEW N, Mid(f, fs, p, D, X, Y, N), IsSeq(fs),
           N = Names(fs, p, Len(fs)), NEW x, x.next = 1, Tips(x.after) \subseteq X,
           x.after.is = "arm" /\ x.after.snt.is = "match" => x.after.curr \in Y,
           Current(f) \in X, NEW gs, gs = Append(fs, x)
    PROVE  Scoped(f, gs, p)
<1>1. PICK c : c = Current(f)
    OBVIOUS
<1>2. c \notin D /\ Tip(f, D, c, N) /\ Built(f) /\ Under(f, fs, p, D)
    BY <1>1 DEF Mid
<1>3. Waits(f, D, x.after, N)
    BY DEF Mid, Waits
<1>6. Pushed(fs, x, gs)
    BY DEF Pushed
<1>4. Under(f, gs, p, D) /\ Names(gs, p, Len(gs)) = N
    BY ONLY <1>2, <1>3, IsSeq(fs), N = Names(fs, p, Len(fs)), x.next = 1, <1>6, UnderPushes
<1>5. ScopedBy(f, gs, p, D)
    BY <1>1, <1>2, <1>4 DEF ScopedBy
<1> QED
    BY <1>5 DEF Scoped

(* A step begins with a sentence.                                          *)
GoneOn(fs, gs) ==
    /\ IsSeq(gs) /\ Len(gs) = Len(fs) /\ DOMAIN gs = DOMAIN fs
    /\ \A i \in DOMAIN fs : i # Len(fs) => gs[i] = fs[i]
    /\ gs[Len(fs)].after = fs[Len(fs)].after /\ gs[Len(fs)].body = fs[Len(fs)].body
    /\ gs[Len(fs)].next = fs[Len(fs)].next + 1

LEMMA FramesGoOn ==
    ASSUME NEW fs, NEW p, FramesOK(fs, p)
    PROVE  /\ GoneOn(fs, [fs EXCEPT ![Len(fs)].next = @ + 1])
           /\ GoneOn(fs, [fs EXCEPT ![Len(fs)].next = @ + 1, ![Len(fs)].ended = TRUE])
<1>1. /\ IsSeq(fs) /\ Len(fs) \in Nat \ {0} /\ DOMAIN fs = 1 .. Len(fs)
      /\ Len(fs) \in DOMAIN fs /\ FrameOK(Last(fs)) /\ Last(fs) = fs[Len(fs)]
    BY FramesFacts
<1>2. PICK x : x = Last(fs)
    OBVIOUS
<1>3. x = [body |-> x.body, next |-> x.next, ended |-> x.ended, after |-> x.after]
    BY <1>1, <1>2 DEF FrameOK
<1>4. PICK y, t : y = [body |-> x.body, next |-> x.next + 1, ended |-> x.ended, after |-> x.after] /\ t = TRUE
    OBVIOUS
<1>5. PICK z : z = [body |-> x.body, next |-> x.next + 1, ended |-> t, after |-> x.after]
    OBVIOUS
<1>6. [x EXCEPT !.next = @ + 1] = y
    BY <1>3, <1>4
<1>7. [y EXCEPT !.ended = t] = z
    <2>1. y = [body |-> x.body, next |-> x.next + 1, ended |-> x.ended, after |-> x.after]
        BY <1>4
    <2> QED
        BY ONLY <1>5, <2>1
<1>8. PICK gs, hs : gs = [fs EXCEPT ![Len(fs)] = y] /\ hs = [fs EXCEPT ![Len(fs)] = z]
    OBVIOUS
<1>9. [fs EXCEPT ![Len(fs)].next = @ + 1] = gs
    <2>1. [fs EXCEPT ![Len(fs)].next = @ + 1] = [fs EXCEPT ![Len(fs)] = [x EXCEPT !.next = @ + 1]]
        BY <1>1, <1>2
    <2> QED
        BY <1>6, <1>8, <2>1
<1>10. [fs EXCEPT ![Len(fs)].next = @ + 1, ![Len(fs)].ended = TRUE] = hs
    <2>1. [fs EXCEPT ![Len(fs)].next = @ + 1, ![Len(fs)].ended = TRUE]
             = [gs EXCEPT ![Len(fs)] = [gs[Len(fs)] EXCEPT !.ended = t]]
        BY <1>4, <1>9
    <2>2. gs[Len(fs)] = y
        BY <1>1, <1>8
    <2>3. [gs EXCEPT ![Len(fs)] = z] = hs
        BY <1>8
    <2> QED
        BY <1>7, <2>1, <2>2, <2>3
<1>11. /\ IsSeq(gs) /\ Len(gs) = Len(fs) /\ DOMAIN gs = DOMAIN fs
       /\ \A i \in DOMAIN fs : gs[i] = IF i = Len(fs) THEN y ELSE fs[i]
    BY <1>1, <1>8, ExceptAny
<1>12. /\ IsSeq(hs) /\ Len(hs) = Len(fs) /\ DOMAIN hs = DOMAIN fs
       /\ \A i \in DOMAIN fs : hs[i] = IF i = Len(fs) THEN z ELSE fs[i]
    BY <1>1, <1>8, ExceptAny
<1>13. y.after = x.after /\ y.body = x.body /\ y.next = x.next + 1
    BY <1>4
<1>14. z.after = x.after /\ z.body = x.body /\ z.next = x.next + 1
    BY <1>5
<1>15. GoneOn(fs, gs)
    BY <1>1, <1>2, <1>11, <1>13 DEF GoneOn
<1>16. GoneOn(fs, hs)
    BY <1>1, <1>2, <1>12, <1>14 DEF GoneOn
<1> QED
    BY <1>9, <1>10, <1>15, <1>16

NamesAfter(gs, p, N, x) == Names(gs, p, Len(gs)) = N \cup Declares(x.body[x.next])

LEMMA MidBegins ==
    ASSUME NEW f, NEW fs, NEW p, NEW D, FramesOK(fs, p), ScopedBy(f, fs, p, D),
           NEW c, c = Current(f), c \notin AllReserved(fs),
           NEW gs, GoneOn(fs, gs), NEW N, N = Names(fs, p, Len(fs)), NEW x, x = Last(fs),
           NEW X, X = {c}, NEW Y, Y = {}
    PROVE  Mid(f, gs, p, D, X, Y, N) /\ NamesAfter(gs, p, N, x)
<1>1. x = fs[Len(fs)] /\ DOMAIN fs = 1 .. Len(fs)
    BY FramesFacts
<1>2. /\ IsSeq(gs) /\ Len(gs) = Len(fs) /\ DOMAIN gs = DOMAIN fs
      /\ \A i \in DOMAIN fs : i # Len(fs) => gs[i] = fs[i]
      /\ gs[Len(fs)].after = x.after /\ gs[Len(fs)].body = x.body /\ gs[Len(fs)].next = x.next + 1
    BY <1>1 DEF GoneOn
<1>3. /\ Built(f) /\ Under(f, fs, p, D) /\ c \notin D /\ Tip(f, D, c, N)
    BY DEF ScopedBy
<1>4. /\ Under(f, gs, p, D)
      /\ Names(gs, p, Len(gs)) = N \cup Declares(x.body[x.next])
    <2>1. Under(f, fs, p, D) /\ FramesOK(fs, p) /\ x = fs[Len(fs)]
        BY <1>1, <1>3
    <2>2. /\ Under(f, gs, p, D)
          /\ Names(gs, p, Len(gs)) = Names(fs, p, Len(fs)) \cup Declares(x.body[x.next])
        BY ONLY <1>2, <2>1, UnderAdvances
    <2> QED
        BY <2>2
<1>5. Apart(gs, c)
    <2>1. Apart(fs, c)
        BY ReservedIsApart
    <2> QED
        BY <1>1, <1>2, <2>1 DEF Apart
<1>6. Mid(f, gs, p, D, X, Y, N)
    BY <1>3, <1>4, <1>5 DEF Mid
<1> QED
    BY <1>4, <1>6 DEF NamesAfter

(* A step begins after the sentences of a body.                            *)
LEMMA MidBodyOver ==
    ASSUME NEW f, NEW fs, NEW p, NEW D, FramesOK(fs, p), ScopedBy(f, fs, p, D),
           NEW a, a = Last(fs).after, a.is # "function", NEW gs, gs = Front(fs), NEW N, N = Names(gs, p, Len(gs)),
           NEW X, X = Tips(a), NEW Y, Y = IF a.is = "arm" /\ a.snt.is = "match" THEN {a.curr} ELSE {}
    PROVE  Mid(f, gs, p, D, X, Y, N)
<1>1. Built(f) /\ Under(f, fs, p, D)
    BY DEF ScopedBy
<1>2. Under(f, gs, p, D) /\ Waits(f, D, a, N)
    BY <1>1, UnderPops
<1>3. PICK m \in Nat : Len(fs) = m + 1 /\ DOMAIN fs = 1 .. m + 1 /\ IsSeq(fs) /\ Last(fs) = fs[m + 1]
    <2>1. Len(fs) \in Nat \ {0} /\ DOMAIN fs = 1 .. Len(fs) /\ IsSeq(fs) /\ Last(fs) = fs[Len(fs)]
        BY FramesFacts
    <2>2. PICK m : m = Len(fs) - 1
        OBVIOUS
    <2>3. m \in Nat /\ Len(fs) = m + 1
        BY <2>1, <2>2
    <2> QED
        BY <2>1, <2>3
<1>4. DOMAIN gs = 1 .. m /\ \A i \in 1 .. m : gs[i] = fs[i]
    <2>1. PICK k : k = m + 1
        OBVIOUS
    <2>2. IsSeq(fs) /\ Len(fs) = k /\ k \in Nat \ {0} /\ k - 1 = m
        BY <1>3, <2>1
    <2> QED
        BY <2>2, FrontAny
<1>5. \A i \in DOMAIN fs : AfterOK(fs[i].after)
    BY DEF FramesOK, FrameOK
<1>6. \A i \in 1 .. m : Reserved(fs[i].after) \cap Reserved(a) = {}
    <2>1. \A i \in 1 .. m : i \in DOMAIN fs /\ m + 1 \in DOMAIN fs /\ i # m + 1
        BY <1>3
    <2> QED
        BY <1>3, <2>1 DEF FramesOK
<1>7. \A b \in X : Apart(gs, b)
    <2> SUFFICES ASSUME NEW b \in X, NEW i \in 1 .. m, b \in Tips(gs[i].after) PROVE FALSE
        BY <1>4 DEF Apart
    <2>1. b \in Reserved(a)
        <3>1. AfterOK(a)
            BY <1>3, <1>5
        <3> QED
            BY <3>1, TipsAreReserved
    <2>2. b \in Reserved(fs[i].after)
        <3>1. AfterOK(fs[i].after)
            BY <1>3, <1>5
        <3> QED
            BY <1>4, <3>1, TipsAreReserved
    <2> QED
        BY <1>6, <2>1, <2>2
<1> QED
    BY <1>1, <1>2, <1>7 DEF Mid, Waits

(* Between the changes of a step: what the frames declare is seen from X   *)
(* and from Y.                                                             *)
Between(f, fs, p, X, Y) == IsSeq(fs) /\ \E D : Mid(f, fs, p, D, X, Y, Names(fs, p, Len(fs)))

LEMMA BetweenFacts ==
    ASSUME NEW f, NEW fs, NEW p, NEW X, NEW Y, Between(f, fs, p, X, Y)
    PROVE  /\ Built(f) /\ IsSeq(fs) /\ Len(f.blocks) \in Nat
           /\ X \subseteq 1 .. Len(f.blocks) /\ Y \subseteq 1 .. Len(f.blocks)
    BY MidFacts DEF Between

LEMMA BetweenSees ==
    ASSUME NEW f, NEW fs, NEW p, NEW X, NEW Y, Between(f, fs, p, X, Y), NEW g, Sees(f, g)
    PROVE  Between(g, fs, p, X, Y)
<1>1. PICK N : N = Names(fs, p, Len(fs))
    OBVIOUS
<1>2. PICK D : Mid(f, fs, p, D, X, Y, N)
    BY <1>1 DEF Between
<1>3. Mid(g, fs, p, D, X, Y, N)
    BY <1>2, MidSees
<1> QED
    BY <1>1, <1>3 DEF Between

LEMMA BetweenActivates ==
    ASSUME NEW f, NEW fs, NEW p, NEW X, NEW Y, Between(f, fs, p, X, Y), NEW b \in X \cup Y,
           NEW g, g = SetActive(f, b)
    PROVE  Between(g, fs, p, X, Y) /\ Current(g) = b /\ Len(g.blocks) = Len(f.blocks)
<1>1. Built(f) /\ b \in 1 .. Len(f.blocks)
    BY BetweenFacts
<1>2. Sees(f, g) /\ Current(g) = b
    BY <1>1, SetActiveSees
<1> QED
    BY <1>2, BetweenSees DEF Sees

LEMMA BetweenEmits ==
    ASSUME NEW f, NEW fs, NEW p, NEW X, NEW Y, Between(f, fs, p, X, Y), NEW x, NEW g, g = Emit(f, <<x>>)
    PROVE  Between(g, fs, p, X, Y) /\ Current(g) = Current(f) /\ Len(g.blocks) = Len(f.blocks)
<1>1. Built(f)
    BY BetweenFacts
<1>2. Sees(f, g) /\ Current(g) = Current(f)
    BY <1>1, EmitOneSees
<1> QED
    BY <1>2, BetweenSees DEF Sees

LEMMA BetweenBranches ==
    ASSUME NEW f, NEW fs, NEW p, NEW X, NEW Y, Between(f, fs, p, X, Y), NEW b, NEW g, g = AddBranch(f, b)
    PROVE  Between(g, fs, p, X, Y) /\ Current(g) = Current(f) /\ Len(g.blocks) = Len(f.blocks)
<1>1. Built(f)
    BY BetweenFacts
<1>2. Sees(f, g) /\ Current(g) = Current(f)
    BY <1>1, AddBranchSees
<1> QED
    BY <1>2, BetweenSees DEF Sees

LEMMA BetweenDestroys ==
    ASSUME NEW f, NEW fs, NEW p, NEW X, NEW Y, Between(f, fs, p, X, Y), NEW b \in 1 .. Len(f.blocks),
           NEW g, g = DestroyLocals(f, b)
    PROVE  Between(g, fs, p, X, Y) /\ Current(g) = Current(f) /\ Len(g.blocks) = Len(f.blocks)
<1>1. Built(f)
    BY BetweenFacts
<1>2. Sees(f, g) /\ Current(g) = Current(f)
    BY <1>1, DestroyLocalsSees
<1> QED
    BY <1>2, BetweenSees DEF Sees

LEMMA BetweenRetires ==
    ASSUME NEW f, NEW fs, NEW p, NEW X, NEW Y, Between(f, fs, p, X, Y), NEW c \in X,
           NEW V, V = X \ {c}, NEW W, W = Y \cup {c}
    PROVE  Between(f, fs, p, V, W)
<1>1. PICK N : N = Names(fs, p, Len(fs))
    OBVIOUS
<1>2. PICK D : Mid(f, fs, p, D, X, Y, N)
    BY <1>1 DEF Between
<1>3. PICK E : E = D \cup {c}
    OBVIOUS
<1>4. Mid(f, fs, p, E, V, W, N)
    BY <1>2, <1>3, MidRetires
<1> QED
    BY <1>1, <1>4 DEF Between

LEMMA BetweenCreates ==
    ASSUME NEW f, NEW fs, NEW p, NEW X, NEW Y, Between(f, fs, p, X, Y), NEW c \in Y,
           NEW g, g = Create(f, c), NEW m, Fresh(f, m), NEW Z, Joined(Z, X, m)
    PROVE  /\ Between(g, fs, p, Z, Y) /\ Len(g.blocks) = m /\ Created(g) = m /\ m \notin X /\ m # 0
           /\ Current(g) = Current(f)
<1>1. PICK N : N = Names(fs, p, Len(fs))
    OBVIOUS
<1>2. PICK D : Mid(f, fs, p, D, X, Y, N)
    BY <1>1 DEF Between
<1>3. Mid(g, fs, p, D, Z, Y, N) /\ Len(g.blocks) = m /\ Created(g) = m /\ Current(g) = Current(f)
    BY ONLY <1>2, c \in Y, g = Create(f, c), Fresh(f, m), Joined(Z, X, m), MidCreates
<1>4. m # 0 /\ m \notin X
    <2>1. Len(f.blocks) \in Nat /\ X \subseteq 1 .. Len(f.blocks)
        BY BetweenFacts
    <2> QED
        BY <2>1 DEF Fresh
<1> QED
    BY <1>1, <1>3, <1>4 DEF Between

LEMMA BetweenLinks ==
    ASSUME NEW f, NEW fs, NEW p, NEW X, NEW Y, Between(f, fs, p, X, Y), NEW c \in Y,
           NEW q \in {0, f.blocks[c].parent}, NEW m, Fresh(f, m),
           NEW g, g = Link(Create(f, q), m, c), NEW Z, Joined(Z, X, m)
    PROVE  /\ Between(g, fs, p, Z, Y) /\ Len(g.blocks) = m /\ Created(Create(f, q)) = m /\ m \notin X /\ m # 0
           /\ Current(g) = Current(f)
<1>1. PICK N : N = Names(fs, p, Len(fs))
    OBVIOUS
<1>2. PICK D : Mid(f, fs, p, D, X, Y, N)
    BY <1>1 DEF Between
<1>3. /\ Mid(g, fs, p, D, Z, Y, N) /\ Len(g.blocks) = m /\ Created(Create(f, q)) = m
      /\ Current(g) = Current(f)
    BY ONLY <1>2, c \in Y, q \in {0, f.blocks[c].parent}, Fresh(f, m),
            g = Link(Create(f, q), m, c), Joined(Z, X, m), MidLinks
<1>4. m # 0 /\ m \notin X
    <2>1. Len(f.blocks) \in Nat /\ X \subseteq 1 .. Len(f.blocks)
        BY BetweenFacts
    <2> QED
        BY <2>1 DEF Fresh
<1> QED
    BY <1>1, <1>3, <1>4 DEF Between

LEMMA BetweenSettles ==
    ASSUME NEW f, NEW fs, NEW p, NEW X, NEW Y, Between(f, fs, p, X, Y), Current(f) \in X
    PROVE  Scoped(f, fs, p)
<1>1. PICK N : N = Names(fs, p, Len(fs))
    OBVIOUS
<1>2. PICK D : Mid(f, fs, p, D, X, Y, N)
    BY <1>1 DEF Between
<1> QED
    BY <1>1, <1>2, MidSettles

LEMMA BetweenPushes ==
    ASSUME NEW f, NEW fs, NEW p, NEW X, NEW Y, Between(f, fs, p, X, Y), NEW x, x.next = 1,
           Tips(x.after) \subseteq X,
           x.after.is = "arm" /\ x.after.snt.is = "match" => x.after.curr \in Y,
           Current(f) \in X, NEW gs, gs = Append(fs, x)
    PROVE  Scoped(f, gs, p)
<1>1. PICK N : N = Names(fs, p, Len(fs))
    OBVIOUS
<1>2. IsSeq(fs) /\ \E D : Mid(f, fs, p, D, X, Y, N)
    BY <1>1 DEF Between
<1>3. PICK D : Mid(f, fs, p, D, X, Y, N)
    BY <1>2
<1> QED
    BY <1>1, <1>2, <1>3, MidPushes

-----------------------------------------------------------------------------
(* What is left of a sentence.                                             *)
Settles(o, p) == Scoped(o.fn, o.frames, p)

LEMMA SettlesAlone ==
    ASSUME NEW f, NEW fs, IsSeq(fs), NEW p, Scoped(f, fs, p)
    PROVE  Settles(Outcome(f, fs, <<>>), p)
<1>1. PICK o : o = Outcome(f, fs, <<>>)
    OBVIOUS
<1>2. o = [fn |-> f, frames |-> fs]
    BY <1>1, OutcomeIs
<1>3. o.fn = f /\ o.frames = fs
    BY ONLY <1>2
<1> QED
    BY <1>1, <1>3 DEF Settles

LEMMA SettlesWith ==
    ASSUME NEW f, NEW fs, IsSeq(fs), NEW x, NEW p, Scoped(f, Append(fs, x), p)
    PROVE  Settles(Outcome(f, fs, <<x>>), p)
<1>1. PICK o : o = Outcome(f, fs, <<x>>)
    OBVIOUS
<1>2. o = [fn |-> f, frames |-> Append(fs, x)]
    BY <1>1, OutcomeIs
<1>3. o.fn = f /\ o.frames = Append(fs, x)
    BY ONLY <1>2
<1> QED
    BY <1>1, <1>3 DEF Settles

ArmWaits(x, snt, otherwise, rest, curr) ==
    /\ x.next = 1 /\ x.after.is = "arm" /\ x.after.snt = snt /\ x.after.curr = curr
    /\ Tips(x.after) = {rest} \cup ({otherwise} \ {0})

LEMMA ArmFrameWaits ==
    ASSUME NEW snt, NEW i, NEW block, NEW otherwise, NEW rest, NEW curr,
           NEW x, x = ArmFrame(snt, i, block, otherwise, rest, curr)
    PROVE  ArmWaits(x, snt, otherwise, rest, curr)
<1>1. PICK a : a = [is |-> "arm", snt |-> snt, i |-> i, block |-> block,
                    otherwise |-> otherwise, rest |-> rest, curr |-> curr]
    OBVIOUS
<1>2. a.is = "arm" /\ a.snt = snt /\ a.curr = curr /\ a.otherwise = otherwise /\ a.rest = rest
    BY <1>1
<1>3. x.next = 1 /\ x.after = a
    BY <1>1 DEF ArmFrame, Frame
<1>4. Tips(a) = {rest} \cup ({otherwise} \ {0})
    BY <1>2 DEF Tips
<1> QED
    BY <1>2, <1>3, <1>4 DEF ArmWaits

ElseWaits(x, rest) == x.next = 1 /\ x.after.is # "arm" /\ Tips(x.after) = {rest}

LEMMA ElseFrameWaits ==
    ASSUME NEW is \in {"else", "bare else"}, NEW snt, NEW block, NEW rest,
           NEW x, x = ElseFrame(is, snt, block, rest)
    PROVE  ElseWaits(x, rest)
<1>1. PICK a : a = [is |-> is, block |-> block, rest |-> rest]
    OBVIOUS
<1>2. a.is = is /\ a.rest = rest
    BY <1>1
<1>3. x.next = 1 /\ x.after = a
    BY <1>1 DEF ElseFrame, Frame
<1>4. Tips(a) = {rest} /\ a.is # "arm"
    BY <1>2 DEF Tips
<1> QED
    BY <1>3, <1>4 DEF ElseWaits

LEMMA FinishSettles ==
    ASSUME NEW f, NEW fs, NEW p, NEW X, NEW Y, Between(f, fs, p, X, Y), NEW rest \in X
    PROVE  Settles(Finish(f, fs, rest), p) /\ Settles(Finish(AddBranch(f, rest), fs, rest), p)
<1>1. ASSUME NEW h, Between(h, fs, p, X, Y)
      PROVE  Settles(Finish(h, fs, rest), p)
    <2>1. PICK g : g = SetActive(h, rest)
        OBVIOUS
    <2>2. Between(g, fs, p, X, Y) /\ Current(g) = rest
        BY <1>1, <2>1, BetweenActivates
    <2>3. Scoped(g, fs, p) /\ IsSeq(fs)
        BY <2>2, BetweenSettles, BetweenFacts
    <2>4. Finish(h, fs, rest) = Outcome(g, fs, <<>>)
        BY <2>1 DEF Finish
    <2> QED
        BY <2>3, <2>4, SettlesAlone
<1>2. Between(AddBranch(f, rest), fs, p, X, Y)
    BY BetweenBranches
<1> QED
    BY <1>1, <1>2

LEMMA NewIsCurrent ==
    ASSUME NEW f, NEW fs, NEW p, NEW X, NEW Y, Between(f, fs, p, X, Y), NEW c \in Y,
           NEW m, Fresh(f, m), NEW Z, Joined(Z, X, m),
           NEW h, h = Create(f, c), NEW g, g = SetActive(AddBranch(h, m), m)
    PROVE  Between(g, fs, p, Z, Y) /\ Current(g) = m /\ Created(h) = m
<1>1. Between(h, fs, p, Z, Y) /\ Created(h) = m
    BY BetweenCreates
<1>2. PICK k : k = AddBranch(h, m)
    OBVIOUS
<1>3. Between(k, fs, p, Z, Y)
    BY <1>1, <1>2, BetweenBranches
<1>4. m \in Z \cup Y /\ m \in Z /\ g = SetActive(k, m)
    BY <1>2 DEF Joined
<1>5. Between(g, fs, p, Z, Y) /\ Current(g) = m
    BY ONLY <1>3, <1>4, BetweenActivates
<1> QED
    BY <1>1, <1>4, <1>5

(* A frame of an else with a block of its own.                             *)
LEMMA ElseSettles ==
    ASSUME NEW f, NEW fs, NEW p, NEW X, NEW Y, Between(f, fs, p, X, Y), NEW c \in Y, NEW rest \in X, NEW snt,
           NEW h, h = Create(f, c),
           NEW g, g = SetActive(AddBranch(h, Created(h)), Created(h))
    PROVE  Settles(Outcome(g, fs, <<ElseFrame("else", snt, Created(h), rest)>>), p)
<1>1. PICK m, Z, x, is : /\ Fresh(f, m) /\ Joined(Z, X, m) /\ is = "else"
                         /\ x = ElseFrame(is, snt, m, rest)
    BY DEF Fresh, Joined
<1>8. Between(f, fs, p, X, Y) /\ c \in Y /\ Fresh(f, m) /\ Joined(Z, X, m) /\ h = Create(f, c)
    BY <1>1
<1>2. Between(h, fs, p, Z, Y) /\ Created(h) = m
    BY ONLY <1>8, BetweenCreates
<1>3. g = SetActive(AddBranch(h, m), m)
    BY <1>2
<1>4. Between(g, fs, p, Z, Y) /\ Current(g) = m /\ m \in Z
    <2>1. Between(g, fs, p, Z, Y) /\ Current(g) = m
        BY ONLY <1>3, <1>8, NewIsCurrent
    <2> QED
        BY <1>1, <2>1 DEF Joined
<1>5. x.next = 1 /\ x.after.is # "arm" /\ Tips(x.after) = {rest} /\ rest \in Z
    <2>1. is \in {"else", "bare else"} /\ x = ElseFrame(is, snt, m, rest)
        BY <1>1
    <2>2. ElseWaits(x, rest)
        BY ONLY <2>1, ElseFrameWaits
    <2> QED
        BY <1>1, <2>2 DEF ElseWaits, Joined
<1>6. Scoped(g, Append(fs, x), p)
    BY <1>4, <1>5, BetweenPushes
<1>7. Settles(Outcome(g, fs, <<x>>), p)
    BY <1>6, SettlesWith, BetweenFacts
<1> QED
    BY <1>1, <1>2, <1>7

(* The block that is current when the next arm is looked for: blocks are   *)
(* created within it, unless nothing but the end of the sentence follows.  *)
LEMMA IfEndSettles ==
    ASSUME NEW f, NEW fs, NEW p, NEW X, NEW Y, Between(f, fs, p, X, Y), NEW rest \in X, NEW snt,
           NEW c, c = Current(f),
           \/ snt.orElse = <<>> \/ TrueKnownBefore(snt, Len(snt.arms) + 1)
           \/ FalseTill(snt, Len(snt.arms) + 1) /\ c \in Y
           \/ ~FalseTill(snt, Len(snt.arms) + 1) /\ c \in X,
           FalseTill(snt, Len(snt.arms) + 1) => ~TrueKnownBefore(snt, Len(snt.arms) + 1)
    PROVE  Settles(IfEnd(f, fs, snt, rest), p)
<1>1. CASE snt.orElse = <<>>
    BY <1>1, FinishSettles DEF IfEnd
<1>2. CASE snt.orElse # <<>> /\ FalseTill(snt, Len(snt.arms) + 1)
    <2>1. c \in Y
        BY <1>2
    <2>2. PICK h, g : h = Create(f, c) /\ g = SetActive(AddBranch(h, Created(h)), Created(h))
        OBVIOUS
    <2>3. Settles(Outcome(g, fs, <<ElseFrame("else", snt, Created(h), rest)>>), p)
        BY <2>1, <2>2, ElseSettles
    <2>4. IfEnd(f, fs, snt, rest) = Outcome(g, fs, <<ElseFrame("else", snt, Created(h), rest)>>)
        BY <1>2, <2>2 DEF IfEnd
    <2> QED
        BY <2>3, <2>4
<1>3. CASE snt.orElse # <<>> /\ ~FalseTill(snt, Len(snt.arms) + 1) /\ TrueKnownBefore(snt, Len(snt.arms) + 1)
    BY <1>3, FinishSettles DEF IfEnd
<1>4. CASE snt.orElse # <<>> /\ ~FalseTill(snt, Len(snt.arms) + 1) /\ ~TrueKnownBefore(snt, Len(snt.arms) + 1)
    <2>1. PICK x, is, z : x = ElseFrame(is, snt, z, rest) /\ is = "bare else" /\ z = 0
        OBVIOUS
    <2>2. is \in {"else", "bare else"} /\ x = ElseFrame(is, snt, z, rest)
        BY <2>1
    <2>3. ElseWaits(x, rest)
        BY ONLY <2>2, ElseFrameWaits
    <2>4. x.next = 1 /\ x.after.is # "arm" /\ Tips(x.after) \subseteq X /\ Current(f) \in X
        BY <1>4, <2>3 DEF ElseWaits
    <2>5. Scoped(f, Append(fs, x), p)
        BY <2>4, BetweenPushes
    <2>6. Settles(Outcome(f, fs, <<x>>), p)
        BY <2>5, SettlesWith, BetweenFacts
    <2>7. IfEnd(f, fs, snt, rest) = Outcome(f, fs, <<x>>)
        BY <1>4, <2>1 DEF IfEnd
    <2> QED
        BY <2>6, <2>7
<1> QED
    BY <1>1, <1>2, <1>3, <1>4

(* A frame for an arm.                                                     *)
LEMMA ArmSettles ==
    ASSUME NEW f, NEW fs, NEW p, NEW X, NEW Y, Between(f, fs, p, X, Y), NEW rest \in X, NEW o, o = 0 \/ o \in X,
           NEW t \in X, NEW g, g = SetActive(f, t), NEW snt, NEW i, NEW curr, snt.is = "match" => curr \in Y
    PROVE  Settles(Outcome(g, fs, <<ArmFrame(snt, i, t, o, rest, curr)>>), p)
<1>1. PICK x : x = ArmFrame(snt, i, t, o, rest, curr)
    OBVIOUS
<1>2. ArmWaits(x, snt, o, rest, curr)
    BY ONLY <1>1, ArmFrameWaits
<1>3. x.next = 1 /\ Tips(x.after) \subseteq X /\ (x.after.is = "arm" /\ x.after.snt.is = "match" => x.after.curr \in Y)
    BY <1>2 DEF ArmWaits
<1>4. Between(g, fs, p, X, Y) /\ Current(g) \in X
    BY BetweenActivates
<1>5. Scoped(g, Append(fs, x), p)
    BY <1>3, <1>4, BetweenPushes
<1> QED
    BY <1>1, <1>5, SettlesWith, BetweenFacts

LEMMA BranchingSettles ==
    ASSUME NEW f, NEW fs, NEW p, NEW X, NEW Y, Between(f, fs, p, X, Y), NEW rest \in X, NEW snt, NEW i,
           NEW parent \in Y, NEW curr, snt.is = "match" => curr \in Y
    PROVE  Settles(Branching(f, fs, snt, i, rest, parent, curr), p)
<1>1. PICK t, m, Z : t = Create(f, parent) /\ Fresh(f, m) /\ Joined(Z, X, m)
    BY DEF Fresh, Joined
<1>2. Between(t, fs, p, Z, Y) /\ Len(t.blocks) = m /\ Created(t) = m
    BY ONLY Between(f, fs, p, X, Y), parent \in Y, <1>1, BetweenCreates
<1>3. m \in Z /\ rest \in Z
    BY <1>1 DEF Joined
<1>4. PICK known : known = snt.arms[i].cond
    OBVIOUS
<1>5. CASE i = Len(snt.arms) /\ snt.orElse = <<>>
    <2>1. PICK g, o : g = Emit(t, <<CondBr(m, rest, known)>>) /\ o = 0
        OBVIOUS
    <2>2. Between(g, fs, p, Z, Y)
        BY <1>2, <2>1, BetweenEmits
    <2>3. Settles(Outcome(SetActive(g, m), fs, <<ArmFrame(snt, i, m, o, rest, curr)>>), p)
        BY <1>3, <2>1, <2>2, ArmSettles
    <2>4. Branching(f, fs, snt, i, rest, parent, curr)
              = Outcome(SetActive(g, m), fs, <<ArmFrame(snt, i, m, o, rest, curr)>>)
        BY <1>1, <1>2, <1>4, <1>5, <2>1 DEF Branching
    <2> QED
        BY <2>3, <2>4
<1>6. CASE ~(i = Len(snt.arms) /\ snt.orElse = <<>>)
    <2>1. PICK d, o, V : d = Create(t, parent) /\ Fresh(t, o) /\ Joined(V, Z, o)
        BY DEF Fresh, Joined
    <2>2. Between(d, fs, p, V, Y) /\ Created(d) = o
        BY ONLY <1>2, parent \in Y, <2>1, BetweenCreates
    <2>3. m \in V /\ rest \in V /\ o \in V
        BY <1>3, <2>1 DEF Joined
    <2>4. PICK g : g = Emit(d, <<CondBr(m, o, known)>>)
        OBVIOUS
    <2>5. Between(g, fs, p, V, Y)
        BY <2>2, <2>4, BetweenEmits
    <2>6. Settles(Outcome(SetActive(g, m), fs, <<ArmFrame(snt, i, m, o, rest, curr)>>), p)
        BY <2>3, <2>5, ArmSettles
    <2>7. Branching(f, fs, snt, i, rest, parent, curr)
              = Outcome(SetActive(g, m), fs, <<ArmFrame(snt, i, m, o, rest, curr)>>)
        BY <1>1, <1>2, <1>4, <1>6, <2>1, <2>2, <2>4 DEF Branching
    <2> QED
        BY <2>6, <2>7
<1> QED
    BY <1>5, <1>6

(* No condition before i is known to be true when all are known false.     *)
LEMMA FalseIsNotTrue ==
    ASSUME NEW snt, NEW i, FalseTill(snt, i)
    PROVE  ~TrueKnownBefore(snt, i)
<1>1. \A j \in 1 .. i - 1 : snt.arms[j].cond = "false"
    BY DEF FalseTill
<1>2. "false" # "true"
    OBVIOUS
<1> QED
    BY <1>1, <1>2 DEF TrueKnownBefore

LEMMA IfArmSettles ==
    ASSUME NEW f, NEW fs, NEW p, NEW X, NEW Y, Between(f, fs, p, X, Y), NEW rest \in X,
           NEW snt \in Sentences, snt.is = "if", NEW i \in 1 .. Len(snt.arms) + 1, NEW c, c = Current(f),
           \/ TrueKnownBefore(snt, i) \/ (i = Len(snt.arms) + 1 /\ snt.orElse = <<>>)
           \/ FalseTill(snt, i) /\ c \in Y
           \/ ~FalseTill(snt, i) /\ c \in X /\ c # rest
    PROVE  Settles(IfArm(f, fs, snt, i, rest), p)
<1>1. Len(snt.arms) \in Nat
    BY ArmsFacts
<1>2. CASE i > Len(snt.arms) \/ TrueKnownBefore(snt, i)
    <2>1. TrueKnownBefore(snt, i) => TrueKnownBefore(snt, Len(snt.arms) + 1)
        BY <1>1 DEF TrueKnownBefore
    <2>2. i > Len(snt.arms) => i = Len(snt.arms) + 1
        BY <1>1
    <2>3. FalseTill(snt, Len(snt.arms) + 1) => ~TrueKnownBefore(snt, Len(snt.arms) + 1)
        BY FalseIsNotTrue
    <2>4. Settles(IfEnd(f, fs, snt, rest), p)
        BY <1>2, <2>1, <2>2, <2>3, IfEndSettles
    <2> QED
        BY <1>2, <2>4 DEF IfArm
<1>3. CASE ~(i > Len(snt.arms) \/ TrueKnownBefore(snt, i))
    <2>1. i \in 1 .. Len(snt.arms) /\ i # Len(snt.arms) + 1
        BY <1>1, <1>3
    <2>2. CASE Known(snt, i) /\ FalseTill(snt, i)
        <3>1. c \in Y
            BY <1>3, <2>1, <2>2
        <3>2. PICK h, m, Z : h = Create(f, c) /\ Fresh(f, m) /\ Joined(Z, X, m)
            BY DEF Fresh, Joined
        <3>3. Between(h, fs, p, Z, Y) /\ Created(h) = m
            BY ONLY Between(f, fs, p, X, Y), <3>1, <3>2, BetweenCreates
        <3>4. PICK k, z : k = AddBranch(h, m) /\ z = 0
            OBVIOUS
        <3>5. Between(k, fs, p, Z, Y)
            BY <3>3, <3>4, BetweenBranches
        <3>6. m \in Z /\ rest \in Z /\ (z = 0 \/ z \in Z) /\ snt.is # "match"
            BY <3>2, <3>4 DEF Joined
        <3>7. Settles(Outcome(SetActive(k, m), fs, <<ArmFrame(snt, i, m, z, rest, z)>>), p)
            BY <3>5, <3>6, ArmSettles
        <3>8. IfArm(f, fs, snt, i, rest) = Outcome(SetActive(k, m), fs, <<ArmFrame(snt, i, m, z, rest, z)>>)
            BY <1>3, <2>2, <3>2, <3>3, <3>4 DEF IfArm
        <3> QED
            BY <3>7, <3>8
    <2>3. CASE ~(Known(snt, i) /\ FalseTill(snt, i))
        <3>1. PICK z : z = 0
            OBVIOUS
        <3>2. snt.is # "match"
            OBVIOUS
        <3>3. Settles(Branching(f, fs, snt, i, rest, c, z), p)
            <4>1. CASE c \in Y
                BY <3>2, <4>1, BranchingSettles
            <4>2. CASE c \in X /\ c # rest
                <5>1. PICK V, W : V = X \ {c} /\ W = Y \cup {c}
                    OBVIOUS
                <5>2. Between(f, fs, p, V, W)
                    BY <4>2, <5>1, BetweenRetires
                <5>3. c \in W /\ rest \in V
                    BY <4>2, <5>1
                <5> QED
                    BY <3>2, <5>2, <5>3, BranchingSettles
            <4> QED
                BY <1>3, <2>1, <4>1, <4>2
        <3>4. IfArm(f, fs, snt, i, rest) = Branching(f, fs, snt, i, rest, c, z)
            BY <1>3, <2>3, <3>1 DEF IfArm
        <3> QED
            BY <3>3, <3>4
    <2> QED
        BY <2>2, <2>3
<1> QED
    BY <1>2, <1>3

LEMMA MatchEndSettles ==
    ASSUME NEW f, NEW fs, NEW p, NEW X, NEW Y, Between(f, fs, p, X, Y), NEW rest \in X, NEW snt, NEW curr \in Y
    PROVE  Settles(MatchEnd(f, fs, snt, rest, curr), p)
<1>1. CASE snt.exhaustive \/ snt.orElse = <<>>
    BY <1>1, FinishSettles DEF MatchEnd
<1>2. CASE ~(snt.exhaustive \/ snt.orElse = <<>>)
    <2>1. PICK h, g : h = Create(f, curr) /\ g = SetActive(AddBranch(h, Created(h)), Created(h))
        OBVIOUS
    <2>2. Settles(Outcome(g, fs, <<ElseFrame("else", snt, Created(h), rest)>>), p)
        BY <2>1, ElseSettles
    <2>3. MatchEnd(f, fs, snt, rest, curr) = Outcome(g, fs, <<ElseFrame("else", snt, Created(h), rest)>>)
        BY <1>2, <2>1 DEF MatchEnd, MatchElse
    <2> QED
        BY <2>2, <2>3
<1> QED
    BY <1>1, <1>2

LEMMA MatchArmSettles ==
    ASSUME NEW f, NEW fs, NEW p, NEW X, NEW Y, Between(f, fs, p, X, Y), NEW rest \in X, NEW snt, NEW curr \in Y,
           snt.is = "match", NEW i
    PROVE  Settles(NextArm(f, fs, snt, i, rest, curr), p)
<1>1. Settles(MatchEnd(f, fs, snt, rest, curr), p)
    BY MatchEndSettles
<1>2. Settles(Branching(f, fs, snt, i, rest, curr, curr), p)
    BY BranchingSettles
<1> QED
    BY <1>1, <1>2 DEF NextArm

Settled == phase' # "emit" \/ (program' = program /\ Scoped(fn', frames', program))

LEMMA FailureSettles ==
    ASSUME NEW how \in {"error", "crash"}, Fail(how)
    PROVE  Settled
    BY DEF Fail, Settled

LEMMA GoSettles ==
    ASSUME NEW f, NEW fs, Go(f, fs), Scoped(f, fs, program)
    PROVE  Settled
    BY DEF Go, Still, Settled

(* What is known when a sentence begins.                                   *)
LEMMA AtSentence ==
    ASSUME EmitInv, InBody
    PROVE  /\ FramesOK(frames, program) /\ Here \notin AllReserved(frames) /\ Here \in 1 .. Len(fn.blocks)
           /\ Snt \in Sentences /\ Snt = Last(frames).body[Last(frames).next]
           /\ GoneOn(frames, Advanced) /\ GoneOn(frames, Ended)
<1>1. PICK n, c, T : /\ Rests(fn, frames, n, c, T, program, Due, Len(breakables))
                     /\ c \in 1 .. n /\ Here = c /\ Len(fn.blocks) = n
    BY NextSentence
<1>2. /\ FramesOK(frames, program) /\ AllReserved(frames) \subseteq (1 .. n) \ (T \cup {c})
    BY <1>1 DEF Rests, Sound
<1>3. Snt \in Sentences
    BY NextSentence
<1>4. Snt = Last(frames).body[Last(frames).next]
    BY DEF Snt, Top
<1>5. GoneOn(frames, Advanced) /\ GoneOn(frames, Ended)
    BY <1>2, FramesGoOn DEF Advanced, Ended
<1> QED
    BY <1>1, <1>2, <1>3, <1>4, <1>5

LEMMA SentenceStarts ==
    ASSUME EmitInv, InBody, Scoped(fn, frames, program), NEW gs, GoneOn(frames, gs),
           NEW N, N = Names(frames, program, Len(frames)), NEW X, X = {Here}, NEW Y, Y = {}
    PROVE  /\ \E D : Mid(fn, gs, program, D, X, Y, N)
           /\ Names(gs, program, Len(gs)) = N \cup Declares(Snt) /\ IsSeq(gs)
           /\ \A name : Has(name) <=> name \in N
<1>1. PICK D : ScopedBy(fn, frames, program, D)
    BY DEF Scoped
<1>2. /\ FramesOK(frames, program) /\ Here \notin AllReserved(frames)
      /\ Snt = Last(frames).body[Last(frames).next]
    BY AtSentence
<1>3. PICK c, x : c = Here /\ x = Last(frames) /\ c = Current(fn) /\ c \notin AllReserved(frames) /\ X = {c}
                  /\ Snt = x.body[x.next]
    BY <1>2 DEF Here
<1>4. Mid(fn, gs, program, D, X, Y, N) /\ Names(gs, program, Len(gs)) = N \cup Declares(x.body[x.next])
    <2>1. /\ ScopedBy(fn, frames, program, D) /\ FramesOK(frames, program) /\ c = Current(fn)
          /\ c \notin AllReserved(frames) /\ GoneOn(frames, gs) /\ N = Names(frames, program, Len(frames))
          /\ x = Last(frames) /\ X = {c} /\ Y = {}
        BY <1>1, <1>2, <1>3
    <2>2. Mid(fn, gs, program, D, X, Y, N)
        BY ONLY <2>1, MidBegins
    <2>3. NamesAfter(gs, program, N, x)
        BY ONLY <2>1, MidBegins
    <2> QED
        BY <2>2, <2>3 DEF NamesAfter
<1>5. Shows(fn, c, N)
    BY <1>1, <1>3 DEF ScopedBy, Tip
<1>6. \A name : Has(name) <=> name \in N
    BY <1>3, <1>5 DEF Has, HasValue, Shows
<1> QED
    BY <1>3, <1>4, <1>6 DEF GoneOn

LEMMA QuietStarts ==
    ASSUME EmitInv, InBody, Scoped(fn, frames, program), NEW gs, GoneOn(frames, gs), Declares(Snt) = {},
           NEW X, X = {Here}, NEW Y, Y = {}
    PROVE  Between(fn, gs, program, X, Y)
<1>1. PICK N : N = Names(frames, program, Len(frames))
    OBVIOUS
<1>2. /\ \E D : Mid(fn, gs, program, D, X, Y, N)
      /\ Names(gs, program, Len(gs)) = N \cup Declares(Snt) /\ IsSeq(gs)
    BY <1>1, SentenceStarts
<1>3. Names(gs, program, Len(gs)) = N
    BY <1>2
<1> QED
    BY <1>2, <1>3 DEF Between

(* A sentence that declares nothing, and leaves the block current.         *)
LEMMA QuietSettles ==
    ASSUME EmitInv, InBody, Scoped(fn, frames, program), NEW gs, GoneOn(frames, gs), Declares(Snt) = {},
           NEW g, Sees(fn, g), Current(g) = Current(fn), Go(g, gs)
    PROVE  Settled
<1>1. PICK X, Y : X = {Here} /\ Y = {}
    OBVIOUS
<1>2. Between(fn, gs, program, X, Y)
    BY <1>1, QuietStarts
<1>3. Between(g, gs, program, X, Y)
    BY <1>2, BetweenSees
<1>4. Current(g) \in X
    BY <1>1 DEF Here
<1>5. Scoped(g, gs, program)
    BY <1>3, <1>4, BetweenSettles
<1> QED
    BY <1>5, GoSettles

LEMMA IsBuilt ==
    ASSUME EmitInv, InBody
    PROVE  Built(fn)
<1>1. PICK n, c, T : Rests(fn, frames, n, c, T, program, Due, Len(breakables))
    BY NextSentence
<1> QED
    BY <1>1 DEF Rests, Sound, Sum

LEMMA LetSettles ==
    ASSUME EmitInv, Scoped(fn, frames, program), LocalDeclaration
    PROVE  Settled
<1>1. InBody /\ Snt.is = "let"
    BY DEF LocalDeclaration, At
<1>2. CASE Fail("error")
    BY <1>2, FailureSettles
<1>3. CASE ~Fail("error")
    <2>1. PICK N, X, Y, c : N = Names(frames, program, Len(frames)) /\ X = {Here} /\ Y = {} /\ c = Here
        OBVIOUS
    <2>2. GoneOn(frames, Advanced) /\ Built(fn)
        BY <1>1, AtSentence, IsBuilt
    <2>3. /\ \E D : Mid(fn, Advanced, program, D, X, Y, N)
          /\ Names(Advanced, program, Len(Advanced)) = N \cup Declares(Snt) /\ IsSeq(Advanced)
          /\ \A name : Has(name) <=> name \in N
        BY <1>1, <2>1, <2>2, SentenceStarts
    <2>4. PICK D : Mid(fn, Advanced, program, D, X, Y, N)
        BY <2>3
    <2>5. PICK f, local, new : /\ f = Moved(fn, Snt.from) /\ local = Local(Snt.name, "local", Site)
                               /\ new = NewLocal(f, Here, local)
        OBVIOUS
    <2>6. PICK g : g = Emit(new, <<OnLocal("init", Len(new.locals), "")>>)
        OBVIOUS
    <2>7. Go(g, Advanced) /\ ~Has(Snt.name)
        BY <1>3, <2>5, <2>6 DEF LocalDeclaration
    <2>8. Sees(fn, f) /\ Current(f) = c
        BY <2>1, <2>2, <2>5, MovedSees DEF Here
    <2>9. Mid(f, Advanced, program, D, X, Y, N)
        BY <2>4, <2>8, MidSees
    <2>10. local.name = Snt.name /\ local.name \notin N
        BY <2>3, <2>5, <2>7 DEF Local
    <2>11. PICK M : M = N \cup {local.name}
        OBVIOUS
    <2>12. Mid(new, Advanced, program, D, X, Y, M) /\ Current(new) = c
        <3>1. c \in X /\ new = NewLocal(f, c, local) /\ X = {c}
            BY <2>1, <2>5
        <3>2. Mid(new, Advanced, program, D, X, Y, M)
            BY ONLY <2>1, <2>8, <2>9, <2>10, <2>11, <3>1, MidGains
        <3>3. Current(new) = Current(f)
            <4>1. Built(f) /\ c \in 1 .. Len(f.blocks) /\ new = NewLocal(f, c, local)
                BY <2>9, <3>1, MidFacts
            <4>2. Gains(f, new, c, local)
                BY ONLY <4>1, NewLocalSees
            <4> QED
                BY <4>2 DEF Gains
        <3> QED
            BY <2>8, <3>2, <3>3
    <2>13. Sees(new, g) /\ Current(g) = c
        <3>1. Built(new)
            BY <2>12 DEF Mid
        <3> QED
            BY <2>6, <2>12, <3>1, EmitOneSees
    <2>14. Mid(g, Advanced, program, D, X, Y, M)
        BY <2>12, <2>13, MidSees
    <2>15. M = Names(Advanced, program, Len(Advanced)) /\ Current(g) \in X
        BY <1>1, <2>1, <2>3, <2>10, <2>11, <2>13 DEF Declares
    <2>16. Scoped(g, Advanced, program)
        BY <2>14, <2>15, MidSettles
    <2> QED
        BY <2>7, <2>16, GoSettles
<1> QED
    BY <1>2, <1>3

LEMMA UseSettles ==
    ASSUME EmitInv, Scoped(fn, frames, program), UseEntity \/ MoveEntity \/ Assignment
    PROVE  Settled
<1>1. InBody /\ Snt.is \in {"use", "move", "assign"}
    BY DEF UseEntity, MoveEntity, Assignment, At
<1>2. Declares(Snt) = {} /\ GoneOn(frames, Advanced) /\ Built(fn)
    BY <1>1, AtSentence, IsBuilt DEF Declares
<1>3. CASE Fail("error")
    BY <1>3, FailureSettles
<1>4. CASE ~Fail("error") /\ UseEntity
    <2>1. PICK g : g = Emit(fn, <<OnLocal("use", LocalOf(Snt.name), "")>>)
        OBVIOUS
    <2>2. Go(g, Advanced)
        BY <1>4, <2>1 DEF UseEntity
    <2>3. Sees(fn, g) /\ Current(g) = Current(fn)
        BY <1>2, <2>1, EmitOneSees
    <2> QED
        BY <1>1, <1>2, <2>2, <2>3, QuietSettles
<1>5. CASE ~Fail("error") /\ MoveEntity
    <2>1. PICK g : g = Moved(fn, Snt.name)
        OBVIOUS
    <2>2. Go(g, Advanced)
        BY <1>5, <2>1 DEF MoveEntity
    <2>3. Sees(fn, g) /\ Current(g) = Current(fn)
        BY <1>2, <2>1, MovedSees
    <2> QED
        BY <1>1, <1>2, <2>2, <2>3, QuietSettles
<1>6. CASE ~Fail("error") /\ Assignment
    <2>1. PICK f, g : f = Emit(fn, <<OnLocal("init", LocalOf(Snt.name), "assign")>>) /\ g = Moved(f, Snt.from)
        OBVIOUS
    <2>2. Go(g, Advanced)
        BY <1>6, <2>1 DEF Assignment
    <2>3. Sees(fn, f) /\ Current(f) = Current(fn)
        BY <1>2, <2>1, EmitOneSees
    <2>4. Sees(f, g) /\ Current(g) = Current(f)
        BY <2>1, <2>3, MovedSees DEF Sees
    <2>5. Sees(fn, g) /\ Current(g) = Current(fn)
        BY <2>3, <2>4, SeesAgain
    <2> QED
        BY <1>1, <1>2, <2>2, <2>5, QuietSettles
<1> QED
    BY <1>3, <1>4, <1>5, <1>6

LEMMA GiveSettles ==
    ASSUME EmitInv, Scoped(fn, frames, program), GiveSentence
    PROVE  Settled
<1>1. InBody /\ Snt.is = "give"
    BY DEF GiveSentence, At
<1>2. Declares(Snt) = {} /\ GoneOn(frames, Ended) /\ Built(fn)
    BY <1>1, AtSentence, IsBuilt DEF Declares
<1>3. ASSUME NEW f, Sees(fn, f), Current(f) = Current(fn), NEW why, Go(Emit(f, <<Ret(why)>>), Ended)
      PROVE  Settled
    <2>1. PICK g : g = Emit(f, <<Ret(why)>>)
        OBVIOUS
    <2>2. Sees(f, g) /\ Current(g) = Current(f)
        BY <1>3, <2>1, EmitOneSees DEF Sees
    <2>3. Sees(fn, g) /\ Current(g) = Current(fn) /\ Go(g, Ended)
        BY <1>3, <2>1, <2>2, SeesAgain
    <2> QED
        BY <1>1, <1>2, <2>3, QuietSettles
<1>4. CASE Fail("error")
    BY <1>4, FailureSettles
<1>5. CASE ~Fail("error") /\ Snt.value = "self"
    <2>1. Go(Emit(fn, <<Ret("self")>>), Ended)
        BY <1>5 DEF GiveSentence
    <2>2. Sees(fn, fn)
        BY <1>2, SeesItself
    <2> QED
        BY <1>3, <2>1, <2>2
<1>6. CASE ~Fail("error") /\ Snt.value # "self"
    <2>1. PICK f, g : f = (IF Snt.value = "nothing" THEN fn ELSE Moved(fn, Snt.value)) /\ g = DestructorCaller(f)
        OBVIOUS
    <2>2. Sees(fn, f) /\ Current(f) = Current(fn)
        BY <1>2, <2>1, SeesItself, MovedSees
    <2>3. Sees(f, g) /\ Current(g) = Current(f)
        <3>1. Built(f) /\ Current(f) \in 1 .. Len(f.blocks)
            BY <2>2, CurrentLeads DEF Sees
        <3> QED
            BY <2>1, <3>1, DestroyLocalsSees
    <2>4. Sees(fn, g) /\ Current(g) = Current(fn)
        BY <2>2, <2>3, SeesAgain
    <2>5. Go(Emit(g, <<Ret(program.gives)>>), Ended)
        BY <1>6, <2>1 DEF GiveSentence
    <2> QED
        BY <1>3, <2>4, <2>5
<1> QED
    BY <1>4, <1>5, <1>6

LEMMA JumpSettles ==
    ASSUME EmitInv, Scoped(fn, frames, program), InBody, Snt.is \in {"break", "continue"},
           NEW from \in Due, NEW to, NEW why, JumpTo(from, to, why)
    PROVE  Settled
<1>1. Declares(Snt) = {} /\ GoneOn(frames, Ended) /\ Built(fn)
    BY AtSentence, IsBuilt DEF Declares
<1>2. from \in 1 .. Len(fn.blocks)
    <2>1. PICK n, c, T : /\ Rests(fn, frames, n, c, T, program, Due, Len(breakables)) /\ ~Last(frames).ended
                         /\ Len(fn.blocks) = n
        BY NextSentence
    <2>2. PICK H, k : H = Due /\ k = Len(breakables)
        OBVIOUS
    <2>3. Rests(fn, frames, n, c, T, program, H, k) /\ ~Last(frames).ended
        BY <2>1, <2>2
    <2>4. H \subseteq 1 .. n
        BY ONLY <2>3, BeforeCut
    <2> QED
        BY <2>1, <2>2, <2>4
<1>3. PICK f, g : f = DestroyLocalsFrom(fn, from) /\ g = AddBranchFor(f, to, why)
    OBVIOUS
<1>4. Sees(fn, f) /\ Current(f) = Current(fn)
    BY <1>1, <1>2, <1>3, DestroyLocalsSees
<1>5. Sees(f, g) /\ Current(g) = Current(f)
    BY <1>3, <1>4, AddBranchSees DEF Sees
<1>6. Sees(fn, g) /\ Current(g) = Current(fn)
    BY <1>4, <1>5, SeesAgain
<1>7. Go(g, Ended)
    BY <1>3 DEF JumpTo
<1> QED
    BY <1>1, <1>6, <1>7, QuietSettles

LEMMA BreakSettles ==
    ASSUME EmitInv, Scoped(fn, frames, program), Break
    PROVE  Settled
<1>1. InBody /\ IsSeq(breakables) /\ Snt.is \in {"break", "continue"}
    BY DEF Break, At, EmitInv, Going
<1>2. CASE Fail("error")
    BY <1>2, FailureSettles
<1>3. CASE ~Fail("error")
    <2>1. PICK i : i \in Chosen(breakables, Snt.tag)
                   /\ i = CHOOSE j \in Chosen(breakables, Snt.tag) : TRUE
        BY <1>3 DEF Break
    <2>2. i \in DOMAIN breakables
        BY <1>1, <2>1, SeqFacts DEF Chosen
    <2>3. JumpTo(breakables[i].true, breakables[i].rest, "")
        BY <1>3, <2>1 DEF Break
    <2>4. breakables[i].true \in Due
        BY <2>2, JumpedToFacts DEF Due
    <2> QED
        BY <1>1, <2>3, <2>4, JumpSettles
<1> QED
    BY <1>2, <1>3

LEMMA ContinueSettles ==
    ASSUME EmitInv, Scoped(fn, frames, program), Continue
    PROVE  Settled
<1>1. InBody /\ IsSeq(loopsInfo) /\ Snt.is \in {"break", "continue"}
    BY DEF Continue, At, EmitInv, Going
<1>2. CASE Chosen(loopsInfo, Snt.tag) = {}
    <2>1. PICK how \in {"error", "crash"} : Fail(how)
        BY <1>2 DEF Continue
    <2> QED
        BY <2>1, FailureSettles
<1>3. CASE Chosen(loopsInfo, Snt.tag) # {}
    <2>1. PICK i : i \in Chosen(loopsInfo, Snt.tag)
                   /\ i = CHOOSE j \in Chosen(loopsInfo, Snt.tag) : TRUE
        BY <1>3
    <2>2. i \in DOMAIN loopsInfo
        BY <1>1, <2>1, SeqFacts DEF Chosen
    <2>3. PICK from, to : /\ from = loopsInfo[i].main
                          /\ to = IF loopsInfo[i].kind = "loop" THEN loopsInfo[i].main ELSE loopsInfo[i].cond
        OBVIOUS
    <2>4. PICK why : JumpTo(from, to, why)
        BY <1>3, <2>1, <2>3 DEF Continue
    <2>5. from \in Due
        BY <2>2, <2>3, JumpedToFacts DEF Due
    <2> QED
        BY <1>1, <2>4, <2>5, JumpSettles
<1> QED
    BY <1>2, <1>3

LEMMA TakeSettles ==
    ASSUME NEW o, Take(o), Settles(o, program)
    PROVE  Settled
<1>1. Go(o.fn, o.frames) /\ Scoped(o.fn, o.frames, program)
    BY DEF Take, Settles
<1> QED
    BY <1>1, GoSettles

(* The block for what comes after an if or a match is made.                *)
LEMMA RestSettles ==
    ASSUME EmitInv, InBody, Scoped(fn, frames, program), Declares(Snt) = {},
           NEW c, c = Here, NEW q \in {0, fn.blocks[c].parent}, NEW m, Fresh(fn, m),
           NEW g, g = Link(Create(fn, q), m, c)
    PROVE  /\ \E Z, W : Between(g, Advanced, program, Z, W) /\ m \in Z /\ c \in W
           /\ Created(Create(fn, q)) = m /\ Current(g) = c
<1>1. PICK X, Y, V, W, Z : X = {c} /\ Y = {} /\ V = X \ {c} /\ W = Y \cup {c} /\ Joined(Z, V, m)
    BY DEF Joined
<1>2. GoneOn(frames, Advanced)
    BY AtSentence
<1>3. X = {Here}
    BY <1>1
<1>4. Between(fn, Advanced, program, X, Y)
    BY <1>1, <1>2, <1>3, QuietStarts
<1>5. c \in X
    BY <1>1
<1>6. Between(fn, Advanced, program, V, W)
    BY <1>1, <1>4, <1>5, BetweenRetires
<1>7. c \in W /\ m \in Z
    BY <1>1 DEF Joined
<1>8. /\ Between(g, Advanced, program, Z, W) /\ Created(Create(fn, q)) = m
      /\ Current(g) = Current(fn)
    <2>1. /\ Between(fn, Advanced, program, V, W) /\ c \in W /\ q \in {0, fn.blocks[c].parent} /\ Fresh(fn, m)
          /\ g = Link(Create(fn, q), m, c) /\ Joined(Z, V, m)
        BY <1>1, <1>6, <1>7
    <2> QED
        BY ONLY <2>1, BetweenLinks
<1> QED
    BY <1>7, <1>8 DEF Here

LEMMA IfSettles ==
    ASSUME EmitInv, Scoped(fn, frames, program), IfElse
    PROVE  Settled
<1>1. InBody /\ Snt.is = "if"
    BY DEF IfElse, At
<1>2. PICK snt \in Sentences : snt = Snt
    BY <1>1, AtSentence
<1>3. PICK c, q, m, g, i : /\ c = Here /\ q = 0 /\ Fresh(fn, m) /\ g = Link(Create(fn, q), m, c)
                           /\ i = FirstArm(snt)
    BY DEF Fresh
<1>4. Declares(Snt) = {}
    BY <1>1 DEF Declares
<1>5. /\ \E Z, W : Between(g, Advanced, program, Z, W) /\ m \in Z /\ c \in W
      /\ Created(Create(fn, q)) = m /\ Current(g) = c
    BY <1>1, <1>3, <1>4, RestSettles
<1>6. PICK Z, W : Between(g, Advanced, program, Z, W) /\ m \in Z /\ c \in W
    BY <1>5
<1>7. i \in 1 .. Len(snt.arms) + 1 /\ FalseTill(snt, i)
    BY <1>1, <1>2, <1>3, FirstArmFacts
<1>8. Settles(IfArm(g, Advanced, snt, i, m), program)
    <2>1. snt.is = "if" /\ snt \in Sentences /\ c = Current(g)
        BY <1>1, <1>2, <1>5
    <2> QED
        BY ONLY <1>6, <1>7, <2>1, IfArmSettles
<1>9. Take(IfArm(g, Advanced, snt, i, m))
    BY <1>2, <1>3, <1>5 DEF IfElse
<1> QED
    BY <1>8, <1>9, TakeSettles

LEMMA MatchSettles ==
    ASSUME EmitInv, Scoped(fn, frames, program), MatchSentence
    PROVE  Settled
<1>1. InBody /\ Snt.is = "match"
    BY DEF MatchSentence, At
<1>2. PICK snt \in Sentences : snt = Snt
    BY <1>1, AtSentence
<1>3. PICK c, q, m, g, i : /\ c = Here /\ q = fn.blocks[c].parent /\ Fresh(fn, m)
                           /\ g = Link(Create(fn, q), m, c) /\ i = 1
    BY DEF Fresh
<1>4. Declares(Snt) = {} /\ q \in {0, fn.blocks[c].parent}
    BY <1>1, <1>3 DEF Declares
<1>5. /\ \E Z, W : Between(g, Advanced, program, Z, W) /\ m \in Z /\ c \in W
      /\ Created(Create(fn, q)) = m
    BY <1>1, <1>3, <1>4, RestSettles
<1>6. PICK Z, W : Between(g, Advanced, program, Z, W) /\ m \in Z /\ c \in W
    BY <1>5
<1>7. CASE Fail("error")
    BY <1>7, FailureSettles
<1>8. CASE ~Fail("error")
    <2>1. Settles(NextArm(g, Advanced, snt, i, m, c), program)
        BY <1>1, <1>2, <1>6, MatchArmSettles
    <2>2. Take(NextArm(g, Advanced, snt, i, m, c))
        BY <1>2, <1>3, <1>5, <1>8 DEF MatchSentence
    <2> QED
        BY <2>1, <2>2, TakeSettles
<1> QED
    BY <1>7, <1>8

(* The sentences of a body are over.                                       *)
LEMMA BodyLeaves ==
    ASSUME EmitInv, Scoped(fn, frames, program), NEW a, a = Top.after, a.is # "function",
           NEW gs, gs = Front(frames), NEW X, X = Tips(a),
           NEW Y, Y = IF a.is = "arm" /\ a.snt.is = "match" THEN {a.curr} ELSE {}
    PROVE  Between(fn, gs, program, X, Y) /\ AfterOK(a) /\ Mentions(a) \subseteq 1 .. Len(fn.blocks)
           /\ Reserved(a) \subseteq 1 .. Len(fn.blocks) /\ Here \in 1 .. Len(fn.blocks)
<1>1. PICK n, c, T, H, j :
              /\ Amid(fn, Front(frames), n, c, T, {c} \cup Promised(a), Reserved(a), program, H, j)
              /\ Mentions(a) \subseteq 1 .. n /\ AfterOK(a) /\ Here = c /\ c \in 1 .. n
    BY BodyIsOver
<1>2. PICK W, R : W = {c} \cup Promised(a) /\ R = Reserved(a)
    OBVIOUS
<1>3. Amid(fn, gs, n, c, T, W, R, program, H, j)
    BY <1>1, <1>2
<1>4. Len(fn.blocks) = n /\ R \subseteq 1 .. n
    BY ONLY <1>3, AmidFacts
<1>5. PICK m, d, S : Rests(fn, frames, m, d, S, program, Due, Len(breakables))
    BY DEF EmitInv, Going, Due
<1>6. FramesOK(frames, program)
    BY <1>5 DEF Rests, Sound
<1>7. PICK D : ScopedBy(fn, frames, program, D)
    BY DEF Scoped
<1>8. PICK N : N = Names(gs, program, Len(gs))
    OBVIOUS
<1>9. Mid(fn, gs, program, D, X, Y, N)
    <2>1. a = Last(frames).after
        BY DEF Top
    <2> QED
        BY <1>6, <1>7, <1>8, <2>1, MidBodyOver
<1>10. IsSeq(gs)
    <2>1. IsSeq(frames) /\ Len(frames) \in Nat \ {0}
        BY <1>6, FramesFacts
    <2> QED
        BY <2>1, FrontAny
<1>11. Between(fn, gs, program, X, Y)
    BY <1>8, <1>9, <1>10 DEF Between
<1> QED
    BY <1>1, <1>2, <1>4, <1>11

LEMMA EndArmSettles ==
    ASSUME EmitInv, Scoped(fn, frames, program), EndArm
    PROVE  Settled
<1>1. PICK a, gs, X, Y : /\ a = Top.after /\ gs = Front(frames) /\ X = Tips(a)
                         /\ Y = IF a.is = "arm" /\ a.snt.is = "match" THEN {a.curr} ELSE {}
    OBVIOUS
<1>2. a.is = "arm"
    BY <1>1 DEF EndArm, After
<1>3. /\ Between(fn, gs, program, X, Y) /\ AfterOK(a) /\ Mentions(a) \subseteq 1 .. Len(fn.blocks)
    BY <1>1, <1>2, BodyLeaves
<1>4. ArmOK(a) /\ a.block \in 1 .. Len(fn.blocks) /\ X = {a.rest} \cup ({a.otherwise} \ {0})
    BY <1>1, <1>2, <1>3 DEF AfterOK, Mentions, Tips
<1>5. CASE Fail("error")
    BY <1>5, FailureSettles
<1>6. CASE ~Fail("error")
    <2>1. PICK f, g : f = DestroyLocals(fn, a.block) /\ g = AddBranch(f, a.rest)
        OBVIOUS
    <2>2. Between(f, gs, program, X, Y)
        BY <1>3, <1>4, <2>1, BetweenDestroys
    <2>3. Between(g, gs, program, X, Y)
        BY <2>1, <2>2, BetweenBranches
    <2>4. PICK snt \in Sentences : snt = a.snt
        BY <1>4 DEF ArmOK
    <2>5. PICK open, i, o, rest, curr :
              /\ open = (IF a.otherwise = 0 THEN g ELSE SetActive(g, a.otherwise)) /\ i = a.i + 1
              /\ o = a.otherwise /\ rest = a.rest /\ curr = a.curr
        OBVIOUS
    <2>6. Between(open, gs, program, X, Y) /\ (o # 0 => Current(open) \in X /\ Current(open) # rest)
        <3>1. CASE a.otherwise = 0
            BY <2>3, <2>5, <3>1
        <3>2. CASE a.otherwise # 0
            <4>1. o \in X \cup Y /\ o \in X /\ o # rest
                BY <1>4, <2>5, <3>2 DEF ArmOK
            <4>2. Between(open, gs, program, X, Y) /\ Current(open) = o
                <5>1. open = SetActive(g, o)
                    BY <2>5, <3>2
                <5> QED
                    BY <2>3, <4>1, <5>1, BetweenActivates
            <4> QED
                BY <4>1, <4>2
        <3> QED
            BY <3>1, <3>2
    <2>7. Take(NextArm(open, gs, snt, i, rest, curr))
        BY <1>1, <1>6, <2>1, <2>4, <2>5 DEF EndArm
    <2>8. Len(snt.arms) \in Nat /\ a.i \in 1 .. Len(snt.arms) /\ snt.is \in {"if", "match"} /\ i \in 1 .. Len(snt.arms) + 1
        <3>1. snt.is \in {"if", "match"} /\ a.i \in DOMAIN snt.arms
            BY <1>4, <2>4 DEF ArmOK
        <3>2. Len(snt.arms) \in Nat /\ DOMAIN snt.arms = 1 .. Len(snt.arms)
            BY <3>1, ArmsFacts
        <3> QED
            BY <2>5, <3>1, <3>2
    <2>9. rest \in X
        BY <1>4, <2>5
    <2>10. CASE snt.is = "if"
        <3>1. ~FalseTill(snt, i) /\ (o = 0 => TrueKnownBefore(snt, i) \/ (i = Len(snt.arms) + 1 /\ snt.orElse = <<>>))
            BY <1>4, <2>4, <2>5, <2>10 DEF ArmOK
        <3>2. Settles(IfArm(open, gs, snt, i, rest), program)
            <4>1. PICK c : c = Current(open)
                OBVIOUS
            <4>2. \/ TrueKnownBefore(snt, i) \/ (i = Len(snt.arms) + 1 /\ snt.orElse = <<>>)
                  \/ FalseTill(snt, i) /\ c \in Y
                  \/ ~FalseTill(snt, i) /\ c \in X /\ c # rest
                BY <2>6, <3>1, <4>1
            <4> QED
                BY <2>6, <2>8, <2>9, <2>10, <4>1, <4>2, IfArmSettles
        <3>3. Take(IfArm(open, gs, snt, i, rest))
            BY <2>7, <2>10 DEF NextArm
        <3> QED
            BY <3>2, <3>3, TakeSettles
    <2>11. CASE snt.is = "match"
        <3>1. curr \in Y
            BY <1>1, <1>2, <2>4, <2>5, <2>11
        <3>2. Settles(NextArm(open, gs, snt, i, rest, curr), program)
            BY <2>6, <2>9, <2>11, <3>1, MatchArmSettles
        <3> QED
            BY <2>7, <3>2, TakeSettles
    <2> QED
        BY <2>8, <2>10, <2>11
<1> QED
    BY <1>5, <1>6

LEMMA EndElseSettles ==
    ASSUME EmitInv, Scoped(fn, frames, program), EndElse
    PROVE  Settled
<1>1. PICK a, gs, X, Y : /\ a = Top.after /\ gs = Front(frames) /\ X = Tips(a)
                         /\ Y = IF a.is = "arm" /\ a.snt.is = "match" THEN {a.curr} ELSE {}
    OBVIOUS
<1>2. a.is \in {"else", "bare else"}
    BY <1>1 DEF EndElse, After
<1>3. /\ Between(fn, gs, program, X, Y) /\ Mentions(a) \subseteq 1 .. Len(fn.blocks)
      /\ Here \in 1 .. Len(fn.blocks)
    BY <1>1, <1>2, BodyLeaves
<1>4. PICK b, rest : b = (IF a.is = "bare else" THEN Here ELSE a.block) /\ rest = a.rest
    OBVIOUS
<1>5. b \in 1 .. Len(fn.blocks) /\ rest \in X
    BY <1>1, <1>2, <1>3, <1>4 DEF Mentions, Tips
<1>6. PICK f, g, h : f = DestroyLocals(fn, b) /\ g = AddBranch(f, rest) /\ h = SetActive(g, rest)
    OBVIOUS
<1>7. Between(f, gs, program, X, Y)
    BY <1>3, <1>5, <1>6, BetweenDestroys
<1>8. Between(g, gs, program, X, Y)
    BY <1>6, <1>7, BetweenBranches
<1>9. Between(h, gs, program, X, Y) /\ Current(h) = rest
    <2>1. rest \in X \cup Y
        BY <1>5
    <2> QED
        BY <1>6, <1>8, <2>1, BetweenActivates
<1>10. Scoped(h, gs, program)
    <2>1. Current(h) \in X
        BY <1>5, <1>9
    <2> QED
        BY <1>9, <2>1, BetweenSettles
<1>11. Go(h, gs)
    BY <1>1, <1>4, <1>6 DEF EndElse
<1> QED
    BY <1>10, <1>11, GoSettles

LEMMA BetweenGoesTo ==
    ASSUME NEW f, NEW fs, NEW p, NEW X, NEW Y, Between(f, fs, p, X, Y), NEW b \in 1 .. Len(f.blocks),
           NEW g, g = SetActive(f, b)
    PROVE  Between(g, fs, p, X, Y) /\ Len(g.blocks) = Len(f.blocks)
<1>1. Built(f)
    BY BetweenFacts
<1>2. Sees(f, g)
    BY <1>1, SetActiveSees
<1> QED
    BY <1>2, BetweenSees DEF Sees

LEMMA CloseSettles ==
    ASSUME NEW f, NEW X, NEW Y, Between(f, Front(frames), program, X, Y), NEW rest \in X,
           Close(SetActive(f, rest)) \/ Go(SetActive(f, rest), Front(frames))
    PROVE  Settled
<1>1. PICK g, gs : g = SetActive(f, rest) /\ gs = Front(frames)
    OBVIOUS
<1>2. rest \in X \cup Y
    OBVIOUS
<1>3. Between(g, gs, program, X, Y) /\ Current(g) = rest
    <2>1. Between(f, gs, program, X, Y)
        BY <1>1
    <2> QED
        BY <1>1, <1>2, <2>1, BetweenActivates
<1>4. Current(g) \in X
    BY <1>3
<1>5. Scoped(g, gs, program)
    BY <1>3, <1>4, BetweenSettles
<1> QED
    BY <1>1, <1>5 DEF Close, Go, Still, Settled

(* From the end of a body to the condition of its loop.                    *)
LEMMA BackToCondition ==
    ASSUME NEW f, NEW fs, NEW X, NEW Y, Between(f, fs, program, X, Y), NEW b \in 1 .. Len(f.blocks),
           NEW c \in 1 .. Len(f.blocks),
           NEW g, g = SetActive(AddBranch(DestroyLocals(f, b), c), c)
    PROVE  Between(g, fs, program, X, Y) /\ Len(g.blocks) = Len(f.blocks)
<1>1. PICK h, k : h = DestroyLocals(f, b) /\ k = AddBranch(h, c)
    OBVIOUS
<1>2. Between(h, fs, program, X, Y) /\ Len(h.blocks) = Len(f.blocks)
    BY <1>1, BetweenDestroys
<1>3. Between(k, fs, program, X, Y) /\ Len(k.blocks) = Len(f.blocks)
    <2>1. Between(k, fs, program, X, Y) /\ Len(k.blocks) = Len(h.blocks)
        BY <1>1, <1>2, BetweenBranches
    <2> QED
        BY <1>2, <2>1
<1>4. c \in 1 .. Len(k.blocks) /\ g = SetActive(k, c)
    BY <1>1, <1>3
<1>5. Between(g, fs, program, X, Y) /\ Len(g.blocks) = Len(k.blocks)
    BY <1>3, <1>4, BetweenGoesTo
<1> QED
    BY <1>3, <1>5

LEMMA EndLoopIfSettles ==
    ASSUME EmitInv, Scoped(fn, frames, program), EndLoopIf
    PROVE  Settled
<1>1. PICK a, gs, X, Y : /\ a = Top.after /\ gs = Front(frames) /\ X = Tips(a)
                         /\ Y = IF a.is = "arm" /\ a.snt.is = "match" THEN {a.curr} ELSE {}
    OBVIOUS
<1>2. a.is = "loop if"
    BY <1>1 DEF EndLoopIf, After
<1>3. /\ Between(fn, gs, program, X, Y) /\ Mentions(a) \subseteq 1 .. Len(fn.blocks)
      /\ Reserved(a) \subseteq 1 .. Len(fn.blocks)
    BY <1>1, <1>2, BodyLeaves
<1>4. PICK t, c, rest : t = a.true /\ c = a.cond /\ rest = a.rest
    OBVIOUS
<1>5. t \in 1 .. Len(fn.blocks) /\ c \in 1 .. Len(fn.blocks) /\ rest \in X
    BY <1>1, <1>2, <1>3, <1>4 DEF Mentions, Back, Loops, Reserved, Tips
<1>6. PICK f, g : /\ f = SetActive(AddBranch(DestroyLocals(fn, t), c), c)
                  /\ g = Emit(f, <<CondBr(t, rest, "unknown")>>)
    OBVIOUS
<1>7. Between(f, gs, program, X, Y)
    BY <1>3, <1>5, <1>6, BackToCondition
<1>8. Between(g, gs, program, X, Y)
    BY <1>6, <1>7, BetweenEmits
<1>9. Close(SetActive(g, rest))
    BY <1>1, <1>4, <1>6 DEF EndLoopIf
<1> QED
    BY <1>1, <1>5, <1>8, <1>9, CloseSettles

LEMMA EndLoopToSettles ==
    ASSUME EmitInv, Scoped(fn, frames, program), EndLoopTo
    PROVE  Settled
<1>1. PICK a, gs, X, Y : /\ a = Top.after /\ gs = Front(frames) /\ X = Tips(a)
                         /\ Y = IF a.is = "arm" /\ a.snt.is = "match" THEN {a.curr} ELSE {}
    OBVIOUS
<1>2. a.is = "loop to"
    BY <1>1 DEF EndLoopTo, After
<1>3. /\ Between(fn, gs, program, X, Y) /\ Mentions(a) \subseteq 1 .. Len(fn.blocks)
      /\ Reserved(a) \subseteq 1 .. Len(fn.blocks)
    BY <1>1, <1>2, BodyLeaves
<1>4. PICK t, c, rest, code :
          /\ t = a.true /\ c = a.cond /\ rest = a.rest
          /\ code = <<OnLocal("use", a.index, ""), CondBr(t, rest, "unknown")>>
    OBVIOUS
<1>5. t \in 1 .. Len(fn.blocks) /\ c \in 1 .. Len(fn.blocks) /\ rest \in X
    BY <1>1, <1>2, <1>3, <1>4 DEF Mentions, Back, Loops, Reserved, Tips
<1>6. PICK f, g : /\ f = SetActive(AddBranch(DestroyLocals(fn, t), c), c)
                  /\ g = Emit(f, code)
    OBVIOUS
<1>7. Between(f, gs, program, X, Y)
    BY <1>3, <1>5, <1>6, BackToCondition
<1>8. Between(g, gs, program, X, Y)
    <2>1. IsSeq(code) /\ Built(f)
        BY <1>4, <1>7, PairIsSeq, BetweenFacts
    <2>2. Sees(f, g)
        BY <1>6, <2>1, EmitSees
    <2> QED
        BY <1>7, <2>2, BetweenSees
<1>9. Close(SetActive(g, rest))
    BY <1>1, <1>4, <1>6 DEF EndLoopTo
<1> QED
    BY <1>1, <1>5, <1>8, <1>9, CloseSettles

LEMMA EndLoopEverSettles ==
    ASSUME EmitInv, Scoped(fn, frames, program), EndLoop
    PROVE  Settled
<1>1. PICK a, gs, X, Y : /\ a = Top.after /\ gs = Front(frames) /\ X = Tips(a)
                         /\ Y = IF a.is = "arm" /\ a.snt.is = "match" THEN {a.curr} ELSE {}
    OBVIOUS
<1>2. a.is = "loop"
    BY <1>1 DEF EndLoop, After
<1>3. /\ Between(fn, gs, program, X, Y) /\ Mentions(a) \subseteq 1 .. Len(fn.blocks)
    BY <1>1, <1>2, BodyLeaves
<1>4. PICK t, rest : t = a.true /\ rest = a.rest
    OBVIOUS
<1>5. t \in 1 .. Len(fn.blocks) /\ rest \in X
    BY <1>1, <1>2, <1>3, <1>4 DEF Mentions, Back, Loops, Tips
<1>6. PICK f, g : f = DestroyLocals(fn, t) /\ g = AddBranch(f, t)
    OBVIOUS
<1>7. Between(f, gs, program, X, Y)
    BY <1>3, <1>5, <1>6, BetweenDestroys
<1>8. Between(g, gs, program, X, Y)
    BY <1>6, <1>7, BetweenBranches
<1>9. Close(SetActive(g, rest))
    BY <1>1, <1>4, <1>6 DEF EndLoop
<1> QED
    BY <1>1, <1>5, <1>8, <1>9, CloseSettles

LEMMA EndLoopInSettles ==
    ASSUME EmitInv, Scoped(fn, frames, program), EndLoopIn
    PROVE  Settled
<1>1. PICK a, gs, X, Y : /\ a = Top.after /\ gs = Front(frames) /\ X = Tips(a)
                         /\ Y = IF a.is = "arm" /\ a.snt.is = "match" THEN {a.curr} ELSE {}
    OBVIOUS
<1>2. a.is = "loop in"
    BY <1>1 DEF EndLoopIn, After
<1>3. /\ Between(fn, gs, program, X, Y) /\ Mentions(a) \subseteq 1 .. Len(fn.blocks)
      /\ Reserved(a) \subseteq 1 .. Len(fn.blocks)
    BY <1>1, <1>2, BodyLeaves
<1>4. PICK b, c, t, rest : b = a.body /\ c = a.cond /\ t = a.true /\ rest = a.rest
    OBVIOUS
<1>5. /\ b \in 1 .. Len(fn.blocks) /\ c \in 1 .. Len(fn.blocks) /\ t \in 1 .. Len(fn.blocks)
      /\ rest \in X
    BY <1>1, <1>2, <1>3, <1>4 DEF Mentions, Back, Reserved, Tips
<1>6. PICK f, g, h, k : /\ f = SetActive(AddBranch(DestroyLocals(fn, b), c), c)
                        /\ g = Emit(f, <<CondBr(t, rest, "unknown")>>)
                        /\ h = SetActive(g, t) /\ k = AddBranch(h, b)
    OBVIOUS
<1>7. Between(f, gs, program, X, Y) /\ Len(f.blocks) = Len(fn.blocks)
    BY <1>3, <1>5, <1>6, BackToCondition
<1>8. Between(g, gs, program, X, Y) /\ Len(g.blocks) = Len(f.blocks)
    BY <1>6, <1>7, BetweenEmits
<1>9. Between(h, gs, program, X, Y)
    <2>1. t \in 1 .. Len(g.blocks)
        BY <1>5, <1>7, <1>8
    <2> QED
        BY <1>6, <1>8, <2>1, BetweenGoesTo
<1>10. Between(k, gs, program, X, Y)
    BY <1>6, <1>9, BetweenBranches
<1>11. Go(SetActive(k, rest), gs)
    BY <1>1, <1>4, <1>6 DEF EndLoopIn
<1> QED
    BY <1>1, <1>5, <1>10, <1>11, CloseSettles

(* The body of a loop is begun.                                            *)
LoopWaits(a, rest) == a.is # "arm" /\ Tips(a) = {rest}

LEMMA OpenSettles ==
    ASSUME NEW f, NEW X, NEW Y, Between(f, Advanced, program, X, Y), Current(f) \in X,
           NEW rest \in X, NEW a, LoopWaits(a, rest), NEW info, NEW breaks, Open(f, info, breaks, a)
    PROVE  Settled
<1>1. PICK gs, x, hs : gs = Advanced /\ x = Frame(Snt.body, a) /\ hs = Append(gs, x)
    OBVIOUS
<1>2. x.next = 1 /\ x.after = a
    BY <1>1 DEF Frame
<1>3. Tips(x.after) \subseteq X /\ (x.after.is = "arm" /\ x.after.snt.is = "match" => x.after.curr \in Y)
    BY <1>2 DEF LoopWaits
<1>4. Scoped(f, hs, program)
    <2>1. Between(f, gs, program, X, Y)
        BY <1>1
    <2> QED
        BY ONLY <1>1, <1>2, <1>3, <2>1, Current(f) \in X, BetweenPushes
<1> QED
    BY <1>1, <1>4 DEF Open, Still, Settled

(* Nothing more is declared in the block that a sentence begins in.        *)
LEMMA HereIsLeft ==
    ASSUME EmitInv, InBody, Scoped(fn, frames, program), Declares(Snt) = {}, NEW c, c = Here
    PROVE  \E V, W : Between(fn, Advanced, program, V, W) /\ c \in W
<1>1. PICK X, Y, V, W : X = {c} /\ Y = {} /\ V = X \ {c} /\ W = Y \cup {c}
    OBVIOUS
<1>2. GoneOn(frames, Advanced)
    BY AtSentence
<1>3. X = {Here}
    BY <1>1
<1>4. Between(fn, Advanced, program, X, Y)
    BY <1>1, <1>2, <1>3, QuietStarts
<1>5. c \in X
    BY <1>1
<1>6. Between(fn, Advanced, program, V, W)
    BY <1>1, <1>4, <1>5, BetweenRetires
<1> QED
    BY <1>1, <1>6

LEMMA LoopIfSettles ==
    ASSUME EmitInv, Scoped(fn, frames, program), EnterLoopIf
    PROVE  Settled
<1>1. InBody /\ Snt.is = "loop if"
    BY DEF EnterLoopIf, At
<1>2. CASE Fail("error")
    BY <1>2, FailureSettles
<1>3. CASE ~Fail("error")
    <2>1. PICK b, gs : b = Here /\ gs = Advanced
        OBVIOUS
    <2>2. PICK V, W : Between(fn, gs, program, V, W) /\ b \in W
        <3>1. Declares(Snt) = {}
            BY <1>1 DEF Declares
        <3> QED
            BY <1>1, <2>1, <3>1, HereIsLeft
    <2>3. PICK n \in Nat : n = Len(fn.blocks)
        BY <2>2, BetweenFacts
    <2>4. PICK t, c, r, f1, f2, f3, A1, A2, A3 :
              /\ t = n + 1 /\ c = n + 2 /\ r = n + 3
              /\ f1 = Create(fn, b) /\ f2 = Create(f1, b) /\ f3 = Create(f2, b)
              /\ Joined(A1, V, t) /\ Joined(A2, A1, c) /\ Joined(A3, A2, r)
        BY DEF Joined
    <2>5. Between(f1, gs, program, A1, W) /\ Len(f1.blocks) = t
        <3>1. Fresh(fn, t)
            BY <2>3, <2>4 DEF Fresh
        <3> QED
            BY <2>2, <2>4, <3>1, BetweenCreates
    <2>6. Between(f2, gs, program, A2, W) /\ Len(f2.blocks) = c
        <3>1. Fresh(f1, c)
            BY <2>3, <2>4, <2>5 DEF Fresh
        <3> QED
            BY <2>2, <2>4, <2>5, <3>1, BetweenCreates
    <2>7. Between(f3, gs, program, A3, W)
        <3>1. Fresh(f2, r)
            BY <2>3, <2>4, <2>6 DEF Fresh
        <3> QED
            BY <2>2, <2>4, <2>6, <3>1, BetweenCreates
    <2>8. t \in A3 /\ r \in A3 /\ t \in A3 \cup W
        BY <2>4 DEF Joined
    <2>9. PICK g, h : /\ g = (IF Snt.isDo THEN AddBranch(f3, t) ELSE Emit(f3, <<CondBr(t, r, "unknown")>>))
                      /\ h = SetActive(g, t)
        OBVIOUS
    <2>10. Between(g, gs, program, A3, W)
        <3>1. Between(AddBranch(f3, t), gs, program, A3, W)
            BY <2>7, BetweenBranches
        <3>2. Between(Emit(f3, <<CondBr(t, r, "unknown")>>), gs, program, A3, W)
            BY <2>7, BetweenEmits
        <3> QED
            BY <2>9, <3>1, <3>2
    <2>11. Between(h, gs, program, A3, W) /\ Current(h) = t
        BY <2>8, <2>9, <2>10, BetweenActivates
    <2>12. PICK a : a = [is |-> "loop if", true |-> t, cond |-> c, rest |-> r]
        OBVIOUS
    <2>13. LoopWaits(a, r)
        BY <2>12 DEF LoopWaits, Tips
    <2>14. PICK info, breaks : Open(h, info, breaks, a)
        BY <1>3, <2>1, <2>3, <2>4, <2>9, <2>12 DEF EnterLoopIf, Created
    <2> QED
        <3>1. Between(h, Advanced, program, A3, W) /\ Current(h) \in A3
            BY <2>1, <2>8, <2>11
        <3> QED
            BY <2>8, <2>13, <2>14, <3>1, OpenSettles
<1> QED
    BY <1>2, <1>3

LEMMA LoopEverSettles ==
    ASSUME EmitInv, Scoped(fn, frames, program), EnterLoop
    PROVE  Settled
<1>1. InBody /\ Snt.is = "loop"
    BY DEF EnterLoop, At
<1>2. CASE Fail("error")
    BY <1>2, FailureSettles
<1>3. CASE ~Fail("error")
    <2>1. PICK b, gs, q : b = Here /\ gs = Advanced /\ q = 0
        OBVIOUS
    <2>2. PICK V, W : Between(fn, gs, program, V, W) /\ b \in W
        <3>1. Declares(Snt) = {}
            BY <1>1 DEF Declares
        <3> QED
            BY <1>1, <2>1, <3>1, HereIsLeft
    <2>3. PICK n \in Nat : n = Len(fn.blocks)
        BY <2>2, BetweenFacts
    <2>4. PICK t, r, f1, f2, A1, A2 :
              /\ t = n + 1 /\ r = n + 2 /\ f1 = Create(fn, b) /\ f2 = Link(Create(f1, q), r, b)
              /\ Joined(A1, V, t) /\ Joined(A2, A1, r)
        BY DEF Joined
    <2>5. Between(f1, gs, program, A1, W) /\ Len(f1.blocks) = t
        <3>1. Fresh(fn, t)
            BY <2>3, <2>4 DEF Fresh
        <3> QED
            BY <2>2, <2>4, <3>1, BetweenCreates
    <2>6. Between(f2, gs, program, A2, W)
        <3>1. Fresh(f1, r) /\ q \in {0, f1.blocks[b].parent}
            BY <2>1, <2>3, <2>4, <2>5 DEF Fresh
        <3> QED
            BY <2>2, <2>4, <2>5, <3>1, BetweenLinks
    <2>7. t \in A2 /\ r \in A2 /\ t \in A2 \cup W
        BY <2>4 DEF Joined
    <2>8. PICK g, h : g = AddBranch(f2, t) /\ h = SetActive(g, t)
        OBVIOUS
    <2>9. Between(g, gs, program, A2, W)
        BY <2>6, <2>8, BetweenBranches
    <2>10. Between(h, gs, program, A2, W) /\ Current(h) = t
        BY <2>7, <2>8, <2>9, BetweenActivates
    <2>11. PICK a : a = [is |-> "loop", true |-> t, rest |-> r]
        OBVIOUS
    <2>12. LoopWaits(a, r)
        BY <2>11 DEF LoopWaits, Tips
    <2>13. PICK info, breaks : Open(h, info, breaks, a)
        BY <1>3, <2>1, <2>3, <2>4, <2>8, <2>11 DEF EnterLoop, Created
    <2> QED
        <3>1. Between(h, Advanced, program, A2, W) /\ Current(h) \in A2
            BY <2>1, <2>7, <2>10
        <3> QED
            BY <2>7, <2>12, <2>13, <3>1, OpenSettles
<1> QED
    BY <1>2, <1>3

(* A new block, of which nothing is said but where it is.                  *)
Beside(f, g, m, q, d) ==
    /\ Len(g.blocks) = m /\ Look(g, m) = <<q, d, <<>>>> /\ Current(g) = Current(f)
    /\ \A k \in 1 .. Len(f.blocks) : Look(g, k) = Look(f, k)
Spare(fs, D, m) == m \notin D /\ Apart(fs, m)

LEMMA MidSpare ==
    ASSUME NEW f, NEW fs, NEW p, NEW D, NEW X, NEW Y, NEW N, Mid(f, fs, p, D, X, Y, N),
           NEW q \in 0 .. Len(f.blocks), NEW d \in 1 .. Len(f.blocks), NEW m, Fresh(f, m),
           NEW g, g = Link(Create(f, q), m, d)
    PROVE  Mid(g, fs, p, D, X, Y, N) /\ Beside(f, g, m, q, d) /\ Spare(fs, D, m)
<1>14. m = Len(f.blocks) + 1
    BY DEF Fresh
<1>1. /\ Built(f) /\ Len(f.blocks) \in Nat
    BY MidFacts
<1>3. PICK h : h = Create(f, q)
    OBVIOUS
<1>4. /\ Mid(h, fs, p, D, X, Y, N) /\ Look(h, m) = <<q, 0, <<>>>> /\ Len(h.blocks) = m
      /\ m \in 1 .. m /\ m \notin D /\ m \notin X /\ Apart(fs, m) /\ Current(h) = Current(f) /\ Created(h) = m
      /\ \A k \in 1 .. Len(f.blocks) : Look(h, k) = Look(f, k)
    BY ONLY Mid(f, fs, p, D, X, Y, N), q \in 0 .. Len(f.blocks), <1>3, <1>14, MidMakes
<1>5. PICK B : B = {}
    OBVIOUS
<1>6. Grows(f, h, B)
    BY <1>1, <1>3, <1>5, CreateGrows
<1>7. m \in 1 .. Len(h.blocks) /\ m > Len(f.blocks) /\ d \in 1 .. Len(h.blocks) /\ d < m /\ g = Link(h, m, d)
    BY <1>1, <1>3, <1>4, <1>14
<1>8. Grows(f, g, B)
    BY ONLY <1>6, <1>7, LinkGrows
<1>9. D \cap B = {} /\ X \cap B = {} /\ \A b \in B : Apart(fs, b)
    BY <1>5
<1>10. Mid(g, fs, p, D, X, Y, N)
    BY ONLY Mid(f, fs, p, D, X, Y, N), <1>8, <1>9, MidGrows
<1>11. Beside(f, g, m, q, d)
    <2>1. Built(h)
        BY <1>4 DEF Mid
    <2>4. /\ Len(g.blocks) = Len(h.blocks) /\ Current(g) = Current(h)
          /\ \A k \in 1 .. Len(h.blocks) : k # m => Look(g, k) = Look(h, k)
          /\ \A r, v : Look(h, m) = <<r, 0, v>> => Look(g, m) = <<r, d, v>>
        BY ONLY <1>7, <2>1, LinkSees
    <2>5. Look(g, m) = <<q, d, <<>>>>
        BY <1>4, <2>4
    <2>6. ASSUME NEW k \in 1 .. Len(f.blocks) PROVE Look(g, k) = Look(f, k)
        <3>1. k # m /\ k \in 1 .. Len(h.blocks)
            BY <1>1, <1>4, <1>14
        <3> QED
            BY <1>4, <2>4, <3>1
    <2> QED
        BY <1>4, <2>4, <2>5, <2>6 DEF Beside
<1>12. Spare(fs, D, m)
    BY <1>4 DEF Spare
<1> QED
    BY <1>10, <1>11, <1>12

(* The block that a block is in stays the same.                            *)
InSame(f, g, b) == g.blocks[b].parent = f.blocks[b].parent

LEMMA CreateInSame ==
    ASSUME NEW f, NEW fs, NEW p, NEW X, NEW Y, Between(f, fs, p, X, Y), NEW c \in Y,
           NEW g, g = Create(f, c), NEW b \in 1 .. Len(f.blocks)
    PROVE  InSame(f, g, b)
<1>1. Built(f) /\ c \in 0 .. Len(f.blocks)
    <2>1. Built(f) /\ Len(f.blocks) \in Nat /\ c \in 1 .. Len(f.blocks)
        BY BetweenFacts
    <2> QED
        BY <2>1
<1>2. Look(g, b) = Look(f, b)
    BY <1>1, CreateSees
<1> QED
    BY <1>2, SameLook DEF InSame

(* A local of a sentence: its name is the only one that is new.            *)
LEMMA TagIsNew ==
    ASSUME EmitInv, InBody, Scoped(fn, frames, program), TagIsFree(Snt.tag), Declares(Snt) = {Snt.tag},
           NEW X, X = {Here}, NEW Y, Y = {}, NEW N, N = Names(frames, program, Len(frames))
    PROVE  /\ \E D : Mid(fn, Advanced, program, D, X, Y, N)
           /\ Snt.tag \notin N \/ Snt.tag = NoTag
           /\ IsSeq(Advanced)
           /\ Names(Advanced, program, Len(Advanced)) = N \cup {Snt.tag}
<1>1. GoneOn(frames, Advanced)
    BY AtSentence
<1>2. /\ \E D : Mid(fn, Advanced, program, D, X, Y, N)
      /\ Names(Advanced, program, Len(Advanced)) = N \cup Declares(Snt) /\ IsSeq(Advanced)
      /\ \A name : Has(name) <=> name \in N
    BY <1>1, SentenceStarts
<1> QED
    BY <1>2 DEF TagIsFree

LEMMA IndexIsGained ==
    ASSUME EmitInv, InBody, Scoped(fn, frames, program), TagIsFree(Snt.tag), Declares(Snt) = {Snt.tag},
           NEW kind, NEW b, b = Here, NEW g, g = NewLocal(fn, b, Local(Snt.tag, kind, Site))
    PROVE  /\ \E V, W : Between(g, Advanced, program, V, W) /\ b \in W
           /\ InSame(fn, g, b) /\ Len(g.blocks) = Len(fn.blocks)
<1>1. PICK X, Y, N, local : /\ X = {Here} /\ Y = {} /\ N = Names(frames, program, Len(frames))
                            /\ local = Local(Snt.tag, kind, Site)
    OBVIOUS
<1>2. /\ \E D : Mid(fn, Advanced, program, D, X, Y, N)
      /\ Snt.tag \notin N \/ Snt.tag = NoTag
      /\ IsSeq(Advanced)
      /\ Names(Advanced, program, Len(Advanced)) = N \cup {Snt.tag}
    BY <1>1, TagIsNew
<1>3. PICK D : Mid(fn, Advanced, program, D, X, Y, N)
    BY <1>2
<1>4. local.name = Snt.tag /\ (local.name \notin N \/ local.name = NoTag)
    BY <1>1, <1>2 DEF Local
<1>5. PICK M, Z, E, V, W, gs : /\ M = N \cup {local.name} /\ Z = {b} /\ E = D \cup {b} /\ V = Z \ {b}
                               /\ W = Y \cup {b} /\ gs = Advanced
    OBVIOUS
<1>6. /\ Mid(g, gs, program, D, Z, Y, M) /\ Len(g.blocks) = Len(fn.blocks)
      /\ g.blocks[b].parent = fn.blocks[b].parent
    <2>1. /\ Mid(fn, gs, program, D, X, Y, N) /\ b \in X /\ g = NewLocal(fn, b, local)
          /\ local.name \notin N \/ local.name = NoTag
          /\ M = N \cup {local.name} /\ Z = {b} /\ Y = {}
        BY <1>1, <1>3, <1>4, <1>5
    <2>2. Mid(g, gs, program, D, Z, Y, M)
        BY ONLY <2>1, MidGains
    <2>3. Gains(fn, g, b, local)
        <3>1. Built(fn) /\ b \in 1 .. Len(fn.blocks)
            BY <2>1, MidFacts
        <3> QED
            BY ONLY <2>1, <3>1, NewLocalSees
    <2> QED
        BY <2>2, <2>3 DEF Gains
<1>7. b \in Z
    BY <1>5
<1>8. Mid(g, gs, program, E, V, W, M)
    BY <1>5, <1>6, <1>7, MidRetires
<1>9. M = Names(gs, program, Len(gs)) /\ IsSeq(gs)
    BY <1>2, <1>4, <1>5
<1>10. Between(g, gs, program, V, W)
    BY <1>8, <1>9 DEF Between
<1> QED
    BY <1>5, <1>6, <1>10 DEF InSame

LEMMA LoopToSettles ==
    ASSUME EmitInv, Scoped(fn, frames, program), EnterLoopTo
    PROVE  Settled
<1>1. InBody /\ Snt.is = "loop to"
    BY DEF EnterLoopTo, At
<1>2. CASE Fail("error")
    BY <1>2, FailureSettles
<1>3. CASE ~Fail("error")
    <2>1. TagIsFree(Snt.tag) /\ Declares(Snt) = {Snt.tag}
        BY <1>1, <1>3 DEF EnterLoopTo, Declares
    <2>2. PICK b, gs, q, kind, index : /\ b = Here /\ gs = Advanced /\ q = fn.blocks[b].parent /\ kind = "index"
                                       /\ index = NewLocal(fn, b, Local(Snt.tag, kind, Site))
        OBVIOUS
    <2>3. /\ \E V, W : Between(index, Advanced, program, V, W) /\ b \in W
          /\ InSame(fn, index, b) /\ Len(index.blocks) = Len(fn.blocks)
        BY <1>1, <2>1, <2>2, IndexIsGained
    <2>4. PICK V, W : Between(index, gs, program, V, W) /\ b \in W
        BY <2>2, <2>3
    <2>5. PICK n \in Nat : n = Len(fn.blocks) /\ n = Len(index.blocks) /\ b \in 1 .. n
        BY <2>3, <2>4, BetweenFacts
    <2>6. PICK l, t, c, r : l = n + 1 /\ t = n + 2 /\ c = n + 3 /\ r = n + 4
        OBVIOUS
    <2>28. t = l + 1 /\ c = t + 1 /\ r = c + 1
        BY <2>6
    <2>7. PICK x, e : x = OnLocal("init", Len(index.locals), "") /\ e = Emit(index, <<x>>)
        OBVIOUS
    <2>8. Between(e, gs, program, V, W) /\ Len(e.blocks) = n
        <3>1. e = Emit(index, <<x>>)
            BY <2>7
        <3> QED
            BY <2>4, <2>5, <3>1, BetweenEmits
    <2>9. InSame(index, e, b)
        <3>1. Built(index)
            BY <2>4, BetweenFacts
        <3>2. Sees(index, e)
            BY <2>7, <3>1, EmitOneSees
        <3>3. Look(e, b) = Look(index, b)
            BY <2>5, <3>2 DEF Sees
        <3> QED
            BY <3>3, SameLook DEF InSame
    <2>10. PICK loop, A1, A2, B2 : /\ loop = Create(e, b) /\ Joined(A1, V, l) /\ A2 = A1 \ {l} /\ B2 = W \cup {l}
        BY DEF Joined
    <2>11. Between(loop, gs, program, A1, W) /\ Len(loop.blocks) = l
        <3>1. Fresh(e, l)
            BY <2>5, <2>6, <2>8 DEF Fresh
        <3> QED
            BY <2>4, <2>8, <2>10, <3>1, BetweenCreates
    <2>12. l \in A1 /\ l \in B2 /\ b \in B2
        BY <2>4, <2>10 DEF Joined
    <2>13. Between(loop, gs, program, A2, B2)
        BY <2>10, <2>11, <2>12, BetweenRetires
    <2>14. PICK f1, f2, f3, A3, A4, A5 :
               /\ f1 = Create(loop, l) /\ f2 = Create(f1, l) /\ f3 = Link(Create(f2, q), r, b)
               /\ Joined(A3, A2, t) /\ Joined(A4, A3, c) /\ Joined(A5, A4, r)
        BY DEF Joined
    <2>15. Between(f1, gs, program, A3, B2) /\ Len(f1.blocks) = t
        <3>1. Fresh(loop, t)
            BY <2>28, <2>11 DEF Fresh
        <3> QED
            BY <2>12, <2>13, <2>14, <3>1, BetweenCreates
    <2>16. Between(f2, gs, program, A4, B2) /\ Len(f2.blocks) = c
        <3>1. Fresh(f1, c)
            BY <2>28, <2>15 DEF Fresh
        <3> QED
            BY <2>12, <2>14, <2>15, <3>1, BetweenCreates
    <2>17. q = f2.blocks[b].parent
        <3>1. InSame(e, loop, b)
            BY <2>4, <2>5, <2>8, <2>10, CreateInSame
        <3>2. InSame(loop, f1, b)
            <4>1. b \in 1 .. n + 1
                BY <2>5
            <4>2. b \in 1 .. Len(loop.blocks)
                BY <2>6, <2>11, <4>1
            <4> QED
                BY <2>12, <2>13, <2>14, <4>2, CreateInSame
        <3>3. InSame(f1, f2, b)
            <4>1. b \in 1 .. n + 2
                BY <2>5
            <4>2. b \in 1 .. Len(f1.blocks)
                BY <2>6, <2>15, <4>1
            <4> QED
                BY <2>12, <2>14, <2>15, <4>2, CreateInSame
        <3> QED
            BY <2>2, <2>3, <2>9, <3>1, <3>2, <3>3 DEF InSame
    <2>18. Between(f3, gs, program, A5, B2)
        <3>1. Fresh(f2, r) /\ q \in {0, f2.blocks[b].parent}
            BY <2>28, <2>16, <2>17 DEF Fresh
        <3> QED
            BY <2>12, <2>14, <2>16, <3>1, BetweenLinks
    <2>19. t \in A5 /\ r \in A5 /\ t \in A5 \cup B2 /\ l \in A5 \cup B2
        BY <2>12, <2>14 DEF Joined
    <2>20. PICK f4, f5, f6, f7, code : /\ f4 = AddBranch(f3, l) /\ f5 = SetActive(f4, l) /\ f6 = Emit(f5, code)
                                       /\ f7 = SetActive(f6, t)
                                       /\ code = <<OnLocal("use", Len(index.locals), ""), CondBr(t, r, "unknown")>>
        OBVIOUS
    <2>21. Between(f4, gs, program, A5, B2)
        BY <2>18, <2>20, BetweenBranches
    <2>22. Between(f5, gs, program, A5, B2)
        BY <2>19, <2>20, <2>21, BetweenActivates
    <2>23. Between(f6, gs, program, A5, B2)
        <3>1. IsSeq(code) /\ Built(f5)
            BY <2>20, <2>22, PairIsSeq, BetweenFacts
        <3>2. Sees(f5, f6)
            BY <2>20, <3>1, EmitSees
        <3> QED
            BY <2>22, <3>2, BetweenSees
    <2>24. Between(f7, gs, program, A5, B2) /\ Current(f7) = t
        <3>1. f7 = SetActive(f6, t)
            BY <2>20
        <3> QED
            BY ONLY <2>19, <2>23, <3>1, BetweenActivates
    <2>25. PICK i, a : /\ i = Len(index.locals)
                       /\ a = [is |-> "loop to", true |-> t, cond |-> c, rest |-> r, index |-> i]
        OBVIOUS
    <2>26. LoopWaits(a, r)
        BY <2>25, ZenonT(40) DEF LoopWaits, Tips
    <2>27. PICK info, breaks : Open(f7, info, breaks, a)
        BY <1>3, <2>1, <2>2, <2>5, <2>6, <2>7, <2>10, <2>14, <2>20, <2>25 DEF EnterLoopTo, Created
    <2> QED
        <3>1. Between(f7, Advanced, program, A5, B2) /\ Current(f7) \in A5
            BY <2>2, <2>19, <2>24
        <3> QED
            BY <2>19, <2>26, <2>27, <3>1, OpenSettles
<1> QED
    BY <1>2, <1>3

(* The blocks of loop in that matter: l within m, and r after m.           *)
AroundMain(g, fs, D, m, l, r, q) ==
    /\ Len(g.blocks) = r /\ l \in 1 .. r /\ m \in 1 .. r /\ l # m /\ r # m
    /\ Look(g, l) = <<m, 0, <<>>>> /\ Look(g, r) = <<q, m, <<>>>> /\ g.blocks[m].parent = q
    /\ Spare(fs, D, l) /\ Spare(fs, D, r)

LEMMA LoopInBlocks ==
    ASSUME NEW f, NEW fs, NEW p, NEW D, NEW X, NEW Y, NEW N, Mid(f, fs, p, D, X, Y, N), NEW b \in Y,
           NEW q, q = f.blocks[b].parent, NEW m, NEW l, NEW c, NEW t, NEW r,
           Fresh(f, m), l = m + 1, c = l + 1, t = c + 1, r = t + 1,
           NEW f1, f1 = Link(Create(f, q), m, b), NEW f2, f2 = Create(f1, m),
           NEW f3, f3 = Link(Create(f2, m), c, l), NEW f4, f4 = Link(Create(f3, m), t, c),
           NEW f5, f5 = Link(Create(f4, q), r, m), NEW Z, Joined(Z, X, m)
    PROVE  Mid(f5, fs, p, D, Z, Y, N) /\ AroundMain(f5, fs, D, m, l, r, q)
<1>1. PICK n \in Nat : n = Len(f.blocks) /\ b \in 1 .. n
    BY MidFacts
<1>2. m = n + 1
    BY <1>1 DEF Fresh
<1>3. Mid(f1, fs, p, D, Z, Y, N) /\ q \in 0 .. n /\ Beside(f, f1, m, q, b)
    <2>1. q \in {0, f.blocks[b].parent} /\ f1 = Link(Create(f, q), m, b)
        OBVIOUS
    <2>2. Mid(f1, fs, p, D, Z, Y, N)
        BY ONLY Mid(f, fs, p, D, X, Y, N), b \in Y, <2>1, Fresh(f, m), Joined(Z, X, m), MidLinks
    <2>3. q \in 0 .. Len(f.blocks)
        BY ONLY Mid(f, fs, p, D, X, Y, N), b \in Y, <2>1, Fresh(f, m), Joined(Z, X, m), MidLinks
    <2>4. b \in 1 .. Len(f.blocks)
        BY <1>1
    <2>5. Beside(f, f1, m, q, b)
        BY ONLY Mid(f, fs, p, D, X, Y, N), <2>1, <2>3, <2>4, Fresh(f, m), MidSpare
    <2> QED
        BY <1>1, <2>2, <2>3, <2>5
<1>4. /\ m \in 1 .. m /\ l \in 1 .. l /\ l \in 1 .. c /\ l \in 1 .. t /\ m \in 1 .. l /\ m \in 1 .. c /\ m \in 1 .. t
      /\ c \in 1 .. c /\ l \in 1 .. r /\ m \in 1 .. r /\ l # m /\ r # m
      /\ m \in 0 .. m /\ m \in 0 .. l /\ m \in 0 .. c /\ q \in 0 .. t
    <2>1. m \in Nat /\ l \in Nat /\ c \in Nat /\ t \in Nat /\ r \in Nat /\ n \in Nat
        BY <1>1, <1>2
    <2>2. 1 <= m /\ m < l /\ l < c /\ c < t /\ t < r /\ n < t
        BY <1>1, <1>2
    <2>3. q \in 0 .. n
        BY <1>3
    <2> QED
        BY ONLY <2>1, <2>2, <2>3
<1>5. /\ Mid(f2, fs, p, D, Z, Y, N) /\ Look(f2, l) = <<m, 0, <<>>>> /\ Len(f2.blocks) = l
      /\ Spare(fs, D, l) /\ Look(f2, m) = Look(f1, m)
    <2>1. Len(f1.blocks) = m
        BY <1>3 DEF Beside
    <2>2. m \in 0 .. Len(f1.blocks) /\ l = Len(f1.blocks) + 1 /\ m \in 1 .. Len(f1.blocks)
        BY <1>4, <2>1
    <2>3. Mid(f1, fs, p, D, Z, Y, N)
        BY <1>3
    <2>4. /\ Mid(f2, fs, p, D, Z, Y, N) /\ Look(f2, l) = <<m, 0, <<>>>> /\ Len(f2.blocks) = l
          /\ l \notin D /\ Apart(fs, l)
          /\ \A k \in 1 .. Len(f1.blocks) : Look(f2, k) = Look(f1, k)
        BY ONLY <2>2, <2>3, f2 = Create(f1, m), MidMakes
    <2> QED
        BY <2>2, <2>4 DEF Spare
<1>6. Mid(f3, fs, p, D, Z, Y, N) /\ Beside(f2, f3, c, m, l)
    <2>1. m \in 0 .. Len(f2.blocks) /\ l \in 1 .. Len(f2.blocks) /\ Fresh(f2, c) /\ Mid(f2, fs, p, D, Z, Y, N)
        BY <1>4, <1>5 DEF Fresh
    <2> QED
        BY ONLY <2>1, f3 = Link(Create(f2, m), c, l), MidSpare
<1>7. Mid(f4, fs, p, D, Z, Y, N) /\ Beside(f3, f4, t, m, c)
    <2>1. Len(f3.blocks) = c
        BY <1>6 DEF Beside
    <2>2. m \in 0 .. Len(f3.blocks) /\ c \in 1 .. Len(f3.blocks) /\ Fresh(f3, t) /\ Mid(f3, fs, p, D, Z, Y, N)
        BY <1>4, <1>6, <2>1 DEF Fresh
    <2> QED
        BY ONLY <2>2, f4 = Link(Create(f3, m), t, c), MidSpare
<1>8. Mid(f5, fs, p, D, Z, Y, N) /\ Beside(f4, f5, r, q, m) /\ Spare(fs, D, r)
    <2>1. Len(f4.blocks) = t
        BY <1>7 DEF Beside
    <2>2. q \in 0 .. Len(f4.blocks) /\ m \in 1 .. Len(f4.blocks) /\ Fresh(f4, r) /\ Mid(f4, fs, p, D, Z, Y, N)
        BY <1>4, <1>7, <2>1 DEF Fresh
    <2> QED
        BY ONLY <2>2, f5 = Link(Create(f4, q), r, m), MidSpare
<1>9. Look(f5, l) = Look(f2, l) /\ Look(f5, m) = Look(f2, m)
    <2>1. l \in 1 .. Len(f2.blocks) /\ m \in 1 .. Len(f2.blocks)
        BY <1>4, <1>5
    <2>2. l \in 1 .. Len(f3.blocks) /\ m \in 1 .. Len(f3.blocks)
        BY <1>4, <1>6 DEF Beside
    <2>3. l \in 1 .. Len(f4.blocks) /\ m \in 1 .. Len(f4.blocks)
        BY <1>4, <1>7 DEF Beside
    <2>4. Look(f3, l) = Look(f2, l) /\ Look(f3, m) = Look(f2, m)
        BY <1>6, <2>1 DEF Beside
    <2>5. Look(f4, l) = Look(f3, l) /\ Look(f4, m) = Look(f3, m)
        BY <1>7, <2>2 DEF Beside
    <2>6. Look(f5, l) = Look(f4, l) /\ Look(f5, m) = Look(f4, m)
        BY <1>8, <2>3 DEF Beside
    <2> QED
        BY <2>4, <2>5, <2>6
<1>10. f5.blocks[m].parent = q
    <2>1. Look(f5, m) = <<q, b, <<>>>>
        BY <1>3, <1>5, <1>9 DEF Beside
    <2> QED
        BY <2>1 DEF Look
<1>11. Len(f5.blocks) = r /\ Look(f5, r) = <<q, m, <<>>>>
    BY <1>8 DEF Beside
<1>12. Look(f5, l) = <<m, 0, <<>>>>
    BY <1>5, <1>9
<1>13. AroundMain(f5, fs, D, m, l, r, q)
    <2>1. l \in 1 .. r /\ m \in 1 .. r /\ l # m /\ r # m /\ Spare(fs, D, l) /\ Spare(fs, D, r)
        BY <1>4, <1>5, <1>8
    <2> QED
        BY ONLY <1>10, <1>11, <1>12, <2>1 DEF AroundMain
<1> QED
    BY <1>8, <1>13

LEMMA AroundSees ==
    ASSUME NEW f, NEW g, Sees(f, g), NEW fs, NEW D, NEW m, NEW l, NEW r \in Nat, NEW q,
           AroundMain(f, fs, D, m, l, r, q)
    PROVE  AroundMain(g, fs, D, m, l, r, q)
<1>1. r \in 1 .. r /\ r = Len(f.blocks) /\ l \in 1 .. r /\ m \in 1 .. r
    BY DEF AroundMain
<1>2. Look(g, l) = Look(f, l) /\ Look(g, r) = Look(f, r) /\ Look(g, m) = Look(f, m) /\ Len(g.blocks) = r
    BY <1>1 DEF Sees
<1>3. g.blocks[m].parent = f.blocks[m].parent
    BY <1>2, SameLook
<1> QED
    BY <1>2, <1>3 DEF AroundMain

(* The item, and the two blocks in which it is seen.                       *)
LEMMA ItemIsGained ==
    ASSUME NEW f, NEW fs, NEW p, NEW D, NEW X, NEW Y, NEW N, Mid(f, fs, p, D, X, Y, N), NEW m \in X,
           NEW l, NEW r \in Nat, NEW q, AroundMain(f, fs, D, m, l, r, q),
           NEW local, local.name \notin N \/ local.name = NoTag, NEW g, g = NewLocal(f, m, local),
           NEW M, Joined(M, N, local.name)
    PROVE  \E E, Z, W : Mid(g, fs, p, E, Z, W, M) /\ l \in Z /\ r \in Z
<1>1. PICK Z, W, E, V, U : Z = {m} /\ W = {} /\ E = D \cup {m} /\ V = Z \ {m} /\ U = W \cup {m}
    OBVIOUS
<1>2. Mid(g, fs, p, D, Z, W, M)
    <2>1. /\ Mid(f, fs, p, D, X, Y, N) /\ m \in X /\ (local.name \notin N \/ local.name = NoTag)
          /\ g = NewLocal(f, m, local) /\ M = N \cup {local.name} /\ Z = {m} /\ W = {}
        BY <1>1 DEF Joined
    <2> QED
        BY ONLY <2>1, MidGains
<1>3. Gains(f, g, m, local)
    <2>1. Built(f) /\ m \in 1 .. Len(f.blocks)
        BY MidFacts
    <2> QED
        BY <2>1, NewLocalSees
<1>4. m \in Z /\ m \in U
    BY <1>1
<1>5. Mid(g, fs, p, E, V, U, M)
    BY <1>1, <1>2, <1>4, MidRetires
<1>6. /\ Len(f.blocks) = r /\ l \in 1 .. r /\ r \in 1 .. r /\ l # m /\ r # m
      /\ Look(f, l) = <<m, 0, <<>>>> /\ Look(f, r) = <<q, m, <<>>>> /\ f.blocks[m].parent = q
      /\ l \notin D /\ Apart(fs, l) /\ r \notin D /\ Apart(fs, r)
    BY DEF AroundMain, Spare
<1>7. /\ Len(g.blocks) = r /\ Look(g, l) = <<m, 0, <<>>>> /\ Look(g, r) = <<q, m, <<>>>>
      /\ g.blocks[m].parent = q
    BY <1>3, <1>6 DEF Gains
<1>8. l \notin E /\ r \notin E
    BY <1>1, <1>6
<1>9. PICK z, A, B : z = 0 /\ A = V \cup {l} /\ B = A \cup {r}
    OBVIOUS
<1>10. Mid(g, fs, p, E, A, U, M)
    <2>1. /\ Mid(g, fs, p, E, V, U, M) /\ m \in U /\ l \in 1 .. Len(g.blocks) /\ l \notin E /\ Apart(fs, l)
          /\ Look(g, l) = <<m, z, <<>>>> /\ z = 0 /\ A = V \cup {l}
        BY <1>4, <1>5, <1>6, <1>7, <1>8, <1>9
    <2> QED
        BY ONLY <2>1, MidFinds
<1>11. Mid(g, fs, p, E, B, U, M)
    <2>1. /\ Mid(g, fs, p, E, A, U, M) /\ m \in U /\ r \in 1 .. Len(g.blocks) /\ r \notin E /\ Apart(fs, r)
          /\ Look(g, r) = <<q, m, <<>>>> /\ q \in {0, g.blocks[m].parent} /\ B = A \cup {r}
        BY <1>4, <1>6, <1>7, <1>8, <1>9, <1>10
    <2> QED
        BY ONLY <2>1, MidFinds
<1> QED
    BY <1>9, <1>11

LEMMA LoopInSettles ==
    ASSUME EmitInv, Scoped(fn, frames, program), EnterLoopIn
    PROVE  Settled
<1>1. InBody /\ Snt.is = "loop in"
    BY DEF EnterLoopIn, At
<1>2. CASE Fail("error")
    BY <1>2, FailureSettles
<1>3. CASE ~Fail("error")
    <2>1. TagIsFree(Snt.tag) /\ Declares(Snt) = {Snt.tag}
        BY <1>1, <1>3 DEF EnterLoopIn, Declares
    <2>2. PICK b, gs, q, local, X, Y, N :
              /\ b = Here /\ gs = Advanced /\ q = fn.blocks[b].parent /\ local = Local(Snt.tag, "item", Site)
              /\ X = {Here} /\ Y = {} /\ N = Names(frames, program, Len(frames))
        OBVIOUS
    <2>3. /\ \E D : Mid(fn, Advanced, program, D, X, Y, N)
          /\ Snt.tag \notin N \/ Snt.tag = NoTag
          /\ IsSeq(Advanced)
          /\ Names(Advanced, program, Len(Advanced)) = N \cup {Snt.tag}
        BY <1>1, <2>1, <2>2, TagIsNew
    <2>4. PICK D : Mid(fn, gs, program, D, X, Y, N)
        BY <2>2, <2>3
    <2>5. PICK E, V, W : E = D \cup {b} /\ V = X \ {b} /\ W = Y \cup {b}
        OBVIOUS
    <2>6. b \in X /\ b \in W
        BY <2>2, <2>5
    <2>7. Mid(fn, gs, program, E, V, W, N)
        BY ONLY <2>4, <2>5, <2>6, MidRetires
    <2>8. PICK n \in Nat : n = Len(fn.blocks)
        BY <2>7, MidFacts
    <2>9. PICK m, l, c, t, r : m = n + 1 /\ l = n + 2 /\ c = n + 3 /\ t = n + 4 /\ r = n + 5
        OBVIOUS
    <2>10. Fresh(fn, m) /\ l = m + 1 /\ c = l + 1 /\ t = c + 1 /\ r = t + 1 /\ r \in Nat
        <3>1. Fresh(fn, m)
            BY <2>8, <2>9 DEF Fresh
        <3>2. l = m + 1 /\ c = l + 1 /\ t = c + 1 /\ r = t + 1 /\ r \in Nat
            BY <2>9
        <3> QED
            BY <3>1, <3>2
    <2>11. PICK f1, f2, f3, f4, f5 :
               /\ f1 = Link(Create(fn, q), m, b) /\ f2 = Create(f1, m)
               /\ f3 = Link(Create(f2, m), c, l) /\ f4 = Link(Create(f3, m), t, c)
               /\ f5 = Link(Create(f4, q), r, m)
        OBVIOUS
    <2>12. PICK Z : Joined(Z, V, m)
        BY DEF Joined
    <2>13. Mid(f5, gs, program, E, Z, W, N) /\ AroundMain(f5, gs, E, m, l, r, q) /\ m \in Z
        <3>1. q = fn.blocks[b].parent
            BY <2>2
        <3>2. Mid(f5, gs, program, E, Z, W, N)
            BY ONLY <2>6, <2>7, <2>10, <2>11, <2>12, <3>1, LoopInBlocks
        <3>3. AroundMain(f5, gs, E, m, l, r, q)
            BY ONLY <2>6, <2>7, <2>10, <2>11, <2>12, <3>1, LoopInBlocks
        <3> QED
            BY <2>12, <3>2, <3>3 DEF Joined
    <2>14. PICK g1, g2, item : g1 = AddBranch(f5, m) /\ g2 = SetActive(g1, m) /\ item = NewLocal(g2, m, local)
        OBVIOUS
    <2>15. Sees(f5, g1) /\ Sees(g1, g2)
        <3>1. Built(f5) /\ Len(f5.blocks) = r /\ m \in 1 .. r
            BY <2>13 DEF Mid, AroundMain
        <3>2. Sees(f5, g1)
            BY <2>14, <3>1, AddBranchSees
        <3>3. Built(g1) /\ m \in 1 .. Len(g1.blocks)
            BY <3>1, <3>2 DEF Sees
        <3>4. Sees(g1, g2)
            BY <2>14, <3>3, SetActiveSees
        <3> QED
            BY <3>2, <3>4
    <2>16. Mid(g2, gs, program, E, Z, W, N) /\ AroundMain(g2, gs, E, m, l, r, q)
        <3>1. Mid(g1, gs, program, E, Z, W, N)
            BY <2>13, <2>15, MidSees
        <3>2. AroundMain(g1, gs, E, m, l, r, q)
            BY <2>10, <2>13, <2>15, AroundSees
        <3>3. AroundMain(g2, gs, E, m, l, r, q)
            BY <2>10, <2>15, <3>2, AroundSees
        <3> QED
            BY <2>15, <3>1, <3>3, MidSees
    <2>17. local.name = Snt.tag
        BY <2>2 DEF Local
    <2>18. PICK M : Joined(M, N, local.name)
        BY DEF Joined
    <2>19. \E F, A, B : Mid(item, gs, program, F, A, B, M) /\ l \in A /\ r \in A
        <3>1. local.name \notin N \/ local.name = NoTag
            BY <2>3, <2>17
        <3>2. item = NewLocal(g2, m, local) /\ m \in Z /\ r \in Nat
            BY <2>10, <2>13, <2>14
        <3> QED
            BY ONLY <2>16, <2>18, <3>1, <3>2, ItemIsGained, ZenonT(60)
    <2>28. PICK F, A, B : Mid(item, gs, program, F, A, B, M) /\ l \in A /\ r \in A
        BY <2>19
    <2>20. Between(item, gs, program, A, B)
        <3>1. M = Names(gs, program, Len(gs)) /\ IsSeq(gs)
            BY <2>2, <2>3, <2>17, <2>18 DEF Joined
        <3> QED
            BY <2>28, <3>1 DEF Between
    <2>21. PICK x, h1, h2, h3 :
               /\ x = OnLocal("init", Len(item.locals), "")
               /\ h1 = Emit(item, <<CondBr(l, r, "unknown")>>) /\ h2 = SetActive(h1, l) /\ h3 = Emit(h2, <<x>>)
        OBVIOUS
    <2>22. Between(h1, gs, program, A, B)
        <3>1. h1 = Emit(item, <<CondBr(l, r, "unknown")>>)
            BY <2>21
        <3> QED
            BY <2>20, <3>1, BetweenEmits
    <2>23. Between(h2, gs, program, A, B) /\ Current(h2) = l
        <3>1. h2 = SetActive(h1, l) /\ l \in A \cup B
            BY <2>28, <2>21
        <3> QED
            BY <2>22, <3>1, BetweenActivates
    <2>24. Between(h3, gs, program, A, B) /\ Current(h3) = l
        <3>1. h3 = Emit(h2, <<x>>)
            BY <2>21
        <3> QED
            BY <2>23, <3>1, BetweenEmits
    <2>25. PICK a : a = [is |-> "loop in", body |-> l, cond |-> c, true |-> t, rest |-> r]
        OBVIOUS
    <2>26. LoopWaits(a, r)
        BY <2>25, ZenonT(40) DEF LoopWaits, Tips
    <2>27. PICK info, breaks : Open(h3, info, breaks, a)
        <3>1. Created(fn) = n
            BY <2>8 DEF Created
        <3> QED
            BY <1>3, <2>1, <2>2, <2>9, <2>11, <2>14, <2>21, <2>25, <3>1, ZenonT(40) DEF EnterLoopIn
    <2> QED
        <3>1. Between(h3, Advanced, program, A, B) /\ Current(h3) \in A
            BY <2>2, <2>28, <2>24
        <3> QED
            BY <2>28, <2>26, <2>27, <3>1, OpenSettles
<1> QED
    BY <1>2, <1>3

-----------------------------------------------------------------------------
(* The names that are seen are those in scope, in every state.             *)
ScopeInv == phase = "emit" => Scoped(fn, frames, program)

LEMMA EmissionStaysScoped ==
    ASSUME EmitInv, Scoped(fn, frames, program), EmitStep
    PROVE  Settled
<1>1. CASE LocalDeclaration
    BY <1>1, LetSettles
<1>2. CASE UseEntity \/ MoveEntity \/ Assignment
    BY <1>2, UseSettles
<1>3. CASE GiveSentence
    BY <1>3, GiveSettles
<1>4. CASE Break
    BY <1>4, BreakSettles
<1>5. CASE Continue
    BY <1>5, ContinueSettles
<1>6. CASE IfElse \/ MatchSentence
    BY <1>6, IfSettles, MatchSettles
<1>7. CASE EndArm \/ EndElse
    BY <1>7, EndArmSettles, EndElseSettles
<1>8. CASE EnterLoopIf \/ EnterLoopTo \/ EnterLoop \/ EnterLoopIn
    BY <1>8, LoopIfSettles, LoopToSettles, LoopEverSettles, LoopInSettles
<1>9. CASE EndLoopIf \/ EndLoopTo \/ EndLoop \/ EndLoopIn
    BY <1>9, EndLoopIfSettles, EndLoopToSettles, EndLoopEverSettles, EndLoopInSettles
<1>10. CASE EndFunction
    <2>1. Fail("error") \/ phase' = "run"
        BY <1>10 DEF EndFunction
    <2> QED
        BY <2>1 DEF Fail, Settled
<1> QED
    BY <1>1, <1>2, <1>3, <1>4, <1>5, <1>6, <1>7, <1>8, <1>9, <1>10 DEF EmitStep

(* At first the arguments are seen, and nothing else is declared.          *)
LEMMA FirstShows ==
    ASSUME NEW args, IsSeq(args), NEW f, f = WithArgs(args)
    PROVE  Built(f) /\ Current(f) = 1 /\ Len(f.blocks) = 1 /\ Tip(f, {}, 1, ToSet(args))
<1>1. PICK m \in Nat : m = Len(args) /\ DOMAIN args = 1 .. m
    BY SeqFacts
<1>2. PICK ls, vs, code, x : Shaped(args, m, f, ls, vs, code, x)
    BY <1>1, FirstShape
<1>3. /\ ls = [i \in 1 .. m |-> Local(args[i], "argument", NoSite)]
      /\ vs = [i \in 1 .. m |-> i]
      /\ x = [parent |-> 0, previous |-> 0, next |-> 0, active |-> 0, values |-> vs, code |-> code]
    BY <1>2 DEF Shaped
<1>4. f = [blocks |-> <<x>>, locals |-> ls, active |-> 1]
    BY <1>2 DEF Shaped
<1>5. x.parent = 0 /\ x.previous = 0 /\ x.values = vs
    BY <1>3
<1>6. f.blocks = <<x>> /\ f.locals = ls
    BY <1>4
<1>7. f.blocks[1] = x
    BY <1>6, SingletonIsSeq
<1>8. Built(f) /\ Current(f) = 1 /\ Len(f.blocks) = 1
    <2>1. Sum(f, 1, 1, {}, {1}, {})
        BY FirstBlock
    <2> QED
        BY <2>1 DEF Sum
<1>9. Visible(f, 1) = 1 .. m
    <2>1. 1 \in 1 .. Len(f.blocks)
        BY <1>8
    <2>2. Visible(f, 1) = ToSet(f.blocks[1].values) \cup Visible(f, f.blocks[1].previous)
                              \cup Visible(f, f.blocks[1].parent)
        BY <1>8, <2>1, VisibleIs
    <2>3. Visible(f, f.blocks[1].previous) = {} /\ Visible(f, f.blocks[1].parent) = {}
        BY <1>5, <1>7, <1>8, VisibleIs
    <2>4. f.blocks[1].values = vs /\ ToSet(vs) = 1 .. m
        BY <1>3, <1>5, <1>7 DEF ToSet
    <2> QED
        BY <2>2, <2>3, <2>4
<1>10. \A l \in 1 .. m : f.locals[l].name = args[l] /\ f.locals[l].kind = "argument"
    <2>1. ASSUME NEW l \in 1 .. m PROVE f.locals[l] = Local(args[l], "argument", NoSite)
        BY <1>3, <1>6
    <2>2. ASSUME NEW l PROVE Local(args[l], "argument", NoSite).name = args[l]
                             /\ Local(args[l], "argument", NoSite).kind = "argument"
        BY DEF Local
    <2>3. \A l \in 1 .. m : f.locals[l].name = Local(args[l], "argument", NoSite).name
                            /\ f.locals[l].kind = Local(args[l], "argument", NoSite).kind
        BY <2>1
    <2> QED
        BY <2>2, <2>3
<1>11. {f.locals[l].name : l \in 1 .. m} = ToSet(args)
    BY <1>1, <1>10 DEF ToSet
<1>12. Shows(f, 1, ToSet(args))
    BY <1>9, <1>10, <1>11 DEF Shows
<1>13. Into(f, {}, 1)
    BY <1>5, <1>7 DEF Into
<1> QED
    BY <1>8, <1>12, <1>13 DEF Tip

LEMMA BeginsScoped ==
    ASSUME Init
    PROVE  ScopeInv
<1>1. PICK a, x : a = [is |-> "function"] /\ x = Frame(program.body, a)
    OBVIOUS
<1>2. /\ program \in Programs /\ fn = WithArgs(program.args) /\ frames = <<x>>
    BY <1>1 DEF Init
<1>3. IsSeq(program.args)
    BY <1>2, SentencesAssumption DEF IsSeq
<1>4. PICK N, D : N = ToSet(program.args) /\ D = {}
    OBVIOUS
<1>5. Built(fn) /\ Current(fn) = 1 /\ Len(fn.blocks) = 1 /\ Tip(fn, D, 1, N)
    BY <1>2, <1>3, <1>4, FirstShows
<1>6. x.next = 1 /\ x.after = a /\ a.is = "function"
    BY <1>1 DEF Frame
<1>7. Len(frames) = 1 /\ DOMAIN frames = 1 .. 1 /\ frames[1] = x /\ \A i \in 1 .. 1 : i = 1
    BY <1>2, SingletonIsSeq
<1>8. Names(frames, program, Len(frames)) = N
    <2>1. Declared(x) = {}
        BY <1>6, DeclaredNone
    <2>2. \A i \in 1 .. 1 : Declared(frames[i]) = {}
        BY <1>7, <2>1
    <2> QED
        BY <1>4, <1>7, <2>2 DEF Names
<1>9. Under(fn, frames, program, D)
    <2>1. Tips(a) = {}
        BY <1>6 DEF Tips
    <2>2. \A M : Waits(fn, D, a, M)
        BY <1>6, <2>1 DEF Waits
    <2>3. \A i \in DOMAIN frames : frames[i].after = a
        BY <1>6, <1>7
    <2> QED
        BY <1>4, <2>2, <2>3 DEF Under, Shut
<1>10. ScopedBy(fn, frames, program, D)
    BY <1>4, <1>5, <1>8, <1>9 DEF ScopedBy
<1> QED
    BY <1>10 DEF ScopeInv, Scoped

LEMMA StepStaysScoped ==
    ASSUME IInv, ScopeInv, [Next]_vars
    PROVE  ScopeInv'
<1>1. CASE EmitStep
    <2>1. phase = "emit"
        BY <1>1 DEF EmitStep, LocalDeclaration, UseEntity, MoveEntity, Assignment, GiveSentence, Break, Continue,
                    IfElse, MatchSentence, EndArm, EndElse, EnterLoopIf, EnterLoopTo, EnterLoop, EnterLoopIn,
                    EndLoopIf, EndLoopTo, EndLoop, EndLoopIn, EndFunction, At, After, Emitting
    <2>2. EmitInv /\ Scoped(fn, frames, program)
        BY <2>1 DEF IInv, ScopeInv
    <2>3. Settled
        BY <1>1, <2>2, EmissionStaysScoped
    <2> QED
        BY <2>3 DEF Settled, ScopeInv
<1>2. CASE Execute
    BY <1>2 DEF Execute, Running, ScopeInv
<1>3. CASE UNCHANGED vars
    BY <1>3 DEF ScopeInv, vars, emitVars
<1> QED
    BY <1>1, <1>2, <1>3 DEF Next, Finished

LEMMA ScopedGives ==
    ASSUME IInv, ScopeInv
    PROVE  VisibleIsInScope
<1> SUFFICES ASSUME phase = "emit" PROVE /\ {fn.locals[l].name : l \in Visible(fn, Here)} = InScope
                                         /\ \A l, m \in Visible(fn, Here) : fn.locals[l].name = fn.locals[m].name =>
                                              \/ l = m \/ fn.locals[l].name = NoTag
                                              \/ fn.locals[l].kind = "argument" /\ fn.locals[m].kind = "argument"
    BY DEF VisibleIsInScope, Emitting
<1>1. PICK D : ScopedBy(fn, frames, program, D)
    BY DEF ScopeInv, Scoped
<1>2. Shows(fn, Here, Names(frames, program, Len(frames)))
    BY <1>1 DEF ScopedBy, Tip, Here
<1>3. Names(frames, program, Len(frames)) = InScope
    <2>1. EmitInv
        BY DEF IInv
    <2>2. DOMAIN frames = 1 .. Len(frames)
        BY <2>1, FramesFacts DEF EmitInv, Going, Rests, Sound
    <2>3. ToSet(frames) = {frames[i] : i \in 1 .. Len(frames)}
        BY <2>2 DEF ToSet
    <2> QED
        BY <2>3 DEF Names, InScope, Declared
<1> QED
    BY <1>2, <1>3 DEF Shows

(* Wherever the builder stands it sees the names declared before in the    *)
(* bodies around, all of them and no others, and each of one local only:   *)
(* the links that IR::Block::linkPrevBlock and the parents of new blocks   *)
(* make are as has_value and get_value need them, for any function.        *)
THEOREM NamesAreThoseInScope == Spec => []VisibleIsInScope
<1>1. Init => IInv /\ ScopeInv
    BY Begins, BeginsScoped
<1>2. IInv /\ ScopeInv /\ [Next]_vars => (IInv /\ ScopeInv)'
    BY StepKeeps, StepStaysScoped
<1>3. IInv /\ ScopeInv => VisibleIsInScope
    BY ScopedGives
<1> QED
    BY <1>1, <1>2, <1>3, PTL DEF Spec
===============================================================================

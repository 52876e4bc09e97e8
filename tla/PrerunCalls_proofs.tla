-------------------------- MODULE PrerunCalls_proofs --------------------------
(***************************************************************************)
(* Proofs about PrerunCalls, for every set of programs made of well-formed *)
(* sentences: what the scopes of the C++ stack, the records of loops and   *)
(* the PreBlocks of a call have to do with each other.                     *)
(*   CallInv     a call begins with the scope of its function, and the     *)
(*               blocks of its scopes are on the chain of blocks that runs *)
(*               from the root to the active block;                        *)
(*   CallsInv    so for all calls, and the records of every call that is   *)
(*               not being unwound are those of its loops.                 *)
(* An exception leaves the records of the loops it passes behind.  That is *)
(* harmless only because it always ends the call: no loop has a tag, so    *)
(* none catches.                                                           *)
(***************************************************************************)
EXTENDS PrerunCalls, SequenceTheorems, FiniteSetTheorems, WellFoundedInduction,
        TLAPS

-----------------------------------------------------------------------------
(* Facts about sequences, sets of numbers and functions that are recursive *)
(* by a rank, which the proofs below need.                                 *)

(* A sequence, of whatever.                                                *)
IsSeq(s) == s \in Seq(ToSet(s))

(* Length and domain of a sequence.                                        *)
LEMMA SeqFacts ==
    ASSUME NEW s, IsSeq(s)
    PROVE  /\ Len(s) \in Nat
           /\ DOMAIN s = 1 .. Len(s)
           /\ s = <<>> <=> Len(s) = 0
    BY LenProperties, EmptySeq DEF IsSeq

(* The empty sequence is one.                                              *)
LEMMA EmptyIsSeq == IsSeq(<<>>) /\ Len(<<>>) = 0
    BY DEF IsSeq

(* So is every sequence over a set.                                        *)
LEMMA SeqOfIsSeq ==
    ASSUME NEW S, NEW s \in Seq(S)
    PROVE  IsSeq(s)
<1>1. /\ Len(s) \in Nat /\ DOMAIN s = 1 .. Len(s) /\ s \in [1 .. Len(s) -> S]
    BY LenProperties
<1>2. s \in [1 .. Len(s) -> ToSet(s)]
    BY <1>1 DEF ToSet
<1> QED
    BY <1>1, <1>2 DEF IsSeq

(* And the sequence of one element.                                        *)
LEMMA SingletonIsSeq ==
    ASSUME NEW e
    PROVE  IsSeq(<<e>>) /\ Len(<<e>>) = 1 /\ DOMAIN <<e>> = 1 .. 1 /\ <<e>>[1] = e
<1>1. <<e>> \in Seq({e}) /\ Len(<<e>>) = 1 /\ <<e>>[1] = e
    OBVIOUS
<1>2. IsSeq(<<e>>)
    BY <1>1, SeqOfIsSeq
<1> QED
    BY <1>1, <1>2, SeqFacts

(* What Append gives, whatever the elements are.                           *)
LEMMA AppendAny ==
    ASSUME NEW s, IsSeq(s), NEW e
    PROVE  /\ IsSeq(Append(s, e))
           /\ Len(Append(s, e)) = Len(s) + 1
           /\ DOMAIN Append(s, e) = 1 .. Len(s) + 1
           /\ \A i \in 1 .. Len(s) : Append(s, e)[i] = s[i]
           /\ Append(s, e)[Len(s) + 1] = e
<1> DEFINE S == ToSet(s) \cup {e}
<1>1. s \in Seq(S)
    BY SeqMonotonic DEF IsSeq
<1>2. e \in S
    OBVIOUS
<1> HIDE DEF S
<1>3. /\ Append(s, e) \in Seq(S)
      /\ Len(Append(s, e)) = Len(s) + 1
      /\ \A i \in 1 .. Len(s) : Append(s, e)[i] = s[i]
      /\ Append(s, e)[Len(s) + 1] = e
    BY <1>1, <1>2, AppendProperties
<1>4. DOMAIN Append(s, e) = 1 .. Len(s) + 1
    BY <1>3, LenProperties
<1>5. IsSeq(Append(s, e))
    BY <1>3, SeqOfIsSeq
<1> QED
    BY <1>3, <1>4, <1>5

(* What Front leaves, of a sequence that is not empty.                     *)
LEMMA FrontAny ==
    ASSUME NEW s, IsSeq(s), Len(s) # 0
    PROVE  /\ IsSeq(Front(s))
           /\ Len(Front(s)) = Len(s) - 1
           /\ DOMAIN Front(s) = 1 .. Len(s) - 1
           /\ \A i \in 1 .. Len(s) - 1 : Front(s)[i] = s[i]
           /\ Len(s) \in Nat \ {0} /\ Last(s) = s[Len(s)]
<1> DEFINE S == ToSet(s)
<1>1. /\ Len(s) \in Nat /\ DOMAIN s = 1 .. Len(s)
    BY SeqFacts
<1>2. \A i \in 1 .. Len(s) - 1 : s[i] \in S
    BY <1>1 DEF ToSet
<1> HIDE DEF S
<1>3. 1 \in Int /\ Len(s) - 1 \in Int
    BY <1>1
<1> DEFINE n == Len(s) - 1
<1>4. \A i \in 1 .. n : s[i] \in S
    BY <1>2
<1> HIDE DEF n
<1>5. n \in Int
    BY <1>3 DEF n
<1>6. /\ SubSeq(s, 1, n) \in Seq(S)
      /\ Len(SubSeq(s, 1, n)) = IF 1 <= n THEN n - 1 + 1 ELSE 0
      /\ \A i \in 1 .. n - 1 + 1 : SubSeq(s, 1, n)[i] = s[1 + i - 1]
    BY <1>4, <1>5, SubSeqProperties
<1>7. Front(s) = SubSeq(s, 1, n)
    BY DEF Front, n
<1>8. n \in Nat /\ n - 1 + 1 = n /\ \A i \in 1 .. n : 1 + i - 1 = i
    BY <1>1 DEF n
<1>9. /\ Front(s) \in Seq(S) /\ Len(Front(s)) = n
      /\ \A i \in 1 .. n : Front(s)[i] = s[i]
    BY <1>6, <1>7, <1>8
<1>10. DOMAIN Front(s) = 1 .. n
    BY <1>9, LenProperties
<1>11. IsSeq(Front(s))
    BY <1>9, SeqOfIsSeq
<1> QED
    BY <1>1, <1>9, <1>10, <1>11 DEF n, Last

(* What the update of one element changes.                                 *)
LEMMA ExceptAny ==
    ASSUME NEW s, IsSeq(s), NEW i \in DOMAIN s, NEW e
    PROVE  /\ IsSeq([s EXCEPT ![i] = e])
           /\ Len([s EXCEPT ![i] = e]) = Len(s)
           /\ DOMAIN [s EXCEPT ![i] = e] = DOMAIN s
           /\ \A j \in DOMAIN s : [s EXCEPT ![i] = e][j] = IF j = i THEN e ELSE s[j]
<1> DEFINE S == ToSet(s) \cup {e}
<1>1. s \in Seq(S) /\ e \in S /\ i \in 1 .. Len(s) /\ DOMAIN s = 1 .. Len(s)
    BY SeqMonotonic, SeqFacts DEF IsSeq
<1> HIDE DEF S
<1>2. /\ [s EXCEPT ![i] = e] \in Seq(S)
      /\ Len([s EXCEPT ![i] = e]) = Len(s)
      /\ \A j \in 1 .. Len(s) : [s EXCEPT ![i] = e][j] = IF j = i THEN e ELSE s[j]
    BY <1>1, ExceptSeq
<1> QED
    BY <1>1, <1>2, SeqOfIsSeq

(* A set of numbers that is not empty has a least one.                     *)
LEMMA LeastNumber ==
    ASSUME NEW I, I \subseteq Nat, I # {}
    PROVE  \E x \in I : \A y \in I : x <= y
<1> DEFINE R == OpToRel(<, Nat)
<1>1. IsWellFoundedOn(R, Nat)
    BY NatLessThanWellFounded
<1>2. ASSUME NEW x \in I, NEW y \in I, y < x
      PROVE  <<y, x>> \in R
    <2>1. <<y, x>> \in Nat \X Nat /\ <<y, x>>[1] = y /\ <<y, x>>[2] = x
        OBVIOUS
    <2> QED
        BY <1>2, <2>1, Zenon DEF OpToRel
<1> HIDE DEF R
<1>3. PICK x \in I : \A y \in I : ~(<<y, x>> \in R)
    BY <1>1, WFMin
<1>4. \A y \in I : ~(y < x)
    BY <1>2, <1>3, Zenon
<1> QED
    BY <1>3, <1>4

-----------------------------------------------------------------------------
(* A call, a scope and a block have these fields and no others.            *)
CallFields(c) ==
    c = [fn |-> c.fn, argument |-> c.argument, scopes |-> c.scopes, loopsInfo |-> c.loopsInfo, blocks |-> c.blocks,
         activeBlock |-> c.activeBlock, result |-> c.result]
ScopeFields(s) ==
    s = [at |-> s.at, block |-> s.block, rest |-> s.rest, times |-> s.times, loop |-> s.loop]

(* d is the call with these fields.                                        *)
HasFields(d, fn, scopes, loopsInfo, blocks, activeBlock) ==
    /\ CallFields(d)
    /\ d.fn = fn /\ d.scopes = scopes /\ d.loopsInfo = loopsInfo /\ d.blocks = blocks
    /\ d.activeBlock = activeBlock

(* What is left in a scope are sentences, and the loop of a loop is one.   *)
IsScope(s) ==
    /\ ScopeFields(s)
    /\ s.rest \in Seq(Sentences)
    /\ s.at \in {"function", "if", "loop"}
    /\ s.at = "loop" => s.loop \in Sentences /\ s.loop.is = "loop"

IsBlocks(bs) ==
    /\ IsSeq(bs)
    /\ \A b \in DOMAIN bs :
          bs[b] \in [previous : 0 .. Len(bs), next : 0 .. Len(bs)]

(* The blocks of P are a chain from the root, linked both ways.            *)
Chain(bs, P) ==
    /\ P \subseteq DOMAIN bs /\ 1 \in P
    /\ \A p \in P \ {1} :
          /\ bs[p].previous \in P /\ bs[p].previous < p
          /\ bs[bs[p].previous].next = p

(* The active block ends such a chain, and the blocks of the scopes are on *)
(* it, those of outer scopes first.                                        *)
OnChain(c, P) ==
    /\ Chain(c.blocks, P)
    /\ c.activeBlock \in P /\ \A p \in P : p <= c.activeBlock
    /\ \A j \in DOMAIN c.scopes : c.scopes[j].block \in P
    /\ \A j, k \in DOMAIN c.scopes : j <= k => c.scopes[j].block <= c.scopes[k].block

CallInv(c) ==
    /\ CallFields(c)
    /\ IsSeq(c.scopes) /\ Len(c.scopes) # 0 /\ IsSeq(c.loopsInfo) /\ IsBlocks(c.blocks)
    /\ \A j \in DOMAIN c.scopes :
          IsScope(c.scopes[j]) /\ (c.scopes[j].at = "function" <=> j = 1)
    /\ \E P : OnChain(c, P)

CallsInv ==
    /\ program \in Programs
    /\ IsSeq(calls) /\ (Running => Len(calls) # 0)
    /\ \A i \in DOMAIN calls : CallInv(calls[i])
    /\ \A i \in DOMAIN calls : i < Len(calls) \/ thrown = NoThrow => RecordsMatch(calls[i])

-----------------------------------------------------------------------------
(* The update of one field leaves the others.                              *)
LEMMA CallExcept ==
    ASSUME NEW c, CallFields(c), NEW x
    PROVE  /\ HasFields([c EXCEPT !.scopes = x], c.fn, x, c.loopsInfo, c.blocks, c.activeBlock)
           /\ HasFields([c EXCEPT !.loopsInfo = x], c.fn, c.scopes, x, c.blocks, c.activeBlock)
           /\ HasFields([c EXCEPT !.blocks = x], c.fn, c.scopes, c.loopsInfo, x, c.activeBlock)
           /\ HasFields([c EXCEPT !.activeBlock = x], c.fn, c.scopes, c.loopsInfo, c.blocks, x)
           /\ HasFields([c EXCEPT !.result = x], c.fn, c.scopes, c.loopsInfo, c.blocks, c.activeBlock)
    BY DEF CallFields, HasFields

LEMMA ScopeExcept ==
    ASSUME NEW s, ScopeFields(s), NEW x
    PROVE  /\ ScopeFields([s EXCEPT !.rest = x]) /\ [s EXCEPT !.rest = x].at = s.at
           /\ [s EXCEPT !.rest = x].block = s.block /\ [s EXCEPT !.rest = x].loop = s.loop
           /\ [s EXCEPT !.rest = x].rest = x
           /\ ScopeFields([s EXCEPT !.times = x]) /\ [s EXCEPT !.times = x].at = s.at
           /\ [s EXCEPT !.times = x].block = s.block /\ [s EXCEPT !.times = x].loop = s.loop
           /\ [s EXCEPT !.times = x].rest = s.rest
    BY DEF ScopeFields

(* The two of them that a loop's step is made of.                          *)
LEMMA CallExceptLoops ==
    ASSUME NEW c, CallFields(c), NEW x
    PROVE  HasFields([c EXCEPT !.loopsInfo = x], c.fn, c.scopes, x, c.blocks, c.activeBlock)
    BY CallExcept

LEMMA ScopeExceptRest ==
    ASSUME NEW s, ScopeFields(s), NEW x
    PROVE  /\ ScopeFields([s EXCEPT !.rest = x]) /\ [s EXCEPT !.rest = x].at = s.at
           /\ [s EXCEPT !.rest = x].block = s.block /\ [s EXCEPT !.rest = x].loop = s.loop
           /\ [s EXCEPT !.rest = x].rest = x
    BY ScopeExcept

-----------------------------------------------------------------------------
(* The blocks of WithBlockAfter.                                           *)
BlocksAfter(bs, b) ==
    Append([bs EXCEPT ![b].next = Len(bs) + 1], [previous |-> b, next |-> 0])

LEMMA BlockFields ==
    ASSUME NEW c, CallFields(c), NEW b
    PROVE  HasFields(WithBlockAfter(c, b), c.fn, c.scopes, c.loopsInfo, BlocksAfter(c.blocks, b), Len(c.blocks) + 1)
<1> DEFINE new == Len(c.blocks) + 1
           x == BlocksAfter(c.blocks, b)
           d == [c EXCEPT !.blocks = x]
<1>1. WithBlockAfter(c, b) = [d EXCEPT !.activeBlock = new]
    BY DEF WithBlockAfter, BlocksAfter
<1> HIDE DEF new, x
<1>2. HasFields(d, c.fn, c.scopes, c.loopsInfo, x, c.activeBlock)
    BY CallExcept
<1> HIDE DEF d
<1>3. HasFields([d EXCEPT !.activeBlock = new], d.fn, d.scopes, d.loopsInfo, d.blocks, new)
    <2>1. CallFields(d)
        BY <1>2 DEF HasFields
    <2> QED
        BY <2>1, CallExcept
<1> QED
    BY <1>1, <1>2, <1>3 DEF HasFields, new, x

(* A block after one of the chain: the chain up to there, and the new one. *)
LEMMA ChainGrows ==
    ASSUME NEW bs, IsBlocks(bs), NEW P, Chain(bs, P), NEW b \in P
    PROVE  /\ IsBlocks(BlocksAfter(bs, b))
           /\ LET Q == {p \in P : p <= b} \cup {Len(bs) + 1}
              IN  Chain(BlocksAfter(bs, b), Q) /\ \A p \in Q : p <= Len(bs) + 1
<1> DEFINE n == Len(bs)
           m == n + 1
           e == [bs[b] EXCEPT !.next = m]
           mid == [bs EXCEPT ![b] = e]
           new == [previous |-> b, next |-> 0]
           all == BlocksAfter(bs, b)
           Q == {p \in P : p <= b} \cup {m}
<1>1. n \in Nat /\ DOMAIN bs = 1 .. n /\ b \in 1 .. n
    BY SeqFacts DEF IsBlocks, Chain
<1>2. all = Append(mid, new)
    BY DEF BlocksAfter
<1>3. IsSeq(mid) /\ Len(mid) = n /\ \A j \in 1 .. n : mid[j] = IF j = b THEN e ELSE bs[j]
    <2> HIDE DEF e
    <2> QED
        BY <1>1, ExceptAny DEF IsBlocks
<1>4. /\ IsSeq(all) /\ Len(all) = m /\ DOMAIN all = 1 .. m
      /\ \A j \in 1 .. n : all[j] = IF j = b THEN e ELSE bs[j]
      /\ all[m] = new
    <2> HIDE DEF mid, new, all, e
    <2> QED
        BY <1>1, <1>2, <1>3, AppendAny
<1>5. \A j \in 1 .. n : bs[j] \in [previous : 0 .. n, next : 0 .. n]
    BY <1>1 DEF IsBlocks
<1>6. e.previous = bs[b].previous /\ e.next = m /\ e \in [previous : 0 .. m, next : 0 .. m]
    BY <1>1, <1>5
<1>7. IsBlocks(all)
    <2>1. \A j \in 1 .. n : bs[j] \in [previous : 0 .. m, next : 0 .. m]
        BY <1>1, <1>5
    <2>2. new \in [previous : 0 .. m, next : 0 .. m]
        BY <1>1
    <2> HIDE DEF all, new, e
    <2>3. ASSUME NEW j \in 1 .. m
          PROVE  all[j] \in [previous : 0 .. m, next : 0 .. m]
        <3>1. j \in 1 .. n \/ j = m
            BY <1>1
        <3> QED
            BY <1>4, <1>6, <2>1, <2>2, <3>1
    <2> QED
        BY <1>4, <2>3 DEF IsBlocks
<1>8. \A p \in Q : p <= m
    BY <1>1 DEF Chain
<1>9. Chain(all, Q)
    <2>1. Q \subseteq 1 .. m /\ 1 \in Q
        BY <1>1 DEF Chain
    <2>2. ASSUME NEW p \in Q \ {1}
          PROVE  /\ all[p].previous \in Q /\ all[p].previous < p
                 /\ all[all[p].previous].next = p
        <3>1. CASE p = m
            <4>1. all[p].previous = b
                BY <1>4, <3>1
            <4>2. all[b].next = m /\ b \in Q /\ b < m
                BY <1>1, <1>4, <1>6
            <4> QED
                BY <3>1, <4>1, <4>2
        <3>2. CASE p # m
            <4>1. p \in P \ {1} /\ p <= b /\ p \in 1 .. n
                BY <1>1, <2>2, <3>2 DEF Chain
            <4> DEFINE q == bs[p].previous
            <4>2. q \in P /\ q < p /\ bs[q].next = p /\ q \in 1 .. n
                BY <1>1, <4>1 DEF Chain
            <4>3. all[p].previous = q
                BY <1>4, <1>6, <4>1
            <4> HIDE DEF q
            <4>4. q \in Q /\ q # b
                BY <1>1, <4>1, <4>2
            <4>5. all[q].next = p
                BY <1>4, <4>2, <4>4
            <4> QED
                BY <4>2, <4>3, <4>4, <4>5
        <3> QED
            BY <3>1, <3>2
    <2> HIDE DEF Q, all
    <2> QED
        BY <1>4, <2>1, <2>2 DEF Chain
<1> QED
    BY <1>7, <1>8, <1>9

-----------------------------------------------------------------------------
(* The loops up to a scope: how many there are is a number that grows.     *)
LEMMA LoopsCounted ==
    ASSUME NEW s, NEW j \in Nat
    PROVE  /\ IsFiniteSet(LoopsUpTo(s, j)) /\ Cardinality(LoopsUpTo(s, j)) \in Nat
           /\ \A i \in 1 .. j :
                 /\ Cardinality(LoopsUpTo(s, i)) <= Cardinality(LoopsUpTo(s, j))
                 /\ i \in LoopsUpTo(s, j) => Cardinality(LoopsUpTo(s, i)) \in Nat \ {0}
           /\ LoopsUpTo(s, j + 1) = IF s[j + 1].at = "loop" THEN LoopsUpTo(s, j) \cup {j + 1}
                                    ELSE LoopsUpTo(s, j)
           /\ Cardinality(LoopsUpTo(s, j + 1)) =
                 Cardinality(LoopsUpTo(s, j)) + (IF s[j + 1].at = "loop" THEN 1 ELSE 0)
<1>1. ASSUME NEW i \in Nat
      PROVE  /\ IsFiniteSet(LoopsUpTo(s, i)) /\ Cardinality(LoopsUpTo(s, i)) \in Nat
             /\ i \in LoopsUpTo(s, i) => Cardinality(LoopsUpTo(s, i)) # 0
    <2>1. LoopsUpTo(s, i) \subseteq 1 .. i
        BY DEF LoopsUpTo
    <2>2. IsFiniteSet(1 .. i)
        BY FS_Interval
    <2>3. IsFiniteSet(LoopsUpTo(s, i))
        BY <2>1, <2>2, FS_Subset
    <2> QED
        BY <2>3, FS_CardinalityType, FS_EmptySet
<1>2. ASSUME NEW i \in 1 .. j
      PROVE  /\ Cardinality(LoopsUpTo(s, i)) <= Cardinality(LoopsUpTo(s, j))
             /\ i \in LoopsUpTo(s, j) => Cardinality(LoopsUpTo(s, i)) \in Nat \ {0}
    <2>1. LoopsUpTo(s, i) \subseteq LoopsUpTo(s, j)
        BY DEF LoopsUpTo
    <2>2. i \in LoopsUpTo(s, j) => i \in LoopsUpTo(s, i)
        BY DEF LoopsUpTo
    <2> QED
        BY <1>1, <2>1, <2>2, FS_Subset
<1>3. LoopsUpTo(s, j + 1) = IF s[j + 1].at = "loop" THEN LoopsUpTo(s, j) \cup {j + 1}
                            ELSE LoopsUpTo(s, j)
    <2>1. \A i : i \in 1 .. j + 1 <=> i \in 1 .. j \/ i = j + 1
        OBVIOUS
    <2> QED
        BY <2>1 DEF LoopsUpTo
<1>4. j + 1 \notin LoopsUpTo(s, j)
    BY DEF LoopsUpTo
<1>5. Cardinality(LoopsUpTo(s, j) \cup {j + 1}) = Cardinality(LoopsUpTo(s, j)) + 1
    BY <1>1, <1>4, FS_AddElement
<1> QED
    BY <1>1, <1>2, <1>3, <1>5

(* The loops of scopes that agree are the same.                            *)
LEMMA LoopsAgree ==
    ASSUME NEW s, NEW t, NEW n \in Nat, \A j \in 1 .. n : t[j].at = s[j].at
    PROVE  \A j \in 0 .. n : LoopsUpTo(t, j) = LoopsUpTo(s, j)
    BY DEF LoopsUpTo

(* Records of loops do not change with anything else in the scopes.        *)
LEMMA RecordsKept ==
    ASSUME NEW c, RecordsMatch(c), NEW d, d.loopsInfo = c.loopsInfo,
           Len(c.scopes) \in Nat, Len(d.scopes) = Len(c.scopes),
           \A j \in 1 .. Len(c.scopes) :
              d.scopes[j].at = c.scopes[j].at /\ d.scopes[j].loop = c.scopes[j].loop
    PROVE  RecordsMatch(d)
<1> DEFINE n == Len(c.scopes)
<1>1. \A j \in 0 .. n : LoopsUpTo(d.scopes, j) = LoopsUpTo(c.scopes, j)
    BY LoopsAgree
<1>2. LoopsUpTo(c.scopes, n) \subseteq 1 .. n
    BY DEF LoopsUpTo
<1> HIDE DEF n
<1> QED
    BY <1>1, <1>2 DEF RecordsMatch, n

(* A scope more: a record more if it is a loop.                            *)
LEMMA RecordsPushed ==
    ASSUME NEW c, RecordsMatch(c), IsSeq(c.scopes), IsSeq(c.loopsInfo), NEW s, NEW d,
           d.scopes = Append(c.scopes, s),
           d.loopsInfo = IF s.at = "loop" THEN Append(c.loopsInfo, s.loop.tag) ELSE c.loopsInfo
    PROVE  RecordsMatch(d)
<1> DEFINE n == Len(c.scopes)
           old(j) == LoopsUpTo(c.scopes, j)
           new(j) == LoopsUpTo(d.scopes, j)
           k == Len(c.loopsInfo)
<1>1. n \in Nat /\ Len(d.scopes) = n + 1 /\ d.scopes[n + 1] = s
      /\ \A j \in 1 .. n : d.scopes[j] = c.scopes[j]
    BY SeqFacts, AppendAny
<1>2. \A j \in 0 .. n : new(j) = old(j)
    BY <1>1, LoopsAgree
<1>3. k = Cardinality(old(n)) /\ \A j \in old(n) : c.loopsInfo[Cardinality(old(j))] = c.scopes[j].loop.tag
    BY DEF RecordsMatch
<1>4. k \in Nat /\ old(n) \subseteq 1 .. n
    BY SeqFacts DEF LoopsUpTo
<1>5. \A j \in old(n) : Cardinality(old(j)) \in 1 .. k
    <2>1. \A j \in 1 .. n : /\ Cardinality(old(j)) <= Cardinality(old(n))
                            /\ j \in old(n) => Cardinality(old(j)) \in Nat \ {0}
        BY <1>1, LoopsCounted
    <2> HIDE DEF old, k, n
    <2> QED
        BY <1>3, <1>4, <2>1
<1>6. /\ new(n + 1) = IF s.at = "loop" THEN new(n) \cup {n + 1} ELSE new(n)
      /\ Cardinality(new(n + 1)) = Cardinality(new(n)) + (IF s.at = "loop" THEN 1 ELSE 0)
    BY <1>1, LoopsCounted
<1>7. new(n) = old(n)
    BY <1>1, <1>2
<1>8. CASE s.at = "loop"
    <2>1. /\ Len(d.loopsInfo) = k + 1 /\ d.loopsInfo[k + 1] = s.loop.tag
          /\ \A j \in 1 .. k : d.loopsInfo[j] = c.loopsInfo[j]
        BY <1>8, AppendAny
    <2>2. Len(d.loopsInfo) = Cardinality(new(n + 1)) /\ Cardinality(new(n + 1)) = k + 1
        BY <1>3, <1>6, <1>7, <1>8, <2>1
    <2>3. ASSUME NEW j \in new(n + 1)
          PROVE  d.loopsInfo[Cardinality(new(j))] = d.scopes[j].loop.tag
        <3>1. CASE j \in old(n)
            <4>1. new(j) = old(j) /\ d.scopes[j] = c.scopes[j]
                BY <1>1, <1>2, <1>4, <3>1
            <4> HIDE DEF new, old, k, n
            <4> QED
                BY <1>3, <1>5, <2>1, <3>1, <4>1
        <3>2. CASE j = n + 1
            <4> HIDE DEF new, old, k, n
            <4> QED
                BY <1>1, <2>1, <2>2, <3>2
        <3> HIDE DEF new, old, k, n
        <3> QED
            BY <1>6, <1>7, <1>8, <2>3, <3>1, <3>2
    <2> QED
        BY <1>1, <2>2, <2>3 DEF RecordsMatch
<1>9. CASE s.at # "loop"
    <2>1. Len(d.loopsInfo) = Cardinality(new(n + 1)) /\ new(n + 1) = old(n)
        BY <1>3, <1>6, <1>7, <1>9
    <2>2. ASSUME NEW j \in new(n + 1)
          PROVE  d.loopsInfo[Cardinality(new(j))] = d.scopes[j].loop.tag
        <3>1. new(j) = old(j) /\ d.scopes[j] = c.scopes[j] /\ j \in old(n)
            BY <1>1, <1>2, <1>4, <2>1, <2>2
        <3> QED
            BY <1>3, <1>9, <3>1
    <2> QED
        BY <1>1, <2>1, <2>2 DEF RecordsMatch
<1> QED
    BY <1>8, <1>9

(* A scope less, and its record if it is a loop.                           *)
LEMMA RecordsPopped ==
    ASSUME NEW c, RecordsMatch(c), IsSeq(c.scopes), Len(c.scopes) # 0, IsSeq(c.loopsInfo), NEW d,
           d.scopes = Front(c.scopes),
           d.loopsInfo = IF Last(c.scopes).at = "loop" THEN Front(c.loopsInfo) ELSE c.loopsInfo
    PROVE  RecordsMatch(d) /\ IsSeq(d.loopsInfo)
<1> DEFINE n == Len(c.scopes) - 1
           old(j) == LoopsUpTo(c.scopes, j)
           new(j) == LoopsUpTo(d.scopes, j)
           k == Len(c.loopsInfo)
           s == Last(c.scopes)
<1>1. /\ n \in Nat /\ Len(c.scopes) = n + 1 /\ Len(d.scopes) = n /\ c.scopes[n + 1] = s
      /\ \A j \in 1 .. n : d.scopes[j] = c.scopes[j]
    BY SeqFacts, FrontAny
<1>2. \A j \in 0 .. n : new(j) = old(j)
    BY <1>1, LoopsAgree
<1>3. k = Cardinality(old(n + 1)) /\ \A j \in old(n + 1) : c.loopsInfo[Cardinality(old(j))] = c.scopes[j].loop.tag
    BY <1>1 DEF RecordsMatch
<1>4. k \in Nat /\ old(n) \subseteq 1 .. n
    BY SeqFacts DEF LoopsUpTo
<1>5. /\ old(n + 1) = IF s.at = "loop" THEN old(n) \cup {n + 1} ELSE old(n)
      /\ k = Cardinality(old(n)) + (IF s.at = "loop" THEN 1 ELSE 0)
      /\ Cardinality(old(n)) \in Nat
    BY <1>1, <1>3, LoopsCounted
<1>6. \A j \in old(n) : Cardinality(old(j)) \in 1 .. Cardinality(old(n))
    <2>1. \A j \in 1 .. n : /\ Cardinality(old(j)) <= Cardinality(old(n))
                            /\ j \in old(n) => Cardinality(old(j)) \in Nat \ {0}
        BY <1>1, LoopsCounted
    <2> HIDE DEF old, k, n
    <2> QED
        BY <1>4, <1>5, <2>1
<1>7. new(n) = old(n)
    BY <1>1, <1>2
<1>8. /\ IsSeq(d.loopsInfo) /\ Len(d.loopsInfo) = Cardinality(old(n))
      /\ \A j \in 1 .. Cardinality(old(n)) : d.loopsInfo[j] = c.loopsInfo[j]
    <2>1. CASE s.at = "loop"
        <3>1. /\ IsSeq(Front(c.loopsInfo)) /\ Len(Front(c.loopsInfo)) = k - 1
              /\ \A j \in 1 .. k - 1 : Front(c.loopsInfo)[j] = c.loopsInfo[j]
            <4>1. k # 0
                BY <1>5, <2>1
            <4> QED
                BY <4>1, FrontAny
        <3>2. Cardinality(old(n)) = k - 1
            BY <1>5, <2>1
        <3> QED
            BY <2>1, <3>1, <3>2
    <2>2. CASE s.at # "loop"
        BY <1>5, <2>2
    <2> QED
        BY <2>1, <2>2
<1>9. ASSUME NEW j \in new(n)
      PROVE  d.loopsInfo[Cardinality(new(j))] = d.scopes[j].loop.tag
    <2>1. j \in old(n) /\ new(j) = old(j) /\ d.scopes[j] = c.scopes[j] /\ j \in old(n + 1)
        BY <1>1, <1>2, <1>4, <1>5, <1>7
    <2> HIDE DEF old, new, k, n
    <2> QED
        BY <1>3, <1>6, <1>8, <2>1
<1> QED
    BY <1>1, <1>7, <1>8, <1>9 DEF RecordsMatch

-----------------------------------------------------------------------------
(* The innermost scope of a call, and the blocks it ends.                  *)
LEMMA CallFacts ==
    ASSUME NEW c, CallInv(c)
    PROVE  /\ Len(c.scopes) \in Nat \ {0} /\ DOMAIN c.scopes = 1 .. Len(c.scopes)
           /\ Last(c.scopes) = c.scopes[Len(c.scopes)] /\ Len(c.scopes) \in DOMAIN c.scopes
           /\ IsScope(Last(c.scopes))
           /\ Last(c.scopes).at = "function" <=> Len(c.scopes) = 1
<1>1. Len(c.scopes) \in Nat \ {0} /\ DOMAIN c.scopes = 1 .. Len(c.scopes)
    BY SeqFacts DEF CallInv
<1>2. Last(c.scopes) = c.scopes[Len(c.scopes)] /\ Len(c.scopes) \in DOMAIN c.scopes
    BY <1>1 DEF Last
<1> QED
    BY <1>1, <1>2 DEF CallInv

(* Another innermost scope of the same kind, with the same block and loop. *)
LEMMA SameScope ==
    ASSUME NEW c, CallInv(c), NEW s, IsScope(s), NEW d,
           s.at = Last(c.scopes).at, s.block = Last(c.scopes).block, s.loop = Last(c.scopes).loop,
           HasFields(d, c.fn, [c.scopes EXCEPT ![Len(c.scopes)] = s], c.loopsInfo, c.blocks, c.activeBlock)
    PROVE  CallInv(d) /\ (RecordsMatch(c) => RecordsMatch(d))
<1> DEFINE n == Len(c.scopes)
<1>1. /\ n \in Nat \ {0} /\ DOMAIN c.scopes = 1 .. n /\ Last(c.scopes) = c.scopes[n] /\ n \in DOMAIN c.scopes
    BY CallFacts
<1>2. /\ IsSeq(d.scopes) /\ Len(d.scopes) = n /\ DOMAIN d.scopes = 1 .. n
      /\ \A j \in 1 .. n : d.scopes[j] = IF j = n THEN s ELSE c.scopes[j]
    BY <1>1, ExceptAny DEF CallInv, HasFields
<1>3. \A j \in 1 .. n : /\ d.scopes[j].at = c.scopes[j].at /\ d.scopes[j].block = c.scopes[j].block
                        /\ d.scopes[j].loop = c.scopes[j].loop /\ IsScope(d.scopes[j])
    BY <1>1, <1>2 DEF CallInv
<1>4. RecordsMatch(c) => RecordsMatch(d)
    BY <1>1, <1>2, <1>3, RecordsKept DEF HasFields
<1>5. PICK P : OnChain(c, P)
    BY DEF CallInv
<1>6. OnChain(d, P)
    BY <1>1, <1>2, <1>3, <1>5 DEF OnChain, HasFields
<1> QED
    BY <1>1, <1>2, <1>3, <1>4, <1>6 DEF CallInv, HasFields

(* A scope more, in a block after the active one.                          *)
LEMMA ScopeEntered ==
    ASSUME NEW c, CallInv(c), NEW s, IsScope(s), s.at # "function", s.block = Len(c.blocks) + 1, NEW d,
           HasFields(d, c.fn, Append(c.scopes, s),
                     IF s.at = "loop" THEN Append(c.loopsInfo, s.loop.tag) ELSE c.loopsInfo,
                     BlocksAfter(c.blocks, c.activeBlock), Len(c.blocks) + 1)
    PROVE  CallInv(d) /\ (RecordsMatch(c) => RecordsMatch(d))
<1> DEFINE n == Len(c.scopes)
           m == Len(c.blocks) + 1
<1>1. n \in Nat \ {0} /\ DOMAIN c.scopes = 1 .. n
    BY CallFacts
<1>2. /\ IsSeq(d.scopes) /\ Len(d.scopes) = n + 1 /\ DOMAIN d.scopes = 1 .. n + 1
      /\ \A j \in 1 .. n : d.scopes[j] = c.scopes[j]
      /\ d.scopes[n + 1] = s
    BY AppendAny DEF CallInv, HasFields
<1>3. RecordsMatch(c) => RecordsMatch(d)
    BY RecordsPushed DEF HasFields, CallInv
<1>4. IsSeq(d.loopsInfo)
    BY AppendAny DEF CallInv, HasFields
<1>5. PICK P : OnChain(c, P)
    BY DEF CallInv
<1> DEFINE Q == {p \in P : p <= c.activeBlock} \cup {m}
<1>6. IsBlocks(d.blocks) /\ Chain(d.blocks, Q) /\ \A p \in Q : p <= m
    <2>1. IsBlocks(c.blocks) /\ Chain(c.blocks, P) /\ c.activeBlock \in P
        BY <1>5 DEF OnChain, CallInv
    <2>2. d.blocks = BlocksAfter(c.blocks, c.activeBlock)
        BY DEF HasFields
    <2>3. /\ IsBlocks(BlocksAfter(c.blocks, c.activeBlock))
          /\ Chain(BlocksAfter(c.blocks, c.activeBlock), Q) /\ \A p \in Q : p <= m
        BY <2>1, ChainGrows
    <2> QED
        BY <2>2, <2>3
<1>7. P \subseteq Q /\ m \in Q
    BY <1>5 DEF OnChain
<1>8. \A j \in 1 .. n : c.scopes[j].block \in P /\ \A k \in 1 .. n : j <= k => c.scopes[j].block <= c.scopes[k].block
    BY <1>1, <1>5 DEF OnChain
<1>9. d.activeBlock = m /\ d.scopes[n + 1].block = m
    BY <1>2 DEF HasFields
<1>10. \A j \in 1 .. n + 1 : j \in 1 .. n \/ j = n + 1
    BY <1>1
<1>11. m <= m
    <2>1. m \in Nat
        BY SeqFacts DEF CallInv, IsBlocks
    <2> QED
        BY <2>1
<1>12. OnChain(d, Q)
    <2> HIDE DEF Q, m, n
    <2>1. \A j \in 1 .. n + 1 : d.scopes[j].block \in Q
        BY <1>2, <1>7, <1>8, <1>9, <1>10
    <2>2. ASSUME NEW j \in 1 .. n + 1, NEW k \in 1 .. n + 1, j <= k
          PROVE  d.scopes[j].block <= d.scopes[k].block
        <3>1. CASE k = n + 1
            BY <1>6, <1>9, <2>1, <3>1
        <3>2. CASE k # n + 1
            <4>1. j \in 1 .. n /\ k \in 1 .. n
                BY <1>1, <2>2, <3>2
            <4> QED
                BY <1>2, <1>8, <2>2, <4>1
        <3> QED
            BY <3>1, <3>2
    <2> QED
        BY <1>2, <1>6, <1>7, <1>9, <2>1, <2>2 DEF OnChain
<1>13. \A j \in 1 .. n + 1 : IsScope(d.scopes[j]) /\ (d.scopes[j].at = "function" <=> j = 1)
    <2>1. ASSUME NEW j \in 1 .. n
          PROVE  IsScope(d.scopes[j]) /\ (d.scopes[j].at = "function" <=> j = 1)
        BY <1>1, <1>2 DEF CallInv
    <2>2. IsScope(d.scopes[n + 1]) /\ (d.scopes[n + 1].at = "function" <=> n + 1 = 1)
        BY <1>1, <1>2
    <2> QED
        BY <1>10, <2>1, <2>2
<1> QED
    BY <1>1, <1>2, <1>3, <1>4, <1>6, <1>12, <1>13 DEF CallInv, HasFields

(* A scope less: Leave, which takes its record too and makes a block after *)
(* its block, and the passing of an exception, which does neither.         *)
LEMMA ScopeDropped ==
    ASSUME NEW c, CallInv(c), Last(c.scopes).at # "function", NEW d,
           CallFields(d), d.scopes = Front(c.scopes), IsSeq(d.loopsInfo),
           \/ d.blocks = c.blocks /\ d.activeBlock = c.activeBlock
           \/ /\ d.blocks = BlocksAfter(c.blocks, Last(c.scopes).block)
              /\ d.activeBlock = Len(c.blocks) + 1
    PROVE  CallInv(d)
<1> DEFINE n == Len(c.scopes) - 1
           m == Len(c.blocks) + 1
           b == Last(c.scopes).block
<1>1. n \in Nat \ {0} /\ Len(c.scopes) = n + 1 /\ DOMAIN c.scopes = 1 .. n + 1 /\ Last(c.scopes) = c.scopes[n + 1]
    BY CallFacts
<1>2. /\ IsSeq(d.scopes) /\ Len(d.scopes) = n /\ DOMAIN d.scopes = 1 .. n
      /\ \A j \in 1 .. n : d.scopes[j] = c.scopes[j]
    BY <1>1, FrontAny DEF CallInv
<1>3. \A j \in 1 .. n : IsScope(d.scopes[j]) /\ (d.scopes[j].at = "function" <=> j = 1)
    BY <1>1, <1>2 DEF CallInv
<1>4. PICK P : OnChain(c, P)
    BY DEF CallInv
<1>5. /\ \A j \in 1 .. n : d.scopes[j].block \in P /\ d.scopes[j].block <= b
      /\ \A j, k \in 1 .. n : j <= k => d.scopes[j].block <= d.scopes[k].block
      /\ b \in P
    <2>1. \A j \in 1 .. n : j \in 1 .. n + 1 /\ j <= n + 1
        BY <1>1
    <2>2. n + 1 \in 1 .. n + 1
        BY <1>1
    <2> QED
        BY <1>1, <1>2, <1>4, <2>1, <2>2 DEF OnChain
<1>6. ASSUME d.blocks = c.blocks, d.activeBlock = c.activeBlock
      PROVE  IsBlocks(d.blocks) /\ OnChain(d, P)
    BY <1>2, <1>4, <1>5, <1>6 DEF OnChain, CallInv
<1>7. ASSUME d.blocks = BlocksAfter(c.blocks, b), d.activeBlock = m
      PROVE  IsBlocks(d.blocks) /\ OnChain(d, {p \in P : p <= b} \cup {m})
    <2> DEFINE Q == {p \in P : p <= b} \cup {m}
    <2>1. IsBlocks(d.blocks) /\ Chain(d.blocks, Q) /\ \A p \in Q : p <= m
        <3> HIDE DEF b
        <3>1. IsBlocks(c.blocks) /\ Chain(c.blocks, P) /\ b \in P
            BY <1>4, <1>5 DEF OnChain, CallInv
        <3>2. /\ IsBlocks(BlocksAfter(c.blocks, b)) /\ Chain(BlocksAfter(c.blocks, b), Q)
              /\ \A p \in Q : p <= m
            BY <3>1, ChainGrows
        <3> QED
            BY <1>7, <3>2
    <2>2. \A j \in 1 .. n : d.scopes[j].block \in Q
        BY <1>5
    <2>3. m \in Q
        OBVIOUS
    <2>4. \A j, k \in 1 .. n : j <= k => d.scopes[j].block <= d.scopes[k].block
        BY <1>5
    <2> HIDE DEF Q, m, n, b
    <2>5. OnChain(d, Q)
        BY <1>2, <1>7, <2>1, <2>2, <2>3, <2>4 DEF OnChain
    <2> QED
        BY <2>1, <2>5 DEF Q
<1>8. IsBlocks(d.blocks) /\ \E Q : OnChain(d, Q)
    BY <1>6, <1>7
<1> QED
    BY <1>1, <1>2, <1>3, <1>8 DEF CallInv

(* A call that begins.                                                     *)
LEMMA CallBegins ==
    ASSUME program \in Programs, NEW f \in Functions, NEW v
    PROVE  CallInv(NewCall(f, v)) /\ RecordsMatch(NewCall(f, v))
<1> DEFINE c == NewCall(f, v)
           s == Scope("function", 1, program.body[f])
           root == [previous |-> 0, next |-> 0]
<1>1. program.body[f] \in Seq(Sentences)
    BY SentencesAssumption
<1>2. HasFields(c, f, <<s>>, <<>>, <<root>>, 1)
    BY DEF NewCall, HasFields, CallFields
<1>3. IsScope(s) /\ s.at = "function" /\ s.block = 1
    BY <1>1 DEF Scope, IsScope, ScopeFields
<1> HIDE DEF c, s
<1>4. IsSeq(<<s>>) /\ Len(<<s>>) = 1 /\ DOMAIN <<s>> = 1 .. 1 /\ <<s>>[1] = s
    BY SingletonIsSeq
<1>5. IsBlocks(<<root>>) /\ Chain(<<root>>, {1})
    <2>1. IsSeq(<<root>>) /\ Len(<<root>>) = 1 /\ DOMAIN <<root>> = 1 .. 1 /\ <<root>>[1] = root
        BY SingletonIsSeq
    <2>2. root \in [previous : 0 .. 1, next : 0 .. 1]
        OBVIOUS
    <2> HIDE DEF root
    <2> QED
        BY <2>1, <2>2 DEF IsBlocks, Chain
<1>6. OnChain(c, {1})
    BY <1>2, <1>3, <1>4, <1>5 DEF OnChain, HasFields
<1>7. CallInv(c)
    BY <1>2, <1>3, <1>4, <1>5, <1>6, EmptyIsSeq DEF CallInv, HasFields
<1>8. LoopsUpTo(c.scopes, Len(c.scopes)) = {}
    BY <1>2, <1>3, <1>4 DEF LoopsUpTo, HasFields
<1>9. RecordsMatch(c)
    BY <1>2, <1>8, FS_EmptySet, EmptyIsSeq DEF RecordsMatch, HasFields
<1> QED
    BY <1>7, <1>9 DEF c

-----------------------------------------------------------------------------
(* What CallInv and RecordsMatch say of the innermost call.                *)
LEMMA TopFacts ==
    ASSUME CallsInv, Running
    PROVE  /\ Len(calls) \in Nat \ {0} /\ DOMAIN calls = 1 .. Len(calls) /\ Top = calls[Len(calls)]
           /\ CallInv(Top) /\ CallFields(Top) /\ IsScope(Inner)
           /\ thrown = NoThrow => RecordsMatch(Top)
<1>1. Len(calls) \in Nat \ {0} /\ DOMAIN calls = 1 .. Len(calls)
    BY SeqFacts DEF CallsInv
<1>2. Top = calls[Len(calls)] /\ Len(calls) \in DOMAIN calls
    BY <1>1 DEF Top, Last
<1>3. CallInv(Top) /\ (thrown = NoThrow => RecordsMatch(Top))
    BY <1>2 DEF CallsInv
<1> QED
    BY <1>1, <1>2, <1>3, CallFacts DEF Inner, CallInv

(* The innermost call goes on.                                             *)
LEMMA TopReplaced ==
    ASSUME CallsInv, Running, NEW d, Replace(d), CallInv(d), UNCHANGED <<program, outcome>>,
           thrown' = NoThrow => RecordsMatch(d), thrown' = NoThrow => thrown = NoThrow
    PROVE  CallsInv'
<1> DEFINE n == Len(calls)
           next == [calls EXCEPT ![n] = d]
<1>1. n \in Nat \ {0} /\ DOMAIN calls = 1 .. n
    BY TopFacts
<1>2. IsSeq(next) /\ Len(next) = n /\ DOMAIN next = 1 .. n
      /\ \A i \in 1 .. n : next[i] = IF i = n THEN d ELSE calls[i]
    <2>1. IsSeq(calls) /\ n \in DOMAIN calls
        BY <1>1 DEF CallsInv
    <2> HIDE DEF n
    <2>2. /\ IsSeq(next) /\ Len(next) = Len(calls) /\ DOMAIN next = DOMAIN calls
          /\ \A i \in DOMAIN calls : next[i] = IF i = n THEN d ELSE calls[i]
        BY <2>1, ExceptAny
    <2> QED
        BY <1>1, <2>2 DEF n
<1>3. calls' = next
    BY DEF Replace
<1>4. \A i \in 1 .. n : CallInv(next[i])
    BY <1>1, <1>2 DEF CallsInv
<1>5. \A i \in 1 .. n : i < n \/ thrown' = NoThrow => RecordsMatch(next[i])
    <2>1. \A i \in 1 .. n : i < n \/ thrown = NoThrow => RecordsMatch(calls[i])
        BY <1>1 DEF CallsInv
    <2> HIDE DEF n, next
    <2>2. ASSUME NEW i \in 1 .. n, i < n \/ thrown' = NoThrow
          PROVE  RecordsMatch(next[i])
        <3>1. CASE i = n
            BY <1>1, <1>2, <2>2, <3>1
        <3>2. CASE i # n
            <4>1. i < n
                BY <1>1, <3>2
            <4> QED
                BY <1>2, <2>1, <3>2, <4>1
        <3> QED
            BY <3>1, <3>2
    <2> QED
        BY <2>2
<1> HIDE DEF n, next
<1>6. program' \in Programs
    BY DEF CallsInv
<1> QED
    BY <1>1, <1>2, <1>3, <1>4, <1>5, <1>6 DEF CallsInv

(* The calls stay as they are, while nothing is thrown that has not been.  *)
LEMMA CallsStay ==
    ASSUME CallsInv, UNCHANGED <<program, calls>>, thrown' = thrown \/ thrown' # NoThrow,
           Running' => Running
    PROVE  CallsInv'
    BY DEF CallsInv

LEMMA FailStays == ASSUME CallsInv, Running, NEW how, Fail(how) PROVE CallsInv'
<1>1. UNCHANGED <<program, calls, thrown>>
    BY DEF Fail
<1> QED
    BY <1>1, CallsStay

LEMMA ThrowStays == ASSUME CallsInv, Running, NEW e, e # NoThrow, Throw(e) PROVE CallsInv'
    BY CallsStay DEF Throw, Running

(* A call that begins within the innermost.                                *)
LEMMA CallAdded ==
    ASSUME CallsInv, Running, NEW f \in Functions, NEW v, calls' = Append(calls, NewCall(f, v)),
           thrown = NoThrow, UNCHANGED <<program, thrown, outcome>>
    PROVE  CallsInv'
<1> DEFINE n == Len(calls)
           c == NewCall(f, v)
           next == Append(calls, c)
<1>1. CallInv(c) /\ RecordsMatch(c)
    BY CallBegins DEF CallsInv
<1> HIDE DEF c
<1>2. n \in Nat \ {0} /\ DOMAIN calls = 1 .. n
    BY TopFacts
<1>3. /\ IsSeq(next) /\ Len(next) = n + 1 /\ DOMAIN next = 1 .. n + 1
      /\ \A i \in 1 .. n : next[i] = calls[i]
      /\ next[n + 1] = c
    BY AppendAny DEF CallsInv
<1>4. calls' = next
    BY DEF c
<1> HIDE DEF next
<1>5. \A i \in 1 .. n : CallInv(calls[i]) /\ RecordsMatch(calls[i])
    BY <1>2 DEF CallsInv
<1>6. \A i \in 1 .. n + 1 : CallInv(next[i]) /\ RecordsMatch(next[i])
    <2>1. \A i \in 1 .. n + 1 : i \in 1 .. n \/ i = n + 1
        BY <1>2
    <2> QED
        BY <1>1, <1>3, <1>5, <2>1
<1> HIDE DEF n
<1>7. program' \in Programs
    BY DEF CallsInv
<1> QED
    BY <1>2, <1>3, <1>4, <1>6, <1>7 DEF CallsInv

(* The innermost call returns, and the one that made it goes on.           *)
LEMMA CallReturns ==
    ASSUME CallsInv, Running, NEW v, Return(v)
    PROVE  CallsInv'
<1> DEFINE n == Len(calls)
<1>1. n \in Nat \ {0} /\ DOMAIN calls = 1 .. n
    BY TopFacts
<1>2. CASE n = 1
    <2>1. calls' = <<>> /\ outcome' = EndedWith(v) /\ program' = program
        BY <1>2 DEF Return
    <2>2. ~Running'
        BY <2>1 DEF Running, EndedWith, Ended, StillRunning
    <2>3. IsSeq(calls') /\ Len(calls') = 0 /\ DOMAIN calls' = {}
        BY <2>1, EmptyIsSeq, SeqFacts
    <2> QED
        BY <2>1, <2>2, <2>3 DEF CallsInv
<1>3. CASE n # 1
    <2> DEFINE low == Front(calls)
               d == [low[n - 1] EXCEPT !.result = v]
               next == [low EXCEPT ![n - 1] = d]
    <2>1. calls' = next /\ UNCHANGED <<program, outcome>> /\ thrown' = NoThrow
        BY <1>3 DEF Return
    <2>2. /\ IsSeq(low) /\ Len(low) = n - 1 /\ DOMAIN low = 1 .. n - 1
          /\ \A i \in 1 .. n - 1 : low[i] = calls[i]
        BY <1>1, FrontAny DEF CallsInv
    <2>3. n - 1 \in Nat \ {0} /\ n - 1 \in 1 .. n - 1 /\ \A i \in 1 .. n - 1 : i \in 1 .. n /\ i < n
        BY <1>1, <1>3
    <2>4. \A i \in 1 .. n - 1 : CallInv(low[i]) /\ RecordsMatch(low[i])
        BY <1>1, <2>2, <2>3 DEF CallsInv
    <2> HIDE DEF low
    <2>5. CallInv(d) /\ RecordsMatch(d)
        <3> DEFINE c == low[n - 1]
        <3>1. CallInv(c) /\ RecordsMatch(c) /\ CallFields(c)
            BY <2>3, <2>4 DEF CallInv
        <3> HIDE DEF c
        <3>2. HasFields([c EXCEPT !.result = v], c.fn, c.scopes, c.loopsInfo, c.blocks, c.activeBlock)
            BY <3>1, CallExcept
        <3> DEFINE e == [c EXCEPT !.result = v]
        <3> HIDE DEF e
        <3>3. HasFields(e, c.fn, c.scopes, c.loopsInfo, c.blocks, c.activeBlock)
            BY <3>2 DEF e
        <3>4. CallInv(e)
            BY <3>1, <3>3 DEF CallInv, HasFields, OnChain
        <3>5. RecordsMatch(e)
            BY <3>1, <3>3 DEF RecordsMatch, HasFields
        <3> QED
            BY <3>4, <3>5 DEF e, c
    <2> HIDE DEF d
    <2>6. /\ IsSeq(next) /\ Len(next) = n - 1 /\ DOMAIN next = 1 .. n - 1
          /\ \A i \in 1 .. n - 1 : next[i] = IF i = n - 1 THEN d ELSE low[i]
        <3> DEFINE k == n - 1
        <3>1. IsSeq(low) /\ k \in DOMAIN low
            BY <2>2, <2>3
        <3> HIDE DEF k
        <3>2. /\ IsSeq([low EXCEPT ![k] = d]) /\ Len([low EXCEPT ![k] = d]) = Len(low)
              /\ DOMAIN [low EXCEPT ![k] = d] = DOMAIN low
              /\ \A i \in DOMAIN low : [low EXCEPT ![k] = d][i] = IF i = k THEN d ELSE low[i]
            BY <3>1, ExceptAny
        <3> QED
            BY <2>2, <3>2 DEF k
    <2>7. \A i \in 1 .. n - 1 : CallInv(next[i]) /\ RecordsMatch(next[i])
        BY <2>4, <2>5, <2>6
    <2>8. program' \in Programs
        BY <2>1 DEF CallsInv
    <2>9. Len(next) # 0
        BY <2>3, <2>6
    <2> HIDE DEF next, n
    <2> QED
        BY <2>1, <2>6, <2>7, <2>8, <2>9 DEF CallsInv
<1> QED
    BY <1>2, <1>3

-----------------------------------------------------------------------------
(* The sentence at the head, which is one the assumption describes.        *)
LEMMA HeadFacts ==
    ASSUME CallsInv, NEW is, At(is)
    PROVE  /\ Running /\ thrown = NoThrow /\ Inner.rest # <<>>
           /\ Snt \in Sentences /\ Snt.is = is /\ Tail(Inner.rest) \in Seq(Sentences)
<1>1. Running /\ thrown = NoThrow /\ Inner.rest # <<>> /\ Snt.is = is
    BY DEF At, Emitting
<1>2. Inner.rest \in Seq(Sentences)
    BY <1>1, TopFacts DEF IsScope
<1>3. Snt \in Sentences /\ Tail(Inner.rest) \in Seq(Sentences)
    BY <1>1, <1>2, HeadTailProperties DEF Snt
<1> QED
    BY <1>1, <1>3

(* The call after its head sentence.                                       *)
LEMMA DoneKeeps ==
    ASSUME CallsInv, NEW is, At(is)
    PROVE  /\ CallInv(Done(Top)) /\ RecordsMatch(Done(Top)) /\ CallFields(Done(Top))
           /\ Done(Top).activeBlock = Top.activeBlock
<1> DEFINE n == Len(Top.scopes)
           r == Tail(Inner.rest)
           s == [Inner EXCEPT !.rest = r]
           x == [Top.scopes EXCEPT ![n] = s]
           e == [Top EXCEPT !.scopes = x]
<1>1. /\ CallInv(Top) /\ CallFields(Top) /\ IsScope(Inner) /\ RecordsMatch(Top)
      /\ r \in Seq(Sentences)
    BY HeadFacts, TopFacts
<1>2. Inner = Top.scopes[n] /\ Inner = Last(Top.scopes)
    BY <1>1, CallFacts DEF Inner
<1>3. Done(Top) = [e EXCEPT !.result = NoExp]
    BY <1>2 DEF Done
<1> HIDE DEF r
<1>4. IsScope(s) /\ s.at = Inner.at /\ s.block = Inner.block /\ s.loop = Inner.loop
    <2>1. ScopeFields(Inner)
        BY <1>1 DEF IsScope
    <2>2. /\ ScopeFields(s) /\ s.at = Inner.at
          /\ s.block = Inner.block /\ s.loop = Inner.loop /\ s.rest = r
        BY <2>1, ScopeExcept
    <2> HIDE DEF s
    <2> QED
        BY <1>1, <2>2 DEF IsScope
<1> HIDE DEF s
<1>5. HasFields(e, Top.fn, x, Top.loopsInfo, Top.blocks, Top.activeBlock)
    <2> HIDE DEF x
    <2> QED
        BY <1>1, CallExcept
<1> DEFINE d == [e EXCEPT !.result = NoExp]
<1>6. HasFields(d, Top.fn, x, Top.loopsInfo, Top.blocks, Top.activeBlock)
    <2> HIDE DEF x, e
    <2>1. CallFields(e)
        BY <1>5 DEF HasFields
    <2>2. HasFields(d, e.fn, e.scopes, e.loopsInfo, e.blocks, e.activeBlock)
        BY <2>1, CallExcept
    <2> QED
        BY <1>5, <2>2 DEF HasFields
<1> HIDE DEF d, e
<1>7. CallInv(d) /\ RecordsMatch(d)
    BY <1>1, <1>2, <1>4, <1>6, SameScope
<1> QED
    BY <1>3, <1>6, <1>7 DEF d, HasFields

(* After its head sentence the innermost call goes on.                     *)
LEMMA DoneStays ==
    ASSUME CallsInv, NEW is, At(is), Replace(Done(Top)), UNCHANGED <<program, thrown, outcome>>
    PROVE  CallsInv'
    BY HeadFacts, DoneKeeps, TopReplaced

(* A loop or an arm of an if is entered.                                   *)
LEMMA EnteredKeeps ==
    ASSUME NEW c, CallInv(c), RecordsMatch(c), CallFields(c), NEW s, IsScope(s), s.at # "function",
           s.block = Len(c.blocks) + 1,
           NEW e, e = (IF s.at = "loop" THEN [c EXCEPT !.loopsInfo = Append(c.loopsInfo, s.loop.tag)] ELSE c),
           NEW in, in = WithBlockAfter(e, c.activeBlock),
           NEW d, d = InScopes(in, Append(in.scopes, s))
    PROVE  CallInv(d) /\ RecordsMatch(d)
<1> DEFINE info == IF s.at = "loop" THEN Append(c.loopsInfo, s.loop.tag) ELSE c.loopsInfo
           x == Append(c.loopsInfo, s.loop.tag)
           after == BlocksAfter(c.blocks, c.activeBlock)
<1>1. HasFields(e, c.fn, c.scopes, info, c.blocks, c.activeBlock)
    <2>1. CASE s.at = "loop"
        <3>1. e = [c EXCEPT !.loopsInfo = x] /\ info = x
            BY <2>1
        <3> HIDE DEF x, info
        <3> QED
            BY <3>1, CallExceptLoops
    <2>2. CASE s.at # "loop"
        BY <2>2 DEF HasFields
    <2> QED
        BY <2>1, <2>2
<1> HIDE DEF info
<1>2. HasFields(in, c.fn, c.scopes, info, after, Len(c.blocks) + 1)
    <2> HIDE DEF after
    <2>1. CallFields(e) /\ e.blocks = c.blocks
        BY <1>1 DEF HasFields
    <2>2. HasFields(in, e.fn, e.scopes, e.loopsInfo, BlocksAfter(e.blocks, c.activeBlock), Len(e.blocks) + 1)
        BY <2>1, BlockFields
    <2> QED
        BY <1>1, <2>1, <2>2 DEF HasFields, after
<1> DEFINE y == Append(in.scopes, s)
<1>3. HasFields(d, c.fn, y, info, after, Len(c.blocks) + 1)
    <2> HIDE DEF y, after
    <2>1. CallFields(in)
        BY <1>2 DEF HasFields
    <2>2. HasFields([in EXCEPT !.scopes = y], in.fn, y, in.loopsInfo, in.blocks, in.activeBlock)
        BY <2>1, CallExcept
    <2>3. d = [in EXCEPT !.scopes = y]
        BY DEF InScopes, y
    <2> QED
        BY <1>2, <2>2, <2>3 DEF HasFields
<1>4. y = Append(c.scopes, s)
    BY <1>2 DEF HasFields
<1> QED
    BY <1>3, <1>4, ScopeEntered DEF info

(* What Leave gives.                                                       *)
LEMMA LeaveFields ==
    ASSUME NEW c, CallFields(c)
    PROVE  HasFields(Leave(c), c.fn, Front(c.scopes),
                     IF Last(c.scopes).at = "loop" THEN Front(c.loopsInfo) ELSE c.loopsInfo,
                     BlocksAfter(c.blocks, Last(c.scopes).block), Len(c.blocks) + 1)
<1> DEFINE x == Front(c.scopes)
           info == IF Last(c.scopes).at = "loop" THEN Front(c.loopsInfo) ELSE c.loopsInfo
           b == Last(c.scopes).block
           e == [c EXCEPT !.scopes = x]
           f == [e EXCEPT !.loopsInfo = info]
<1>1. Leave(c) = WithBlockAfter(f, b)
    <2>1. e.loopsInfo = c.loopsInfo
        <3> HIDE DEF x
        <3> QED
            BY CallExcept DEF HasFields
    <2> QED
        BY <2>1 DEF Leave
<1> HIDE DEF x, info, b
<1>2. HasFields(e, c.fn, x, c.loopsInfo, c.blocks, c.activeBlock)
    BY CallExcept
<1> HIDE DEF e
<1>3. HasFields(f, c.fn, x, info, c.blocks, c.activeBlock)
    <2>1. CallFields(e)
        BY <1>2 DEF HasFields
    <2>2. HasFields(f, e.fn, e.scopes, info, e.blocks, e.activeBlock)
        BY <2>1, CallExcept
    <2> QED
        BY <1>2, <2>2 DEF HasFields
<1> HIDE DEF f
<1>4. CallFields(f) /\ f.blocks = c.blocks
    BY <1>3 DEF HasFields
<1>5. HasFields(WithBlockAfter(f, b), f.fn, f.scopes, f.loopsInfo, BlocksAfter(f.blocks, b), Len(f.blocks) + 1)
    BY <1>4, BlockFields
<1> QED
    BY <1>1, <1>3, <1>4, <1>5 DEF HasFields, x, info, b

(* The sentences of a further iteration.                                   *)
LEMMA IterationKeeps ==
    ASSUME NEW c, CallInv(c), CallFields(c), RecordsMatch(c), NEW r \in Seq(Sentences),
           NEW d, d = [c EXCEPT !.scopes[Len(c.scopes)].rest = r,
                                !.scopes[Len(c.scopes)].times = IF @ = Endless THEN @ ELSE @ - 1]
    PROVE  CallInv(d) /\ RecordsMatch(d)
<1> DEFINE n == Len(c.scopes)
           s == [c.scopes[n] EXCEPT !.rest = r]
           x == [c.scopes EXCEPT ![n] = s]
           e == [c EXCEPT !.scopes = x]
           t == IF s.times = Endless THEN s.times ELSE s.times - 1
           s2 == [s EXCEPT !.times = t]
           y == [e.scopes EXCEPT ![n] = s2]
<1>1. /\ n \in DOMAIN c.scopes /\ n \in Nat \ {0} /\ DOMAIN c.scopes = 1 .. n
      /\ Last(c.scopes) = c.scopes[n] /\ IsScope(c.scopes[n])
    BY CallFacts
<1>2. /\ IsScope(s) /\ s.at = c.scopes[n].at /\ s.block = c.scopes[n].block /\ s.loop = c.scopes[n].loop
      /\ IsScope(s2) /\ s2.at = s.at /\ s2.block = s.block /\ s2.loop = s.loop
    <2> DEFINE top == c.scopes[n]
    <2>1. ScopeFields(top)
        BY <1>1 DEF IsScope
    <2> HIDE DEF n
    <2>2. /\ ScopeFields(s) /\ s.at = top.at /\ s.block = top.block /\ s.loop = top.loop /\ s.rest = r
        <3> HIDE DEF top
        <3>1. /\ ScopeFields([top EXCEPT !.rest = r]) /\ [top EXCEPT !.rest = r].at = top.at
              /\ [top EXCEPT !.rest = r].block = top.block /\ [top EXCEPT !.rest = r].loop = top.loop
              /\ [top EXCEPT !.rest = r].rest = r
            BY <2>1, ScopeExceptRest
        <3> QED
            BY <3>1 DEF top
    <2>3. /\ ScopeFields(s2) /\ s2.at = s.at /\ s2.block = s.block /\ s2.loop = s.loop /\ s2.rest = s.rest
        <3> HIDE DEF s, t
        <3> QED
            BY <2>2, ScopeExcept
    <2> HIDE DEF s, s2
    <2> QED
        BY <1>1, <2>2, <2>3 DEF IsScope, top
<1>3. HasFields(e, c.fn, x, c.loopsInfo, c.blocks, c.activeBlock)
    <2> HIDE DEF x
    <2> QED
        BY CallExcept
<1>4. CallInv(e) /\ RecordsMatch(e)
    <2> HIDE DEF e, s
    <2> QED
        BY <1>1, <1>2, <1>3, SameScope
<1>5. Len(x) = n /\ x[n] = s
    <2> HIDE DEF s
    <2> QED
        BY <1>1, ExceptAny DEF CallInv
<1>6. d = [e EXCEPT !.scopes = y]
    <2>1. e.scopes[n] = s
        BY <1>3, <1>5 DEF HasFields
    <2>2. y = [e.scopes EXCEPT ![n] =
                  [e.scopes[n] EXCEPT !.times = IF @ = Endless THEN @ ELSE @ - 1]]
        <3> HIDE DEF e, s
        <3> QED
            BY <2>1
    <2>3. d = [e EXCEPT !.scopes[n].times = IF @ = Endless THEN @ ELSE @ - 1]
        <3> HIDE DEF y, s2, t
        <3> QED
            OBVIOUS
    <2> HIDE DEF e, y, s, s2, t, x
    <2> QED
        BY ONLY <2>2, <2>3
<1> HIDE DEF e, s2, s, x
<1>7. Len(e.scopes) = n /\ Last(e.scopes) = s /\ CallFields(e)
    BY <1>3, <1>5 DEF HasFields, Last
<1>8. HasFields([e EXCEPT !.scopes = y], e.fn, y, e.loopsInfo, e.blocks, e.activeBlock)
    <2> HIDE DEF y
    <2> QED
        BY <1>7, CallExcept
<1>9. HasFields(d, e.fn, [e.scopes EXCEPT ![Len(e.scopes)] = s2], e.loopsInfo, e.blocks, e.activeBlock)
    BY <1>6, <1>7, <1>8
<1> QED
    BY <1>2, <1>4, <1>7, <1>9, SameScope

-----------------------------------------------------------------------------
(* The steps.                                                              *)
LEMMA LoopToStep == ASSUME CallsInv, LoopTo PROVE CallsInv'
<1>1. At("loop")
    BY DEF LoopTo
<1>2. Running /\ thrown = NoThrow /\ Snt \in Sentences /\ Snt.is = "loop"
    BY <1>1, HeadFacts
<1>3. Fail("error") => CallsInv'
    BY <1>2, FailStays
<1> DEFINE c == Done(Top)
           e == [c EXCEPT !.loopsInfo = Append(@, Snt.tag)]
           in == WithBlockAfter(e, Top.activeBlock)
           s == LoopScope(in.activeBlock, Snt)
           d == InScopes(in, Append(in.scopes, s))
<1>4. ~Fail("error") => Replace(d) /\ UNCHANGED <<program, thrown, outcome>>
    BY DEF LoopTo
<1>5. /\ CallInv(c) /\ RecordsMatch(c) /\ CallFields(c) /\ c.activeBlock = Top.activeBlock
    BY <1>1, DoneKeeps
<1> DEFINE info == Append(c.loopsInfo, Snt.tag)
<1>6. in.activeBlock = Len(c.blocks) + 1
    <2> HIDE DEF c
    <2>1. HasFields(e, c.fn, c.scopes, info, c.blocks, c.activeBlock)
        <3> HIDE DEF info
        <3>1. HasFields([c EXCEPT !.loopsInfo = info], c.fn, c.scopes, info, c.blocks, c.activeBlock)
            BY <1>5, CallExcept
        <3> QED
            BY <3>1 DEF info
    <2> HIDE DEF e
    <2>2. CallFields(e) /\ e.blocks = c.blocks
        BY <2>1 DEF HasFields
    <2>3. HasFields(in, e.fn, e.scopes, e.loopsInfo, BlocksAfter(e.blocks, Top.activeBlock), Len(e.blocks) + 1)
        BY <2>2, BlockFields
    <2> QED
        BY <2>2, <2>3 DEF HasFields
<1>7. /\ IsScope(s) /\ s.at = "loop" /\ s.loop = Snt /\ s.block = Len(c.blocks) + 1
    <2>1. <<>> \in Seq(Sentences)
        OBVIOUS
    <2> HIDE DEF in, c
    <2> QED
        BY <1>2, <1>6, <2>1 DEF LoopScope, IsScope, ScopeFields
<1>8. CallInv(d) /\ RecordsMatch(d)
    <2>1. e = IF s.at = "loop" THEN [c EXCEPT !.loopsInfo = Append(c.loopsInfo, s.loop.tag)] ELSE c
        <3> HIDE DEF c, s
        <3> QED
            BY <1>7
    <2>2. in = WithBlockAfter(e, c.activeBlock)
        BY <1>5
    <2>3. s.at # "function"
        BY <1>7
    <2> HIDE DEF c, e, in, s
    <2> QED
        BY <1>5, <1>7, <2>1, <2>2, <2>3, EnteredKeeps
<1> HIDE DEF d
<1> QED
    BY <1>2, <1>3, <1>4, <1>8, TopReplaced

LEMMA IfElseStep == ASSUME CallsInv, IfElse PROVE CallsInv'
<1>1. At("if")
    BY DEF IfElse
<1>2. Running /\ thrown = NoThrow /\ Snt \in Sentences /\ Snt.is = "if"
    BY <1>1, HeadFacts
<1>3. Fail("error") => CallsInv'
    BY <1>2, FailStays
<1> DEFINE c == Done(Top)
           in == WithBlockAfter(c, Top.activeBlock)
           s == Scope("if", in.activeBlock, Chosen(Snt, Top.argument)[1])
           d == InScopes(in, Append(in.scopes, s))
<1>4. CASE ~Fail("error") /\ Chosen(Snt, Top.argument) = <<>>
    <2>1. Replace(c) /\ UNCHANGED <<program, thrown, outcome>>
        BY <1>4 DEF IfElse
    <2> QED
        BY <1>1, <2>1, DoneStays
<1>5. CASE ~Fail("error") /\ Chosen(Snt, Top.argument) # <<>>
    <2>1. Replace(d) /\ UNCHANGED <<program, thrown, outcome>>
        BY <1>5 DEF IfElse
    <2>2. CallInv(c) /\ RecordsMatch(c) /\ CallFields(c) /\ c.activeBlock = Top.activeBlock
        BY <1>1, DoneKeeps
    <2>3. in.activeBlock = Len(c.blocks) + 1
        <3> HIDE DEF c
        <3> QED
            BY <2>2, BlockFields DEF HasFields
    <2>4. Chosen(Snt, Top.argument)[1] \in Seq(Sentences)
        <3> DEFINE true == {i \in DOMAIN Snt.arms : ValueOf(Snt.arms[i].cond, Top.argument).n = 1}
        <3>1. CASE true = {}
            BY <1>2, <1>5, <3>1, SentencesAssumption DEF Chosen
        <3>2. CASE true # {}
            <4> DEFINE i == CHOOSE i \in true : \A j \in true : i <= j
            <4>1. DOMAIN Snt.arms \subseteq Nat
                BY <1>2, SentencesAssumption
            <4>2. PICK x \in true : \A y \in true : x <= y
                BY <3>2, <4>1, LeastNumber
            <4>3. i \in true
                BY <4>2
            <4>4. Chosen(Snt, Top.argument) = <<Snt.arms[i].body>>
                BY <3>2 DEF Chosen
            <4>5. Snt.arms[i].body \in Seq(Sentences)
                BY <1>2, <4>3, SentencesAssumption
            <4> DEFINE b == Snt.arms[i].body
            <4> HIDE DEF b
            <4>6. Chosen(Snt, Top.argument) = <<b>> /\ b \in Seq(Sentences)
                BY <4>4, <4>5 DEF b
            <4> QED
                BY <4>6
        <3> QED
            BY <3>1, <3>2
    <2>5. IsScope(s) /\ s.at = "if" /\ s.block = Len(c.blocks) + 1
        <3> HIDE DEF in, c
        <3> QED
            BY <2>3, <2>4 DEF Scope, IsScope, ScopeFields
    <2>6. CallInv(d) /\ RecordsMatch(d)
        <3>1. c = IF s.at = "loop" THEN [c EXCEPT !.loopsInfo = Append(c.loopsInfo, s.loop.tag)] ELSE c
            <4> HIDE DEF c, s
            <4> QED
                BY <2>5
        <3>2. in = WithBlockAfter(c, c.activeBlock) /\ s.at # "function"
            BY <2>2, <2>5
        <3> HIDE DEF c, in, s
        <3> QED
            BY <2>2, <2>5, <3>1, <3>2, EnteredKeeps
    <2> HIDE DEF d
    <2> QED
        BY <1>2, <2>1, <2>6, TopReplaced
<1> QED
    BY <1>3, <1>4, <1>5

LEMMA NextIterationStep == ASSUME CallsInv, NextIteration PROVE CallsInv'
<1> DEFINE d == [Top EXCEPT !.scopes[Len(Top.scopes)].rest  = Inner.loop.body,
                            !.scopes[Len(Top.scopes)].times = IF @ = Endless THEN @ ELSE @ - 1]
<1>1. Running /\ thrown = NoThrow /\ Inner.at = "loop" /\ Replace(d) /\ UNCHANGED <<program, thrown, outcome>>
    BY DEF NextIteration, Emitting
<1>2. CallInv(Top) /\ CallFields(Top) /\ IsScope(Inner) /\ RecordsMatch(Top)
    BY <1>1, TopFacts
<1>3. Inner.loop.body \in Seq(Sentences)
    BY <1>1, <1>2, SentencesAssumption DEF IsScope
<1>4. CallInv(d) /\ RecordsMatch(d)
    BY <1>2, <1>3, IterationKeeps
<1> HIDE DEF d
<1> QED
    BY <1>1, <1>4, TopReplaced

LEMMA LeaveScopeStep == ASSUME CallsInv, LeaveScope PROVE CallsInv'
<1> DEFINE d == Leave(Top)
<1>1. Running /\ thrown = NoThrow /\ Inner.at # "function" /\ Replace(d) /\ UNCHANGED <<program, thrown, outcome>>
    BY DEF LeaveScope, Emitting
<1>2. CallInv(Top) /\ CallFields(Top) /\ RecordsMatch(Top)
    BY <1>1, TopFacts
<1>3. HasFields(d, Top.fn, Front(Top.scopes),
                IF Last(Top.scopes).at = "loop" THEN Front(Top.loopsInfo) ELSE Top.loopsInfo,
                BlocksAfter(Top.blocks, Last(Top.scopes).block), Len(Top.blocks) + 1)
    BY <1>2, LeaveFields
<1> HIDE DEF d
<1>4. RecordsMatch(d) /\ IsSeq(d.loopsInfo)
    BY <1>2, <1>3, RecordsPopped DEF HasFields, CallInv
<1>5. CallInv(d)
    BY <1>1, <1>2, <1>3, <1>4, ScopeDropped DEF HasFields, Inner
<1> QED
    BY <1>1, <1>4, <1>5, TopReplaced

(* No loop has a tag: the exception goes through it.                       *)
LEMMA UnwindStep == ASSUME CallsInv, Unwind PROVE CallsInv'
<1>1. Running /\ thrown # NoThrow
    BY DEF Unwind
<1>2. CASE Inner.at = "function"
    BY <1>1, <1>2, FailStays, CallReturns DEF Unwind
<1>3. CASE Inner.at # "function"
    <2> DEFINE x == Front(Top.scopes)
               d == InScopes(Top, x)
    <2>1. CallInv(Top) /\ CallFields(Top) /\ IsScope(Inner)
        BY <1>1, TopFacts
    <2>2. Inner.at = "loop" => Inner.loop.tag = NoTag
        BY <2>1, SentencesAssumption DEF IsScope, ConstructedTag
    <2>3. ~(Inner.at = "loop" /\ Catches(thrown, Inner.loop.tag))
        BY <2>2 DEF Catches
    <2>4. UNCHANGED <<program, outcome, thrown>> /\ Replace(d)
        BY <1>3, <2>3 DEF Unwind
    <2>5. HasFields(d, Top.fn, x, Top.loopsInfo, Top.blocks, Top.activeBlock)
        <3> HIDE DEF x
        <3> QED
            BY <2>1, CallExcept DEF InScopes
    <2> HIDE DEF d
    <2>6. CallInv(d)
        BY <1>3, <2>1, <2>5, ScopeDropped DEF HasFields, Inner, CallInv
    <2> QED
        BY <1>1, <2>4, <2>6, TopReplaced
<1> QED
    BY <1>2, <1>3

LEMMA CallPrerunStep == ASSUME CallsInv, CallPrerun PROVE CallsInv'
<1>1. PICK is \in {"give", "say", "expression"} : At(is)
    BY DEF CallPrerun
<1>2. Running /\ thrown = NoThrow /\ Snt \in Sentences /\ Snt.is = is
    BY <1>1, HeadFacts
<1>3. Snt.exp.fn \in Functions
    BY <1>1, <1>2, SentencesAssumption DEF CallPrerun
<1> DEFINE v == Value(Snt.exp.argument)
<1>4. \/ Fail("overflow")
      \/ calls' = Append(calls, NewCall(Snt.exp.fn, v)) /\ UNCHANGED <<program, thrown, outcome>>
    BY DEF CallPrerun
<1> HIDE DEF v
<1> QED
    BY <1>2, <1>3, <1>4, CallAdded, FailStays

LEMMA CallsStep == ASSUME CallsInv, [Next]_prerunVars PROVE CallsInv'
<1>1. ASSUME Give PROVE CallsInv'
    <2>1. At("give")
        BY <1>1 DEF Give
    <2>2. Running
        BY <2>1, HeadFacts
    <2>3. Fail("error") \/ Fail("crash") \/ \E v : Throw([is |-> "give", value |-> v])
        BY <1>1 DEF Give
    <2>4. \A v : [is |-> "give", value |-> v] # NoThrow
        <3>1. \A v : [is |-> "give", value |-> v].is = "give"
            OBVIOUS
        <3> QED
            BY <3>1 DEF NoThrow
    <2> QED
        BY <2>2, <2>3, <2>4, FailStays, ThrowStays
<1>2. ASSUME Say PROVE CallsInv'
    <2>1. At("say")
        BY <1>2 DEF Say
    <2>2. Fail("error") \/ Fail("crash") \/ (Replace(Done(Top)) /\ UNCHANGED <<program, thrown, outcome>>)
        BY <1>2 DEF Say
    <2> QED
        BY <2>1, <2>2, FailStays, DoneStays, HeadFacts
<1>3. ASSUME ExpressionSentence PROVE CallsInv'
    <2>1. At("expression")
        BY <1>3 DEF ExpressionSentence
    <2>2. Fail("error") \/ Fail("crash") \/ (Replace(Done(Top)) /\ UNCHANGED <<program, thrown, outcome>>)
        BY <1>3 DEF ExpressionSentence
    <2> QED
        BY <2>1, <2>2, FailStays, DoneStays, HeadFacts
<1>4. ASSUME NEW is \in {"break", "continue"}, Jump(is) PROVE CallsInv'
    <2>1. At(is)
        BY <1>4 DEF Jump
    <2> DEFINE t == [is |-> is, tag |-> Snt.tag]
    <2>2. Fail("error") \/ Throw(t) \/ (Replace(Done(Top)) /\ UNCHANGED <<program, thrown, outcome>>)
        BY <1>4 DEF Jump
    <2>3. t # NoThrow
        <3>1. t.is = is /\ NoThrow.is = "nothing"
            BY DEF NoThrow
        <3> QED
            BY <1>4, <3>1
    <2> HIDE DEF t
    <2> QED
        BY <2>1, <2>2, <2>3, FailStays, ThrowStays, DoneStays, HeadFacts
<1>5. ASSUME RunsOffEnd PROVE CallsInv'
    BY <1>5, FailStays, CallReturns DEF RunsOffEnd, Emitting
<1>6. ASSUME Finished \/ UNCHANGED prerunVars PROVE CallsInv'
    <2>1. UNCHANGED prerunVars
        BY <1>6 DEF Finished
    <2> QED
        BY <2>1, CallsStay DEF prerunVars, Running
<1> QED
    BY <1>1, <1>2, <1>3, <1>4, <1>5, <1>6, LoopToStep, IfElseStep, NextIterationStep, LeaveScopeStep,
       UnwindStep, CallPrerunStep DEF Next, Interpret, Break, Continue

LEMMA CallsInit == ASSUME Init PROVE CallsInv
<1> DEFINE c == NewCall("main", program.argument)
<1>1. program \in Programs /\ calls = <<c>> /\ thrown = NoThrow
    BY DEF Init
<1>2. CallInv(c) /\ RecordsMatch(c)
    BY <1>1, CallBegins, SentencesAssumption
<1> HIDE DEF c
<1>3. IsSeq(<<c>>) /\ Len(<<c>>) = 1 /\ DOMAIN <<c>> = 1 .. 1 /\ <<c>>[1] = c
    BY SingletonIsSeq
<1> QED
    BY <1>1, <1>2, <1>3 DEF CallsInv

(* The calls keep the invariant.                                           *)
LEMMA CallsInvariant == Spec => []CallsInv
    BY CallsInit, CallsStep, PTL DEF Spec

(* Whatever the program, and whatever way its loops end: while no          *)
(* exception is in flight, break and continue see one record for every     *)
(* loop around them, in their order, and no other.                         *)
THEOREM RecordsAreOfLoops == Spec => []LoopRecordsMatch
<1>1. CallsInv => LoopRecordsMatch
    BY DEF CallsInv, LoopRecordsMatch
<1> QED
    BY <1>1, CallsInvariant, PTL

-----------------------------------------------------------------------------
(* What is reached from b along the links of g: what every set has that    *)
(* has b and is closed under g.                                            *)
Onward(L, g, b) ==
    {x \in 1 .. L :
        \A S \in SUBSET (1 .. L) :
            b \in S /\ (\A y \in S : g[y] # 0 => g[y] \in S) => x \in S}

(* The recursive function that follows the links exists, whatever they are *)
(* (CHOOSE then chooses one): it need not end to have a value.             *)
LEMMA LinksFollowed ==
    ASSUME NEW L \in Nat, NEW g \in [1 .. L -> 0 .. L]
    PROVE  \E f : f = [b \in 0 .. L |-> IF b = 0 THEN {} ELSE {b} \cup f[g[b]]]
<1> DEFINE f == [b \in 0 .. L |-> IF b = 0 THEN {} ELSE Onward(L, g, b)]
<1>1. ASSUME NEW b \in 1 .. L
      PROVE  Onward(L, g, b) = {b} \cup f[g[b]]
    <2>1. g[b] \in 0 .. L
        OBVIOUS
    <2>2. f[g[b]] = IF g[b] = 0 THEN {} ELSE Onward(L, g, g[b])
        BY <2>1
    <2> HIDE DEF f
    <2>3. ASSUME NEW x \in {b} \cup f[g[b]], NEW S \in SUBSET (1 .. L), b \in S,
                 \A y \in S : g[y] # 0 => g[y] \in S
          PROVE  x \in 1 .. L /\ x \in S
        <3>1. CASE x = b
            BY <2>3, <3>1
        <3>2. CASE x # b
            <4>1. g[b] # 0 /\ x \in Onward(L, g, g[b])
                BY <2>2, <2>3, <3>2
            <4> QED
                BY <2>3, <4>1 DEF Onward
        <3> QED
            BY <3>1, <3>2
    <2>4. {b} \cup f[g[b]] \subseteq 1 .. L
        BY <2>2 DEF Onward
    <2>5. {b} \cup f[g[b]] \subseteq Onward(L, g, b)
        BY <2>3, <2>4 DEF Onward
    <2>6. \A y \in {b} \cup f[g[b]] : g[y] # 0 => g[y] \in {b} \cup f[g[b]]
        <3>1. ASSUME g[b] # 0
              PROVE  g[b] \in f[g[b]]
            <4>1. g[b] \in 1 .. L
                BY <2>1, <3>1
            <4>2. g[b] \in Onward(L, g, g[b])
                BY <4>1 DEF Onward
            <4> QED
                BY <2>2, <3>1, <4>2
        <3>2. ASSUME NEW y \in f[g[b]], g[y] # 0
              PROVE  g[y] \in f[g[b]]
            <4>1. g[b] # 0 /\ y \in Onward(L, g, g[b]) /\ y \in 1 .. L
                BY <2>2, <3>2 DEF Onward
            <4>2. g[y] \in 1 .. L
                <5>1. g[y] \in 0 .. L
                    BY <4>1
                <5> QED
                    BY <3>2, <5>1
            <4>3. g[y] \in Onward(L, g, g[b])
                BY <3>2, <4>1, <4>2 DEF Onward
            <4> QED
                BY <2>2, <4>1, <4>3
        <3> QED
            BY <3>1, <3>2
    <2>7. Onward(L, g, b) \subseteq {b} \cup f[g[b]]
        BY <2>4, <2>6 DEF Onward
    <2> QED
        BY <2>5, <2>7
<1>2. f = [b \in 0 .. L |-> IF b = 0 THEN {} ELSE {b} \cup f[g[b]]]
    <2>1. \A b \in 0 .. L : b # 0 => b \in 1 .. L
        OBVIOUS
    <2> DEFINE h == [b \in 0 .. L |-> IF b = 0 THEN {} ELSE {b} \cup f[g[b]]]
    <2>2. \A b \in 0 .. L : f[b] = h[b]
        <3> SUFFICES ASSUME NEW b \in 0 .. L PROVE f[b] = h[b]
            OBVIOUS
        <3>1. CASE b = 0
            BY <3>1
        <3>2. CASE b # 0
            <4>1. b \in 1 .. L
                BY <2>1, <3>2
            <4>2. f[b] = Onward(L, g, b)
                BY <3>2
            <4>3. h[b] = {b} \cup f[g[b]]
                BY <3>2
            <4> QED
                BY <1>1, <4>1, <4>2, <4>3
        <3> QED
            BY <3>1, <3>2
    <2>3. f = [b \in 0 .. L |-> f[b]] /\ h = [b \in 0 .. L |-> h[b]]
        OBVIOUS
    <2> HIDE DEF f, h
    <2>4. f = h
        BY <2>2, <2>3
    <2> QED
        BY <2>4 DEF h
<1> HIDE DEF f
<1> QED
    BY <1>2

(* Along next the active block is reached from the root, along previous    *)
(* the root from it: at the first block of the chain that is not, the one  *)
(* before it would have to say the same.                                   *)
LEMMA ChainReached ==
    ASSUME NEW c, CallInv(c)
    PROVE  /\ c.activeBlock \in DestroyedFrom(c.blocks)
           /\ LET back[b \in 0 .. Len(c.blocks)] ==
                      IF b = 0 THEN {} ELSE {b} \cup back[c.blocks[b].previous]
              IN  1 \in back[c.activeBlock]
<1> DEFINE bs == c.blocks
           L == Len(bs)
           Follows(f) == f = [b \in 0 .. L |-> IF b = 0 THEN {} ELSE {b} \cup f[bs[b].next]]
           Returns(f) == f = [b \in 0 .. L |-> IF b = 0 THEN {} ELSE {b} \cup f[bs[b].previous]]
           n == [b \in 1 .. L |-> bs[b].next]
           p == [b \in 1 .. L |-> bs[b].previous]
           a == c.activeBlock
<1>1. /\ L \in Nat /\ DOMAIN bs = 1 .. L
      /\ \A b \in 1 .. L : bs[b].next \in 0 .. L /\ bs[b].previous \in 0 .. L
    BY SeqFacts DEF CallInv, IsBlocks
<1>2. PICK P : Chain(bs, P) /\ a \in P
    BY DEF CallInv, OnChain
<1>3. P \subseteq 1 .. L /\ 1 \in P /\ \A b \in P : b \in Nat
    BY <1>1, <1>2 DEF Chain
<1>4. \E f : Follows(f)
    <2>1. n \in [1 .. L -> 0 .. L]
        BY <1>1
    <2>2. PICK f : f = [b \in 0 .. L |-> IF b = 0 THEN {} ELSE {b} \cup f[n[b]]]
        <3> HIDE DEF n, L
        <3> QED
            BY <1>1, <2>1, LinksFollowed
    <2>3. \A b \in 0 .. L : b # 0 => n[b] = bs[b].next
        OBVIOUS
    <2> HIDE DEF n, L, bs
    <2>4. Follows(f)
        BY <2>2, <2>3
    <2> QED
        BY <2>4
<1>5. \E f : Returns(f)
    <2>1. p \in [1 .. L -> 0 .. L]
        BY <1>1
    <2>2. PICK f : f = [b \in 0 .. L |-> IF b = 0 THEN {} ELSE {b} \cup f[p[b]]]
        <3> HIDE DEF p, L
        <3> QED
            BY <1>1, <2>1, LinksFollowed
    <2>3. \A b \in 0 .. L : b # 0 => p[b] = bs[b].previous
        OBVIOUS
    <2> HIDE DEF p, L, bs
    <2>4. Returns(f)
        BY <2>2, <2>3
    <2> QED
        BY <2>4
<1>6. ASSUME NEW f, Follows(f)
      PROVE  a \in f[1]
    <2>1. \A b \in 1 .. L : f[b] = {b} \cup f[bs[b].next]
        <3> HIDE DEF bs, L
        <3> QED
            BY <1>1, <1>6
    <2> DEFINE Bad == {b \in P : ~(f[b] \subseteq f[1])}
    <2>2. Bad = {}
        <3> SUFFICES ASSUME Bad # {} PROVE FALSE
            OBVIOUS
        <3>1. Bad \subseteq Nat
            BY <1>3
        <3>2. PICK b \in Bad : \A y \in Bad : b <= y
            BY <3>1, LeastNumber
        <3>3. b # 1 /\ b \in P /\ b \in 1 .. L
            BY <1>3
        <3> DEFINE q == bs[b].previous
        <3>4. q \in P /\ q < b /\ bs[q].next = b
            BY <1>2, <3>3 DEF Chain
        <3> HIDE DEF q
        <3>5. q \in 1 .. L /\ q \notin Bad
            BY <1>1, <1>3, <3>1, <3>2, <3>4
        <3>6. f[q] \subseteq f[1] /\ f[q] = {q} \cup f[b]
            BY <2>1, <3>4, <3>5
        <3> QED
            BY <3>6
    <2>3. a \in f[a] /\ a \notin Bad
        <3>1. a \in 1 .. L
            BY <1>2, <1>3
        <3>2. f[a] = {a} \cup f[bs[a].next]
            BY <2>1, <3>1
        <3> QED
            BY <2>2, <3>2
    <2> QED
        BY <1>2, <2>3
<1>7. ASSUME NEW f, Returns(f)
      PROVE  1 \in f[a]
    <2>1. \A b \in 1 .. L : f[b] = {b} \cup f[bs[b].previous]
        <3> HIDE DEF bs, L
        <3> QED
            BY <1>1, <1>7
    <2> DEFINE Bad == {b \in P : 1 \notin f[b]}
    <2>2. Bad = {}
        <3> SUFFICES ASSUME Bad # {} PROVE FALSE
            OBVIOUS
        <3>1. Bad \subseteq Nat
            BY <1>3
        <3>2. PICK b \in Bad : \A y \in Bad : b <= y
            BY <3>1, LeastNumber
        <3>3. b # 1 /\ b \in P /\ b \in 1 .. L
            BY <1>3, <2>1
        <3> DEFINE q == bs[b].previous
        <3>4. q \in P /\ q < b
            BY <1>2, <3>3 DEF Chain
        <3>5. f[b] = {b} \cup f[q]
            BY <2>1, <3>3
        <3> HIDE DEF q
        <3>6. q \in 1 .. L /\ q \notin Bad
            BY <1>1, <1>3, <3>1, <3>2, <3>4
        <3> QED
            BY <3>4, <3>5, <3>6
    <2> QED
        BY <1>2, <2>2
<1> HIDE DEF Follows, Returns
<1>8. Follows(CHOOSE f : Follows(f)) /\ Returns(CHOOSE f : Returns(f))
    BY <1>4, <1>5
<1>9. a \in (CHOOSE f : Follows(f))[1] /\ 1 \in (CHOOSE f : Returns(f))[a]
    BY <1>6, <1>7, <1>8
<1> QED
    BY <1>9 DEF DestroyedFrom, Follows, Returns

(* Wherever blocks are created after ones that have a next block: the one  *)
(* in use is destroyed with its call, and gets back to the root.           *)
THEOREM ActiveBlocksAreReached == Spec => []ActiveBlockIsReached
<1>1. CallsInv => ActiveBlockIsReached
    BY ChainReached DEF CallsInv, ActiveBlockIsReached
<1> QED
    BY <1>1, CallsInvariant, PTL
===============================================================================

--------------------------- MODULE QatRegion_proofs ---------------------------
(***************************************************************************)
(* Theorems about the blocks of memory, for any threads, sizes, word width *)
(* and number of blocks malloc has.                                        *)
(*                                                                         *)
(* RegionInv says what is in the blocks: the room that is computed is what *)
(* is there because every block keeps a header's worth of bytes free at    *)
(* its end, and what is past the offset belongs to no object.  ListsInv    *)
(* and TailsInv say how the blocks are linked.                             *)
(***************************************************************************)
EXTENDS QatRegion, SequenceTheorems, FiniteSetTheorems, WellFoundedInduction,
        TLAPS

-----------------------------------------------------------------------------
(* Facts about sequences, sets of numbers and functions that are recursive *)
(* by a rank, which the proofs below need.                                 *)

(* A set of numbers that is not empty has a least one.                     *)
LEMMA LeastNumber ==
    ASSUME NEW I, I \subseteq Nat, I # {}
    PROVE  \E x \in I : \A y \in I : x <= y
<1> DEFINE R == OpToRel(<, Nat)
<1>1. IsWellFoundedOn(R, Nat)
    BY NatLessThanWellFounded
<1>2. ASSUME NEW x \in I, NEW y \in I, y < x
      PROVE  <<y, x>> \in R
    <2>1. <<y, x>> \in Nat \X Nat /\ <<y, x>>[1] = y /\ <<y, x>>[2] = x
        OBVIOUS
    <2> QED
        BY <1>2, <2>1, Zenon DEF OpToRel
<1> HIDE DEF R
<1>3. PICK x \in I : \A y \in I : ~(<<y, x>> \in R)
    BY <1>1, WFMin
<1>4. \A y \in I : ~(y < x)
    BY <1>2, <1>3, Zenon
<1> QED
    BY <1>3, <1>4

-----------------------------------------------------------------------------
(* Behind the offset a header's worth is free, so that Room does not wrap. *)
BlockFits(b) ==
    /\ Header <= b.offset
    /\ b.offset + Header <= b.size
    /\ b.size < Modulus

BlocksInv ==
    /\ blocks \in Seq(Block)
    /\ \A b \in DOMAIN blocks : BlockFits(blocks[b])
    /\ blockTail \in [Thread -> 0 .. Len(blocks)]

(* Objects lie before the offset of their block.                           *)
ObjectsInv ==
    \A o \in objects :
        /\ o \in Promise!Object
        /\ o.block \in DOMAIN blocks
        /\ o.at + o.size <= blocks[o.block].offset

RegionInv == BlocksInv /\ ObjectsInv

(* The fields of a block.                                                  *)
LEMMA BlockFields ==
    /\ \A b \in Block : b.next \in Nat /\ b.size \in Nat /\ b.offset \in Nat
    /\ \A n \in Nat, s \in Nat, o \in Nat :
          [next |-> n, size |-> s, offset |-> o] \in Block
    /\ \A b \in Block : b = [next |-> b.next, size |-> b.size, offset |-> b.offset]
    BY DEF Block

(* The room that is computed for a block of the region has not wrapped.    *)
LEMMA RoomIsExact ==
    ASSUME NEW b \in Block, BlockFits(b)
    PROVE  Room(b) = b.size - Header - b.offset
<1> DEFINE x == b.size - Header - b.offset
<1>1. x \in 0 .. Modulus - 1
    BY SizeAssumption DEF Block, BlockFits
<1>2. \A y \in Nat, m \in Nat : y < m => y % m = y
    BY SMT
<1> QED
    BY <1>1, <1>2, SizeAssumption DEF Room

(* A block that is made for an object has room for it, and for a header    *)
(* behind it.                                                              *)
LEMMA NewBlockFits ==
    ASSUME NEW s \in Sizes
    PROVE  /\ NewBlock(s) \in Block
           /\ BlockFits(NewBlock(s))
           /\ NewBlock(s).offset = Header
           /\ NewBlock(s).offset + s <= NewBlock(s).size
           /\ BlockFits([NewBlock(s) EXCEPT !.offset = @ + s])
<1>1. /\ s \in Nat \ {0} /\ Header \in Nat \ {0} /\ DefaultBlock \in Nat
      /\ DefaultBlock >= 3 * Header /\ Modulus \in Nat /\ DefaultBlock < Modulus
      /\ s <= DefaultBlock - 2 * Header \/ s >= DefaultBlock - Header
      /\ 2 * s < Modulus
    BY SizeAssumption
<1>2. /\ BlockSize(s) \in Nat
      /\ Header + s + Header <= BlockSize(s)
      /\ BlockSize(s) < Modulus
    BY <1>1 DEF BlockSize
<1> QED
    BY <1>1, <1>2 DEF NewBlock, Block, BlockFits

(* What the blocks may be before an object is placed: those that were      *)
(* there keep their size and offset.                                       *)
Extends(bs, old) ==
    /\ bs \in Seq(Block)
    /\ \A b \in DOMAIN bs : BlockFits(bs[b])
    /\ Len(old) <= Len(bs)
    /\ \A b \in DOMAIN old : bs[b].size = old[b].size /\ bs[b].offset = old[b].offset

(* A new block at the end.                                                 *)
LEMMA AppendExtends ==
    ASSUME NEW old \in Seq(Block), \A b \in DOMAIN old : BlockFits(old[b]), NEW s \in Sizes
    PROVE  /\ Extends(Append(old, NewBlock(s)), old)
           /\ Len(Append(old, NewBlock(s))) = Len(old) + 1
           /\ Append(old, NewBlock(s))[Len(old) + 1] = NewBlock(s)
<1>1. NewBlock(s) \in Block /\ BlockFits(NewBlock(s))
    BY NewBlockFits
<1>2. /\ Append(old, NewBlock(s)) \in Seq(Block)
      /\ Len(Append(old, NewBlock(s))) = Len(old) + 1
      /\ \A b \in 1 .. Len(old) : Append(old, NewBlock(s))[b] = old[b]
      /\ Append(old, NewBlock(s))[Len(old) + 1] = NewBlock(s)
    BY <1>1, AppendProperties
<1>3. Len(old) \in Nat /\ DOMAIN old = 1 .. Len(old)
    BY LenProperties
<1>4. DOMAIN Append(old, NewBlock(s)) = 1 .. Len(old) + 1
    BY <1>2, LenProperties
<1> QED
    BY <1>1, <1>2, <1>3, <1>4 DEF Extends

(* A link from a block to the one to come.                                 *)
LEMMA LinkExtends ==
    ASSUME NEW old \in Seq(Block), \A b \in DOMAIN old : BlockFits(old[b]), NEW b \in DOMAIN old
    PROVE  /\ Extends(LinkToNew(old, b), old)
           /\ Len(LinkToNew(old, b)) = Len(old)
<1>1. Len(old) \in Nat /\ DOMAIN old = 1 .. Len(old)
    BY LenProperties
<1> DEFINE new == [old[b] EXCEPT !.next = Len(old) + 1]
<1>2. old[b] \in Block
    BY <1>1, ElementOfSeq
<1>3. /\ new \in Block /\ new.size = old[b].size /\ new.offset = old[b].offset
    BY <1>1, <1>2 DEF Block
<1>4. LinkToNew(old, b) = [old EXCEPT ![b] = new]
    BY DEF LinkToNew
<1> HIDE DEF new
<1>5. /\ LinkToNew(old, b) \in Seq(Block)
      /\ Len(LinkToNew(old, b)) = Len(old)
      /\ \A c \in 1 .. Len(old) : LinkToNew(old, b)[c] = IF c = b THEN new ELSE old[c]
    BY <1>1, <1>3, <1>4, ExceptSeq
<1>6. DOMAIN LinkToNew(old, b) = 1 .. Len(old)
    BY <1>5, LenProperties
<1> QED
    BY <1>1, <1>3, <1>5, <1>6 DEF Extends, BlockFits

(* One such change after another is one.                                   *)
LEMMA ExtendsTransitive ==
    ASSUME NEW old \in Seq(Block), NEW bs \in Seq(Block), NEW cs \in Seq(Block),
           Extends(bs, old), Extends(cs, bs)
    PROVE  Extends(cs, old)
<1>1. /\ Len(old) \in Nat /\ DOMAIN old = 1 .. Len(old)
      /\ Len(bs) \in Nat /\ DOMAIN bs = 1 .. Len(bs)
      /\ Len(cs) \in Nat /\ DOMAIN cs = 1 .. Len(cs)
    BY LenProperties
<1> QED
    BY <1>1 DEF Extends

(* Where getMemory places an object.                                       *)
GivesFrom(all, last, size) ==
    /\ Extends(all, blocks)
    /\ last \in DOMAIN all
    /\ all[last].offset + size + Header <= all[last].size

(* A call of getMemory ends the program or places its object in a block    *)
(* that has room for it.                                                   *)
LEMMA MemoryGiven ==
    ASSUME BlocksInv, NEW t \in Thread, NEW size \in Sizes, getMemory(t, size)
    PROVE  \/ /\ running' = "exited"
              /\ UNCHANGED <<blocks, blockTail, allBlockTails, objects, freed>>
           \/ \E all \in Seq(Block), last \in Nat :
                 /\ GivesFrom(all, last, size)
                 /\ PlaceIn(all, last, size)
                 /\ blockTail' = [blockTail EXCEPT ![t] = last]
                 /\ running = "yes" /\ running' = running
<1> DEFINE first  == blockTail[t] = 0
           start  == IF first THEN Append(blocks, NewBlock(size)) ELSE blocks
           tail   == IF first THEN Len(start) ELSE blockTail[t]
           noRoom == Room(start[tail]) < size
           all    == IF noRoom THEN Append(LinkToNew(start, tail), NewBlock(size)) ELSE start
           last   == IF noRoom THEN Len(all) ELSE tail
<1>1. /\ blocks \in Seq(Block) /\ Len(blocks) \in Nat /\ DOMAIN blocks = 1 .. Len(blocks)
      /\ \A b \in DOMAIN blocks : BlockFits(blocks[b])
      /\ blockTail[t] \in 0 .. Len(blocks)
    BY LenProperties DEF BlocksInv
<1>2. size \in Nat /\ Header \in Nat
    BY SizeAssumption
<1>3. Extends(start, blocks) /\ tail \in DOMAIN start
    <2>1. CASE first
        BY <1>1, <2>1, AppendExtends, LenProperties
    <2>2. CASE ~first
        BY <1>1, <2>2 DEF Extends
    <2> QED
        BY <2>1, <2>2
<1> HIDE DEF start, tail
<1>4. /\ start \in Seq(Block) /\ Len(start) \in Nat /\ DOMAIN start = 1 .. Len(start)
      /\ \A b \in DOMAIN start : BlockFits(start[b])
      /\ start[tail] \in Block
    BY <1>3, LenProperties, ElementOfSeq DEF Extends
<1>5. all \in Seq(Block) /\ GivesFrom(all, last, size)
    <2>1. CASE noRoom
        <3> DEFINE link == LinkToNew(start, tail)
        <3>1. Extends(link, start) /\ Len(link) = Len(start)
            BY <1>3, <1>4, LinkExtends
        <3>2. link \in Seq(Block) /\ \A b \in DOMAIN link : BlockFits(link[b])
            BY <3>1 DEF Extends
        <3> HIDE DEF link
        <3>3. /\ Extends(Append(link, NewBlock(size)), link)
              /\ Len(Append(link, NewBlock(size))) = Len(link) + 1
              /\ Append(link, NewBlock(size))[Len(link) + 1] = NewBlock(size)
            BY <3>2, AppendExtends
        <3>4. all = Append(link, NewBlock(size)) /\ last = Len(link) + 1
            BY <2>1, <3>3 DEF link
        <3> HIDE DEF all, last
        <3>5. all \in Seq(Block)
            BY <3>3, <3>4 DEF Extends
        <3>6. Extends(all, blocks)
            BY <1>1, <1>3, <1>4, <3>1, <3>2, <3>3, <3>4, <3>5, ExtendsTransitive
        <3>7. last \in DOMAIN all
            BY <3>1, <3>3, <3>4, <3>5, <1>4, LenProperties
        <3>8. all[last].offset + size + Header <= all[last].size
            <4>1. BlockFits([NewBlock(size) EXCEPT !.offset = @ + size]) /\ NewBlock(size) \in Block
                BY NewBlockFits
            <4> QED
                BY <4>1, <3>3, <3>4, <1>2 DEF BlockFits, Block
        <3> QED
            BY <3>5, <3>6, <3>7, <3>8 DEF GivesFrom
    <2>2. CASE ~noRoom
        <3>1. all = start /\ last = tail
            BY <2>2
        <3>2. Room(start[tail]) = start[tail].size - Header - start[tail].offset
            BY <1>3, <1>4, RoomIsExact
        <3>3. start[tail].offset + size + Header <= start[tail].size
            BY <2>2, <3>2, <1>2, <1>4 DEF Block
        <3> QED
            BY <3>1, <3>3, <1>3, <1>4 DEF GivesFrom
    <2> QED
        BY <2>1, <2>2
<1>6. last \in Nat
    BY <1>5, LenProperties DEF GivesFrom
<1>7. \/ /\ running' = "exited"
         /\ UNCHANGED <<blocks, blockTail, allBlockTails, objects, freed>>
      \/ /\ PlaceIn(all, last, size)
         /\ blockTail' = [blockTail EXCEPT ![t] = last]
         /\ running = "yes" /\ running' = running
    BY DEF getMemory, start, tail
<1> HIDE DEF all, last
<1> QED
    BY <1>5, <1>6, <1>7

(* An object that is placed there is what Allocate of RegionObjects makes: *)
(* disjoint from all others, inside its block and past the header.         *)
LEMMA PlacedKeeps ==
    ASSUME RegionInv, NEW t \in Thread, NEW size \in Sizes,
           NEW all \in Seq(Block), NEW last \in Nat,
           GivesFrom(all, last, size), PlaceIn(all, last, size),
           blockTail' = [blockTail EXCEPT ![t] = last],
           running = "yes", running' = running
    PROVE  RegionInv' /\ Promise!Allocate
<1> DEFINE o == [block |-> last, at |-> all[last].offset, size |-> size]
           new == [next |-> all[last].next, size |-> all[last].size,
                   offset |-> all[last].offset + size]
<1>1. /\ size \in Nat /\ size > 0 /\ Header \in Nat /\ Modulus \in Nat
    BY SizeAssumption
<1>2. /\ blocks \in Seq(Block) /\ Len(blocks) \in Nat /\ DOMAIN blocks = 1 .. Len(blocks)
      /\ \A b \in DOMAIN blocks : blocks[b] \in Block /\ BlockFits(blocks[b])
      /\ \A b \in DOMAIN blocks : blocks[b].offset \in Nat /\ blocks[b].size \in Nat
      /\ blockTail \in [Thread -> 0 .. Len(blocks)]
    BY LenProperties, ElementOfSeq, BlockFields DEF RegionInv, BlocksInv
<1>3. /\ Len(all) \in Nat /\ DOMAIN all = 1 .. Len(all) /\ Len(blocks) <= Len(all)
      /\ \A b \in DOMAIN all : all[b] \in Block /\ BlockFits(all[b])
      /\ last \in DOMAIN all
      /\ all[last].offset + size + Header <= all[last].size
      /\ \A b \in DOMAIN blocks :
            all[b].size = blocks[b].size /\ all[b].offset = blocks[b].offset
      /\ \A b \in DOMAIN all : /\ all[b].next \in Nat /\ all[b].size \in Nat
                               /\ all[b].offset \in Nat
    BY LenProperties, ElementOfSeq, BlockFields DEF GivesFrom, Extends
<1>4. /\ new \in Block /\ new.size = all[last].size /\ new.offset = all[last].offset + size
    <2>1. /\ all[last].next \in Nat /\ all[last].size \in Nat
          /\ all[last].offset + size \in Nat
        BY <1>1, <1>3
    <2> QED
        BY <2>1, BlockFields
<1>5. BlockFits(new)
    BY <1>1, <1>3, <1>4 DEF BlockFits
<1>6. blocks' = [all EXCEPT ![last] = new] /\ objects' = objects \cup {o}
    <2>1. [all[last] EXCEPT !.offset = @ + size] = new
        <3>1. all[last] = [next |-> all[last].next, size |-> all[last].size,
                           offset |-> all[last].offset]
            BY <1>3, BlockFields
        <3> DEFINE b == [next |-> all[last].next, size |-> all[last].size,
                         offset |-> all[last].offset]
        <3>2. [b EXCEPT !.offset = @ + size] = new
            OBVIOUS
        <3> QED
            BY <3>1, <3>2
    <2>2. blocks' = [all EXCEPT ![last] = [all[last] EXCEPT !.offset = @ + size]]
        BY DEF PlaceIn
    <2> QED
        BY <2>1, <2>2 DEF PlaceIn
<1>7. o.block = last /\ o.at = all[last].offset /\ o.size = size
    OBVIOUS
<1> HIDE DEF new, o
<1>8. /\ blocks' \in Seq(Block) /\ Len(blocks') = Len(all) /\ DOMAIN blocks' = DOMAIN all
      /\ \A b \in DOMAIN all : blocks'[b] = IF b = last THEN new ELSE all[b]
    BY <1>3, <1>4, <1>6, ExceptSeq, LenProperties
<1>9. \A b \in DOMAIN blocks : /\ b \in DOMAIN blocks'
                               /\ blocks'[b].size = blocks[b].size
                               /\ blocks'[b].offset \in Nat
                               /\ blocks'[b].offset >= blocks[b].offset
    <2> SUFFICES ASSUME NEW b \in DOMAIN blocks
                 PROVE  /\ b \in DOMAIN blocks'
                        /\ blocks'[b].size = blocks[b].size
                        /\ blocks'[b].offset \in Nat
                        /\ blocks'[b].offset >= blocks[b].offset
        OBVIOUS
    <2>1. /\ b \in DOMAIN all /\ all[b].size = blocks[b].size
          /\ all[b].offset = blocks[b].offset /\ blocks[b].offset \in Nat
        BY <1>2, <1>3
    <2>2. CASE b = last
        <3>1. blocks'[b] = new /\ new.offset = blocks[b].offset + size
            BY <2>1, <2>2, <1>4, <1>8
        <3> QED
            BY <2>1, <2>2, <3>1, <1>1, <1>4, <1>8
    <2>3. CASE b # last
        BY <2>1, <2>3, <1>8
    <2> QED
        BY <2>2, <2>3
<1>10. BlocksInv'
    <2>1. \A b \in DOMAIN blocks' : BlockFits(blocks'[b])
        BY <1>3, <1>5, <1>8
    <2>2. blockTail' \in [Thread -> 0 .. Len(blocks')]
        BY <1>2, <1>3, <1>8
    <2> QED
        BY <1>8, <2>1, <2>2 DEF BlocksInv, BlockFits
<1>11. o \in Promise!Object
    <2>1. all[last].offset \in Nat
        BY <1>3 DEF Block
    <2> QED
        BY <2>1 DEF o, Promise!Object
<1>12. ObjectsInv'
    <2> SUFFICES ASSUME NEW p \in objects'
                 PROVE  /\ p \in Promise!Object
                        /\ p.block \in DOMAIN blocks'
                        /\ p.at + p.size <= blocks'[p.block].offset
        BY DEF ObjectsInv
    <2>1. CASE p \in objects
        <3>1. /\ p \in Promise!Object /\ p.block \in DOMAIN blocks
              /\ p.at + p.size <= blocks[p.block].offset
            BY <2>1 DEF RegionInv, ObjectsInv
        <3>2. p.at \in Nat /\ p.size \in Nat
            BY <3>1, SizeAssumption DEF Promise!Object
        <3>3. blocks[p.block].offset \in Nat /\ blocks'[p.block].offset \in Nat
            BY <3>1, <1>2, <1>9
        <3> QED
            BY <3>1, <3>2, <3>3, <1>9
    <2>2. CASE p = o
        BY <2>2, <1>1, <1>3, <1>4, <1>7, <1>8, <1>11
    <2> QED
        BY <2>1, <2>2, <1>6
<1>13. \A p \in objects : Promise!Disjoint(o, p)
    <2> SUFFICES ASSUME NEW p \in objects, p.block = last
                 PROVE  p.at + p.size <= o.at
        BY <1>7 DEF Promise!Disjoint
    <2>1. /\ p.block \in DOMAIN blocks
          /\ p.at + p.size <= blocks[p.block].offset
        BY DEF RegionInv, ObjectsInv
    <2> QED
        BY <2>1, <1>3, <1>7
<1>14. o \notin objects
    <2> SUFFICES ASSUME o \in objects PROVE FALSE
        OBVIOUS
    <2>1. last \in DOMAIN blocks /\ o.at + o.size <= blocks[last].offset
        BY <1>7 DEF RegionInv, ObjectsInv
    <2> QED
        BY <2>1, <1>1, <1>2, <1>3, <1>7
<1>15. Promise!Allocate
    <2> DEFINE ext == [b \in DOMAIN blocks |-> blocks[b].size]
               extN == [b \in DOMAIN blocks' |-> blocks'[b].size]
    <2>1. \A b \in DOMAIN ext : b \in DOMAIN extN /\ extN[b] = ext[b]
        BY <1>9
    <2>2. o.block \in DOMAIN extN /\ Header <= o.at /\ o.at + o.size <= extN[o.block]
        BY <1>1, <1>3, <1>4, <1>7, <1>8 DEF BlockFits
    <2>3. o \in objects' \ objects
        BY <1>6, <1>14
    <2> QED
        BY <2>1, <2>2, <2>3, <1>6, <1>11, <1>13
           DEF Promise!Allocate, Promise!Inside
<1> QED
    BY <1>10, <1>12, <1>15 DEF RegionInv

(* Every step keeps RegionInv and is a step of RegionObjects, or none.     *)
LEMMA RegionStep ==
    ASSUME RegionInv, [Next]_vars
    PROVE  RegionInv' /\ [Promise!Next]_(Promise!vars)
<1>1. ASSUME NEW t \in Thread, NEW size \in Sizes, getMemory(t, size)
      PROVE  RegionInv' /\ [Promise!Next]_(Promise!vars)
    <2>1. CASE /\ running' = "exited"
               /\ UNCHANGED <<blocks, blockTail, allBlockTails, objects, freed>>
        <3>1. running = "yes"
            BY <1>1 DEF getMemory
        <3> QED
            BY <2>1, <3>1 DEF RegionInv, BlocksInv, ObjectsInv, BlockFits, Promise!vars
    <2>2. CASE \E all \in Seq(Block), last \in Nat :
                 /\ GivesFrom(all, last, size)
                 /\ PlaceIn(all, last, size)
                 /\ blockTail' = [blockTail EXCEPT ![t] = last]
                 /\ running = "yes" /\ running' = running
        BY <2>2, PlacedKeeps DEF Promise!Next
    <2> QED
        BY <1>1, <2>1, <2>2, MemoryGiven DEF RegionInv
<1>2. CASE destroyAllBlocks
    BY <1>2 DEF destroyAllBlocks, RegionInv, BlocksInv, ObjectsInv, BlockFits,
                Promise!Next, Promise!Return
<1>3. CASE UNCHANGED vars
    BY <1>3 DEF vars, RegionInv, BlocksInv, ObjectsInv, BlockFits, Promise!vars
<1> QED
    BY <1>1, <1>2, <1>3 DEF Next, Ended

(* Objects are disjoint, inside their blocks, past the headers, and never  *)
(* move; what getMemory computes as the room of a block never wraps.       *)
THEOREM RegionKeepsPromise == Spec => KeepsPromise
<1>1. Init => RegionInv /\ Promise!Init
    <2> SUFFICES ASSUME Init PROVE RegionInv /\ Promise!Init
        OBVIOUS
    <2>1. blocks = <<>> /\ DOMAIN blocks = {} /\ Len(blocks) = 0
        BY DEF Init
    <2>2. RegionInv
        BY <2>1 DEF Init, RegionInv, BlocksInv, ObjectsInv
    <2>3. [b \in DOMAIN blocks |-> blocks[b].size] = <<>>
        BY <2>1
    <2> QED
        BY <2>2, <2>3 DEF Init, Promise!Init
<1>2. RegionInv /\ [Next]_vars => RegionInv' /\ [Promise!Next]_(Promise!vars)
    BY RegionStep
<1> QED
    BY <1>1, <1>2, PTL DEF Spec, KeepsPromise, Promise!Spec

-----------------------------------------------------------------------------
(* Blocks are linked to later ones.                                        *)
NextsRise(bs) ==
    \A b \in DOMAIN bs : bs[b].next # 0 => bs[b].next \in DOMAIN bs /\ b < bs[b].next

(* The list of blocks from b on, as ListFrom chooses it.                   *)
IsList(list, b) ==
    /\ list # <<>> /\ list[1] = b /\ blocks[Last(list)].next = 0
    /\ \A k \in 2 .. Len(list) : list[k] = blocks[list[k - 1]].next

(* There is a list from every block, no longer than there are blocks: by   *)
(* induction from the last block down.                                     *)
LEMMA ListsExist ==
    ASSUME BlocksInv, NextsRise(blocks), NEW b \in DOMAIN blocks
    PROVE  \E list \in Seq(DOMAIN blocks) : IsList(list, b) /\ Len(list) <= Len(blocks)
<1> DEFINE Has(c) == \E list \in Seq(DOMAIN blocks) :
                        IsList(list, c) /\ Len(list) <= Len(blocks) - c + 1
           Bad == {n \in Nat : \E c \in DOMAIN blocks : n = Len(blocks) - c /\ ~Has(c)}
<1>1. /\ blocks \in Seq(Block) /\ Len(blocks) \in Nat /\ DOMAIN blocks = 1 .. Len(blocks)
    BY LenProperties DEF BlocksInv
<1>2. ASSUME NEW c \in DOMAIN blocks, blocks[c].next = 0
      PROVE  Has(c)
    <2>1. <<c>> \in Seq(DOMAIN blocks) /\ Len(<<c>>) = 1 /\ <<c>>[1] = c
        OBVIOUS
    <2>2. IsList(<<c>>, c)
        BY <1>2, <2>1 DEF IsList, Last
    <2>3. 1 <= Len(blocks) - c + 1
        BY <1>1
    <2>4. Len(<<c>>) <= Len(blocks) - c + 1
        BY <2>1, <2>3
    <2> QED
        BY <2>1, <2>2, <2>4
<1>3. ASSUME NEW c \in DOMAIN blocks, blocks[c].next # 0, Has(blocks[c].next)
      PROVE  Has(c)
    <2> DEFINE d == blocks[c].next
    <2>1. d \in DOMAIN blocks /\ c < d
        BY <1>3 DEF NextsRise
    <2>2. PICK l \in Seq(DOMAIN blocks) : IsList(l, d) /\ Len(l) <= Len(blocks) - d + 1
        BY <1>3
    <2> DEFINE m == <<c>> \o l
    <2>3. /\ <<c>> \in Seq(DOMAIN blocks) /\ Len(<<c>>) = 1 /\ <<c>>[1] = c
        OBVIOUS
    <2>4. /\ Len(l) \in Nat /\ Len(l) # 0 /\ DOMAIN l = 1 .. Len(l)
        BY <2>2, LenProperties, EmptySeq DEF IsList
    <2>5. /\ m \in Seq(DOMAIN blocks) /\ Len(m) = 1 + Len(l)
          /\ \A k \in 1 .. 1 + Len(l) : m[k] = IF k <= 1 THEN <<c>>[k] ELSE l[k - 1]
        BY <2>3, <2>4, ConcatProperties
    <2> HIDE DEF m
    <2>6. m[1] = c /\ \A k \in 1 .. Len(l) : m[k + 1] = l[k]
        BY <2>3, <2>4, <2>5
    <2>7. m # <<>>
        BY <2>4, <2>5, EmptySeq
    <2>8. Last(m) = Last(l)
        BY <2>4, <2>5, <2>6 DEF Last
    <2>9. ASSUME NEW k \in 2 .. Len(m)
          PROVE  m[k] = blocks[m[k - 1]].next
        <3>1. CASE k = 2
            <4>1. m[2] = l[1]
                BY <2>4, <2>6
            <4> QED
                BY <3>1, <4>1, <2>2, <2>6 DEF IsList
        <3>2. CASE k # 2
            <4>1. k - 1 \in 2 .. Len(l) /\ k - 2 \in 1 .. Len(l)
                BY <3>2, <2>4, <2>5
            <4>2. m[k] = l[k - 1] /\ m[k - 1] = l[k - 2] /\ (k - 1) - 1 = k - 2
                BY <4>1, <2>4, <2>6
            <4>3. l[k - 1] = blocks[l[(k - 1) - 1]].next
                BY <4>1, <2>2 DEF IsList
            <4> QED
                BY <4>2, <4>3
        <3> QED
            BY <3>1, <3>2
    <2>10. IsList(m, c)
        BY <2>2, <2>6, <2>7, <2>8, <2>9 DEF IsList
    <2>11. Len(m) <= Len(blocks) - c + 1
        BY <1>1, <2>1, <2>2, <2>4, <2>5
    <2> QED
        BY <2>5, <2>10, <2>11
<1> HIDE DEF Has
<1>4. Bad = {}
    <2> SUFFICES ASSUME Bad # {} PROVE FALSE
        OBVIOUS
    <2>1. PICK n \in Bad : \A x \in Bad : n <= x
        <3> Bad \subseteq Nat
            OBVIOUS
        <3> HIDE DEF Bad
        <3> QED
            BY LeastNumber
    <2>2. PICK c \in DOMAIN blocks : n = Len(blocks) - c /\ ~Has(c)
        BY <2>1
    <2>3. blocks[c].next # 0 /\ ~Has(blocks[c].next)
        BY <1>2, <1>3, <2>2
    <2>4. blocks[c].next \in DOMAIN blocks /\ c < blocks[c].next
        BY <2>3 DEF NextsRise
    <2>5. Len(blocks) - blocks[c].next \in Bad
        BY <1>1, <2>3, <2>4
    <2>6. n <= Len(blocks) - blocks[c].next
        BY <2>1, <2>5
    <2>7. c \in Nat /\ blocks[c].next \in Nat /\ n = Len(blocks) - c
        BY <1>1, <2>2, <2>4
    <2> QED
        BY <1>1, <2>4, <2>6, <2>7
<1>5. Has(b)
    <2> SUFFICES ASSUME ~Has(b) PROVE FALSE
        OBVIOUS
    <2>1. Len(blocks) - b \in Bad
        BY <1>1
    <2> QED
        BY <1>4, <2>1
<1>6. PICK list \in Seq(DOMAIN blocks) : IsList(list, b) /\ Len(list) <= Len(blocks) - b + 1
    BY <1>5 DEF Has
<1>7. Len(list) <= Len(blocks)
    BY <1>1, <1>6, LenProperties
<1> QED
    BY <1>6, <1>7

(* So that is what ListFrom gives.                                         *)
LEMMA ListFromIsList ==
    ASSUME BlocksInv, NextsRise(blocks), NEW b \in DOMAIN blocks
    PROVE  /\ ListFrom(b) \in Seq(DOMAIN blocks)
           /\ Len(ListFrom(b)) <= Len(blocks)
           /\ IsList(ListFrom(b), b)
<1>1. Len(blocks) \in Nat
    BY LenProperties DEF BlocksInv
<1>2. PICK list \in Seq(DOMAIN blocks) : IsList(list, b) /\ Len(list) <= Len(blocks)
    BY ListsExist
<1>3. list \in SeqOf(DOMAIN blocks, Len(blocks))
    <2>1. Len(list) \in 0 .. Len(blocks) /\ list \in [1 .. Len(list) -> DOMAIN blocks]
        BY <1>1, <1>2, LenProperties
    <2> QED
        BY <2>1 DEF SeqOf
<1> DEFINE P(l) == /\ l # <<>> /\ l[1] = b /\ blocks[Last(l)].next = 0
                   /\ \A k \in 2 .. Len(l) : l[k] = blocks[l[k - 1]].next
<1>4. ListFrom(b) = CHOOSE l \in SeqOf(DOMAIN blocks, Len(blocks)) : P(l)
    BY DEF ListFrom
<1>5. P(list)
    BY <1>2 DEF IsList
<1> HIDE DEF P
<1>6. ListFrom(b) \in SeqOf(DOMAIN blocks, Len(blocks)) /\ P(ListFrom(b))
    BY <1>3, <1>4, <1>5
<1>7. IsList(ListFrom(b), b)
    BY <1>6 DEF P, IsList
<1>8. PICK m \in 0 .. Len(blocks) : ListFrom(b) \in [1 .. m -> DOMAIN blocks]
    BY <1>6 DEF SeqOf
<1>9. ListFrom(b) \in Seq(DOMAIN blocks) /\ Len(ListFrom(b)) = m
    BY <1>1, <1>8
<1> QED
    BY <1>1, <1>7, <1>8, <1>9

(* The blocks bs as lists that start at heads: next blocks and heads are   *)
(* distinct, and every block is one or the other.                          *)
ListsOK(bs, heads) ==
    /\ heads \in Seq(DOMAIN bs)
    /\ \A i, j \in DOMAIN heads : heads[i] = heads[j] => i = j
    /\ NextsRise(bs)
    /\ \A b, c \in DOMAIN bs : bs[b].next = bs[c].next => b = c \/ bs[b].next = 0
    /\ \A b \in DOMAIN bs, i \in DOMAIN heads : bs[b].next # heads[i]
    /\ \A b \in DOMAIN bs :
          \/ \E i \in DOMAIN heads : b = heads[i]
          \/ \E c \in DOMAIN bs : b = bs[c].next

ListsInv == ListsOK(blocks, allBlockTails)

(* A thread allocates in the last block of a list, which is no other's.    *)
TailsInv ==
    /\ \A t \in Thread : blockTail[t] # 0 => blocks[blockTail[t]].next = 0
    /\ \A t, u \in Thread : blockTail[t] = blockTail[u] => t = u \/ blockTail[t] = 0

(* Every block is in one place of one of the lists: by induction over the  *)
(* blocks, as each that is not a head is behind an earlier one.            *)
LEMMA EveryBlockOnce ==
    ASSUME BlocksInv, ListsInv, NEW b \in DOMAIN blocks
    PROVE  \E i \in DOMAIN allBlockTails : \E k \in DOMAIN ListFrom(allBlockTails[i]) :
              /\ ListFrom(allBlockTails[i])[k] = b
              /\ \A j \in DOMAIN allBlockTails : \A l \in DOMAIN ListFrom(allBlockTails[j]) :
                    ListFrom(allBlockTails[j])[l] = b => j = i /\ l = k
<1> DEFINE L(i) == ListFrom(allBlockTails[i])
           At(c, i, k) == i \in DOMAIN allBlockTails /\ k \in DOMAIN L(i) /\ L(i)[k] = c
           Once(c) == \E i, k : At(c, i, k) /\ \A j, l : At(c, j, l) => j = i /\ l = k
           Bad == {c \in DOMAIN blocks : ~Once(c)}
<1>1. /\ blocks \in Seq(Block) /\ Len(blocks) \in Nat /\ DOMAIN blocks = 1 .. Len(blocks)
    BY LenProperties DEF BlocksInv
<1>2. \A i \in DOMAIN allBlockTails : allBlockTails[i] \in DOMAIN blocks
    BY ElementOfSeq, LenProperties DEF ListsInv, ListsOK
<1>3. ASSUME NEW i \in DOMAIN allBlockTails
      PROVE  /\ L(i) \in Seq(DOMAIN blocks) /\ IsList(L(i), allBlockTails[i])
             /\ Len(L(i)) \in Nat /\ Len(L(i)) # 0 /\ DOMAIN L(i) = 1 .. Len(L(i))
             /\ \A k \in DOMAIN L(i) : L(i)[k] \in DOMAIN blocks
    <2>1. L(i) \in Seq(DOMAIN blocks) /\ IsList(L(i), allBlockTails[i])
        BY <1>2, ListFromIsList DEF ListsInv, ListsOK
    <2>2. L(i) # <<>>
        BY <2>1 DEF IsList
    <2> HIDE DEF L
    <2> QED
        BY <2>1, <2>2, LenProperties, EmptySeq, ElementOfSeq
<1> HIDE DEF L
<1>4. ASSUME NEW i, NEW k, NEW c, At(c, i, k), k # 1
      PROVE  /\ k - 1 \in Nat /\ L(i)[k - 1] \in DOMAIN blocks
             /\ At(L(i)[k - 1], i, k - 1)
             /\ c = blocks[L(i)[k - 1]].next
    BY <1>3, <1>4 DEF IsList
<1>5. ASSUME NEW i \in DOMAIN allBlockTails
      PROVE  Once(allBlockTails[i])
    <2>1. At(allBlockTails[i], i, 1)
        BY <1>3 DEF IsList
    <2>2. ASSUME NEW j, NEW l, At(allBlockTails[i], j, l)
          PROVE  j = i /\ l = 1
        <3>1. l = 1
            <4> SUFFICES ASSUME l # 1 PROVE FALSE
                OBVIOUS
            <4>1. /\ L(j)[l - 1] \in DOMAIN blocks
                  /\ allBlockTails[i] = blocks[L(j)[l - 1]].next
                BY <1>4, <2>2
            <4> QED
                BY <4>1 DEF ListsInv, ListsOK
        <3>2. allBlockTails[j] = allBlockTails[i]
            BY <2>2, <3>1, <1>3 DEF IsList
        <3> QED
            BY <2>2, <3>1, <3>2 DEF ListsInv, ListsOK
    <2> QED
        BY <2>1, <2>2
<1>6. ASSUME NEW c \in DOMAIN blocks, Once(c), blocks[c].next # 0
      PROVE  Once(blocks[c].next)
    <2> DEFINE d == blocks[c].next
    <2>1. PICK i, k : At(c, i, k) /\ \A j, l : At(c, j, l) => j = i /\ l = k
        BY <1>6
    <2>2. d \in DOMAIN blocks
        BY <1>6 DEF ListsInv, ListsOK, NextsRise
    <2>3. i \in DOMAIN allBlockTails /\ k \in 1 .. Len(L(i)) /\ L(i)[k] = c
        BY <2>1, <1>3
    <2>4. k # Len(L(i))
        BY <2>3, <1>3, <1>6 DEF IsList, Last
    <2>5. k + 1 \in 2 .. Len(L(i)) /\ (k + 1) - 1 = k /\ k \in Nat
        BY <2>3, <2>4, <1>3
    <2>6. L(i)[k + 1] = d
        BY <2>3, <2>5, <1>3 DEF IsList
    <2>7. At(d, i, k + 1)
        BY <2>3, <2>5, <2>6, <1>3
    <2>8. ASSUME NEW j, NEW l, At(d, j, l)
          PROVE  j = i /\ l = k + 1
        <3>1. l # 1
            BY <2>8, <1>3, <1>6 DEF IsList, ListsInv, ListsOK
        <3>2. /\ l - 1 \in Nat /\ L(j)[l - 1] \in DOMAIN blocks
              /\ At(L(j)[l - 1], j, l - 1)
              /\ d = blocks[L(j)[l - 1]].next
            BY <1>4, <2>8, <3>1
        <3>3. L(j)[l - 1] = c
            BY <3>2, <1>6 DEF ListsInv, ListsOK
        <3>4. j = i /\ l - 1 = k
            BY <2>1, <3>2, <3>3
        <3>5. l \in Nat
            BY <2>8, <1>3
        <3> QED
            BY <3>4, <3>5, <2>5
    <2> QED
        BY <2>7, <2>8
<1> HIDE DEF At, Once
<1>7. Bad = {}
    <2> SUFFICES ASSUME Bad # {} PROVE FALSE
        OBVIOUS
    <2>1. PICK c \in Bad : \A x \in Bad : c <= x
        <3>1. Bad \subseteq Nat
            BY <1>1
        <3> HIDE DEF Bad
        <3> QED
            BY <3>1, LeastNumber
    <2>2. c \in DOMAIN blocks /\ ~Once(c)
        BY <2>1
    <2>3. PICK d \in DOMAIN blocks : c = blocks[d].next
        BY <1>5, <2>2 DEF ListsInv, ListsOK
    <2>4. d < c
        BY <1>1, <2>2, <2>3 DEF ListsInv, ListsOK, NextsRise
    <2>5. d \in Bad
        BY <1>1, <1>6, <2>2, <2>3
    <2> QED
        BY <1>1, <2>1, <2>2, <2>4, <2>5
<1> QED
    <2>1. Once(b)
        BY <1>7
    <2> QED
        BY <2>1 DEF Once, At, L

(* A new block that becomes a list of its own.                             *)
LEMMA NewList ==
    ASSUME NEW bs \in Seq(Block), NEW heads, ListsOK(bs, heads), NEW new \in Block, new.next = 0
    PROVE  ListsOK(Append(bs, new), Append(heads, Len(bs) + 1))
<1> DEFINE cs == Append(bs, new)
           hs == Append(heads, Len(bs) + 1)
<1>1. /\ Len(bs) \in Nat /\ DOMAIN bs = 1 .. Len(bs)
      /\ heads \in Seq(DOMAIN bs) /\ Len(heads) \in Nat /\ DOMAIN heads = 1 .. Len(heads)
      /\ \A i \in DOMAIN heads : heads[i] \in DOMAIN bs
    BY LenProperties, ElementOfSeq DEF ListsOK
<1>2. /\ cs \in Seq(Block) /\ DOMAIN cs = 1 .. Len(bs) + 1
      /\ \A b \in DOMAIN bs : cs[b] = bs[b]
      /\ cs[Len(bs) + 1].next = 0
    BY <1>1, AppendProperties, LenProperties
<1>3. heads \in Seq(DOMAIN cs) /\ Len(bs) + 1 \in DOMAIN cs
    <2>1. DOMAIN bs \subseteq DOMAIN cs
        BY <1>1, <1>2
    <2> QED
        BY <1>1, <1>2, <2>1, SeqMonotonic
<1>4. /\ hs \in Seq(DOMAIN cs) /\ DOMAIN hs = 1 .. Len(heads) + 1
      /\ \A i \in DOMAIN heads : hs[i] = heads[i]
      /\ hs[Len(heads) + 1] = Len(bs) + 1
    <2> HIDE DEF cs
    <2> QED
        BY <1>1, <1>3, AppendProperties, LenProperties
<1> HIDE DEF cs, hs
<1>5. \A b \in DOMAIN cs : cs[b].next # 0 => b \in DOMAIN bs
    BY <1>1, <1>2
<1>6. \A b \in DOMAIN bs : bs[b].next # Len(bs) + 1
    <2>1. Len(bs) + 1 # 0 /\ Len(bs) + 1 \notin DOMAIN bs
        BY <1>1
    <2> QED
        BY <2>1 DEF ListsOK, NextsRise
<1>7. NextsRise(cs)
    BY <1>1, <1>2, <1>5 DEF ListsOK, NextsRise
<1>8. \A i, j \in DOMAIN hs : hs[i] = hs[j] => i = j
    BY <1>1, <1>4, SMTT(30) DEF ListsOK
<1>9. \A b, c \in DOMAIN cs : cs[b].next = cs[c].next => b = c \/ cs[b].next = 0
    BY <1>2, <1>5 DEF ListsOK
<1>10. \A b \in DOMAIN cs, i \in DOMAIN hs : cs[b].next # hs[i]
    <2> SUFFICES ASSUME NEW b \in DOMAIN cs, NEW i \in DOMAIN hs, cs[b].next = hs[i]
                 PROVE  FALSE
        OBVIOUS
    <2>1. hs[i] # 0
        BY <1>1, <1>4
    <2>2. b \in DOMAIN bs /\ cs[b] = bs[b]
        BY <1>2, <1>5, <2>1
    <2>3. CASE i \in DOMAIN heads
        BY <2>2, <2>3, <1>4 DEF ListsOK
    <2>4. CASE i = Len(heads) + 1
        BY <2>2, <2>4, <1>4, <1>6
    <2> QED
        BY <2>3, <2>4, <1>1, <1>4
<1>11. ASSUME NEW b \in DOMAIN cs
       PROVE  \/ \E i \in DOMAIN hs : b = hs[i]
              \/ \E c \in DOMAIN cs : b = cs[c].next
    <2>1. CASE b = Len(bs) + 1
        <3>1. Len(heads) + 1 \in DOMAIN hs
            BY <1>1, <1>4
        <3> QED
            BY <2>1, <3>1, <1>4
    <2>2. CASE b \in DOMAIN bs
        <3>1. DOMAIN bs \subseteq DOMAIN cs /\ DOMAIN heads \subseteq DOMAIN hs
            BY <1>1, <1>2, <1>4
        <3>2. CASE \E i \in DOMAIN heads : b = heads[i]
            BY <3>1, <3>2, <1>4
        <3>3. CASE \E c \in DOMAIN bs : b = bs[c].next
            BY <3>1, <3>3, <1>2
        <3> QED
            BY <2>2, <3>2, <3>3 DEF ListsOK
    <2> QED
        BY <2>1, <2>2, <1>1, <1>2
<1> QED
    BY <1>4, <1>7, <1>8, <1>9, <1>10, <1>11 DEF ListsOK, cs, hs

(* A new block behind the last one of a list.                              *)
LEMMA LongerList ==
    ASSUME NEW bs \in Seq(Block), NEW heads, ListsOK(bs, heads), NEW new \in Block, new.next = 0,
           NEW tail \in DOMAIN bs, bs[tail].next = 0
    PROVE  ListsOK(Append(LinkToNew(bs, tail), new), heads)
<1> DEFINE n  == Len(bs) + 1
           ls == LinkToNew(bs, tail)
           cs == Append(ls, new)
<1>1. /\ Len(bs) \in Nat /\ DOMAIN bs = 1 .. Len(bs)
      /\ heads \in Seq(DOMAIN bs) /\ Len(heads) \in Nat /\ DOMAIN heads = 1 .. Len(heads)
      /\ \A i \in DOMAIN heads : heads[i] \in DOMAIN bs
    BY LenProperties, ElementOfSeq DEF ListsOK
<1> DEFINE linked == [bs[tail] EXCEPT !.next = n]
<1>2. linked \in Block /\ linked.next = n
    <2>1. bs[tail] \in Block
        BY <1>1, ElementOfSeq
    <2>2. n \in Nat
        BY <1>1
    <2> HIDE DEF n
    <2> QED
        BY <2>1, <2>2 DEF Block
<1>3. ls = [bs EXCEPT ![tail] = linked]
    BY DEF LinkToNew
<1> HIDE DEF linked
<1>4. /\ ls \in Seq(Block) /\ Len(ls) = Len(bs)
      /\ \A b \in DOMAIN bs : ls[b] = IF b = tail THEN linked ELSE bs[b]
    BY <1>1, <1>2, <1>3, ExceptSeq
<1> HIDE DEF ls
<1>5. /\ cs \in Seq(Block) /\ DOMAIN cs = 1 .. n
      /\ \A b \in DOMAIN bs : cs[b] = ls[b]
      /\ cs[n].next = 0
    <2>1. /\ Append(ls, new) \in Seq(Block) /\ Len(Append(ls, new)) = Len(ls) + 1
          /\ \A b \in 1 .. Len(ls) : Append(ls, new)[b] = ls[b]
          /\ Append(ls, new)[Len(ls) + 1] = new
        BY <1>4, AppendProperties
    <2>2. DOMAIN cs = 1 .. n
        BY <2>1, <1>4, LenProperties
    <2> QED
        BY <2>1, <2>2, <1>1, <1>4
<1> HIDE DEF cs
<1>6. /\ n \in DOMAIN cs /\ n \notin DOMAIN bs /\ n # 0
      /\ DOMAIN bs \subseteq DOMAIN cs
      /\ \A b \in DOMAIN cs : b = n \/ b \in DOMAIN bs
      /\ \A b \in DOMAIN bs : b < n
    BY <1>1, <1>5
<1> HIDE DEF n
<1>7. /\ cs[tail].next = n /\ cs[n].next = 0
      /\ \A b \in DOMAIN bs : b # tail => cs[b].next = bs[b].next
    BY <1>2, <1>4, <1>5
<1>8. \A b \in DOMAIN bs : bs[b].next # n
    BY <1>6 DEF ListsOK, NextsRise
<1>9. NextsRise(cs)
    BY <1>6, <1>7 DEF ListsOK, NextsRise
<1>10. heads \in Seq(DOMAIN cs)
    BY <1>1, <1>6, SeqMonotonic
<1>11. \A b, c \in DOMAIN cs : cs[b].next = cs[c].next => b = c \/ cs[b].next = 0
    BY <1>6, <1>7, <1>8 DEF ListsOK
<1>12. \A b \in DOMAIN cs, i \in DOMAIN heads : cs[b].next # heads[i]
    <2> SUFFICES ASSUME NEW b \in DOMAIN cs, NEW i \in DOMAIN heads
                 PROVE  cs[b].next # heads[i]
        OBVIOUS
    <2>1. heads[i] \in DOMAIN bs /\ heads[i] # 0
        BY <1>1
    <2>2. CASE b = n \/ b = tail
        BY <2>1, <2>2, <1>6, <1>7
    <2>3. CASE b \in DOMAIN bs /\ b # tail
        BY <2>3, <1>7 DEF ListsOK
    <2> QED
        BY <2>2, <2>3, <1>6
<1>13. ASSUME NEW b \in DOMAIN cs
       PROVE  \/ \E i \in DOMAIN heads : b = heads[i]
              \/ \E c \in DOMAIN cs : b = cs[c].next
    <2>1. CASE b = n
        BY <2>1, <1>6, <1>7
    <2>2. CASE b \in DOMAIN bs
        <3>1. ASSUME NEW c \in DOMAIN bs, b = bs[c].next
              PROVE  c \in DOMAIN cs /\ b = cs[c].next
            <4>1. c # tail
                BY <3>1, <2>2, <1>1
            <4> QED
                BY <3>1, <4>1, <1>6, <1>7
        <3> QED
            BY <2>2, <3>1 DEF ListsOK
    <2> QED
        BY <2>1, <2>2, <1>6
<1> QED
    BY <1>9, <1>10, <1>11, <1>12, <1>13 DEF ListsOK, cs, ls

(* Sizes and offsets do not matter.                                        *)
LEMMA SameLists ==
    ASSUME NEW bs, NEW heads, ListsOK(bs, heads), NEW cs, DOMAIN cs = DOMAIN bs,
           \A b \in DOMAIN bs : cs[b].next = bs[b].next
    PROVE  ListsOK(cs, heads)
    BY DEF ListsOK, NextsRise

(* getMemory keeps the lists.                                              *)
LEMMA MemoryLinks ==
    ASSUME RegionInv, ListsInv, TailsInv, NEW t \in Thread, NEW size \in Sizes,
           getMemory(t, size), running' = "yes"
    PROVE  ListsInv' /\ TailsInv'
<1> DEFINE first  == blockTail[t] = 0
           start  == IF first THEN Append(blocks, NewBlock(size)) ELSE blocks
           heads  == IF first THEN Append(allBlockTails, Len(start)) ELSE allBlockTails
           tail   == IF first THEN Len(start) ELSE blockTail[t]
           noRoom == Room(start[tail]) < size
           all    == IF noRoom THEN Append(LinkToNew(start, tail), NewBlock(size)) ELSE start
           last   == IF noRoom THEN Len(all) ELSE tail
<1>1. /\ blocks \in Seq(Block) /\ Len(blocks) \in Nat /\ DOMAIN blocks = 1 .. Len(blocks)
      /\ blockTail \in [Thread -> 0 .. Len(blocks)]
    BY LenProperties DEF RegionInv, BlocksInv
<1>2. NewBlock(size) \in Block /\ NewBlock(size).next = 0
    BY NewBlockFits DEF NewBlock
<1>3. /\ start \in Seq(Block) /\ ListsOK(start, heads)
      /\ tail \in DOMAIN start /\ start[tail].next = 0
      /\ \A b \in DOMAIN blocks : b \in DOMAIN start /\ start[b] = blocks[b]
      /\ \A u \in Thread : u # t /\ blockTail[u] # 0 => blockTail[u] # tail
    <2>1. CASE first
        <3> DEFINE longer == Append(blocks, NewBlock(size))
        <3>1. /\ longer \in Seq(Block) /\ Len(longer) = Len(blocks) + 1
              /\ \A b \in 1 .. Len(blocks) : longer[b] = blocks[b]
              /\ longer[Len(blocks) + 1] = NewBlock(size)
            BY <1>1, <1>2, AppendProperties
        <3>2. DOMAIN longer = 1 .. Len(blocks) + 1
            BY <3>1, LenProperties
        <3>3. ListsOK(longer, Append(allBlockTails, Len(blocks) + 1))
            BY <1>1, <1>2, NewList DEF ListsInv
        <3>4. start = longer
            BY <2>1
        <3> HIDE DEF longer, start
        <3>5. tail = Len(blocks) + 1 /\ heads = Append(allBlockTails, Len(blocks) + 1)
            BY <2>1, <3>1, <3>4
        <3>6. \A u \in Thread : blockTail[u] # Len(blocks) + 1
            BY <1>1
        <3> HIDE DEF tail, heads
        <3>7. tail \in DOMAIN start /\ start[tail].next = 0
            BY <1>1, <1>2, <3>1, <3>2, <3>4, <3>5
        <3> QED
            BY <1>1, <3>1, <3>2, <3>3, <3>4, <3>5, <3>6, <3>7
    <2>2. CASE ~first
        <3>1. start = blocks /\ heads = allBlockTails /\ tail = blockTail[t]
            BY <2>2
        <3> HIDE DEF start, heads, tail
        <3>2. tail \in DOMAIN blocks
            BY <1>1, <2>2, <3>1
        <3> QED
            BY <1>1, <2>2, <3>1, <3>2 DEF ListsInv, TailsInv
    <2> QED
        BY <2>1, <2>2
<1>4. /\ PlaceIn(all, last, size)
      /\ blockTail' = [blockTail EXCEPT ![t] = last]
      /\ allBlockTails' = heads
    BY DEF getMemory
<1> HIDE DEF start, heads, tail
<1>5. Len(start) \in Nat /\ DOMAIN start = 1 .. Len(start)
    BY <1>3, LenProperties
<1>6. /\ all \in Seq(Block) /\ ListsOK(all, heads)
      /\ last \in DOMAIN all /\ all[last].next = 0
      /\ \A u \in Thread : u # t /\ blockTail[u] # 0 =>
            blockTail[u] # last /\ blockTail[u] \in DOMAIN all /\ all[blockTail[u]].next = 0
    <2>1. ASSUME NEW u \in Thread, u # t, blockTail[u] # 0
          PROVE  /\ blockTail[u] # tail /\ blockTail[u] \in DOMAIN start
                 /\ start[blockTail[u]].next = 0
        <3>1. blockTail[u] \in DOMAIN blocks
            BY <2>1, <1>1
        <3> QED
            BY <2>1, <3>1, <1>3 DEF TailsInv
    <2>2. CASE noRoom
        <3> DEFINE link == LinkToNew(start, tail)
                   linked == [start[tail] EXCEPT !.next = Len(start) + 1]
        <3>1. linked \in Block
            <4>1. start[tail] \in Block
                BY <1>3, <1>5, ElementOfSeq
            <4>2. Len(start) + 1 \in Nat
                BY <1>5
            <4> HIDE DEF start
            <4> QED
                BY <4>1, <4>2 DEF Block
        <3>2. link = [start EXCEPT ![tail] = linked]
            BY DEF LinkToNew
        <3> HIDE DEF link, linked
        <3>3. /\ link \in Seq(Block) /\ Len(link) = Len(start)
              /\ \A b \in DOMAIN start : b # tail => link[b] = start[b]
            BY <1>3, <1>5, <3>1, <3>2, ExceptSeq
        <3>4. /\ Append(link, NewBlock(size)) \in Seq(Block)
              /\ Len(Append(link, NewBlock(size))) = Len(start) + 1
              /\ \A b \in 1 .. Len(start) : Append(link, NewBlock(size))[b] = link[b]
              /\ Append(link, NewBlock(size))[Len(start) + 1] = NewBlock(size)
            BY <1>2, <3>3, AppendProperties
        <3>5. ListsOK(Append(link, NewBlock(size)), heads)
            BY <1>2, <1>3, LongerList DEF link
        <3>6. all = Append(link, NewBlock(size)) /\ last = Len(start) + 1
            BY <2>2, <3>4 DEF link
        <3> HIDE DEF all, last
        <3>7. DOMAIN all = 1 .. Len(start) + 1
            BY <3>4, <3>6, LenProperties
        <3> QED
            BY <1>2, <1>5, <2>1, <3>3, <3>4, <3>5, <3>6, <3>7
    <2>3. CASE ~noRoom
        <3>1. all = start /\ last = tail
            BY <2>3
        <3> QED
            BY <3>1, <2>1, <1>3
    <2> QED
        BY <2>2, <2>3
<1> HIDE DEF all, last
<1>7. DOMAIN blocks' = DOMAIN all /\ \A b \in DOMAIN all : blocks'[b].next = all[b].next
    <2>1. \A b \in DOMAIN all : all[b] \in Block
        BY <1>6, ElementOfSeq, LenProperties
    <2>2. [all[last] EXCEPT !.offset = @ + size].next = all[last].next
        BY <1>6, <2>1 DEF Block
    <2> QED
        BY <1>4, <2>2 DEF PlaceIn
<1>8. ListsInv'
    BY <1>4, <1>6, <1>7, SameLists DEF ListsInv
<1>9. TailsInv'
    BY <1>1, <1>4, <1>6, <1>7 DEF TailsInv
<1> QED
    BY <1>8, <1>9

(* The links while the program runs, and what the walk over them has done. *)
FreedOnce ==
    /\ running = "yes" => ListsInv /\ TailsInv
    /\ running = "destroyed" => \A b \in DOMAIN blocks : freed[b] = 1

(* The walk of destroyAllBlocks comes to every block once.                 *)
LEMMA FreedOnceStep ==
    ASSUME RegionInv, FreedOnce, [Next]_vars
    PROVE  FreedOnce'
<1>1. ASSUME NEW t \in Thread, NEW size \in Sizes, getMemory(t, size)
      PROVE  FreedOnce'
    <2>1. running = "yes" /\ running' \in {"yes", "exited"}
        BY <1>1 DEF getMemory
    <2> QED
        BY <1>1, <2>1, MemoryLinks DEF FreedOnce
<1>2. CASE destroyAllBlocks
    <2>1. ListsInv /\ BlocksInv
        BY <1>2 DEF destroyAllBlocks, FreedOnce, RegionInv
    <2>2. ASSUME NEW b \in DOMAIN blocks
          PROVE  Cardinality(Freeing(allBlockTails, b)) = 1
        <3>1. PICK i \in DOMAIN allBlockTails : \E k \in DOMAIN ListFrom(allBlockTails[i]) :
                  /\ ListFrom(allBlockTails[i])[k] = b
                  /\ \A j \in DOMAIN allBlockTails : \A l \in DOMAIN ListFrom(allBlockTails[j]) :
                        ListFrom(allBlockTails[j])[l] = b => j = i /\ l = k
            BY <2>1, EveryBlockOnce
        <3>2. PICK k \in DOMAIN ListFrom(allBlockTails[i]) :
                  /\ ListFrom(allBlockTails[i])[k] = b
                  /\ \A j \in DOMAIN allBlockTails : \A l \in DOMAIN ListFrom(allBlockTails[j]) :
                        ListFrom(allBlockTails[j])[l] = b => j = i /\ l = k
            BY <3>1
        <3>3. k \in DOMAIN blocks
            <4>1. allBlockTails[i] \in DOMAIN blocks
                BY <2>1, LenProperties, ElementOfSeq DEF ListsInv, ListsOK
            <4>2. /\ ListFrom(allBlockTails[i]) \in Seq(DOMAIN blocks)
                  /\ Len(ListFrom(allBlockTails[i])) <= Len(blocks)
                BY <2>1, <4>1, ListFromIsList DEF ListsInv, ListsOK
            <4>3. /\ blocks \in Seq(Block) /\ Len(blocks) \in Nat
                  /\ DOMAIN blocks = 1 .. Len(blocks)
                BY <2>1, LenProperties DEF BlocksInv
            <4> QED
                BY <3>2, <4>2, <4>3, LenProperties
        <3>4. Freeing(allBlockTails, b) = {<<i, k>>}
            <4>1. ASSUME NEW place \in Freeing(allBlockTails, b)
                  PROVE  place = <<i, k>>
                <5>1. /\ place = <<place[1], place[2]>> /\ place[1] \in DOMAIN allBlockTails
                      /\ place[2] \in DOMAIN ListFrom(allBlockTails[place[1]])
                      /\ ListFrom(allBlockTails[place[1]])[place[2]] = b
                    BY DEF Freeing
                <5> QED
                    BY <3>2, <5>1
            <4>2. <<i, k>> \in Freeing(allBlockTails, b)
                BY <3>2, <3>3 DEF Freeing
            <4> QED
                BY <4>1, <4>2
        <3> QED
            BY <3>4, FS_Singleton
    <2>3. /\ running' = "destroyed" /\ blocks' = blocks
          /\ freed' = [b \in DOMAIN blocks |-> Cardinality(Freeing(allBlockTails, b))]
        BY <1>2 DEF destroyAllBlocks
    <2> QED
        BY <2>2, <2>3 DEF FreedOnce
<1>3. CASE UNCHANGED vars
    BY <1>3 DEF vars, FreedOnce, ListsInv, TailsInv
<1> QED
    BY <1>1, <1>2, <1>3 DEF Next, Ended

(* Both invariants together.                                               *)
LEMMA RegionInvariant == Spec => [](RegionInv /\ FreedOnce)
<1>1. Init => RegionInv /\ FreedOnce
    <2> SUFFICES ASSUME Init PROVE RegionInv /\ FreedOnce
        OBVIOUS
    <2>1. /\ blocks = <<>> /\ DOMAIN blocks = {} /\ Len(blocks) = 0
          /\ allBlockTails = <<>> /\ DOMAIN allBlockTails = {}
        BY DEF Init
    <2>2. RegionInv
        BY <2>1 DEF Init, RegionInv, BlocksInv, ObjectsInv
    <2>3. ListsInv /\ TailsInv
        BY <2>1 DEF Init, ListsInv, ListsOK, NextsRise, TailsInv
    <2> QED
        BY <2>2, <2>3 DEF Init, FreedOnce
<1>2. RegionInv /\ FreedOnce /\ [Next]_vars => (RegionInv /\ FreedOnce)'
    BY RegionStep, FreedOnceStep
<1> QED
    BY <1>1, <1>2, PTL DEF Spec

(* While the program runs the tail of every thread ends one of the lists,  *)
(* which hold all blocks; destroyAllBlocks gives every block back, and     *)
(* none twice.                                                             *)
THEOREM BlocksAreFreedOnce == Spec => []EveryBlockIsListed
<1>1. ASSUME RegionInv, FreedOnce
      PROVE  EveryBlockIsListed
    <2>1. ASSUME running = "yes", NEW b \in DOMAIN blocks
          PROVE  \E list \in Lists :
                    b \in ToSet(list) /\ (blocks[b].next = 0 => Last(list) = b)
        <3>1. BlocksInv /\ ListsInv
            BY <1>1, <2>1 DEF RegionInv, FreedOnce
        <3>2. PICK i \in DOMAIN allBlockTails : \E k \in DOMAIN ListFrom(allBlockTails[i]) :
                      ListFrom(allBlockTails[i])[k] = b
            BY <3>1, EveryBlockOnce
        <3> DEFINE list == ListFrom(allBlockTails[i])
        <3>3. allBlockTails[i] \in DOMAIN blocks /\ allBlockTails[i] \in ToSet(allBlockTails)
            BY <3>1, LenProperties, ElementOfSeq DEF ListsInv, ListsOK, ToSet
        <3>4. list \in Seq(DOMAIN blocks) /\ IsList(list, allBlockTails[i])
            BY <3>1, <3>3, ListFromIsList DEF ListsInv, ListsOK
        <3>5. list \in Lists
            BY <3>3 DEF Lists
        <3>6. PICK k \in DOMAIN list : list[k] = b
            BY <3>2
        <3> HIDE DEF list
        <3>7. b \in ToSet(list)
            BY <3>6 DEF ToSet
        <3>8. ASSUME blocks[b].next = 0
              PROVE  Last(list) = b
            <4>1. Len(list) \in Nat /\ DOMAIN list = 1 .. Len(list) /\ \A l \in DOMAIN list : list[l] # 0
                <5>1. 0 \notin DOMAIN blocks
                    BY <3>1, LenProperties DEF BlocksInv
                <5> QED
                    BY <3>4, <5>1, LenProperties, ElementOfSeq
            <4>2. k = Len(list)
                <5> SUFFICES ASSUME k # Len(list) PROVE FALSE
                    OBVIOUS
                <5>1. k + 1 \in 2 .. Len(list) /\ (k + 1) - 1 = k
                    BY <3>6, <4>1
                <5>2. list[k + 1] = blocks[list[k]].next
                    BY <3>4, <5>1 DEF IsList
                <5> QED
                    BY <3>6, <3>8, <4>1, <5>1, <5>2
            <4> QED
                BY <3>6, <4>2 DEF Last
        <3> QED
            BY <3>5, <3>7, <3>8
    <2>2. ASSUME running = "yes", NEW t \in Thread, blockTail[t] # 0
          PROVE  blockTail[t] \in DOMAIN blocks /\ blocks[blockTail[t]].next = 0
        <3>1. /\ blocks \in Seq(Block) /\ Len(blocks) \in Nat /\ DOMAIN blocks = 1 .. Len(blocks)
              /\ blockTail \in [Thread -> 0 .. Len(blocks)]
            BY <1>1, LenProperties DEF RegionInv, BlocksInv
        <3> QED
            BY <1>1, <2>2, <3>1 DEF FreedOnce, TailsInv
    <2> QED
        BY <1>1, <2>1, <2>2 DEF EveryBlockIsListed, FreedOnce
<1> QED
    BY RegionInvariant, <1>1, PTL
===============================================================================

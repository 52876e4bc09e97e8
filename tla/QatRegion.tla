------------------------------- MODULE QatRegion -------------------------------
(***************************************************************************)
(* The memory the compiler makes its objects in: blocks of memory that     *)
(* each thread links into a list of its own, a new object always at the    *)
(* offset of the block at the end of the list.  Blocks are numbered in the *)
(* order in which malloc gives them.                                       *)
(***************************************************************************)
EXTENDS Integers, SequencesExt

CONSTANTS
    Thread,
    Sizes,         \* the sizes of the types that are allocated
    Header,        \* two counters and a pointer at the start of a block
    DefaultBlock,  \* defaultBlockSize
    Modulus,       \* 2^w for the width w of usize
    MaxBlocks      \* how many blocks malloc has

(* A block has room for three headers at least, and a type leaves a second *)
(* header free in a block made the usual way: otherwise Room would wrap.   *)
ASSUME SizeAssumption ==
    /\ Header \in Nat \ {0}
    /\ DefaultBlock \in Nat /\ DefaultBlock >= 3 * Header
    /\ Sizes \subseteq Nat \ {0}
    /\ Modulus \in Nat /\ Modulus > DefaultBlock
    /\ \A s \in Sizes :
          /\ s <= DefaultBlock - 2 * Header \/ s >= DefaultBlock - Header
          /\ 2 * s < Modulus
ASSUME BoundAssumption == MaxBlocks \in Nat

VARIABLES
    blocks,         \* what the headers hold: next block, size and offset
    blockTail,      \* the block a thread allocates in, 0 before its first
    allBlockTails,  \* the first block of each thread that has one
    objects,        \* the objects given out
    freed,          \* how often each block has been given back
    running         \* "yes", "destroyed", or "exited" when malloc fails

vars == <<blocks, blockTail, allBlockTails, objects, freed, running>>

Block == [next : Nat, size : Nat, offset : Nat]

-----------------------------------------------------------------------------
BlockSize(size) == IF size < DefaultBlock - Header THEN DefaultBlock ELSE 2 * size

NewBlock(size) == [next |-> 0, size |-> BlockSize(size), offset |-> Header]

(* Mutant: takes the size for the room.                                    *)
RoomInBlock(b) == b.size

(* What is free, as it is computed: the offset has the header in it, which *)
(* is taken off once more.                                                 *)
Room(b) == (b.size - Header - b.offset) % Modulus

Init ==
    /\ blocks = <<>>
    /\ blockTail = [t \in Thread |-> 0]
    /\ allBlockTails = <<>>
    /\ objects = {}
    /\ freed = <<>>
    /\ running = "yes"

(* The object goes to the end of what block b has in it.                   *)
PlaceIn(bs, b, size) ==
    /\ objects' = objects \cup {[block |-> b, at |-> bs[b].offset, size |-> size]}
    /\ blocks' = [bs EXCEPT ![b].offset = @ + size]

(* Mutant: the old tail is not linked to the new block.                    *)
Unlinked(bs, b) == bs

LinkToNew(bs, b) == [bs EXCEPT ![b].next = Len(bs) + 1]

(* getMemory.  A thread without a block takes one first; when there is no  *)
(* room in its block a new one is linked behind it, and is not checked     *)
(* again.  The program exits when malloc gives nothing.                    *)
getMemory(t, size) ==
    LET first  == blockTail[t] = 0
        start  == IF first THEN Append(blocks, NewBlock(size)) ELSE blocks
        tail   == IF first THEN Len(start) ELSE blockTail[t]
        noRoom == Room(start[tail]) < size
        all    == IF noRoom THEN Append(LinkToNew(start, tail), NewBlock(size)) ELSE start
        last   == IF noRoom THEN Len(all) ELSE tail
    IN  /\ running = "yes"
        /\ \/ /\ Len(all) <= MaxBlocks
              /\ PlaceIn(all, last, size)
              /\ blockTail' = [blockTail EXCEPT ![t] = last]
              /\ allBlockTails' = IF first THEN Append(allBlockTails, tail) ELSE allBlockTails
              /\ UNCHANGED <<freed, running>>
           \/ /\ Len(all) > MaxBlocks
              /\ running' = "exited"
              /\ UNCHANGED <<blocks, blockTail, allBlockTails, objects, freed>>

(* The list of blocks from one on, along next to the block that has none.  *)
ListFrom(b) ==
    CHOOSE list \in SeqOf(DOMAIN blocks, Len(blocks)) :
        /\ list # <<>> /\ list[1] = b /\ blocks[Last(list)].next = 0
        /\ \A k \in 2 .. Len(list) : list[k] = blocks[list[k - 1]].next

(* Where the walk over the lists from firsts comes to block b.             *)
Freeing(firsts, b) ==
    {place \in (DOMAIN firsts) \X (DOMAIN blocks) :
        LET list == ListFrom(firsts[place[1]])
        IN  place[2] \in DOMAIN list /\ list[place[2]] = b}

(* Called at the end of main and of finalise_errors; blockTail is left as  *)
(* it is, nothing is allocated any more.                                   *)
destroyAllBlocks ==
    /\ running = "yes"
    /\ freed' = [b \in DOMAIN blocks |-> Cardinality(Freeing(allBlockTails, b))]
    /\ allBlockTails' = <<>>
    /\ running' = "destroyed"
    /\ UNCHANGED <<blocks, blockTail, objects>>

Ended == running # "yes" /\ UNCHANGED vars

Next ==
    \/ \E t \in Thread, size \in Sizes : getMemory(t, size)
    \/ destroyAllBlocks
    \/ Ended

Spec == Init /\ [][Next]_vars

-----------------------------------------------------------------------------
(* The tail of a thread's list is the last block of one of the lists that  *)
(* destroyAllBlocks walks, the lists share nothing, and together they are  *)
(* all the blocks: each is given back, and given back once.                *)
Lists == {ListFrom(b) : b \in ToSet(allBlockTails)}

EveryBlockIsListed ==
    /\ running = "yes" =>
        /\ \A b \in DOMAIN blocks : \E list \in Lists : b \in ToSet(list)
        /\ \A t \in Thread :
              blockTail[t] # 0 => \E list \in Lists : Last(list) = blockTail[t]
    /\ running = "destroyed" =>
        \A b \in DOMAIN blocks : freed[b] = 1

(* Objects are disjoint, inside their blocks and past the headers, and     *)
(* never move: the region does what RegionObjects promises, although the   *)
(* room in a block is computed with a wrap and with one header too many.   *)
Promise ==
    INSTANCE RegionObjects WITH
        objects  <- objects,
        extents  <- [b \in DOMAIN blocks |-> blocks[b].size],
        returned <- running = "destroyed"

KeepsPromise == Promise!Spec
================================================================================

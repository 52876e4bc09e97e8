----------------------------- MODULE RegionObjects -----------------------------
(***************************************************************************)
(* What QatRegion promises: every object gets memory of its own inside a   *)
(* block it may use, objects stay where they are, and at the end every     *)
(* block goes back to the system once.                                     *)
(***************************************************************************)
EXTENDS Naturals

CONSTANTS
    Sizes,   \* the sizes of the objects
    Header   \* the first byte of a block that an object may use

VARIABLES
    objects,   \* the objects made: block, first byte and size
    extents,   \* the sizes of the blocks the region has
    returned   \* whether the blocks have been given back

vars == <<objects, extents, returned>>

Object == [block : Nat, at : Nat, size : Sizes]

Disjoint(o, p) ==
    o.block # p.block \/ o.at + o.size <= p.at \/ p.at + p.size <= o.at

Inside(o) ==
    o.block \in DOMAIN extents' /\ Header <= o.at /\ o.at + o.size <= extents'[o.block]

Init == objects = {} /\ extents = <<>> /\ ~returned

Allocate ==
    /\ ~returned
    /\ \A b \in DOMAIN extents : b \in DOMAIN extents' /\ extents'[b] = extents[b]
    /\ \E o \in objects' \ objects :
          /\ o \in Object /\ Inside(o)
          /\ \A p \in objects : Disjoint(o, p)
          /\ objects' = objects \cup {o}
    /\ UNCHANGED returned

Return == returned' /\ UNCHANGED <<objects, extents>>

Next == Allocate \/ Return

Spec == Init /\ [][Next]_vars
================================================================================

------------------------------ MODULE ValueTypes ------------------------------
(***************************************************************************)
(* What ir::Type does to copy, move and destroy the values of a type that  *)
(* has parts: structs without functions of their own for it, tuples, maybe *)
(* and mix types.                                                          *)
(*                                                                         *)
(* A part is "plain", like an integer, which is loaded and stored; an      *)
(* "owner", a struct that defines the two ways to copy, the two to move    *)
(* and a destructor; a "mover", an owner with simple-move in place of its  *)
(* ways to move; or "none", the variant of a mix that has no data.  What   *)
(* an owner's own functions do is not the compiler's: they are taken to    *)
(* hand one resource over, and to leave an instance moved from empty.      *)
(* Parts with parts of their own are left out, and so are arrays: the      *)
(* address a copy takes of an element is not well formed for a number or   *)
(* for anything that is a struct to LLVM.                                  *)
(*                                                                         *)
(* m is the memory: the parts and the tag of each local, and the resources *)
(* that were made, are alive, or had a whole value stored over the         *)
(* instance that held them.                                                *)
(***************************************************************************)
EXTENDS Integers, SequencesExt, FiniteSetsExt

Raw   == -2     \* memory nothing was stored to
Null  == -1     \* zeroed, or moved from
Plain == 0      \* what a plain part holds; an owner holds a resource, 1 or above

-----------------------------------------------------------------------------
(* Types: a kind and the sequence of what the parts, or the variants, are. *)
has_simple_copy(t) == ToSet(t.parts) \subseteq {"plain", "none"}
has_simple_move(t) == ToSet(t.parts) \subseteq {"plain", "none", "mover"}

(* A maybe and a mix have one place for data, which the tag tells of.      *)
Tagged(t) == t.kind \in {"maybe", "mix"}
Places(t) == IF Tagged(t) THEN {1} ELSE DOMAIN t.parts

findTagBitWidth(t) ==
    IF t.kind = "maybe" THEN 1
    ELSE CHOOSE w \in 1..8 : /\ 2^w > Len(t.parts) + 1
                             /\ \A less \in 1..(w - 1) : 2^less <= Len(t.parts) + 1
Tags(t) == IF Tagged(t) THEN 0..(2^findTagBitWidth(t) - 1) ELSE {0}

(* The tag an initialiser gives to a variant, and the variants with data   *)
(* that the operations of a mix take a tag for, by index from 0.           *)
get_index_of(variant) == variant
ActsOn(t, tag) == {i \in DOMAIN t.parts : t.parts[i] # "none" /\ tag = i - 1}

-----------------------------------------------------------------------------
(* The resources local v of type t gives access to.                        *)
HasData(t, tag) ==
    IF t.kind = "maybe" THEN tag = 1 ELSE tag \in DOMAIN t.parts /\ t.parts[tag] # "none"
HeldBy(m, t, v) ==
    IF Tagged(t) /\ ~HasData(t, m.tag[v]) THEN {}
    ELSE {m.cell[v][i] : i \in Places(t)} \ {Raw, Null, Plain}
Held(m, t) == UNION {HeldBy(m, t, v) : v \in DOMAIN m.cell}

(* A whole value is stored, or zeroed, where there may be one.             *)
Storing(m, t, after) ==
    [after EXCEPT !.storedOver = @ \cup ((m.alive \cap Held(m, t)) \ Held(after, t))]
Zeroed(m, t, v) == [m EXCEPT !.cell[v] = [i \in DOMAIN @ |-> Null], !.tag[v] = 0]
LoadStore(m, v, w) == [m EXCEPT !.cell[v] = m.cell[w], !.tag[v] = m.tag[w]]

Make(m, v, i) == [m EXCEPT !.made = @ + 1, !.alive = @ \cup {m.made + 1}, !.cell[v][i] = m.made + 1]
Fault(m) == [m EXCEPT !.faults = @ + 1]

-----------------------------------------------------------------------------
(* The parts.  An owner's functions are called with two places of memory;  *)
(* they meet an instance, an empty one, or what is a fault: neither.       *)
DestroyPart(m, part, v, i) ==
    LET c == m.cell[v][i]
    IN  CASE part = "plain" -> [m EXCEPT !.cell[v][i] = Null]
          [] part # "plain" /\ c \in m.alive -> [m EXCEPT !.alive = @ \ {c}]
          [] part # "plain" /\ c = Null -> m
          [] OTHER -> Fault(m)

CopyConstructPart(m, part, v, w, i) ==
    LET c == m.cell[w][i]
    IN  CASE part = "plain" \/ c = Null -> [m EXCEPT !.cell[v][i] = c]
          [] part # "plain" /\ c \in m.alive -> Make(m, v, i)
          [] OTHER -> Fault(m)

MoveConstructPart(m, part, v, w, i) ==
    LET c     == m.cell[w][i]
        moved == [m EXCEPT !.cell[v][i] = c, !.cell[w][i] = Null]
    IN  IF part = "owner" /\ c \notin m.alive \cup {Null} THEN Fault(moved) ELSE moved

CopyAssignPart(m, part, v, w, i) ==
    CASE part = "plain"           -> CopyConstructPart(m, part, v, w, i)
      [] part # "plain" /\ v = w -> m
      [] OTHER -> CopyConstructPart(DestroyPart(m, part, v, i), part, v, w, i)

MoveAssignPart(m, t, part, v, w, i) ==
    LET moved == MoveConstructPart(m, part, v, w, i)
    IN  CASE part # "owner" -> Storing(m, t, moved)
          [] part = "owner" /\ v = w -> m
          [] OTHER -> MoveConstructPart(DestroyPart(m, part, v, i), part, v, w, i)

(* What the expression that makes a value does to a part.                  *)
MakePart(m, part, v, i) ==
    CASE part = "none"  -> m
      [] part = "plain" -> [m EXCEPT !.cell[v][i] = Plain]
      [] OTHER -> Make(m, v, i)

OnPart(op, m, t, v, w, i) ==
    LET part == t.parts[i]
    IN  CASE op = "make"           -> MakePart(m, part, v, i)
          [] op = "copy construct" -> CopyConstructPart(m, part, v, w, i)
          [] op = "copy assign"    -> CopyAssignPart(m, part, v, w, i)
          [] op = "move construct" -> MoveConstructPart(m, part, v, w, i)
          [] op = "move assign"    -> MoveAssignPart(m, t, part, v, w, i)
          [] op = "destroy"        -> DestroyPart(m, part, v, i)

(* One part after the other: tuples and structs.                           *)
EachPart(op, m, t, v, w) ==
    LET after[i \in 0 .. Len(t.parts)] ==
            IF i = 0 THEN m ELSE OnPart(op, after[i - 1], t, v, w, i)
    IN  after[Len(t.parts)]

-----------------------------------------------------------------------------
(* maybe                                                                   *)
SetTag(m, v, tag) == [m EXCEPT !.tag[v] = tag]

(* Mutant: what has no value is left as it is.                             *)
CopyWhatIsThere(m, t, v, w) ==
    IF m.tag[w] = 1 THEN SetTag(CopyConstructPart(m, t.parts[1], v, w, 1), v, 1) ELSE m

MaybeCopyConstruct(m, t, v, w) ==
    CASE has_simple_copy(t) -> LoadStore(m, v, w)
      [] ~has_simple_copy(t) /\ m.tag[w] = 1 ->
            SetTag(CopyConstructPart(m, t.parts[1], v, w, 1), v, 1)
      [] OTHER -> Zeroed(m, t, v)

(* Mutant: nothing is assigned unless both have a value.                   *)
AssignBetweenValues(m, t, v, w) ==
    IF m.tag[v] = 1 /\ m.tag[w] = 1 THEN CopyAssignPart(m, t.parts[1], v, w, 1) ELSE m

MaybeCopyAssign(m, t, v, w) ==
    CASE has_simple_copy(t) -> LoadStore(m, v, w)
      [] ~has_simple_copy(t) /\ m.tag[v] = 1 /\ m.tag[w] = 1 -> CopyAssignPart(m, t.parts[1], v, w, 1)
      [] ~has_simple_copy(t) /\ m.tag[v] = 1 /\ m.tag[w] = 0 ->
            SetTag(DestroyPart(m, t.parts[1], v, 1), v, 0)
      [] ~has_simple_copy(t) /\ m.tag[v] = 0 /\ m.tag[w] = 1 ->
            SetTag(CopyConstructPart(m, t.parts[1], v, w, 1), v, 1)
      [] OTHER -> m

(* It asks for simple-copy, not for simple-move.                           *)
MaybeMoveConstruct(m, t, v, w) ==
    CASE has_simple_copy(t) -> Zeroed(LoadStore(m, v, w), t, w)
      [] ~has_simple_copy(t) /\ m.tag[w] = 1 ->
            SetTag(SetTag(MoveConstructPart(m, t.parts[1], v, w, 1), v, 1), w, 0)
      [] OTHER -> Zeroed(m, t, v)

(* The tag of what is moved from is only reset when both have a value.     *)
MaybeMoveAssign(m, t, v, w) ==
    CASE has_simple_move(t) -> Storing(m, t, Zeroed(LoadStore(m, v, w), t, w))
      [] ~has_simple_move(t) /\ m.tag[v] = 1 /\ m.tag[w] = 1 ->
            SetTag(MoveAssignPart(m, t, t.parts[1], v, w, 1), w, 0)
      [] ~has_simple_move(t) /\ m.tag[v] = 1 /\ m.tag[w] = 0 ->
            SetTag(DestroyPart(m, t.parts[1], v, 1), v, 0)
      [] ~has_simple_move(t) /\ m.tag[v] = 0 /\ m.tag[w] = 1 ->
            SetTag(MoveConstructPart(m, t.parts[1], v, w, 1), v, 1)
      [] OTHER -> m

(* Mutant: tests the tag the other way round.                              *)
DestroyEmpty(m, t, v) == IF m.tag[v] = 0 THEN DestroyPart(m, t.parts[1], v, 1) ELSE m

MaybeDestroy(m, t, v) == IF m.tag[v] = 1 THEN DestroyPart(m, t.parts[1], v, 1) ELSE m

-----------------------------------------------------------------------------
(* mix.  A chain of comparisons with the index of each variant that has    *)
(* data; where none is equal, nothing is done.                             *)
OnVariant(m, t, tag, Op(_, _)) ==
    LET those == ActsOn(t, tag)
    IN  IF those = {} THEN m ELSE Op(m, t.parts[Min(those)])

MixCopyConstruct(m, t, v, w) ==
    OnVariant(m, t, m.tag[w], LAMBDA x, part : SetTag(CopyConstructPart(x, part, v, w, 1), v, m.tag[w]))
MixMoveConstruct(m, t, v, w) ==
    OnVariant(m, t, m.tag[w], LAMBDA x, part : SetTag(MoveConstructPart(x, part, v, w, 1), v, m.tag[w]))

(* The data of the second is taken from the first, and no tag is stored.   *)
MixAssign(m, t, v, w, Assign(_, _), Construct(_, _)) ==
    IF m.tag[v] = m.tag[w] THEN OnVariant(m, t, m.tag[v], Assign)
    ELSE OnVariant(OnVariant(m, t, m.tag[v], LAMBDA x, part : DestroyPart(x, part, v, 1)),
                   t, m.tag[w], Construct)
MixCopyAssign(m, t, v, w) ==
    MixAssign(m, t, v, w, LAMBDA x, part : CopyAssignPart(x, part, v, v, 1),
                          LAMBDA x, part : CopyConstructPart(x, part, v, v, 1))
MixMoveAssign(m, t, v, w) ==
    MixAssign(m, t, v, w, LAMBDA x, part : MoveAssignPart(x, t, part, v, v, 1),
                          LAMBDA x, part : MoveConstructPart(x, part, v, v, 1))
MixDestroy(m, t, v) == OnVariant(m, t, m.tag[v], LAMBDA x, part : DestroyPart(x, part, v, 1))

-----------------------------------------------------------------------------
(* Tuples and structs load and store what is simple as a whole.            *)
TupleCopyConstruct(m, t, v, w) ==
    IF has_simple_copy(t) THEN LoadStore(m, v, w)
    ELSE EachPart("copy construct", m, t, v, w)
TupleCopyAssign(m, t, v, w) ==
    IF has_simple_copy(t) THEN LoadStore(m, v, w)
    ELSE EachPart("copy assign", m, t, v, w)
TupleMoveConstruct(m, t, v, w) ==
    IF has_simple_move(t) THEN Zeroed(LoadStore(m, v, w), t, w)
    ELSE EachPart("move construct", m, t, v, w)
TupleMoveAssign(m, t, v, w) ==
    IF has_simple_move(t) THEN Storing(m, t, Zeroed(LoadStore(m, v, w), t, w))
    ELSE EachPart("move assign", m, t, v, w)
TupleDestroy(m, t, v) ==
    IF has_simple_move(t) THEN Storing(m, t, Zeroed(m, t, v))
    ELSE EachPart("destroy", m, t, v, v)

-----------------------------------------------------------------------------
(* The operations of a type, whatever it is.                               *)
copy_construct_value(m, t, v, w) ==
    CASE t.kind = "maybe" -> MaybeCopyConstruct(m, t, v, w)
      [] t.kind = "mix"   -> MixCopyConstruct(m, t, v, w)
      [] OTHER            -> TupleCopyConstruct(m, t, v, w)

copy_assign_value(m, t, v, w) ==
    CASE t.kind = "maybe" -> MaybeCopyAssign(m, t, v, w)
      [] t.kind = "mix"   -> MixCopyAssign(m, t, v, w)
      [] OTHER            -> TupleCopyAssign(m, t, v, w)

move_construct_value(m, t, v, w) ==
    CASE t.kind = "maybe" -> MaybeMoveConstruct(m, t, v, w)
      [] t.kind = "mix"   -> MixMoveConstruct(m, t, v, w)
      [] OTHER            -> TupleMoveConstruct(m, t, v, w)

move_assign_value(m, t, v, w) ==
    CASE t.kind = "maybe" -> MaybeMoveAssign(m, t, v, w)
      [] t.kind = "mix"   -> MixMoveAssign(m, t, v, w)
      [] OTHER            -> TupleMoveAssign(m, t, v, w)

destroy_value(m, t, v) ==
    CASE t.kind = "maybe" -> MaybeDestroy(m, t, v)
      [] t.kind = "mix"   -> MixDestroy(m, t, v)
      [] OTHER            -> TupleDestroy(m, t, v)
================================================================================

------------------------------ MODULE LocalValues ------------------------------
(***************************************************************************)
(* A function whose arguments and locals, all of one type, are copied,     *)
(* moved and stored into one another, and destroyed where it ends: local   *)
(* declarations, assignments, 'copy and 'move, and destroy_locals.  No     *)
(* sentence asks whether a local was moved from, and one that was is       *)
(* destroyed as any other.  Sentences the compiler refuses are left out.   *)
(***************************************************************************)
EXTENDS ValueTypes

CONSTANTS
    Local,          \* names
    Arguments,      \* the sequence of those that are arguments
    Types,          \* the types looked at
    MaxSentences    \* bound on the sentences of the function

(* An argument is a place of its own, whatever it is called.               *)
ASSUME LocalAssumption ==
    Arguments \in Seq(Local) /\ IsInjective(Arguments) /\ MaxSentences \in Nat
(* Only the variants of a mix may be without data.                         *)
ASSUME TypesAssumption ==
    \A t \in Types : /\ t.kind \in {"tuple", "struct", "maybe", "mix"}
                     /\ t.parts \in Seq({"plain", "owner", "mover", "none"})
                     /\ t.kind # "mix" => "none" \notin ToSet(t.parts)
                     /\ t.kind = "maybe" => Len(t.parts) = 1

VARIABLES
    type,       \* of every local
    mem,        \* the memory
    locals,     \* the locals of the block, in the order they were declared
    said,       \* the number of sentences so far
    ended       \* 0 in the body, then one more than the locals destroyed

vars == <<type, mem, locals, said, ended>>

Declared == ToSet(locals)

(* What an initialiser stores: one variant, or none and a value, or all    *)
(* parts.  Nothing is stored for a variant without data.                   *)
Variants(t) == CASE t.kind = "maybe" -> {0, 1}
                 [] t.kind = "mix"   -> {get_index_of(i) : i \in DOMAIN t.parts}
                 [] OTHER -> {0}
Initialised(m, t, v, tag) ==
    CASE t.kind = "maybe" /\ tag = 0 -> Zeroed(m, t, v)
      [] t.kind = "maybe" /\ tag = 1 -> SetTag(MakePart(m, t.parts[1], v, 1), v, 1)
      [] t.kind = "mix" -> SetTag(MakePart(m, t.parts[tag], v, 1), v, tag)
      [] OTHER -> EachPart("make", m, t, v, v)

(* The arguments hold what the caller made; an alloca may hold any tag.    *)
Memory(t, tags) ==
    [cell |-> [v \in Local |-> [i \in Places(t) |-> Raw]], tag |-> tags,
     made |-> 0, alive |-> {}, storedOver |-> {}, faults |-> 0]

Entered(t, tags) ==
    LET after[k \in 0 .. Len(Arguments)] ==
            IF k = 0 THEN Memory(t, tags)
            ELSE Initialised(after[k - 1], t, Arguments[k], tags[Arguments[k]])
    IN  after[Len(Arguments)]

Init ==
    /\ type \in Types
    /\ \E tags \in [Local -> Tags(type)] :
          /\ \A v \in ToSet(Arguments) : tags[v] \in Variants(type)
          /\ mem = Entered(type, tags)
    /\ locals = Arguments /\ said = 0 /\ ended = 0

-----------------------------------------------------------------------------
Sentence == ended = 0 /\ said < MaxSentences /\ said' = said + 1 /\ UNCHANGED <<type, ended>>

Declare(v) == Sentence /\ v \notin Declared /\ locals' = Append(locals, v)
Assign(v, w) == Sentence /\ {v, w} \subseteq Declared /\ UNCHANGED locals

(* new v :: type, new v = w, new v = 'copy w, new v = 'move w              *)
DeclareEmpty(v) ==
    /\ Declare(v) /\ has_simple_move(type)
    /\ mem' = Zeroed(mem, type, v)

DeclareSame(v, w) ==
    /\ Declare(v) /\ w \in Declared
    /\ has_simple_copy(type) \/ has_simple_move(type)
    /\ mem' = IF has_simple_copy(type) THEN LoadStore(mem, v, w)
              ELSE Zeroed(LoadStore(mem, v, w), type, w)

DeclareCopy(v, w) ==
    /\ Declare(v) /\ w \in Declared
    /\ mem' = copy_construct_value(mem, type, v, w)

DeclareMove(v, w) ==
    /\ Declare(v) /\ w \in Declared
    /\ mem' = move_construct_value(mem, type, v, w)

(* v = w: the source is zeroed before the value is stored.                 *)
AssignSame(v, w) ==
    /\ Assign(v, w)
    /\ has_simple_copy(type) \/ has_simple_move(type)
    /\ mem' = IF has_simple_copy(type) THEN LoadStore(mem, v, w)
              ELSE Storing(mem, type, [Zeroed(mem, type, w) EXCEPT !.cell[v] = mem.cell[w],
                                                                   !.tag[v] = mem.tag[w]])

(* v = 'copy w                                                             *)
AssignCopy(v, w) ==
    /\ Assign(v, w)
    /\ mem' = IF has_simple_copy(type) THEN LoadStore(mem, v, w)
              ELSE copy_assign_value(mem, type, v, w)

(* v = 'move w; moved to itself a local ends as what is moved from.        *)
AssignMove(v, w) ==
    /\ Assign(v, w)
    /\ LET moved == IF has_simple_move(type)
                    THEN Storing(mem, type, Zeroed(LoadStore(mem, v, w), type, w))
                    ELSE move_assign_value(mem, type, v, w)
       IN  mem' = IF v = w THEN Storing(mem, type, moved) ELSE moved

(* Block::destroy_locals, one local after the other.                       *)
EndBlock == ended = 0 /\ ended' = 1 /\ UNCHANGED <<type, mem, locals, said>>

DestroyLocal ==
    /\ ended \in DOMAIN locals
    /\ mem' = destroy_value(mem, type, locals[ended])
    /\ ended' = ended + 1
    /\ UNCHANGED <<type, locals, said>>

Next ==
    \/ \E v \in Local : DeclareEmpty(v)
    \/ \E v, w \in Local : \/ DeclareSame(v, w) \/ DeclareCopy(v, w) \/ DeclareMove(v, w)
                           \/ AssignSame(v, w) \/ AssignCopy(v, w) \/ AssignMove(v, w)
    \/ EndBlock \/ DestroyLocal

Spec == Init /\ [][Next]_vars

-----------------------------------------------------------------------------
(* An owner's functions meet memory that holds an instance, or one that    *)
(* was moved from: never memory nothing was stored to, and never an        *)
(* instance that is already destroyed.  Moves leave the source to be       *)
(* destroyed again, and tags that stay behind say what is in the data.     *)
OwnersMeetInstances == mem.faults = 0

(* A resource is alive as long as a local that is not destroyed holds it,  *)
(* in one place, and no longer, but for those a whole value was stored     *)
(* over: simple moves destroy nothing first, and neither does the end of a *)
(* tuple or struct that has simple-move.                                   *)
Remaining == {locals[i] : i \in {j \in DOMAIN locals : j >= ended}}
Holds(v, i) == IF mem.cell[v][i] \in HeldBy(mem, type, v) THEN mem.cell[v][i] ELSE Null

AliveIffHeld ==
    LET held == UNION {HeldBy(mem, type, v) : v \in Remaining}
    IN  /\ held \subseteq mem.alive
        /\ mem.alive \subseteq held \cup mem.storedOver
        /\ \A v, w \in Remaining, i, j \in Places(type) :
                Holds(v, i) = Holds(w, j) => Holds(v, i) = Null \/ (v = w /\ i = j)

(* A copy leaves its source as it is, and is what the source is: with data *)
(* where the source has data, and empty where it is empty.                 *)
Shape(m, v) ==
    <<m.tag[v], IF Tagged(type) /\ ~HasData(type, m.tag[v]) THEN <<>>
                ELSE [i \in Places(type) |-> IF m.cell[v][i] > Plain THEN "resource"
                                             ELSE IF m.cell[v][i] = Plain THEN "plain" ELSE "empty"]>>

CopiesAreLikeTheirSource ==
    [][\A v, w \in Local :
        DeclareCopy(v, w) \/ AssignCopy(v, w) =>
            /\ mem'.cell[w] = mem.cell[w] /\ mem'.tag[w] = mem.tag[w]
            /\ Shape(mem', v) = Shape(mem, w)]_vars

(* match: "All possible variants of the mix type are already mentioned in  *)
(* the match sentence", so that there is no need for an else: a local of a *)
(* mix type holds one of its variants.                                     *)
LocalsHoldAVariant ==
    type.kind = "mix" /\ ended = 0 => \A v \in Declared : mem.tag[v] \in Variants(type)
================================================================================

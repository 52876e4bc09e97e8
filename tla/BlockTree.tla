------------------------------- MODULE BlockTree -------------------------------
(***************************************************************************)
(* The blocks of one function: ir::Block, the locals each declares, the    *)
(* instructions of its basic block, and the links parent, children,        *)
(* previous and next by which names are found and locals are destroyed.    *)
(* A function under construction is a record: its blocks in the order they *)
(* were created, its locals, and the active block without a parent.        *)
(***************************************************************************)
EXTENDS Integers, SequencesExt

(* active: the child that is active, 0 if the block itself is.             *)
Block(parent) ==
    [parent |-> parent, previous |-> 0, next |-> 0, active |-> 0,
     values |-> <<>>, code |-> <<>>]

NewFunction == [blocks |-> <<Block(0)>>, locals |-> <<>>, active |-> 1]

Create(f, parent) == [f EXCEPT !.blocks = Append(@, Block(parent))]
Created(f) == Len(f.blocks)

(* Mutant: the link only one way.                                          *)
LinkForward(f, b, before) == [f EXCEPT !.blocks[before].next = b]

(* link_previous_block: whatever next was, it is overwritten.              *)
Link(f, b, before) ==
    [f EXCEPT !.blocks[b].previous = before, !.blocks[before].next = b]

(* The blocks from b up to the one without a parent.                       *)
Lineage(f, b) ==
    LET up[c \in 0 .. Len(f.blocks)] == IF c = 0 THEN {} ELSE {c} \cup up[f.blocks[c].parent]
    IN  up[b]

(* set_active: b forgets its active child, and every block above it makes  *)
(* the one below active.                                                   *)
SetActive(f, b) ==
    LET line == Lineage(f, b)
        Below(c) == CHOOSE d \in line : f.blocks[d].parent = c
    IN  [f EXCEPT
            !.blocks = [c \in DOMAIN @ |->
                IF c = b THEN [@[c] EXCEPT !.active = 0]
                ELSE IF c \in line THEN [@[c] EXCEPT !.active = Below(c)] ELSE @[c]],
            !.active = CHOOSE c \in line : f.blocks[c].parent = 0]

(* Function::get_block and Block::get_active; the builder inserts there.   *)
Current(f) ==
    LET down[c \in DOMAIN f.blocks] == IF f.blocks[c].active = 0 THEN c ELSE down[f.blocks[c].active]
    IN  down[f.active]

-----------------------------------------------------------------------------
(* Locals.                                                                 *)

(* new_local in block b.  kind: "argument", "local", "index" or "item";    *)
(* site: the sentence that declares it, which the code does not keep.      *)
Local(name, kind, site) == [name |-> name, kind |-> kind, site |-> site]
NewLocal(f, b, local) ==
    [f EXCEPT !.locals = Append(@, local), !.blocks[b].values = Append(@, Len(f.locals) + 1)]

(* The index and the item of a loop are a number and a reference.          *)
Destructible(local) == local.kind \in {"argument", "local"}

(* The locals has_value and collect_all_local_values_so_far go through.    *)
Visible(f, b) ==
    LET seen[c \in 0 .. Len(f.blocks)] ==
            IF c = 0 THEN {}
            ELSE ToSet(f.blocks[c].values) \cup seen[f.blocks[c].previous] \cup seen[f.blocks[c].parent]
    IN  seen[b]

HasValue(f, b, name) == \E l \in Visible(f, b) : f.locals[l].name = name
(* Two arguments may have one name: the first is found.                    *)
GetValue(f, b, name) ==
    LET named == {l \in Visible(f, b) : f.locals[l].name = name}
    IN  CHOOSE l \in named : \A m \in named : l <= m

(* collect_locals_from: a block that is both next and child comes twice.   *)
LocalsFrom(f, b) ==
    LET from[c \in 0 .. Len(f.blocks)] ==
            IF c = 0 THEN <<>>
            ELSE LET children == [d \in DOMAIN f.blocks |->
                                     IF f.blocks[d].parent = c THEN from[d] ELSE <<>>]
                 IN  f.blocks[c].values \o FlattenSeq(children) \o from[f.blocks[c].next]
    IN  from[b]

(* Mutant: not the blocks that follow.                                     *)
LocalsAlongOne(f, b) == f.blocks[b].values

(* What destroy_locals goes through.                                       *)
LocalsAlong(f, b) ==
    LET along[c \in 0 .. Len(f.blocks)] ==
            IF c = 0 THEN <<>> ELSE f.blocks[c].values \o along[f.blocks[c].next]
    IN  along[b]

-----------------------------------------------------------------------------
(* Instructions.                                                           *)

Nowhere == 0
Instr(op, local, yes, no, why) == [op |-> op, local |-> local, yes |-> yes, no |-> no, why |-> why]
OnLocal(op, l, why) == Instr(op, l, Nowhere, Nowhere, why)
BrFor(b, why)    == Instr("br", 0, b, Nowhere, why)
Br(b)            == BrFor(b, "")
CondBr(yes, no, known) == Instr("cond", 0, yes, no, known)
Ret(why)         == Instr("ret", 0, Nowhere, Nowhere, why)

Terminators == {"br", "cond", "ret"}
IsTerminated(block) == \E i \in DOMAIN block.code : block.code[i].op \in Terminators

Emit(f, code) == [f EXCEPT !.blocks[Current(f)].code = @ \o code]

(* Mutant: add_branch does not look for a terminator.                      *)
AddBranchAlways(f, b, why) == Emit(f, <<BrFor(b, why)>>)

(* add_branch: nothing in a block that has a terminator.                   *)
AddBranchFor(f, b, why) ==
    IF IsTerminated(f.blocks[Current(f)]) THEN f ELSE Emit(f, <<BrFor(b, why)>>)
AddBranch(f, b) == AddBranchFor(f, b, "")

Destructors(f, locals, why) ==
    FlattenSeq([n \in DOMAIN locals |->
        IF Destructible(f.locals[locals[n]]) THEN <<OnLocal("destroy", locals[n], why)>> ELSE <<>>])
Destroy(f, locals, why) == Emit(f, Destructors(f, locals, why))

(* destroy_locals: at the end of a scope.                                  *)
DestroyLocals(f, b) == Destroy(f, LocalsAlong(f, b), "scope")
(* Mutants: a jump destroys what is visible, a return what was declared.   *)
DestroyLocalsVisible(f, b) == Destroy(f, SetToSeq(Visible(f, Current(f))), "jump")
DestructorCallerAll(f)     == Destroy(f, LocalsFrom(f, 1), "return")

(* destroy_locals_from: before a jump.                                     *)
DestroyLocalsFrom(f, b) == Destroy(f, LocalsFrom(f, b), "jump")
(* destructor_caller: before the function returns.                         *)
DestructorCaller(f) == Destroy(f, SetToSeq(Visible(f, Current(f))), "return")
================================================================================

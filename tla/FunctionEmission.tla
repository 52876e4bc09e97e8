---------------------------- MODULE FunctionEmission ----------------------------
(***************************************************************************)
(* From the sentences of a function to its blocks, and the run of what was *)
(* emitted: FunctionPrototype::emit_definition, the emit of the sentences, *)
(* function_return_handler.  A step of the emission is one sentence, or    *)
(* what the emit of a sentence does after the sentences within it; a step  *)
(* of the run is one instruction.                                          *)
(***************************************************************************)
EXTENDS FunctionSentences, BlockTree, FiniteSets

VARIABLES
    program,
    fn,          \* the function under construction
    frames,      \* the emit_sentences on the C++ stack, the innermost last
    loopsInfo,   \* EmitCtx::loopsInfo
    breakables,  \* EmitCtx::breakables
    phase,       \* "emit", "error", "crash", then "run" and "returned"
    at,          \* of the run: the block and the instruction
    store        \* of the run: every local "unset", "alive", "moved" or "gone"

emitVars == <<fn, frames, loopsInfo, breakables>>
vars     == <<program, emitVars, phase, at, store>>

(* after: what the emit that called emit_sentences has left to do.         *)
Frame(body, after) == [body |-> body, next |-> 1, ended |-> FALSE, after |-> after]

Loops == {"loop if", "loop to", "loop", "loop in"}

Top      == Last(frames)
Emitting == phase = "emit"
InBody   == ~Top.ended /\ Top.next <= Len(Top.body)
Snt      == Top.body[Top.next]
At(is)   == Emitting /\ InBody /\ Snt.is = is
After(is) == Emitting /\ ~InBody /\ Top.after.is = is
Here     == Current(fn)

Advanced == [frames EXCEPT ![Len(frames)].next = @ + 1]
(* emit_sentences stops after a sentence that is a terminator.             *)
Ended    == [frames EXCEPT ![Len(frames)].next = @ + 1, ![Len(frames)].ended = TRUE]

Still  == UNCHANGED <<program, at, store>>
Fail(how) == phase' = how /\ UNCHANGED <<program, emitVars, at, store>>
Go(f, fs) == fn' = f /\ frames' = fs /\ UNCHANGED <<phase, loopsInfo, breakables>> /\ Still

-----------------------------------------------------------------------------
(* Sentences without sentences.                                            *)

Has(name) == HasValue(fn, Here, name)
LocalOf(name) == GetValue(fn, Here, name)
(* 'move name, or a new value.                                             *)
Moved(f, from) ==
    IF from = NoName THEN f
    ELSE Emit(f, <<OnLocal("move", GetValue(f, Current(f), from), "")>>)

Site == [of |-> Top.after.is, body |-> Top.body, pos |-> Top.next]

LocalDeclaration ==
    /\ At("let")
    /\ IF Has(Snt.name) \/ (Snt.from # NoName /\ ~Has(Snt.from)) THEN Fail("error")
       ELSE LET new == NewLocal(Moved(fn, Snt.from), Here, Local(Snt.name, "local", Site))
            IN  Go(Emit(new, <<OnLocal("init", Len(new.locals), "")>>), Advanced)

UseEntity ==
    /\ At("use")
    /\ IF Has(Snt.name) THEN Go(Emit(fn, <<OnLocal("use", LocalOf(Snt.name), "")>>), Advanced)
       ELSE Fail("error")

MoveEntity ==
    /\ At("move")
    /\ IF Has(Snt.name) THEN Go(Moved(fn, Snt.name), Advanced) ELSE Fail("error")

(* The old value is overwritten.                                           *)
Assignment ==
    /\ At("assign")
    /\ IF Has(Snt.name) /\ (Snt.from = NoName \/ Has(Snt.from))
       THEN Go(Moved(Emit(fn, <<OnLocal("init", LocalOf(Snt.name), "assign")>>), Snt.from), Advanced)
       ELSE Fail("error")

GiveSentence ==
    /\ At("give")
    /\ LET value == Snt.value
       IN  IF value = "self"
           THEN IF program.gives = "self" THEN Go(Emit(fn, <<Ret("self")>>), Ended) ELSE Fail("error")
           ELSE IF (value = "nothing") # (program.gives = "void") \/ program.gives = "self"
                   \/ (value \notin {"nothing", NoName} /\ ~Has(value))
           THEN Fail("error")
           ELSE Go(Emit(DestructorCaller(IF value = "nothing" THEN fn ELSE Moved(fn, value)),
                        <<Ret(program.gives)>>), Ended)

(* The record that a jump is for: the one with its tag, or the only one.   *)
Chosen(records, tag) ==
    IF tag = NoTag THEN IF Len(records) = 1 THEN {1} ELSE {}
    ELSE {i \in DOMAIN records : records[i].tag = tag}

JumpTo(from, to, why) == Go(AddBranchFor(DestroyLocalsFrom(fn, from), to, why), Ended)

Break ==
    /\ At("break")
    /\ IF Chosen(breakables, Snt.tag) = {} THEN Fail("error")
       ELSE LET record == breakables[CHOOSE i \in Chosen(breakables, Snt.tag) : TRUE]
            IN  JumpTo(record.true, record.rest, "")

(* The loops whose bodies are being emitted, by the block after them.      *)
OpenLoops == {frames[i].after.rest : i \in {j \in DOMAIN frames : frames[j].after.is \in Loops}}

(* The loop over loopsInfo counts down with i >= 0 on an unsigned i: with  *)
(* a tag that no record has it leaves the vector.  As loop in leaves its   *)
(* record, the loop may be over: the branch is marked then, which the code *)
(* does not do.                                                            *)
Continue ==
    /\ At("continue")
    /\ IF Chosen(loopsInfo, Snt.tag) = {}
       THEN Fail(IF Snt.tag # NoTag /\ loopsInfo # <<>> THEN "crash" ELSE "error")
       ELSE LET record == loopsInfo[CHOOSE i \in Chosen(loopsInfo, Snt.tag) : TRUE]
            IN  JumpTo(record.main, IF record.kind = "loop" THEN record.main ELSE record.cond,
                   IF record.rest \in OpenLoops THEN "" ELSE "over")

-----------------------------------------------------------------------------
(* if and match.                                                           *)

ArmFrame(snt, i, block, otherwise, rest, curr) ==
    Frame(snt.arms[i].body, [is |-> "arm", snt |-> snt, i |-> i, block |-> block,
                             otherwise |-> otherwise, rest |-> rest, curr |-> curr])
ElseFrame(is, snt, block, rest) ==
    Frame(snt.orElse[1], [is |-> is, block |-> block, rest |-> rest])

Outcome(f, below, pushed) == [fn |-> f, frames |-> below \o pushed]
Finish(f, below, rest) == Outcome(SetActive(f, rest), below, <<>>)

(* The else of an if, or its absence.                                      *)
IfEnd(f, below, snt, rest) ==
    IF snt.orElse = <<>> THEN Finish(AddBranch(f, rest), below, rest)
    ELSE IF FalseTill(snt, Len(snt.arms) + 1)
    THEN LET new == Create(f, Current(f))
         IN  Outcome(SetActive(AddBranch(new, Created(new)), Created(new)), below,
                     <<ElseFrame("else", snt, Created(new), rest)>>)
    ELSE IF TrueKnownBefore(snt, Len(snt.arms) + 1) THEN Finish(f, below, rest)
    ELSE Outcome(f, below, <<ElseFrame("bare else", snt, 0, rest)>>)

(* The block of arm i, the block for what comes after it unless it is the  *)
(* last and there is no else, and the branch to them.                      *)
Branching(f, below, snt, i, rest, parent, curr) ==
    LET true  == Create(f, parent)
        both  == Create(true, parent)
        isLast == i = Len(snt.arms) /\ snt.orElse = <<>>
        t     == Created(true)
        o     == IF isLast THEN 0 ELSE Created(both)
        known == snt.arms[i].cond
    IN  Outcome(SetActive(Emit(IF isLast THEN true ELSE both,
                               <<CondBr(t, IF isLast THEN rest ELSE o, known)>>), t),
                below, <<ArmFrame(snt, i, t, o, rest, curr)>>)

IfArm(f, below, snt, i, rest) ==
    IF i > Len(snt.arms) \/ TrueKnownBefore(snt, i) THEN IfEnd(f, below, snt, rest)
    ELSE IF Known(snt, i) /\ FalseTill(snt, i)
    THEN LET new == Create(f, Current(f))
         IN  Outcome(SetActive(AddBranch(new, Created(new)), Created(new)), below,
                     <<ArmFrame(snt, i, Created(new), 0, rest, 0)>>)
    ELSE Branching(f, below, snt, i, rest, Current(f), 0)

(* Over a mix or choice type no result of a case is kept: with none, all   *)
(* are false and constant, and the else gets a block within curr.          *)
MatchElse(f, below, snt, rest, curr) ==
    LET new == Create(f, curr)
    IN  Outcome(SetActive(AddBranch(new, Created(new)), Created(new)), below,
                <<ElseFrame("else", snt, Created(new), rest)>>)

(* The end of a match, in the last block that was made active.             *)
MatchEnd(f, below, snt, rest, curr) ==
    IF snt.exhaustive \/ snt.orElse = <<>> THEN Finish(AddBranch(f, rest), below, rest)
    ELSE MatchElse(f, below, snt, rest, curr)

CasesMissing(snt) == snt.is = "match" /\ ~snt.exhaustive /\ snt.orElse = <<>>

NextArm(f, below, snt, i, rest, curr) ==
    IF snt.is = "if" THEN IfArm(f, below, snt, i, rest)
    ELSE IF i > Len(snt.arms) THEN MatchEnd(f, below, snt, rest, curr)
    ELSE Branching(f, below, snt, i, rest, curr, curr)

Take(outcome) == Go(outcome.fn, outcome.frames)

(* The block after an if has no parent, that after a match the parent of   *)
(* the block before it.                                                    *)
IfElse ==
    /\ At("if")
    /\ LET rest == Create(fn, 0)
       IN  Take(IfArm(Link(rest, Created(rest), Here), Advanced, Snt, FirstArm(Snt), Created(rest)))

MatchSentence ==
    /\ At("match")
    /\ LET rest == Create(fn, fn.blocks[Here].parent)
       IN  IF Snt.arms = <<>> /\ CasesMissing(Snt) THEN Fail("error")
           ELSE Take(NextArm(Link(rest, Created(rest), Here), Advanced, Snt, 1, Created(rest), Here))

(* The sentences of an arm are emitted.  A match with cases missing and no *)
(* else is an error only after them.                                       *)
EndArm ==
    /\ After("arm")
    /\ LET a == Top.after
           closed == AddBranch(DestroyLocals(fn, a.block), a.rest)
           open   == IF a.otherwise = 0 THEN closed ELSE SetActive(closed, a.otherwise)
       IN  IF a.i = Len(a.snt.arms) /\ CasesMissing(a.snt) THEN Fail("error")
           ELSE Take(NextArm(open, Front(frames), a.snt, a.i + 1, a.rest, a.curr))

(* The else of an if after an arm that was emitted has no block of its     *)
(* own: what is destroyed is in the block that is active at its end.       *)
EndElse ==
    /\ After("else") \/ After("bare else")
    /\ LET a == Top.after
           block == IF a.is = "bare else" THEN Here ELSE a.block
       IN  Go(SetActive(AddBranch(DestroyLocals(fn, block), a.rest), a.rest), Front(frames))

-----------------------------------------------------------------------------
(* Loops.                                                                  *)

LoopTags  == {loopsInfo[i].tag : i \in DOMAIN loopsInfo} \cup {breakables[i].tag : i \in DOMAIN breakables}
TagIsFree(tag) == tag = NoTag \/ (tag \notin LoopTags /\ ~Has(tag))

LoopInfo(kind, tag, main, cond, rest) ==
    [kind |-> kind, tag |-> tag, main |-> main, cond |-> cond, rest |-> rest]
Breakable(tag, true, rest)      == [tag |-> tag, true |-> true, rest |-> rest]

(* The loop is open: its body is emitted in the active block of f.         *)
Open(f, info, breaks, after) ==
    /\ fn' = f /\ frames' = Append(Advanced, Frame(Snt.body, after))
    /\ loopsInfo' = Append(loopsInfo, info) /\ breakables' = breakables \o breaks
    /\ UNCHANGED phase /\ Still

EnterLoopIf ==
    /\ At("loop if")
    /\ IF ~TagIsFree(Snt.tag) THEN Fail("error")
       ELSE LET t == Created(fn) + 1
                c == Created(fn) + 2
                r == Created(fn) + 3
                f == Create(Create(Create(fn, Here), Here), Here)
            IN  Open(SetActive(IF Snt.isDo THEN AddBranch(f, t) ELSE Emit(f, <<CondBr(t, r, "unknown")>>), t),
                     LoopInfo("loop if", Snt.tag, t, c, r), <<Breakable(Snt.tag, t, r)>>,
                     [is |-> "loop if", true |-> t, cond |-> c, rest |-> r])

(* The index is a local of the block before the loop.                      *)
EnterLoopTo ==
    /\ At("loop to")
    /\ IF ~TagIsFree(Snt.tag) THEN Fail("error")
       ELSE LET l == Created(fn) + 1
                t == Created(fn) + 2
                c == Created(fn) + 3
                r == Created(fn) + 4
                index == NewLocal(fn, Here, Local(Snt.tag, "index", Site))
                loop  == Create(Emit(index, <<OnLocal("init", Len(index.locals), "")>>), Here)
                all   == Create(Create(Create(loop, l), l), fn.blocks[Here].parent)
                f     == SetActive(AddBranch(Link(all, r, Here), l), l)
            IN  Open(SetActive(Emit(f, <<OnLocal("use", Len(index.locals), ""), CondBr(t, r, "unknown")>>), t),
                     LoopInfo("loop to", Snt.tag, t, c, r), <<Breakable(Snt.tag, t, r)>>,
                     [is |-> "loop to", true |-> t, cond |-> c, rest |-> r, index |-> Len(index.locals)])

EnterLoop ==
    /\ At("loop")
    /\ IF ~TagIsFree(Snt.tag) THEN Fail("error")
       ELSE LET t == Created(fn) + 1
                r == Created(fn) + 2
                f == Link(Create(Create(fn, Here), 0), r, Here)
            IN  Open(SetActive(AddBranch(f, t), t),
                     LoopInfo("loop", Snt.tag, t, 0, r), <<Breakable(Snt.tag, t, r)>>,
                     [is |-> "loop", true |-> t, rest |-> r])

(* The item is a local of the main block, set in the loop and true blocks. *)
EnterLoopIn ==
    /\ At("loop in")
    /\ IF ~TagIsFree(Snt.tag) THEN Fail("error")
       ELSE LET m == Created(fn) + 1
                l == Created(fn) + 2
                c == Created(fn) + 3
                t == Created(fn) + 4
                r == Created(fn) + 5
                main == Link(Create(fn, fn.blocks[Here].parent), m, Here)
                cond == Link(Create(Create(main, m), m), c, l)
                true == Link(Create(cond, m), t, c)
                all  == Link(Create(true, fn.blocks[Here].parent), r, m)
                item == NewLocal(SetActive(AddBranch(all, m), m), m, Local(Snt.tag, "item", Site))
                f    == SetActive(Emit(item, <<CondBr(l, r, "unknown")>>), l)
            IN  Open(Emit(f, <<OnLocal("init", Len(item.locals), "")>>),
                     LoopInfo("loop in", Snt.tag, m, c, r), <<>>,
                     [is |-> "loop in", body |-> l, cond |-> c, true |-> t, rest |-> r])

Close(f) ==
    /\ fn' = f /\ frames' = Front(frames)
    /\ loopsInfo' = Front(loopsInfo) /\ breakables' = Front(breakables)
    /\ UNCHANGED phase /\ Still

EndLoopIf ==
    /\ After("loop if")
    /\ LET a == Top.after
           f == AddBranch(DestroyLocals(fn, a.true), a.cond)
       IN  Close(SetActive(Emit(SetActive(f, a.cond), <<CondBr(a.true, a.rest, "unknown")>>), a.rest))

EndLoopTo ==
    /\ After("loop to")
    /\ LET a == Top.after
           f == AddBranch(DestroyLocals(fn, a.true), a.cond)
       IN  Close(SetActive(Emit(SetActive(f, a.cond),
               <<OnLocal("use", a.index, ""), CondBr(a.true, a.rest, "unknown")>>), a.rest))

EndLoop ==
    /\ After("loop")
    /\ LET a == Top.after
       IN  Close(SetActive(AddBranch(DestroyLocals(fn, a.true), a.true), a.rest))

(* loop in leaves its record in loopsInfo.                                 *)
EndLoopIn ==
    /\ After("loop in")
    /\ LET a == Top.after
           f == SetActive(AddBranch(DestroyLocals(fn, a.body), a.cond), a.cond)
           g == SetActive(Emit(f, <<CondBr(a.true, a.rest, "unknown")>>), a.true)
       IN  Go(SetActive(AddBranch(g, a.body), a.rest), Front(frames))

-----------------------------------------------------------------------------
(* function_return_handler, and the run.                                   *)

EndFunction ==
    /\ After("function")
    /\ LET code == fn.blocks[Here].code
           gave == code # <<>> /\ Last(code).op = "ret"
       IN  IF ~gave /\ program.gives # "void" THEN Fail("error")
           ELSE /\ fn' = IF gave THEN fn ELSE Emit(DestructorCaller(fn), <<Ret("void")>>)
                /\ phase' = "run"
                /\ store' = [l \in DOMAIN fn.locals |-> "unset"]
                /\ at' = [block |-> 1, next |-> 1]
                /\ UNCHANGED <<program, frames, loopsInfo, breakables>>

Running == phase = "run" /\ at.next <= Len(fn.blocks[at.block].code)
Code    == fn.blocks[at.block].code[at.next]

NewState == [init |-> "alive", move |-> "moved", destroy |-> "gone"]
Execute ==
    /\ Running /\ UNCHANGED <<program, emitVars>>
    /\ IF Code.op \in {"br", "cond"}
       THEN /\ at' \in {[block |-> b, next |-> 1] :
                          b \in IF Code.op = "br" \/ Code.why = "true" THEN {Code.yes}
                                ELSE IF Code.why = "false" THEN {Code.no} ELSE {Code.yes, Code.no}}
            /\ UNCHANGED <<phase, store>>
       ELSE IF Code.op = "ret" THEN phase' = "returned" /\ UNCHANGED <<at, store>>
       ELSE /\ at' = [at EXCEPT !.next = @ + 1]
            /\ store' = IF Code.op \in DOMAIN NewState
                        THEN [store EXCEPT ![Code.local] = NewState[Code.op]] ELSE store
            /\ UNCHANGED phase

Finished == phase \in {"error", "crash", "returned"} /\ UNCHANGED vars

-----------------------------------------------------------------------------
(* The arguments are locals of the first block.                            *)
NoSite == [of |-> "function", body |-> <<>>, pos |-> 0]
WithArgs(args) ==
    [NewFunction EXCEPT
        !.locals = [i \in DOMAIN args |-> Local(args[i], "argument", NoSite)],
        !.blocks[1].values = [i \in DOMAIN args |-> i],
        !.blocks[1].code = [i \in DOMAIN args |-> OnLocal("init", i, "")]]

Init ==
    /\ program \in Programs
    /\ fn = WithArgs(program.args)
    /\ frames = <<Frame(program.body, [is |-> "function"])>>
    /\ loopsInfo = <<>> /\ breakables = <<>>
    /\ phase = "emit" /\ at = [block |-> 1, next |-> 1] /\ store = <<>>

EmitStep ==
    \/ LocalDeclaration \/ UseEntity \/ MoveEntity \/ Assignment \/ GiveSentence \/ Break \/ Continue
    \/ IfElse \/ MatchSentence \/ EndArm \/ EndElse
    \/ EnterLoopIf \/ EnterLoopTo \/ EnterLoop \/ EnterLoopIn
    \/ EndLoopIf \/ EndLoopTo \/ EndLoop \/ EndLoopIn \/ EndFunction

Next == EmitStep \/ Execute \/ Finished

Spec == Init /\ [][Next]_vars /\ WF_vars(EmitStep \/ Execute)

-----------------------------------------------------------------------------
(* Properties.                                                             *)

Nested == Loops \cup {"if", "match"}

Declares(snt) == IF snt.is = "let" THEN {snt.name}
                 ELSE IF snt.is \in {"loop to", "loop in"} THEN {snt.tag} ELSE {}
InScope ==
    ToSet(program.args) \cup
    UNION {UNION {Declares(frame.body[p]) : p \in 1 .. frame.next - 1} : frame \in ToSet(frames)}

(* The names that the blocks make visible where the builder stands are     *)
(* those declared before, in the bodies around: no name of a body that was *)
(* left, and none lost after an if, a match or a loop.  No two visible     *)
(* locals have one name, but for the indices of loops without a tag, and   *)
(* arguments, whose names nothing compares.                                *)
VisibleIsInScope ==
    Emitting =>
        LET seen == Visible(fn, Here)
        IN  /\ {fn.locals[l].name : l \in seen} = InScope
            /\ \A l, m \in seen : fn.locals[l].name = fn.locals[m].name =>
                    \/ l = m \/ fn.locals[l].name = NoTag
                    \/ fn.locals[l].kind = "argument" /\ fn.locals[m].kind = "argument"

(* A continue went back into a loop that is over, whose scope may be too:  *)
(* nothing is said then of what is destroyed once more, or read after it.  *)
GoesBack ==
    \E b \in DOMAIN fn.blocks : \E i \in DOMAIN fn.blocks[b].code :
        fn.blocks[b].code[i].op = "br" /\ fn.blocks[b].code[i].why = "over"

(* Whatever way the run takes, a local that is read has been initialised   *)
(* and not destroyed; it may have been moved from, which nothing forbids,  *)
(* and the item of a loop that was not entered is read as it is.           *)
UsesMeetValues ==
    Running /\ ~GoesBack /\ Code.op \in {"use", "move"} =>
        store[Code.local] \in {"alive", "moved"} \/ fn.locals[Code.local].kind = "item"

(* At the end of a scope and before a return only locals that are alive or *)
(* moved from are destroyed: none twice, none before it is initialised.    *)
(* (break and continue also destroy what the bodies within the loop that   *)
(* are already over had declared.)                                         *)
DestroysAreDue ==
    Running /\ ~GoesBack /\ Code.op = "destroy" /\ Code.why # "jump" =>
        store[Code.local] \in {"alive", "moved"}

(* What the end of its body does not destroy: a local declared after a     *)
(* loop if in the same body, and in an else without a block of its own one *)
(* declared before an if, a match or a loop.                               *)
IsForgotten(site) ==
    IF site.of = "bare else" THEN \E p \in site.pos + 1 .. Len(site.body) : site.body[p].is \in Nested
    ELSE site.of # "function" /\ \E p \in 1 .. site.pos - 1 : site.body[p].is = "loop if"

(* No local is initialised again or left by a return while it holds a      *)
(* value, unless its body forgets it, it is assigned to, or the function   *)
(* gives self.                                                             *)
NothingLeaks ==
    LET Leaks(l) == /\ store[l] = "alive" /\ Destructible(fn.locals[l])
                    /\ ~IsForgotten(fn.locals[l].site)
    IN  Running =>
        /\ Code.op = "init" /\ Code.why # "assign" => ~Leaks(Code.local)
        /\ Code.op = "ret" /\ Code.why # "self" => \A l \in DOMAIN store : ~Leaks(l)

(* A continue outside of all loops is no error when a loop in is over, as  *)
(* the record of that one stayed: the body goes on after a jump.           *)
StrayContinue == \E p \in DOMAIN program.body : program.body[p].is = "continue"

(* A run never comes to the end of a block without a terminator.  A block  *)
(* has at most one, and after it only what the end of a scope destroys.    *)
BlocksAreClosed ==
    /\ phase = "run" => Running
    /\ ~StrayContinue => \A b \in DOMAIN fn.blocks : LET code == fn.blocks[b].code IN
        \A i, j \in DOMAIN code : i < j /\ code[i].op \in Terminators =>
            code[j].op = "destroy" /\ code[j].why = "scope"
================================================================================

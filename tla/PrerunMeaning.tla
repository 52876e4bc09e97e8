----------------------------- MODULE PrerunMeaning -----------------------------
(***************************************************************************)
(* What the prerun sentences of the language mean as the compiler has      *)
(* them, without exceptions, loop records and blocks: a call is the list   *)
(* of sentences it still has to do, a loop stands for the copies of its    *)
(* body.                                                                   *)
(***************************************************************************)
EXTENDS PrerunProgram

VARIABLES
    program,
    todo,     \* of every call, the innermost last: its function, what it was called with
              \* and the sentences left, each with whether a loop is around it
    result,   \* the value of the call the next sentence waits for
    said,     \* the values said
    outcome   \* StillRunning, or how the outermost call has ended

meaningVars == <<program, todo, result, said, outcome>>

Items(body, inLoop) == [i \in DOMAIN body |-> [snt |-> body[i], inLoop |-> inLoop]]

(* A loop is the copies of its body; an endless one its body and itself.   *)
Unrolled(item, times) ==
    IF times = Endless THEN Append(Items(item.snt.body, TRUE), item)
    ELSE FlattenSeq([i \in 1 .. times |-> Items(item.snt.body, TRUE)])

Begin(f, v) == [fn |-> f, argument |-> v, left |-> Items(program.body[f], FALSE)]

Left      == Last(todo).left
Item      == Head(Left)
Running   == outcome = StillRunning
Doing(is) == Running /\ Left # <<>> /\ Item.snt.is = is
IsVoid    == Last(todo).fn \in program.void
Value(exp) == ValueOf(exp, Last(todo).argument)

Continue(with) ==
    /\ todo' = [todo EXCEPT ![Len(todo)].left = with \o Tail(@)]
    /\ UNCHANGED <<program, outcome>>
Fail(how) ==
    /\ outcome' = Ended(how, NoExp) /\ todo' = <<>> /\ result' = NoExp
    /\ UNCHANGED <<program, said>>

Evaluated(exp) == IF exp.is = "call" THEN result ELSE Value(exp)
Known(exp)     == exp.is # "call" \/ result # NoExp

(* A call as an expression: of its sentences nothing is done yet.          *)
CallFunction ==
    /\ Doing("give") \/ Doing("say") \/ Doing("expression")
    /\ Item.snt.exp.is = "call" /\ result = NoExp
    /\ IF Len(todo) = MaxCalls THEN Fail("overflow")
       ELSE /\ todo' = Append(todo, Begin(Item.snt.exp.fn, Value(Item.snt.exp.argument)))
            /\ UNCHANGED <<program, result, said, outcome>>

(* The innermost call ends with v: the caller goes on with it.             *)
EndCall(v) ==
    /\ UNCHANGED <<program, said>>
    /\ IF Len(todo) = 1
       THEN outcome' = EndedWith(v) /\ todo' = <<>> /\ result' = NoExp
       ELSE todo' = Front(todo) /\ result' = v /\ UNCHANGED outcome

Give ==
    /\ Doing("give") /\ Known(Item.snt.exp)
    /\ LET v == IF Item.snt.exp = NoExp THEN VoidValue ELSE Evaluated(Item.snt.exp)
           expected == IF IsVoid THEN "void" ELSE "int"
       IN  IF v = NullValue THEN Fail("crash")
           ELSE IF v.type = expected THEN EndCall(v) ELSE Fail("error")

RunsOffEnd ==
    /\ Running /\ Left = <<>>
    /\ IF IsVoid THEN EndCall(NullValue) ELSE Fail("error")

Say ==
    /\ Doing("say") /\ Known(Item.snt.exp)
    /\ LET v == Evaluated(Item.snt.exp)
       IN  IF v = NullValue THEN Fail("crash")
           ELSE IF v.type = "void" THEN Fail("error")
           ELSE said' = Append(said, v.n) /\ result' = NoExp /\ Continue(<<>>)

Expression ==
    /\ Doing("expression") /\ Known(Item.snt.exp)
    /\ LET v == Evaluated(Item.snt.exp)
       IN  IF v = NullValue THEN Fail("crash")
           ELSE IF v.type # "void" THEN Fail("error")
           ELSE result' = NoExp /\ UNCHANGED said /\ Continue(<<>>)

Loop ==
    /\ Doing("loop")
    /\ IF Item.snt.count.type \notin CountTypes THEN Fail("error")
       ELSE UNCHANGED <<result, said>> /\ Continue(Unrolled(Item, Times(Item.snt.count, Item.snt.tag)))

If ==
    /\ Doing("if")
    /\ IF IllTyped(Item.snt, Last(todo).argument) THEN Fail("error")
       ELSE UNCHANGED <<result, said>>
            /\ LET chosen == Chosen(Item.snt, Last(todo).argument)
               IN  Continue(IF chosen = <<>> THEN <<>> ELSE Items(chosen[1], Item.inLoop))

(* No loop is ever left: a tag makes the sentence do nothing inside a      *)
(* loop, and without a tag it ends everything.                             *)
BreakOrContinue ==
    /\ Doing("break") \/ Doing("continue")
    /\ IF Item.snt.tag # NoTag /\ Item.inLoop THEN UNCHANGED <<result, said>> /\ Continue(<<>>)
       ELSE Fail("error")

(* Of any program.                                                         *)
Init ==
    /\ todo = <<Begin("main", program.argument)>>
    /\ result = NoExp /\ said = <<>> /\ outcome = StillRunning

Next ==
    \/ CallFunction \/ Give \/ Say \/ Expression \/ Loop \/ If \/ BreakOrContinue
    \/ RunsOffEnd

Spec == Init /\ [][Next]_meaningVars
================================================================================

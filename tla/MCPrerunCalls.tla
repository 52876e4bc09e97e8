----------------------------- MODULE MCPrerunCalls -----------------------------
(***************************************************************************)
(* The prerun functions TLC interprets, and a reference for what they mean.*)
(***************************************************************************)
EXTENDS PrerunCalls

One  == Val("int", 2, 1)
True == Val("bool", 1, 1)
False == Val("bool", 1, 0)

Helper == Call("helper", True)

Jumps  == {BreakSnt(NoTag), BreakSnt("t"), ContinueSnt(NoTag), ContinueSnt("t")}
Simple == {SaySnt(One), GiveSnt(One), GiveSnt(NoExp), GiveSnt(Helper),
           SaySnt(Helper), ExpressionSnt(Helper), ExpressionSnt(One)}
Ifs(body) ==
    {IfSnt(<<[cond |-> c, body |-> body]>>, <<>>) : c \in {True, False, One}}
    \cup {IfSnt(<<[cond |-> False, body |-> <<SaySnt(One)>>], [cond |-> c, body |-> body]>>, <<body>>) :
            c \in {True, False, Val("int", 2, 0)}}

Counts  == {Val("int", 2, -1), Val("int", 2, 1), Val("int", 3, -1), Val("uint", 2, 2),
            Val("native int", 3, 0), Val("uint", 4, 0), Val("text", 0, 0)}
Endlessly == {Val("native int", 3, 1), Val("uint", 4, 1)}
Loops(bodies, tags) ==
    {LoopSnt(c, t, b) : c \in Counts, t \in tags, b \in bodies}
    \cup {LoopSnt(c, t, b) : c \in Endlessly, t \in tags, b \in bodies \cap {<<j>> : j \in Jumps \cup {GiveSnt(One)}}}

Leaves  == Jumps \cup Simple \cup UNION {Ifs(<<s>>) : s \in Jumps \cup {SaySnt(One), GiveSnt(One)}}
Short   == {<<s>> : s \in Leaves} \cup {<<s, SaySnt(One)>> : s \in Jumps}
Outer   == Loops(Short, {NoTag, "t"})
Nested  == {LoopSnt(c, t, <<l, SaySnt(One)>>) :
                c \in {Val("int", 2, -1), Val("uint", 2, 2)}, t \in {NoTag, "t"},
                l \in Loops({<<s>> : s \in Jumps \cup {SaySnt(One), GiveSnt(One)}}, {"s", "t"})
                      \cup UNION {Ifs(<<k, s>>) : k \in Loops({<<SaySnt(One)>>}, {NoTag}), s \in Jumps \cup {SaySnt(One)}}}
Mains   == {<<s, GiveSnt(One)>> : s \in Outer \cup Nested \cup Leaves} \cup {<<s>> : s \in Leaves}
Helpers == {<<GiveSnt(One)>>, <<SaySnt(One)>>, <<GiveSnt(NoExp)>>,
            <<LoopSnt(Val("uint", 2, 2), NoTag, <<IfSnt(<<[cond |-> True, body |-> <<GiveSnt(One)>>]>>, <<>>)>>)>>}

(* Functions that call themselves and main: with the argument they have,   *)
(* or with one that has them give a value at once, in and out of loops.    *)
IfArgument(body) == IfSnt(<<[cond |-> Argument, body |-> body]>>, <<>>)
Loop(count, body) == LoopSnt(count, NoTag, body)
Self(exp) == Call("helper", exp)
Recursive ==
    {<<GiveSnt(Self(Argument))>>,
     <<IfArgument(<<GiveSnt(Self(False))>>), GiveSnt(One)>>,
     <<IfArgument(<<GiveSnt(Self(False))>>), GiveSnt(Self(True))>>,
     <<Loop(Val("uint", 2, 2), <<IfArgument(<<SaySnt(Self(False))>>)>>), SaySnt(One), GiveSnt(One)>>,
     <<Loop(Val("uint", 2, 2), <<ExpressionSnt(Self(Argument))>>)>>,
     <<Loop(Val("uint", 4, 1), <<IfArgument(<<GiveSnt(Self(False))>>), GiveSnt(One)>>)>>,
     <<Loop(Val("uint", 4, 1), <<IfArgument(<<GiveSnt(Self(False))>>)>>)>>,
     <<IfArgument(<<GiveSnt(Call("main", False))>>), SaySnt(One), GiveSnt(One)>>,
     <<SaySnt(Call("main", Argument)), GiveSnt(One)>>}
RecursiveMains ==
    {<<IfArgument(<<SaySnt(Self(Argument))>>), SaySnt(Self(False)), GiveSnt(One)>>,
     <<IfArgument(<<GiveSnt(Self(False))>>), GiveSnt(One)>>,
     <<Loop(Val("uint", 2, 2), <<IfArgument(<<SaySnt(Self(True))>>)>>), GiveSnt(One)>>,
     <<GiveSnt(Call("main", Argument))>>}

HelperCalls == {GiveSnt(Helper), SaySnt(Helper), ExpressionSnt(Helper)}
UsesHelper(body) ==
    \E i \in DOMAIN body :
        \/ body[i] \in HelperCalls
        \/ body[i].is = "loop" /\ Head(body[i].body) \in HelperCalls

Program(main, helper, void) ==
    [body |-> [f \in {"main", "helper"} |-> IF f = "main" THEN main ELSE helper],
     void |-> void, argument |-> True]
Within(body) == [i \in DOMAIN body |->
    IF body[i].is = "loop" THEN <<body[i].body>>
    ELSE IF body[i].is = "if" THEN body[i].orElse \o [k \in DOMAIN body[i].arms |-> body[i].arms[k].body]
    ELSE <<>>]

(* The functions that must be complete before one with the body is made:   *)
(* those it calls, but for the calls of a give, which records none.  Two   *)
(* functions that wait for each other are never made; one that waits for   *)
(* itself is.                                                              *)
RECURSIVE WaitsFor(_)
WaitsFor(body) ==
    UNION {IF body[i].is \in {"say", "expression"}
           THEN IF body[i].exp.is = "call" THEN {body[i].exp.fn} ELSE {}
           ELSE UNION {WaitsFor(b) : b \in ToSet(Within(body)[i])} : i \in DOMAIN body}
CanBeMade(p) == "helper" \notin WaitsFor(p.body["main"]) \/ "main" \notin WaitsFor(p.body["helper"])

AllPrograms ==
    {Program(m, <<GiveSnt(One)>>, v) : m \in Mains, v \in {{}, {"main"}}}
    \cup {Program(m, h, v) : m \in {n \in Mains : UsesHelper(n)}, h \in Helpers, v \in {{}, {"helper"}}}
    \cup {p \in {Program(m, h, v) :
                    m \in {<<s>> : s \in HelperCalls} \cup RecursiveMains, h \in Recursive,
                    v \in {{}, {"main"}, {"helper"}}} : CanBeMade(p)}

AllFunctions == {"main", "helper"}
InnerBodies(bodies) == UNION {UNION {ToSet(Within(b)[i]) : i \in DOMAIN b} : b \in bodies}
(* Loops are nested at most twice, with an if inside.                      *)
AllSentences ==
    LET outer  == Mains \cup Helpers \cup Recursive \cup RecursiveMains \cup {<<GiveSnt(One)>>}
        inner  == InnerBodies(outer)
        inner2 == InnerBodies(inner)
        inner3 == InnerBodies(inner2)
    IN  UNION {ToSet(b) : b \in outer \cup inner \cup inner2 \cup inner3}

-----------------------------------------------------------------------------
(* The language as a reader of a program would have it: counts are numbers,*)
(* break and continue leave the loop they name.  A result is what has been *)
(* said and how it ended.                                                  *)
Result(out, how, v) == [said |-> out, how |-> how, value |-> v]
Then(out, r)   == [r EXCEPT !.said = out \o @]
Next_          == Result(<<>>, "next", NoExp)
Signal(how, tag) == [said |-> <<>>, how |-> how, value |-> NoExp, tag |-> tag]
For(r, snt)    == r.how \in {"break", "continue"} /\ r.tag \in {NoTag, snt.written}

RECURSIVE RunBody(_, _, _, _), RunSentence(_, _, _, _), RunLoop(_, _, _, _, _),
          RunArms(_, _, _, _, _), Value_(_, _, _)

Value_(p, arg, exp) ==
    IF exp.is \in {"value", "argument"} THEN Result(<<>>, "give", ValueOf(exp, arg))
    ELSE IF exp.is = "nothing" THEN Result(<<>>, "give", VoidValue)
    ELSE LET r == RunBody(p, exp.fn, ValueOf(exp.argument, arg), p.body[exp.fn])
         IN  IF r.how = "next"
             THEN IF exp.fn \in p.void THEN Result(r.said, "give", NullValue) ELSE Result(r.said, "error", NoExp)
             ELSE IF r.how \in {"break", "continue"} THEN Result(r.said, "error", NoExp) ELSE r

RunLoop(p, fn, arg, snt, n) ==
    IF n <= 0 THEN Next_
    ELSE LET r == RunBody(p, fn, arg, snt.body)
         IN  IF r.how = "next" \/ (r.how = "continue" /\ For(r, snt))
             THEN Then(r.said, RunLoop(p, fn, arg, snt, n - 1))
             ELSE IF For(r, snt) THEN Result(r.said, "next", NoExp) ELSE r

RunArms(p, fn, arg, arms, orElse) ==
    IF arms = <<>> THEN IF orElse = <<>> THEN Next_ ELSE RunBody(p, fn, arg, orElse[1])
    ELSE LET cond == ValueOf(Head(arms).cond, arg)
         IN  IF cond.type # "bool" THEN Result(<<>>, "error", NoExp)
             ELSE IF cond = True THEN RunBody(p, fn, arg, Head(arms).body)
             ELSE RunArms(p, fn, arg, Tail(arms), orElse)

(* The number a reader would take a count for, but for a negative one of   *)
(* an integer that is narrower than a word: it is met without its sign.    *)
Repeats(c) == IF c.type = "int" /\ c.bits < WordBits /\ c.n < 0 THEN 2^c.bits + c.n ELSE c.n

RunSentence(p, fn, arg, snt) ==
    IF snt.is \in {"break", "continue"} THEN Signal(snt.is, snt.tag)
    ELSE IF snt.is = "loop"
    THEN IF snt.count.type \in CountTypes THEN RunLoop(p, fn, arg, snt, Repeats(snt.count))
         ELSE Result(<<>>, "error", NoExp)
    ELSE IF snt.is = "if" THEN RunArms(p, fn, arg, snt.arms, snt.orElse)
    ELSE LET r == Value_(p, arg, snt.exp)
             wanted == IF snt.is = "give" /\ fn \notin p.void THEN {"int"}
                       ELSE IF snt.is = "say" THEN {"int", "text"} ELSE {"void"}
         IN  IF r.how # "give" THEN r
             ELSE IF r.value = NullValue THEN Result(r.said, "crash", NoExp)
             ELSE IF r.value.type \notin wanted THEN Result(r.said, "error", NoExp)
             ELSE IF snt.is = "give" THEN r
             ELSE Result(IF snt.is = "say" THEN Append(r.said, r.value.n) ELSE r.said, "next", NoExp)

RunBody(p, fn, arg, body) ==
    IF body = <<>> THEN Next_
    ELSE LET r == RunSentence(p, fn, arg, Head(body))
         IN  IF r.how = "next" THEN Then(r.said, RunBody(p, fn, arg, Tail(body))) ELSE r

Reference(p) ==
    LET r == Value_(p, p.argument, Call("main", Argument))
    IN  [said |-> r.said, outcome |-> IF r.how = "give" THEN EndedWith(r.value) ELSE Ended(r.how, NoExp)]

RECURSIVE Plain(_)
Plain(body) ==
    \A i \in DOMAIN body :
        /\ body[i].is \notin {"break", "continue"}
        /\ \A k \in DOMAIN Within(body)[i] : Plain(Within(body)[i][k])

(* A program without break and continue that comes to an end says and      *)
(* gives what a reader expects, whatever its loops, conditions and calls   *)
(* are, but for negative counts of few bits.                               *)
PlainProgramsAsRead ==
    /\ outcome # StillRunning /\ outcome.how # "overflow"
    /\ \A f \in DOMAIN program.body : Plain(program.body[f])
    => said = Reference(program).said /\ outcome = Reference(program).outcome
================================================================================

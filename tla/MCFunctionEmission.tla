-------------------------- MODULE MCFunctionEmission --------------------------
(* Functions for FunctionEmission: every construct within every construct, *)
(* with the jumps that the two allow, and small bodies for the errors.     *)
EXTENDS FunctionEmission

IfForms(body) ==
    {If(<<Arm("unknown", body)>>, <<>>),
     If(<<Arm("unknown", body)>>, <<body>>),
     If(<<Arm("false", <<>>)>>, <<body>>),
     If(<<Arm("unknown", <<>>), Arm("unknown", body)>>, <<<<>>>>),
     If(<<Arm("unknown", <<>>), Arm("true", body), Arm("unknown", <<>>)>>, <<body>>),
     If(<<Arm("false", <<>>), Arm("true", body)>>, <<<<>>>>),
     If(<<Arm("unknown", body), Arm("false", body)>>, <<>>)}
MatchForms(body) ==
    {Match(<<body, <<>>>>, TRUE, <<>>),
     Match(<<<<>>>>, FALSE, <<body>>),
     Match(<<>>, FALSE, <<body>>),
     Match(<<body>>, TRUE, <<<<>>>>)}
LoopForms(tag, body) ==
    {LoopIf(TRUE, tag, body), LoopIf(FALSE, tag, body), LoopTo(tag, body),
     LoopEver(tag, body), LoopIn(tag, body)}
Constructs(tag, body) == IfForms(body) \cup MatchForms(body) \cup LoopForms(tag, body)

(* The jumps: out of the inner body, and out of the outer one after it.    *)
InnerJumps == {<<>>, <<BreakSnt("outer")>>, <<ContinueSnt("outer")>>, <<BreakSnt("inner")>>,
               <<ContinueSnt("inner")>>, <<BreakSnt(NoTag)>>, <<Give("nothing")>>}
OuterJumps == {<<>>, <<If(<<Arm("unknown", <<Let("u", NoName), BreakSnt("outer")>>)>>, <<>>)>>,
               <<If(<<Arm("unknown", <<ContinueSnt("outer")>>)>>, <<>>)>>}

Inner(jump)    == Constructs("inner", <<Let("z", NoName), Use("x")>> \o jump)
OuterBodies    == {<<Let("y", NoName), inner, Let("w", "y"), Use("y")>> \o jump :
                     inner \in UNION {Inner(j) : j \in InnerJumps}, jump \in OuterJumps}
Whole(outer)   == Function(<<"a">>, "void", <<Let("x", NoName), outer, Let("v", "x"), Use("a")>>)

NestedPrograms == {Whole(outer) : outer \in UNION {Constructs("outer", body) : body \in OuterBodies}}

(* Moves, assignments and gives, in a function and in an arm; declared     *)
(* twice or not at all, a match with a case missing, jumps without a loop, *)
(* a continue with a tag that no loop has.                                 *)
Steps == {Let("x", NoName), Let("x", "a"), Let("a", NoName), Let("y", "x"), Use("x"), Move("a"), Move("x"),
          Assign("a", NoName), Assign("a", "x"), Assign("x", "a"),
          Give("nothing"), Give(NoName), Give("a"), Give("self"),
          BreakSnt(NoTag), ContinueSnt(NoTag), Match(<<<<>>>>, FALSE, <<>>), Match(<<>>, FALSE, <<>>),
          LoopTo(NoTag, <<Use("a"), BreakSnt(NoTag)>>),
          LoopEver(NoTag, <<Let("x", NoName), ContinueSnt("absent")>>),
          LoopEver(NoTag, <<LoopIf(TRUE, NoTag, <<ContinueSnt(NoTag)>>)>>),
          LoopIf(FALSE, "a", <<>>), LoopIn("item", <<>>)}
Straight  == {<<s>> : s \in Steps} \cup {<<s, t>> : s, t \in Steps}
SmallPrograms ==
    {Function(<<"a">>, gives, body) : gives \in {"void", "value", "self"},
        body \in Straight \cup {<<If(<<Arm("unknown", s)>>, <<s>>), Use("a"), t>> :
                                 s \in Straight, t \in {Give("nothing"), Give("a"), Give("self")}}}

(* A loop in that is over, in an arm and after a local of the arm, and a   *)
(* continue that finds its record: outside of all loops, in an arm, or in  *)
(* a loop around.                                                          *)
OverLoop(more) == If(<<Arm("unknown", <<Let("x", NoName), LoopIn("over", <<>>)>> \o more)>>, <<>>)
Jumping(jump)  == If(<<Arm("unknown", <<jump>>)>>, <<>>)
LatePrograms ==
    {Function(<<"a">>, "void", body) :
        body \in {<<OverLoop(more), ContinueSnt(NoTag)>> : more \in {<<>>, <<Use("x")>>}}
              \cup {<<OverLoop(<<Use("x")>>), Jumping(ContinueSnt(NoTag)), Use("a")>>}
              \cup {<<LoopEver("outer", <<OverLoop(more), jump, Use("a")>>)>> :
                        more \in {<<>>, <<Use("x")>>},
                        jump \in {ContinueSnt("over"), Jumping(ContinueSnt("over")),
                                  Jumping(ContinueSnt("outer"))}}}

(* Two arguments of one name.                                              *)
TwinPrograms == {Function(<<"a", "a">>, "void", <<Use("a"), s>>) : s \in Steps}

AllPrograms == TwinPrograms \cup NestedPrograms \cup SmallPrograms \cup LatePrograms

(* The sentences of bodies, of what these hold, and of what that holds.    *)
Held(bodies) == UNION {ToSet(body) : body \in bodies}
BodiesIn(s) == CASE s.is \in {"if", "match"} -> {s.arms[i].body : i \in DOMAIN s.arms} \cup ToSet(s.orElse)
                 [] s.is \in Loops -> {s.body}
                 [] OTHER -> {}
Within(sentences) == sentences \cup Held(UNION {BodiesIn(s) : s \in sentences})
AllSentences == Within(Within(Within(Held({p.body : p \in AllPrograms}))))
================================================================================

------------------------------- MODULE MCReading -------------------------------
(***************************************************************************)
(* The trees, chains and texts the parser is given.                        *)
(***************************************************************************)
EXTENDS Reading

Number(n) == Node("integerLiteral", <<n>>, <<>>)
Plain == {Node("integerType", <<"i32">>, <<>>), Node("selfInstance", <<>>, <<>>),
          Node("NamedType", <<"a">>, <<>>), Node("LinkedGeneric", <<"T">>, <<>>)}
Leaves == Plain \cup
    {Node("voidType", <<"void">>, <<>>), Node("characterType", <<"char">>, <<>>),
     Node("nativeType", <<"bool">>, <<>>), Node("selfWord", <<>>, <<>>),
     Node("NamedType", <<"a", "b">>, <<>>), Node("NamedType", <<"up", "a">>, <<>>),
     Node("SubType", <<"skill", "b">>, <<>>), Node("SubType", <<"Do", "b">>, <<>>)}

(* A name among the fills of a generic may be one of a type or of a value. *)
Filling(s) == IF s.kind = "NamedType" THEN Node("PrerunEntity", s.words, <<>>) ELSE s

Owners(S) ==
    {Node(k, <<>>, <<>>) : k \in {"own", "heap", "selfInstance", "anyRegion"}} \cup
    {Node(k, <<>>, <<s>>) : k \in {"Type", "region"}, s \in S}
Lists(S, most) == UNION {[1 .. n -> S] : n \in 0 .. most}

(* Types with one part, and with more, from S.                             *)
Over(S) ==
    {Node(k, w, <<s>>) : k \in {"maybeType", "futureType"}, w \in {<<>>, <<"pack">>}, s \in S} \cup
    {Node(k, w, <<s>>) : k \in {"referenceType", "sliceType"}, w \in {<<>>, <<"var">>}, s \in S} \cup
    {Node(k, w, <<s>>) : k \in {"ptrType", "multiPtrType"},
                         w \in {<<>>, <<"var">>, <<"!">>, <<"!", "var">>}, s \in S} \cup
    {Node("vectorType", w, <<Number("4"), s>>) : w \in {<<>>, <<"?">>}, s \in S} \cup
    {Node("ArrayType", <<>>, <<Number("4"), s>>) : s \in S} \cup
    {Node("SubType", <<"b">>, <<s>>) : s \in S} \cup
    {Node("TupleType", <<>>, <<s>>) : s \in S} \cup
    {Node("GenericNamedType", <<"a">>, <<Filling(s)>>) : s \in S}
OverTwo(S, T) ==
    {Node("result", w, <<s, t>>) : w \in {<<>>, <<"pack">>}, s \in S, t \in T} \cup
    {Node("ptrType", <<>>, <<s, o>>) : s \in S, o \in Owners(T)} \cup
    {Node("TupleType", <<>>, <<s, t>>) : s \in S, t \in T} \cup
    {Node("GenericNamedType", <<"a">>, <<Filling(s), Filling(t)>>) : s \in S, t \in T} \cup
    {Node("FunctionType", w, <<s>>) : w \in {<<>>, <<"variadic">>}, s \in S} \cup
    {Node("FunctionType", w, <<s, t>>) : w \in {<<>>, <<"variadic">>}, s \in S, t \in T} \cup
    {Node("FunctionType", w, <<s, t, t>>) : w \in {<<>>, <<"variadic">>}, s \in S, t \in T}
Integers_ ==
    {Node("GenericInteger", <<w>>, <<Number("8")>>) : w \in {"int", "uint"}} \cup
    {Node("GenericInteger", <<>>, <<Node("TRUE", <<"true">>, <<>>), Number("8")>>)}

Inner == Over({Node("NamedType", <<"a">>, <<>>)})
             \cup OverTwo({Node("integerType", <<"i32">>, <<>>)}, {Node("NamedType", <<"a">>, <<>>)}) \cup Integers_
AllTypes == Leaves \cup Over(Leaves \cup Inner) \cup OverTwo(Plain, Plain) \cup
            OverTwo({Node("NamedType", <<"a">>, <<>>)}, Inner) \cup OverTwo(Inner, {Node("NamedType", <<"a">>, <<>>)})

Values == {Number("4"), Node("TRUE", <<"true">>, <<>>), Node("StringLiteral", <<"text">>, <<>>),
           Node("PrerunEntity", <<"a">>, <<>>), Node("PrerunEntity", <<"up", "a", "b">>, <<>>),
           Node("TypeWrap", <<"type">>, <<Node("NamedType", <<"a">>, <<>>)>>),
           Node("TypeWrap", <<>>, <<Node("integerType", <<"i32">>, <<>>)>>),
           Node("TypeWrap", <<>>, <<Node("LinkedGeneric", <<"T">>, <<>>)>>),
           Node("PrerunSubEntity", <<"Do", "b">>, <<>>), Node("PrerunSubEntity", <<"skill", "b">>, <<>>),
           Node("PrerunMixOrChoiceInit", <<"v">>, <<Nil>>), Node("PrerunDefault", <<>>, <<>>),
           Node("PrerunDefault", <<>>, <<Node("integerType", <<"i32">>, <<>>)>>),
           Node("PrerunArrayLiteral", <<>>, <<>>)}
ValuesOver(S, T) ==
    {Node(k, <<>>, <<s>>) : k \in {"PrerunNegative", "PrerunBitwiseNot", "PrerunTupleValue", "PrerunArrayLiteral"},
                            s \in S} \cup
    {Node("PrerunMixOrChoiceInit", <<"v">>, <<s, t>>) : s \in S \cup {Nil}, t \in T} \cup
    {Node("PrerunMixOrChoiceInit", <<"v">>, <<s>>) : s \in S} \cup
    {Node("PrerunSubEntity", <<"b">>, <<s>>) : s \in S} \cup
    {Node("PrerunMemberAccess", <<"m">>, <<s>>) : s \in S} \cup
    {Node("PrerunMemberFnCall", <<"m">>, <<s>>) : s \in S} \cup
    {Node("PrerunMemberFnCall", <<"m">>, <<s, t>>) : s \in S, t \in T} \cup
    {Node(k, <<>>, <<s, t>>) : k \in {"PrerunTupleValue", "PrerunArrayLiteral"}, s \in S, t \in T} \cup
    {Node("PrerunBinaryOperator", <<o>>, <<s, t>>) : o \in {"*", "-", "=="}, s \in S, t \in T}

Entities == {Node("PrerunEntity", <<"a">>, <<>>)}
InnerValues == Values \cup ValuesOver({Number("4")}, Entities)
AllValues == Values \cup ValuesOver(Values, Values) \cup ValuesOver(InnerValues, Entities) \cup ValuesOver(Entities, InnerValues)

A == <<Name("a")>>
OperandOf(tokens, prerun, expression, bare) ==
    [text |-> tokens, prerun |-> prerun, expression |-> expression, bare |-> bare]
PrerunA == Node("PrerunEntity", <<"a">>, <<>>)
EntityA == Node("Entity", <<"a">>, <<>>)
OperandSet ==
    {OperandOf(A, PrerunA, EntityA, TRUE),
     OperandOf(InParens(A), PrerunA, EntityA, TRUE),
     OperandOf(<<Word("integerLiteral", "4")>>, Number("4"), Number("4"), FALSE),
     OperandOf(A \o InParens(<<>>), Node("PrerunFunctionCall", <<>>, <<PrerunA>>),
             Node("FunctionCall", <<>>, <<EntityA>>), FALSE),
     OperandOf(A \o <<Mark("child"), Name("m")>>, Node("PrerunMemberAccess", <<"m">>, <<PrerunA>>),
             Node("MemberAccess", <<"m">>, <<EntityA>>), FALSE)}
SomeChains ==
    UNION {{[ops |-> o, operands |-> x] : o \in [1 .. n -> {"*", "-", "=="}], x \in [1 .. n + 1 -> OperandSet]} :
              n \in {1, 2}} \cup
    {[ops |-> o, operands |-> x] :
        o \in [1 .. 3 -> {"*", "-", "=="}], x \in [1 .. 4 -> {y \in OperandSet : Len(y.text) = 1}]}

SentenceOf(tokens, tree, rest, worded, ended) ==
    [text |-> tokens, tree |-> tree, rest |-> rest, worded |-> worded, ended |-> ended]
Dot == <<Mark("stop")>>
Four == <<Word("integerLiteral", "4")>>
Said(kind, words, parts) == Node(kind, words, parts)
CallA == Node("FunctionCall", <<>>, <<EntityA>>)
CallText == A \o InParens(<<>>)
InSquares(tokens) == <<Mark("bracketOpen")>> \o tokens \o <<Mark("bracketClose")>>
Arrow == <<Mark("fatArrow")>>

(* What is said by an expression, ended or not.                            *)
ByExpression(ended) ==
    {SentenceOf(e[1] \o (IF ended THEN Dot ELSE <<>>), ExpressionSentence(e[2]), <<>>, FALSE, ended) :
        e \in {<<A, EntityA>>, <<CallText, CallA>>,
               <<A \o <<Mark("child"), Name("m")>>, Node("MemberAccess", <<"m">>, <<EntityA>>)>>,
               <<<<Mark("selfInstance"), Name("m")>>,
                 Node("MemberAccess", <<"m">>, <<Node("SelfInstance", <<>>, <<>>)>>)>>}}
Changing ==
    {SentenceOf(A \o <<Word("assignedBinaryOperator", "+=")>> \o CallText \o Dot,
                ExpressionSentence(Node("BinaryExpression", <<"+=">>, <<EntityA, CallA>>)),
                <<ExpressionSentence(CallA)>>, FALSE, TRUE),
     SentenceOf(A \o <<Mark("assignment")>> \o CallText \o Dot,
                Node("Assignment", <<>>, <<EntityA, CallA>>), <<>>, FALSE, TRUE),
     SentenceOf(CallText \o <<Mark("assignment")>> \o Four \o Dot,
                Node("Assignment", <<>>, <<CallA, Number("4")>>), <<>>, FALSE, TRUE)}
Worded_(tokens, tree) == SentenceOf(tokens, tree, <<>>, TRUE, TRUE)
Unworded(tokens, tree) == SentenceOf(tokens, tree, <<>>, FALSE, TRUE)
Simple_ ==
    {Worded_(<<Mark("say")>> \o CallText \o <<Mark("separator")>> \o Four \o Dot, Node("SayLike", <<>>, <<CallA, Number("4")>>)),
     Worded_(<<Mark("let"), Name("b"), Mark("assignment")>> \o CallText \o Dot,
             Node("LocalDeclaration", <<"b">>, <<Nil, CallA>>)),
     Worded_(<<Mark("let"), Mark("var"), Name("b"), Mark("typeSeparator"), Word("integerType", "i32"), Mark("assignment")>>
             \o Four \o Dot,
             Node("LocalDeclaration", <<"b", "var">>, <<Node("integerType", <<"i32">>, <<>>), Number("4")>>)),
     Worded_(<<Mark("let"), Name("b"), Mark("typeSeparator"), Mark("maybeType")>> \o
             <<Mark("genericTypeStart"), Word("integerType", "i32"), Mark("genericTypeEnd")>> \o Dot,
             Node("LocalDeclaration", <<"b">>, <<Node("maybeType", <<>>, <<Node("integerType", <<"i32">>, <<>>)>>)>>)),
     Unworded(<<Mark("selfInstance"), Name("m"), Mark("associatedAssignment")>> \o CallText \o Dot,
              Node("MemberInit", <<"m">>, <<CallA>>)),
     Unworded(<<Mark("selfInstance"), Mark("is"), Name("v")>> \o Dot, Node("MemberInit", <<"v">>, <<>>)),
     Unworded(<<Mark("meta"), Mark("colon"), Name("todo")>> \o InParens(<<>>) \o Dot, Node("MetaTodo", <<>>, <<>>)),
     Worded_(<<Mark("give")>> \o Dot, Node("GiveSentence", <<>>, <<>>)),
     Worded_(<<Mark("give")>> \o CallText \o Dot, Node("GiveSentence", <<>>, <<CallA>>)),
     Worded_(<<Mark("Break")>> \o Dot, Node("Break", <<>>, <<>>)),
     Unworded(<<Mark("Continue"), Mark("child"), Name("t")>> \o Dot, Node("Continue", <<"t">>, <<>>))}
TextOf(body) == FlattenSeq([k \in DOMAIN body |-> body[k].text])
(* Sentences with bodies of sentences.                                     *)
WithBody(b) ==
    LET inside == InSquares(TextOf(b))
        tree == Block(ReadOf(b))
    IN  {Worded_(<<Mark("If")>> \o A \o Arrow \o inside, Node("IfElse", <<>>, <<EntityA, tree>>)),
         Worded_(<<Mark("If")>> \o CallText \o Arrow \o inside \o <<Mark("Else")>> \o InSquares(<<>>),
                 Node("IfElse", <<>>, <<CallA, tree, Block(<<>>)>>)),
         Worded_(<<Mark("If")>> \o A \o Arrow \o InSquares(<<>>) \o <<Mark("Else"), Mark("If")>> \o A \o Arrow
                     \o inside \o <<Mark("Else")>> \o inside,
                 Node("IfElse", <<>>, <<EntityA, Block(<<>>), EntityA, tree, tree>>)),
         Worded_(<<Mark("Do")>> \o inside \o <<Mark("loop"), Mark("If")>> \o CallText \o Dot,
                 Node("LoopIf", <<"do">>, <<CallA, tree>>)),
         Worded_(<<Mark("loop")>> \o Arrow \o <<Name("t")>> \o inside, Node("LoopInfinite", <<"t">>, <<tree>>)),
         Worded_(<<Mark("loop"), Mark("If")>> \o CallText \o Arrow \o inside, Node("LoopIf", <<>>, <<CallA, tree>>)),
         Worded_(<<Mark("loop"), Mark("in")>> \o A \o Arrow \o <<Mark("let"), Name("b"), Mark("separator"), Name("n")>>
                     \o inside,
                 Node("LoopIn", <<"b", "n">>, <<EntityA, tree>>)),
         Worded_(<<Mark("loop"), Mark("to")>> \o Four \o Arrow \o <<Mark("let"), Name("n")>> \o inside,
                 Node("LoopTo", <<"n">>, <<Number("4"), tree>>)),
         Worded_(<<Mark("match")>> \o A \o Arrow \o
                     InSquares(<<Mark("typeSeparator"), Name("v")>> \o InParens(<<Name("b")>>) \o Arrow \o inside
                                \o <<Mark("Else")>> \o InSquares(<<>>)),
                 Node("Match", <<>>, <<EntityA, List(<<Node("MixOrChoiceMatchValue", <<"v", "b">>, <<>>)>>), tree,
                                       Block(<<>>)>>)),
         Worded_(<<Mark("match")>> \o A \o Arrow \o
                     InSquares(CallText \o <<Mark("separator"), Mark("typeSeparator"), Name("v")>> \o Arrow \o inside),
                 Node("Match", <<>>, <<EntityA, List(<<CallA, MatchValue("v")>>), tree>>))}

Ended == ByExpression(TRUE) \cup Changing \cup Simple_
Few == {e \in Ended : Len(e.text) <= 4 \/ e.rest # <<>>}
Unended == ByExpression(FALSE)
InBlocks == UNION {WithBody(b) : b \in [1 .. 1 -> Ended] \cup [1 .. 2 -> Few]}
Nested2 == UNION {WithBody(<<w>>) : w \in UNION {WithBody(<<e>>) : e \in Few}}

Four_ == Number("4")
Minus == <<Word("binaryOperator", "-")>>
InPrerun ==
    {Unworded(A \o Dot, Node("PrerunExpressionSentence", <<>>, <<PrerunA>>)),
     Unworded(CallText \o Dot, Node("PrerunExpressionSentence", <<>>, <<Node("PrerunFunctionCall", <<>>, <<PrerunA>>)>>)),
     Unworded(A \o Minus \o Four \o Dot,
              Node("PrerunExpressionSentence", <<>>, <<Node("PrerunBinaryOperator", <<"-">>, <<PrerunA, Four_>>)>>)),
     Worded_(<<Mark("give")>> \o Dot, Node("PrerunGive", <<>>, <<>>)),
     Worded_(<<Mark("give")>> \o A \o Minus \o Four \o Dot,
             Node("PrerunGive", <<>>, <<Node("PrerunBinaryOperator", <<"-">>, <<PrerunA, Four_>>)>>)),
     Worded_(<<Mark("Break")>> \o Dot, Node("Break", <<>>, <<>>)),
     Worded_(<<Mark("Continue"), Name("t")>> \o Dot, Node("Continue", <<"t">>, <<>>)),
     Worded_(<<Mark("say")>> \o A \o <<Mark("separator")>> \o Four \o Dot, Node("PrerunSay", <<>>, <<PrerunA, Four_>>))}
WithPrerunBody(b) ==
    LET inside == InSquares(TextOf(b))
        tree == Block(ReadOf(b))
        worded == \A k \in DOMAIN b : b[k].worded
        Whole(tokens, t) == SentenceOf(tokens, t, <<>>, worded, TRUE)
    IN  {Whole(<<Mark("If")>> \o A \o Arrow \o inside, Node("PrerunIfElse", <<>>, <<PrerunA, tree>>)),
         Whole(<<Mark("If")>> \o A \o Arrow \o InSquares(<<>>) \o <<Mark("Else"), Mark("If")>> \o A \o Arrow
                   \o inside \o <<Mark("Else")>> \o inside,
               Node("PrerunIfElse", <<>>, <<PrerunA, Block(<<>>), PrerunA, tree, tree>>)),
         Whole(<<Mark("loop"), Mark("to")>> \o Four \o Arrow \o <<Mark("let"), Name("n")>> \o inside,
               Node("PrerunLoopTo", <<"n">>, <<Four_, tree>>))}
InPrerunBlocks == UNION {WithPrerunBody(b) : b \in [1 .. 1 -> InPrerun] \cup [1 .. 2 -> InPrerun]}

BodiesBy(by, S) == {[by |-> by, sentences |-> b] : b \in S}
SomeBodies ==
    UNION {BodiesBy("sentences", UNION {[1 .. n -> Ended \cup Unended] : n \in 1 .. 2}),
           BodiesBy("sentences", {<<w, e>> : w \in InBlocks, e \in Few \cup Unended}),
           BodiesBy("sentences", {<<w>> : w \in Nested2}),
           BodiesBy("prerun sentences", UNION {[1 .. n -> InPrerun] : n \in 1 .. 2}),
           BodiesBy("prerun sentences", {<<w, e>> : w \in InPrerunBlocks, e \in InPrerun}),
           BodiesBy("prerun sentences", {<<w>> : w \in UNION {WithPrerunBody(<<x>>) : x \in InPrerunBlocks}})}

(* Short texts in which every bracket that opens is closed.                *)
Brackets_ == {Mark("parenthesisOpen"), Mark("parenthesisClose"), Mark("bracketOpen"), Mark("bracketClose")}
TypeTokens == Brackets_ \cup
    {Name("a"), Word("integerLiteral", "4"), Word("integerType", "i32"), Word("nativeType", "int"),
     Mark("genericTypeStart"), Mark("genericTypeEnd"),
     Mark("referenceType"), Mark("semiColon"), Mark("separator"), Word("binaryOperator", "-"), Mark("child")}
BodyTokens == Brackets_ \cup
    {Name("a"), Word("integerLiteral", "4"), Mark("stop"), Mark("separator"), Mark("assignment"), Mark("give"),
     Mark("fatArrow"), Mark("If"), Mark("Else"), Word("binaryOperator", "-"), Mark("child")}

RECURSIVE Closes_(_, _)
Closes_(tokens, open) ==
    IF tokens = <<>> THEN open = <<>>
    ELSE LET kind == Head(tokens).kind
         IN  CASE kind \in DOMAIN Closer -> Closes_(Tail(tokens), <<Closer[kind]>> \o open)
               [] kind \in {"parenthesisClose", "bracketClose", "genericTypeEnd"} ->
                     open # <<>> /\ Head(open) = kind /\ Closes_(Tail(tokens), Tail(open))
               [] OTHER -> Closes_(Tail(tokens), open)
ShortTexts == UNION {{t \in [1 .. n -> TypeTokens] : Closes_(t, <<>>)} : n \in 1 .. 4}
ShortBodies == UNION {{t \in [1 .. n -> BodyTokens] : Closes_(t, <<>>)} : n \in 1 .. 4}
===============================================================================

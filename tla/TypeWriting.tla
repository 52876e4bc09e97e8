------------------------------ MODULE TypeWriting ------------------------------
(***************************************************************************)
(* How the compiler itself writes the types and prerun expressions it has  *)
(* read, in its messages and in the names of generic variants: to_string   *)
(* of each node, as the tokens that its text is lexed into.                *)
(***************************************************************************)
EXTENDS Tokens

Word(kind, value) == [kind |-> kind, value |-> value]
Mark(kind) == Word(kind, "")
Marks(kinds) == [i \in DOMAIN kinds |-> Mark(kinds[i])]

Name(word) == IF word = "up" THEN Mark("super") ELSE Word("identifier", word)

(* Texts with a mark between two of them.                                  *)
Joined(texts, mark) ==
    FoldLeft(LAMBDA written, one : IF written = <<>> THEN one ELSE written \o <<Mark(mark)>> \o one,
             <<>>, texts)

fullName(words) == Joined([i \in DOMAIN words |-> <<Name(words[i])>>], "colon")
IsName(word) == word # "up"
NamesOnly(words) == fullName(SelectSeq(words, IsName))
AfterColons(words) == FoldLeft(LAMBDA written, w : written \o <<Mark("colon"), Name(w)>>, <<>>, words)

InBrackets(inside) == <<Mark("genericTypeStart")>> \o inside \o <<Mark("genericTypeEnd")>>
InParens(inside) == <<Mark("parenthesisOpen")>> \o inside \o <<Mark("parenthesisClose")>>
IfHas(n, word, marks) == IF word \in ToSet(n.words) THEN Marks(marks) ELSE <<>>

RECURSIVE to_string(_)

All(nodes) == [i \in DOMAIN nodes |-> to_string(nodes[i])]
Listed(nodes) == Joined(All(nodes), "separator")

(* The owner a pointer names: a keyword, with a type when a type owns.     *)
OwnerString(owner) ==
    CASE owner.kind = "anyRegion" -> <<Mark("region")>>
      [] owner.parts = <<>> -> <<Mark(owner.kind)>>
      [] OTHER -> <<Mark(owner.kind)>> \o InParens(to_string(owner.parts[1]))

(* A pointer that is never null is written as one that may be.             *)
PtrString(n) ==
    <<Mark(n.kind)>> \o
    InBrackets(IfHas(n, "var", <<"var">>) \o to_string(n.parts[1]) \o
               IF Len(n.parts) = 1 THEN <<>> ELSE <<Mark("separator")>> \o OwnerString(n.parts[2]))

FunctionString(n) ==
    InParens(Listed(Front(n.parts)) \o
             IF n.words = <<>> THEN <<>>
             ELSE (IF Len(n.parts) = 1 THEN <<>> ELSE <<Mark("separator")>>) \o <<Mark("variadic")>>)
    \o <<Mark("givenTypeSeparator")>> \o to_string(Last(n.parts))

TypeString(n) ==
    CASE n.kind \in {"selfInstance", "selfWord"} -> <<Mark(n.kind)>>
      [] n.kind = "SubType" ->
            IF n.parts # <<>> THEN to_string(n.parts[1]) \o AfterColons(n.words)
            ELSE IfHas(n, "skill", <<"skill">>) \o AfterColons(Tail(n.words))
      [] n.kind = "nativeType" \/ n.kind \in {"unsignedIntegerType", "integerType", "floatType", "voidType",
                                              "textType", "characterType"} -> <<Word(n.kind, n.words[1])>>
      [] n.kind = "GenericInteger" ->
            <<IF n.words = <<>> THEN Mark("genericIntegerType") ELSE Word("nativeType", n.words[1])>>
                \o InBrackets(Listed(n.parts))
      [] n.kind \in {"result", "futureType"} ->
            <<Mark(n.kind)>> \o InBrackets(IfHas(n, "pack", <<"packed", "separator">>) \o Listed(n.parts))
      [] n.kind = "maybeType" ->
            IfHas(n, "pack", <<"packed">>) \o <<Mark("maybeType")>> \o InBrackets(Listed(n.parts))
      [] n.kind = "vectorType" ->
            <<Mark("vectorType")>> \o InBrackets(IfHas(n, "?", <<"questionMark", "separator">>) \o Listed(n.parts))
      [] n.kind \in {"referenceType", "sliceType"} ->
            <<Mark(n.kind)>> \o InBrackets(IfHas(n, "var", <<"var">>) \o to_string(n.parts[1]))
      [] n.kind \in {"ptrType", "multiPtrType"} -> PtrString(n)
      [] n.kind = "FunctionType" -> FunctionString(n)
      [] n.kind = "TupleType" -> InParens(Joined(All(n.parts), "semiColon"))
      [] n.kind = "ArrayType" ->
            <<Mark("bracketOpen")>> \o to_string(n.parts[1]) \o <<Mark("bracketClose")>> \o to_string(n.parts[2])
      [] n.kind \in {"NamedType", "LinkedGeneric"} -> NamesOnly(n.words)
      [] n.kind = "GenericNamedType" -> NamesOnly(n.words) \o InBrackets(Listed(n.parts))

PrerunString(n) ==
    CASE n.kind \in {"integerLiteral", "floatLiteral", "StringLiteral", "TRUE", "FALSE"} ->
            <<Word(n.kind, n.words[1])>>
      [] n.kind = "PrerunEntity" -> fullName(n.words)
      [] n.kind = "TypeWrap" ->
            IF n.words = <<>> THEN to_string(n.parts[1])
            ELSE <<Mark("Type")>> \o InParens(to_string(n.parts[1]))
      [] n.kind = "PrerunSubEntity" ->
            CASE n.parts # <<>> -> to_string(n.parts[1]) \o AfterColons(n.words)
              [] n.words[1] = "Do" -> Marks(<<"Do", "colon", "skill">>) \o AfterColons(Tail(n.words))
              [] OTHER -> <<Mark("skill")>> \o AfterColons(Tail(n.words))
      [] n.kind = "PrerunMixOrChoiceInit" ->
            (IF n.parts[1] = Nil THEN <<>> ELSE to_string(n.parts[1])) \o
            <<Mark("typeSeparator"), Name(n.words[1])>> \o
            (IF Len(n.parts) = 1 THEN <<>> ELSE InParens(to_string(n.parts[2])))
      [] n.kind = "PrerunNegative" -> <<Word("binaryOperator", "-")>> \o to_string(n.parts[1])
      [] n.kind = "PrerunBitwiseNot" -> <<Word("unaryOperator", "~")>> \o to_string(n.parts[1])
      [] n.kind = "PrerunBinaryOperator" ->
            to_string(n.parts[1]) \o <<Word("binaryOperator", n.words[1])>> \o to_string(n.parts[2])
      [] n.kind = "PrerunMemberAccess" ->
            to_string(n.parts[1]) \o <<Mark("child"), Name(n.words[1])>>
      [] n.kind = "PrerunMemberFnCall" ->
            to_string(n.parts[1]) \o <<Mark("child"), Name(n.words[1])>> \o InParens(Listed(Tail(n.parts)))
      [] n.kind = "PrerunDefault" ->
            <<Mark("Default")>> \o (IF n.parts = <<>> THEN <<>> ELSE InBrackets(to_string(n.parts[1])))
      [] n.kind = "PrerunArrayLiteral" ->
            <<Mark("bracketOpen")>> \o Listed(n.parts) \o <<Mark("bracketClose")>>
      [] n.kind = "PrerunTupleValue" ->
            InParens(Joined(All(n.parts), "semiColon") \o
                     IF Len(n.parts) = 1 THEN <<Mark("semiColon")>> ELSE <<>>)

PrerunKinds == {"integerLiteral", "floatLiteral", "StringLiteral", "TRUE", "FALSE", "PrerunEntity", "TypeWrap",
                "PrerunSubEntity", "PrerunMixOrChoiceInit", "PrerunNegative", "PrerunBitwiseNot",
                "PrerunBinaryOperator", "PrerunMemberAccess", "PrerunMemberFnCall", "PrerunDefault",
                "PrerunArrayLiteral", "PrerunTupleValue"}

to_string(n) == IF n.kind \in PrerunKinds THEN PrerunString(n) ELSE TypeString(n)
===============================================================================

--------------------------------- MODULE Parser ---------------------------------
(***************************************************************************)
(* How the parser reads types, the prerun expressions in them and the      *)
(* values that fill generic parameters; expressions; and the sentences of  *)
(* functions.  A reader starts after the token `from`, goes no further     *)
(* than the token before `upto` by itself, and tells the tree and the last *)
(* token it took.                                                          *)
(***************************************************************************)
EXTENDS Tokens

CONSTANTS TypedGenerics, PrerunGenerics   \* names of the parameters around

(* Every reader that another one calls, by the name of what it reads.      *)
RECURSIVE Read(_, _, _, _)

do_type(from, upto, isPartOfExpression) == Read("type", from, upto, isPartOfExpression)
do_prerun_expression(from, upto, returnOnFirstExp) == Read("prerun", from, upto, returnOnFirstExp)
do_generic_fill(from, upto) == Read("fills", from, upto, FALSE)
do_expression(from, upto, returnAtFirstExp) == Read("expression", from, upto, returnAtFirstExp)
do_sentences(from, upto) == Read("sentences", from, upto, FALSE)
do_prerun_sentences(from) == Read("prerun sentences", from, End, FALSE)

Simple == {"voidType", "characterType", "textType", "unsignedIntegerType", "integerType", "floatType"}
Triggers == {"voidType", "nativeType", "maybeType", "vectorType", "textType", "unsignedIntegerType",
             "integerType", "floatType", "futureType", "result", "referenceType", "ptrType",
             "multiPtrType", "sliceType"}

List(nodes) == Node("list", <<>>, nodes)

-----------------------------------------------------------------------------
(* The token before the first type in :[ ... ] or :[pack, ... ].           *)
BeforeFirst(i) ==
    CASE ~is_next("genericTypeStart", i) -> None
      [] is_next("packed", i + 1) -> IF is_next("separator", i + 2) THEN i + 3 ELSE None
      [] OTHER -> i + 1
Packed(i) == IF is_next("packed", i + 1) THEN <<"pack">> ELSE <<>>
EndFrom(s) == get_pair_end("genericTypeStart", "genericTypeEnd", s)

(* maybe:[T] and future:[T]                                                *)
WrapperType(i) ==
    LET s == BeforeFirst(i)
    IN  Require(s # None /\ EndFrom(s) # None,
                Then(do_type(s, EndFrom(s), FALSE),
                     LAMBDA sub : Got(Node(Kind(i), Packed(i), <<sub.node>>), EndFrom(s))))

ResultType(i) ==
    LET s == BeforeFirst(i)
        mid == first_primary_position("separator", s)
    IN  Require(s # None /\ EndFrom(s) # None /\ is_primary_within("separator", s, EndFrom(s)),
                Then(do_type(s, mid, FALSE), LAMBDA valid :
                Then(do_type(mid, EndFrom(s), FALSE), LAMBDA error :
                     Got(Node("result", Packed(i), <<valid.node, error.node>>), EndFrom(s)))))

(* int:[bits] and uint:[bits] end before their bracket.                    *)
NativeType(i) ==
    IF Value(i) \in {"int", "uint"} /\ is_next("genericTypeStart", i)
    THEN Then(do_prerun_expression(i + 1, End, FALSE), LAMBDA bits :
              Require(is_next("genericTypeEnd", bits.at),
                      Got(Node("GenericInteger", <<Value(i)>>, <<bits.node>>), bits.at)))
    ELSE Got(Node("nativeType", <<Value(i)>>, <<>>), i)

GenericIntegerType(i) ==
    Require(is_next("genericTypeStart", i),
            Then(do_prerun_expression(i + 1, End, FALSE), LAMBDA isUnsigned :
            Require(is_next("separator", isUnsigned.at),
            Then(do_prerun_expression(isUnsigned.at + 1, End, FALSE), LAMBDA bits :
            Require(is_next("genericTypeEnd", bits.at),
                    Got(Node("GenericInteger", <<>>, <<isUnsigned.node, bits.node>>), bits.at + 1))))))

VectorType(i) ==
    LET scalable == is_next("questionMark", i + 1)
    IN  Require(is_next("genericTypeStart", i) /\ (scalable => is_next("separator", i + 2)),
                Then(do_prerun_expression(IF scalable THEN i + 3 ELSE i + 1, End, FALSE), LAMBDA count :
                Require(is_next("separator", count.at),
                Then(do_type(count.at + 1, End, FALSE), LAMBDA sub :
                Require(is_next("genericTypeEnd", sub.at),
                        Got(Node("vectorType", IF scalable THEN <<"?">> ELSE <<>>,
                                 <<count.node, sub.node>>), sub.at + 1))))))

(* Not as it is: the closing bracket is left for who reads on.             *)
ViewTypeBeforeBracket(i) ==
    LET var == is_next("var", i + 1)
    IN  Require(is_next("genericTypeStart", i),
                Then(do_type(IF var THEN i + 2 ELSE i + 1, End, FALSE), LAMBDA sub :
                Require(is_next("genericTypeEnd", sub.at),
                        Got(Node(Kind(i), IF var THEN <<"var">> ELSE <<>>, <<sub.node>>), sub.at))))

(* ref:[T], slice:[T] and those of var T                                   *)
ViewType(i) ==
    LET var == is_next("var", i + 1)
    IN  Require(is_next("genericTypeStart", i),
                Then(do_type(IF var THEN i + 2 ELSE i + 1, End, FALSE), LAMBDA sub :
                Require(is_next("genericTypeEnd", sub.at),
                        Got(Node(Kind(i), IF var THEN <<"var">> ELSE <<>>, <<sub.node>>), sub.at + 1))))

(* The owner of a pointer, after the separator at p and up to the bracket  *)
(* at close: its name and the type that owns, if one does.                 *)
PtrOwner(p, close) ==
    LET named == p + 2 = close
        OwnerType(from) ==
            LET paren == PairEnd(p + 2)
            IN  Require(is_next("parenthesisOpen", p + 1) /\ paren # None /\ paren + 1 = close,
                        Then(do_type(from, paren, FALSE), LAMBDA owner :
                             Require(owner.at + 1 = paren, Got(Node(Kind(p + 1), <<>>, <<owner.node>>), paren))))
    IN  CASE Kind(p + 1) \in {"own", "heap", "selfInstance"} ->
                Require(named, Got(Node(Kind(p + 1), <<>>, <<>>), p + 1))
          [] Kind(p + 1) = "Type" -> OwnerType(p + 2)
          [] Kind(p + 1) = "region" ->
                IF is_next("parenthesisOpen", p + 1) THEN OwnerType(p + 1)
                ELSE Got(Node("anyRegion", <<>>, <<>>), p + 1)
          [] OTHER -> Bad

PtrType(i, upto) ==
    LET nonNull == is_next("exclamation", i)
        open == IF nonNull THEN i + 2 ELSE i + 1
        var == is_next("var", open)
        s == IF var THEN open + 1 ELSE open
        close == get_pair_end(Kind(open), Closer[Kind(open)], s)
        words == (IF nonNull THEN <<"!">> ELSE <<>>) \o (IF var THEN <<"var">> ELSE <<>>)
        mid == first_primary_position("separator", s)
    IN  Require(/\ Kind(open) = IF nonNull THEN "bracketOpen" ELSE "genericTypeStart"
                /\ close \in 1 .. upto - 1,
                IF is_primary_within("separator", s, close)
                THEN Then(do_type(s, mid, FALSE), LAMBDA sub :
                     Then(PtrOwner(mid, close), LAMBDA owner :
                          Got(Node(Kind(i), words, <<sub.node, owner.node>>), close)))
                ELSE Then(do_type(s, close, FALSE), LAMBDA sub :
                          Require(sub.at + 1 = close, Got(Node(Kind(i), words, <<sub.node>>), close))))

(* [length]T                                                               *)
ArrayType(i) ==
    Require(PairEnd(i) # None,
            Then(do_prerun_expression(i, PairEnd(i), FALSE), LAMBDA length :
            Require(length.at + 1 <= PairEnd(i),
            Then(do_type(PairEnd(i), End, FALSE), LAMBDA sub :
                 Got(Node("ArrayType", <<>>, <<length.node, sub.node>>), sub.at)))))

(* The types between the semicolons of ( ; ).                              *)
RECURSIVE TupleParts(_, _, _)
TupleParts(j, close, types) ==
    LET semi == first_primary_position("semiColon", j)
        within == is_primary_within("semiColon", j, close)
    IN  IF j >= close \/ (~within /\ j = close - 1) THEN Got(List(types), close)
        ELSE Then(do_type(j, IF within THEN semi ELSE close, FALSE), LAMBDA sub :
                  TupleParts(IF within THEN semi ELSE close, close, Append(types, sub.node)))

(* The types of the arguments of ( , ) -> T, from i up to the bracket.     *)
RECURSIVE ArgumentTypes(_, _, _)
ArgumentTypes(i, close, types) ==
    CASE i >= close -> Got(List(types), i)
      [] is_next("variadic", i) ->
            LET j == IF is_next("separator", i + 1) THEN i + 2 ELSE i + 1
            IN  Require(~is_next("separator", j) /\ j + 1 = close,
                        Got(Node("list", <<"variadic">>, types), j))
      [] Kind(i + 1) \in {"selfInstance", "separator"} -> Bad
      [] i = close - 1 -> Got(List(types), i)
      [] OTHER ->
            Then(do_type(i, End, FALSE), LAMBDA sub :
                 CASE is_next("separator", sub.at) ->
                        Require(~is_next("separator", sub.at + 1),
                                ArgumentTypes(sub.at + 1, close, Append(types, sub.node)))
                   [] sub.at = close - 1 -> ArgumentTypes(sub.at, close, Append(types, sub.node))
                   [] OTHER -> Bad)

TupleOrFunctionType(i, upto) ==
    LET close == PairEnd(i)
    IN  CASE close = None \/ close > upto -> Bad
          [] is_next("givenTypeSeparator", close) ->
                Then(ArgumentTypes(i, close, <<>>), LAMBDA arguments :
                Then(do_type(close + 1, End, FALSE), LAMBDA given :
                     Got(Node("FunctionType", arguments.node.words, Append(arguments.node.parts, given.node)),
                         given.at)))
          [] ~is_primary_within("separator", i, close) /\ is_primary_within("semiColon", i, close) ->
                Then(TupleParts(i, close, <<>>), LAMBDA types :
                     Got(Node("TupleType", <<>>, types.node.parts), close))
          [] OTHER -> Bad

(* A name, with what fills its parameters in :[ ].  Where nothing does the *)
(* brackets are left for the next reader.                                  *)
NamedOrGenericType(i) ==
    Then(do_symbol(i), LAMBDA symbol :
         LET end == EndFrom(symbol.at + 1)
             words == symbol.node.words
             name == SelectSeq(words, LAMBDA w : w # "up")
         IN  CASE is_next("genericTypeStart", symbol.at) ->
                    CASE end = None -> Bad
                      [] end = symbol.at + 2 -> Got(Node("GenericNamedType", words, <<>>), symbol.at)
                      [] OTHER -> Then(do_generic_fill(symbol.at + 1, end), LAMBDA fills :
                                       Got(Node("GenericNamedType", words, fills.node.parts), end))
               [] Len(name) = 1 /\ name[1] \in TypedGenerics \cup PrerunGenerics ->
                    Got(Node("LinkedGeneric", name, <<>>), symbol.at)
               [] OTHER -> Got(Node("NamedType", words, <<>>), symbol.at))

(* The type that starts at i.                                              *)
TypeAt(i, upto) ==
    CASE Kind(i) \in {"selfInstance", "selfWord"} -> Got(Node(Kind(i), <<>>, <<>>), i)
      [] Kind(i) \in {"Do", "skill"} -> SkillNames("SubType", i)
      [] Kind(i) = "nativeType" -> NativeType(i)
      [] Kind(i) = "vectorType" -> VectorType(i)
      [] Kind(i) = "result" -> ResultType(i)
      [] Kind(i) \in {"futureType", "maybeType"} -> WrapperType(i)
      [] Kind(i) = "parenthesisOpen" -> TupleOrFunctionType(i, upto)
      [] Kind(i) \in Simple -> Got(Node(Kind(i), <<Value(i)>>, <<>>), i)
      [] Kind(i) = "genericIntegerType" -> GenericIntegerType(i)
      [] Kind(i) \in {"super", "identifier"} -> NamedOrGenericType(i)
      [] Kind(i) \in {"referenceType", "sliceType"} -> ViewType(i)
      [] Kind(i) \in {"multiPtrType", "ptrType"} -> PtrType(i, upto)
      [] Kind(i) = "bracketOpen" -> ArrayType(i)

(* Tokens that start a type; those that end one that has been read, and    *)
(* those that take its place.                                              *)
Replacing == {"selfInstance", "selfWord", "Do", "nativeType", "vectorType", "result", "futureType",
              "maybeType", "characterType"}
Ending == (Simple \ {"characterType"}) \cup {"genericIntegerType", "super", "identifier", "referenceType",
              "sliceType", "multiPtrType", "ptrType", "bracketOpen"}
TypeStarts == Replacing \cup Ending \cup {"skill", "parenthesisOpen"}

RECURSIVE TypeFrom(_, _, _, _)
TypeFrom(i, type, upto, isPartOfExpression) ==
    LET Rest(r) == TypeFrom(r.at + 1, r.node, upto, isPartOfExpression)
        ends == \/ i >= upto
                \/ Kind(i) \notin TypeStarts \cup {"colon"}
                \/ /\ type # Nil
                   /\ \/ Kind(i) \in Ending
                      \/ Kind(i) \in {"skill", "colon"} /\ isPartOfExpression
                      \/ Kind(i) = "parenthesisOpen" /\ PairEnd(i) # None
                           /\ ~is_primary_within("semiColon", i, PairEnd(i))
    IN  CASE ends -> Require(type # Nil, Got(type, i - 1))
          [] Kind(i) = "colon" -> Require(type # Nil, Then(NamesOf("SubType", type, i), Rest))
          [] Kind(i) = "parenthesisOpen" /\ type # Nil -> Bad
          [] OTHER -> Then(TypeAt(i, upto), Rest)


-----------------------------------------------------------------------------
(* Prerun expressions.  Arguments and members between separators; what is  *)
(* left of an element after its expression is passed over.                 *)
RECURSIVE do_separated_prerun_expressions(_, _, _)
do_separated_prerun_expressions(from, to, read) ==
    LET stop == IF is_primary_within("separator", from, to)
                THEN first_primary_position("separator", from) ELSE to
    IN  IF from + 1 >= to THEN Got(List(read), to)
        ELSE Then(do_prerun_expression(from, stop, FALSE), LAMBDA value :
                  do_separated_prerun_expressions(stop, to, Append(read, value.node)))

(* name := value, ... after j                                              *)
RECURSIVE PrerunFields(_, _, _, _)
PrerunFields(j, upto, names, values) ==
    LET within == is_primary_within("separator", j + 2, upto)
        stop == IF within THEN first_primary_position("separator", j + 2) ELSE upto
    IN  IF j + 1 >= upto THEN Got(Node("list", names, values), upto)
        ELSE Require(/\ is_next("identifier", j) /\ is_next("associatedAssignment", j + 1)
                     /\ stop # j + 3,
                     Then(do_prerun_expression(j + 2, stop, FALSE), LAMBDA value :
                          PrerunFields(stop, upto, Append(names, Value(j + 1)), Append(values, value.node))))

(* T from { }, with its bracket at i.                                      *)
PrerunPlainInit(i, type) ==
    LET close == PairEnd(i)
    IN  Require(Kind(i) = "curlybraceOpen" /\ close # None /\ type # Nil,
                Then(IF is_primary_within("associatedAssignment", i, close)
                     THEN PrerunFields(i, close, <<>>, <<>>)
                     ELSE do_separated_prerun_expressions(i, close, <<>>),
                     LAMBDA values :
                        Got(Node("PrerunPlainInit", values.node.words, <<type>> \o values.node.parts), close)))

(* T::variant, T::variant(value) and T::{ flags }, after the :: at i.      *)
PrerunVariant(i, type) ==
    CASE is_next("identifier", i) /\ is_next("parenthesisOpen", i + 1) ->
            Then(do_prerun_expression(i + 2, End, FALSE), LAMBDA value :
                 Require(is_next("parenthesisClose", value.at),
                         Got(Node("PrerunMixOrChoiceInit", <<Value(i + 1)>>, <<type, value.node>>),
                             value.at + 1)))
      [] is_next("identifier", i) -> Got(Node("PrerunMixOrChoiceInit", <<Value(i + 1)>>, <<type>>), i + 1)
      [] is_next("curlybraceOpen", i) -> FlagBody(i + 1, type)
      [] OTHER -> Bad

(* The operands of a chain of operators that ended at `at`.                *)
RECURSIVE PrerunOperands(_, _, _, _)
PrerunOperands(at, upto, ops, operands) ==
    IF is_next("binaryOperator", at)
    THEN Then(do_prerun_expression(at + 1, upto, TRUE), LAMBDA next :
              PrerunOperands(next.at, upto, Append(ops, Value(at + 1)), Append(operands, next.node)))
    ELSE Got(Grouped("PrerunBinaryOperator", ops, operands), at)

PrerunOperator(i, lhs, upto, returnOnFirstExp) ==
    Then(do_prerun_expression(i, upto, TRUE), LAMBDA rhs :
         IF returnOnFirstExp
         THEN Got(Node("PrerunBinaryOperator", <<Value(i)>>, <<lhs, rhs.node>>), rhs.at)
         ELSE PrerunOperands(rhs.at, upto, <<Value(i)>>, <<lhs, rhs.node>>))

PrerunUnary(kind, i, upto) ==
    Then(do_prerun_expression(i, upto, TRUE), LAMBDA value : Got(Node(kind, <<>>, <<value.node>>), value.at))

(* The arguments of a call after the one that ended at `at`.               *)
RECURSIVE PrerunArguments(_, _)
PrerunArguments(at, read) ==
    CASE ~is_next("separator", at) -> Got(List(read), at)
      [] is_next("parenthesisClose", at + 1) -> Got(List(read), at + 1)
      [] is_next("separator", at + 1) -> Bad
      [] OTHER -> Then(do_prerun_expression(at + 1, End, FALSE), LAMBDA value :
                       PrerunArguments(value.at, Append(read, value.node)))

PrerunCall(i, function) ==
    IF is_next("parenthesisClose", i) THEN Got(Node("PrerunFunctionCall", <<>>, <<function>>), i + 1)
    ELSE Then(do_prerun_expression(i, End, FALSE), LAMBDA first :
         Then(PrerunArguments(first.at, <<first.node>>), LAMBDA arguments :
         Require(is_next("parenthesisClose", arguments.at),
                 Got(Node("PrerunFunctionCall", <<>>, <<function>> \o arguments.node.parts), arguments.at + 1))))

(* ( value ) and ( value; value ): the token after a tuple's last value    *)
(* must not be its bracket.                                                *)
RECURSIVE PrerunMembers(_, _)
PrerunMembers(at, read) ==
    IF is_next("semiColon", at)
    THEN Then(do_prerun_expression(at + 1, End, FALSE), LAMBDA value :
              PrerunMembers(value.at, Append(read, value.node)))
    ELSE Require(~is_next("parenthesisClose", at), Got(Node("PrerunTupleValue", <<>>, read), at + 1))

PrerunEnclosed(i) ==
    Then(do_prerun_expression(i, End, FALSE), LAMBDA value :
         CASE is_next("semiColon", value.at) -> PrerunMembers(value.at, <<value.node>>)
           [] is_next("parenthesisClose", value.at) -> Got(value.node, value.at + 1)
           [] OTHER -> Bad)

(* The end of a list is looked for after its first token.                  *)
PrerunArrayLiteral(i) ==
    LET close == get_pair_end("bracketOpen", "bracketClose", i + 1)
    IN  Require(close # None,
                Then(do_separated_prerun_expressions(i, close, <<>>), LAMBDA values :
                     Got(Node("PrerunArrayLiteral", <<>>, values.node.parts), close)))

(* What follows a child mark at i: a member, a method or a conversion.     *)
PrerunChild(i, value) ==
    LET close == PairEnd(i + 2)
    IN  CASE is_next("identifier", i) /\ is_next("parenthesisOpen", i + 1) ->
                Require(close # None,
                        Then(do_separated_prerun_expressions(i + 2, close, <<>>), LAMBDA arguments :
                             Got(Node("PrerunMemberFnCall", <<Value(i + 1)>>, <<value>> \o arguments.node.parts),
                                 close)))
          [] is_next("identifier", i) -> Got(Node("PrerunMemberAccess", <<Value(i + 1)>>, <<value>>), i + 1)
          [] is_next("to", i) /\ is_next("genericTypeStart", i + 1) ->
                Then(do_type(i + 2, End, FALSE), LAMBDA type :
                     Require(is_next("genericTypeEnd", type.at),
                             Got(Node("PrerunTo", <<>>, <<value, type.node>>), type.at + 1)))
          [] OTHER -> Bad

(* default and default:[T]: the end is looked for from before the bracket. *)
PrerunDefault(i) ==
    LET close == get_pair_end("genericTypeStart", "genericTypeEnd", i)
    IN  IF is_next("genericTypeStart", i)
        THEN Require(close # None, Then(do_type(i, close, FALSE), LAMBDA type :
                        Require(type.at <= close, Got(Node("PrerunDefault", <<>>, <<type.node>>), close))))
        ELSE Got(Node("PrerunDefault", <<>>, <<>>), i)

(* type(T)                                                                 *)
TypeWrap(i) ==
    LET close == PairEnd(i + 1)
    IN  Require(is_next("parenthesisOpen", i) /\ close # None,
                Then(do_type(i + 1, close, FALSE), LAMBDA type :
                     Require(type.at + 1 = close, Got(Node("TypeWrap", <<"type">>, <<type.node>>), close))))

PrerunEntity(i) ==
    Then(do_symbol(i), LAMBDA symbol :
         LET words == symbol.node.words
             name == SelectSeq(words, LAMBDA w : w # "up")
         IN  CASE is_next("genericTypeStart", symbol.at) -> Bad
               [] Len(name) = 1 /\ name[1] \in TypedGenerics ->
                    Got(Node("TypeWrap", <<>>, <<Node("LinkedGeneric", name, <<>>)>>), symbol.at)
               [] OTHER -> Got(Node("PrerunEntity", words, <<>>), symbol.at))

PrerunLiterals == {"FALSE", "TRUE", "integerLiteral", "floatLiteral", "StringLiteral"}

(* The prerun expression that starts at i.                                 *)
PrerunAt(i, upto) ==
    CASE Kind(i) \in Triggers ->
            Then(do_type(i - 1, End, TRUE), LAMBDA type : Got(Node("TypeWrap", <<>>, <<type.node>>), type.at))
      [] Kind(i) \in {"super", "identifier"} -> PrerunEntity(i)
      [] Kind(i) \in {"Do", "skill"} -> SkillNames("PrerunSubEntity", i)
      [] Kind(i) = "typeSeparator" -> PrerunVariant(i, Nil)
      [] Kind(i) = "Type" -> TypeWrap(i)
      [] Kind(i) \in PrerunLiterals -> Got(Node(Kind(i), <<Value(i)>>, <<>>), i)
      [] Kind(i) = "unaryOperator" -> PrerunUnary("PrerunBitwiseNot", i, upto)
      [] Kind(i) = "binaryOperator" /\ Value(i) = "-" -> PrerunUnary("PrerunNegative", i, upto)
      [] Kind(i) = "Default" -> PrerunDefault(i)
      [] Kind(i) = "parenthesisOpen" -> PrerunEnclosed(i)
      [] Kind(i) = "bracketOpen" -> PrerunArrayLiteral(i)
      [] OTHER -> Bad

(* What the tokens at i make of the expression before them.                *)
PrerunOnto == {"typeSeparator", "binaryOperator", "from", "colon", "parenthesisOpen", "child"}
PrerunAfter(i, value, upto, returnOnFirstExp) ==
    CASE Kind(i) = "typeSeparator" -> PrerunVariant(i, value)
      [] Kind(i) = "binaryOperator" -> PrerunOperator(i, value, upto, returnOnFirstExp)
      [] Kind(i) = "from" -> PrerunPlainInit(i + 1, value)
      [] Kind(i) = "colon" /\ is_next("from", i) -> PrerunPlainInit(i + 2, value)
      [] Kind(i) = "colon" -> NamesOf("PrerunSubEntity", value, i)
      [] Kind(i) = "parenthesisOpen" -> PrerunCall(i, value)
      [] Kind(i) = "child" -> PrerunChild(i, value)

PrerunStarts == Triggers \cup PrerunLiterals \cup PrerunOnto \cup
    {"super", "identifier", "Do", "skill", "Type", "unaryOperator", "Default", "bracketOpen"}

(* One expression is read at a time, and given to what comes after it; a   *)
(* second one that starts where another ended is an error.                 *)
RECURSIVE PrerunFrom(_, _, _, _)
PrerunFrom(i, value, upto, returnOnFirstExp) ==
    CASE i < upto /\ Kind(i) = "comment" -> PrerunFrom(i + 1, value, upto, returnOnFirstExp)
      [] i >= upto \/ Kind(i) \notin PrerunStarts -> Require(value # Nil, Got(value, i - 1))
      [] value # Nil /\ Kind(i) \notin PrerunOnto -> Bad
      [] OTHER ->
            Then(IF value = Nil THEN PrerunAt(i, upto) ELSE PrerunAfter(i, value, upto, returnOnFirstExp),
                 LAMBDA r : IF returnOnFirstExp /\ is_next("binaryOperator", r.at) THEN r
                            ELSE PrerunFrom(r.at + 1, r.node, upto, returnOnFirstExp))


-----------------------------------------------------------------------------
(* What fills the parameters of a generic, between from and upto.  A name  *)
(* with parameters of its own is read as a type from after the name.       *)
FillAt(i, upto) ==
    CASE Kind(i) \in Triggers -> do_type(i - 1, upto, TRUE)
      [] Kind(i) \in {"super", "identifier"} ->
            Then(do_symbol(i), LAMBDA symbol :
                 IF is_next("genericTypeStart", symbol.at) THEN do_type(i, End, FALSE)
                 ELSE Got(Node("PrerunEntity", symbol.node.words, <<>>), symbol.at))
      [] Kind(i) = "parenthesisOpen" ->
            LET close == PairEnd(i)
            IN  CASE close = None \/ close > upto -> Bad
                  [] is_primary_within("semiColon", i, close) ->
                        Then(TupleParts(i, close, <<>>), LAMBDA types :
                             Got(Node("TupleType", <<>>, types.node.parts), close))
                  [] OTHER -> Then(do_prerun_expression(i, close, FALSE), LAMBDA value :
                                   Require(value.at < close, Got(value.node, close)))
      [] OTHER -> do_prerun_expression(i - 1, End, FALSE)

RECURSIVE FillsFrom(_, _, _)
FillsFrom(i, upto, read) ==
    IF i >= upto THEN Got(List(read), i)
    ELSE Then(FillAt(i, upto), LAMBDA fill :
              CASE is_next("separator", fill.at) -> FillsFrom(fill.at + 2, upto, Append(read, fill.node))
                [] fill.at = upto - 1 -> FillsFrom(upto, upto, Append(read, fill.node))
                [] OTHER -> Bad)

-----------------------------------------------------------------------------
(* Expressions.  The name, the type and the expression read last are kept  *)
(* in three caches, from which the next tokens take what they apply to.    *)
(* With upto = End a token that belongs to no expression ends it;          *)
(* otherwise such a token is an error.                                     *)
None3 == [symbol |-> Bad, type |-> Nil, exp |-> Nil]     \* nothing cached

hasCachedSymbol(cache) == cache.symbol # Bad
hasCachedExpr(cache) == cache.exp # Nil \/ cache.type # Nil

Entity(symbol) == Node("Entity", symbol.node.words, <<>>)

(* What an expression applies to, and the caches without it.               *)
consumeCachedExpr(cache) == IF cache.exp # Nil THEN cache.exp ELSE Node("TypeWrap", <<>>, <<cache.type>>)
WithoutExpr(cache) == IF cache.exp # Nil THEN [cache EXCEPT !.exp = Nil] ELSE [cache EXCEPT !.type = Nil]

(* The type before a colon, a `from` or a `::`: a name, a type or the type *)
(* an expression stands for.                                               *)
TypeLike(cache) ==
    CASE hasCachedSymbol(cache) -> Node("NamedType", cache.symbol.node.words, <<>>)
      [] cache.type # Nil -> cache.type
      [] OTHER -> cache.exp
WithoutTypeLike(cache) ==
    CASE hasCachedSymbol(cache) -> [cache EXCEPT !.symbol = Bad]
      [] cache.type # Nil -> [cache EXCEPT !.type = Nil]
      [] OTHER -> [cache EXCEPT !.exp = Nil]

(* What a name or an expression before a bracket, a child mark or an       *)
(* operator stands for.                                                    *)
Operand(cache) == IF hasCachedSymbol(cache) THEN Entity(cache.symbol) ELSE consumeCachedExpr(cache)
WithoutOperand(cache) ==
    IF hasCachedSymbol(cache) THEN [cache EXCEPT !.symbol = Bad] ELSE WithoutExpr(cache)

-----------------------------------------------------------------------------
(* Expressions between separators, from one bracket up to the other.       *)
RECURSIVE do_separated_expressions(_, _, _)
do_separated_expressions(from, to, read) ==
    IF from + 1 >= to THEN Got(List(read), to)
    ELSE Then(do_expression(from, End, FALSE), LAMBDA value :
              LET all == Append(read, value.node)
              IN  CASE is_next("separator", value.at) -> do_separated_expressions(value.at + 1, to, all)
                    [] value.at + 1 = to -> Got(List(all), to)
                    [] OTHER -> Bad)

RECURSIVE Fields(_, _, _, _)
Fields(j, upto, names, values) ==
    LET within == is_primary_within("separator", j + 2, upto)
        stop == IF within THEN first_primary_position("separator", j + 2) ELSE upto
    IN  IF j + 1 >= upto THEN Got(Node("list", names, values), upto)
        ELSE Require(/\ is_next("identifier", j) /\ is_next("associatedAssignment", j + 1)
                     /\ stop # j + 3,
                     Then(do_expression(j + 2, stop, FALSE), LAMBDA value :
                          Fields(stop, upto, Append(names, Value(j + 1)), Append(values, value.node))))

do_plain_initialiser(type, from, upto) ==
    Then(IF is_primary_within("associatedAssignment", from, upto) THEN Fields(from, upto, <<>>, <<>>)
         ELSE do_separated_expressions(from, upto, <<>>),
         LAMBDA values : Got(Node("PlainInitialiser", values.node.words, <<type>> \o values.node.parts), upto))

(* The arguments in the parentheses that open at i.                        *)
Arguments(kind, words, first, i) ==
    Require(PairEnd(i) # None,
            Then(do_separated_expressions(i, PairEnd(i), <<>>), LAMBDA arguments :
                 Got(Node(kind, words, first \o arguments.node.parts), PairEnd(i))))

(* One expression in the parentheses that open at i.                       *)
OneInside(kind, words, first, i) ==
    Require(PairEnd(i) # None,
            Then(do_expression(i, PairEnd(i), FALSE), LAMBDA value :
                 Got(Node(kind, words, first \o <<value.node>>), PairEnd(i))))

(* A member or method of value, named at i + 1.                            *)
MemberOf(value, nature, i) ==
    IF is_next("parenthesisOpen", i + 1)
    THEN Arguments("MethodCall", <<Value(i + 1)>> \o nature, <<value>>, i + 2)
    ELSE Got(Node("MemberAccess", <<Value(i + 1)>> \o nature, <<value>>), i + 1)

(* kind:[T], with an end looked for after the bracket.                     *)
WithType(kind, i, whole) ==
    Require(EndFrom(i + 1) # None,
            Then(do_type(i + 1, EndFrom(i + 1), FALSE), LAMBDA type :
                 Require(whole => type.at + 1 = EndFrom(i + 1),
                         Got(Node(kind, <<>>, <<type.node>>), EndFrom(i + 1)))))

NoneExpression(i) ==
    LET s == IF is_next("packed", i + 1) THEN i + 1 ELSE i
    IN  IF ~is_next("genericTypeStart", i) THEN Got(Node("NoneExpression", <<>>, <<>>), i)
        ELSE Then(WithType("NoneExpression", s, TRUE), LAMBDA r :
                  Got(Node("NoneExpression", IF s = i THEN <<>> ELSE <<"pack">>, r.node.parts), r.at))

NullPointer(i) ==
    IF is_next("genericTypeStart", i) THEN WithType("NullPointer", i, TRUE)
    ELSE Got(Node("NullPointer", <<>>, <<>>), i)

Default(i) ==
    IF is_next("genericTypeStart", i) THEN WithType("Default", i, FALSE)
    ELSE Got(Node("Default", <<>>, <<>>), i)

GetIntrinsic(i) ==
    Require(/\ is_next("colon", i) /\ is_next("identifier", i + 1) /\ Value(i + 2) = "intrinsic"
            /\ is_next("genericTypeStart", i + 2) /\ PairEnd(i + 3) # None,
            Then(do_separated_prerun_expressions(i + 3, PairEnd(i + 3), <<>>), LAMBDA parameters :
                 Got(Node("GetIntrinsic", <<>>, parameters.node.parts), PairEnd(i + 3))))

(* '' alone, copied, moved, or one of its members.                         *)
SelfInstance(i) ==
    LET self == Node("SelfInstance", <<>>, <<>>)
        natured == /\ Kind(i + 1) \in {"var", "constant"}
                   /\ is_next("colon", i + 1) /\ is_next("identifier", i + 2)
    IN  CASE is_next("copy", i) -> Got(Node("Copy", <<>>, <<self>>), i + 1)
          [] is_next("move", i) -> Got(Node("Move", <<>>, <<self>>), i + 1)
          [] natured -> MemberOf(self, <<Kind(i + 1)>>, i + 2)
          [] is_next("identifier", i) -> MemberOf(self, <<>>, i)
          [] OTHER -> Got(self, i)

(* heap:get:[T](n), heap:put(p) and heap:grow:[T](p, n)                    *)
Heap(i) ==
    LET operation == Value(i + 2)
        end == PairEnd(i + 3)
        open == end + 1
        split == first_primary_position("separator", open)
    IN  CASE ~is_next("colon", i) \/ ~is_next("identifier", i + 1) -> Bad
          [] operation = "get" /\ is_next("genericTypeStart", i + 2) /\ end # None ->
                Then(do_type(i + 3, end, FALSE), LAMBDA type :
                Require(type.at = end - 1,
                        IF is_next("parenthesisOpen", end) THEN OneInside("HeapGet", <<>>, <<type.node>>, open)
                        ELSE Got(Node("HeapGet", <<>>, <<type.node>>), end)))
          [] operation = "put" /\ is_next("parenthesisOpen", i + 2) -> OneInside("HeapPut", <<>>, <<>>, i + 3)
          [] operation = "grow" /\ is_next("genericTypeStart", i + 2) /\ end # None ->
                Then(do_type(i + 3, end, FALSE), LAMBDA type :
                Require(/\ is_next("parenthesisOpen", end) /\ PairEnd(open) # None
                        /\ is_primary_within("separator", open, PairEnd(open)),
                Then(do_expression(open, split, FALSE), LAMBDA value :
                Then(do_expression(split, PairEnd(open), FALSE), LAMBDA count :
                     Got(Node("HeapGrow", <<>>, <<type.node, value.node, count.node>>), PairEnd(open))))))
          [] OTHER -> Bad

(* The packing and the types of ok:[ ] and error:[ ].  The types are read  *)
(* from before the bracket, and after pack they are passed over.           *)
ResultTypes(i) ==
    LET close == EndFrom(i + 1)
        packed == Node("given", <<"pack">>, <<>>)
    IN  CASE ~is_next("genericTypeStart", i) -> Got(Node("given", <<>>, <<>>), i)
          [] close = None -> Bad
          [] is_next("packed", i + 1) /\ is_next("associatedAssignment", i + 2) ->
                Then(do_prerun_expression(i + 3, End, FALSE), LAMBDA condition :
                     Require(Kind(condition.at + 1) \in {"separator", "genericTypeEnd"},
                             Got([packed EXCEPT !.parts = <<condition.node>>], close)))
          [] is_next("packed", i + 1) ->
                Require(Kind(i + 3) \in {"separator", "genericTypeEnd"}, Got(packed, close))
          [] OTHER ->
                Then(do_type(i, End, FALSE), LAMBDA valid :
                Require(is_next("separator", valid.at),
                Then(do_type(valid.at + 1, End, FALSE), LAMBDA error :
                Require(error.at + 1 = close, Got(Node("given", <<>>, <<valid.node, error.node>>), close)))))

OkOrError(i) ==
    Then(ResultTypes(i), LAMBDA given :
         LET open == given.at + 1
         IN  CASE Kind(open) # "parenthesisOpen" \/ PairEnd(open) = None -> Bad
               [] PairEnd(open) = open + 1 -> Got(Node(Kind(i), <<>>, <<given.node>>), open + 1)
               [] OTHER -> OneInside(Kind(i), <<>>, <<given.node>>, open))

Await(i) == Then(do_expression(i, End, FALSE), LAMBDA value : Got(Node("Await", <<>>, <<value.node>>), value.at))

IsExpression(i) ==
    CASE ~is_next("parenthesisOpen", i) -> Bad
      [] is_next("parenthesisClose", i + 1) -> Got(Node("IsExpression", <<>>, <<>>), i + 2)
      [] OTHER -> OneInside("IsExpression", <<>>, <<>>, i + 1)

(* volatile, or volatile(condition), after the separator at p.             *)
Volatile(p) ==
    CASE ~is_next("Volatile", p) -> Got(Node("volatile", <<>>, <<>>), p)
      [] is_next("parenthesisOpen", p + 1) ->
            Then(do_prerun_expression(p + 2, End, FALSE), LAMBDA condition :
                 Require(is_next("parenthesisClose", condition.at),
                         Got(Node("volatile", <<"if">>, <<condition.node>>), condition.at + 1)))
      [] OTHER -> Got(Node("volatile", <<"always">>, <<>>), p + 1)

(* assembly:[F, code, clobbers, volatile](arguments)                       *)
AssemblyBlock(i) ==
    Require(is_next("genericTypeStart", i) /\ EndFrom(i + 1) # None,
    Then(do_type(i + 1, End, FALSE), LAMBDA function :
    Require(is_next("separator", function.at),
    Then(do_prerun_expression(function.at + 1, End, FALSE), LAMBDA code :
    Require(is_next("separator", code.at),
    Then(do_prerun_expression(code.at + 1, End, FALSE), LAMBDA clobbers :
    Then(IF is_next("separator", clobbers.at) THEN Volatile(clobbers.at + 1)
         ELSE Got(Node("volatile", <<>>, <<>>), clobbers.at), LAMBDA volatile :
         LET last == IF volatile.node.words # <<>> /\ is_next("separator", volatile.at)
                     THEN volatile.at + 1 ELSE volatile.at
         IN  Require(/\ is_next("genericTypeEnd", last) /\ last + 1 = EndFrom(i + 1)
                     /\ is_next("parenthesisOpen", last + 1),
                     Arguments("AssemblyBlock", <<>>,
                               <<function.node, code.node, clobbers.node, volatile.node>>, last + 2)))))))))

Literals == {"Type", "TRUE", "FALSE", "floatLiteral", "integerLiteral"}

(* The expressions that need nothing before them.                          *)
Alone == Literals \cup {"StringLiteral", "none", "null", "Do", "skill", "Default", "meta", "selfInstance",
                        "heap", "ok", "error", "Await", "is", "assembly"}
ExpressionAt(i) ==
    CASE Kind(i) \in Literals -> do_prerun_expression(i - 1, End, TRUE)
      [] Kind(i) = "StringLiteral" -> Got(Node("StringLiteral", <<Value(i)>>, <<>>), i)
      [] Kind(i) = "none" -> NoneExpression(i)
      [] Kind(i) = "null" -> NullPointer(i)
      [] Kind(i) \in {"Do", "skill"} -> SkillNames("SubEntity", i)
      [] Kind(i) = "Default" -> Default(i)
      [] Kind(i) = "meta" -> GetIntrinsic(i)
      [] Kind(i) = "selfInstance" -> SelfInstance(i)
      [] Kind(i) = "heap" -> Heap(i)
      [] Kind(i) \in {"ok", "error"} -> OkOrError(i)
      [] Kind(i) = "Await" -> Await(i)
      [] Kind(i) = "is" -> IsExpression(i)
      [] Kind(i) = "assembly" -> AssemblyBlock(i)

(* 'in(place), 'in:heap and 'in:region(R)                                  *)
InExpression(i, value) ==
    CASE is_next("parenthesisOpen", i + 1) ->
            Then(do_expression(i + 2, End, FALSE), LAMBDA place :
                 Require(is_next("parenthesisClose", place.at),
                         Got(Node("InExpression", <<>>, <<value, place.node>>), place.at + 1)))
      [] is_next("colon", i + 1) /\ is_next("heap", i + 2) ->
            Got(Node("InExpression", <<"heap">>, <<value>>), i + 3)
      [] is_next("colon", i + 1) /\ is_next("region", i + 2) /\ is_next("parenthesisOpen", i + 3) ->
            Then(do_type(i + 4, End, FALSE), LAMBDA region :
                 Require(is_next("parenthesisClose", region.at),
                         Got(Node("InExpression", <<"region">>, <<value, region.node>>), region.at + 1)))
      [] OTHER -> Bad

(* 'to:[T], 'as:[T]                                                        *)
Converted(kind, i, value) ==
    Require(is_next("genericTypeStart", i + 1),
            Then(do_type(i + 2, End, FALSE), LAMBDA type :
                 Require(is_next("genericTypeEnd", type.at),
                         Got(Node(kind, <<>>, <<value, type.node>>), type.at + 1))))

(* What follows a child mark at i.                                         *)
ChildOf(i, value) ==
    CASE is_next("Not", i) -> Got(Node("LogicalNot", <<>>, <<value>>), i + 1)
      [] is_next("referenceType", i) ->
            IF is_next("colon", i + 1) /\ is_next("var", i + 2)
            THEN Got(Node("ConfirmRef", <<"var">>, <<value>>), i + 3)
            ELSE Got(Node("ConfirmRef", <<>>, <<value>>), i + 1)
      [] is_next("in", i) -> InExpression(i, value)
      [] is_next("copy", i) -> Got(Node("Copy", <<>>, <<value>>), i + 1)
      [] is_next("move", i) -> Got(Node("Move", <<>>, <<value>>), i + 1)
      [] is_next("to", i) /\ is_next("colon", i + 1) /\ is_next("referenceType", i + 2) ->
            Got(Node("Dereference", <<>>, <<value>>), i + 3)
      [] is_next("to", i) -> Converted("ToConversion", i, value)
      [] is_next("as", i) -> Converted("Cast", i, value)
      [] is_next("var", i) /\ is_next("colon", i + 1) /\ is_next("identifier", i + 2) ->
            MemberOf(value, <<"var">>, i + 2)
      [] is_next("identifier", i) -> MemberOf(value, <<>>, i)
      [] is_next("end", i) ->
            Require(is_next("parenthesisOpen", i + 1) /\ PairEnd(i + 2) # None,
                    Got(Node("MethodCall", <<"end">>, <<value>>), PairEnd(i + 2)))
      [] is_next("ptrType", i) -> Got(Node("AddressOf", <<>>, <<value>>), i + 1)
      [] OTHER -> Bad

(* T::variant, T::variant(value) and T::{ flags }                          *)
Variant(i, type) ==
    CASE is_next("identifier", i) /\ is_next("parenthesisOpen", i + 1) ->
            OneInside("MixOrChoiceInitialiser", <<Value(i + 1)>>, <<type>>, i + 2)
      [] is_next("identifier", i) -> Got(Node("MixOrChoiceInitialiser", <<Value(i + 1)>>, <<type>>), i + 1)
      [] is_next("curlybraceOpen", i) -> FlagBody(i + 1, type)
      [] OTHER -> Bad

(* What the `from` at i makes of a type, or of none.                       *)
FromCall(i, type) ==
    CASE is_next("parenthesisOpen", i) -> Arguments("ConstructorCall", <<>>, <<type>>, i + 1)
      [] is_next("curlybraceOpen", i) /\ PairEnd(i + 1) # None ->
            do_plain_initialiser(type, i + 1, PairEnd(i + 1))
      [] OTHER -> Bad

FromOrNames(i, type) ==
    CASE Kind(i) = "from" -> Require(type = Nil, FromCall(i, type))
      [] is_next("from", i) -> FromCall(i + 1, type)
      [] OTHER -> Require(type # Nil, NamesOf("SubEntity", type, i))

-----------------------------------------------------------------------------
(* The arguments of a call: several between separators, one, or none.      *)
CallArguments(i) ==
    LET close == PairEnd(i)
    IN  CASE is_primary_within("separator", i, close) -> do_separated_expressions(i, close, <<>>)
          [] i < close - 1 -> Then(do_expression(i, close, FALSE), LAMBDA one : Got(List(<<one.node>>), close))
          [] OTHER -> Got(List(<<>>), close)

(* The values between the semicolons at `marks`, from the bracket at open. *)
RECURSIVE TupleValues(_, _, _)
TupleValues(open, marks, close) ==
    IF marks = <<>> THEN Then(do_expression(open, close, FALSE), LAMBDA last : Got(List(<<last.node>>), close))
    ELSE Then(do_expression(open, Head(marks), FALSE), LAMBDA value :
              IF Tail(marks) = <<>> /\ Head(marks) = close - 1 /\ Kind(open) # "semiColon"
              THEN Got(List(<<value.node>>), close)
              ELSE Then(TupleValues(Head(marks), Tail(marks), close), LAMBDA others :
                        Got(List(<<value.node>> \o others.node.parts), close)))

RECURSIVE Operands(_, _, _, _)
Operands(at, upto, ops, operands) ==
    IF is_next("binaryOperator", at)
    THEN Then(do_expression(at + 1, upto, TRUE), LAMBDA next :
              Operands(next.at, upto, Append(ops, Value(at + 1)), Append(operands, next.node)))
    ELSE Got(Grouped("BinaryExpression", ops, operands), at)

(* lhs operator rhs, and the operators that follow unless this is itself   *)
(* an operand.                                                             *)
BinaryOperator(i, lhs, upto, returnAtFirstExp) ==
    Then(do_expression(i, upto, TRUE), LAMBDA rhs :
         IF returnAtFirstExp
         THEN Got(Node("BinaryExpression", <<Value(i)>>, <<lhs, rhs.node>>), rhs.at)
         ELSE Operands(rhs.at, upto, <<Value(i)>>, <<lhs, rhs.node>>))

RECURSIVE ExpressionFrom(_, _, _, _)

(* setCachedExpr: one expression can be cached, and an operand is complete *)
(* where an operator follows the token `seen`.                             *)
Cached(cache, node, seen, at, upto, returnAtFirstExp) ==
    Require(cache.exp = Nil,
            IF returnAtFirstExp /\ is_next("binaryOperator", seen) THEN Got(node, seen)
            ELSE ExpressionFrom(at + 1, [cache EXCEPT !.exp = node], upto, returnAtFirstExp))

Symbols == {"super", "identifier"}
Others == {"from", "colon", "genericTypeStart", "bracketOpen", "parenthesisOpen", "binaryOperator",
           "typeSeparator", "child"}
ExpressionTokensNoChild == Alone \cup Symbols \cup {"selfWord"} \cup Triggers \cup (Others \ {"child"})  \* not as it is
ExpressionTokens == Alone \cup Symbols \cup {"selfWord"} \cup Triggers \cup Others

ExpressionFrom(i, cache, upto, first) ==
    LET Keep(rest, r) == Then(r, LAMBDA got : Cached(rest, got.node, got.at, got.at, upto, first))
        KeepType(r) == Then(r, LAMBDA got :
            Require(cache.type = Nil, ExpressionFrom(got.at + 1, [cache EXCEPT !.type = got.node], upto, first)))
        something == hasCachedExpr(cache) \/ hasCachedSymbol(cache)
        close == PairEnd(i)
        heapCall == Kind(i) = "heap" /\ Value(i + 2) = "get"
        whole == CASE hasCachedExpr(cache) -> consumeCachedExpr(cache)
                   [] hasCachedSymbol(cache) -> Entity(cache.symbol)
                   [] OTHER -> Nil
        afterEnd == i >= upto
    IN  CASE ~afterEnd /\ Kind(i) = "comment" -> ExpressionFrom(i + 1, cache, upto, first)
          [] afterEnd \/ Kind(i) \notin ExpressionTokens ->
                Require(whole # Nil /\ (afterEnd \/ upto = End), Got(whole, IF i > upto THEN i ELSE i - 1))
          [] Kind(i) \in Symbols ->
                Then(do_symbol(i), LAMBDA symbol :
                     Require(~hasCachedSymbol(cache),
                             ExpressionFrom(symbol.at + 1, [cache EXCEPT !.symbol = symbol], upto, first)))
          [] heapCall ->
                Then(Heap(i), LAMBDA got :
                     Cached(cache, got.node, IF Len(got.node.parts) = 2 THEN i ELSE got.at, got.at, upto, first))
          [] Kind(i) \in Alone -> Keep(cache, ExpressionAt(i))
          [] Kind(i) = "selfWord" -> KeepType(do_type(i - 1, End, FALSE))
          [] Kind(i) \in Triggers -> KeepType(do_type(i - 1, End, TRUE))
          [] Kind(i) \in {"from", "colon"} -> Keep(WithoutTypeLike(cache), FromOrNames(i, TypeLike(cache)))
          [] Kind(i) = "typeSeparator" -> Keep(WithoutTypeLike(cache), Variant(i, TypeLike(cache)))
          [] Kind(i) = "genericTypeStart" ->
                Require(hasCachedSymbol(cache) /\ close # None,
                Then(do_generic_fill(i, close), LAMBDA fills :
                     LET words == cache.symbol.node.words
                         rest == [cache EXCEPT !.symbol = Bad]
                         typed == is_next("colon", close) /\ is_next("from", close + 1)
                     IN  IF typed
                         THEN Require(cache.type = Nil,
                                      ExpressionFrom(close + 1,
                                          [rest EXCEPT !.type = Node("GenericNamedType", words, fills.node.parts)],
                                          upto, first))
                         ELSE Keep(rest, Got(Node("GenericEntity", words, fills.node.parts), close))))
          [] Kind(i) = "bracketOpen" ->
                CASE close = None \/ (hasCachedSymbol(cache) /\ cache.exp # Nil) -> Bad
                  [] something -> Keep(WithoutOperand(cache),
                                       OneInside("IndexAccess", <<>>, <<Operand(cache)>>, i))
                  [] OTHER -> Keep(cache, Arguments("ArrayLiteral", <<>>, <<>>, i))
          [] Kind(i) = "parenthesisOpen" /\ (close = None \/ (close >= upto /\ upto # End)) -> Bad
          [] Kind(i) = "parenthesisOpen" /\ something ->
                Then(CallArguments(i), LAMBDA arguments :
                     Keep(IF hasCachedExpr(cache) THEN WithoutExpr(cache) ELSE WithoutOperand(cache),
                          Got(Node("FunctionCall", <<>>, <<whole>> \o arguments.node.parts), close)))
          [] Kind(i) = "parenthesisOpen" /\ is_primary_within("semiColon", i, close) ->
                Then(TupleValues(i, primary_positions_within("semiColon", i, close), close), LAMBDA values :
                     Keep(cache, Got(Node("TupleValue", <<>>, values.node.parts), close)))
          [] Kind(i) = "parenthesisOpen" ->
                Then(do_expression(i, close, FALSE), LAMBDA value :
                     CASE first /\ is_next("binaryOperator", value.at) -> value
                       [] value.at + 1 = close -> Cached(cache, value.node, value.at, close, upto, first)
                       [] OTHER -> Bad)
          [] Kind(i) = "binaryOperator" /\ something ->
                Keep(WithoutOperand(cache), BinaryOperator(i, Operand(cache), upto, first))
          [] Kind(i) = "binaryOperator" ->
                Require(Value(i) = "-",
                        Keep(cache, Then(do_expression(i, upto, TRUE), LAMBDA value :
                                         Got(Node("Negative", <<>>, <<value.node>>), value.at))))
          [] Kind(i) = "child" ->
                Require(something /\ ~(hasCachedExpr(cache) /\ hasCachedSymbol(cache)),
                        Keep(WithoutOperand(cache), ChildOf(i, Operand(cache))))

-----------------------------------------------------------------------------
(* Sentences.  A name or an expression that is read is kept until a token  *)
(* tells what the sentence is; every sentence that begins with a word is   *)
(* read whole where its word stands, and leaves what is kept alone.        *)
Block(nodes) == Node("block", <<>>, nodes)

(* Not as it is: up to the first bracket that closes.                      *)
BlockToFirstClose(i) ==
    LET close == Min({j \in i + 1 .. End : j = End \/ Kind(j) = "bracketClose"})
    IN  Require(is_next("bracketOpen", i), Then(do_sentences(i + 1, close), LAMBDA b : Got(b.node, close)))

(* The sentences in the brackets that open after i.                        *)
BlockAfter(i) ==
    Require(is_next("bracketOpen", i) /\ PairEnd(i + 1) # None,
            Then(do_sentences(i + 1, PairEnd(i + 1)), LAMBDA b : Got(b.node, PairEnd(i + 1))))

(* A name that may stand where the parts of a sentence follow it.          *)
Optional(kind, i) == IF is_next(kind, i) THEN <<Value(i + 1)>> ELSE <<>>

(* An expression between i and the first `mark` outside of all brackets.   *)
UpToMark(i, mark, whole) ==
    LET end == first_primary_position(mark, i)
    IN  Require(end # None,
                Then(do_expression(i, end, FALSE), LAMBDA value :
                     Require(whole => value.at + 1 = end, Got(value.node, end))))

-----------------------------------------------------------------------------
MetaTodo(i) ==
    LET message == IF is_next("StringLiteral", i + 3) THEN i + 4 ELSE i + 3
    IN  Require(/\ is_next("parenthesisOpen", i + 2)
                /\ is_next("parenthesisClose", message) /\ is_next("stop", message + 1),
                Got(Node("MetaTodo", IF message = i + 3 THEN <<>> ELSE <<Value(message)>>, <<>>), message + 2))

Say(i) ==
    LET at == IF is_next("child", i) THEN i + 2 ELSE i
        end == first_primary_position("stop", at)
    IN  Require(end # None /\ (at = i \/ Value(at) \in {"dbg", "only"}),
                Then(do_separated_expressions(at, end, <<>>), LAMBDA values :
                     Got(Node("SayLike", IF at = i THEN <<>> ELSE <<Value(at)>>, values.node.parts), end)))

(* '' name := value  and  '' is name                                       *)
MemberInit(i) ==
    IF is_next("is", i)
    THEN Require(is_next("identifier", i + 1) /\ is_next("stop", i + 2),
                 Got(Node("MemberInit", <<Value(i + 2)>>, <<>>), i + 3))
    ELSE Then(UpToMark(i + 2, "stop", TRUE), LAMBDA value :
              Got(Node("MemberInit", <<Value(i + 1)>>, <<value.node>>), value.at))

(* let name = value, let name :: T = value and let name :: T               *)
Local(i) ==
    LET var == is_next("var", i)
        ref == is_next("referenceType", IF var THEN i + 1 ELSE i)
        n == i + (IF var THEN 1 ELSE 0) + (IF ref THEN 1 ELSE 0)
        words == <<Value(n + 1)>> \o (IF var THEN <<"var">> ELSE <<>>) \o (IF ref THEN <<"ref">> ELSE <<>>)
        stop == first_primary_position("stop", n + 2)
        mark == first_primary_position("assignment", n + 2)
    IN  CASE ~is_next("identifier", n) -> Bad
          [] is_next("assignment", n + 1) ->
                Then(do_expression(n + 2, End, FALSE), LAMBDA value :
                     Require(is_next("stop", value.at),
                             Got(Node("LocalDeclaration", words, <<Nil, value.node>>), value.at + 1)))
          [] ~is_next("typeSeparator", n + 1) \/ stop = None -> Bad
          [] is_primary_within("assignment", n + 2, stop) ->
                Then(do_type(n + 2, mark, FALSE), LAMBDA type :
                Then(do_expression(mark, stop, FALSE), LAMBDA value :
                     Got(Node("LocalDeclaration", words, <<type.node, value.node>>), stop)))
          [] OTHER -> Then(do_type(n + 2, stop, FALSE), LAMBDA type :
                           Got(Node("LocalDeclaration", words, <<type.node>>), stop))

(* The branches from the `if` at i on: conditions with their blocks, and   *)
(* the block of the else alone.                                            *)
RECURSIVE Branches(_, _)
Branches(i, read) ==
    Then(UpToMark(i, "fatArrow", TRUE), LAMBDA condition :
    Then(BlockAfter(condition.at), LAMBDA body :
         LET all == read \o <<condition.node, body.node>>
         IN  CASE ~is_next("Else", body.at) -> Got(Node("IfElse", <<>>, all), body.at)
               [] is_next("If", body.at + 1) -> Branches(body.at + 2, all)
               [] OTHER -> Then(BlockAfter(body.at + 1), LAMBDA other :
                                Got(Node("IfElse", <<>>, Append(all, other.node)), other.at))))

(* do => tag [ ] loop if condition                                         *)
DoLoop(i) ==
    LET open == IF is_next("fatArrow", i) THEN i + 2 ELSE i
    IN  Require(is_next("fatArrow", i) => is_next("identifier", i + 1),
        Then(BlockAfter(open), LAMBDA body :
        Require(is_next("loop", body.at) /\ is_next("If", body.at + 1),
        Then(UpToMark(body.at + 2, "stop", TRUE), LAMBDA condition :
             Got(Node("LoopIf", <<"do">> \o (IF open = i THEN <<>> ELSE <<Value(open)>>),
                      <<condition.node, body.node>>), condition.at)))))

LoopInfinite(i) ==
    LET tag == Optional("identifier", i + 1)
    IN  Then(BlockAfter(IF tag = <<>> THEN i + 1 ELSE i + 2), LAMBDA body :
             Got(Node("LoopInfinite", tag, <<body.node>>), body.at))

LoopIf(i) ==
    Then(UpToMark(i + 1, "fatArrow", TRUE), LAMBDA condition :
         LET tag == Optional("identifier", condition.at)
         IN  Then(BlockAfter(condition.at + Len(tag)), LAMBDA body :
                  Got(Node("LoopIf", tag, <<condition.node, body.node>>), body.at)))

(* loop in value => let item, index [ ]                                    *)
LoopIn(i) ==
    Then(do_expression(i + 1, End, FALSE), LAMBDA value :
         LET at == value.at + 1
             index == is_next("separator", at + 2)
         IN  Require(/\ is_next("fatArrow", value.at) /\ is_next("let", at) /\ is_next("identifier", at + 1)
                     /\ index => is_next("identifier", at + 3),
                     Then(BlockAfter(IF index THEN at + 4 ELSE at + 2), LAMBDA body :
                          Got(Node("LoopIn", <<Value(at + 2)>> \o (IF index THEN <<Value(at + 4)>> ELSE <<>>),
                                   <<value.node, body.node>>), body.at))))

(* loop to count => let name [ ]                                           *)
LoopTo(i) ==
    Then(do_expression(i + 1, End, FALSE), LAMBDA count :
         LET at == count.at + 1
             named == is_next("let", at)
         IN  Require(is_next("fatArrow", count.at) /\ (named => is_next("identifier", at + 1)),
                     Then(BlockAfter(IF named THEN at + 2 ELSE at), LAMBDA body :
                          Got(Node("LoopTo", IF named THEN <<Value(at + 2)>> ELSE <<>>,
                                   <<count.node, body.node>>), body.at))))

Loop(i) ==
    CASE is_next("child", i) -> Bad
      [] is_next("fatArrow", i) -> LoopInfinite(i)
      [] is_next("in", i) -> LoopIn(i)
      [] is_next("If", i) -> LoopIf(i)
      [] is_next("to", i) -> LoopTo(i)
      [] OTHER -> Bad

Give(i) ==
    IF is_next("stop", i) THEN Got(Node("GiveSentence", <<>>, <<>>), i + 1)
    ELSE Then(UpToMark(i, "stop", FALSE), LAMBDA value :
              Got(Node("GiveSentence", <<>>, <<value.node>>), value.at))

(* break, break'tag, continue and continue'tag                             *)
Jump(kind, i) ==
    CASE is_next("child", i) /\ is_next("identifier", i + 1) -> Got(Node(kind, <<Value(i + 2)>>, <<>>), i + 2)
      [] is_next("stop", i) -> Got(Node(kind, <<>>, <<>>), i + 1)
      [] OTHER -> Bad

-----------------------------------------------------------------------------
(* The cases of a match.  ::name(var value), ::name, ::name ... and the    *)
(* end of what is matched.                                                 *)
MatchValue(name) == Node("MixOrChoiceMatchValue", <<name>>, <<>>)

(* , ::name repeated after j                                               *)
VariantsAfter(j) ==
    Max({n \in 0 .. Len(text) :
            \A k \in 1 .. n : /\ Kind(j + 3 * k - 2) = "separator" /\ Kind(j + 3 * k - 1) = "typeSeparator"
                              /\ Kind(j + 3 * k) = "identifier"})

MatchVariants(i) ==
    LET requested == is_next("parenthesisOpen", i + 1)
        close == PairEnd(i + 2)
        v == IF is_next("var", i + 2) THEN i + 3 ELSE i + 2
        n == VariantsAfter(i + 1)
    IN  CASE ~is_next("identifier", i) -> Bad
          [] requested -> Require(/\ close # None /\ is_next("identifier", v) /\ is_next("parenthesisClose", v + 1)
                                  /\ ~is_next("separator", close),
                                  Got(List(<<Node("MixOrChoiceMatchValue",
                                                  <<Value(i + 1), Value(v + 1)>> \o
                                                  (IF v = i + 3 THEN <<"var">> ELSE <<>>), <<>>)>>), close))
          [] OTHER -> Require(~is_next("separator", i + 1 + 3 * n),
                              Got(List([k \in 1 .. n + 1 |-> MatchValue(Value(i + 3 * k - 2))]), i + 1 + 3 * n))

(* Expressions, and after the first of them variants too, between the      *)
(* token before i, the separators `marks` and the arrow.                   *)
RECURSIVE MatchExpressions(_, _, _)
MatchExpressions(from, marks, arrow) ==
    LET variant == is_next("typeSeparator", from)
        stop == IF marks = <<>> THEN arrow ELSE Head(marks)
    IN  Then(IF variant THEN Require(is_next("identifier", from + 1) /\ from + 3 = stop,
                                     Got(MatchValue(Value(from + 2)), stop))
             ELSE do_expression(from, stop, FALSE), LAMBDA value :
             IF marks = <<>> THEN Got(List(<<value.node>>), arrow)
             ELSE Then(MatchExpressions(stop, Tail(marks), arrow), LAMBDA others :
                       Got(List(<<value.node>> \o others.node.parts), arrow)))

RECURSIVE parse_match_contents(_, _, _, _)
parse_match_contents(i, upto, chain, elseCase) ==
    LET Case(values) ==
            Then(values, LAMBDA v :
            Require(is_next("fatArrow", v.at),
            Then(BlockAfter(v.at + 1), LAMBDA body :
                 parse_match_contents(body.at + 1, upto, chain \o <<v.node, body.node>>, elseCase))))
        arrow == first_primary_position("fatArrow", i)
    IN  CASE i >= upto -> Got(Node("cases", <<>>, chain \o elseCase), upto)
          [] Kind(i) = "comment" -> parse_match_contents(i + 1, upto, chain, elseCase)
          [] Kind(i) = "typeSeparator" -> Case(MatchVariants(i))
          [] Kind(i) = "Else" ->
                Require(elseCase = <<>>,
                Then(BlockAfter(i), LAMBDA body :
                     parse_match_contents(body.at + 1, upto, chain, <<body.node>>)))
          [] OTHER ->
                Require(is_primary_within("fatArrow", i, upto),
                        Case(Then(MatchExpressions(i - 1, primary_positions_within("separator", i, arrow), arrow),
                                  LAMBDA values : Got(values.node, arrow - 1))))

(* match value => [ cases ] and match type value => [ cases ]              *)
Match(i) ==
    LET at == IF is_next("Type", i) THEN i + 1 ELSE i
    IN  Then(do_expression(at, End, FALSE), LAMBDA value :
             LET open == value.at + 2
             IN  Require(is_next("fatArrow", value.at) /\ Kind(open) = "bracketOpen" /\ PairEnd(open) # None,
                 Then(parse_match_contents(open + 1, PairEnd(open), <<>>, <<>>), LAMBDA cases :
                      Got(Node("Match", IF at = i THEN <<>> ELSE <<"type">>, <<value.node>> \o cases.node.parts),
                          PairEnd(open)))))

-----------------------------------------------------------------------------
(* The sentences that begin with a word of their own.                      *)
Worded == {"say", "match", "let", "If", "Do", "loop", "give", "Break", "Continue"}
SentenceAt(i, upto) ==
    CASE Kind(i) = "say" -> Then(Say(i), LAMBDA r : Require(r.at < upto, r))
      [] Kind(i) = "match" -> Match(i)
      [] Kind(i) = "let" -> Local(i)
      [] Kind(i) = "If" -> Branches(i, <<>>)
      [] Kind(i) = "Do" -> DoLoop(i)
      [] Kind(i) = "loop" -> Loop(i)
      [] Kind(i) = "give" -> Give(i)
      [] Kind(i) \in {"Break", "Continue"} -> Jump(Kind(i), i)

IsTodo(i) == is_next("colon", i) /\ is_next("identifier", i + 1) /\ Value(i + 2) = "todo"
IsInit(i) == (is_next("identifier", i) /\ is_next("associatedAssignment", i + 1)) \/ is_next("is", i)

ExpressionSentence(node) == Node("ExpressionSentence", <<>>, <<node>>)

(* A stop makes a sentence of what is kept, of the expression first.       *)
StopAt(cache, read) ==
    CASE cache.exp # Nil -> <<[cache EXCEPT !.exp = Nil], Append(read, ExpressionSentence(cache.exp))>>
      [] hasCachedSymbol(cache) ->
            <<[cache EXCEPT !.symbol = Bad], Append(read, ExpressionSentence(Entity(cache.symbol)))>>
      [] OTHER -> <<cache, read>>

(* What is kept is changed: the right side is read up to the stop, and     *)
(* then again by itself.                                                   *)
AssignedOperator(i, upto, cache) ==
    LET stop == first_primary_position("stop", i)
    IN  Require(/\ hasCachedSymbol(cache) \/ cache.exp # Nil
                /\ is_primary_within("stop", i, upto),
                Then(do_expression(i, stop, FALSE), LAMBDA rhs :
                     Got(ExpressionSentence(Node("BinaryExpression", <<Value(i)>>,
                            <<IF cache.exp # Nil THEN cache.exp ELSE Entity(cache.symbol), rhs.node>>)), i)))

RECURSIVE SentencesFrom(_, _, _, _)
SentencesFrom(i, upto, cache, read) ==
    LET Say1(r, rest) == Then(r, LAMBDA got : SentencesFrom(got.at + 1, upto, rest, Append(read, got.node)))
        Keep(r, rest) == Then(r, LAMBDA got :
            Require(rest.exp = Nil, SentencesFrom(got.at + 1, upto, [rest EXCEPT !.exp = got.node], read)))
        More(r, rest) == Then(r, LAMBDA got :
            IF is_next("stop", got.at)
            THEN SentencesFrom(got.at + 2, upto, rest, Append(read, ExpressionSentence(got.node)))
            ELSE Keep(r, rest))
        atStop == StopAt(cache, read)
    IN  CASE i >= upto -> Got(Block(read), upto)
          [] Kind(i) = "comment" -> SentencesFrom(i + 1, upto, cache, read)
          [] Kind(i) = "meta" /\ IsTodo(i) -> Say1(MetaTodo(i), cache)
          [] Kind(i) = "meta" -> More(do_expression(i - 1, End, FALSE), cache)
          [] Kind(i) = "selfInstance" /\ IsInit(i) -> Say1(MemberInit(i), cache)
          [] Kind(i) = "selfInstance" -> Keep(do_expression(i - 1, End, FALSE), cache)
          [] Kind(i) \in Symbols ->
                Require(~hasCachedSymbol(cache),
                Then(do_symbol(i), LAMBDA symbol :
                     LET named == [None3 EXCEPT !.symbol = symbol]
                     IN  IF is_next("genericTypeStart", symbol.at)
                         THEN Keep(ExpressionFrom(symbol.at + 1, named, End, FALSE), cache)
                         ELSE SentencesFrom(symbol.at + 1, upto, [cache EXCEPT !.symbol = symbol], read)))
          [] Kind(i) = "assignment" ->
                Require(hasCachedSymbol(cache) \/ cache.exp # Nil,
                        Say1(Then(UpToMark(i, "stop", TRUE), LAMBDA value :
                                  Require(value.at < upto,
                                          Got(Node("Assignment", <<>>, <<Operand(cache), value.node>>), value.at))),
                             WithoutOperand(cache)))
          [] Kind(i) = "assignedBinaryOperator" -> Say1(AssignedOperator(i, upto, cache), None3)
          [] Kind(i) = "associatedAssignment" -> Bad
          [] Kind(i) = "stop" -> SentencesFrom(i + 1, upto, atStop[1], atStop[2])
          [] Kind(i) \in Worded -> Say1(SentenceAt(i, upto), cache)
          [] OTHER ->
                LET value == ExpressionFrom(i, cache, End, FALSE)
                IN  IF value.at = i - 1 THEN Forever ELSE More(value, None3)


-----------------------------------------------------------------------------
(* The sentences of a prerun function, in the bracket that opens at `from`.*)
PrerunBlockAfter(i) == Require(is_next("bracketOpen", i), do_prerun_sentences(i + 1))

PrerunJump(kind, i) ==
    LET tag == Optional("identifier", i)
    IN  Require(is_next("stop", i + Len(tag)), Got(Node(kind, tag, <<>>), i + Len(tag) + 1))

PrerunGive(i) ==
    IF is_next("stop", i) THEN Got(Node("PrerunGive", <<>>, <<>>), i + 1)
    ELSE Then(do_prerun_expression(i, End, FALSE), LAMBDA value :
         Require(is_next("stop", value.at), Got(Node("PrerunGive", <<>>, <<value.node>>), value.at + 1)))

PrerunLoopTo(i) ==
    Then(do_prerun_expression(i + 1, End, FALSE), LAMBDA count :
         LET at == count.at + 1
             named == is_next("let", at)
         IN  Require(is_next("fatArrow", count.at) /\ (named => is_next("identifier", at + 1)),
                     Then(PrerunBlockAfter(IF named THEN at + 2 ELSE at), LAMBDA body :
                          Got(Node("PrerunLoopTo", IF named THEN <<Value(at + 2)>> ELSE <<>>,
                                   <<count.node, body.node>>), body.at))))

RECURSIVE PrerunSay(_, _)
PrerunSay(i, values) ==
    IF is_next("stop", i) THEN Got(Node("PrerunSay", <<>>, values), i + 1)
    ELSE Then(do_prerun_expression(i, End, FALSE), LAMBDA value :
         Require(Kind(value.at + 1) \in {"separator", "stop"},
                 PrerunSay(IF is_next("separator", value.at) THEN value.at + 1 ELSE value.at,
                           Append(values, value.node))))

(* The branches from the `if` at i on, as Branches has them.               *)
RECURSIVE PrerunBranches(_, _)
PrerunBranches(i, read) ==
    Then(do_prerun_expression(i, End, FALSE), LAMBDA condition :
    Require(is_next("fatArrow", condition.at),
    Then(PrerunBlockAfter(condition.at + 1), LAMBDA body :
         LET all == read \o <<condition.node, body.node>>
         IN  CASE ~is_next("Else", body.at) -> Got(Node("PrerunIfElse", <<>>, all), body.at)
               [] is_next("If", body.at + 1) -> PrerunBranches(body.at + 2, all)
               [] OTHER -> Then(PrerunBlockAfter(body.at + 1), LAMBDA other :
                                Got(Node("PrerunIfElse", <<>>, Append(all, other.node)), other.at)))))

(* An expression is read from after its first token.                       *)
PrerunExpressionSentence(i) ==
    Then(do_prerun_expression(i, End, FALSE), LAMBDA value :
    Require(is_next("stop", value.at), Got(Node("PrerunExpressionSentence", <<>>, <<value.node>>), value.at + 1)))

RECURSIVE PrerunSentencesFrom(_, _)
PrerunSentencesFrom(i, read) ==
    IF Kind(i) = "bracketClose" THEN Got(Block(read), i)
    ELSE Then(CASE i >= End -> Bad
                [] Kind(i) \in {"Break", "Continue"} -> PrerunJump(Kind(i), i)
                [] Kind(i) = "give" -> PrerunGive(i)
                [] Kind(i) = "loop" -> Require(is_next("to", i), PrerunLoopTo(i))
                [] Kind(i) = "say" -> PrerunSay(i, <<>>)
                [] Kind(i) = "If" -> PrerunBranches(i, <<>>)
                [] OTHER -> PrerunExpressionSentence(i),
              LAMBDA got : PrerunSentencesFrom(got.at + 1, Append(read, got.node)))

-----------------------------------------------------------------------------
Read(what, from, upto, first) ==
    CASE what = "type" -> TypeFrom(from + 1, Nil, upto, first)
      [] what = "prerun" -> PrerunFrom(from + 1, Nil, upto, first)
      [] what = "fills" -> FillsFrom(from + 1, upto, <<>>)
      [] what = "expression" -> ExpressionFrom(from + 1, None3, upto, first)
      [] what = "sentences" -> SentencesFrom(from + 1, upto, None3, <<>>)
      [] what = "prerun sentences" -> PrerunSentencesFrom(from + 1, <<>>)
===============================================================================

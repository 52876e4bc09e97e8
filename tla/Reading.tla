-------------------------------- MODULE Reading --------------------------------
(***************************************************************************)
(* The parser given the tokens of a type, of a prerun expression or of an  *)
(* expression, followed by the token that ends it, or those of the body of *)
(* a function in its brackets: the text of a tree that was meant, of a     *)
(* chain of operators, of sentences, or any sequence of a few tokens.      *)
(***************************************************************************)
EXTENDS Parser, TypeWriting

CONSTANTS
    Types,           \* trees of types
    PrerunValues,    \* trees of prerun expressions
    Chains,          \* chains of operators
    Bodies,          \* sequences of sentences, and who reads them
    Texts,           \* sequences of tokens
    BodyTexts        \* and those read as the sentences of a function

(* A chain is a sequence of operators and one of its operands, one more.   *)
(* An operand is the tokens of its text, the trees they stand for as a     *)
(* prerun expression and as an expression, and whether it is bare: a name, *)
(* or an expression in parentheses.  A sentence is the tokens of its text, *)
(* its tree, the trees of an operator that changes its left side (`rest`), *)
(* whether it is read whole where a word of its own begins it, and whether *)
(* it is ended.                                                            *)
VARIABLES meant, read

vars == <<text, meant, read>>

Unread == Got(Nil, -1)
Stop == Mark("stop")
File(tokens) == <<Mark("startOfFile")>> \o tokens \o <<Stop>>
Last1 == End - 2           \* the last token before the one that stops
Body(tokens) == <<Mark("startOfFile"), Mark("bracketOpen")>> \o tokens \o <<Mark("bracketClose")>>
Readers == {"type", "prerun", "expression"}

ChainText(c) ==
    FoldLeft(LAMBDA written, k : written \o <<Word("binaryOperator", c.ops[k])>> \o c.operands[k + 1].text,
             c.operands[1].text, [k \in DOMAIN c.ops |-> k])

Init ==
    /\ read = Unread
    /\ \/ \E t \in Types : meant = [what |-> "type", tree |-> t] /\ text = File(to_string(t))
       \/ \E v \in PrerunValues : meant = [what |-> "prerun", tree |-> v] /\ text = File(to_string(v))
       \/ \E c \in Chains, by \in {"prerun", "expression"} :
             meant = [what |-> "chain", by |-> by, chain |-> c] /\ text = File(ChainText(c))
       \/ \E b \in Bodies :
             /\ meant = [what |-> "body", by |-> b.by, body |-> b.sentences]
             /\ text = Body(FlattenSeq([k \in DOMAIN b.sentences |-> b.sentences[k].text]))
       \/ \E t \in Texts, by \in Readers : meant = [what |-> "text", by |-> by] /\ text = File(t)
       \/ \E t \in BodyTexts : meant = [what |-> "text", by |-> "sentences"] /\ text = Body(t)

Reader == IF meant.what \in {"type", "prerun"} THEN meant.what ELSE meant.by

Reads(reader, r) ==
    /\ read = Unread
    /\ Reader = reader
    /\ read' = r
    /\ UNCHANGED <<text, meant>>

ReadType == Reads("type", do_type(1, End, FALSE))
ReadPrerun == Reads("prerun", do_prerun_expression(1, End, FALSE))
ReadExpression == Reads("expression", do_expression(1, End, FALSE))
ReadSentences == Reads("sentences", do_sentences(2, PairEnd(2)))
ReadPrerunSentences == Reads("prerun sentences", do_prerun_sentences(2))

Done == read # Unread /\ UNCHANGED vars

Next == ReadType \/ ReadPrerun \/ ReadExpression \/ ReadSentences \/ ReadPrerunSentences \/ Done

Spec == Init /\ [][Next]_vars

-----------------------------------------------------------------------------
(* The tree that was meant is read, and every token of the text with it.   *)
ReadBack == read = Got(meant.tree, Last1)

(* The nodes of a tree.                                                    *)
RECURSIVE Nodes(_)
Nodes(n) == {n} \cup UNION {Nodes(n.parts[i]) : i \in DOMAIN n.parts}

Names_ == {"NamedType", "LinkedGeneric"}
Binary == "PrerunBinaryOperator"
Prefixed == {"PrerunNegative", "PrerunBitwiseNot"}
(* What begins or ends with a part that would take what is written next.   *)
Loose == {Binary} \cup Prefixed

(* A part can be followed by names, members and the like, which it would   *)
(* not take for itself; `last` is the part a node ends with.               *)
EndsOpen(n) == n.kind \in Names_ \cup {"SubType", "ArrayType", "FunctionType"}

FillKinds == {"PrerunEntity", "integerLiteral", "voidType", "integerType", "maybeType", "futureType", "result", "referenceType",
              "sliceType", "ptrType", "multiPtrType", "vectorType", "textType", "nativeType", "TupleType"}

(* to_string leaves nothing of the node out, and the parser takes all of   *)
(* it, and nothing more, for this node.                                    *)
WrittenAsRead(n) ==
    LET part == n.parts[1]
    IN  CASE n.kind = "maybeType" -> n.words = <<>>
          [] n.kind \in {"ptrType", "multiPtrType"} -> "!" \notin ToSet(n.words)
          [] n.kind = "region" -> FALSE
          [] n.kind \in Names_ -> "up" \notin ToSet(n.words)
          [] n.kind = "SubType" -> IF n.parts = <<>> THEN n.words[1] = "skill" ELSE ~EndsOpen(part)
          [] n.kind = "TupleType" -> Len(n.parts) > 1
          [] n.kind = "GenericNamedType" -> \A i \in DOMAIN n.parts : n.parts[i].kind \in FillKinds
          [] n.kind = "GenericInteger" -> n.words = <<>>
          [] n.kind = "FunctionType" -> \A i \in DOMAIN n.parts : n.parts[i].kind = "selfInstance" => i = Len(n.parts)
          [] n.kind \in Prefixed -> part.kind # Binary
          [] n.kind \in {"PrerunMemberAccess", "PrerunMemberFnCall", "PrerunMixOrChoiceInit"} ->
                part.kind \notin Loose
          [] n.kind = "PrerunSubEntity" ->
                \/ n.parts = <<>>
                \/ /\ part.kind \notin Loose \cup {"PrerunEntity", "PrerunSubEntity"}
                   /\ part.kind = "TypeWrap" /\ part.words = <<>> => ~EndsOpen(part.parts[1])
          [] n.kind = Binary ->
                /\ part.kind = Binary => get_precedence_of(part.words[1]) <= get_precedence_of(n.words[1])
                /\ n.parts[2].kind = Binary =>
                      get_precedence_of(n.parts[2].words[1]) < get_precedence_of(n.words[1])
          [] n.kind = "PrerunArrayLiteral" -> n.parts # <<>> /\ Head(to_string(part)).kind # "bracketOpen"
          [] n.kind \in {"PrerunTupleValue", "PrerunDefault"} -> n.parts = <<>>
          [] OTHER -> TRUE

(* What to_string writes of a type or of a prerun value is read back by    *)
(* do_type and do_prerun_expression as the same tree, and to its last      *)
(* token, where no node of it is of the kinds WrittenAsRead leaves out; a  *)
(* tree with such a node is not read back, but for a generic integer type. *)
WrittenIsReadBack ==
    read # Unread /\ meant.what \in {"type", "prerun"} =>
        LET odd == {n \in Nodes(meant.tree) : ~WrittenAsRead(n)}
        IN  /\ odd = {} => ReadBack
            /\ ReadBack => \A n \in odd : n.kind = "GenericInteger"

(* The operator that binds least, the last of its precedence, is the root. *)
RECURSIVE ByPrecedence(_, _, _)
ByPrecedence(kind, ops, trees) ==
    LET Prec(k) == get_precedence_of(ops[k])
        Loosest(k) == \A j \in DOMAIN ops : Prec(j) <= Prec(k)
        root == Max({k \in DOMAIN ops : Loosest(k)})
    IN  IF ops = <<>> THEN trees[1]
        ELSE Node(kind, <<ops[root]>>,
                  <<ByPrecedence(kind, SubSeq(ops, 1, root - 1), SubSeq(trees, 1, root)),
                    ByPrecedence(kind, SubSeq(ops, root + 1, Len(ops)), SubSeq(trees, root + 1, Len(trees)))>>)

Meant(c, by) ==
    ByPrecedence(IF by = "prerun" THEN "PrerunBinaryOperator" ELSE "BinaryExpression",
                 c.ops, [k \in DOMAIN c.operands |-> c.operands[k][by]])

(* A bare operand of an expression goes with the operator and the operand  *)
(* after it: one that the operator before it should have had, or one whose *)
(* neighbour should have gone on to a tighter operator.                    *)
Misread(c) ==
    LET Prec(k) == get_precedence_of(c.ops[k])
    IN  \E k \in DOMAIN c.ops \ {1} :
            /\ c.operands[k].bare
            /\ \/ Prec(k - 1) <= Prec(k)
               \/ k < Len(c.ops) /\ ~c.operands[k + 1].bare /\ Prec(k + 1) < Prec(k)

(* do_prerun_expression and do_expression group a chain of operators by    *)
(* get_precedence_of, from the left among those of one precedence,         *)
(* whatever its operands are; the reader of expressions misses this        *)
(* exactly where a bare operand is in a wrong place.                       *)
ChainsAreGrouped ==
    read # Unread /\ meant.what = "chain" =>
        (read = Got(Meant(meant.chain, meant.by), Last1) <=> ~(meant.by = "expression" /\ Misread(meant.chain)))

(* The sentences that are read: what is unended is left out, and the right *)
(* side of an operator that changes its left side is read a second time.   *)
ReadOf(sentences) ==
    FlattenSeq([k \in DOMAIN sentences |->
                  IF sentences[k].ended THEN <<sentences[k].tree>> \o sentences[k].rest ELSE <<>>])

(* do_sentences keeps every ended sentence, once, in the order of the text *)
(* and in the block it is written in, as long as what follows an unended   *)
(* one begins with a word of its own; do_prerun_sentences does so exactly  *)
(* where every sentence begins with one, for it reads an expression from   *)
(* its second token.                                                       *)
SentencesAreReadInOrder ==
    read # Unread /\ meant.what = "body" =>
        LET body == meant.body
            Later(k) == {j \in DOMAIN body : j > k}
            unended == {k \in DOMAIN body : ~body[k].ended}
        IN  IF meant.by = "sentences"
            THEN (\A k \in unended : \A j \in Later(k) : body[j].worded) =>
                    read = Got(Block(ReadOf(body)), Len(text))
            ELSE read = Got(Block(ReadOf(body)), Len(text)) <=> \A k \in DOMAIN body : body[k].worded

(* Every bracket from..to closes after it opens, and with its own kind.    *)
Opens(i) == Kind(i) \in DOMAIN Closer
Closes(i) == \E k \in DOMAIN Closer : Kind(i) = Closer[k]
Nested(from, to) ==
    FoldLeft(LAMBDA open, i :
                CASE open = <<"broken">> -> open
                  [] Opens(i) -> <<Closer[Kind(i)]>> \o open
                  [] Closes(i) -> IF open # <<>> /\ Head(open) = Kind(i) THEN Tail(open) ELSE <<"broken">>
                  [] OTHER -> open,
             <<>>, [k \in 1 .. to - from + 1 |-> from + k - 1]) = <<>>

(* int:[ and uint:[, which are read up to before their bracket.            *)
Sized == \E i \in DOMAIN text : Kind(i) = "nativeType" /\ Value(i) \in {"int", "uint"} /\ is_next("genericTypeStart", i)

(* Of a text whose brackets match, a reader of types, expressions or       *)
(* sentences takes a part whose brackets match too: none of them ends      *)
(* between a bracket and the one that closes it, but for those of int:[    *)
(* and uint:[.                                                             *)
PairsAreTakenWhole ==
    read # Unread /\ meant.what = "text" /\ read.at > 0 /\ Nested(1, Len(text)) => Nested(1, read.at) \/ Sized

(* What neither a sentence nor an expression begins with or goes on with.  *)
Stray == {"separator", "semiColon", "fatArrow", "Else"}

(* Every text is read to an end or refused; only do_sentences can go round *)
(* for ever, at a token that its default case leaves to do_expression and  *)
(* that do_expression ends before.                                         *)
ReadingEnds ==
    read = Forever => meant.what = "text" /\ \E i \in 3 .. Len(text) - 1 : Kind(i) \in Stray
===============================================================================

--------------------------------- MODULE Tokens ---------------------------------
(***************************************************************************)
(* The tokens of a file as the parser looks at them: what kind of token is *)
(* at an index, where a pair of brackets ends, where the first separator   *)
(* outside of all brackets is.  A kind is the name of its TokenType.       *)
(***************************************************************************)
EXTENDS Integers, FiniteSetsExt, SequencesExt

VARIABLE text    \* tokens: the sequence of what was lexed, 1 is startOfFile

None == 0        \* no such index
End == Len(text) + 1

Kind(i) == IF i \in DOMAIN text THEN text[i].kind ELSE "past"
Value(i) == IF i \in DOMAIN text THEN text[i].value ELSE ""

is_next(kind, i) == Kind(i + 1) = kind

(* The first closing token after current that no opening one after it      *)
(* belongs to.                                                             *)
get_pair_end(open, close, current) ==
    LET Between(kind, i) == {j \in current + 1 .. i : Kind(j) = kind}
        ends == {i \in current + 1 .. Len(text) :
                    /\ Kind(i) = close
                    /\ Cardinality(Between(close, i)) = Cardinality(Between(open, i)) + 1}
    IN  IF ends = {} THEN None ELSE Min(ends)

Closer == [parenthesisOpen |-> "parenthesisClose", bracketOpen |-> "bracketClose",
           curlybraceOpen |-> "curlybraceClose", genericTypeStart |-> "genericTypeEnd"]

(* The end of the pair that opens at i.                                    *)
PairEnd(i) == get_pair_end(Kind(i), Closer[Kind(i)], i)

(* The same, were the brackets not skipped.                                *)
first_position(candidate, from) ==
    LET all == {i \in from + 1 .. Len(text) : Kind(i) = candidate}
    IN  IF all = {} THEN None ELSE Min(all)

(* The first candidate after from outside of the brackets opened since.    *)
RECURSIVE first_primary_position(_, _)
first_primary_position(candidate, from) ==
    LET i == from + 1
    IN  CASE i >= End -> None
          [] Kind(i) = candidate -> i
          [] Kind(i) \in DOMAIN Closer ->
                IF PairEnd(i) = None THEN None
                ELSE first_primary_position(candidate, PairEnd(i))
          [] OTHER -> first_primary_position(candidate, i)

is_primary_within(candidate, from, upto) ==
    first_primary_position(candidate, from) \in 1 .. upto - 1

RECURSIVE primary_positions_within(_, _, _)
primary_positions_within(candidate, from, upto) ==
    LET p == first_primary_position(candidate, from)
    IN  IF p \in 1 .. upto - 1
        THEN <<p>> \o primary_positions_within(candidate, p, upto) ELSE <<>>

-----------------------------------------------------------------------------
(* What is read: a node of the tree, with its kind, the names, numbers or  *)
(* marks it carries and its parts, and the index of the last token it took.*)
Node(kind, words, parts) == [kind |-> kind, words |-> words, parts |-> parts]
Nil == Node("", <<>>, <<>>)
Got(node, at) == [node |-> node, at |-> at]
Bad == Got(Nil, None)      \* add_error: the compiler stops here
Forever == Got(Nil, -2)    \* the parser comes back to the same token, and goes on so

Then(r, Go(_)) == IF r \in {Bad, Forever} THEN r ELSE Go(r)
Require(condition, r) == IF condition THEN r ELSE Bad

(* `: name` repeated after i, as every loop over names takes it.           *)
NamesAfter(i) ==
    Max({n \in 0 .. Len(text) :
            \A k \in 1 .. n : Kind(i + 2 * k - 1) = "colon" /\ Kind(i + 2 * k) = "identifier"})
Names(i, n) == [k \in 1 .. n |-> Value(i + 2 * k)]

(* up:up:a:b, with the words in this order; up alone names a module.       *)
do_symbol(start) ==
    LET up == Max({n \in 0 .. Len(text) :
                    \A k \in 1 .. n : Kind(start + 2 * k - 2) = "super" /\ Kind(start + 2 * k - 1) = "colon"})
        i == start + 2 * up
        n == NamesAfter(i)
    IN  CASE Kind(i) = "super" -> Got(Node("symbol", [k \in 1 .. up + 1 |-> "up"], <<>>), i)
          [] Kind(i) = "identifier" ->
                Got(Node("symbol", [k \in 1 .. up |-> "up"] \o <<Value(i)>> \o Names(i, n), <<>>),
                    i + 2 * n)
          [] OTHER -> Bad

(* skill:names and do:skill:names                                          *)
SkillNames(kind, i) ==
    LET at == IF Kind(i) = "Do" THEN i + 2 ELSE i
        n == NamesAfter(at)
    IN  Require(/\ Kind(i) = "Do" => is_next("colon", i) /\ is_next("skill", i + 1)
                /\ n > 0,
                Got(Node(kind, <<Kind(i)>> \o Names(at, n), <<>>), at + 2 * n))

(* The names after the colon at i, of what was read before it.             *)
NamesOf(kind, parent, i) ==
    LET n == NamesAfter(i - 1)
    IN  Require(n > 0, Got(Node(kind, Names(i - 1, n), <<parent>>), i - 1 + 2 * n))

(* { default }, { none } or { a + b }, from its bracket at i.              *)
FlagBody(i, parent) ==
    LET special == Kind(i + 1) \in {"Default", "none"}
        n == Max({m \in 0 .. Len(text) :
                    \A k \in 1 .. m : /\ Kind(i + 2 * k) = "binaryOperator" /\ Value(i + 2 * k) = "+"
                                      /\ Kind(i + 2 * k + 1) = "identifier"})
        last == IF special THEN i + 1 ELSE i + 1 + 2 * n
    IN  Require(/\ special \/ is_next("identifier", i)
                /\ is_next("curlybraceClose", last),
                Got(Node("FlagInitialiser",
                         IF special THEN <<Kind(i + 1)>> ELSE [k \in 1 .. n + 1 |-> Value(i + 2 * k - 1)],
                         <<parent>>), last + 1))

-----------------------------------------------------------------------------
(* Operators: the smaller the number the tighter the operator binds.       *)
get_precedence_of(op) ==
    CASE op \in {"*", "/", "%"} -> 10
      [] op \in {"+", "-"} -> 20
      [] op \in {"<<", ">>", ">>>"} -> 30
      [] op \in {">", ">=", "<", "<="} -> 40
      [] op \in {"==", "!=", "&"} -> 50
      [] op = "^" -> 60
      [] op = "|" -> 70
      [] op = "&&" -> 80
      [] op = "||" -> 90

(* The last of the tightest first: not as it is.                           *)
RECURSIVE GroupedLast(_, _, _)
GroupedLast(kind, ops, operands) ==
    IF ops = <<>> THEN operands[1]
    ELSE LET Tightest(j) == \A k \in DOMAIN ops : get_precedence_of(ops[j]) <= get_precedence_of(ops[k])
             j == Max({k \in DOMAIN ops : Tightest(k)})
             both == Node(kind, <<ops[j]>>, <<operands[j], operands[j + 1]>>)
         IN  GroupedLast(kind, RemoveAt(ops, j), [RemoveAt(operands, j + 1) EXCEPT ![j] = both])

(* The operands of a chain of operators joined, the first of the tightest  *)
(* operators first.                                                        *)
RECURSIVE Grouped(_, _, _)
Grouped(kind, ops, operands) ==
    IF ops = <<>> THEN operands[1]
    ELSE LET Tightest(j) == \A k \in DOMAIN ops : get_precedence_of(ops[j]) <= get_precedence_of(ops[k])
             j == Min({k \in DOMAIN ops : Tightest(k)})
             both == Node(kind, <<ops[j]>>, <<operands[j], operands[j + 1]>>)
         IN  Grouped(kind, RemoveAt(ops, j), [RemoveAt(operands, j + 1) EXCEPT ![j] = both])
===============================================================================

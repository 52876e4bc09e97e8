----------------------------- MODULE PrerunProgram -----------------------------
(***************************************************************************)
(* Prerun functions as the parser hands them over: values, expressions,    *)
(* sentences, and how often a loop repeats its body.                       *)
(***************************************************************************)
EXTENDS Integers, SequencesExt

CONSTANTS
    WordBits,  \* the width that stands for 64 bits
    Programs,  \* the programs considered
    Functions, \* the names of their functions
    MaxCalls,  \* the calls the C++ stack has room for
    Sentences  \* their sentences, those within others included

ASSUME WordBitsAssumption == WordBits \in Nat \ {0}
ASSUME MaxCallsAssumption == MaxCalls \in Nat \ {0}

NoTag  == "untagged"
(* A value has a type, the width of that type and a number: text and bool  *)
(* values are told apart by numbers too.                                   *)
Val(type, bits, n) == [is |-> "value", type |-> type, bits |-> bits, n |-> n]
(* The value of a give without expression.                                 *)
VoidValue == Val("void", 0, 0)
(* What call_prerun returns when a void function runs off its end: a null  *)
(* pointer instead of a value.                                             *)
NullValue == Val("null", 0, 0)
NoExp     == [is |-> "nothing"]

(* What a function is called with is one value, or the caller's own.       *)
Argument        == [is |-> "argument"]
ValueOf(exp, argument) == IF exp.is = "argument" THEN argument ELSE exp

Call(f, exp)    == [is |-> "call", fn |-> f, argument |-> exp]
BreakSnt(tag)   == [is |-> "break", tag |-> tag]
ContinueSnt(tag) == [is |-> "continue", tag |-> tag]
GiveSnt(exp)    == [is |-> "give", exp |-> exp]
SaySnt(exp)     == [is |-> "say", exp |-> exp]
ExpressionSnt(exp) == [is |-> "expression", exp |-> exp]
(* arms: the conditions with their sentences; orElse: none, or one body.   *)
IfSnt(arms, orElse) == [is |-> "if", arms |-> arms, orElse |-> orElse]

(* The constructor of PrerunLoopTo has a parameter _tag and no initialiser *)
(* for the member tag, which stays empty.                                  *)
ConstructedTag(tag) == NoTag

(* written: the tag in the source text, which no later code sees.          *)
LoopSnt(count, tag, body) ==
    [is |-> "loop", count |-> count, written |-> tag, tag |-> ConstructedTag(tag), body |-> body]

(* Bodies are made of sentences, a loop by its constructor, and what is    *)
(* called is a function of the program.                                    *)
ASSUME SentencesAssumption ==
    LET Bodies == Seq(Sentences)
    IN  /\ "main" \in Functions
        /\ \A p \in Programs : p.body \in [Functions -> Bodies]
        /\ \A s \in Sentences :
              /\ s.is = "loop" => s.tag = ConstructedTag(s.written) /\ s.body \in Bodies
              /\ s.is = "if" => /\ DOMAIN s.arms \subseteq Nat
                                /\ \A i \in DOMAIN s.arms : s.arms[i].body \in Bodies
                                /\ s.orElse # <<>> => s.orElse[1] \in Bodies
              /\ s.is \in {"give", "say", "expression"} =>
                    (s.exp.is = "call" => s.exp.fn \in Functions)

CountTypes == {"int", "uint", "native int", "native uint"}

(* APInt::getRawData: the bits of the number in a word, zero above them.   *)
Raw(v) == v.n % 2^v.bits

(* The word read through reinterpret_cast<i64 const*>.                     *)
AsSigned(word) == IF word >= 2^(WordBits - 1) THEN word - 2^WordBits ELSE word

Endless == -1

(* How a call that nothing waits for has ended, and with which value.      *)
Ended(how, v) == [how |-> how, value |-> v]
StillRunning  == Ended("running", NoExp)
EndedWith(v)  == Ended(IF v \in {NullValue, VoidValue} THEN "nothing given" ELSE "given", v)

(* Mutant: the last value of the index is the count itself.                *)
TimesInclusive(count, tag) ==
    LET word == count.bits <= WordBits /\ tag = NoTag
    IN  IF word /\ count.type = "int"
        THEN IF AsSigned(Raw(count)) >= 0 THEN AsSigned(Raw(count)) + 1 ELSE 0
        ELSE IF word /\ count.type = "uint" THEN Raw(count) + 1
        ELSE IF count.n > 0 THEN Endless ELSE 0

(* The iterations of loop to: the first loop counts in an i64, the second  *)
(* in a u64.  The third is for the types the others do not take, and its   *)
(* increment is a lambda that is never called: it ends only if it does not *)
(* begin.                                                                  *)
Times(count, tag) ==
    LET word == count.bits <= WordBits /\ tag = NoTag
    IN  IF word /\ count.type = "int"
        THEN IF AsSigned(Raw(count)) > 0 THEN AsSigned(Raw(count)) ELSE 0
        ELSE IF word /\ count.type = "uint" THEN Raw(count)
        ELSE IF count.n > 0 THEN Endless ELSE 0

(* The sentences of the first arm with a true condition, of the else       *)
(* without one: a sequence of at most one body.                            *)
Chosen(snt, argument) ==
    LET true == {i \in DOMAIN snt.arms : ValueOf(snt.arms[i].cond, argument).n = 1}
    IN  IF true = {} THEN snt.orElse
        ELSE <<snt.arms[CHOOSE i \in true : \A j \in true : i <= j].body>>

(* A condition that is looked at and is not a bool.                        *)
IllTyped(snt, argument) ==
    \E i \in DOMAIN snt.arms :
        /\ ValueOf(snt.arms[i].cond, argument).type # "bool"
        /\ \A j \in 1 .. i - 1 : ValueOf(snt.arms[j].cond, argument).n # 1
================================================================================

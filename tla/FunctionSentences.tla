--------------------------- MODULE FunctionSentences ---------------------------
(***************************************************************************)
(* The sentences of a function body.  Every local is of a type with a      *)
(* destructor; an expression is a new value or names the local it moves    *)
(* from.                                                                   *)
(***************************************************************************)
EXTENDS Integers, SequencesExt

CONSTANTS
    Programs,  \* the functions considered: [args, body, gives]
    Sentences  \* their sentences, those within others included

(* Bodies are made of sentences; an else is there or not.  A type that a   *)
(* match is over has variants.                                             *)
ASSUME SentencesAssumption ==
    LET Bodies == Seq(Sentences)
    IN  /\ \A p \in Programs : p.body \in Bodies /\ p.args \in Seq(ToSet(p.args))
        /\ \A s \in Sentences :
              /\ s.is \in {"if", "match"} =>
                    /\ s.arms \in Seq(ToSet(s.arms))
                    /\ \A i \in DOMAIN s.arms : /\ s.arms[i].body \in Bodies
                                               /\ s.arms[i].cond \in {"unknown", "true", "false"}
                    /\ s.orElse # <<>> => s.orElse[1] \in Bodies
              /\ s.is = "match" /\ s.exhaustive => s.arms # <<>>
              /\ s.is \in {"loop if", "loop to", "loop", "loop in"} => s.body \in Bodies

NoName == "none"
NoTag  == "untagged"

Let(name, from)  == [is |-> "let", name |-> name, from |-> from]
Use(name)        == [is |-> "use", name |-> name]
Move(name)       == [is |-> "move", name |-> name]
Assign(name, from) == [is |-> "assign", name |-> name, from |-> from]
(* value: "nothing", "self", or a value, moved from a local unless NoName. *)
Give(value)      == [is |-> "give", value |-> value]
BreakSnt(tag)    == [is |-> "break", tag |-> tag]
ContinueSnt(tag) == [is |-> "continue", tag |-> tag]
(* cond: "unknown", or the value of a prerun condition, "true" or "false". *)
Arm(cond, body)  == [cond |-> cond, body |-> body]
If(arms, orElse) == [is |-> "if", arms |-> arms, orElse |-> orElse]
LoopIf(isDo, tag, body) == [is |-> "loop if", isDo |-> isDo, tag |-> tag, body |-> body]
LoopTo(tag, body)   == [is |-> "loop to", tag |-> tag, body |-> body]
LoopEver(tag, body) == [is |-> "loop", tag |-> tag, body |-> body]
LoopIn(item, body)  == [is |-> "loop in", tag |-> item, body |-> body]
(* cases: one body for each case; exhaustive: they name every variant.     *)
Match(cases, exhaustive, orElse) ==
    [is |-> "match", arms |-> [i \in DOMAIN cases |-> Arm("unknown", cases[i])],
     exhaustive |-> exhaustive, orElse |-> orElse]

Function(args, gives, body) == [args |-> args, gives |-> gives, body |-> body]

-----------------------------------------------------------------------------
(* IfElse::knownVals and what is asked of it, for an if emitted once.      *)

Known(snt, i)   == snt.arms[i].cond # "unknown"
TrueKnownBefore(snt, i) == \E j \in 1 .. i - 1 : snt.arms[j].cond = "true"
FalseTill(snt, i) == \A j \in 1 .. i - 1 : snt.arms[j].cond = "false"
(* The arms with a condition that is known false are passed over, as long  *)
(* as all before them are.                                                 *)
FirstArm(snt)   == CHOOSE i \in 1 .. Len(snt.arms) + 1 :
    FalseTill(snt, i) /\ (i > Len(snt.arms) \/ snt.arms[i].cond # "false")
================================================================================

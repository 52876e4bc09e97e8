------------------------------ MODULE PrerunCalls ------------------------------
(***************************************************************************)
(* The interpreter of prerun functions: PrerunFunction::call_prerun, the   *)
(* emit of every prerun sentence, and the state a call keeps.  break,      *)
(* continue and give are C++ exceptions.  A step is one sentence, one      *)
(* frame of the C++ stack an exception passes, or one return.              *)
(***************************************************************************)
EXTENDS PrerunProgram, FiniteSets

VARIABLES
    program,
    calls,    \* the PrerunCallStates, the innermost last, each with its part of the C++ stack
    thrown,   \* the exception in flight
    said,     \* what say has printed
    outcome   \* StillRunning, or how the outermost call has ended, or the compiler

prerunVars == <<program, calls, thrown, said, outcome>>

NoThrow == [is |-> "nothing"]
NoLoop  == [is |-> "nothing"]

(* A loop within a body, an arm of an if or the body of a function, with   *)
(* its PreBlock, the iterations to come and the sentences left in this one.*)
Scope(at, block, rest) ==
    [at |-> at, block |-> block, rest |-> rest, times |-> 0, loop |-> NoLoop]
LoopScope(block, snt) ==
    [at |-> "loop", block |-> block, rest |-> <<>>, times |-> Times(snt.count, snt.tag), loop |-> snt]

(* blocks: the links previous and next of the PreBlocks; 0 is none.        *)
(* result: the value of the call the head sentence waits for.              *)
NewCall(f, v) ==
    [fn |-> f, argument |-> v, scopes |-> <<Scope("function", 1, program.body[f])>>, loopsInfo |-> <<>>,
     blocks |-> <<[previous |-> 0, next |-> 0]>>, activeBlock |-> 1, result |-> NoExp]

(* Mutant: next of the previous block stays.                               *)
WithBlockUnlinked(call, b) ==
    [call EXCEPT !.blocks = Append(@, [previous |-> b, next |-> 0]),
                 !.activeBlock = Len(call.blocks) + 1]

(* PreBlock::create_next_to(b)->make_active().  b may have a next block    *)
(* already, which is then in the chain of no block.                        *)
WithBlockAfter(call, b) ==
    LET new == Len(call.blocks) + 1
    IN  [call EXCEPT
            !.blocks = Append([@ EXCEPT ![b].next = new], [previous |-> b, next |-> 0]),
            !.activeBlock = new]

Top      == Last(calls)
Inner    == Last(Top.scopes)
Snt      == Head(Inner.rest)
Fn       == Top.fn
Running  == outcome = StillRunning
Emitting == Running /\ thrown = NoThrow
At(is)   == Emitting /\ Inner.rest # <<>> /\ Snt.is = is

Replace(call) == calls' = [calls EXCEPT ![Len(calls)] = call]
InScopes(call, scopes) == [call EXCEPT !.scopes = scopes]
(* The call after its head sentence.                                       *)
Done(call) ==
    [call EXCEPT !.scopes[Len(call.scopes)].rest = Tail(@), !.result = NoExp]

(* ctx->Error ends the process, and so do a null pointer that is used and  *)
(* the end of the C++ stack.                                               *)
Fail(how) == outcome' = Ended(how, NoExp) /\ UNCHANGED <<program, calls, thrown, said>>

Value(exp)     == ValueOf(exp, Top.argument)
Evaluated(exp) == IF exp.is = "call" THEN Top.result ELSE Value(exp)
Known(exp)     == exp.is # "call" \/ Top.result # NoExp

(* call_prerun out of the expression of a sentence.  A function may call   *)
(* itself: addDependency drops the dependency of an entity on itself, and  *)
(* nothing counts the calls.                                               *)
CallPrerun ==
    /\ At("give") \/ At("say") \/ At("expression")
    /\ Snt.exp.is = "call" /\ Top.result = NoExp
    /\ IF Len(calls) = MaxCalls THEN Fail("overflow")
       ELSE /\ calls' = Append(calls, NewCall(Snt.exp.fn, Value(Snt.exp.argument)))
            /\ UNCHANGED <<program, thrown, said, outcome>>

Throw(exception) == thrown' = exception /\ UNCHANGED <<program, calls, said, outcome>>

Give ==
    /\ At("give") /\ Known(Snt.exp)
    /\ LET isVoid == Fn \in program.void
       IN  IF Snt.exp = NoExp
           THEN IF isVoid THEN Throw([is |-> "give", value |-> VoidValue]) ELSE Fail("error")
           ELSE IF Evaluated(Snt.exp) = NullValue THEN Fail("crash")
           ELSE IF Evaluated(Snt.exp).type = (IF isVoid THEN "void" ELSE "int")
           THEN Throw([is |-> "give", value |-> Evaluated(Snt.exp)])
           ELSE Fail("error")

Say ==
    /\ At("say") /\ Known(Snt.exp)
    /\ IF Evaluated(Snt.exp) = NullValue THEN Fail("crash")
       ELSE IF Evaluated(Snt.exp).type = "void" THEN Fail("error")
       ELSE /\ said' = Append(said, Evaluated(Snt.exp).n)
            /\ Replace(Done(Top)) /\ UNCHANGED <<program, thrown, outcome>>

ExpressionSentence ==
    /\ At("expression") /\ Known(Snt.exp)
    /\ IF Evaluated(Snt.exp) = NullValue THEN Fail("crash")
       ELSE IF Evaluated(Snt.exp).type # "void" THEN Fail("error")
       ELSE Replace(Done(Top)) /\ UNCHANGED <<program, thrown, said, outcome>>

(* What makes break and continue throw: their tag among the loops around   *)
(* them, or exactly one loop.                                              *)
Throws(snt, loops) ==
    IF snt.tag = NoTag THEN Len(loops) = 1 ELSE \E i \in DOMAIN loops : loops[i] = snt.tag

(* With a tag that no loop has the sentence has no effect.                 *)
Jump(is) ==
    /\ At(is)
    /\ IF Throws(Snt, Top.loopsInfo) THEN Throw([is |-> is, tag |-> Snt.tag])
       ELSE IF Top.loopsInfo = <<>> \/ Snt.tag = NoTag THEN Fail("error")
       ELSE Replace(Done(Top)) /\ UNCHANGED <<program, thrown, said, outcome>>

Break    == Jump("break")
Continue == Jump("continue")

LoopTo ==
    /\ At("loop")
    /\ IF \/ Snt.count.type \notin CountTypes
          \/ Snt.tag # NoTag /\ \E i \in DOMAIN Top.loopsInfo : Top.loopsInfo[i] = Snt.tag
       THEN Fail("error")
       ELSE LET in == WithBlockAfter([Done(Top) EXCEPT !.loopsInfo = Append(@, Snt.tag)], Top.activeBlock)
            IN  /\ Replace(InScopes(in, Append(in.scopes, LoopScope(in.activeBlock, Snt))))
                /\ UNCHANGED <<program, thrown, said, outcome>>

IfElse ==
    /\ At("if")
    /\ IF IllTyped(Snt, Top.argument) THEN Fail("error")
       ELSE /\ UNCHANGED <<program, thrown, said, outcome>>
            /\ LET chosen == Chosen(Snt, Top.argument)
                   in == WithBlockAfter(Done(Top), Top.activeBlock)
               IN  IF chosen = <<>> THEN Replace(Done(Top))
                   ELSE Replace(InScopes(in, Append(in.scopes,
                            Scope("if", in.activeBlock, chosen[1]))))

(* Mutant: no loop advances its index.                                     *)
NextIterationStuck ==
    /\ Emitting /\ Inner.at = "loop" /\ Inner.rest = <<>> /\ Inner.times # 0
    /\ Replace([Top EXCEPT !.scopes[Len(Top.scopes)].rest = Inner.loop.body])
    /\ UNCHANGED <<program, thrown, said, outcome>>

(* The sentences of an iteration are done: the next one, while there are   *)
(* any.  The index of an endless loop never moves.                         *)
NextIteration ==
    /\ Emitting /\ Inner.at = "loop" /\ Inner.rest = <<>> /\ Inner.times # 0
    /\ Replace([Top EXCEPT !.scopes[Len(Top.scopes)].rest  = Inner.loop.body,
                           !.scopes[Len(Top.scopes)].times = IF @ = Endless THEN @ ELSE @ - 1])
    /\ UNCHANGED <<program, thrown, said, outcome>>

(* Mutant: the loop is left without pop_back.                              *)
LeaveKeepingLoop(call) ==
    LET scope == Last(call.scopes)
    IN  WithBlockAfter(InScopes(call, Front(call.scopes)), scope.block)

(* The end of a loop or of an if: the block after its block.               *)
Leave(call) ==
    LET scope == Last(call.scopes)
    IN  WithBlockAfter([call EXCEPT !.scopes = Front(@),
            !.loopsInfo = IF scope.at = "loop" THEN Front(@) ELSE @], scope.block)

LeaveScope ==
    /\ Emitting /\ Inner.rest = <<>>
    /\ Inner.at \in {"if", "loop"} /\ Inner.times = 0
    /\ Replace(Leave(Top)) /\ UNCHANGED <<program, thrown, said, outcome>>

(* The blocks that ~PreBlock destroys, from the root along next.           *)
DestroyedFrom(blocks) ==
    LET chain[b \in 0 .. Len(blocks)] == IF b = 0 THEN {} ELSE {b} \cup chain[blocks[b].next]
    IN  chain[1]

(* call_prerun returns v: the call state is destroyed, and the sentence of *)
(* the caller that waits for v goes on.                                    *)
Return(v) ==
    /\ UNCHANGED <<program, said>> /\ thrown' = NoThrow
    /\ IF Len(calls) = 1
       THEN outcome' = EndedWith(v) /\ calls' = <<>>
       ELSE /\ calls' = [Front(calls) EXCEPT ![Len(calls) - 1].result = v]
            /\ UNCHANGED outcome

RunsOffEnd ==
    /\ Emitting /\ Inner.at = "function" /\ Inner.rest = <<>>
    /\ IF Fn \in program.void THEN Return(NullValue) ELSE Fail("error")

(* Mutant: an exception without a tag is for the innermost loop.           *)
CatchesUntagged(exception, tag) == exception.tag = NoTag \/ exception.tag = tag

(* The handlers of loop to.                                                *)
Catches(exception, tag) == tag # NoTag /\ exception.tag \in {NoTag, tag}

(* The exception reaches the innermost scope: an if lets it through, a     *)
(* loop may catch it, and every exception ends in call_prerun.             *)
Unwind ==
    /\ Running /\ thrown # NoThrow
    /\ IF Inner.at = "function"
       THEN IF thrown.is = "give" THEN Return(thrown.value) ELSE Fail("error")
       ELSE /\ UNCHANGED <<program, said, outcome>>
            /\ IF /\ Inner.at = "loop" /\ thrown.is \in {"break", "continue"}
                  /\ Catches(thrown, Inner.loop.tag)
               THEN /\ thrown' = NoThrow
                    /\ Replace(IF thrown.is = "break" THEN Leave(Top)
                               ELSE [Top EXCEPT !.scopes[Len(Top.scopes)].rest = <<>>])
               ELSE /\ UNCHANGED thrown
                    /\ Replace(InScopes(Top, Front(Top.scopes)))

Finished == outcome # StillRunning /\ UNCHANGED prerunVars

Init ==
    /\ program \in Programs
    /\ calls = <<NewCall("main", program.argument)>>
    /\ thrown = NoThrow /\ said = <<>> /\ outcome = StillRunning

Interpret ==
    \/ CallPrerun \/ Give \/ Say \/ ExpressionSentence \/ Break \/ Continue \/ LoopTo \/ IfElse
    \/ NextIteration \/ LeaveScope \/ RunsOffEnd \/ Unwind

Next == Interpret \/ Finished

(* One process, and the interpreter runs until the call has ended.         *)
Spec == Init /\ [][Next]_prerunVars /\ WF_prerunVars(Interpret)

-----------------------------------------------------------------------------
(* Properties.                                                             *)

(* The sentences a call still has to do, as the language has them: what is *)
(* left of the innermost body, the iterations to come, and so outwards.    *)
LoopAround(scopes, i) == \E j \in 1 .. i : scopes[j].at = "loop"
Left(call) ==
    LET scopes == call.scopes
        Items(body, i) == [k \in DOMAIN body |-> [snt |-> body[k], inLoop |-> LoopAround(scopes, i)]]
        Again(i) ==
            IF scopes[i].times = Endless
            THEN <<[snt |-> scopes[i].loop, inLoop |-> LoopAround(scopes, i - 1)]>>
            ELSE IF scopes[i].times = 0 THEN <<>>
            ELSE FlattenSeq([k \in 1 .. scopes[i].times |-> Items(scopes[i].loop.body, i)])
    IN  FlattenSeq(Reverse([i \in DOMAIN scopes |-> Items(scopes[i].rest, i) \o Again(i)]))

(* An exception in flight has its effect already: the call has given its   *)
(* value, or the process will end with an error.                           *)
Failing == thrown.is \in {"break", "continue"} \/ outcome.how \in {"error", "crash", "overflow"}
Pending == IF thrown.is = "give" THEN Front(calls) ELSE calls

MeaningTodo ==
    IF Failing THEN <<>>
    ELSE [i \in DOMAIN Pending |-> [fn |-> Pending[i].fn, argument |-> Pending[i].argument,
                                    left |-> Left(Pending[i])]]
MeaningResult ==
    IF Failing \/ Pending = <<>> THEN NoExp
    ELSE IF thrown.is = "give" THEN thrown.value
    ELSE Last(Pending).result
MeaningOutcome ==
    IF Running /\ Failing THEN Ended("error", NoExp)
    ELSE IF Pending = <<>> /\ thrown.is = "give" THEN EndedWith(thrown.value)
    ELSE outcome

Meaning ==
    INSTANCE PrerunMeaning WITH
        todo    <- MeaningTodo,
        result  <- MeaningResult,
        outcome <- MeaningOutcome

(* The exceptions, the records of loops and the scopes of the C++ stack    *)
(* implement the meaning of the sentences: no loop is left early, a break  *)
(* or continue with a tag does nothing inside a loop, and one without a    *)
(* tag ends the compilation.                                               *)
ImplementsMeaning == Meaning!Spec

LoopsUpTo(scopes, j) == {i \in 1 .. j : scopes[i].at = "loop"}

(* loopsInfo is what break and continue decide by: between sentences it    *)
(* has one record for every loop they are in, from the outermost to the    *)
(* innermost, and none for a loop that has ended, whatever way it ended.   *)
RecordsMatch(call) ==
    /\ Len(call.loopsInfo) = Cardinality(LoopsUpTo(call.scopes, Len(call.scopes)))
    /\ \A j \in LoopsUpTo(call.scopes, Len(call.scopes)) :
          call.loopsInfo[Cardinality(LoopsUpTo(call.scopes, j))] = call.scopes[j].loop.tag
LoopRecordsMatch == thrown = NoThrow => \A i \in DOMAIN calls : RecordsMatch(calls[i])

(* ~PrerunCallState destroys what ~PreBlock reaches along next from the    *)
(* root.  A block that is created after one with a next block takes the    *)
(* place of that next block, but the block in use is never cut off, and    *)
(* from it has_local gets back to the root along previous.                 *)
ActiveBlockIsReached ==
    \A i \in DOMAIN calls :
        LET blocks == calls[i].blocks
            back[b \in 0 .. Len(blocks)] == IF b = 0 THEN {} ELSE {b} \cup back[blocks[b].previous]
        IN  calls[i].activeBlock \in DestroyedFrom(blocks) /\ 1 \in back[calls[i].activeBlock]

(* A call that is made within one of the same function with the same       *)
(* argument.  There is nothing else it could depend on.                    *)
GetsBack ==
    \E i, j \in DOMAIN calls :
        i < j /\ calls[i].fn = calls[j].fn /\ calls[i].argument = calls[j].argument

InEndlessLoop ==
    \E i \in DOMAIN calls : \E j \in DOMAIN calls[i].scopes : calls[i].scopes[j].times = Endless

(* The interpreter comes to an end, unless it stays for ever in a loop     *)
(* whose count is of a native type or wider than 64 bits.  Functions may   *)
(* call themselves and each other, and such calls return, unless one gets  *)
(* back to itself with the argument it had: then, and only then, the C++   *)
(* stack runs out, if it has room for one call of each function with each  *)
(* argument.                                                               *)
Terminates ==
    /\ <>(outcome # StillRunning) \/ <>[]InEndlessLoop
    /\ GetsBack ~> outcome.how = "overflow"
    /\ [](outcome.how = "overflow" => GetsBack)
================================================================================

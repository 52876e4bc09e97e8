---------------------------- MODULE Generics_proofs ----------------------------
(***************************************************************************)
(* Proofs about Generics, for every set of programs that the assumptions   *)
(* of that module describe: any generics, parameters and uses, and any     *)
(* room for calls.                                                         *)
(*                                                                         *)
(* A call of fill_generics that is not finished leaves what it is making   *)
(* in three places: the values of the parameters, allActiveGenerics, and,  *)
(* for a struct, opaqueVariants.  The invariants say how these agree with  *)
(* the frames of the calls:                                                *)
(*   FramesInv  each frame asks for the one above it;                      *)
(*   OpenInv    the opaques of a struct are those of its frames that are   *)
(*              still getting members, in the order of the calls;          *)
(*   HeldInv    the values of a parameter are the arguments of the frames  *)
(*              of its generic, in the order of the calls;                 *)
(*   ActiveInv  allActiveGenerics has the arguments of all frames.         *)
(* HeldInv needs lists of arguments that are all given; it is what is lost *)
(* when one is left out.                                                   *)
(***************************************************************************)
EXTENDS Generics, SequenceTheorems, FiniteSetTheorems, WellFoundedInduction,
        TLAPS

-----------------------------------------------------------------------------
(* Facts about sequences, sets of numbers and functions that are recursive *)
(* by a rank, which the proofs below need.                                 *)

(* A sequence, of whatever.                                                *)
IsSeq(s) == s \in Seq(ToSet(s))

(* Length and domain of a sequence.                                        *)
LEMMA SeqFacts ==
    ASSUME NEW s, IsSeq(s)
    PROVE  /\ Len(s) \in Nat
           /\ DOMAIN s = 1 .. Len(s)
           /\ s = <<>> <=> Len(s) = 0
    BY LenProperties, EmptySeq DEF IsSeq

(* The empty sequence is one.                                              *)
LEMMA EmptyIsSeq == IsSeq(<<>>) /\ Len(<<>>) = 0
    BY DEF IsSeq

(* So is every sequence over a set.                                        *)
LEMMA SeqOfIsSeq ==
    ASSUME NEW S, NEW s \in Seq(S)
    PROVE  IsSeq(s)
<1>1. /\ Len(s) \in Nat /\ DOMAIN s = 1 .. Len(s) /\ s \in [1 .. Len(s) -> S]
    BY LenProperties
<1>2. s \in [1 .. Len(s) -> ToSet(s)]
    BY <1>1 DEF ToSet
<1> QED
    BY <1>1, <1>2 DEF IsSeq

(* What Append gives, whatever the elements are.                           *)
LEMMA AppendAny ==
    ASSUME NEW s, IsSeq(s), NEW e
    PROVE  /\ IsSeq(Append(s, e))
           /\ Len(Append(s, e)) = Len(s) + 1
           /\ DOMAIN Append(s, e) = 1 .. Len(s) + 1
           /\ \A i \in 1 .. Len(s) : Append(s, e)[i] = s[i]
           /\ Append(s, e)[Len(s) + 1] = e
<1> DEFINE S == ToSet(s) \cup {e}
<1>1. s \in Seq(S)
    BY SeqMonotonic DEF IsSeq
<1>2. e \in S
    OBVIOUS
<1> HIDE DEF S
<1>3. /\ Append(s, e) \in Seq(S)
      /\ Len(Append(s, e)) = Len(s) + 1
      /\ \A i \in 1 .. Len(s) : Append(s, e)[i] = s[i]
      /\ Append(s, e)[Len(s) + 1] = e
    BY <1>1, <1>2, AppendProperties
<1>4. DOMAIN Append(s, e) = 1 .. Len(s) + 1
    BY <1>3, LenProperties
<1>5. IsSeq(Append(s, e))
    BY <1>3, SeqOfIsSeq
<1> QED
    BY <1>3, <1>4, <1>5

(* What Front leaves, of a sequence that is not empty.                     *)
LEMMA FrontAny ==
    ASSUME NEW s, IsSeq(s), Len(s) # 0
    PROVE  /\ IsSeq(Front(s))
           /\ Len(Front(s)) = Len(s) - 1
           /\ DOMAIN Front(s) = 1 .. Len(s) - 1
           /\ \A i \in 1 .. Len(s) - 1 : Front(s)[i] = s[i]
           /\ Len(s) \in Nat \ {0} /\ Last(s) = s[Len(s)]
<1> DEFINE S == ToSet(s)
<1>1. /\ Len(s) \in Nat /\ DOMAIN s = 1 .. Len(s)
    BY SeqFacts
<1>2. \A i \in 1 .. Len(s) - 1 : s[i] \in S
    BY <1>1 DEF ToSet
<1> HIDE DEF S
<1>3. 1 \in Int /\ Len(s) - 1 \in Int
    BY <1>1
<1> DEFINE n == Len(s) - 1
<1>4. \A i \in 1 .. n : s[i] \in S
    BY <1>2
<1> HIDE DEF n
<1>5. n \in Int
    BY <1>3 DEF n
<1>6. /\ SubSeq(s, 1, n) \in Seq(S)
      /\ Len(SubSeq(s, 1, n)) = IF 1 <= n THEN n - 1 + 1 ELSE 0
      /\ \A i \in 1 .. n - 1 + 1 : SubSeq(s, 1, n)[i] = s[1 + i - 1]
    BY <1>4, <1>5, SubSeqProperties
<1>7. Front(s) = SubSeq(s, 1, n)
    BY DEF Front, n
<1>8. n \in Nat /\ n - 1 + 1 = n /\ \A i \in 1 .. n : 1 + i - 1 = i
    BY <1>1 DEF n
<1>9. /\ Front(s) \in Seq(S) /\ Len(Front(s)) = n
      /\ \A i \in 1 .. n : Front(s)[i] = s[i]
    BY <1>6, <1>7, <1>8
<1>10. DOMAIN Front(s) = 1 .. n
    BY <1>9, LenProperties
<1>11. IsSeq(Front(s))
    BY <1>9, SeqOfIsSeq
<1> QED
    BY <1>1, <1>9, <1>10, <1>11 DEF n, Last

(* What the update of one element changes.                                 *)
LEMMA ExceptAny ==
    ASSUME NEW s, IsSeq(s), NEW i \in DOMAIN s, NEW e
    PROVE  /\ IsSeq([s EXCEPT ![i] = e])
           /\ Len([s EXCEPT ![i] = e]) = Len(s)
           /\ DOMAIN [s EXCEPT ![i] = e] = DOMAIN s
           /\ \A j \in DOMAIN s : [s EXCEPT ![i] = e][j] = IF j = i THEN e ELSE s[j]
<1> DEFINE S == ToSet(s) \cup {e}
<1>1. s \in Seq(S) /\ e \in S /\ i \in 1 .. Len(s) /\ DOMAIN s = 1 .. Len(s)
    BY SeqMonotonic, SeqFacts DEF IsSeq
<1> HIDE DEF S
<1>2. /\ [s EXCEPT ![i] = e] \in Seq(S)
      /\ Len([s EXCEPT ![i] = e]) = Len(s)
      /\ \A j \in 1 .. Len(s) : [s EXCEPT ![i] = e][j] = IF j = i THEN e ELSE s[j]
    BY <1>1, ExceptSeq
<1> QED
    BY <1>1, <1>2, SeqOfIsSeq

(* Which elements a concatenation has, and where.                          *)
LEMMA ConcatAny ==
    ASSUME NEW s, IsSeq(s), NEW t, IsSeq(t)
    PROVE  /\ IsSeq(s \o t)
           /\ Len(s \o t) = Len(s) + Len(t)
           /\ DOMAIN (s \o t) = 1 .. Len(s) + Len(t)
           /\ \A i \in 1 .. Len(s) + Len(t) :
                 (s \o t)[i] = IF i <= Len(s) THEN s[i] ELSE t[i - Len(s)]
<1> DEFINE S == ToSet(s) \cup ToSet(t)
<1>1. s \in Seq(S) /\ t \in Seq(S)
    BY SeqMonotonic DEF IsSeq
<1> HIDE DEF S
<1>2. /\ s \o t \in Seq(S)
      /\ Len(s \o t) = Len(s) + Len(t)
      /\ \A i \in 1 .. Len(s) + Len(t) :
            (s \o t)[i] = IF i <= Len(s) THEN s[i] ELSE t[i - Len(s)]
    BY <1>1, ConcatProperties
<1>3. DOMAIN (s \o t) = 1 .. Len(s) + Len(t)
    BY <1>2, LenProperties
<1> QED
    BY <1>2, <1>3, SeqOfIsSeq

(* A set of numbers that is not empty has a least one.                     *)
LEMMA LeastNumber ==
    ASSUME NEW I, I \subseteq Nat, I # {}
    PROVE  \E x \in I : \A y \in I : x <= y
<1> DEFINE R == OpToRel(<, Nat)
<1>1. IsWellFoundedOn(R, Nat)
    BY NatLessThanWellFounded
<1>2. ASSUME NEW x \in I, NEW y \in I, y < x
      PROVE  <<y, x>> \in R
    <2>1. <<y, x>> \in Nat \X Nat /\ <<y, x>>[1] = y /\ <<y, x>>[2] = x
        OBVIOUS
    <2> QED
        BY <1>2, <2>1, Zenon DEF OpToRel
<1> HIDE DEF R
<1>3. PICK x \in I : \A y \in I : ~(<<y, x>> \in R)
    BY <1>1, WFMin
<1>4. \A y \in I : ~(y < x)
    BY <1>2, <1>3, Zenon
<1> QED
    BY <1>3, <1>4

(* Min of a set of numbers is the least of them.                          *)
LEMMA MinIsMember ==
    ASSUME NEW I, I \subseteq Nat, I # {}
    PROVE  Min(I) \in I /\ \A y \in I : Min(I) =< y
<1>1. PICK x \in I : \A y \in I : x <= y
    BY LeastNumber
<1> QED
    BY <1>1 DEF Min

-----------------------------------------------------------------------------
(* A frame has these fields and no others.                                 *)
IsFrame(f) ==
    f = [of |-> f.of, args |-> f.args, meant |-> f.meant, at |-> f.at, next |-> f.next,
         generics |-> f.generics]

(* Each frame asks for the one above it, which has an argument for each    *)
(* parameter.                                                              *)
FramesInv ==
    /\ program \in Programs
    /\ IsSeq(frames) /\ Len(frames) # 0
    /\ frames[1].of = Main /\ frames[1].at = "later"
    /\ \A k \in DOMAIN frames :
          IsFrame(frames[k]) /\ frames[k].next \in Nat \ {0} /\ frames[k].at \in {"first", "later"}
    /\ \A k \in 2 .. Len(frames) :
          /\ frames[k].of \in Generic
          /\ DOMAIN frames[k].args = Params(frames[k].of)
    /\ \A k \in 1 .. Len(frames) - 1 : AsksFor(frames[k].of, frames[k + 1].of)

(* The values of each parameter, and what is filed of each generic.        *)
FilesInv ==
    /\ DOMAIN values = Generic /\ DOMAIN opaques = Generic /\ DOMAIN variants = Generic
    /\ \A g \in Generic :
          /\ DOMAIN values[g] = Params(g) /\ \A i \in Params(g) : IsSeq(values[g][i])
          /\ IsSeq(opaques[g]) /\ IsSeq(variants[g])

(* A frame at another use; one that Create has turned to its later uses.   *)
Moved(f, n) == [f EXCEPT !.next = n]
Created(f, n, x) == [f EXCEPT !.at = "later", !.next = n, !.generics = x]

(* A frame whose next use is another, and one that Create has changed.     *)
LEMMA FrameExcept ==
    ASSUME NEW f, IsFrame(f), NEW n, NEW x
    PROVE  /\ IsFrame(Moved(f, n))
           /\ Moved(f, n).of = f.of /\ Moved(f, n).args = f.args
           /\ Moved(f, n).meant = f.meant /\ Moved(f, n).at = f.at
           /\ Moved(f, n).generics = f.generics /\ Moved(f, n).next = n
           /\ IsFrame(Created(f, n, x))
           /\ Created(f, n, x).of = f.of /\ Created(f, n, x).args = f.args
           /\ Created(f, n, x).meant = f.meant /\ Created(f, n, x).at = "later"
           /\ Created(f, n, x).next = n /\ Created(f, n, x).generics = x
<1> DEFINE a == "later"
<1> DEFINE r == [of |-> f.of, args |-> f.args, meant |-> f.meant, at |-> f.at, next |-> f.next,
                 generics |-> f.generics]
<1>1. f = r
    BY DEF IsFrame
<1>2. /\ [r EXCEPT !.next = n] = [of |-> f.of, args |-> f.args, meant |-> f.meant, at |-> f.at,
                                  next |-> n, generics |-> f.generics]
      /\ [r EXCEPT !.at = a, !.next = n, !.generics = x] =
            [of |-> f.of, args |-> f.args, meant |-> f.meant, at |-> a, next |-> n, generics |-> x]
    <2>1. [r EXCEPT !.next = n] = [of |-> f.of, args |-> f.args, meant |-> f.meant, at |-> f.at,
                                  next |-> n, generics |-> f.generics]
        OBVIOUS
    <2> DEFINE r1 == [of |-> f.of, args |-> f.args, meant |-> f.meant, at |-> a,
                      next |-> f.next, generics |-> f.generics]
               r2 == [of |-> f.of, args |-> f.args, meant |-> f.meant, at |-> a,
                      next |-> n, generics |-> f.generics]
               r3 == [of |-> f.of, args |-> f.args, meant |-> f.meant, at |-> a,
                      next |-> n, generics |-> x]
    <2>2. [r EXCEPT !.at = a] = r1 /\ [r1 EXCEPT !.next = n] = r2 /\ [r2 EXCEPT !.generics = x] = r3
        OBVIOUS
    <2>3. [r EXCEPT !.at = a, !.next = n, !.generics = x] =
              [[[r EXCEPT !.at = a] EXCEPT !.next = n] EXCEPT !.generics = x]
        OBVIOUS
    <2> HIDE DEF r, r1, r2
    <2>4. [r EXCEPT !.at = a, !.next = n, !.generics = x] = r3
        BY <2>2, <2>3
    <2> QED
        BY <2>1, <2>4
<1>3. /\ [f EXCEPT !.next = n] = [of |-> f.of, args |-> f.args, meant |-> f.meant, at |-> f.at,
                                  next |-> n, generics |-> f.generics]
      /\ [f EXCEPT !.at = a, !.next = n, !.generics = x] =
            [of |-> f.of, args |-> f.args, meant |-> f.meant, at |-> a, next |-> n, generics |-> x]
    BY <1>1, <1>2
<1> QED
    BY <1>3 DEF IsFrame, Moved, Created

(* What goes on in the topmost frame of a stack when a use is done.        *)
LEMMA AdvancedFacts ==
    ASSUME NEW s, IsSeq(s), Len(s) # 0, IsFrame(s[Len(s)])
    PROVE  /\ IsSeq(Advanced(s)) /\ Len(Advanced(s)) = Len(s) /\ DOMAIN Advanced(s) = DOMAIN s
           /\ \A k \in DOMAIN s : k # Len(s) => Advanced(s)[k] = s[k]
           /\ Advanced(s)[Len(s)] = Moved(s[Len(s)], s[Len(s)].next + 1)
<1>1. Len(s) \in DOMAIN s
    BY SeqFacts
<1> QED
    BY <1>1, ExceptAny DEF Advanced, Moved

(* The topmost frame; it is that of Main only where there is no other.     *)
LEMMA TopFacts ==
    ASSUME FramesInv
    PROVE  /\ Len(frames) \in Nat \ {0} /\ DOMAIN frames = 1 .. Len(frames)
           /\ Top = frames[Len(frames)] /\ IsFrame(Top)
           /\ Top.next \in Nat \ {0} /\ Top.at \in {"first", "later"}
           /\ Top.of \in Generic \cup {Main}
           /\ Top.of = Main <=> Len(frames) = 1
           /\ Top.of = Main => Top.at = "later"
<1>1. Len(frames) \in Nat \ {0} /\ DOMAIN frames = 1 .. Len(frames)
    BY SeqFacts DEF FramesInv
<1>2. Top = frames[Len(frames)] /\ Len(frames) \in DOMAIN frames
    BY <1>1 DEF Top, Last
<1>3. IsFrame(Top) /\ Top.next \in Nat \ {0} /\ Top.at \in {"first", "later"}
    BY <1>2 DEF FramesInv
<1>4. CASE Len(frames) = 1
    BY <1>1, <1>2, <1>3, <1>4 DEF FramesInv
<1>5. CASE Len(frames) # 1
    <2>1. Len(frames) \in 2 .. Len(frames)
        BY <1>1, <1>5
    <2>2. Top.of \in Generic
        BY <1>2, <2>1 DEF FramesInv
    <2> QED
        BY <1>1, <1>2, <1>3, <1>5, <2>2, GenericsAssumption
<1> QED
    BY <1>4, <1>5

(* What the assumption on Programs says of the program.                    *)
LEMMA ProgramFacts ==
    ASSUME program \in Programs
    PROVE  /\ Params(Main) = {}
           /\ \A g \in Generic :
                 Params(g) # {} /\ Kind(g) \in {"struct", "function", "definition"}
           /\ \A d \in Generic \cup {Main} : \A uses \in {program[d].first, program[d].later} :
                 /\ IsSeq(uses)
                 /\ \A use \in ToSet(uses) : LegalUse(program, d, use)
<1>1. /\ DOMAIN program = Generic \cup {Main} /\ program[Main].defaults = <<>>
      /\ \A g \in Generic : DOMAIN program[g].defaults # {}
                            /\ program[g].kind \in {"struct", "function", "definition"}
      /\ \A d \in DOMAIN program : \A uses \in {program[d].first, program[d].later} :
              /\ uses \in Seq(ToSet(uses))
              /\ \A use \in ToSet(uses) : LegalUse(program, d, use)
    BY ProgramsAssumption
<1>2. DOMAIN <<>> = {}
    OBVIOUS
<1> QED
    BY <1>1, <1>2 DEF Params, Kind, IsSeq

(* What is asked for is a generic, and the list that fill_generics works   *)
(* with has an entry for each of its parameters.                           *)
LEMMA UseFacts ==
    ASSUME FramesInv, Asking
    PROVE  /\ Use \in UsesOf(Top.of) /\ LegalUse(program, Top.of, Use)
           /\ Use.of \in Generic /\ AsksFor(Top.of, Use.of)
           /\ Use.args # <<>> => DOMAIN Use.args = Params(Use.of)
           /\ Use.args = <<>> <=> toFill(Use) = <<>>
           /\ DOMAIN toFill(Use) = DOMAIN Use.args
           /\ DOMAIN Full(Use, toFill(Use)) = Params(Use.of)
<1>1. Top.of \in Generic \cup {Main} /\ program \in Programs /\ Top.next \in Nat \ {0}
    BY TopFacts DEF FramesInv
<1>2. Uses \in {program[Top.of].first, program[Top.of].later}
    BY DEF Uses
<1>3. IsSeq(Uses) /\ \A use \in ToSet(Uses) : LegalUse(program, Top.of, use)
    BY <1>1, <1>2, ProgramFacts
<1>4. Top.next \in DOMAIN Uses
    BY <1>1, <1>3, SeqFacts DEF Asking
<1>5. Use \in ToSet(Uses)
    BY <1>4 DEF Use, ToSet
<1>6. Use \in UsesOf(Top.of)
    BY <1>2, <1>5 DEF UsesOf
<1>7. LegalUse(program, Top.of, Use)
    BY <1>3, <1>5
<1>8. Use.of \in Generic /\ (Use.args # <<>> => DOMAIN Use.args = Params(Use.of))
    BY <1>7 DEF LegalUse, Params
<1>9. AsksFor(Top.of, Use.of)
    BY <1>6 DEF AsksFor
<1>10. DOMAIN toFill(Use) = DOMAIN Use.args
    BY DEF toFill
<1>11. Params(Use.of) # {}
    BY <1>1, <1>8, ProgramFacts
<1>12. Use.args = <<>> <=> toFill(Use) = <<>>
    <2>1. ASSUME Use.args = <<>>
          PROVE  toFill(Use) = <<>>
        <3>1. DOMAIN Use.args = {}
            BY <2>1
        <3> QED
            BY <3>1 DEF toFill
    <2>2. ASSUME Use.args # <<>>
          PROVE  toFill(Use) # <<>>
        <3>1. DOMAIN toFill(Use) # {} /\ DOMAIN <<>> = {}
            BY <2>2, <1>8, <1>10, <1>11
        <3> QED
            BY <3>1
    <2> QED
        BY <2>1, <2>2
<1>13. DOMAIN Full(Use, toFill(Use)) = Params(Use.of)
    <2>1. DOMAIN toIRGenericType(Use.of) = Params(Use.of)
        BY DEF toIRGenericType
    <2> QED
        BY <2>1, <1>8, <1>10, <1>12 DEF Full
<1> QED
    BY <1>6, <1>7, <1>8, <1>9, <1>10, <1>12, <1>13

-----------------------------------------------------------------------------
(* What the actions do when they do not end the compilation.               *)
FindDone ==
    /\ Asking
    /\ \E k \in Found(opaques[Use.of] \o variants[Use.of], toFill(Use)) :
          answer' = [of |-> Use.of, generics |-> (opaques[Use.of] \o variants[Use.of])[k].generics,
                     meant |-> Meant(Use)]
    /\ frames' = Advanced(frames)
    /\ UNCHANGED <<program, values, active, opaques, variants, names>>

(* The frame that Begin puts on the others.                                *)
NewFrame == Frame(Use.of, Full(Use, toFill(Use)), Meant(Use))

BeginDone ==
    /\ Asking
    /\ NotMade(Use, toFill(Use))
    /\ Full(Use, toFill(Use)) \notin names[Use.of]
    /\ values' = [values EXCEPT ![Use.of] =
                     IF toFill(Use) = <<>> THEN values[Use.of]
                     ELSE [i \in Params(Use.of) |->
                              Append(values[Use.of][i], Full(Use, toFill(Use))[i])]]
    /\ active' = Append(active, [of |-> Use.of, args |-> Full(Use, toFill(Use))])
    /\ IF Kind(Use.of) = "struct"
       THEN /\ names' = [names EXCEPT ![Use.of] = @ \cup {Full(Use, toFill(Use))}]
            /\ opaques' = [opaques EXCEPT ![Use.of] =
                              Append(opaques[Use.of], [filed |-> Full(Use, toFill(Use)),
                                                       generics |-> Full(Use, toFill(Use))])]
       ELSE UNCHANGED <<names, opaques>>
    /\ frames' = Append(frames, NewFrame)
    /\ UNCHANGED <<program, variants, answer>>

(* What Create makes.                                                      *)
Made == [filed |-> Top.args,
         generics |-> IF Kind(Top.of) = "function" THEN toIRGenericType(Top.of) ELSE Top.generics]

CreateDone ==
    /\ Top.at = "first"
    /\ frames' = [frames EXCEPT ![Len(frames)] =
                     Created(Top, 1, Made.generics)]
    /\ IF Kind(Top.of) = "struct"
       THEN /\ variants' = [variants EXCEPT ![Top.of] = Append(variants[Top.of], Made)]
            /\ opaques' = [opaques EXCEPT ![Top.of] = Front(opaques[Top.of])]
       ELSE UNCHANGED <<variants, opaques>>
    /\ UNCHANGED <<program, values, active, names, answer>>

FinishDone ==
    /\ Top.at = "later" /\ Top.of # Main
    /\ \A i \in Params(Top.of) : values[Top.of][i] # <<>>
    /\ IF Kind(Top.of) = "struct" THEN UNCHANGED variants
       ELSE variants' = [variants EXCEPT ![Top.of] =
                            Append(variants[Top.of], [filed |-> Top.args, generics |-> Top.generics])]
    /\ values' = [values EXCEPT ![Top.of] = [i \in Params(Top.of) |-> Front(values[Top.of][i])]]
    /\ active' = Front(active)
    /\ frames' = Advanced(Front(frames))
    /\ answer' = [of |-> Top.of, generics |-> Top.generics, meant |-> Top.meant]
    /\ UNCHANGED <<program, opaques, names>>

(* The compilation has ended.                                              *)
Stays == UNCHANGED <<program, values, active, opaques, variants, names, frames, answer>>

(* Every step is one of these, or ends the compilation.                    *)
LEMMA Steps ==
    ASSUME FramesInv, FilesInv, [Next]_vars
    PROVE  Stays \/ FindDone \/ BeginDone \/ CreateDone \/ FinishDone
<1>1. ASSUME NEW how, End(how)
      PROVE  Stays
    BY <1>1 DEF End, Stays
<1>2. CASE Find
    <2> DEFINE made == opaques[Use.of] \o variants[Use.of]
    <2>1. /\ Asking /\ Found(made, toFill(Use)) # {}
          /\ \/ End("incomplete member")
             \/ /\ answer' = [of |-> Use.of,
                              generics |-> made[Min(Found(made, toFill(Use)))].generics,
                              meant |-> Meant(Use)]
                /\ frames' = Advanced(frames)
                /\ UNCHANGED <<program, values, active, opaques, variants, names>>
        BY <1>2 DEF Find
    <2>2. IsSeq(made)
        BY <2>1, UseFacts, ConcatAny DEF FilesInv
    <2> HIDE DEF made
    <2>3. Found(made, toFill(Use)) \subseteq Nat
        BY <2>2, SeqFacts DEF Found
    <2>4. Min(Found(made, toFill(Use))) \in Found(made, toFill(Use))
        BY <2>1, <2>3, MinIsMember
    <2> QED
        BY <1>1, <2>1, <2>4 DEF FindDone, made
<1>3. CASE Refuse
    BY <1>1, <1>3 DEF Refuse
<1>4. CASE TakeNullDefault
    BY <1>1, <1>4 DEF TakeNullDefault
<1>5. CASE Begin
    <2>1. CASE End("too deep")
        BY <1>1, <2>1
    <2>2. CASE ~End("too deep")
        BY <1>5, <2>2 DEF Begin, BeginDone, NewFrame
    <2> QED
        BY <2>1, <2>2
<1>6. CASE Create
    BY <1>6 DEF Create, CreateDone, Created, Made, Top, Last
<1>7. CASE Finish
    <2>1. CASE End("undefined")
        BY <1>1, <2>1
    <2>2. CASE ~End("undefined")
        BY <1>7, <2>2 DEF Finish, FinishDone
    <2> QED
        BY <2>1, <2>2
<1>8. CASE EndMain
    BY <1>1, <1>8 DEF EndMain
<1>9. CASE UNCHANGED vars
    BY <1>9 DEF vars, Stays
<1> QED
    BY <1>2, <1>3, <1>4, <1>5, <1>6, <1>7, <1>8, <1>9 DEF Next

(* Frames that are dropped, advanced or created keep FramesInv.            *)
LEMMA FramesKept ==
    ASSUME FramesInv, program' = program, IsSeq(frames'), Len(frames') # 0,
           Len(frames') <= Len(frames),
           \A k \in 1 .. Len(frames') :
              /\ IsFrame(frames'[k]) /\ frames'[k].next \in Nat \ {0}
              /\ frames'[k].of = frames[k].of /\ frames'[k].args = frames[k].args
              /\ frames'[k].at = frames[k].at \/ frames'[k].at = "later"
    PROVE  FramesInv'
<1>1. /\ Len(frames) \in Nat \ {0} /\ DOMAIN frames = 1 .. Len(frames)
      /\ Len(frames') \in Nat \ {0} /\ DOMAIN frames' = 1 .. Len(frames')
    BY SeqFacts DEF FramesInv
<1>2. program' \in Programs
    BY DEF FramesInv
<1>3. frames'[1].of = Main /\ frames'[1].at = "later"
    BY <1>1 DEF FramesInv
<1>4. \A k \in DOMAIN frames' :
          IsFrame(frames'[k]) /\ frames'[k].next \in Nat \ {0} /\ frames'[k].at \in {"first", "later"}
    BY <1>1 DEF FramesInv
<1>5. \A k \in 2 .. Len(frames') :
          /\ frames'[k].of \in Generic
          /\ DOMAIN frames'[k].args = DOMAIN program[frames'[k].of].defaults
    BY <1>1 DEF FramesInv, Params
<1>6. ASSUME NEW k \in 1 .. Len(frames') - 1
      PROVE  \E use \in ToSet(program[frames'[k].of].first) \cup ToSet(program[frames'[k].of].later) :
                use.of = frames'[k + 1].of
    <2>1. k \in 1 .. Len(frames) - 1 /\ k \in 1 .. Len(frames') /\ k + 1 \in 1 .. Len(frames')
        BY <1>1
    <2>2. AsksFor(frames[k].of, frames[k + 1].of)
        BY <2>1 DEF FramesInv
    <2>3. frames'[k].of = frames[k].of /\ frames'[k + 1].of = frames[k + 1].of
        BY <2>1
    <2> QED
        BY <2>2, <2>3 DEF AsksFor, UsesOf
<1> QED
    BY <1>1, <1>2, <1>3, <1>4, <1>5, <1>6 DEF FramesInv, Params, AsksFor, UsesOf, IsFrame, IsSeq

(* Find goes on to the next use.                                           *)
LEMMA FindFrames ==
    ASSUME FramesInv, FindDone
    PROVE  /\ IsSeq(frames') /\ Len(frames') = Len(frames) /\ Len(frames) \in Nat \ {0}
           /\ \A k \in 1 .. Len(frames) :
                 /\ IsFrame(frames'[k]) /\ frames'[k].next \in Nat \ {0}
                 /\ frames'[k].of = frames[k].of /\ frames'[k].args = frames[k].args
                 /\ frames'[k].at = frames[k].at /\ frames'[k].meant = frames[k].meant
                 /\ frames'[k].generics = frames[k].generics
<1>1. /\ Len(frames) \in Nat \ {0} /\ DOMAIN frames = 1 .. Len(frames) /\ IsSeq(frames)
      /\ Top = frames[Len(frames)] /\ IsFrame(Top) /\ Top.next \in Nat \ {0}
    BY TopFacts DEF FramesInv
<1>2. /\ IsSeq(frames') /\ Len(frames') = Len(frames)
      /\ \A k \in DOMAIN frames : k # Len(frames) => frames'[k] = frames[k]
      /\ frames'[Len(frames)] = Moved(Top, Top.next + 1)
    BY <1>1, AdvancedFacts DEF FindDone
<1>3. Top.next + 1 \in Nat \ {0}
    BY <1>1
<1> DEFINE new == Moved(Top, Top.next + 1)
<1>4. /\ IsFrame(new) /\ new.next \in Nat \ {0} /\ new.of = Top.of /\ new.args = Top.args
      /\ new.at = Top.at /\ new.meant = Top.meant /\ new.generics = Top.generics
    BY <1>1, <1>3, FrameExcept
<1> HIDE DEF new
<1>5. \A k \in 1 .. Len(frames) : IsFrame(frames[k]) /\ frames[k].next \in Nat \ {0}
    BY <1>1 DEF FramesInv
<1> QED
    BY <1>1, <1>2, <1>4, <1>5 DEF new

(* Create turns the topmost frame to its later uses, with its generics.    *)
LEMMA CreateFrames ==
    ASSUME FramesInv, CreateDone
    PROVE  /\ IsSeq(frames') /\ Len(frames') = Len(frames) /\ Len(frames) \in Nat \ {0}
           /\ \A k \in 1 .. Len(frames) :
                 /\ IsFrame(frames'[k]) /\ frames'[k].next \in Nat \ {0}
                 /\ frames'[k].of = frames[k].of /\ frames'[k].args = frames[k].args
                 /\ frames'[k].meant = frames[k].meant
                 /\ k # Len(frames) => frames'[k] = frames[k]
           /\ frames'[Len(frames)].at = "later"
           /\ frames'[Len(frames)].generics = Made.generics
<1>1. /\ Len(frames) \in Nat \ {0} /\ DOMAIN frames = 1 .. Len(frames) /\ IsSeq(frames)
      /\ Top = frames[Len(frames)] /\ IsFrame(Top) /\ Top.next \in Nat \ {0}
    BY TopFacts DEF FramesInv
<1> DEFINE new == Created(Top, 1, Made.generics)
<1>2. /\ IsFrame(new) /\ new.next = 1 /\ new.of = Top.of /\ new.args = Top.args
      /\ new.at = "later" /\ new.meant = Top.meant /\ new.generics = Made.generics
    BY <1>1, FrameExcept
<1>3. frames' = [frames EXCEPT ![Len(frames)] = new]
    BY DEF CreateDone
<1> HIDE DEF new
<1>4. /\ IsSeq(frames') /\ Len(frames') = Len(frames)
      /\ \A k \in DOMAIN frames : frames'[k] = IF k = Len(frames) THEN new ELSE frames[k]
    <2>1. Len(frames) \in DOMAIN frames
        BY <1>1
    <2> QED
        BY <1>1, <1>3, <2>1, ExceptAny
<1>5. \A k \in 1 .. Len(frames) : IsFrame(frames[k]) /\ frames[k].next \in Nat \ {0}
    BY <1>1 DEF FramesInv
<1> QED
    <2>1. /\ Len(frames) \in 1 .. Len(frames)
          /\ frames'[Len(frames)] = new
          /\ \A k \in 1 .. Len(frames) : k # Len(frames) => frames'[k] = frames[k]
        <3> DEFINE n == Len(frames)
        <3>1. n \in 1 .. n /\ n \in DOMAIN frames /\ DOMAIN frames = 1 .. n
            BY <1>1
        <3>2. \A k \in DOMAIN frames : frames'[k] = IF k = n THEN new ELSE frames[k]
            BY <1>4
        <3> HIDE DEF n
        <3>3. n \in 1 .. n /\ frames'[n] = new /\ \A k \in 1 .. n : k # n => frames'[k] = frames[k]
            BY <3>1, <3>2
        <3> QED
            BY <3>3 DEF n
    <2>2. ASSUME NEW k \in 1 .. Len(frames)
          PROVE  /\ IsFrame(frames'[k]) /\ frames'[k].next \in Nat \ {0}
                 /\ frames'[k].of = frames[k].of /\ frames'[k].args = frames[k].args
                 /\ frames'[k].meant = frames[k].meant
        <3>1. CASE k = Len(frames)
            BY <3>1, <1>1, <1>2, <2>1
        <3>2. CASE k # Len(frames)
            BY <3>2, <1>5, <2>1
        <3> QED
            BY <3>1, <3>2
    <2> QED
        BY <1>1, <1>2, <1>4, <2>1, <2>2

(* Finish drops the topmost frame and goes on to the next use of the one   *)
(* below.                                                                  *)
LEMMA FinishFrames ==
    ASSUME FramesInv, FinishDone
    PROVE  /\ Len(frames) \in Nat \ {0} /\ Len(frames) - 1 \in Nat \ {0}
           /\ IsSeq(frames') /\ Len(frames') = Len(frames) - 1
           /\ \A k \in 1 .. Len(frames) - 1 :
                 /\ IsFrame(frames'[k]) /\ frames'[k].next \in Nat \ {0}
                 /\ frames'[k].of = frames[k].of /\ frames'[k].args = frames[k].args
                 /\ frames'[k].at = frames[k].at /\ frames'[k].meant = frames[k].meant
                 /\ frames'[k].generics = frames[k].generics
<1> DEFINE below == Front(frames)
           n == Len(frames) - 1
<1>1. /\ Len(frames) \in Nat \ {0} /\ DOMAIN frames = 1 .. Len(frames) /\ IsSeq(frames)
      /\ Len(frames) # 1
    BY TopFacts DEF FramesInv, FinishDone
<1>2. n \in Nat \ {0}
    BY <1>1
<1>3. /\ IsSeq(below) /\ Len(below) = n /\ DOMAIN below = 1 .. n
      /\ \A k \in 1 .. n : below[k] = frames[k]
    BY <1>1, FrontAny
<1>4. frames' = Advanced(below)
    BY DEF FinishDone
<1>5. \A k \in 1 .. n : k \in DOMAIN frames
    BY <1>1
<1>6. \A k \in 1 .. n : IsFrame(frames[k]) /\ frames[k].next \in Nat \ {0}
    BY <1>5 DEF FramesInv
<1> HIDE DEF below, n
<1>7. IsFrame(below[Len(below)]) /\ Len(below) # 0 /\ below[Len(below)] = frames[n]
    BY <1>2, <1>3, <1>6
<1>8. /\ IsSeq(frames') /\ Len(frames') = n
      /\ \A k \in 1 .. n : k # n => frames'[k] = frames[k]
      /\ frames'[n] = Moved(frames[n], frames[n].next + 1)
    BY <1>3, <1>4, <1>7, AdvancedFacts
<1>9. IsFrame(frames[n]) /\ frames[n].next + 1 \in Nat \ {0}
    BY <1>2, <1>6
<1> DEFINE new == Moved(frames[n], frames[n].next + 1)
<1>10. /\ IsFrame(new) /\ new.next \in Nat \ {0} /\ new.of = frames[n].of
       /\ new.args = frames[n].args /\ new.at = frames[n].at /\ new.meant = frames[n].meant
       /\ new.generics = frames[n].generics
    BY <1>9, FrameExcept
<1>11. frames'[n] = new
    BY <1>8
<1> HIDE DEF new
<1>12. \A k \in 1 .. n :
                 /\ IsFrame(frames'[k]) /\ frames'[k].next \in Nat \ {0}
                 /\ frames'[k].of = frames[k].of /\ frames'[k].args = frames[k].args
                 /\ frames'[k].at = frames[k].at /\ frames'[k].meant = frames[k].meant
                 /\ frames'[k].generics = frames[k].generics
    BY <1>2, <1>6, <1>8, <1>10, <1>11
<1> QED
    BY <1>1, <1>2, <1>8, <1>12 DEF n

(* Begin puts the frame of what is asked for on the others.                *)
LEMMA BeginFrames ==
    ASSUME FramesInv, BeginDone
    PROVE  /\ IsSeq(frames') /\ Len(frames') = Len(frames) + 1 /\ Len(frames) \in Nat \ {0}
           /\ \A k \in 1 .. Len(frames) : frames'[k] = frames[k]
           /\ frames'[Len(frames) + 1] = NewFrame
           /\ IsFrame(NewFrame) /\ NewFrame.next = 1 /\ NewFrame.at = "first"
           /\ NewFrame.of = Use.of /\ NewFrame.args = Full(Use, toFill(Use))
           /\ NewFrame.meant = Meant(Use) /\ NewFrame.generics = NewFrame.args
           /\ Use.of \in Generic /\ AsksFor(frames[Len(frames)].of, Use.of)
           /\ DOMAIN NewFrame.args = Params(NewFrame.of)
<1>1. /\ Len(frames) \in Nat \ {0} /\ IsSeq(frames) /\ Top = frames[Len(frames)]
    BY TopFacts DEF FramesInv
<1>2. frames' = Append(frames, NewFrame)
    BY DEF BeginDone
<1>3. /\ IsFrame(NewFrame) /\ NewFrame.next = 1 /\ NewFrame.at = "first"
      /\ NewFrame.of = Use.of /\ NewFrame.args = Full(Use, toFill(Use))
      /\ NewFrame.meant = Meant(Use) /\ NewFrame.generics = NewFrame.args
    BY DEF NewFrame, Frame, IsFrame
<1>4. /\ Use.of \in Generic /\ AsksFor(Top.of, Use.of)
      /\ DOMAIN Full(Use, toFill(Use)) = Params(Use.of)
    BY UseFacts DEF BeginDone
<1>5. /\ IsSeq(frames') /\ Len(frames') = Len(frames) + 1
      /\ \A k \in 1 .. Len(frames) : frames'[k] = frames[k]
      /\ frames'[Len(frames) + 1] = NewFrame
    BY <1>1, <1>2, AppendAny
<1> QED
    BY <1>1, <1>3, <1>4, <1>5

(* FramesInv is inductive.                                                 *)
LEMMA FramesStep ==
    ASSUME FramesInv, FilesInv, [Next]_vars
    PROVE  FramesInv'
<1>1. CASE Stays
    BY <1>1 DEF Stays, FramesInv, Params, AsksFor, UsesOf
<1>2. CASE FindDone
    <2>1. program' = program
        BY <1>2 DEF FindDone
    <2>2. /\ IsSeq(frames') /\ Len(frames') # 0 /\ Len(frames') <= Len(frames)
        BY <1>2, FindFrames
    <2>3. \A k \in 1 .. Len(frames') :
              /\ IsFrame(frames'[k]) /\ frames'[k].next \in Nat \ {0}
              /\ frames'[k].of = frames[k].of /\ frames'[k].args = frames[k].args
              /\ frames'[k].at = frames[k].at
        BY <1>2, FindFrames
    <2> QED
        BY <2>1, <2>2, <2>3, FramesKept
<1>3. CASE BeginDone
    <2> DEFINE n == Len(frames)
    <2>1. /\ IsSeq(frames') /\ Len(frames') = n + 1 /\ n \in Nat \ {0}
          /\ \A k \in 1 .. n : frames'[k] = frames[k]
          /\ frames'[n + 1] = NewFrame
          /\ IsFrame(NewFrame) /\ NewFrame.next = 1 /\ NewFrame.at = "first"
          /\ NewFrame.of \in Generic /\ AsksFor(frames[n].of, NewFrame.of)
          /\ DOMAIN NewFrame.args = Params(NewFrame.of)
        BY <1>3, BeginFrames
    <2>2. program' = program
        BY <1>3 DEF BeginDone
    <2>3. DOMAIN frames' = 1 .. n + 1 /\ DOMAIN frames = 1 .. n
        BY <2>1, SeqFacts DEF FramesInv
    <2> HIDE DEF n
    <2>4. program' \in Programs /\ IsSeq(frames') /\ Len(frames') # 0
        BY <2>1, <2>2 DEF FramesInv
    <2>5. frames'[1].of = Main /\ frames'[1].at = "later"
        BY <2>1 DEF FramesInv
    <2>6. \A k \in DOMAIN frames' :
              /\ IsFrame(frames'[k]) /\ frames'[k].next \in Nat \ {0}
              /\ frames'[k].at \in {"first", "later"}
        BY <2>1, <2>3 DEF FramesInv
    <2>7. ASSUME NEW k \in 2 .. Len(frames')
          PROVE  /\ frames'[k].of \in Generic
                 /\ DOMAIN frames'[k].args = DOMAIN program[frames'[k].of].defaults
        <3>1. CASE k = n + 1
            BY <3>1, <2>1 DEF Params
        <3>2. CASE k # n + 1
            <4>1. k \in 2 .. Len(frames) /\ frames'[k] = frames[k]
                BY <3>2, <2>1 DEF n
            <4> QED
                BY <4>1 DEF FramesInv, Params
        <3> QED
            BY <3>1, <3>2
    <2>8. ASSUME NEW k \in 1 .. Len(frames') - 1
          PROVE  AsksFor(frames'[k].of, frames'[k + 1].of)
        <3>1. CASE k = n
            BY <3>1, <2>1
        <3>2. CASE k # n
            <4>1. /\ k \in 1 .. Len(frames) - 1 /\ frames'[k] = frames[k]
                  /\ frames'[k + 1] = frames[k + 1]
                BY <3>2, <2>1 DEF n
            <4> QED
                BY <4>1 DEF FramesInv
        <3> QED
            BY <3>1, <3>2
    <2> QED
        BY <2>2, <2>4, <2>5, <2>6, <2>7, <2>8 DEF FramesInv, Params, AsksFor, UsesOf, IsFrame, IsSeq
<1>4. CASE CreateDone
    <2>1. \A k \in 1 .. Len(frames) : frames'[k].at = frames[k].at \/ frames'[k].at = "later"
        BY <1>4, CreateFrames
    <2> QED
        BY <1>4, <2>1, CreateFrames, FramesKept DEF CreateDone
<1>5. CASE FinishDone
    <2>1. Len(frames') <= Len(frames) /\ Len(frames') # 0
        BY <1>5, FinishFrames
    <2> QED
        BY <1>5, <2>1, FinishFrames, FramesKept DEF FinishDone
<1> QED
    BY <1>1, <1>2, <1>3, <1>4, <1>5, Steps

(* The values and the lists of variants stay sequences.                    *)
LEMMA FilesStep ==
    ASSUME FramesInv, FilesInv, [Next]_vars
    PROVE  FilesInv'
<1>1. CASE Stays \/ FindDone
    BY <1>1 DEF Stays, FindDone, FilesInv, Params
<1>2. CASE BeginDone
    <2>1. Use.of \in Generic
        BY <1>2, UseFacts DEF BeginDone
    <2>2. \A e : IsSeq(Append(opaques[Use.of], e))
        BY <2>1, AppendAny DEF FilesInv
    <2>3. \A i \in Params(Use.of) : \A e : IsSeq(Append(values[Use.of][i], e))
        BY <2>1, AppendAny DEF FilesInv
    <2>4. program' = program
        BY <1>2 DEF BeginDone
    <2>5. /\ DOMAIN values' = Generic
          /\ \A g \in Generic : DOMAIN values'[g] = DOMAIN program[g].defaults
                                /\ \A i \in DOMAIN program[g].defaults : IsSeq(values'[g][i])
        BY <1>2, <2>1, <2>3 DEF BeginDone, FilesInv, Params
    <2>6. /\ DOMAIN opaques' = Generic /\ variants' = variants
          /\ \A g \in Generic : IsSeq(opaques'[g])
        <3>1. CASE Kind(Use.of) = "struct"
            <4> DEFINE e == [filed |-> Full(Use, toFill(Use)), generics |-> Full(Use, toFill(Use))]
            <4>1. opaques' = [opaques EXCEPT ![Use.of] = Append(opaques[Use.of], e)]
                BY <1>2, <3>1 DEF BeginDone
            <4> HIDE DEF e
            <4>2. DOMAIN opaques = Generic /\ DOMAIN variants = Generic /\ variants' = variants
                  /\ \A g \in Generic : IsSeq(opaques[g])
                BY <1>2 DEF BeginDone, FilesInv
            <4>3. /\ DOMAIN opaques' = Generic
                  /\ \A g \in Generic : opaques'[g] = IF g = Use.of THEN Append(opaques[Use.of], e)
                                                       ELSE opaques[g]
                BY <4>1, <4>2
            <4>4. IsSeq(Append(opaques[Use.of], e))
                BY <2>2
            <4>5. ASSUME NEW g \in Generic PROVE IsSeq(opaques'[g])
                BY <4>2, <4>3, <4>4
            <4> QED
                BY <4>2, <4>3, <4>5
        <3>2. CASE Kind(Use.of) # "struct"
            BY <1>2, <3>2 DEF BeginDone, FilesInv
        <3> QED
            BY <3>1, <3>2
    <2> QED
        BY <2>4, <2>5, <2>6 DEF FilesInv, Params, IsSeq
<1>3. CASE CreateDone
    <2>1. Top.of \in Generic
        BY <1>3, TopFacts DEF CreateDone
    <2>2. \A e : IsSeq(Append(variants[Top.of], e))
        BY <2>1, AppendAny DEF FilesInv
    <2>3. IsSeq(Front(opaques[Top.of]))
        <3>1. IsSeq(opaques[Top.of])
            BY <2>1 DEF FilesInv
        <3>2. CASE Len(opaques[Top.of]) # 0
            BY <3>1, <3>2, FrontAny
        <3>3. CASE Len(opaques[Top.of]) = 0
            <4>1. Len(opaques[Top.of]) - 1 < 1 /\ Len(opaques[Top.of]) - 1 \in Int
                BY <3>3
            <4>2. Front(opaques[Top.of]) = <<>>
                BY <4>1, SubSeqEmpty DEF Front
            <4> QED
                BY <4>2, EmptyIsSeq
        <3> QED
            BY <3>2, <3>3
    <2>4. /\ program' = program /\ values' = values
          /\ DOMAIN opaques' = Generic /\ DOMAIN variants' = Generic
          /\ \A g \in Generic : IsSeq(opaques'[g]) /\ IsSeq(variants'[g])
        <3> DEFINE g0 == Top.of
        <3>1. program' = program /\ values' = values
            BY <1>3 DEF CreateDone
        <3>2. /\ variants' = [variants EXCEPT ![g0] = Append(variants[g0], Made)] \/ variants' = variants
              /\ opaques' = [opaques EXCEPT ![g0] = Front(opaques[g0])] \/ opaques' = opaques
            BY <1>3 DEF CreateDone
        <3>3. /\ IsSeq(Append(variants[g0], Made)) /\ IsSeq(Front(opaques[g0]))
              /\ DOMAIN opaques = Generic /\ DOMAIN variants = Generic
              /\ \A g \in Generic : IsSeq(opaques[g]) /\ IsSeq(variants[g])
            BY <2>2, <2>3 DEF FilesInv
        <3> HIDE DEF g0
        <3>4. DOMAIN variants' = Generic /\ \A g \in Generic : IsSeq(variants'[g])
            BY ONLY <3>2, <3>3
        <3>5. DOMAIN opaques' = Generic /\ \A g \in Generic : IsSeq(opaques'[g])
            BY ONLY <3>2, <3>3
        <3> QED
            BY <3>1, <3>4, <3>5
    <2> QED
        BY <2>4 DEF FilesInv, Params, IsSeq
<1>4. CASE FinishDone
    <2>1. Top.of \in Generic
        BY <1>4, TopFacts DEF FinishDone
    <2>2. \A e : IsSeq(Append(variants[Top.of], e))
        BY <2>1, AppendAny DEF FilesInv
    <2>3. \A i \in Params(Top.of) : IsSeq(Front(values[Top.of][i]))
        BY <1>4, <2>1, FrontAny, SeqFacts DEF FinishDone, FilesInv
    <2> QED
        <3> DEFINE g0 == Top.of
                   v == [i \in Params(g0) |-> Front(values[g0][i])]
                   e == [filed |-> Top.args, generics |-> Top.generics]
        <3>1. /\ program' = program /\ opaques' = opaques
              /\ variants' = [variants EXCEPT ![g0] = Append(variants[g0], e)] \/ variants' = variants
              /\ values' = [values EXCEPT ![g0] = v]
            BY <1>4 DEF FinishDone
        <3>2. /\ DOMAIN v = Params(g0) /\ \A i \in Params(g0) : IsSeq(v[i])
              /\ IsSeq(Append(variants[g0], e))
            BY <2>2, <2>3
        <3>3. /\ DOMAIN values = Generic /\ DOMAIN opaques = Generic /\ DOMAIN variants = Generic
              /\ \A g \in Generic : IsSeq(opaques[g]) /\ IsSeq(variants[g])
              /\ \A g \in Generic : DOMAIN values[g] = Params(g) /\ \A i \in Params(g) : IsSeq(values[g][i])
            BY DEF FilesInv
        <3> HIDE DEF g0, v, e
        <3>4. DOMAIN variants' = Generic /\ \A g \in Generic : IsSeq(variants'[g])
            BY ONLY <3>1, <3>2, <3>3
        <3>5. DOMAIN values' = Generic /\ \A g \in Generic :
                  DOMAIN values'[g] = Params(g) /\ \A i \in Params(g) : IsSeq(values'[g][i])
            BY ONLY <3>1, <3>2, <3>3
        <3>6. \A g : Params(g)' = Params(g)
            BY <3>1 DEF Params
        <3> QED
            BY <3>1, <3>3, <3>4, <3>5, <3>6 DEF FilesInv
<1> QED
    BY <1>1, <1>2, <1>3, <1>4, Steps

-----------------------------------------------------------------------------
(* The indices in S, from the lowest to the highest.                       *)
Lists(at, S) ==
    /\ at \in Seq(Nat)
    /\ \A k \in S : \E n \in DOMAIN at : at[n] = k
    /\ \A n \in DOMAIN at : at[n] \in S
    /\ \A m, n \in DOMAIN at : m < n => at[m] < at[n]

(* No indices are listed by the empty sequence.                            *)
LEMMA ListsNone == Lists(<<>>, {})
    BY DEF Lists

(* An index above all others is listed last.                               *)
LEMMA ListsGrow ==
    ASSUME NEW at, NEW S, Lists(at, S), NEW k \in Nat, \A j \in S : j < k
    PROVE  /\ Lists(Append(at, k), S \cup {k})
           /\ Len(Append(at, k)) = Len(at) + 1 /\ DOMAIN Append(at, k) = 1 .. Len(at) + 1
           /\ \A n \in 1 .. Len(at) : Append(at, k)[n] = at[n]
           /\ Append(at, k)[Len(at) + 1] = k
           /\ Len(at) \in Nat /\ DOMAIN at = 1 .. Len(at)
<1> DEFINE more == Append(at, k)
<1>1. /\ Len(at) \in Nat /\ DOMAIN at = 1 .. Len(at) /\ at \in Seq(Nat)
      /\ \A n \in 1 .. Len(at) : at[n] \in Nat
    BY LenProperties, ElementOfSeq DEF Lists
<1>2. /\ more \in Seq(Nat) /\ Len(more) = Len(at) + 1
      /\ \A n \in 1 .. Len(at) : more[n] = at[n]
      /\ more[Len(at) + 1] = k
    BY <1>1, AppendProperties
<1>3. DOMAIN more = 1 .. Len(at) + 1
    BY <1>2, LenProperties
<1> HIDE DEF more
<1>4. \A j \in S \cup {k} : \E n \in DOMAIN more : more[n] = j
    <2>1. Len(at) + 1 \in DOMAIN more /\ \A n \in DOMAIN at : n \in DOMAIN more /\ more[n] = at[n]
        BY <1>1, <1>2, <1>3
    <2> QED
        BY <1>2, <2>1 DEF Lists
<1>5. \A n \in DOMAIN more : more[n] \in S \cup {k}
    <2>1. \A n \in DOMAIN more : n = Len(at) + 1 \/ (n \in DOMAIN at /\ n \in 1 .. Len(at))
        <3> DEFINE n1 == Len(at)
        <3>1. n1 \in Nat /\ DOMAIN at = 1 .. n1 /\ DOMAIN more = 1 .. n1 + 1
            BY <1>1, <1>3
        <3> HIDE DEF n1
        <3>2. \A n \in 1 .. n1 + 1 : n = n1 + 1 \/ n \in 1 .. n1
            BY <3>1
        <3> QED
            BY <3>1, <3>2 DEF n1
    <2> QED
        BY <1>2, <2>1 DEF Lists
<1>6. ASSUME NEW m \in DOMAIN more, NEW n \in DOMAIN more, m < n
      PROVE  more[m] < more[n]
    <2>1. m \in 1 .. Len(at) /\ m \in DOMAIN at
        BY <1>1, <1>3, <1>6
    <2>2. CASE n = Len(at) + 1
        <3>1. at[m] < k
            BY <2>1 DEF Lists
        <3> QED
            BY <1>2, <2>1, <2>2, <3>1
    <2>3. CASE n # Len(at) + 1
        <3>1. n \in 1 .. Len(at) /\ n \in DOMAIN at
            BY <1>1, <1>3, <2>3
        <3>2. at[m] < at[n]
            BY <1>6, <2>1, <3>1 DEF Lists
        <3> QED
            BY <1>2, <2>1, <3>1, <3>2
    <2> QED
        BY <2>2, <2>3
<1> QED
    BY <1>1, <1>2, <1>3, <1>4, <1>5, <1>6 DEF Lists, more

(* The highest index is the last that is listed.                           *)
LEMMA ListsShrink ==
    ASSUME NEW at, NEW S, Lists(at, S), NEW k \in S, \A j \in S : j <= k
    PROVE  /\ Lists(Front(at), S \ {k})
           /\ Len(at) \in Nat \ {0} /\ DOMAIN at = 1 .. Len(at) /\ at[Len(at)] = k
           /\ Len(Front(at)) = Len(at) - 1 /\ DOMAIN Front(at) = 1 .. Len(at) - 1
           /\ \A n \in 1 .. Len(at) - 1 : Front(at)[n] = at[n]
<1> DEFINE less == Front(at)
<1>1. /\ Len(at) \in Nat /\ DOMAIN at = 1 .. Len(at) /\ at \in Seq(Nat) /\ IsSeq(at)
      /\ \A n \in 1 .. Len(at) : at[n] \in Nat /\ at[n] \in S
    BY LenProperties, ElementOfSeq, SeqOfIsSeq DEF Lists
<1>2. PICK n0 \in DOMAIN at : at[n0] = k
    BY DEF Lists
<1>3. n0 = Len(at)
    <2>1. SUFFICES ASSUME n0 < Len(at)
                   PROVE  FALSE
        BY <1>1, <1>2
    <2>2. Len(at) \in DOMAIN at
        BY <1>1, <1>2
    <2>3. at[n0] < at[Len(at)] /\ at[Len(at)] \in S
        BY <2>1, <2>2, <1>2 DEF Lists
    <2>4. at[Len(at)] <= k /\ at[Len(at)] \in Nat /\ at[n0] \in Nat
        BY <1>1, <1>2, <2>2, <2>3
    <2> QED
        BY <1>2, <2>3, <2>4
<1>4. Len(at) # 0
    BY <1>1, <1>2, <1>3
<1>5. /\ Len(less) = Len(at) - 1 /\ DOMAIN less = 1 .. Len(at) - 1 /\ IsSeq(less)
      /\ \A n \in 1 .. Len(at) - 1 : less[n] = at[n]
    BY <1>1, <1>4, FrontAny
<1> HIDE DEF less
<1>6. \A n \in DOMAIN less : n \in DOMAIN at /\ n # Len(at) /\ less[n] = at[n]
    BY <1>1, <1>5
<1>7. less \in Seq(Nat)
    <2>1. \A n \in DOMAIN less : less[n] \in Nat
        BY <1>1, <1>6
    <2>2. ToSet(less) \subseteq Nat
        BY <2>1 DEF ToSet
    <2> QED
        BY <1>5, <2>2, SeqMonotonic DEF IsSeq
<1>8. \A n \in DOMAIN less : less[n] \in S \ {k}
    <2>1. ASSUME NEW n \in DOMAIN less
          PROVE  less[n] \in S /\ less[n] # k
        <3>1. n \in DOMAIN at /\ n < Len(at) /\ less[n] = at[n] /\ Len(at) \in DOMAIN at
            BY <1>1, <1>4, <1>5
        <3>2. at[n] < at[Len(at)] /\ at[n] \in S
            BY <3>1 DEF Lists
        <3>3. at[n] \in Nat /\ at[Len(at)] \in Nat
            BY <1>1, <3>1
        <3> QED
            BY <1>2, <1>3, <3>1, <3>2, <3>3
    <2> QED
        BY <2>1
<1>9. ASSUME NEW j \in S \ {k}
      PROVE  \E n \in DOMAIN less : less[n] = j
    <2>1. PICK n \in DOMAIN at : at[n] = j
        BY DEF Lists
    <2>2. n # Len(at)
        BY <1>2, <1>3, <1>9, <2>1
    <2>3. n \in 1 .. Len(at) - 1
        BY <1>1, <2>1, <2>2
    <2> QED
        BY <1>5, <2>1, <2>3
<1>10. \A m, n \in DOMAIN less : m < n => less[m] < less[n]
    BY <1>6 DEF Lists
<1> QED
    BY <1>1, <1>2, <1>3, <1>4, <1>5, <1>7, <1>8, <1>9, <1>10 DEF Lists, less

-----------------------------------------------------------------------------
(* No two are filed under the same list; none of s under a list of t.      *)
Differ(s) == \A k, l \in DOMAIN s : s[k].filed = s[l].filed => k = l
Apart(s, t) == \A k \in DOMAIN s, l \in DOMAIN t : s[k].filed # t[l].filed
NotIn(list, s) == \A k \in DOMAIN s : s[k].filed # list

(* A variant under a list that no other has can be added.                  *)
LEMMA FiledMore ==
    ASSUME NEW s, IsSeq(s), NEW e, NotIn(e.filed, s)
    PROVE  /\ Differ(s) => Differ(Append(s, e))
           /\ \A list : NotIn(list, s) /\ list # e.filed => NotIn(list, Append(s, e))
<1>1. /\ Len(s) \in Nat /\ DOMAIN s = 1 .. Len(s)
      /\ DOMAIN Append(s, e) = 1 .. Len(s) + 1
      /\ \A i \in 1 .. Len(s) : Append(s, e)[i] = s[i]
      /\ Append(s, e)[Len(s) + 1] = e
    BY AppendAny, SeqFacts
<1> DEFINE more == Append(s, e)
<1>2. \A n \in DOMAIN more : (n = Len(s) + 1 /\ more[n] = e) \/ (n \in DOMAIN s /\ more[n] = s[n])
    <2> DEFINE n1 == Len(s)
    <2>1. /\ n1 \in Nat /\ DOMAIN s = 1 .. n1 /\ DOMAIN more = 1 .. n1 + 1
          /\ \A i \in 1 .. n1 : more[i] = s[i]
          /\ more[n1 + 1] = e
        BY <1>1
    <2> HIDE DEF n1, more
    <2>2. \A n \in 1 .. n1 + 1 : n = n1 + 1 \/ n \in 1 .. n1
        BY <2>1
    <2>3. \A n \in DOMAIN more : (n = n1 + 1 /\ more[n] = e) \/ (n \in DOMAIN s /\ more[n] = s[n])
        BY <2>1, <2>2
    <2> QED
        BY <2>3 DEF n1
<1> HIDE DEF more
<1>3. Differ(s) => Differ(more)
    BY <1>2 DEF Differ, NotIn
<1>4. \A list : NotIn(list, s) /\ list # e.filed => NotIn(list, more)
    BY <1>2 DEF NotIn
<1> QED
    BY <1>3, <1>4 DEF more

(* The last of variants that differ is not among the others.               *)
LEMMA FiledLess ==
    ASSUME NEW s, IsSeq(s), Len(s) # 0
    PROVE  /\ Differ(s) => Differ(Front(s)) /\ NotIn(s[Len(s)].filed, Front(s))
           /\ \A list : NotIn(list, s) => NotIn(list, Front(s))
<1>1. /\ Len(s) \in Nat \ {0} /\ DOMAIN s = 1 .. Len(s)
      /\ DOMAIN Front(s) = 1 .. Len(s) - 1
      /\ \A i \in 1 .. Len(s) - 1 : Front(s)[i] = s[i]
    BY FrontAny, SeqFacts
<1> DEFINE less == Front(s)
<1>2. Len(s) \in DOMAIN s /\ \A n \in DOMAIN less : n \in DOMAIN s /\ n # Len(s) /\ less[n] = s[n]
    BY <1>1
<1> HIDE DEF less
<1>3. Differ(s) => Differ(less) /\ NotIn(s[Len(s)].filed, less)
    BY <1>2 DEF Differ, NotIn
<1>4. \A list : NotIn(list, s) => NotIn(list, less)
    BY <1>2 DEF NotIn
<1> QED
    BY <1>3, <1>4 DEF less

-----------------------------------------------------------------------------
(* The frames of one generic; those that are getting members.              *)
FramesOf(g) == {k \in 2 .. Len(frames) : frames[k].of = g}
FirstOf(g) == {k \in FramesOf(g) : frames[k].at = "first"}

(* Find and the ends leave the frames of every generic.                    *)
LEMMA FindSets ==
    ASSUME FramesInv, FindDone \/ Stays, NEW g
    PROVE  /\ FramesOf(g)' = FramesOf(g) /\ FirstOf(g)' = FirstOf(g)
           /\ Len(frames') = Len(frames)
           /\ \A k \in FramesOf(g) : frames'[k].args = frames[k].args
<1>1. CASE FindDone
    <2>1. /\ Len(frames') = Len(frames) /\ Len(frames) \in Nat
          /\ \A k \in 1 .. Len(frames) : /\ frames'[k].of = frames[k].of
                                         /\ frames'[k].args = frames[k].args
                                         /\ frames'[k].at = frames[k].at
        BY <1>1, FindFrames
    <2>2. 2 .. Len(frames) \subseteq 1 .. Len(frames)
        BY <2>1
    <2> QED
        BY <2>1, <2>2 DEF FramesOf, FirstOf
<1>2. CASE Stays
    BY <1>2 DEF Stays, FramesOf, FirstOf
<1> QED
    BY <1>1, <1>2

(* Begin adds a frame of the generic that is asked for, and no other.      *)
LEMMA BeginSets ==
    ASSUME FramesInv, BeginDone, NEW g
    PROVE  /\ g # Use.of => FramesOf(g)' = FramesOf(g) /\ FirstOf(g)' = FirstOf(g)
           /\ g = Use.of => /\ FramesOf(g)' = FramesOf(g) \cup {Len(frames) + 1}
                            /\ FirstOf(g)' = FirstOf(g) \cup {Len(frames) + 1}
           /\ Len(frames') = Len(frames) + 1 /\ Len(frames) + 1 \in Nat
           /\ \A k \in FramesOf(g) : k < Len(frames) + 1 /\ frames'[k] = frames[k]
           /\ frames'[Len(frames) + 1].args = Full(Use, toFill(Use))
<1>1. /\ Len(frames') = Len(frames) + 1 /\ Len(frames) \in Nat \ {0}
      /\ \A k \in 1 .. Len(frames) : frames'[k] = frames[k]
      /\ frames'[Len(frames) + 1] = NewFrame
      /\ NewFrame.at = "first" /\ NewFrame.of = Use.of
      /\ NewFrame.args = Full(Use, toFill(Use))
    BY BeginFrames
<1> DEFINE n == Len(frames)
<1> HIDE DEF n
<1>2. /\ 2 .. n \subseteq 1 .. n /\ 2 .. n + 1 = (2 .. n) \cup {n + 1} /\ n + 1 \notin 2 .. n
      /\ n \in Nat /\ \A k \in 2 .. n : k < n + 1
    BY <1>1 DEF n
<1>3. \A k \in 2 .. n : frames'[k] = frames[k]
    BY <1>1, <1>2 DEF n
<1>4. FramesOf(g)' = {k \in 2 .. n + 1 : frames'[k].of = g}
    BY <1>1 DEF FramesOf, n
<1>5. FramesOf(g) = {k \in 2 .. n : frames[k].of = g}
    BY DEF FramesOf, n
<1>6. FirstOf(g)' = {k \in FramesOf(g)' : frames'[k].at = "first"}
    BY DEF FirstOf
<1>7. FirstOf(g) = {k \in FramesOf(g) : frames[k].at = "first"}
    BY DEF FirstOf
<1>8. frames'[n + 1].of = Use.of /\ frames'[n + 1].at = "first"
    BY <1>1 DEF n
<1>9. CASE g # Use.of
    <2>1. FramesOf(g)' = FramesOf(g)
        BY <1>2, <1>3, <1>4, <1>5, <1>8, <1>9
    <2>2. FirstOf(g)' = FirstOf(g)
        BY <1>3, <1>5, <1>6, <1>7, <2>1
    <2> QED
        BY <1>1, <1>2, <1>3, <1>5, <1>9, <2>1, <2>2 DEF n
<1>10. CASE g = Use.of
    <2>1. FramesOf(g)' = FramesOf(g) \cup {n + 1}
        BY <1>2, <1>3, <1>4, <1>5, <1>8, <1>10
    <2>2. FirstOf(g)' = FirstOf(g) \cup {n + 1}
        BY <1>3, <1>5, <1>6, <1>7, <1>8, <2>1
    <2> QED
        BY <1>1, <1>2, <1>3, <1>5, <1>10, <2>1, <2>2 DEF n
<1> QED
    BY <1>9, <1>10

(* Create takes the topmost frame from those that get members.             *)
LEMMA CreateSets ==
    ASSUME FramesInv, CreateDone, NEW g
    PROVE  /\ FramesOf(g)' = FramesOf(g) /\ Len(frames') = Len(frames)
           /\ g # Top.of => FirstOf(g)' = FirstOf(g)
           /\ g = Top.of => /\ FirstOf(g)' = FirstOf(g) \ {Len(frames)}
                            /\ Len(frames) \in FirstOf(g)
           /\ \A k \in FramesOf(g) : k \in Nat /\ k <= Len(frames) /\ frames'[k].args = frames[k].args
           /\ Top.of \in Generic
<1>1. /\ Len(frames') = Len(frames) /\ Len(frames) \in Nat \ {0}
      /\ \A k \in 1 .. Len(frames) : /\ frames'[k].of = frames[k].of
                                     /\ frames'[k].args = frames[k].args
                                     /\ k # Len(frames) => frames'[k] = frames[k]
      /\ frames'[Len(frames)].at = "later"
    BY CreateFrames
<1>2. /\ Top = frames[Len(frames)] /\ Top.at = "first" /\ Len(frames) # 1 /\ Top.of \in Generic
    BY TopFacts DEF CreateDone
<1> DEFINE n == Len(frames)
<1> HIDE DEF n
<1>3. 2 .. n \subseteq 1 .. n /\ n \in 2 .. n /\ \A k \in 2 .. n : k \in Nat /\ k <= n
    BY <1>1, <1>2 DEF n
<1>4. /\ \A k \in 2 .. n : /\ frames'[k].of = frames[k].of /\ frames'[k].args = frames[k].args
                           /\ k # n => frames'[k] = frames[k]
      /\ frames'[n].at = "later" /\ frames[n].at = "first" /\ frames[n].of = Top.of
    BY <1>1, <1>2, <1>3 DEF n
<1>5. FramesOf(g)' = {k \in 2 .. n : frames'[k].of = g} /\ FramesOf(g) = {k \in 2 .. n : frames[k].of = g}
    BY <1>1 DEF FramesOf, n
<1>6. FramesOf(g)' = FramesOf(g)
    BY <1>4, <1>5
<1>7. FirstOf(g)' = {k \in FramesOf(g) : frames'[k].at = "first"} /\ FirstOf(g) = {k \in FramesOf(g) : frames[k].at = "first"}
    BY <1>6 DEF FirstOf
<1>8. CASE g # Top.of
    <2>1. FirstOf(g)' = FirstOf(g)
        BY <1>4, <1>5, <1>7, <1>8
    <2> QED
        BY <1>1, <1>2, <1>3, <1>4, <1>5, <1>6, <1>8, <2>1 DEF n
<1>9. CASE g = Top.of
    <2>1. FirstOf(g)' = FirstOf(g) \ {n} /\ n \in FirstOf(g)
        BY <1>3, <1>4, <1>5, <1>7, <1>9
    <2> QED
        BY <1>1, <1>2, <1>3, <1>4, <1>5, <1>6, <1>9, <2>1 DEF n
<1> QED
    BY <1>8, <1>9

(* Finish takes the topmost frame, which gets no members any more.         *)
LEMMA FinishSets ==
    ASSUME FramesInv, FinishDone, NEW g
    PROVE  /\ FirstOf(g)' = FirstOf(g) /\ Len(frames') = Len(frames) - 1 /\ Len(frames) \in Nat
           /\ g # Top.of => FramesOf(g)' = FramesOf(g)
           /\ g = Top.of => /\ FramesOf(g)' = FramesOf(g) \ {Len(frames)}
                            /\ Len(frames) \in FramesOf(g)
           /\ \A k \in FramesOf(g) : /\ k \in Nat /\ k <= Len(frames)
                                     /\ k # Len(frames) => frames'[k].args = frames[k].args
           /\ Top.of \in Generic
<1>1. /\ Len(frames) \in Nat \ {0} /\ Len(frames) - 1 \in Nat \ {0}
      /\ Len(frames') = Len(frames) - 1
      /\ \A k \in 1 .. Len(frames) - 1 : /\ frames'[k].of = frames[k].of
                                         /\ frames'[k].args = frames[k].args
                                         /\ frames'[k].at = frames[k].at
    BY FinishFrames
<1>2. /\ Top = frames[Len(frames)] /\ Top.at = "later" /\ Top.of \in Generic
    BY TopFacts DEF FinishDone
<1> DEFINE n == Len(frames)
<1> HIDE DEF n
<1>3. /\ 2 .. n - 1 \subseteq 1 .. n - 1 /\ n \in 2 .. n /\ 2 .. n - 1 = (2 .. n) \ {n}
      /\ \A k \in 2 .. n : k \in Nat /\ k <= n
    BY <1>1 DEF n
<1>4. /\ \A k \in (2 .. n) \ {n} : /\ frames'[k].of = frames[k].of /\ frames'[k].args = frames[k].args
                                   /\ frames'[k].at = frames[k].at
      /\ frames[n].at = "later" /\ frames[n].of = Top.of
    BY <1>1, <1>2, <1>3 DEF n
<1>5. /\ FramesOf(g)' = {k \in (2 .. n) \ {n} : frames'[k].of = g}
      /\ FramesOf(g) = {k \in 2 .. n : frames[k].of = g}
    BY <1>1, <1>3 DEF FramesOf, n
<1>6. /\ FirstOf(g)' = {k \in FramesOf(g)' : frames'[k].at = "first"}
      /\ FirstOf(g) = {k \in FramesOf(g) : frames[k].at = "first"}
    BY DEF FirstOf
<1>7. "later" # "first"
    OBVIOUS
<1>8. FirstOf(g)' = FirstOf(g)
    BY <1>4, <1>5, <1>6, <1>7
<1>9. CASE g # Top.of
    <2>1. FramesOf(g)' = FramesOf(g)
        BY <1>4, <1>5, <1>9
    <2> QED
        BY <1>1, <1>2, <1>3, <1>4, <1>5, <1>8, <1>9, <2>1 DEF n
<1>10. CASE g = Top.of
    <2>1. FramesOf(g)' = FramesOf(g) \ {n} /\ n \in FramesOf(g)
        BY <1>3, <1>4, <1>5, <1>10
    <2> QED
        BY <1>1, <1>2, <1>3, <1>4, <1>5, <1>8, <1>10, <2>1 DEF n
<1> QED
    BY <1>9, <1>10

-----------------------------------------------------------------------------
(* at: the frames of one struct that are getting their members.            *)
OpenAt(g, at) ==
    /\ Lists(at, FirstOf(g))
    /\ Len(opaques[g]) = Len(at)
    /\ \A n \in DOMAIN at : opaques[g][n].filed = frames[at[n]].args

(* No function or definition has opaques.                                  *)
OpenInv ==
    \A g \in Generic : IF Kind(g) = "struct" THEN \E at : OpenAt(g, at) ELSE opaques[g] = <<>>

(* OpenInv is inductive: the opaque that Create pops is that of its own    *)
(* frame.                                                                  *)
LEMMA OpenStep ==
    ASSUME FramesInv, FilesInv, OpenInv, [Next]_vars
    PROVE  OpenInv'
<1> SUFFICES ASSUME NEW g \in Generic
             PROVE  (IF Kind(g) = "struct" THEN \E at : OpenAt(g, at) ELSE opaques[g] = <<>>)'
    BY DEF OpenInv
<1>1. Kind(g)' = Kind(g) <=> program'[g].kind = program[g].kind
    BY DEF Kind
<1>2. program' = program
    BY Steps DEF Stays, FindDone, BeginDone, CreateDone, FinishDone
<1>3. CASE Kind(g) # "struct"
    <2>1. opaques[g] = <<>>
        BY <1>3 DEF OpenInv
    <2>2. opaques'[g] = opaques[g]
        BY <1>3, Steps DEF Stays, FindDone, BeginDone, CreateDone, FinishDone, FilesInv
    <2> QED
        BY <1>1, <1>2, <1>3, <2>1, <2>2
<1>4. CASE Kind(g) = "struct"
    <2>0. SUFFICES \E at : OpenAt(g, at)'
        BY <1>1, <1>2, <1>4
    <2>1. PICK at : OpenAt(g, at)
        BY <1>4 DEF OpenInv
    <2>2. \A n \in DOMAIN at : at[n] \in FirstOf(g) /\ at[n] \in FramesOf(g)
        BY <2>1 DEF OpenAt, Lists, FirstOf
    <2>3. IsSeq(opaques[g]) /\ DOMAIN opaques = Generic
        BY DEF FilesInv
    <2>4. ASSUME FirstOf(g)' = FirstOf(g), opaques'[g] = opaques[g],
                 \A k \in FirstOf(g) : frames'[k].args = frames[k].args
          PROVE  OpenAt(g, at)'
        BY <2>1, <2>2, <2>4 DEF OpenAt
    <2>5. CASE FindDone \/ Stays
        <3>1. opaques'[g] = opaques[g]
            BY <2>5 DEF FindDone, Stays
        <3> QED
            BY <2>4, <2>5, <3>1, FindSets DEF FirstOf
    <2>6. CASE BeginDone
        <3>1. CASE g # Use.of
            <4>1. opaques'[g] = opaques[g]
                BY <2>3, <2>6, <3>1 DEF BeginDone
            <4>2. FirstOf(g)' = FirstOf(g) /\ \A k \in FramesOf(g) : frames'[k] = frames[k]
                BY <2>6, <3>1, BeginSets
            <4> QED
                BY <2>4, <4>1, <4>2 DEF FirstOf
        <3>2. CASE g = Use.of
            <4> DEFINE full == Full(Use, toFill(Use))
                       new == Len(frames) + 1
                       more == Append(at, new)
                       e == [filed |-> full, generics |-> full]
            <4>1. opaques' = [opaques EXCEPT ![g] = Append(opaques[g], e)]
                BY <1>4, <2>6, <3>2 DEF BeginDone
            <4>2. /\ FirstOf(g)' = FirstOf(g) \cup {new} /\ new \in Nat
                  /\ \A k \in FirstOf(g) : k < new
                  /\ \A k \in FirstOf(g) : frames'[k] = frames[k]
                  /\ frames'[new].args = full
                BY <2>6, <3>2, BeginSets DEF FirstOf
            <4>3. e.filed = full
                OBVIOUS
            <4> HIDE DEF full, new, e
            <4>4. /\ Lists(more, FirstOf(g) \cup {new})
                  /\ Len(more) = Len(at) + 1 /\ DOMAIN more = 1 .. Len(at) + 1
                  /\ \A n \in 1 .. Len(at) : more[n] = at[n]
                  /\ more[Len(at) + 1] = new
                  /\ Len(at) \in Nat /\ DOMAIN at = 1 .. Len(at)
                BY <2>1, <4>2, ListsGrow DEF OpenAt
            <4>5. opaques'[g] = Append(opaques[g], e)
                BY <2>3, <4>1
            <4>6. /\ Len(opaques'[g]) = Len(at) + 1
                  /\ \A n \in 1 .. Len(at) : opaques'[g][n] = opaques[g][n]
                  /\ opaques'[g][Len(at) + 1] = e
                BY <2>1, <2>3, <4>5, AppendAny DEF OpenAt
            <4> HIDE DEF more
            <4>7. ASSUME NEW n \in DOMAIN more
                  PROVE  opaques'[g][n].filed = frames'[more[n]].args
                <5>1. CASE n = Len(at) + 1
                    BY <4>2, <4>3, <4>4, <4>6, <5>1
                <5>2. CASE n # Len(at) + 1
                    <6>1. n \in 1 .. Len(at) /\ n \in DOMAIN at
                        BY <4>4, <5>2
                    <6>2. frames'[at[n]] = frames[at[n]] /\ opaques[g][n].filed = frames[at[n]].args
                        BY <2>1, <2>2, <4>2, <6>1 DEF OpenAt
                    <6> QED
                        BY <4>4, <4>6, <6>1, <6>2
                <5> QED
                    BY <5>1, <5>2
            <4>8. PICK longer : longer = more
                OBVIOUS
            <4>9. OpenAt(g, longer)'
                BY <4>2, <4>4, <4>6, <4>7, <4>8 DEF OpenAt
            <4> QED
                BY <4>9
        <3> QED
            BY <3>1, <3>2
    <2>7. CASE CreateDone
        <3>1. CASE g # Top.of
            <4>1. opaques'[g] = opaques[g]
                BY <2>3, <2>7, <3>1 DEF CreateDone
            <4>2. FirstOf(g)' = FirstOf(g) /\ \A k \in FramesOf(g) : frames'[k].args = frames[k].args
                BY <2>7, <3>1, CreateSets
            <4> QED
                BY <2>4, <4>1, <4>2 DEF FirstOf
        <3>2. CASE g = Top.of
            <4> DEFINE last == Len(frames)
                       less == Front(at)
            <4>1. opaques' = [opaques EXCEPT ![g] = Front(opaques[g])]
                BY <1>4, <2>7, <3>2 DEF CreateDone
            <4>2. /\ FirstOf(g)' = FirstOf(g) \ {last} /\ last \in FirstOf(g)
                  /\ \A k \in FirstOf(g) : k <= last
                  /\ \A k \in FirstOf(g) : frames'[k].args = frames[k].args
                BY <2>7, <3>2, CreateSets DEF FirstOf
            <4> HIDE DEF last
            <4>3. /\ Lists(less, FirstOf(g) \ {last})
                  /\ Len(at) \in Nat \ {0} /\ DOMAIN at = 1 .. Len(at)
                  /\ Len(less) = Len(at) - 1 /\ DOMAIN less = 1 .. Len(at) - 1
                  /\ \A n \in 1 .. Len(at) - 1 : less[n] = at[n]
                BY <2>1, <4>2, ListsShrink DEF OpenAt
            <4>4. opaques'[g] = Front(opaques[g])
                BY <2>3, <4>1
            <4>5. Len(opaques[g]) = Len(at) /\ Len(opaques[g]) # 0
                BY <2>1, <4>3 DEF OpenAt
            <4>6. /\ Len(opaques'[g]) = Len(at) - 1
                  /\ \A n \in 1 .. Len(at) - 1 : opaques'[g][n] = opaques[g][n]
                BY <2>3, <4>4, <4>5, FrontAny
            <4> HIDE DEF less
            <4>7. ASSUME NEW n \in DOMAIN less
                  PROVE  opaques'[g][n].filed = frames'[less[n]].args
                <5>1. n \in 1 .. Len(at) - 1 /\ n \in DOMAIN at
                    BY <4>3
                <5>2. frames'[at[n]].args = frames[at[n]].args /\ opaques[g][n].filed = frames[at[n]].args
                    BY <2>1, <2>2, <4>2, <5>1 DEF OpenAt
                <5> QED
                    BY <4>3, <4>6, <5>1, <5>2
            <4>8. OpenAt(g, less)'
                BY <4>2, <4>3, <4>6, <4>7 DEF OpenAt
            <4> QED
                BY <4>8
        <3> QED
            BY <3>1, <3>2
    <2>8. CASE FinishDone
        <3>1. opaques'[g] = opaques[g]
            BY <2>8 DEF FinishDone
        <3>2. FirstOf(g)' = FirstOf(g)
            BY <2>8, FinishSets
        <3>3. \A k \in FirstOf(g) : frames'[k].args = frames[k].args
            <4>1. \A k \in FirstOf(g) : k # Len(frames)
                BY <2>8, TopFacts DEF FirstOf, FinishDone
            <4> QED
                BY <2>8, <4>1, FinishSets DEF FirstOf
        <3> QED
            BY <2>4, <3>1, <3>2, <3>3
    <2> QED
        BY <2>5, <2>6, <2>7, <2>8, Steps
<1> QED
    BY <1>3, <1>4

(* The opaque that is filed last is that of the topmost frame.             *)
LEMMA OpenLast ==
    ASSUME FramesInv, FilesInv, OpenInv, CreateDone, Kind(Top.of) = "struct"
    PROVE  /\ Len(opaques[Top.of]) # 0
           /\ opaques[Top.of][Len(opaques[Top.of])].filed = Top.args
           /\ Made.filed = Top.args
<1>1. PICK at : OpenAt(Top.of, at)
    BY CreateSets DEF OpenInv
<1>2. /\ Len(frames) \in FirstOf(Top.of) /\ \A k \in FirstOf(Top.of) : k <= Len(frames)
      /\ Top = frames[Len(frames)]
    BY CreateSets, TopFacts DEF FirstOf
<1>3. Len(at) \in Nat \ {0} /\ DOMAIN at = 1 .. Len(at) /\ at[Len(at)] = Len(frames)
    <2>1. PICK S : S = FirstOf(Top.of) /\ Lists(at, S)
        BY <1>1 DEF OpenAt
    <2>2. PICK last : last = Len(frames) /\ last \in S /\ \A j \in S : j <= last
        BY <1>2, <2>1
    <2>3. Len(at) \in Nat \ {0} /\ DOMAIN at = 1 .. Len(at) /\ at[Len(at)] = last
        BY ONLY <2>1, <2>2, ListsShrink
    <2> QED
        BY <2>2, <2>3
<1>4. Len(at) \in DOMAIN at
    BY <1>3
<1> QED
    BY <1>1, <1>2, <1>3, <1>4 DEF OpenAt, Made

-----------------------------------------------------------------------------
(* The variants of a struct, made or getting made, differ; each is named.  *)
NamedOnce(g) ==
    /\ Differ(variants[g]) /\ Differ(opaques[g]) /\ Apart(variants[g], opaques[g])
    /\ \A k \in DOMAIN variants[g] : variants[g][k].filed \in names[g]
    /\ \A k \in DOMAIN opaques[g] : opaques[g][k].filed \in names[g]

NamesInv ==
    /\ DOMAIN names = Generic
    /\ \A g \in Generic : Kind(g) = "struct" => NamedOnce(g)

(* NamesInv is inductive: the name that is new, and the opaque that        *)
(* becomes the type.                                                       *)
LEMMA NamesStep ==
    ASSUME FramesInv, FilesInv, OpenInv, NamesInv, [Next]_vars
    PROVE  NamesInv'
<1>1. program' = program
    BY Steps DEF Stays, FindDone, BeginDone, CreateDone, FinishDone
<1>2. DOMAIN names' = Generic
    BY Steps DEF Stays, FindDone, BeginDone, CreateDone, FinishDone, NamesInv
<1> SUFFICES ASSUME NEW g \in Generic, Kind(g) = "struct"
             PROVE  NamedOnce(g)'
    BY <1>1, <1>2 DEF NamesInv, Kind
<1>3. NamedOnce(g) /\ IsSeq(variants[g]) /\ IsSeq(opaques[g])
    BY DEF NamesInv, FilesInv
<1>4. ASSUME variants'[g] = variants[g], opaques'[g] = opaques[g], names'[g] = names[g]
      PROVE  NamedOnce(g)'
    BY <1>3, <1>4 DEF NamedOnce
<1>5. CASE FindDone \/ Stays
    BY <1>4, <1>5 DEF FindDone, Stays
<1>6. CASE BeginDone
    <2>1. variants'[g] = variants[g]
        BY <1>6 DEF BeginDone
    <2>2. CASE g # Use.of
        BY <1>4, <1>6, <2>1, <2>2 DEF BeginDone, FilesInv, NamesInv
    <2>3. CASE g = Use.of
        <3> DEFINE full == Full(Use, toFill(Use))
                   e == [filed |-> full, generics |-> full]
        <3>1. /\ opaques' = [opaques EXCEPT ![g] = Append(opaques[g], e)]
              /\ names' = [names EXCEPT ![g] = names[g] \cup {full}]
              /\ full \notin names[g]
            BY <1>6, <2>3 DEF BeginDone
        <3>2. e.filed = full
            OBVIOUS
        <3> HIDE DEF full, e
        <3>3. opaques'[g] = Append(opaques[g], e) /\ names'[g] = names[g] \cup {full}
            BY <3>1 DEF FilesInv, NamesInv
        <3>4. NotIn(e.filed, variants[g]) /\ NotIn(e.filed, opaques[g])
            BY <1>3, <3>1, <3>2 DEF NamedOnce, NotIn
        <3>5. Differ(opaques'[g])
            BY <1>3, <3>3, <3>4, FiledMore DEF NamedOnce
        <3>6. \A k \in DOMAIN opaques'[g] : opaques'[g][k] = e \/ \E l \in DOMAIN opaques[g] : opaques'[g][k] = opaques[g][l]
            BY <1>3, <3>3, AppendAny, SeqFacts
        <3>7. Apart(variants[g], opaques'[g])
            BY <1>3, <3>4, <3>6 DEF NamedOnce, Apart, NotIn
        <3>8. \A k \in DOMAIN opaques'[g] : opaques'[g][k].filed \in names'[g]
            BY <1>3, <3>2, <3>3, <3>6 DEF NamedOnce
        <3>9. \A k \in DOMAIN variants[g] : variants[g][k].filed \in names'[g]
            BY <1>3, <3>3 DEF NamedOnce
        <3> QED
            BY <1>3, <2>1, <3>5, <3>7, <3>8, <3>9 DEF NamedOnce
    <2> QED
        BY <2>2, <2>3
<1>7. CASE CreateDone
    <2>1. names'[g] = names[g]
        BY <1>7 DEF CreateDone
    <2>2. CASE g # Top.of
        BY <1>4, <1>7, <2>1, <2>2 DEF CreateDone, FilesInv
    <2>3. CASE g = Top.of
        <3>1. /\ variants' = [variants EXCEPT ![g] = Append(variants[g], Made)]
              /\ opaques' = [opaques EXCEPT ![g] = Front(opaques[g])]
            BY <1>7, <2>3 DEF CreateDone
        <3>2. variants'[g] = Append(variants[g], Made) /\ opaques'[g] = Front(opaques[g])
            BY <3>1 DEF FilesInv
        <3>3. /\ Len(opaques[g]) # 0 /\ opaques[g][Len(opaques[g])].filed = Made.filed
              /\ Len(opaques[g]) \in DOMAIN opaques[g]
            BY <1>3, <1>7, <2>3, OpenLast, SeqFacts
        <3>4. NotIn(Made.filed, variants[g])
            BY <1>3, <3>3 DEF NamedOnce, NotIn, Apart
        <3>5. Differ(variants'[g])
            BY <1>3, <3>2, <3>4, FiledMore DEF NamedOnce
        <3>6. Differ(opaques'[g]) /\ NotIn(Made.filed, opaques'[g])
            BY <1>3, <3>2, <3>3, FiledLess DEF NamedOnce
        <3>7. \A k \in DOMAIN opaques'[g] : \E l \in DOMAIN opaques[g] : opaques'[g][k] = opaques[g][l]
            <4>1. /\ DOMAIN opaques[g] = 1 .. Len(opaques[g]) /\ Len(opaques[g]) \in Nat
                  /\ DOMAIN Front(opaques[g]) = 1 .. Len(opaques[g]) - 1
                  /\ \A i \in 1 .. Len(opaques[g]) - 1 : Front(opaques[g])[i] = opaques[g][i]
                BY <1>3, <3>3, FrontAny, SeqFacts
            <4>2. \A i \in 1 .. Len(opaques[g]) - 1 : i \in DOMAIN opaques[g]
                BY <4>1
            <4> QED
                BY <3>2, <4>1, <4>2
        <3>8. \A k \in DOMAIN variants'[g] : variants'[g][k] = Made \/ \E l \in DOMAIN variants[g] : variants'[g][k] = variants[g][l]
            BY <1>3, <3>2, AppendAny, SeqFacts
        <3>9. Apart(variants'[g], opaques'[g])
            BY <1>3, <3>6, <3>7, <3>8 DEF NamedOnce, Apart, NotIn
        <3>10. \A k \in DOMAIN opaques'[g] : opaques'[g][k].filed \in names'[g]
            BY <1>3, <2>1, <3>7 DEF NamedOnce
        <3>11. \A k \in DOMAIN variants'[g] : variants'[g][k].filed \in names'[g]
            BY <1>3, <2>1, <3>3, <3>8 DEF NamedOnce
        <3> QED
            BY <3>5, <3>6, <3>9, <3>10, <3>11 DEF NamedOnce
    <2> QED
        BY <2>2, <2>3
<1>8. CASE FinishDone
    <2>1. opaques'[g] = opaques[g] /\ names'[g] = names[g]
        BY <1>8 DEF FinishDone
    <2>2. variants'[g] = variants[g]
        BY <1>8 DEF FinishDone, FilesInv
    <2> QED
        BY <1>4, <2>1, <2>2
<1> QED
    BY <1>5, <1>6, <1>7, <1>8, Steps

-----------------------------------------------------------------------------
(* What a frame asks for, what that asks for, and so on.                   *)
ClosedFrom(d, reached) ==
    /\ reached \in SUBSET Generic
    /\ \A h \in Generic : AsksFor(d, h) \/ (\E r \in reached : AsksFor(r, h)) => h \in reached

(* A frame gets to all that are above it: the lowest it does not get to is *)
(* asked for by one that it does.                                          *)
LEMMA ChainReaches ==
    ASSUME FramesInv, NEW k \in 1 .. Len(frames), NEW reached, ClosedFrom(frames[k].of, reached),
           NEW m \in (k + 1) .. Len(frames)
    PROVE  frames[m].of \in reached
<1>1. Len(frames) \in Nat
    BY TopFacts
<1> DEFINE missed == {j \in (k + 1) .. Len(frames) : frames[j].of \notin reached}
<1> SUFFICES ASSUME missed # {} PROVE FALSE
    OBVIOUS
<1>2. missed \subseteq Nat
    BY <1>1
<1> DEFINE j == Min(missed)
<1>3. j \in missed /\ \A i \in missed : j =< i
    BY <1>2, MinIsMember
<1> HIDE DEF j
<1>4. /\ j \in (k + 1) .. Len(frames) /\ frames[j].of \notin reached
      /\ j - 1 \in k .. Len(frames) - 1 /\ j - 1 \in 1 .. Len(frames) - 1 /\ (j - 1) + 1 = j
      /\ j \in 2 .. Len(frames)
    BY <1>1, <1>3
<1>5. AsksFor(frames[j - 1].of, frames[j].of) /\ frames[j].of \in Generic
    BY <1>4 DEF FramesInv
<1>6. CASE j - 1 = k
    BY <1>4, <1>5, <1>6 DEF ClosedFrom
<1>7. CASE j - 1 # k
    <2>1. j - 1 \in (k + 1) .. Len(frames) /\ ~(j =< j - 1)
        BY <1>1, <1>4, <1>7
    <2>2. j - 1 \notin missed
        BY <1>3, <2>1
    <2>3. frames[j - 1].of \in reached
        BY <2>1, <2>2
    <2> QED
        BY <1>4, <1>5, <2>3 DEF ClosedFrom
<1> QED
    BY <1>6, <1>7

(* A generic that is asked for while it is made gets back to itself.       *)
LEMMA AskedWithinReaches ==
    ASSUME FramesInv, Asking, NEW k \in FramesOf(Use.of)
    PROVE  Reaches(Use.of, Use.of)
<1>1. /\ Len(frames) \in Nat \ {0} /\ k \in 2 .. Len(frames) /\ frames[k].of = Use.of
      /\ Top = frames[Len(frames)] /\ AsksFor(Top.of, Use.of) /\ Use.of \in Generic
    BY TopFacts, UseFacts DEF FramesOf
<1> SUFFICES ASSUME NEW reached \in SUBSET Generic, ClosedFrom(Use.of, reached)
             PROVE  Use.of \in reached
    BY DEF Reaches, ClosedFrom
<1>2. CASE k = Len(frames)
    BY <1>1, <1>2 DEF ClosedFrom
<1>3. CASE k # Len(frames)
    <2>1. k \in 1 .. Len(frames) /\ Len(frames) \in (k + 1) .. Len(frames)
        BY <1>1, <1>3
    <2>2. frames[Len(frames)].of \in reached
        BY <1>1, <2>1, ChainReaches
    <2> QED
        BY <1>1, <2>2 DEF ClosedFrom
<1> QED
    BY <1>2, <1>3

(* The values of a function or definition that is made are its own, and    *)
(* its arguments are not those of a variant that is finished.  One that    *)
(* was not given its arguments has no values, and never gets finished.     *)
OnceAt(g) ==
    \/ FramesOf(g) = {} /\ \A i \in Params(g) : values[g][i] = <<>>
    \/ \E k \in FramesOf(g) :
          /\ FramesOf(g) = {k}
          /\ \A i \in Params(g) : Len(values[g][i]) <= 1
          /\ (\E i \in Params(g) : values[g][i] = <<>>) \/ NotIn(frames[k].args, variants[g])

OnceInv ==
    \A g \in Generic : \/ Kind(g) = "struct" \/ Reaches(g, g)
                       \/ Differ(variants[g]) /\ OnceAt(g)

(* OnceInv is inductive: two frames of a generic would mean that it gets   *)
(* back to itself.                                                         *)
LEMMA OnceStep ==
    ASSUME FramesInv, FilesInv, OpenInv, OnceInv, [Next]_vars
    PROVE  OnceInv'
<1>1. program' = program
    BY Steps DEF Stays, FindDone, BeginDone, CreateDone, FinishDone
<1> SUFFICES ASSUME NEW g \in Generic, Kind(g) # "struct", ~Reaches(g, g)
             PROVE  (Differ(variants[g]) /\ OnceAt(g))'
    BY <1>1 DEF OnceInv, Kind, Reaches, AsksFor, UsesOf
<1>2. /\ Differ(variants[g]) /\ OnceAt(g) /\ IsSeq(variants[g]) /\ DOMAIN variants = Generic
      /\ opaques[g] = <<>> /\ DOMAIN values = Generic
      /\ \A i \in Params(g) : IsSeq(values[g][i])
    BY DEF OnceInv, FilesInv, OpenInv
<1>3. Params(g)' = Params(g) /\ Params(g) # {}
    BY <1>1, ProgramFacts DEF Params, FramesInv
<1>4. ASSUME FramesOf(g)' = FramesOf(g), variants'[g] = variants[g], values'[g] = values[g],
             \A k \in FramesOf(g) : frames'[k].args = frames[k].args
      PROVE  (Differ(variants[g]) /\ OnceAt(g))'
    BY <1>2, <1>3, <1>4 DEF OnceAt
<1>5. CASE FindDone \/ Stays
    BY <1>4, <1>5, FindSets DEF FindDone, Stays
<1>6. CASE BeginDone
    <2>1. variants' = variants
        BY <1>6 DEF BeginDone
    <2>2. CASE g # Use.of
        <3>1. values'[g] = values[g]
            BY <1>2, <1>6, <2>2 DEF BeginDone
        <3>2. FramesOf(g)' = FramesOf(g) /\ \A k \in FramesOf(g) : frames'[k] = frames[k]
            BY <1>6, <2>2, BeginSets
        <3> QED
            BY <1>4, <2>1, <3>1, <3>2
    <2>3. CASE g = Use.of
        <3> DEFINE new == Len(frames) + 1
                   list == toFill(Use)
                   full == Full(Use, toFill(Use))
        <3>1. FramesOf(g) = {}
            BY <1>6, <2>3, AskedWithinReaches DEF BeginDone
        <3>2. \A i \in Params(g) : values[g][i] = <<>>
            BY <1>2, <3>1 DEF OnceAt
        <3>3. FramesOf(g)' = {new} /\ frames'[new].args = full
            BY <1>6, <2>3, <3>1, BeginSets
        <3>4. values'[g] = IF list = <<>> THEN values[g]
                           ELSE [i \in Params(g) |-> Append(values[g][i], full[i])]
            BY <1>2, <1>6, <2>3 DEF BeginDone
        <3>5. NotMade(Use, list) /\ (list # <<>> => full = list)
            BY <1>6 DEF BeginDone, Full
        <3>6. NotIn(list, variants[g])
            <4>1. Found(<<>> \o variants[g], list) = {}
                BY <1>2, <2>3, <3>5 DEF NotMade
            <4>2. <<>> \o variants[g] = variants[g]
                BY <1>2 DEF IsSeq
            <4> QED
                BY <4>1, <4>2 DEF Found, NotIn
        <3> HIDE DEF new, list, full
        <3>7. CASE list = <<>>
            <4>1. values'[g] = values[g]
                BY <3>4, <3>7
            <4>2. \A i \in Params(g) : Len(values'[g][i]) <= 1
                BY <3>2, <4>1, EmptyIsSeq
            <4>3. \E i \in Params(g) : values'[g][i] = <<>>
                BY <1>3, <3>2, <4>1
            <4> QED
                BY <1>2, <1>3, <2>1, <3>3, <4>2, <4>3 DEF OnceAt
        <3>8. CASE list # <<>>
            <4>1. \A i \in Params(g) : values'[g][i] = Append(values[g][i], full[i])
                BY <3>4, <3>8
            <4>2. ASSUME NEW i \in Params(g) PROVE Len(values'[g][i]) <= 1
                <5>1. Len(values'[g][i]) = Len(values[g][i]) + 1
                    BY <1>2, <4>1, AppendAny
                <5>2. Len(values[g][i]) = 0
                    BY <3>2, EmptyIsSeq
                <5> QED
                    BY <5>1, <5>2
            <4>3. NotIn(frames'[new].args, variants'[g])
                BY <2>1, <3>3, <3>5, <3>6, <3>8
            <4> QED
                BY <1>2, <1>3, <2>1, <3>3, <4>2, <4>3 DEF OnceAt
        <3> QED
            BY <3>7, <3>8
    <2> QED
        BY <2>2, <2>3
<1>7. CASE CreateDone
    <2>1. variants'[g] = variants[g] /\ values' = values
        BY <1>2, <1>7 DEF CreateDone
    <2> QED
        BY <1>4, <1>7, <2>1, CreateSets
<1>8. CASE FinishDone
    <2>1. CASE g # Top.of
        <3>1. variants'[g] = variants[g] /\ values'[g] = values[g]
            BY <1>2, <1>8, <2>1 DEF FinishDone
        <3>2. \A k \in FramesOf(g) : k # Len(frames)
            BY <2>1, TopFacts DEF FramesOf
        <3> QED
            BY <1>4, <1>8, <2>1, <3>1, <3>2, FinishSets
    <2>2. CASE g = Top.of
        <3> DEFINE last == Len(frames)
                   e == [filed |-> Top.args, generics |-> Top.generics]
        <3>1. FramesOf(g)' = FramesOf(g) \ {last} /\ last \in FramesOf(g)
            BY <1>8, <2>2, FinishSets
        <3>2. /\ values' = [values EXCEPT ![g] = [i \in Params(g) |-> Front(values[g][i])]]
              /\ variants' = [variants EXCEPT ![g] = Append(variants[g], e)]
              /\ \A i \in Params(g) : values[g][i] # <<>>
              /\ Top.args = frames[last].args
            BY <1>8, <2>2, TopFacts DEF FinishDone
        <3>3. e.filed = Top.args
            OBVIOUS
        <3> HIDE DEF last, e
        <3>4. /\ FramesOf(g) = {last} /\ \A i \in Params(g) : Len(values[g][i]) <= 1
              /\ NotIn(Top.args, variants[g])
            BY <1>2, <3>1, <3>2 DEF OnceAt
        <3>5. variants'[g] = Append(variants[g], e)
              /\ \A i \in Params(g) : values'[g][i] = Front(values[g][i])
            BY <1>2, <3>2
        <3>6. Differ(variants'[g])
            BY <1>2, <3>3, <3>4, <3>5, FiledMore
        <3>7. ASSUME NEW i \in Params(g) PROVE values'[g][i] = <<>>
            <4> DEFINE s == values[g][i]
                       n == Len(s)
            <4>1. IsSeq(s) /\ n \in Nat /\ n # 0 /\ n <= 1
                BY <1>2, <3>2, <3>4, SeqFacts
            <4>2. n = 1
                <5> HIDE DEF n
                <5> QED
                    BY <4>1
            <4>3. IsSeq(Front(s)) /\ Len(Front(s)) = 0
                <5> HIDE DEF s
                <5>1. IsSeq(Front(s)) /\ Len(Front(s)) = n - 1
                    BY <4>1, FrontAny
                <5> QED
                    BY <4>2, <5>1
            <4> QED
                BY <3>5, <4>3, SeqFacts
        <3>8. FramesOf(g)' = {}
            BY <3>1, <3>4
        <3> QED
            BY <1>3, <3>6, <3>7, <3>8 DEF OnceAt
    <2> QED
        BY <2>1, <2>2
<1> QED
    BY <1>5, <1>6, <1>7, <1>8, Steps

-----------------------------------------------------------------------------
(* There is the frame of Main alone.                                       *)
LEMMA InitFrames ==
    ASSUME Init
    PROVE  FramesInv /\ Len(frames) = 1 /\ \A g : FramesOf(g) = {} /\ FirstOf(g) = {}
<1> DEFINE f == Frame(Main, <<>>, <<>>)
           a == "later"
           m == [f EXCEPT !.at = a]
<1>1. frames = <<m>> /\ program \in Programs
    BY DEF Init
<1>2. IsFrame(f) /\ f.of = Main /\ f.next = 1
    BY DEF IsFrame, Frame
<1>3. m = [of |-> f.of, args |-> f.args, meant |-> f.meant, at |-> a, next |-> f.next,
           generics |-> f.generics]
    BY DEF Frame
<1>4. IsFrame(m) /\ m.of = Main /\ m.next = 1 /\ m.at = "later"
    BY <1>2, <1>3 DEF IsFrame
<1> HIDE DEF f, m
<1>5. frames \in Seq({m}) /\ Len(frames) = 1 /\ frames[1] = m
    BY <1>1
<1>6. IsSeq(frames) /\ DOMAIN frames = 1 .. 1
    BY <1>5, SeqOfIsSeq, LenProperties
<1>7. 2 .. Len(frames) = {} /\ 1 .. Len(frames) - 1 = {} /\ 1 .. 1 = {1}
    BY <1>5
<1> QED
    BY <1>1, <1>4, <1>5, <1>6, <1>7 DEF FramesInv, FramesOf, FirstOf

(* Nothing is made.                                                        *)
LEMMA InitFiles ==
    ASSUME Init
    PROVE  FilesInv /\ OpenInv /\ NamesInv /\ OnceInv
<1>1. /\ \A g \in Generic : variants[g] = <<>> /\ opaques[g] = <<>> /\ names[g] = {}
      /\ \A g \in Generic : values[g] = [i \in Params(g) |-> <<>>]
      /\ DOMAIN variants = Generic /\ DOMAIN opaques = Generic /\ DOMAIN names = Generic
      /\ DOMAIN values = Generic
    BY DEF Init
<1>2. \A g : FramesOf(g) = {} /\ FirstOf(g) = {}
    BY InitFrames
<1>3. IsSeq(<<>>) /\ DOMAIN <<>> = {} /\ Len(<<>>) = 0
    BY EmptyIsSeq
<1>4. FilesInv
    BY <1>1, <1>3 DEF FilesInv
<1>5. OpenInv
    <2>1. ASSUME NEW g \in Generic PROVE OpenAt(g, <<>>)
        BY <1>1, <1>2, <1>3, ListsNone DEF OpenAt
    <2> QED
        BY <1>1, <2>1 DEF OpenInv
<1>6. NamesInv
    BY <1>1, <1>3 DEF NamesInv, NamedOnce, Differ, Apart
<1>7. OnceInv
    BY <1>1, <1>2, <1>3 DEF OnceInv, OnceAt, Differ
<1> QED
    BY <1>4, <1>5, <1>6, <1>7

(* Variants and opaques that differ, put one after the other.              *)
LEMMA OnceIsInjective ==
    ASSUME NEW s, NEW t, IsSeq(s), IsSeq(t), Differ(s), Differ(t), Apart(s, t)
    PROVE  IsInjective([k \in DOMAIN (s \o t) |-> (s \o t)[k].filed])
<1> DEFINE c == s \o t
<1>1. /\ Len(s) \in Nat /\ DOMAIN s = 1 .. Len(s) /\ Len(t) \in Nat /\ DOMAIN t = 1 .. Len(t)
      /\ DOMAIN c = 1 .. Len(s) + Len(t)
      /\ \A i \in 1 .. Len(s) + Len(t) : c[i] = IF i <= Len(s) THEN s[i] ELSE t[i - Len(s)]
    BY SeqFacts, ConcatAny
<1> HIDE DEF c
<1>2. SUFFICES ASSUME NEW k \in DOMAIN c, NEW l \in DOMAIN c, c[k].filed = c[l].filed
               PROVE  k = l
    BY DEF IsInjective, c
<1>3. CASE k <= Len(s) /\ l <= Len(s)
    <2>1. k \in DOMAIN s /\ l \in DOMAIN s /\ c[k] = s[k] /\ c[l] = s[l]
        BY <1>1, <1>3
    <2> QED
        BY <1>2, <2>1 DEF Differ
<1>4. CASE k <= Len(s) /\ ~(l <= Len(s))
    <2>1. k \in DOMAIN s /\ l - Len(s) \in DOMAIN t /\ c[k] = s[k] /\ c[l] = t[l - Len(s)]
        BY <1>1, <1>4
    <2> QED
        BY <1>2, <2>1 DEF Apart
<1>5. CASE ~(k <= Len(s)) /\ l <= Len(s)
    <2>1. l \in DOMAIN s /\ k - Len(s) \in DOMAIN t /\ c[l] = s[l] /\ c[k] = t[k - Len(s)]
        BY <1>1, <1>5
    <2> QED
        BY <1>2, <2>1 DEF Apart
<1>6. CASE ~(k <= Len(s)) /\ ~(l <= Len(s))
    <2>1. /\ k - Len(s) \in DOMAIN t /\ l - Len(s) \in DOMAIN t
          /\ c[k] = t[k - Len(s)] /\ c[l] = t[l - Len(s)]
        BY <1>1, <1>6
    <2>2. k - Len(s) = l - Len(s)
        BY <1>2, <2>1 DEF Differ
    <2> QED
        BY <1>1, <2>2
<1> QED
    BY <1>3, <1>4, <1>5, <1>6

(* The invariant that holds of all programs.                               *)
LEMMA OnceInvariant == Spec => [](FramesInv /\ FilesInv /\ OpenInv /\ NamesInv /\ OnceInv)
<1> DEFINE Inv == FramesInv /\ FilesInv /\ OpenInv /\ NamesInv /\ OnceInv
<1>1. Init => Inv
    BY InitFrames, InitFiles
<1>2. Inv /\ [Next]_vars => Inv'
    BY FramesStep, FilesStep, OpenStep, NamesStep, OnceStep
<1> QED
    BY <1>1, <1>2, PTL DEF Spec

(* Whatever the program, no variant of a struct is made a second time, and *)
(* no variant of a function or definition that does not get back to        *)
(* itself: fill_generics looks through opaqueVariants and variants under   *)
(* the list it is given, and a list that was left out ends the compilation *)
(* before its variant is filed.                                            *)
THEOREM VariantsAreMadeOnce == Spec => []MadeOnce
<1>1. ASSUME FramesInv, FilesInv, OpenInv, NamesInv, OnceInv
      PROVE  MadeOnce
    <2> SUFFICES ASSUME NEW g \in Generic, Kind(g) = "struct" \/ ~Reaches(g, g)
                 PROVE  IsInjective([k \in DOMAIN (variants[g] \o opaques[g]) |->
                                        (variants[g] \o opaques[g])[k].filed])
        BY DEF MadeOnce
    <2>1. IsSeq(variants[g]) /\ IsSeq(opaques[g])
        BY <1>1 DEF FilesInv
    <2>2. Differ(variants[g]) /\ Differ(opaques[g]) /\ Apart(variants[g], opaques[g])
        <3>1. CASE Kind(g) = "struct"
            BY <1>1, <3>1 DEF NamesInv, NamedOnce
        <3>2. CASE Kind(g) # "struct"
            <4>1. opaques[g] = <<>> /\ Differ(variants[g])
                BY <1>1, <3>2 DEF OpenInv, OnceInv
            <4>2. DOMAIN <<>> = {}
                OBVIOUS
            <4> QED
                BY <4>1, <4>2 DEF Differ, Apart
        <3> QED
            BY <3>1, <3>2
    <2> QED
        BY <2>1, <2>2, OnceIsInjective
<1> QED
    BY <1>1, OnceInvariant, PTL

-----------------------------------------------------------------------------
(* allActiveGenerics, from the frame above Main on.                        *)
ActiveInv ==
    /\ IsSeq(active) /\ Len(active) = Len(frames) - 1
    /\ \A k \in 1 .. Len(frames) - 1 : active[k].args = frames[k + 1].args

(* at: the frames of one generic, whose arguments its parameters hold.     *)
HeldAt(g, at) ==
    /\ Lists(at, FramesOf(g))
    /\ \A i \in Params(g) : /\ Len(values[g][i]) = Len(at)
                            /\ \A n \in DOMAIN at : values[g][i][n] = frames[at[n]].args[i]

HeldInv == \A g \in Generic : \E at : HeldAt(g, at)

(* Frames have the arguments that were meant, and so have all variants.    *)
MeantInv ==
    /\ \A k \in 2 .. Len(frames) :
          /\ frames[k].args = frames[k].meant /\ frames[k].generics = frames[k].args
          /\ frames[k].args = [i \in Params(frames[k].of) |-> frames[k].args[i]]
    /\ \A g \in Generic :
          /\ \A k \in DOMAIN variants[g] : variants[g][k].filed = variants[g][k].generics
          /\ \A k \in DOMAIN opaques[g] : opaques[g][k].filed = opaques[g][k].generics
    /\ answer # <<>> => answer.generics = answer.meant

(* What holds where no list of arguments is left out.                      *)
Given == FramesInv /\ FilesInv /\ ActiveInv /\ HeldInv /\ MeantInv /\ ~LeftOut

(* Of the values of a parameter the last is the argument of the topmost    *)
(* frame.                                                                  *)
LEMMA TopHeld ==
    ASSUME Given, NEW i \in Params(Top.of)
    PROVE  /\ values[Top.of][i] # <<>>
           /\ get_type(Top.of, i) = Top.args[i]
           /\ Top.of \in Generic /\ Len(frames) \in 2 .. Len(frames)
<1>1. /\ Len(frames) \in Nat \ {0} /\ Top = frames[Len(frames)] /\ Top.of \in Generic \cup {Main}
      /\ Top.of = Main <=> Len(frames) = 1
    BY TopFacts DEF Given
<1>2. Top.of # Main
    BY ProgramFacts DEF Given, FramesInv
<1>3. /\ Top.of \in Generic /\ Len(frames) \in 2 .. Len(frames) /\ Len(frames) \in FramesOf(Top.of)
      /\ \A k \in FramesOf(Top.of) : k <= Len(frames)
    <2>1. Top.of \in Generic /\ Len(frames) \in 2 .. Len(frames)
        <3>1. Top.of \in Generic /\ Len(frames) # 1
            BY <1>1, <1>2, Zenon
        <3>2. Len(frames) \in Nat \ {0}
            BY <1>1
        <3>3. \A n \in Nat \ {0} : n # 1 => n \in 2 .. n
            OBVIOUS
        <3> QED
            BY <3>1, <3>2, <3>3
    <2>2. Len(frames) \in FramesOf(Top.of)
        BY <1>1, <2>1 DEF FramesOf
    <2> QED
        BY <1>1, <2>1, <2>2 DEF FramesOf
<1>4. PICK at : HeldAt(Top.of, at)
    BY <1>3 DEF Given, HeldInv
<1>5. Len(at) \in Nat \ {0} /\ DOMAIN at = 1 .. Len(at) /\ at[Len(at)] = Len(frames)
    <2>1. PICK S : S = FramesOf(Top.of) /\ Lists(at, S)
        BY <1>4 DEF HeldAt
    <2>2. PICK last : last = Len(frames) /\ last \in S /\ \A j \in S : j <= last
        BY <1>3, <2>1
    <2>3. Len(at) \in Nat \ {0} /\ DOMAIN at = 1 .. Len(at) /\ at[Len(at)] = last
        BY ONLY <2>1, <2>2, ListsShrink
    <2> QED
        BY <2>2, <2>3
<1> DEFINE s == values[Top.of][i]
<1>6. Len(s) = Len(at) /\ \A n \in DOMAIN at : s[n] = frames[at[n]].args[i]
    BY <1>4 DEF HeldAt
<1>7. IsSeq(s)
    BY <1>3 DEF Given, FilesInv
<1> HIDE DEF s
<1>8. s # <<>> /\ s[Len(s)] = Top.args[i]
    <2>1. Len(at) \in DOMAIN at
        BY <1>5
    <2>2. s[Len(at)] = frames[Len(frames)].args[i]
        BY <1>5, <1>6, <2>1
    <2> QED
        BY <1>1, <1>5, <1>6, <1>7, <2>2, SeqFacts
<1> QED
    BY <1>3, <1>8 DEF s, get_type, Last

(* What toFill finds, in one of three ways, is what the use means.         *)
LEMMA FilledAsMeant ==
    ASSUME Given, Asking
    PROVE  /\ toFill(Use) = Meant(Use)
           /\ toFill(Use) # <<>> /\ Full(Use, toFill(Use)) = toFill(Use)
           /\ toFill(Use) = [i \in Params(Use.of) |-> toFill(Use)[i]]
<1>1. /\ Use \in UsesOf(Top.of) /\ LegalUse(program, Top.of, Use) /\ Use.of \in Generic
      /\ Use.args # <<>> => DOMAIN Use.args = Params(Use.of)
      /\ Use.args = <<>> <=> toFill(Use) = <<>>
    BY UseFacts DEF Given
<1>2. Top.of \in Generic \cup {Main}
    BY TopFacts DEF Given
<1>3. Use.args # <<>>
    BY <1>1, <1>2 DEF Given, LeftOut
<1>4. DOMAIN Use.args = Params(Use.of)
    BY <1>1, <1>3
<1> DEFINE fill(arg, i) == CASE arg.is = "type"    -> arg.type
                             [] arg.is = "name"    -> ByName(arg.param)
                             [] arg.is = "pointer" -> PointerTo(get_type(Top.of, arg.param))
                             [] arg.is = "default" -> program[Use.of].defaults[i]
           mean(arg, i) == CASE arg.is = "type"    -> arg.type
                             [] arg.is = "name"    -> Top.meant[arg.param]
                             [] arg.is = "pointer" -> PointerTo(Top.meant[arg.param])
                             [] arg.is = "default" -> program[Use.of].defaults[i]
<1>5. toFill(Use) = [i \in Params(Use.of) |-> fill(Use.args[i], i)]
    BY <1>4 DEF toFill
<1>6. Meant(Use) = [i \in Params(Use.of) |-> mean(Use.args[i], i)]
    <2>1. Meant(Use) = [i \in Params(Use.of) |->
                            IF Use.args = <<>> THEN program[Use.of].defaults[i]
                            ELSE mean(Use.args[i], i)]
        BY Zenon DEF Meant
    <2> HIDE DEF mean
    <2> QED
        BY <1>3, <2>1
<1>7. ASSUME NEW i \in Params(Use.of)
      PROVE  fill(Use.args[i], i) = mean(Use.args[i], i)
    <2> DEFINE arg == Use.args[i]
    <2>1. /\ arg.is \in {"type", "name", "pointer", "default"}
          /\ arg.is \in {"name", "pointer"} => arg.param \in Params(Top.of)
        BY <1>1, <1>4 DEF LegalUse, Params
    <2> HIDE DEF arg
    <2>2. ASSUME arg.is \in {"name", "pointer"}
          PROVE  /\ get_type(Top.of, arg.param) = Top.args[arg.param]
                 /\ Top.args = Top.meant /\ Top.generics = Top.meant
                 /\ ByName(arg.param) = Top.meant[arg.param]
        <3>1. /\ get_type(Top.of, arg.param) = Top.args[arg.param]
              /\ Len(frames) \in 2 .. Len(frames) /\ Top = frames[Len(frames)]
            BY <2>1, <2>2, TopHeld, TopFacts DEF Given
        <3>2. Top.args = Top.meant /\ Top.generics = Top.meant
            BY <3>1 DEF Given, MeantInv
        <3>3. Last(active).args = Top.args
            <4>1. /\ Len(frames) - 1 \in 1 .. Len(frames) - 1 /\ (Len(frames) - 1) + 1 = Len(frames)
                  /\ Len(active) = Len(frames) - 1
                BY <3>1 DEF Given, ActiveInv
            <4>2. active[Len(frames) - 1].args = frames[Len(frames)].args
                BY <4>1 DEF Given, ActiveInv
            <4> QED
                BY <3>1, <4>1, <4>2 DEF Last
        <3> QED
            BY <3>1, <3>2, <3>3 DEF ByName
    <2>3. CASE arg.is = "type"
        BY <2>3 DEF arg
    <2>4. CASE arg.is = "name"
        <3>1. ByName(arg.param) = Top.meant[arg.param]
            BY <2>2, <2>4
        <3> QED
            BY <2>4, <3>1 DEF arg
    <2>5. CASE arg.is = "pointer"
        <3>1. PointerTo(get_type(Top.of, arg.param)) = PointerTo(Top.meant[arg.param])
            BY <2>2, <2>5
        <3> QED
            BY <2>5, <3>1 DEF arg
    <2>6. CASE arg.is = "default"
        BY <2>6 DEF arg
    <2> QED
        BY <2>1, <2>3, <2>4, <2>5, <2>6
<1> HIDE DEF fill, mean
<1>8. toFill(Use) = Meant(Use)
    BY <1>5, <1>6, <1>7
<1>9. toFill(Use) = [i \in Params(Use.of) |-> toFill(Use)[i]]
    BY <1>5
<1> QED
    BY <1>1, <1>3, <1>8, <1>9 DEF Full

(* ActiveInv is inductive.                                                 *)
LEMMA ActiveStep ==
    ASSUME Given, [Next]_vars
    PROVE  ActiveInv'
<1>1. /\ IsSeq(active) /\ Len(active) = Len(frames) - 1 /\ Len(frames) \in Nat \ {0}
      /\ \A k \in 1 .. Len(frames) - 1 : active[k].args = frames[k + 1].args
    BY TopFacts DEF Given, ActiveInv
<1> DEFINE n == Len(frames)
<1>2. ASSUME active' = active, Len(frames') = n,
             \A k \in 1 .. n : frames'[k].args = frames[k].args
      PROVE  ActiveInv'
    <2>1. \A k \in 1 .. n - 1 : k + 1 \in 1 .. n
        BY <1>1
    <2> QED
        BY <1>1, <1>2, <2>1 DEF ActiveInv, IsSeq
<1>3. CASE Stays
    BY <1>2, <1>3 DEF Stays
<1>4. CASE FindDone
    BY <1>2, <1>4, FindFrames DEF FindDone, Given
<1>5. CASE CreateDone
    BY <1>2, <1>5, CreateFrames DEF CreateDone, Given
<1>6. CASE BeginDone
    <2> DEFINE full == Full(Use, toFill(Use))
               e == [of |-> Use.of, args |-> full]
    <2>1. active' = Append(active, e)
        BY <1>6 DEF BeginDone
    <2>2. e.args = full
        OBVIOUS
    <2>3. /\ Len(frames') = n + 1 /\ \A k \in 1 .. n : frames'[k] = frames[k]
          /\ frames'[n + 1].args = full
        BY <1>6, BeginFrames DEF Given
    <2> HIDE DEF e, full
    <2>4. /\ IsSeq(active') /\ Len(active') = n
          /\ \A k \in 1 .. n - 1 : active'[k] = active[k]
          /\ active'[n] = e
        <3>1. /\ IsSeq(active') /\ Len(active') = (n - 1) + 1
              /\ \A k \in 1 .. n - 1 : active'[k] = active[k]
              /\ active'[(n - 1) + 1] = e
            BY <1>1, <2>1, AppendAny
        <3> HIDE DEF n
        <3>2. (n - 1) + 1 = n
            BY <1>1 DEF n
        <3> QED
            BY <3>1, <3>2
    <2>5. ASSUME NEW k \in 1 .. n
          PROVE  active'[k].args = frames'[k + 1].args
        <3>1. CASE k = n
            BY <2>2, <2>3, <2>4, <3>1
        <3>2. CASE k # n
            <4>1. k \in 1 .. n - 1 /\ k + 1 \in 1 .. n
                BY <1>1, <3>2
            <4>2. active'[k] = active[k] /\ frames'[k + 1] = frames[k + 1]
                BY <2>3, <2>4, <4>1
            <4> QED
                BY <1>1, <4>1, <4>2
        <3> QED
            BY <3>1, <3>2
    <2>6. Len(frames') - 1 = n
        BY <1>1, <2>3
    <2> QED
        BY <2>4, <2>5, <2>6 DEF ActiveInv, IsSeq
<1>7. CASE FinishDone
    <2>1. /\ n - 1 \in Nat \ {0} /\ Len(frames') = n - 1
          /\ \A k \in 1 .. n - 1 : frames'[k].args = frames[k].args
        BY <1>7, FinishFrames DEF Given
    <2>2. active' = Front(active) /\ Len(active) = n - 1
        BY <1>1, <1>7 DEF FinishDone
    <2> DEFINE m == n - 1
    <2>3. Len(active) # 0
        BY <2>1, <2>2
    <2>4. /\ IsSeq(active') /\ Len(active') = m - 1
          /\ \A k \in 1 .. m - 1 : active'[k] = active[k]
        BY <1>1, <2>2, <2>3, FrontAny
    <2>5. \A k \in 1 .. m - 1 : k \in 1 .. n - 1 /\ k + 1 \in 1 .. n - 1
        BY <1>1
    <2>6. \A k \in 1 .. m - 1 : active'[k].args = frames'[k + 1].args
        BY <1>1, <2>1, <2>4, <2>5
    <2> HIDE DEF m
    <2>7. Len(frames') - 1 = m - 1
        BY <2>1 DEF m
    <2> QED
        BY <2>4, <2>6, <2>7 DEF ActiveInv, IsSeq
<1> QED
    BY <1>3, <1>4, <1>5, <1>6, <1>7, Steps DEF Given

(* HeldInv is inductive: what is pushed at Begin is popped at Finish.      *)
LEMMA HeldStep ==
    ASSUME Given, [Next]_vars
    PROVE  HeldInv'
<1> SUFFICES ASSUME NEW g \in Generic
             PROVE  \E at : HeldAt(g, at)'
    BY DEF HeldInv
<1>1. PICK at : HeldAt(g, at)
    BY DEF Given, HeldInv
<1>2. program' = program /\ Params(g)' = Params(g)
    BY Steps DEF Stays, FindDone, BeginDone, CreateDone, FinishDone, Given, Params
<1>3. /\ \A n \in DOMAIN at : at[n] \in FramesOf(g)
      /\ \A i \in Params(g) : IsSeq(values[g][i])
      /\ DOMAIN values = Generic
    BY <1>1 DEF HeldAt, Lists, Given, FilesInv
<1>4. ASSUME FramesOf(g)' = FramesOf(g), values'[g] = values[g],
             \A k \in FramesOf(g) : frames'[k].args = frames[k].args
      PROVE  HeldAt(g, at)'
    BY <1>1, <1>2, <1>3, <1>4 DEF HeldAt
<1>5. CASE FindDone \/ Stays
    BY <1>4, <1>5, FindSets DEF FindDone, Stays, Given
<1>6. CASE CreateDone
    BY <1>4, <1>6, CreateSets DEF CreateDone, Given
<1>7. CASE BeginDone
    <2>1. CASE g # Use.of
        <3>1. values'[g] = values[g]
            BY <1>3, <1>7, <2>1 DEF BeginDone
        <3>2. FramesOf(g)' = FramesOf(g) /\ \A k \in FramesOf(g) : frames'[k] = frames[k]
            BY <1>7, <2>1, BeginSets DEF Given
        <3> QED
            BY <1>4, <3>1, <3>2
    <2>2. CASE g = Use.of
        <3> DEFINE full == Full(Use, toFill(Use))
                   new == Len(frames) + 1
        <3>1. PICK more : more = Append(at, new)
            OBVIOUS
        <3>2. toFill(Use) # <<>>
            BY <1>7, FilledAsMeant DEF BeginDone
        <3>3. values'[g] = [i \in Params(g) |-> Append(values[g][i], full[i])]
            BY <1>3, <1>7, <2>2, <3>2 DEF BeginDone
        <3>4. /\ FramesOf(g)' = FramesOf(g) \cup {new} /\ new \in Nat
              /\ \A k \in FramesOf(g) : k < new
              /\ \A k \in FramesOf(g) : frames'[k] = frames[k]
              /\ frames'[new].args = full
            BY <1>7, <2>2, BeginSets DEF Given
        <3> HIDE DEF full, new
        <3>5. /\ Lists(more, FramesOf(g) \cup {new})
              /\ Len(more) = Len(at) + 1 /\ DOMAIN more = 1 .. Len(at) + 1
              /\ \A n \in 1 .. Len(at) : more[n] = at[n]
              /\ more[Len(at) + 1] = new
              /\ Len(at) \in Nat /\ DOMAIN at = 1 .. Len(at)
            BY <1>1, <3>1, <3>4, ListsGrow DEF HeldAt
        <3>6. ASSUME NEW i \in Params(g)
              PROVE  /\ Len(values'[g][i]) = Len(at) + 1
                     /\ \A n \in DOMAIN more : values'[g][i][n] = frames'[more[n]].args[i]
            <4>1. values'[g][i] = Append(values[g][i], full[i]) /\ Len(values[g][i]) = Len(at)
                BY <1>1, <3>3 DEF HeldAt
            <4>2. /\ Len(values'[g][i]) = Len(at) + 1
                  /\ \A n \in 1 .. Len(at) : values'[g][i][n] = values[g][i][n]
                  /\ values'[g][i][Len(at) + 1] = full[i]
                BY <1>3, <4>1, AppendAny
            <4>3. ASSUME NEW n \in DOMAIN more
                  PROVE  values'[g][i][n] = frames'[more[n]].args[i]
                <5>1. CASE n = Len(at) + 1
                    BY <3>4, <3>5, <4>2, <5>1
                <5>2. CASE n # Len(at) + 1
                    <6>1. n \in 1 .. Len(at) /\ n \in DOMAIN at
                        BY <3>5, <5>2
                    <6>2. frames'[at[n]] = frames[at[n]] /\ values[g][i][n] = frames[at[n]].args[i]
                        BY <1>1, <1>3, <3>4, <6>1 DEF HeldAt
                    <6> QED
                        BY <3>5, <4>2, <6>1, <6>2
                <5> QED
                    BY <5>1, <5>2
            <4> QED
                BY <4>2, <4>3
        <3>7. HeldAt(g, more)'
            BY <1>2, <3>4, <3>5, <3>6 DEF HeldAt
        <3> QED
            BY <3>7
    <2> QED
        BY <2>1, <2>2
<1>8. CASE FinishDone
    <2>1. CASE g # Top.of
        <3>1. values'[g] = values[g]
            BY <1>3, <1>8, <2>1 DEF FinishDone
        <3>2. \A k \in FramesOf(g) : k # Len(frames)
            BY <2>1, TopFacts DEF FramesOf, Given
        <3> QED
            BY <1>4, <1>8, <2>1, <3>1, <3>2, FinishSets DEF Given
    <2>2. CASE g = Top.of
        <3> DEFINE last == Len(frames)
        <3>1. PICK less : less = Front(at)
            OBVIOUS
        <3>2. /\ FramesOf(g)' = FramesOf(g) \ {last} /\ last \in FramesOf(g)
              /\ \A k \in FramesOf(g) : k <= last
              /\ \A k \in FramesOf(g) : k # last => frames'[k].args = frames[k].args
            BY <1>8, <2>2, FinishSets DEF Given
        <3>3. \A i \in Params(g) : values'[g][i] = Front(values[g][i]) /\ values[g][i] # <<>>
            BY <1>3, <1>8, <2>2 DEF FinishDone
        <3> HIDE DEF last
        <3>4. /\ Lists(less, FramesOf(g) \ {last})
              /\ Len(at) \in Nat \ {0} /\ DOMAIN at = 1 .. Len(at) /\ at[Len(at)] = last
              /\ Len(less) = Len(at) - 1 /\ DOMAIN less = 1 .. Len(at) - 1
              /\ \A n \in 1 .. Len(at) - 1 : less[n] = at[n]
            BY <1>1, <3>1, <3>2, ListsShrink DEF HeldAt
        <3>5. ASSUME NEW i \in Params(g)
              PROVE  /\ Len(values'[g][i]) = Len(at) - 1
                     /\ \A n \in DOMAIN less : values'[g][i][n] = frames'[less[n]].args[i]
            <4>1. Len(values[g][i]) = Len(at) /\ Len(values[g][i]) # 0
                BY <1>1, <3>4 DEF HeldAt
            <4>2. /\ Len(values'[g][i]) = Len(at) - 1
                  /\ \A n \in 1 .. Len(at) - 1 : values'[g][i][n] = values[g][i][n]
                <5>1. PICK v : v = values[g][i]
                    OBVIOUS
                <5>2. IsSeq(v) /\ Len(v) # 0 /\ Len(v) = Len(at) /\ values'[g][i] = Front(v)
                    BY <1>3, <3>3, <4>1, <5>1
                <5>3. Len(Front(v)) = Len(v) - 1 /\ \A n \in 1 .. Len(v) - 1 : Front(v)[n] = v[n]
                    BY <5>2, FrontAny
                <5> QED
                    BY <5>1, <5>2, <5>3
            <4>3. ASSUME NEW n \in DOMAIN less
                  PROVE  values'[g][i][n] = frames'[less[n]].args[i]
                <5>1. n \in 1 .. Len(at) - 1 /\ n \in DOMAIN at
                    BY <3>4
                <5>2. less[n] = at[n] /\ less[n] \in FramesOf(g) \ {last}
                    BY <3>4, <5>1 DEF Lists
                <5>3. frames'[at[n]].args = frames[at[n]].args /\ values[g][i][n] = frames[at[n]].args[i]
                    BY <1>1, <3>2, <5>1, <5>2 DEF HeldAt
                <5> QED
                    BY <4>2, <5>1, <5>2, <5>3
            <4> QED
                BY <4>2, <4>3
        <3>6. HeldAt(g, less)'
            BY <1>2, <3>2, <3>4, <3>5 DEF HeldAt
        <3> QED
            BY <3>6
    <2> QED
        BY <2>1, <2>2
<1> QED
    BY <1>5, <1>6, <1>7, <1>8, Steps DEF Given

(* One frame, and one list of variants, as MeantInv wants them.            *)
AsMeant(f) ==
    /\ f.args = f.meant /\ f.generics = f.args
    /\ f.args = [i \in Params(f.of) |-> f.args[i]]

AsFiled(s) == \A k \in DOMAIN s : s[k].filed = s[k].generics

(* Variants stay filed under their own generics.                           *)
LEMMA FiledSame ==
    ASSUME NEW s, IsSeq(s), AsFiled(s)
    PROVE  /\ \A e : e.filed = e.generics => AsFiled(Append(s, e))
           /\ Len(s) # 0 => AsFiled(Front(s))
<1>1. ASSUME NEW e, e.filed = e.generics
      PROVE  AsFiled(Append(s, e))
    <2> DEFINE more == Append(s, e)
               n1 == Len(s)
    <2>1. /\ n1 \in Nat /\ DOMAIN s = 1 .. n1 /\ DOMAIN more = 1 .. n1 + 1
          /\ \A i \in 1 .. n1 : more[i] = s[i]
          /\ more[n1 + 1] = e
        BY AppendAny, SeqFacts
    <2> HIDE DEF more, n1
    <2>2. \A i \in 1 .. n1 + 1 : i = n1 + 1 \/ i \in 1 .. n1
        BY <2>1
    <2>3. AsFiled(more)
        BY <1>1, <2>1, <2>2 DEF AsFiled
    <2> QED
        BY <2>3 DEF more
<1>2. ASSUME Len(s) # 0
      PROVE  AsFiled(Front(s))
    <2>1. /\ Len(s) \in Nat /\ DOMAIN s = 1 .. Len(s) /\ DOMAIN Front(s) = 1 .. Len(s) - 1
          /\ \A i \in 1 .. Len(s) - 1 : Front(s)[i] = s[i]
        BY <1>2, FrontAny, SeqFacts
    <2>2. \A i \in 1 .. Len(s) - 1 : i \in DOMAIN s
        BY <2>1
    <2> QED
        BY <2>1, <2>2 DEF AsFiled
<1> QED
    BY <1>1, <1>2

(* The frame that Create changes keeps its generics.                       *)
LEMMA MadeGenerics ==
    ASSUME Given, CreateDone
    PROVE  Made.generics = Top.args /\ Made.filed = Top.args
<1>1. /\ Top.of \in Generic /\ Len(frames) \in 2 .. Len(frames) /\ Top = frames[Len(frames)]
    BY CreateSets, TopFacts, ProgramFacts, TopHeld DEF Given, FramesInv
<1>2. AsMeant(Top)
    BY <1>1 DEF Given, MeantInv, AsMeant
<1>3. CASE Kind(Top.of) = "function"
    <2>1. \A i \in Params(Top.of) : get_type(Top.of, i) = Top.args[i]
        BY TopHeld
    <2>2. toIRGenericType(Top.of) = [i \in Params(Top.of) |-> Top.args[i]]
        BY <2>1 DEF toIRGenericType
    <2> QED
        BY <1>2, <1>3, <2>2 DEF Made, AsMeant
<1>4. CASE Kind(Top.of) # "function"
    BY <1>2, <1>4 DEF Made, AsMeant
<1> QED
    BY <1>3, <1>4

(* MeantInv is inductive.                                                  *)
LEMMA MeantStep ==
    ASSUME Given, OpenInv, [Next]_vars
    PROVE  MeantInv'
<1>1. program' = program
    BY Steps DEF Stays, FindDone, BeginDone, CreateDone, FinishDone, Given
<1>2. /\ \A k \in 2 .. Len(frames) : AsMeant(frames[k])
      /\ \A g \in Generic : /\ AsFiled(variants[g]) /\ AsFiled(opaques[g])
                            /\ IsSeq(variants[g]) /\ IsSeq(opaques[g])
      /\ DOMAIN variants = Generic /\ DOMAIN opaques = Generic
      /\ Len(frames) \in Nat \ {0}
    BY TopFacts DEF Given, MeantInv, AsMeant, AsFiled, FilesInv
<1>3. SUFFICES /\ \A k \in 2 .. Len(frames') : AsMeant(frames'[k])
               /\ \A g \in Generic : AsFiled(variants'[g]) /\ AsFiled(opaques'[g])
               /\ answer' # <<>> => answer'.generics = answer'.meant
    BY <1>1 DEF MeantInv, AsMeant, AsFiled, Params
<1>4. answer # <<>> => answer.generics = answer.meant
    BY DEF Given, MeantInv
<1>5. CASE Stays
    BY <1>2, <1>4, <1>5 DEF Stays
<1>6. CASE FindDone
    <2>1. \A k \in 2 .. Len(frames') : AsMeant(frames'[k])
        <3>1. /\ Len(frames') = Len(frames)
              /\ \A k \in 1 .. Len(frames) :
                    /\ frames'[k].of = frames[k].of /\ frames'[k].args = frames[k].args
                    /\ frames'[k].meant = frames[k].meant
                    /\ frames'[k].generics = frames[k].generics
            BY <1>6, FindFrames DEF Given
        <3>2. \A k \in 2 .. Len(frames) : k \in 1 .. Len(frames)
            BY <1>2
        <3> QED
            BY <1>2, <3>1, <3>2 DEF AsMeant
    <2>2. answer'.generics = answer'.meant
        <3> DEFINE c == opaques[Use.of] \o variants[Use.of]
        <3>1. PICK k \in Found(c, toFill(Use)) :
                  answer' = [of |-> Use.of, generics |-> c[k].generics, meant |-> Meant(Use)]
            BY <1>6 DEF FindDone
        <3>2. Use.of \in Generic
            BY <1>6, UseFacts DEF FindDone, Given
        <3>3. k \in DOMAIN c /\ c[k].filed = toFill(Use)
            BY DEF Found
        <3> DEFINE o == opaques[Use.of]
                   v == variants[Use.of]
        <3>4. /\ IsSeq(o) /\ IsSeq(v) /\ AsFiled(o) /\ AsFiled(v)
              /\ Len(o) \in Nat /\ Len(v) \in Nat /\ DOMAIN o = 1 .. Len(o) /\ DOMAIN v = 1 .. Len(v)
            BY <1>2, <3>2, SeqFacts
        <3>5. k \in 1 .. Len(o) + Len(v) /\ c[k] = IF k <= Len(o) THEN o[k] ELSE v[k - Len(o)]
            BY <3>3, <3>4, ConcatAny
        <3>6. c[k].filed = c[k].generics
            <4>1. CASE k <= Len(o)
                BY <3>4, <3>5, <4>1 DEF AsFiled
            <4>2. CASE ~(k <= Len(o))
                <5>1. k - Len(o) \in DOMAIN v
                    <6>1. \A a, b \in Nat : \A i \in 1 .. a + b : ~(i <= a) => i - a \in 1 .. b
                        OBVIOUS
                    <6> HIDE DEF o, v, c
                    <6> QED
                        BY <3>4, <3>5, <4>2, <6>1
                <5> QED
                    BY <3>4, <3>5, <4>2, <5>1 DEF AsFiled
            <4> QED
                BY <4>1, <4>2
        <3>7. toFill(Use) = Meant(Use)
            BY <1>6, FilledAsMeant DEF FindDone
        <3> HIDE DEF c
        <3> QED
            BY <3>1, <3>3, <3>6, <3>7
    <2> QED
        BY <1>2, <1>6, <2>1, <2>2 DEF FindDone
<1>7. CASE BeginDone
    <2>1. /\ toFill(Use) = Meant(Use) /\ Full(Use, toFill(Use)) = toFill(Use)
          /\ toFill(Use) = [i \in Params(Use.of) |-> toFill(Use)[i]]
        BY <1>7, FilledAsMeant DEF BeginDone
    <2>2. /\ Len(frames') = Len(frames) + 1
          /\ \A k \in 1 .. Len(frames) : frames'[k] = frames[k]
          /\ frames'[Len(frames) + 1] = NewFrame
          /\ NewFrame.of = Use.of /\ NewFrame.args = Full(Use, toFill(Use))
          /\ NewFrame.meant = Meant(Use) /\ NewFrame.generics = NewFrame.args
        BY <1>7, BeginFrames DEF Given
    <2>3. AsMeant(NewFrame)
        BY <2>1, <2>2 DEF AsMeant
    <2>4. ASSUME NEW k \in 2 .. Len(frames') PROVE AsMeant(frames'[k])
        <3>1. CASE k = Len(frames) + 1
            BY <2>2, <2>3, <3>1
        <3>2. CASE k # Len(frames) + 1
            <4>1. k \in 2 .. Len(frames) /\ k \in 1 .. Len(frames)
                BY <1>2, <2>2, <3>2
            <4> QED
                BY <1>2, <2>2, <4>1
        <3> QED
            BY <3>1, <3>2
    <2>5. \A g \in Generic : AsFiled(opaques'[g])
        <3>1. CASE Kind(Use.of) = "struct"
            <4> DEFINE e == [filed |-> Full(Use, toFill(Use)), generics |-> Full(Use, toFill(Use))]
            <4>1. opaques' = [opaques EXCEPT ![Use.of] = Append(opaques[Use.of], e)]
                BY <1>7, <3>1 DEF BeginDone
            <4>2. e.filed = e.generics /\ Use.of \in Generic
                BY <1>7, UseFacts DEF BeginDone, Given
            <4> HIDE DEF e
            <4>3. AsFiled(Append(opaques[Use.of], e))
                BY <1>2, <4>2, FiledSame
            <4>4. \A g \in Generic : opaques'[g] = IF g = Use.of THEN Append(opaques[Use.of], e) ELSE opaques[g]
                BY <1>2, <4>1
            <4> QED
                BY <1>2, <4>3, <4>4
        <3>2. CASE Kind(Use.of) # "struct"
            BY <1>2, <1>7, <3>2 DEF BeginDone
        <3> QED
            BY <3>1, <3>2
    <2> QED
        BY <1>2, <1>4, <1>7, <2>4, <2>5 DEF BeginDone
<1>8. CASE CreateDone
    <2>1. Made.generics = Top.args /\ Made.filed = Top.args /\ Top.of \in Generic
        BY <1>8, MadeGenerics, CreateSets DEF Given
    <2>2. /\ Len(frames') = Len(frames)
          /\ \A k \in 1 .. Len(frames) :
                /\ frames'[k].of = frames[k].of /\ frames'[k].args = frames[k].args
                /\ frames'[k].meant = frames[k].meant
                /\ k # Len(frames) => frames'[k] = frames[k]
          /\ frames'[Len(frames)].generics = Made.generics
          /\ Top = frames[Len(frames)]
        BY <1>8, CreateFrames, TopFacts DEF Given
    <2>3. ASSUME NEW k \in 2 .. Len(frames') PROVE AsMeant(frames'[k])
        <3>1. k \in 1 .. Len(frames) /\ AsMeant(frames[k])
            BY <1>2, <2>2
        <3>2. frames'[k].generics = frames'[k].args
            <4>1. CASE k = Len(frames)
                BY <2>1, <2>2, <3>1, <4>1
            <4>2. CASE k # Len(frames)
                BY <2>2, <3>1, <4>2 DEF AsMeant
            <4> QED
                BY <4>1, <4>2
        <3> QED
            BY <2>2, <3>1, <3>2 DEF AsMeant
    <2>4. \A g \in Generic : AsFiled(variants'[g]) /\ AsFiled(opaques'[g])
        <3>1. CASE Kind(Top.of) = "struct"
            <4>1. /\ variants' = [variants EXCEPT ![Top.of] = Append(variants[Top.of], Made)]
                  /\ opaques' = [opaques EXCEPT ![Top.of] = Front(opaques[Top.of])]
                BY <1>8, <3>1 DEF CreateDone
            <4>2. Len(opaques[Top.of]) # 0
                BY <1>8, <3>1, OpenLast DEF Given
            <4>3. AsFiled(Append(variants[Top.of], Made)) /\ AsFiled(Front(opaques[Top.of]))
                BY <1>2, <2>1, <4>2, FiledSame
            <4> QED
                BY <1>2, <2>1, <4>1, <4>3
        <3>2. CASE Kind(Top.of) # "struct"
            BY <1>2, <1>8, <3>2 DEF CreateDone
        <3> QED
            BY <3>1, <3>2
    <2> QED
        BY <1>4, <1>8, <2>3, <2>4 DEF CreateDone
<1>9. CASE FinishDone
    <2>1. /\ Len(frames') = Len(frames) - 1
          /\ \A k \in 1 .. Len(frames) - 1 :
                /\ frames'[k].of = frames[k].of /\ frames'[k].args = frames[k].args
                /\ frames'[k].meant = frames[k].meant
                /\ frames'[k].generics = frames[k].generics
        BY <1>9, FinishFrames DEF Given
    <2>2. /\ Top = frames[Len(frames)] /\ Len(frames) \in 2 .. Len(frames) /\ Top.of \in Generic
        <3>1. Len(frames) \in Nat \ {0} /\ Len(frames) - 1 \in Nat \ {0}
            BY <1>9, FinishFrames DEF Given
        <3>2. Len(frames) \in 2 .. Len(frames)
            <4>1. \A n \in Nat \ {0} : n - 1 \in Nat \ {0} => n \in 2 .. n
                OBVIOUS
            <4> QED
                BY <3>1, <4>1
        <3> QED
            BY <1>9, <3>2, TopFacts, FinishSets DEF Given
    <2>3. AsMeant(Top)
        BY <1>2, <2>2
    <2>4. ASSUME NEW k \in 2 .. Len(frames') PROVE AsMeant(frames'[k])
        <3>1. k \in 1 .. Len(frames) - 1 /\ AsMeant(frames[k])
            BY <1>2, <2>1
        <3> QED
            BY <2>1, <3>1 DEF AsMeant
    <2>5. \A g \in Generic : AsFiled(variants'[g])
        <3> DEFINE e == [filed |-> Top.args, generics |-> Top.generics]
        <3>1. e.filed = e.generics
            BY <2>3 DEF AsMeant
        <3>2. variants' = variants \/ variants' = [variants EXCEPT ![Top.of] = Append(variants[Top.of], e)]
            BY <1>9 DEF FinishDone
        <3> HIDE DEF e
        <3>3. AsFiled(Append(variants[Top.of], e))
            BY <1>2, <2>2, <3>1, FiledSame
        <3> QED
            BY <1>2, <2>2, <3>2, <3>3
    <2>6. answer'.generics = answer'.meant
        BY <1>9, <2>3 DEF FinishDone, AsMeant
    <2> QED
        BY <1>2, <1>9, <2>4, <2>5, <2>6 DEF FinishDone
<1> QED
    BY <1>5, <1>6, <1>7, <1>8, <1>9, Steps DEF Given

(* The invariant that holds of programs in which no list is left out.      *)
LEMMA GivenInvariant ==
    Spec => [](LeftOut \/ (Given /\ OpenInv))
<1> DEFINE Inv == FramesInv /\ FilesInv /\ OpenInv /\ (LeftOut \/ (ActiveInv /\ HeldInv /\ MeantInv))
<1>1. Init => Inv
    <2> SUFFICES ASSUME Init PROVE Inv
        OBVIOUS
    <2>1. /\ Len(frames) = 1 /\ \A g : FramesOf(g) = {}
          /\ FramesInv /\ FilesInv /\ OpenInv
        BY InitFrames, InitFiles
    <2>2. active = <<>> /\ answer = <<>> /\ (\A g \in Generic : variants[g] = <<>> /\ opaques[g] = <<>>)
          /\ \A g \in Generic : values[g] = [i \in Params(g) |-> <<>>]
        BY DEF Init
    <2>3. IsSeq(<<>>) /\ Len(<<>>) = 0 /\ DOMAIN <<>> = {} /\ 1 .. 1 - 1 = {} /\ 2 .. 1 = {}
        BY EmptyIsSeq
    <2>4. ActiveInv
        BY <2>1, <2>2, <2>3 DEF ActiveInv
    <2>5. HeldInv
        <3>1. ASSUME NEW g \in Generic PROVE HeldAt(g, <<>>)
            BY <2>1, <2>2, <2>3, ListsNone DEF HeldAt
        <3> QED
            BY <3>1 DEF HeldInv
    <2>6. MeantInv
        BY <2>1, <2>2, <2>3 DEF MeantInv
    <2> QED
        BY <2>1, <2>4, <2>5, <2>6
<1>2. Inv /\ [Next]_vars => Inv'
    <2> SUFFICES ASSUME Inv, [Next]_vars PROVE Inv'
        OBVIOUS
    <2>1. FramesInv' /\ FilesInv' /\ OpenInv'
        BY FramesStep, FilesStep, OpenStep
    <2>2. program' = program
        BY Steps DEF Stays, FindDone, BeginDone, CreateDone, FinishDone
    <2>3. CASE LeftOut
        BY <2>1, <2>2, <2>3 DEF LeftOut, UsesOf
    <2>4. CASE ~LeftOut
        <3>1. Given
            BY <2>4 DEF Given
        <3>2. ActiveInv' /\ HeldInv' /\ MeantInv'
            BY <3>1, ActiveStep, HeldStep, MeantStep
        <3> QED
            BY <2>1, <3>2
    <2> QED
        BY <2>3, <2>4
<1>3. Inv => LeftOut \/ (Given /\ OpenInv)
    BY DEF Given
<1> QED
    BY <1>1, <1>2, <1>3, PTL DEF Spec

(* In every program that leaves no list of arguments out, each use is      *)
(* given the variant it means: a parameter that is named in fill_generics, *)
(* found in its stack of values or in the marker has the argument of the   *)
(* innermost variant, however deep others of the same generic are made in  *)
(* between.                                                                *)
THEOREM AnswersAreThoseMeant == Spec => []AnswersAreMeant
<1>1. ASSUME Given
      PROVE  AnswersAreMeant
    <2>1. \A g \in Generic : \A made \in ToSet(variants[g]) \cup ToSet(opaques[g]) :
              made.filed = made.generics
        BY <1>1 DEF Given, MeantInv, ToSet
    <2> QED
        BY <1>1, <2>1 DEF Given, MeantInv, AnswersAreMeant
<1>2. LeftOut => AnswersAreMeant
    BY DEF AnswersAreMeant
<1> QED
    BY <1>1, <1>2, GivenInvariant, PTL

-----------------------------------------------------------------------------
(* Every name is that of a variant that is made, or is getting made.       *)
FiledInv ==
    \A g \in Generic : \A list \in names[g] :
        ~NotIn(list, variants[g]) \/ ~NotIn(list, opaques[g])

(* Only definitions exist before their defaults are emitted.               *)
KnownInv ==
    \A g \in Generic : Kind(g) # "definition" =>
        \A i \in Params(g) : program[g].defaults[i] # NoType => <<g, i>> \in known

(* A default that exists goes on existing.                                 *)
LEMMA KnownStep ==
    ASSUME FramesInv, FilesInv, KnownInv, [Next]_vars
    PROVE  KnownInv'
<1>1. program' = program
    BY Steps DEF Stays, FindDone, BeginDone, CreateDone, FinishDone
<1>2. known \subseteq known'
    <2>1. ASSUME NEW how, End(how) PROVE known' = known
        BY <2>1 DEF End
    <2> QED
        BY <2>1 DEF Next, Find, Refuse, TakeNullDefault, Begin, Create, Finish, EndMain, vars
<1> QED
    BY <1>1, <1>2 DEF KnownInv, Kind, Params

(* FiledInv is inductive.                                                  *)
LEMMA FiledStep ==
    ASSUME FramesInv, FilesInv, OpenInv, NamesInv, FiledInv, [Next]_vars
    PROVE  FiledInv'
<1> SUFFICES ASSUME NEW g \in Generic, NEW list \in names'[g]
             PROVE  ~NotIn(list, variants'[g]) \/ ~NotIn(list, opaques'[g])
    BY DEF FiledInv, NotIn
<1>1. /\ IsSeq(variants[g]) /\ IsSeq(opaques[g]) /\ DOMAIN variants = Generic
      /\ DOMAIN opaques = Generic /\ DOMAIN names = Generic
    BY DEF FilesInv, NamesInv
<1>2. ASSUME NEW s, IsSeq(s), NEW e
      PROVE  /\ ~NotIn(list, s) => ~NotIn(list, Append(s, e))
             /\ list = e.filed => ~NotIn(list, Append(s, e))
    <2>1. /\ DOMAIN s = 1 .. Len(s) /\ Len(s) \in Nat
          /\ DOMAIN Append(s, e) = 1 .. Len(s) + 1
          /\ \A i \in 1 .. Len(s) : Append(s, e)[i] = s[i]
          /\ Append(s, e)[Len(s) + 1] = e
        BY <1>2, AppendAny, SeqFacts
    <2>2. Len(s) + 1 \in DOMAIN Append(s, e) /\ \A i \in DOMAIN s : i \in DOMAIN Append(s, e)
        BY <2>1
    <2> QED
        BY <2>1, <2>2 DEF NotIn
<1>3. CASE FindDone \/ Stays
    BY <1>3 DEF FindDone, Stays, FiledInv
<1>4. CASE BeginDone
    <2> DEFINE full == Full(Use, toFill(Use))
               e == [filed |-> full, generics |-> full]
    <2>1. CASE Kind(Use.of) = "struct" /\ g = Use.of
        <3>1. /\ names' = [names EXCEPT ![g] = names[g] \cup {full}]
              /\ opaques' = [opaques EXCEPT ![g] = Append(opaques[g], e)]
              /\ variants' = variants
            BY <1>4, <2>1 DEF BeginDone
        <3>2. e.filed = full
            OBVIOUS
        <3> HIDE DEF e, full
        <3>3. opaques'[g] = Append(opaques[g], e) /\ (list = full \/ list \in names[g])
            BY <1>1, <3>1
        <3> QED
            BY <1>1, <1>2, <3>1, <3>2, <3>3 DEF FiledInv
    <2>2. CASE ~(Kind(Use.of) = "struct" /\ g = Use.of)
        <3>1. names'[g] = names[g] /\ opaques'[g] = opaques[g] /\ variants' = variants
            BY <1>1, <1>4, <2>2 DEF BeginDone
        <3> QED
            BY <3>1 DEF FiledInv
    <2> QED
        BY <2>1, <2>2
<1>5. CASE CreateDone
    <2>1. names' = names
        BY <1>5 DEF CreateDone
    <2>2. CASE Kind(Top.of) = "struct" /\ g = Top.of
        <3>1. /\ variants'[g] = Append(variants[g], Made)
              /\ opaques'[g] = Front(opaques[g])
            BY <1>1, <1>5, <2>2 DEF CreateDone
        <3>2. /\ Len(opaques[g]) # 0 /\ opaques[g][Len(opaques[g])].filed = Made.filed
            BY <1>5, <2>2, OpenLast
        <3>3. ASSUME ~NotIn(list, opaques[g])
              PROVE  list = Made.filed \/ ~NotIn(list, opaques'[g])
            <4>1. PICK k \in DOMAIN opaques[g] : opaques[g][k].filed = list
                BY <3>3 DEF NotIn
            <4>2. /\ Len(opaques[g]) \in Nat /\ DOMAIN opaques[g] = 1 .. Len(opaques[g])
                  /\ DOMAIN opaques'[g] = 1 .. Len(opaques[g]) - 1
                  /\ \A i \in 1 .. Len(opaques[g]) - 1 : opaques'[g][i] = opaques[g][i]
                BY <1>1, <3>1, <3>2, FrontAny, SeqFacts
            <4>3. CASE k = Len(opaques[g])
                BY <3>2, <4>1, <4>3
            <4>4. CASE k # Len(opaques[g])
                <5>1. k \in 1 .. Len(opaques[g]) - 1
                    BY <4>1, <4>2, <4>4
                <5> QED
                    BY <4>1, <4>2, <5>1 DEF NotIn
            <4> QED
                BY <4>3, <4>4
        <3> QED
            BY <1>1, <1>2, <2>1, <3>1, <3>3 DEF FiledInv
    <2>3. CASE ~(Kind(Top.of) = "struct" /\ g = Top.of)
        <3>1. variants'[g] = variants[g] /\ opaques'[g] = opaques[g]
            BY <1>1, <1>5, <2>3 DEF CreateDone
        <3> QED
            BY <2>1, <3>1 DEF FiledInv
    <2> QED
        BY <2>2, <2>3
<1>6. CASE FinishDone
    <2>1. names' = names /\ opaques' = opaques
        BY <1>6 DEF FinishDone
    <2>2. variants'[g] = variants[g] \/ \E e : variants'[g] = Append(variants[g], e)
        BY <1>1, <1>6 DEF FinishDone
    <2> QED
        BY <1>1, <1>2, <2>1, <2>2 DEF FiledInv
<1> QED
    BY <1>3, <1>4, <1>5, <1>6, Steps

(* An end leaves everything as it was.                                     *)
LEMMA EndedSame ==
    ASSUME NEW how, End(how)
    PROVE  /\ frames' = frames /\ Top' = Top /\ Use' = Use /\ toFill(Use)' = toFill(Use)
           /\ LeftOut' = LeftOut /\ \A g : Kind(g)' = Kind(g)
           /\ outcome' = how
<1>1. /\ frames' = frames /\ Top' = Top /\ Use' = Use /\ LeftOut' = LeftOut
      /\ \A g : Kind(g)' = Kind(g)
      /\ outcome' = how
    BY DEF End, Top, Last, Use, Uses, LeftOut, UsesOf, Kind
<1>2. \A i : ByName(i)' = ByName(i)
    BY DEF End, ByName, Top, Last
<1>3. \A i : get_type(Top.of, i)' = get_type(Top.of, i)
    BY <1>1 DEF End, get_type, DefaultType, Last
<1>4. \A t : PointerTo(t)' = PointerTo(t)
    OBVIOUS
<1>5. toFill(Use)' = toFill(Use)
    BY <1>1, <1>2, <1>3, <1>4 DEF toFill, End
<1> QED
    BY <1>1, <1>5

(* What is to be shown of an end is shown before it.                       *)
LEMMA EndedErrors ==
    ASSUME NEW how, End(how),
           how = "incomplete member" =>
              /\ Kind(Top.of) = "struct" /\ Top.at = "first"
              /\ \E k \in 2 .. Len(frames) :
                    /\ frames[k].of = Use.of /\ frames[k].args = toFill(Use)
                    /\ Kind(frames[k].of) = "struct" /\ frames[k].at = "first",
           how = "repeated name" => LeftOut,
           how = "undefined" =>
              \/ LeftOut
              \/ \E k \in 2 .. Len(frames) :
                    frames[k].of = Use.of /\ Kind(frames[k].of) = "definition"
    PROVE  ErrorsAreDeserved'
<1>1. /\ frames' = frames /\ Top' = Top /\ Use' = Use /\ toFill(Use)' = toFill(Use)
      /\ LeftOut' = LeftOut /\ outcome' = how /\ program' = program
    BY EndedSame DEF End
<1>2. outcome' = "incomplete member" =>
        /\ Kind(Top.of)' = "struct" /\ Top'.at = "first"
        /\ (\E k \in 2 .. Len(frames) :
              /\ frames[k].of = Use.of /\ frames[k].args = toFill(Use)
              /\ Kind(frames[k].of) = "struct" /\ frames[k].at = "first")'
    BY <1>1 DEF Kind
<1>3. outcome' = "undefined" =>
        \/ LeftOut'
        \/ (\E k \in 2 .. Len(frames) : frames[k].of = Use.of /\ Kind(frames[k].of) = "definition")'
    BY <1>1 DEF Kind
<1> QED
    BY <1>1, <1>2, <1>3 DEF ErrorsAreDeserved

(* An opaque that is found is that of a struct still getting members.      *)
LEMMA OpaqueHasFrame ==
    ASSUME FilesInv, OpenInv, Use.of \in Generic, Found(opaques[Use.of], toFill(Use)) # {}
    PROVE  \E k \in 2 .. Len(frames) :
              /\ frames[k].of = Use.of /\ frames[k].args = toFill(Use)
              /\ Kind(frames[k].of) = "struct" /\ frames[k].at = "first"
<1>1. PICK n \in DOMAIN opaques[Use.of] : opaques[Use.of][n].filed = toFill(Use)
    BY DEF Found
<1>2. Kind(Use.of) = "struct"
    <2>1. DOMAIN <<>> = {}
        OBVIOUS
    <2> QED
        BY <1>1, <2>1 DEF OpenInv
<1>3. PICK at : OpenAt(Use.of, at)
    BY <1>2 DEF OpenInv
<1>4. n \in DOMAIN at
    <2>1. DOMAIN opaques[Use.of] = 1 .. Len(opaques[Use.of])
        BY SeqFacts DEF FilesInv
    <2>2. DOMAIN at = 1 .. Len(at)
        BY <1>3, LenProperties DEF OpenAt, Lists
    <2> QED
        BY <1>3, <2>1, <2>2 DEF OpenAt
<1>5. frames[at[n]].args = toFill(Use) /\ at[n] \in FirstOf(Use.of)
    BY <1>1, <1>3, <1>4 DEF OpenAt, Lists
<1>6. /\ at[n] \in 2 .. Len(frames) /\ frames[at[n]].of = Use.of /\ frames[at[n]].at = "first"
    BY <1>5 DEF FirstOf, FramesOf
<1> QED
    BY <1>2, <1>5, <1>6

(* A null default is that of a definition that is being made.              *)
LEMMA NullDefaultOfDefinition ==
    ASSUME Given, KnownInv, Asking, NullDefault(Use)
    PROVE  \E k \in 2 .. Len(frames) : frames[k].of = Use.of /\ Kind(frames[k].of) = "definition"
<1>1. PICK p \in DefaultsAskedFor(Use) : p \notin known /\ get_type(p[1], p[2]) # NoType
    BY DEF NullDefault
<1>2. PICK i \in DOMAIN Use.args : p = <<Use.of, i>> /\ program[Use.of].defaults[i] # NoType
    BY DEF DefaultsAskedFor
<1>3. Use.of \in Generic /\ i \in Params(Use.of)
    <2>1. Use.args # <<>>
        BY <1>2
    <2> QED
        BY <1>2, <2>1, UseFacts DEF Given
<1>4. Kind(Use.of) = "definition"
    BY <1>1, <1>2, <1>3 DEF KnownInv
<1>5. values[Use.of][i] # <<>>
    BY <1>1, <1>2 DEF get_type, DefaultType
<1>6. PICK at : HeldAt(Use.of, at)
    BY <1>3 DEF Given, HeldInv
<1>7. Len(at) \in Nat /\ DOMAIN at = 1 .. Len(at) /\ Len(at) # 0
    <2>1. IsSeq(values[Use.of][i])
        BY <1>3 DEF Given, FilesInv
    <2>2. Len(values[Use.of][i]) # 0 /\ Len(values[Use.of][i]) = Len(at)
        BY <1>3, <1>5, <1>6, <2>1, SeqFacts DEF HeldAt
    <2> QED
        BY <1>6, <2>2, LenProperties DEF HeldAt, Lists
<1>8. at[1] \in FramesOf(Use.of)
    BY <1>6, <1>7 DEF HeldAt, Lists
<1> QED
    BY <1>4, <1>8 DEF FramesOf

(* A name that was given away is that of a variant that is found.          *)
LEMMA NamedIsMade ==
    ASSUME Given, FiledInv, Asking, NotMade(Use, toFill(Use)),
           Full(Use, toFill(Use)) \in names[Use.of]
    PROVE  FALSE
<1>1. Use.of \in Generic /\ Full(Use, toFill(Use)) = toFill(Use)
    BY UseFacts, FilledAsMeant DEF Given
<1> DEFINE o == opaques[Use.of]
           v == variants[Use.of]
           list == toFill(Use)
<1>2. ~NotIn(list, v) \/ ~NotIn(list, o)
    BY <1>1 DEF FiledInv
<1>3. /\ IsSeq(o) /\ IsSeq(v) /\ Len(o) \in Nat /\ Len(v) \in Nat
      /\ DOMAIN o = 1 .. Len(o) /\ DOMAIN v = 1 .. Len(v)
    BY <1>1, SeqFacts DEF Given, FilesInv
<1>4. Found(o \o v, list) = {}
    BY DEF NotMade
<1> HIDE DEF o, v, list
<1>5. /\ DOMAIN (o \o v) = 1 .. Len(o) + Len(v)
      /\ \A i \in 1 .. Len(o) + Len(v) : (o \o v)[i] = IF i <= Len(o) THEN o[i] ELSE v[i - Len(o)]
    BY <1>3, ConcatAny
<1>6. \A i \in 1 .. Len(o) + Len(v) : (o \o v)[i].filed # list
    BY <1>4, <1>5 DEF Found
<1>7. CASE ~NotIn(list, o)
    <2>1. PICK k \in 1 .. Len(o) : o[k].filed = list
        BY <1>3, <1>7 DEF NotIn
    <2>2. k \in 1 .. Len(o) + Len(v) /\ k <= Len(o)
        BY <1>3
    <2> QED
        BY <1>5, <1>6, <2>1, <2>2
<1>8. CASE ~NotIn(list, v)
    <2>1. PICK k \in 1 .. Len(v) : v[k].filed = list
        BY <1>3, <1>8 DEF NotIn
    <2>2. /\ k + Len(o) \in 1 .. Len(o) + Len(v) /\ ~(k + Len(o) <= Len(o))
          /\ (k + Len(o)) - Len(o) = k
        BY <1>3
    <2>3. (o \o v)[k + Len(o)] = v[k]
        BY <1>5, <2>2
    <2> QED
        BY <1>6, <2>1, <2>2, <2>3
<1> QED
    BY <1>2, <1>7, <1>8

(* ErrorsAreDeserved is kept.                                              *)
LEMMA ErrorsStep ==
    ASSUME FramesInv, FilesInv, OpenInv, KnownInv, FiledInv, LeftOut \/ Given,
           ErrorsAreDeserved, [Next]_vars
    PROVE  ErrorsAreDeserved'
<1>1. CASE UNCHANGED vars
    <2>1. Top' = Top /\ Use' = Use /\ LeftOut' = LeftOut /\ toFill(Use)' = toFill(Use)
        <3>1. Top' = Top /\ Use' = Use /\ LeftOut' = LeftOut /\ \A i : ByName(i)' = ByName(i)
            BY <1>1 DEF vars, Top, Last, Use, Uses, LeftOut, UsesOf, ByName
        <3>2. \A i : get_type(Top.of, i)' = get_type(Top.of, i)
            BY <1>1, <3>1 DEF vars, get_type, DefaultType, Last
        <3> QED
            BY <1>1, <3>1, <3>2 DEF toFill, vars
    <2> QED
        BY <1>1, <2>1 DEF vars, ErrorsAreDeserved, Kind
<1>2. ASSUME outcome' \notin {"incomplete member", "repeated name", "undefined"}
      PROVE  ErrorsAreDeserved'
    BY <1>2 DEF ErrorsAreDeserved
<1>3. CASE Find
    <2>1. CASE End("incomplete member")
        <3>1. Use.of \in Generic /\ outcome' # outcome
            BY <1>3, <2>1, UseFacts DEF Find, Asking, End
        <3>2. /\ Kind(Top.of) = "struct" /\ Top.at = "first"
              /\ Found(opaques[Use.of], toFill(Use)) # {}
            BY <1>3, <3>1 DEF Find
        <3> QED
            <4>1. \E k \in 2 .. Len(frames) :
                    /\ frames[k].of = Use.of /\ frames[k].args = toFill(Use)
                    /\ Kind(frames[k].of) = "struct" /\ frames[k].at = "first"
                BY <3>1, <3>2, OpaqueHasFrame
            <4>2. /\ "incomplete member" # "repeated name" /\ "incomplete member" # "undefined"
                OBVIOUS
            <4> QED
                BY <2>1, <3>2, <4>1, <4>2, EndedErrors
    <2>2. CASE ~End("incomplete member")
        BY <1>2, <1>3, <2>2 DEF Find, Asking
    <2> QED
        BY <2>1, <2>2
<1>4. CASE Refuse
    <2>1. CASE End("no type")
        BY <1>2, <2>1 DEF End
    <2>2. CASE ~End("no type")
        <3>1. /\ End("repeated name") /\ Asking /\ NotMade(Use, toFill(Use))
              /\ Full(Use, toFill(Use)) \in names[Use.of]
            BY <1>4, <2>2 DEF Refuse
        <3>2. LeftOut
            BY <3>1, NamedIsMade
        <3> QED
            BY <3>1, <3>2, EndedErrors
    <2> QED
        BY <2>1, <2>2
<1>5. CASE TakeNullDefault
    <2>1. End("undefined") /\ Asking /\ NullDefault(Use)
        BY <1>5 DEF TakeNullDefault
    <2>2. LeftOut \/ \E k \in 2 .. Len(frames) : frames[k].of = Use.of /\ Kind(frames[k].of) = "definition"
        BY <2>1, NullDefaultOfDefinition
    <2> QED
        BY <2>1, <2>2, EndedErrors
<1>6. CASE Begin
    <2>1. CASE End("too deep")
        BY <1>2, <2>1 DEF End
    <2>2. CASE ~End("too deep")
        BY <1>2, <1>6, <2>2 DEF Begin, Asking
    <2> QED
        BY <2>1, <2>2
<1>7. CASE Create
    BY <1>2, <1>7 DEF Create, AskedAll
<1>8. CASE Finish
    <2>1. CASE \E i \in Params(Top.of) : values[Top.of][i] = <<>>
        <3>1. End("undefined") /\ LeftOut
            BY <1>8, <2>1, TopHeld DEF Finish
        <3> QED
            BY <3>1, EndedErrors
    <2>2. CASE ~\E i \in Params(Top.of) : values[Top.of][i] = <<>>
        BY <1>2, <1>8, <2>2 DEF Finish, AskedAll
    <2> QED
        BY <2>1, <2>2
<1>9. CASE EndMain
    BY <1>2, <1>9 DEF EndMain, End
<1> QED
    BY <1>1, <1>3, <1>4, <1>5, <1>6, <1>7, <1>8, <1>9 DEF Next

(* In every program: a member is refused as incomplete only where its type *)
(* is still getting members; unless a list of arguments is left out, no    *)
(* name is repeated and no parameter gives up a value it was not given;    *)
(* and a null default is taken only of a definition that is being made.    *)
THEOREM OnlyErrorsAreRefused == Spec => []ErrorsAreDeserved
<1> DEFINE Inv1 == FramesInv /\ FilesInv /\ OpenInv /\ NamesInv
           Inv2 == LeftOut \/ Given
           Inv3 == KnownInv /\ FiledInv /\ ErrorsAreDeserved
<1>1. Init => Inv3
    <2> SUFFICES ASSUME Init PROVE Inv3
        OBVIOUS
    <2>1. KnownInv
        <3>1. known = {p \in {<<g, i>> : g \in Generic, i \in UNION {Params(g) : g \in Generic}} :
                    /\ p[2] \in Params(p[1]) /\ Kind(p[1]) # "definition"
                    /\ program[p[1]].defaults[p[2]] # NoType}
            BY DEF Init
        <3>2. SUFFICES ASSUME NEW g \in Generic, Kind(g) # "definition", NEW i \in Params(g),
                              program[g].defaults[i] # NoType
                       PROVE  <<g, i>> \in known
            BY DEF KnownInv
        <3>3. i \in UNION {Params(h) : h \in Generic}
            OBVIOUS
        <3>4. <<g, i>> \in {<<h, j>> : h \in Generic, j \in UNION {Params(h) : h \in Generic}}
            BY <3>3
        <3> QED
            BY <3>1, <3>2, <3>4
    <2>2. FiledInv
        BY DEF Init, FiledInv
    <2>3. ErrorsAreDeserved
        BY DEF Init, ErrorsAreDeserved
    <2> QED
        BY <2>1, <2>2, <2>3
<1>2. Inv1 /\ Inv2 /\ Inv3 /\ [Next]_vars => Inv3'
    BY KnownStep, FiledStep, ErrorsStep
<1>3. Spec => []Inv1
    BY OnceInvariant, PTL
<1>4. Spec => []Inv2
    BY GivenInvariant, PTL
<1>5. Inv3 => ErrorsAreDeserved
    OBVIOUS
<1> QED
    BY <1>1, <1>2, <1>3, <1>4, <1>5, PTL DEF Spec
===============================================================================

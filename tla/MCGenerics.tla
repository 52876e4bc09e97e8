------------------------------ MODULE MCGenerics ------------------------------
(***************************************************************************)
(* Programs for Generics: a struct of two parameters, a function and a     *)
(* type definition, with one use at most in each of their parts.           *)
(***************************************************************************)
EXTENDS Generics

CONSTANTS fn, st, df

Num  == [base |-> "num", depth |-> 0]
Text == [base |-> "text", depth |-> 0]

Type(t)     == [is |-> "type", type |-> t]
Name(k)     == [is |-> "name", param |-> k]
Pointer(k)  == [is |-> "pointer", param |-> k]
Default     == [is |-> "default"]
Ask(g, args, by) == [of |-> g, args |-> args, by |-> by]
Asked(g, lists)  == {<<Ask(g, args, "pointer")>> : args \in lists}

Nothing == {<<>>}
OneFrom(k) == {<<Name(k)>>, <<Type(Text)>>}
TwoFrom(k, l) == {<<Name(k), Name(l)>>, <<Name(l), Name(k)>>, <<Name(k), Default>>}

Members == Nothing \cup Asked(st, {<<Name(2), Name(1)>>, <<Pointer(1), Type(Text)>>})
             \cup {<<Ask(st, <<Name(2), Name(1)>>, "value")>>}
             \cup Asked(df, {<<Pointer(2)>>})
Methods == Nothing \cup Asked(st, {<<Name(2), Name(1)>>, <<Name(1), Default>>, <<>>})
             \cup Asked(fn, {<<Name(2)>>, <<Pointer(1)>>}) \cup Asked(df, {<<Name(1)>>})
Bodies  == Nothing \cup Asked(fn, {<<Name(1)>>, <<Type(Text)>>, <<>>}) \cup Asked(df, {<<Default>>})
             \cup Asked(st, {<<Name(1), Default>>, <<Type(Text), Name(1)>>})
Subtypes == Nothing \cup Asked(st, {<<Name(1), Type(Num)>>}) \cup Asked(df, {<<Default>>, <<Pointer(1)>>})
Mains   == {one \o other :
              one \in Asked(st, {<<Type(Num), Type(Text)>>, <<Type(Text), Default>>}) \cup Asked(fn, {<<Type(Num)>>}),
              other \in Asked(st, {<<Type(Text), Type(Num)>>, <<Type(Num), Type(Text)>>})
                          \cup Asked(fn, {<<Type(Num)>>, <<>>}) \cup Asked(df, {<<Default>>})}

Declared(kind, defaults, first, later) ==
    [kind |-> kind, defaults |-> defaults, first |-> first, later |-> later]

(* What is needed first is waited for: a circle of that is never emitted.  *)
Waits(members, subtype) ==
    \E a \in ToSet(members), b \in ToSet(subtype) : a.of = df /\ b.of = st

AllPrograms ==
    {(st :> Declared("struct", <<Text, Num>>, part.members, part.methods)
        @@ fn :> Declared("function", <<IF part.signature = <<>> THEN Num ELSE NoType>>,
                          part.signature, part.body)
        @@ df :> Declared("definition", <<Num>>, part.subtype, <<>>)
        @@ Main :> Declared("main", <<>>, <<>>, part.main)) :
     part \in {p \in [members : Members, methods : Methods,
                      signature : Nothing \cup Asked(df, {<<Name(1)>>}),
                      body : Bodies, subtype : Subtypes, main : Mains] :
                   ~Waits(p.members, p.subtype)}}
================================================================================

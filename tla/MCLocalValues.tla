----------------------------- MODULE MCLocalValues -----------------------------
(***************************************************************************)
(* Types for LocalValues: each kind with each part, and with two.          *)
(***************************************************************************)
EXTENDS LocalValues

CONSTANTS p, q, r   \* locals

Parameters == <<p, q>>

T(kind, parts) == [kind |-> kind, parts |-> parts]
Part == {"plain", "owner", "mover"}

PartTypes == {T("maybe", <<one>>) : one \in Part}
                \cup {T(k, <<one, other>>) : k \in {"tuple", "struct"}, one \in Part, other \in Part}

MixTypes == {T("mix", <<"owner", "none">>)}
================================================================================

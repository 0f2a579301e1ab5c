--------------------------- MODULE MCPackedTable ---------------------------
(***************************************************************************)
(* Instances of PackedTable for TLC: all rows over small sets of symbols,  *)
(* and a row with two actions for a token, which an ERROR that the         *)
(* resolution of a conflict leaves beside a REDUCE makes.                  *)
(***************************************************************************)
EXTENDS PackedTable

Sorted(L) == [j \in 1..Cardinality(L) |-> CHOOSE x \in L : Cardinality({y \in L : y < x}) = j - 1]

RowsOver(S) ==
    UNION {{[j \in DOMAIN Sorted(L) |-> <<Sorted(L)[j], f[Sorted(L)[j]]>>] : f \in [L -> Numbers]} :
               L \in (SUBSET S) \ {{}}}

AllTokenRows == RowsOver(Tokens) \cup {<<<<1, p[1]>>, <<1, p[2]>>>> : p \in {q \in Numbers \X Numbers : q[1] < q[2]}}
AllNtRows    == RowsOver(Nonterminals)
=============================================================================

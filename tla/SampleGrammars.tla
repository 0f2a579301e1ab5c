--------------------------- MODULE SampleGrammars ---------------------------
(***************************************************************************)
(* Grammars for TLC: three tokens and three nonterminals; a small family,  *)
(* all of it, and some grammars that are known to be hard.                 *)
(***************************************************************************)
EXTENDS Grammar

a == 1
b == 2
c == 3
S == 4
A == 5
B == 6
ab == 8       \* a token class

(* A rule with code, and one without. *)
R(lhs, rhs) == [lhs |-> lhs, rhs |-> rhs, precsym |-> Missing, code |-> TRUE]
U(lhs, rhs) == [lhs |-> lhs, rhs |-> rhs, precsym |-> Missing, code |-> FALSE]

NoPrec  == [t \in 0..3 |-> Missing]
NoAssoc == [t \in 0..3 |-> "UNK"]

Gram(rules) ==
    [nterminal |-> 4, nsymbol |-> 7, rule |-> rules, start |-> Missing,
     prec |-> NoPrec, assoc |-> NoAssoc, subsym |-> [s \in {ab} |-> <<a, b>>],
     wildcard |-> Missing, fallback |-> [t \in {} |-> 0]]

Ranks(gr, p, assoc)  == [gr EXCEPT !.prec = p, !.assoc = assoc]
Wildcard(gr, t)      == [gr EXCEPT !.wildcard = t]
Fallback(gr, t, to)  == [gr EXCEPT !.fallback = [u \in 0..3 |-> IF u = t THEN to ELSE 0]]

Rest2 == {<<>>, <<a>>, <<B>>, <<a, b>>, <<A, b>>, <<B, A>>, <<ab, A>>}

(* Every choice of two rules for A and one for B below S ::= A B. *)
Family ==
    {Gram(<<R(S, <<A, B>>), R(A, x), R(A, y), R(B, z)>>) :
        x \in Rest2, y \in Rest2, z \in {<<>>, <<c>>, <<ab>>, <<A>>}}

(* LALR(1), not SLR(1) *)
NotSlr == Gram(<<R(S, <<A, a, B>>), R(S, <<B>>), R(A, <<b, B>>), R(A, <<c>>), R(B, <<A>>)>>)

(* LR(1), not LALR(1) *)
NotLalr ==
    Gram(<<R(S, <<a, A, a>>), R(S, <<b, B, a>>), R(S, <<a, B, b>>), R(S, <<b, A, b>>),
           R(A, <<c>>), R(B, <<c>>)>>)

Ambiguous == Gram(<<R(S, <<A>>), R(A, <<A, b, A>>), R(A, <<a>>)>>)

(* token classes that overlap *)
Overlap == Gram(<<R(S, <<ab, A>>), R(S, <<a, B>>), R(A, <<b>>), R(B, <<c>>)>>)

(* empty words in a row *)
Empties ==
    Gram(<<R(S, <<A, B, c>>), R(A, <<>>), R(A, <<a, A>>), R(B, <<A, b>>), R(B, <<>>)>>)

Chosen == {NotSlr, NotLalr, Ambiguous, Overlap, Empties}

Arithmetic == Gram(<<R(S, <<A>>), R(A, <<A, a, A>>), R(A, <<A, b, A>>), R(A, <<c>>)>>)

(* Tokens of the same precedence are of one declaration. *)
Ranked ==
    {Ranks(Arithmetic, [NoPrec EXCEPT ![a] = r[1], ![b] = r[2]],
           [NoAssoc EXCEPT ![a] = r[3], ![b] = r[4]]) :
        r \in {q \in {1, 2} \X {1, 2} \X {"LEFT", "RIGHT"} \X {"LEFT", "RIGHT"} :
                  q[1] = q[2] => q[3] = q[4]}}

(* %start names no symbol, and one without rules. *)
Unknown == [Gram(<<R(S, <<A>>), R(A, <<a>>), R(A, <<B, a>>)>>) EXCEPT !.start = 99]

(* Reductions of single symbols that need no code. *)
Chain == Gram(<<R(S, <<A, c, A>>), U(A, <<B>>), R(A, <<a, B>>), U(B, <<b>>), U(B, <<b, A>>)>>)

Units == Gram(<<U(S, <<A>>), U(A, <<B>>), R(A, <<A, a, B>>), U(B, <<c>>), R(B, <<b, B>>)>>)

(* c stands for any token that does not fit. *)
Wild == Wildcard(Gram(<<R(S, <<b, A, b>>), R(A, <<a>>), R(A, <<a, c, c>>), R(A, <<>>)>>), c)

(* b may stand for a where b itself does not fit. *)
Keyword == Fallback(Gram(<<R(S, <<b, A>>), R(A, <<a>>), R(A, <<a, b, c>>), R(A, <<c, A>>)>>), b, a)

(* Every word begins with c, which is nowhere else; the stack grows.       *)
Marked == Gram(<<R(S, <<c, A>>), R(A, <<a, A>>), R(A, <<b>>), R(A, <<B, b>>), R(B, <<>>)>>)
=============================================================================

------------------------------ MODULE Grammar ------------------------------
(***************************************************************************)
(* Grammars as lemon.c holds them once the input file has been parsed, and *)
(* what a grammar means: the words it derives and its canonical LR(1)      *)
(* states, by their textbook definitions.  The generator is checked        *)
(* against the second half of this module, which translates no code.       *)
(*                                                                         *)
(* A symbol is its index: 0 is "$", then come the other terminals, the     *)
(* nonterminals, "{default}" at nsymbol, and the token classes after it.   *)
(***************************************************************************)
EXTENDS Integers, Sequences, FiniteSets, SequencesExt

Missing == -1     \* a null pointer, or a precedence that was not given

Terminals(g)    == 0 .. g.nterminal - 1
Nonterminals(g) == g.nterminal .. g.nsymbol - 1
Default(g)      == g.nsymbol
Classes(g)      == DOMAIN g.subsym
Rules(g)        == DOMAIN g.rule

(* The terminals a terminal or a token class stands for. *)
Tokens(g, s) == IF s \in Classes(g) THEN ToSet(g.subsym[s]) ELSE {s}

RulesOf(g, s) == {r \in Rules(g) : g.rule[r].lhs = s}

(* The start symbol: %start, or the left side of the first rule. *)
Start(g) == IF g.start \in Terminals(g) \cup Nonterminals(g) THEN g.start
            ELSE g.rule[1].lhs

(* A configuration: a rule and how much of its right side has been seen. *)
Item(r, dot)   == <<r, dot>>
Complete(g, c) == c[2] = Len(g.rule[c[1]].rhs)
After(g, c)    == g.rule[c[1]].rhs[c[2] + 1]
Rest(g, c)     == SubSeq(g.rule[c[1]].rhs, c[2] + 2, Len(g.rule[c[1]].rhs))
Advance(c)     == <<c[1], c[2] + 1>>

SameSymbol(g, a, b) ==
    \/ a = b
    \/ a \in Classes(g) /\ b \in Classes(g) /\ g.subsym[a] = g.subsym[b]

(* Rules with code come first: the rule numbers of the generated tables.   *)
HasCode(g, r) == g.rule[r].code
IRule(g, r) ==
    Cardinality({q \in Rules(g) : \/ HasCode(g, q) /\ ~HasCode(g, r)
                                  \/ HasCode(g, q) = HasCode(g, r) /\ q < r})

(* A finite set in the order of a comparison; msort and qsort. *)
SortedSeq(T, before(_, _)) ==
    LET rank == [x \in T |-> Cardinality({y \in T : before(y, x)}) + 1]
    IN  [i \in 1..Cardinality(T) |-> CHOOSE x \in T : rank[x] = i]

-----------------------------------------------------------------------------
(* The words of at most k tokens that the nonterminals derive, as a set L  *)
(* of pairs <<symbol, word>>.                                              *)

WordsOf(g, L, s) == IF s \in Nonterminals(g) THEN {p[2] : p \in {q \in L : q[1] = s}}
                    ELSE {<<t>> : t \in Tokens(g, s)}

Join(U, V, k) == {w \in {u \o v : u \in U, v \in V} : Len(w) <= k}

Yield(g, L, rhs, k) ==
    FoldLeft(LAMBDA U, s : Join(U, WordsOf(g, L, s), k), {<<>>}, rhs)

RECURSIVE Derive(_, _, _)
Derive(g, L, k) ==
    LET more == UNION {{<<g.rule[r].lhs, w>> : w \in Yield(g, L, g.rule[r].rhs, k)} :
                           r \in Rules(g)}
    IN  IF more = L THEN L ELSE Derive(g, more, k)

Words(g, k) == Derive(g, {}, k)

-----------------------------------------------------------------------------
(* The same with what a derivation makes of the word, as a set of triples  *)
(* <<symbol, word, trace>>: the rules whose code runs, in the order of the *)
(* reductions from left to right.                                          *)

MeaningsOf(g, L, s) ==
    IF s \in Nonterminals(g) THEN {<<d[2], d[3]>> : d \in {e \in L : e[1] = s}}
    ELSE {<<<<t>>, <<>>>> : t \in Tokens(g, s)}

JoinBoth(U, V, k) ==
    {m \in {<<u[1] \o v[1], u[2] \o v[2]>> : u \in U, v \in V} : Len(m[1]) <= k}

Meanings(g, L, r, k) ==
    LET code == IF HasCode(g, r) THEN <<r>> ELSE <<>>
        both == FoldLeft(LAMBDA U, s : JoinBoth(U, MeaningsOf(g, L, s), k), {<<<<>>, <<>>>>},
                         g.rule[r].rhs)
    IN  {<<g.rule[r].lhs, m[1], m[2] \o code>> : m \in both}

RECURSIVE Translate(_, _, _)
Translate(g, L, k) ==
    LET more == UNION {Meanings(g, L, r, k) : r \in Rules(g)}
    IN  IF more = L THEN L ELSE Translate(g, more, k)

Translations(g, k) == MeaningsOf(g, Translate(g, {}, k), Start(g))

-----------------------------------------------------------------------------
(* Canonical LR(1): items <<rule, dot, lookahead>>. *)

FirstOf(g, L, rest, t) ==
    LET upTo(i)  == \A j \in 1..i : <<rest[j], <<>>>> \in L
        heads(s) == {Head(w) : w \in WordsOf(g, L, s) \ {<<>>}}
    IN  UNION {heads(rest[i]) : i \in {n \in DOMAIN rest : upTo(n - 1)}}
            \cup (IF upTo(Len(rest)) THEN {t} ELSE {})

RECURSIVE Closure1(_, _, _)
Closure1(g, L, I) ==
    LET open == {i \in I : ~Complete(g, i)}
        new  == UNION {{<<r, 0, t>> : r \in RulesOf(g, After(g, i)),
                                      t \in FirstOf(g, L, Rest(g, i), i[3])} : i \in open}
    IN  IF new \subseteq I THEN I ELSE Closure1(g, L, I \cup new)

Goto1(g, L, I, s) ==
    Closure1(g, L, {<<i[1], i[2] + 1, i[3]>> :
                        i \in {j \in I : ~Complete(g, j) /\ SameSymbol(g, After(g, j), s)}})

RECURSIVE Reach1(_, _, _, _)
Reach1(g, L, seen, todo) ==
    IF todo = {} THEN seen
    ELSE LET next == UNION {{Goto1(g, L, I, After(g, i)) :
                                i \in {j \in I : ~Complete(g, j)}} : I \in todo}
         IN  Reach1(g, L, seen \cup next, next \ seen)

CanonicalStates(g, k) ==
    LET L    == Words(g, k)
        init == Closure1(g, L, {<<r, 0, 0>> : r \in RulesOf(g, Start(g))})
    IN  Reach1(g, L, {init}, {init})

Core(I) == {<<i[1], i[2]>> : i \in I}

(* The LALR(1) states: the canonical states with the same core, merged. *)
LalrStates(g, k) ==
    LET C == CanonicalStates(g, k)
    IN  {UNION {J \in C : Core(J) = Core(I)} : I \in C}
=============================================================================

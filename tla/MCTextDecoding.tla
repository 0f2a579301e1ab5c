--------------------------- MODULE MCTextDecoding ---------------------------
(***************************************************************************)
(* Texts for TLC: all short ones over characters that decoding tells       *)
(* apart.                                                                  *)
(***************************************************************************)
EXTENDS TextDecoding

CONSTANT HexDigits     \* digits of the escapes of JSON strings

SeqsOf(S, n) == UNION {[1..k -> S] : k \in 0..n}

(* Values as the grammar lets them through: a slash, a plus, percent       *)
(* escapes of several kinds, among them one of "%".                        *)
Units == {<<47>>, <<43>>, <<54>>, <<37, 54, 97>>, <<37, 50, 53>>, <<37, 50, 66>>}

Values(n) == {FlattenSeq(u) : u \in SeqsOf(Units, n)}

Of(op, data, length, plus) == [op |-> op, data |-> data, length |-> length, plus |-> plus]

(* "GET", a path, which may be empty after dot segments, and a blank. *)
Paths ==
    {[buf |-> <<71, 32>> \o v \o <<32>>,
      todo |-> <<Of("decodeValue", 3, Len(v), FALSE)>>] : v \in Values(4)}

(* key=value& *)
KeyVals ==
    {[buf |-> p[1] \o <<61>> \o p[2] \o <<38>>,
      todo |-> <<Of("decodeValue", 1, Len(p[1]), TRUE),
                 Of("decodeValue", Len(p[1]) + 2, Len(p[2]), TRUE)>>] :
        p \in (Values(2) \ {<<>>}) \X (Values(2) \ {<<>>})}

(* key:field and the end of the line *)
Fields ==
    {[buf |-> <<107, 58>> \o v \o <<13, 10>>, todo |-> <<Of("trim", 3, Len(v), FALSE)>>] :
        v \in SeqsOf({9, 32, 120}, 5) \ {<<>>}}

(* A string of a document: plain characters, escapes of one and two bytes, *)
(* and an escape and a character that are not allowed.                     *)
Escapes == {<<92, 117>> \o h : h \in HexDigits}
InString == {<<120>>, <<117>>, <<92, 34>>, <<92, 92>>} \cup Escapes

StringsOf(n) == {<<34>> \o FlattenSeq(u) \o <<34>> : u \in SeqsOf(InString, n)}

JsonOf(S) == {[buf |-> t, todo |-> <<Of("json", 1, Len(t), FALSE)>>] : t \in S}

(* {"..":".."}, and texts with what is not allowed in a string. *)
Documents ==
    JsonOf({<<123>> \o k \o <<58>> \o v \o <<125>> : k \in StringsOf(2), v \in StringsOf(3)}
           \cup {<<34, 120>> \o u \o <<34>> : u \in {<<47>>, <<92, 120>>, <<92, 117, 49, 120>>}})

DigitEscapes  == {<<48, 48, 55, 52>>, <<51, 48, 52, 50>>}
LetterEscapes == {<<48, 48, 54, 70>>}

All == Paths \cup KeyVals \cup Fields \cup Documents
=============================================================================

---------------------------- MODULE TextDecoding ----------------------------
(***************************************************************************)
(* Text is decoded in the buffer it was received in: paths and parameters  *)
(* by decodeValue, header fields by trim, the strings of a JSON document   *)
(* by the actions of the grammar, while the parser reads on.  A string is  *)
(* a place in the buffer and a length; what is decoded stays where it was, *)
(* for the callbacks and for the names on the parse stack.                 *)
(*                                                                         *)
(* Characters are their codes, positions of the buffer begin with 1.       *)
(***************************************************************************)
EXTENDS Integers, Sequences, FiniteSets, SequencesExt

CONSTANTS
    Texts      \* [buf, todo]: a text the grammar accepts, and what is done
               \* with it, as a sequence of records [op, data, length, plus]

Tab == 9      Space == 32   Quote == 34   Percent == 37   Plus == 43
Slash == 47   Backslash == 92   LetterU == 117

NA == 127
SizeBits == 16      \* size_t is wider; the values are shorter

EmptyString == [data |-> 0, length |-> 0]     \* a place outside the buffer
None        == [data |-> 0, length |-> -1]

VARIABLES
    buf,
    todo,       \* what is left to do
    pc,
    s,          \* the string being decoded or trimmed
    readPos, writePos,
    esc,        \* of a JSON escape: how many of its characters have been read
    c, cs,      \* the json_char that is not yet part of json_chars, and these
    told,       \* the strings that callbacks were given
    \* history:
    received,   \* [buf, todo] at first
    read,       \* the places that the last step has read
    within      \* the places that belong to the values read so far

vars == <<buf, todo, pc, s, readPos, writePos, esc, c, cs, told, received, read, within>>

Text(b, str) == SubSeq(b, str.data, str.data + str.length - 1)
Span(str)    == str.data .. str.data + str.length - 1

Overwrite(b, at, new) ==
    [i \in DOMAIN b |-> IF i \in at .. at + Len(new) - 1 THEN new[i - at + 1] ELSE b[i]]

(* The characters as the table ascii[] and the grammar of JSON strings tell *)
(* them apart.  (NULL is one of the token class control, so that a string   *)
(* does not end with the text.)                                             *)
IsHexdig(ch)  == ch \in 48..57 \cup 65..70 \cup 97..102
Unescaped(ch) == ch \in 0..255 \ {Quote, Backslash, Slash, 91, 93, 123, 125, 10, 13}
Escapable(ch) == ch \in {Quote, Backslash, Slash, 8, Tab, 10, 12, 13}

Jobs == [op : {"decodeValue", "trim", "json"}, data : Nat \ {0}, length : Nat, plus : BOOLEAN]

(* What the grammar hands to the decoders lies in the text, a '%' of a path *)
(* or a parameter with two digits behind it and a field with the end of    *)
(* its line.                                                               *)
Fits(b, job) ==
    /\ job.data + job.length <= Len(b) + (IF job.op = "trim" THEN 0 ELSE 1)
    /\ job.op = "decodeValue" =>
          \A i \in Span(job) : b[i] = Percent =>
             i + 2 \in Span(job) /\ IsHexdig(b[i + 1]) /\ IsHexdig(b[i + 2])

ASSUME TextsAssumption ==
    \A t \in Texts :
        /\ t.buf \in Seq(0..255) /\ t.todo \in Seq(Jobs)
        /\ \A k \in DOMAIN t.todo :
              /\ Fits(t.buf, t.todo[k])
              /\ \A j \in 1..k - 1 : Span(t.todo[j]) \cap Span(t.todo[k]) = {}

-----------------------------------------------------------------------------
Failed == pc' = "failed" /\ UNCHANGED todo

Tell(str) == told' = Append(told, str) /\ todo' = Tail(todo) /\ pc' = "next"

(* decodeValue and trim refuse an empty string that is not the empty one.  *)
Begin ==
    /\ pc = "next" /\ todo # <<>>
    /\ s' = [data |-> Head(todo).data, length |-> Head(todo).length]
    /\ readPos' = 0 /\ writePos' = 0
    /\ esc' = 0 /\ c' = None /\ cs' = None
    /\ read' = {}
    /\ within' = IF Head(todo).op = "json" THEN within ELSE within \cup Span(s')
    /\ IF s'.length = 0 THEN Failed ELSE pc' = Head(todo).op /\ UNCHANGED todo
    /\ UNCHANGED <<buf, told, received>>

-----------------------------------------------------------------------------
(* decodeValue, one character or escape a step.                            *)

tbl(ch) ==
    IF ch \in 48..57 THEN ch - 48 ELSE IF ch \in 65..70 THEN ch - 55
    ELSE IF ch \in 97..102 THEN ch - 87 ELSE NA

Char(i) == buf[s.data + i]

SizeT(n) == IF n < 0 THEN n + 2^SizeBits ELSE n

Write(ch) == buf' = Overwrite(buf, s.data + writePos, <<ch>>) /\ writePos' = writePos + 1

\* Mistake: the loop runs once more.
MoreInclusive == readPos <= s.length

More == readPos < s.length

(* "%" and two digits. *)
\* Mistake: an escape at the end is taken for one that is cut off.
EscapeFitsShort == readPos < SizeT(s.length - 3)

EscapeFits == readPos < SizeT(s.length - 2)

DecodeEscape ==
    /\ pc = "decodeValue" /\ More /\ Char(readPos) = Percent
    /\ read' = {s.data + readPos + k : k \in 0..2}
    /\ LET digits == <<tbl(Char(readPos + 1)), tbl(Char(readPos + 2))>>
       IN  IF EscapeFits /\ digits[1] # NA /\ digits[2] # NA
           THEN /\ Write(16 * digits[1] + digits[2])
                /\ readPos' = readPos + 3 /\ UNCHANGED <<pc, todo>>
           ELSE Failed /\ UNCHANGED <<buf, readPos, writePos>>
    /\ UNCHANGED <<s, esc, c, cs, told, received, within>>

DecodeChar ==
    /\ pc = "decodeValue" /\ More /\ Char(readPos) # Percent
    /\ read' = {s.data + readPos}
    /\ Write(IF Char(readPos) = Plus /\ Head(todo).plus THEN Space ELSE Char(readPos))
    /\ readPos' = readPos + 1
    /\ UNCHANGED <<todo, pc, s, esc, c, cs, told, received, within>>

DecodeEnd ==
    /\ pc = "decodeValue" /\ ~More
    /\ s' = [s EXCEPT !.length = writePos] /\ Tell(s') /\ read' = {}
    /\ UNCHANGED <<buf, readPos, writePos, esc, c, cs, received, within>>

-----------------------------------------------------------------------------
(* trim, one character a step; it looks at a character before it looks at  *)
(* the length, and so at one beyond the value when that is empty.          *)

Blank(i) == Char(i) \in {Space, Tab} /\ 0 < s.length

TrimLeft ==
    /\ pc = "trim" /\ read' = {s.data}
    /\ IF Blank(0) THEN s' = [data |-> s.data + 1, length |-> s.length - 1] /\ UNCHANGED pc
       ELSE pc' = "trimRight" /\ UNCHANGED s
    /\ UNCHANGED <<buf, todo, readPos, writePos, esc, c, cs, told, received, within>>

TrimRight ==
    /\ pc = "trimRight" /\ read' = {s.data + s.length - 1}
    /\ IF Blank(s.length - 1)
       THEN s' = [s EXCEPT !.length = @ - 1] /\ UNCHANGED <<pc, todo, told>>
       ELSE s' = (IF s.length = 0 THEN EmptyString ELSE s) /\ Tell(s')
    /\ UNCHANGED <<buf, readPos, writePos, esc, c, cs, received, within>>

-----------------------------------------------------------------------------
(* Strings of a JSON document.  A json_char is appended with the token     *)
(* that follows it, when the parser reduces; an escape "\u" and four       *)
(* digits is then replaced by one or two bytes in the place of its digits. *)

(* convertUtf16ToString: a letter counts from 0, not from 10. *)
Digit(ch) == IF ch <= 57 THEN ch - 48 ELSE (ch - 65) % 32

Utf16(b, at) ==
    LET byte(i) == 16 * Digit(b[i]) + Digit(b[i + 1])
    IN  IF b[at] = 48 /\ b[at + 1] = 48 THEN <<byte(at + 2)>> ELSE <<byte(at), byte(at + 2)>>

IsUtf16 == c.length = 4

Bytes == IF IsUtf16 THEN Utf16(buf, c.data) ELSE Text(buf, c)

Converted == IF IsUtf16 THEN Overwrite(buf, c.data, Bytes) ELSE buf

Reduce ==
    IF c = None THEN UNCHANGED <<buf, cs>>
    ELSE IF cs = None
    THEN buf' = Converted /\ cs' = [data |-> c.data, length |-> Len(Bytes)]
    ELSE /\ buf' = Overwrite(Converted, cs.data + cs.length, Bytes)
         /\ cs' = [cs EXCEPT !.length = @ + Len(Bytes)]

At == s.data + readPos
Ch == buf[At]

Reading == readPos < s.length /\ read' = {At} /\ readPos' = readPos + 1

\* Mistake: a string is appended to the one before.
Continue == UNCHANGED cs

Restart == cs' = None

Outside ==
    /\ pc = "json" /\ Reading
    /\ IF Ch = Quote THEN pc' = "string" /\ Restart ELSE UNCHANGED <<pc, cs>>
    /\ UNCHANGED <<buf, todo, s, writePos, esc, c, told, received, within>>

(* A character of a string, or the last one of an escape, or one before. *)
Sym(str) == c' = str /\ esc' = 0 /\ UNCHANGED pc
Part     == c' = None /\ esc' = esc + 1 /\ UNCHANGED pc

Inside ==
    /\ pc = "string" /\ Reading /\ ~(esc = 0 /\ Ch = Quote)
    /\ Reduce
    /\ within' = within \cup {At}
    /\ IF \/ esc = 0 /\ Unescaped(Ch)
          \/ esc = 1 /\ Escapable(Ch)
       THEN Sym([data |-> At, length |-> 1])
       ELSE IF \/ esc = 0 /\ Ch = Backslash
               \/ esc = 1 /\ Ch = LetterU
               \/ esc \in 2..4 /\ IsHexdig(Ch)
       THEN Part
       ELSE IF esc = 5 /\ IsHexdig(Ch) THEN Sym([data |-> At - 3, length |-> 4])
       ELSE pc' = "failed" /\ c' = None /\ UNCHANGED esc
    /\ UNCHANGED <<todo, s, writePos, told, received>>

EndString ==
    /\ pc = "string" /\ Reading /\ esc = 0 /\ Ch = Quote
    /\ Reduce
    /\ told' = Append(told, IF cs' = None THEN EmptyString ELSE cs')
    /\ pc' = "json" /\ c' = None
    /\ UNCHANGED <<todo, s, writePos, esc, received, within>>

EndText ==
    /\ pc = "json" /\ readPos = s.length
    /\ pc' = "next" /\ todo' = Tail(todo) /\ read' = {}
    /\ UNCHANGED <<buf, s, readPos, writePos, esc, c, cs, told, received, within>>

-----------------------------------------------------------------------------
Init ==
    /\ received \in Texts
    /\ buf = received.buf /\ todo = received.todo
    /\ pc = "next" /\ s = None /\ readPos = 0 /\ writePos = 0
    /\ esc = 0 /\ c = None /\ cs = None /\ told = <<>>
    /\ read = {} /\ within = {}

Next ==
    \/ Begin \/ DecodeEscape \/ DecodeChar \/ DecodeEnd
    \/ TrimLeft \/ TrimRight
    \/ Outside \/ Inside \/ EndString \/ EndText

Spec == Init /\ [][Next]_vars

-----------------------------------------------------------------------------
(* What a value means: its characters, an escape being one of them.  The   *)
(* grammar lets a '%' through only with two digits.                        *)
Starts(v)  == {i \in DOMAIN v : \A k \in {i - 1, i - 2} \cap DOMAIN v : v[k] # Percent}
Rank(v, i) == Cardinality({j \in Starts(v) : j <= i})

CharAt(v, plus, i) ==
    IF v[i] = Percent THEN 16 * tbl(v[i + 1]) + tbl(v[i + 2])
    ELSE IF v[i] = Plus /\ plus THEN Space ELSE v[i]

Meant(v, plus) ==
    [k \in 1..Rank(v, Len(v)) |-> CharAt(v, plus, CHOOSE i \in Starts(v) : Rank(v, i) = k)]

(* What a field means: what is between its first and last character that   *)
(* is no blank.                                                            *)
Trimmed(v) ==
    LET solid == {i \in DOMAIN v : v[i] \notin {Space, Tab}}
    IN  IF solid = {} THEN <<>>
        ELSE SubSeq(v, CHOOSE i \in solid : \A j \in solid : i <= j,
                       CHOOSE i \in solid : \A j \in solid : j <= i)

(* The strings of a document from a place on, which is inside of one or    *)
(* not.  Escapes are UTF-16 units, the high byte first and left out where  *)
(* it is 0.                                                                *)
IsUnit(v, i) == v[i] = Backslash /\ v[i + 1] = LetterU

JsonChar(v, i) ==
    LET byte(k) == 16 * tbl(v[i + k]) + tbl(v[i + k + 1])
    IN  IF IsUnit(v, i)
        THEN IF byte(2) = 0 THEN <<byte(4)>> ELSE <<byte(2), byte(4)>>
        ELSE <<IF v[i] = Backslash THEN v[i + 1] ELSE v[i]>>

Behind(v, i) == i + (IF IsUnit(v, i) THEN 6 ELSE IF v[i] = Backslash THEN 2 ELSE 1)

StringsAt(v, from, i, inside) ==
    IF i > Len(v) THEN IF inside THEN <<<<>>>> ELSE <<>>
    ELSE IF v[i] = Quote THEN (IF inside THEN <<<<>>>> ELSE <<>>) \o from[i + 1][~inside]
    ELSE IF ~inside THEN from[i + 1][FALSE]
    ELSE LET rest == from[Behind(v, i)][TRUE] IN <<JsonChar(v, i) \o Head(rest)>> \o Tail(rest)

StringsFrom(v) ==
    LET from[i \in Nat] == [inside \in BOOLEAN |-> StringsAt(v, from, i, inside)] IN from

MeantBy(job) ==
    LET v == Text(received.buf, job)
    IN  CASE job.op = "decodeValue" -> <<Meant(v, job.plus)>>
          [] job.op = "trim"        -> <<Trimmed(v)>>
          [] job.op = "json"        -> StringsFrom(v)[1][FALSE]

Done == pc = "next" /\ todo = <<>>

Given == [k \in DOMAIN told |-> Text(buf, told[k])]

(* Letters among the digits of an escape. *)
HasHexLetter ==
    \E i \in DOMAIN received.buf : \E k \in 2..5 :
        /\ received.buf[i] = Backslash /\ i + 5 \in DOMAIN received.buf
        /\ received.buf[i + 1] = LetterU /\ received.buf[i + k] > 57

AsMeant == Done => Given = FlattenSeq([j \in DOMAIN received.todo |-> MeantBy(received.todo[j])])

(* Nothing that the grammar lets through is refused but what is empty.     *)
OnlyEmptyRefused == pc = "failed" /\ todo # <<>> /\ Head(todo).op # "json" => s.length = 0

(* When all is read, each string given to a callback is still what the     *)
(* text meant by it, although all that came after it has been decoded in   *)
(* the same buffer, but for escapes with letters; and nothing is refused.  *)
GivenAsMeant == (~HasHexLetter => AsMeant) /\ OnlyEmptyRefused

(* t_7.c: the name written "au\u0074hor" is "author", so an escape is the  *)
(* character with the code that its digits give.  The code does not keep   *)
(* this for the digits A to F.                                             *)
EscapeIsCharacter == AsMeant

(* Decoding changes nothing but the values themselves: what separates them *)
(* and what has not been read is as it was received.                       *)
RestAsReceived == \A i \in DOMAIN buf \ within : buf[i] = received.buf[i]

(* No step reads outside the buffer, and decodeValue none outside its      *)
(* value; trim reads one character beyond a value of blanks, on each side. *)
ReadsInText ==
    /\ read \subseteq DOMAIN buf
    /\ pc = "decodeValue" => read \subseteq Span(s)
=============================================================================

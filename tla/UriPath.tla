------------------------------ MODULE UriPath ------------------------------
(***************************************************************************)
(* The path of a request target (http11Lemon.y 121-187): absolute_path is  *)
(* put into normal form while it is parsed, in the buffer it is read from, *)
(* and handed to the URI callbacks.                                        *)
(*                                                                         *)
(* The path built so far is buf[1 .. pathLength].  The grammar collects    *)
(* one segment at a time and reduces it when it sees the next slash or the *)
(* end, or, the LALR tables having it as the default, any character that   *)
(* cannot follow.                                                          *)
(***************************************************************************)
EXTENDS Integers, Sequences

CONSTANTS
    Slash, Dot,    \* the two characters the grammar treats apart
    Targets        \* paths that are read; other characters are numbers

ASSUME UriPathAssumption ==
    /\ Slash # Dot /\ Slash \notin Nat /\ Dot \notin Nat
    /\ \A t \in Targets : t \in Seq({Slash, Dot} \cup Nat) /\ t # <<>> /\ t[1] = Slash

VARIABLES
    target,      \* what was received
    buf,         \* the same bytes, being rewritten
    pos,         \* place of the next character
    at,          \* what is being collected
    isFirst,     \* it is the first segment
    segStart,    \* where the segment begins, without a leading dot
    segLength,
    pathLength,  \* var_s.length
    outcome      \* "reading"; "reported" to the URI callbacks; "refused",
                 \* decodeValue found it empty; "malformed", reported and
                 \* then followed by a character that does not fit

vars == <<target, buf, pos, at, isFirst, segStart, segLength, pathLength, outcome>>

Chars == {Slash, Dot} \cup Nat

(* A slash; a slash and one dot, or two; a segment; one with a dot first.  *)
Places == {"slash", "dot", "dots", "segment", "dotSegment"}

-----------------------------------------------------------------------------

Greatest(S) == CHOOSE k \in S : \A m \in S : m <= k

(* 151-159: back to before the last slash of the path built so far. *)
Back(length) ==
    LET slashes == {k \in 1..length : buf[k] = Slash}
    IN  IF slashes = {} THEN 0 ELSE Greatest(slashes) - 1

(* Slash, leading dot and segment: what is copied to the end of the path.  *)
From  == IF at = "dotSegment" THEN segStart - 2 ELSE segStart - 1
Count == segStart + segLength - From

\* Mistake: the loop leaves the last character out, i < var_l.length.
CopyShort == [k \in DOMAIN buf |->
    IF k \in pathLength + 1..pathLength + Count - 1 THEN buf[From + k - pathLength - 1] ELSE buf[k]]

Copy == [k \in DOMAIN buf |->
    IF k \in pathLength + 1..pathLength + Count THEN buf[From + k - pathLength - 1] ELSE buf[k]]

IsSegment == at \in {"segment", "dotSegment"}

\* Mistake: the leading dot is counted whether there is one or not.
ReducedLengthDotted ==
    CASE IsSegment /\ isFirst       -> segLength + 2
      [] IsSegment /\ ~isFirst      -> pathLength + segLength + 2
      [] ~IsSegment /\ isFirst      -> 1
      [] ~isFirst /\ at = "dots"    -> Back(pathLength)
      [] OTHER                      -> pathLength

(* absolute_path after the reduction, 138-173. *)
ReducedLength ==
    CASE IsSegment /\ isFirst       -> Count
      [] IsSegment /\ ~isFirst      -> pathLength + Count
      [] ~IsSegment /\ isFirst      -> 1
      [] ~isFirst /\ at = "dots"    -> Back(pathLength)
      [] OTHER                      -> pathLength

ReducedBuf == IF IsSegment /\ ~isFirst THEN Copy ELSE buf

-----------------------------------------------------------------------------
Reading == outcome = "reading"
More    == Reading /\ pos <= Len(target)
Char    == buf[pos]

Shift(place) ==
    /\ at' = place /\ pos' = pos + 1
    /\ UNCHANGED <<target, buf, isFirst, pathLength, outcome>>

StartSegment(place) ==
    /\ Shift(place)
    /\ segStart' = pos /\ segLength' = 1

GrowSegment ==
    /\ Shift(at)
    /\ segLength' = segLength + 1 /\ UNCHANGED segStart

(* pchar *)
Plain ==
    /\ More /\ Char \notin {Slash, Dot}
    /\ \/ at = "slash" /\ StartSegment("segment")
       \/ at = "dot" /\ StartSegment("dotSegment")
       \/ IsSegment /\ GrowSegment

ADot ==
    /\ More /\ Char = Dot
    /\ \/ at = "slash" /\ Shift("dot") /\ UNCHANGED <<segStart, segLength>>
       \/ at = "dot" /\ Shift("dots") /\ UNCHANGED <<segStart, segLength>>
       \/ IsSegment /\ GrowSegment

ASlash ==
    /\ More /\ Char = Slash
    /\ pathLength' = ReducedLength /\ buf' = ReducedBuf
    /\ at' = "slash" /\ isFirst' = FALSE /\ pos' = pos + 1
    /\ UNCHANGED <<target, segStart, segLength, outcome>>

(* request_target: an empty path is what decodeValue refuses, and then no  *)
(* callback is called.                                                     *)
Report(whenGood) ==
    /\ pathLength' = ReducedLength /\ buf' = ReducedBuf
    /\ outcome' = IF pathLength' = 0 THEN "refused" ELSE whenGood
    /\ UNCHANGED <<target, pos, at, isFirst, segStart, segLength>>

(* A space or a question mark follows. *)
End == Reading /\ pos > Len(target) /\ Report("reported")

(* A segment cannot begin with two dots; but the character that shows it   *)
(* also makes the parser reduce the path before, and report it.            *)
Malformed == More /\ at = "dots" /\ Char # Slash /\ Report("malformed")

Init ==
    /\ target \in Targets /\ buf = target
    /\ pos = 2 /\ at = "slash" /\ isFirst = TRUE
    /\ segStart = 0 /\ segLength = 0 /\ pathLength = 0
    /\ outcome = "reading"

Done == ~Reading /\ UNCHANGED vars

Next == Plain \/ ADot \/ ASlash \/ End \/ Malformed \/ Done

Spec == Init /\ [][Next]_vars

-----------------------------------------------------------------------------
(* The normal form, stated without the grammar: the segments between the   *)
(* slashes are taken in turn, an empty one and "." add nothing, ".." takes *)
(* the last one away if there is one, and the root is a slash.             *)
LastSlash(s) ==
    LET slashes == {k \in DOMAIN s : s[k] = Slash}
    IN  IF slashes = {} THEN 0 ELSE Greatest(slashes)

AddSegment(path, segment) ==
    CASE segment \in {<<>>, <<Dot>>} -> path
      [] segment = <<Dot, Dot>>      -> SubSeq(path, 1, LastSlash(path) - 1)
      [] OTHER                       -> path \o <<Slash>> \o segment

\* Of the first p characters of the target.
Normal[p \in 0..Len(target)] ==
    IF p = 0 THEN <<>>
    ELSE LET slash == LastSlash(SubSeq(target, 1, p))
         IN  AddSegment(Normal[slash - 1], SubSeq(target, slash + 1, p))

NormalForm(p) == IF Normal[p] = <<>> THEN <<Slash>> ELSE Normal[p]

(* What the URI callbacks were given, *)
Uri == SubSeq(buf, 1, pathLength)

(* and how much had been read by then. *)
Read == pos - 1

(* The first segment adds nothing to a normal form. *)
TrivialStart ==
    \E k \in 1..3 : /\ \A m \in 2..k : m \in DOMAIN target /\ target[m] = Dot
                    /\ k = Len(target) \/ target[k + 1] = Slash

(* The URI handed over is the normal form of what was read: the moves in   *)
(* place lose and mix nothing up.  If the first segment is "", "." or ".." *)
(* the slash it leaves may be doubled; and only a path that leads back to  *)
(* the root is refused for being empty.                                    *)
UriIsNormal ==
    CASE outcome \in {"reported", "malformed"} ->
            \/ Uri = NormalForm(Read)
            \/ TrivialStart /\ Uri = <<Slash>> \o NormalForm(Read)
      [] outcome = "refused" -> NormalForm(Read) = <<Slash>>
      [] OTHER -> TRUE

(* Rewriting never reaches a character that has not been read, nor one of  *)
(* the segment being moved before it is moved.                             *)
WritesBehindReader ==
    [][\A k \in DOMAIN buf : buf'[k] # buf[k] => k < pos /\ (IsSegment => pathLength < From)]_vars

(* t_5.c: dot segments leave nothing, beyond the root neither: the URI of  *)
(* "/a/b/../../../c" is "/c"; and the grammar says that a path is          *)
(* 1*( "/" segment ), so whoever goes back to the root has asked for "/".  *)
(* Of paths without empty segments the code does not keep this: a dot      *)
(* segment at the start leaves its slash, and one that leads back to the   *)
(* root leaves nothing.                                                    *)
UriIsNormalForm ==
    (/\ outcome \in {"reported", "refused"}
     /\ \A k \in 2..Len(target) : target[k] = Slash => target[k - 1] # Slash)
        => outcome = "reported" /\ Uri = NormalForm(Read)
=============================================================================

------------------------ MODULE JsonPathMatchProofs ------------------------
(***************************************************************************)
(* MatchInv is inductive.  From it: TypeOK, StackRestored, NestingBounded  *)
(* and NoErrorState1 hold for every rule and every parse stack.  With      *)
(* CountInv, inductive relative to it, so does CallsOwed.                  *)
(*                                                                         *)
(* The proof follows what a step does to the open calls: it pops one, it   *)
(* moves the cursors of the innermost one, or it makes the innermost one   *)
(* wait and opens another.  One lemma for each shape says under which      *)
(* conditions it keeps MatchInv; the step of each action then only has to  *)
(* establish these conditions.                                             *)
(*                                                                         *)
(* For CallsOwed the ways to lay a rule over a path are counted behind     *)
(* every pair of cursors, every open call is given what it is still due,   *)
(* and a step, whatever its shape, keeps the sum: the calls of the handler *)
(* that have been made, and what the open calls are due.                   *)
(***************************************************************************)
EXTENDS JsonPathMatch, SequenceTheorems, FiniteSetTheorems, TLAPS

-----------------------------------------------------------------------------
(* Sequences of calls *)

(* A prefix has the elements it is cut from. *)
LEMMA PrefixProperties ==
    ASSUME NEW S, NEW s \in Seq(S), NEW n \in Nat, n <= Len(s)
    PROVE  /\ SubSeq(s, 1, n) \in Seq(S)
           /\ Len(SubSeq(s, 1, n)) = n
           /\ \A i \in 1..n : SubSeq(s, 1, n)[i] = s[i]
  <1>1. \A i \in 1..n : s[i] \in S
    OBVIOUS
  <1>2. /\ SubSeq(s, 1, n) \in Seq(S)
        /\ Len(SubSeq(s, 1, n)) = (IF 1 <= n THEN n - 1 + 1 ELSE 0)
        /\ \A i \in 1..n - 1 + 1 : SubSeq(s, 1, n)[i] = s[1 + i - 1]
    BY <1>1, SubSeqProperties
  <1>3. n - 1 + 1 = n /\ (n < 1 => n = 0) /\ \A i \in 1..n : 1 + i - 1 = i
    OBVIOUS
  <1>4. Len(SubSeq(s, 1, n)) = n
    BY <1>2, <1>3
  <1>5. \A i \in 1..n : SubSeq(s, 1, n)[i] = s[i]
    BY <1>2, <1>3
  <1> QED
    BY <1>2, <1>4, <1>5

(* Popping the innermost call leaves the others as they are. *)
LEMMA PopProperties ==
    ASSUME NEW S, NEW s \in Seq(S), s # <<>>
    PROVE  /\ SubSeq(s, 1, Len(s) - 1) \in Seq(S)
           /\ Len(SubSeq(s, 1, Len(s) - 1)) = Len(s) - 1
           /\ \A i \in 1..Len(s) - 1 : SubSeq(s, 1, Len(s) - 1)[i] = s[i]
  <1>1. Len(s) - 1 \in Nat /\ Len(s) - 1 <= Len(s)
    OBVIOUS
  <1> QED
    BY <1>1, PrefixProperties

(* Making the innermost call wait and opening another adds one call and    *)
(* leaves the outer ones as they are.                                      *)
LEMMA CallProperties ==
    ASSUME NEW S, NEW s \in Seq(S), s # <<>>, NEW w \in S, NEW y \in S,
           NEW t, t = Append([s EXCEPT ![Len(s)] = w], y)
    PROVE  /\ t \in Seq(S)
           /\ Len(t) = Len(s) + 1
           /\ t[Len(s) + 1] = y
           /\ t[Len(s)] = w
           /\ \A i \in 1..Len(s) - 1 : t[i] = s[i]
  OBVIOUS

(* Changing one element leaves the others alone. *)
LEMMA UpdateProperties ==
    ASSUME NEW S, NEW s \in Seq(S), NEW i \in 1..Len(s), NEW y \in S,
           NEW t, t = [s EXCEPT ![i] = y]
    PROVE  /\ t \in Seq(S)
           /\ Len(t) = Len(s)
           /\ t[i] = y
           /\ \A j \in 1..Len(s) : j # i => t[j] = s[j]
  OBVIOUS
-----------------------------------------------------------------------------
(* The three shapes of a step. *)

(* The innermost call returns and owes nothing back. *)
LEMMA ReturnKeepsInv ==
    ASSUME MatchInv, frames # <<>>, Top.then \in {"run", "return"}, Pop,
           UNCHANGED <<rules, stack, isComplex, entry>>, calls' \in Nat
    PROVE  MatchInv'
  <1>1. /\ frames' \in Seq(Frames) /\ Len(frames') = Len(frames) - 1
        /\ \A f \in 1..Len(frames') : frames'[f] = frames[f] /\ f \in 1..Len(frames)
    BY PopProperties DEF MatchInv, TypeOK, Pop, Depth
  <1>2. TypeOK'
    BY <1>1 DEF MatchInv, TypeOK
  <1>3. (SameShape /\ EntrySettled /\ JoinedObjects)'
    BY DEF MatchInv, SameShape, EntrySettled, JoinedObjects
  <1>4. PendingTypes'
    BY <1>1 DEF MatchInv, PendingTypes
  <1>5. MarksOwned'
    <2>1. Len(frames) \in Nat /\ frames[Len(frames)].then \notin Owners
      BY DEF MatchInv, TypeOK, Top, Depth, Owners, Restores, FieldTypes
    <2>2. \A f \in 1..Len(frames) : frames[f].then \in Owners =>
                                        f \in 1..Len(frames') /\ frames'[f] = frames[f]
      BY <1>1, <2>1
    <2> QED
      BY <2>2 DEF MatchInv, MarksOwned
  <1>6. WaitingInRange'
    BY <1>1 DEF MatchInv, WaitingInRange, TypeOK
  <1>7. CursorsMove'
    BY <1>1 DEF MatchInv, CursorsMove
  <1> QED
    BY <1>2, <1>3, <1>4, <1>5, <1>6, <1>7 DEF MatchInv

(* The innermost call puts a type back and returns. *)
LEMMA RestoreKeepsInv ==
    ASSUME MatchInv, frames # <<>>, Top.then \in Restores, Mark(Top.then), Pop,
           UNCHANGED <<rules, isComplex, calls, entry>>
    PROVE  MatchInv'
  <1>1. /\ frames' \in Seq(Frames) /\ Len(frames') = Len(frames) - 1
        /\ \A f \in 1..Len(frames') : frames'[f] = frames[f] /\ f \in 1..Len(frames)
    BY PopProperties DEF MatchInv, TypeOK, Pop, Depth
  <1> DEFINE n == Len(frames)
             i == frames[n].pos
  <1>2. n \in Nat /\ n >= 1 /\ Top = frames[n] /\ Top \in Frames
    BY DEF MatchInv, TypeOK, Top, Depth
  <1>3. i \in 1..Len(stack) /\ entry[i].type = Top.then
    BY <1>2 DEF MatchInv, PendingTypes, Frames
  <1>4. stack[i] \in StackElements /\ [stack[i] EXCEPT !.type = Top.then] \in StackElements
    <2>1. stack[i] \in StackElements
      BY <1>3 DEF MatchInv, TypeOK
    <2>2. Top.then \in StackTypes
      BY DEF StackTypes, SettledTypes, Restores
    <2> QED
      BY <2>1, <2>2 DEF StackElements
  <1>5. stack' = [stack EXCEPT ![i] = [stack[i] EXCEPT !.type = Top.then]]
    BY <1>2 DEF Mark, Element
  <1>6. /\ stack' \in Seq(StackElements) /\ Len(stack') = Len(stack)
        /\ stack'[i] = [stack[i] EXCEPT !.type = Top.then]
        /\ \A j \in 1..Len(stack) : j # i => stack'[j] = stack[j]
    <2> DEFINE e == [stack[i] EXCEPT !.type = Top.then]
    <2>1. e \in StackElements /\ stack \in Seq(StackElements) /\ stack' = [stack EXCEPT ![i] = e]
      BY <1>4, <1>5 DEF MatchInv, TypeOK
    <2> HIDE DEF e
    <2>2. /\ stack' \in Seq(StackElements) /\ Len(stack') = Len(stack) /\ stack'[i] = e
          /\ \A j \in 1..Len(stack) : j # i => stack'[j] = stack[j]
      BY <1>3, <2>1, UpdateProperties
    <2> QED
      BY <2>2 DEF e
  <1>7. /\ stack'[i].type = entry[i].type /\ stack'[i].key = stack[i].key
        /\ entry[i].type \in Restores
    BY <1>3, <1>4, <1>6 DEF StackElements
  <1> HIDE DEF i, n
  <1>8. TypeOK'
    BY <1>1, <1>3, <1>6 DEF MatchInv, TypeOK
  <1>9. SameShape' /\ EntrySettled'
    BY <1>6, <1>7 DEF MatchInv, SameShape, EntrySettled
  <1>10. JoinedObjects'
    BY <1>3, <1>6, <1>7 DEF MatchInv, JoinedObjects, Restores, FieldTypes
  <1>11. PendingTypes'
    BY <1>1, <1>6 DEF MatchInv, PendingTypes
  <1>12. MarksOwned'
    <2> SUFFICES ASSUME NEW j \in 1..Len(stack'), stack'[j].type # entry[j].type
                 PROVE  /\ stack'[j].type \in TransientTypes
                        /\ \E f \in 1..Len(frames') : /\ frames'[f].pos = j
                                                       /\ frames'[f].then \in Owners
      BY DEF MarksOwned
    <2>0. j \in 1..Len(stack) /\ j # i /\ stack'[j] = stack[j]
      BY <1>6, <1>7
    <2>1. PICK f \in 1..n : frames[f].pos = j /\ frames[f].then \in Owners
      BY <2>0 DEF MatchInv, MarksOwned, n
    <2>2. f # n
      BY <2>0, <2>1 DEF i
    <2>3. f \in 1..Len(frames') /\ frames'[f] = frames[f]
      BY <1>1, <1>2, <2>2 DEF n
    <2>4. stack[j].type \in TransientTypes
      BY <2>0 DEF MatchInv, MarksOwned
    <2> QED
      BY <2>0, <2>1, <2>3, <2>4
  <1>13. WaitingInRange'
    BY <1>1, <1>2, <1>6 DEF MatchInv, WaitingInRange, n
  <1>14. CursorsMove'
    <2>1. \A f \in 1..Len(frames') : frames'[f].then # "run"
      <3>1. \A f \in 1..Len(frames') : f < Len(frames)
        BY <1>1, <1>2 DEF n
      <3> QED
        BY <1>1, <3>1 DEF MatchInv, WaitingInRange
    <2> QED
      BY <1>1, <2>1 DEF MatchInv, CursorsMove
  <1> QED
    BY <1>8, <1>9, <1>10, <1>11, <1>12, <1>13, <1>14 DEF MatchInv

(* The innermost call moves a cursor, or both, inside the loop. *)
LEMMA AdvanceKeepsInv ==
    ASSUME MatchInv, InLoop, NEW r \in {0, 1}, NEW p \in {0, 1}, r + p >= 1,
           Advance(r, p), UNCHANGED <<rules, isComplex, entry>>
    PROVE  MatchInv'
  <1> DEFINE n == Len(frames)
             y == Frame(Top.rule + r, Top.pos + p)
  <1>1. /\ n \in Nat /\ n >= 1 /\ Top = frames[n] /\ Top \in Frames
        /\ Top.then = "run" /\ Top.rule <= Len(rules) /\ Top.pos <= Len(stack)
    BY DEF MatchInv, TypeOK, InLoop, Running, Top, Depth
  <1>2. y \in Frames /\ y.then = "run" /\ y.rule = Top.rule + r /\ y.pos = Top.pos + p
    BY <1>1 DEF Frames, Frame, Pending
  <1>3. frames # <<>> /\ frames \in Seq(Frames) /\ frames' = [frames EXCEPT ![n] = y]
    BY DEF Advance, Depth, MatchInv, TypeOK, InLoop, Running
  <1> HIDE DEF y
  <1>4. /\ frames' \in Seq(Frames) /\ Len(frames') = n /\ frames'[n] = y
        /\ \A f \in 1..n : f # n => frames'[f] = frames[f]
    BY <1>1, <1>2, <1>3, UpdateProperties
  <1>5. stack' = stack /\ calls' = calls
    BY DEF Advance
  <1> HIDE DEF n
  <1>6. TypeOK'
    <2>1. \A f \in 1..n : frames'[f].rule <= Len(rules) + 1 /\ frames'[f].pos <= Len(stack) + 1
      <3>1. y.rule <= Len(rules) + 1 /\ y.pos <= Len(stack) + 1
        <4>1. /\ Len(rules) \in Nat /\ Len(stack) \in Nat
              /\ Top.rule \in Nat /\ Top.pos \in Nat
          BY <1>1 DEF MatchInv, TypeOK, Frames
        <4> QED
          BY <1>1, <1>2, <4>1
      <3>2. \A f \in 1..n : frames[f].rule <= Len(rules) + 1 /\ frames[f].pos <= Len(stack) + 1
        BY DEF MatchInv, TypeOK, n
      <3> QED
        BY <1>4, <3>1, <3>2
    <2> QED
      BY <1>4, <1>5, <2>1 DEF MatchInv, TypeOK
  <1>7. (SameShape /\ EntrySettled /\ JoinedObjects)'
    BY <1>5 DEF MatchInv, SameShape, EntrySettled, JoinedObjects
  <1>8. PendingTypes'
    BY <1>2, <1>4, <1>5 DEF MatchInv, PendingTypes, Restores, FieldTypes, n
  <1>9. MarksOwned'
    <2>1. \A f \in 1..n : frames[f].then \in Owners => frames'[f] = frames[f]
      BY <1>1, <1>4 DEF Owners, Restores, FieldTypes
    <2> QED
      BY <1>4, <1>5, <2>1 DEF MatchInv, MarksOwned, n
  <1>10. WaitingInRange'
    BY <1>2, <1>4, <1>5 DEF MatchInv, WaitingInRange, n
  <1>11. CursorsMove'
    <2>1. n < y.rule + y.pos
      <3>1. n <= Top.rule + Top.pos
        <4>1. n \in 1..Len(frames) /\ frames[n] = Top
          BY <1>1 DEF n
        <4>2. n < Top.rule + Top.pos \/ n = Top.rule + Top.pos
          BY <4>1 DEF MatchInv, CursorsMove
        <4>3. Top.rule \in Nat /\ Top.pos \in Nat
          BY <1>1 DEF Frames
        <4> QED BY <1>1, <4>2, <4>3
      <3>2. Top.rule \in Nat /\ Top.pos \in Nat
        BY <1>1 DEF Frames
      <3> QED BY SMTT(30), <1>1, <1>2, <3>1, <3>2
    <2> QED
      BY <1>4, <1>5, <2>1 DEF MatchInv, CursorsMove, n
  <1> QED
    BY <1>6, <1>7, <1>8, <1>9, <1>10, <1>11 DEF MatchInv

(* The innermost call puts a type (it may be the one that is there) on its *)
(* element, waits with w to do, and a new call starts r and p further.     *)
LEMMA CallKeepsInv ==
    ASSUME MatchInv, frames # <<>>, Top.rule <= Len(rules), Top.pos <= Len(stack),
           NEW t \in StackTypes, NEW w \in Pending, w # "run",
           NEW r \in {0, 1}, NEW p \in {0, 1},
           Mark(t), Call(r, p, w), UNCHANGED <<rules, isComplex, entry>>,
           \/ t \in {entry[Top.pos].type, Element.type}
           \/ t \in TransientTypes /\ w \in Owners,
           t \in {"JOINED_OBJECT", "HEAD_OF_JOINED_OBJECT"} => entry[Top.pos].type = "OBJECT",
           w \in Restores => entry[Top.pos].type = w,
           w = "callAsHead" => Rule.type = "RECURSIVE" /\ entry[Top.pos].type = "OBJECT",
           Top.then \in Owners => w \in Owners,
           \/ Depth < Top.rule + Top.pos
           \/ /\ Depth = Top.rule + Top.pos
              /\ w = "OBJECT" /\ r = 1 /\ p = 1,
           r + p = 0 => /\ t \in {"JOINED_OBJECT", "HEAD_OF_JOINED_OBJECT"}
                        /\ Rule.type = "RECURSIVE"
    PROVE  MatchInv'
  <1> DEFINE n == Len(frames)
             i == Top.pos
             e == [stack[i] EXCEPT !.type = t]
             c == [Top EXCEPT !.then = w]
             y == Frame(Top.rule + r, Top.pos + p)
  <1>1. /\ n \in Nat /\ n >= 1 /\ Top = frames[n] /\ Top \in Frames /\ Depth = n
        /\ frames \in Seq(Frames) /\ stack \in Seq(StackElements)
        /\ Len(stack) \in Nat /\ Len(rules) \in Nat /\ Len(entry) = Len(stack)
    BY DEF MatchInv, TypeOK, Top, Depth, SameShape
  <1>2. i \in 1..Len(stack) /\ Top.rule \in 1..Len(rules) /\ Top.rule \in Nat /\ i \in Nat
    BY <1>1 DEF Frames
  <1>3. e \in StackElements /\ e.type = t /\ e.key = stack[i].key
    <2>1. stack[i] \in StackElements
      BY <1>1, <1>2
    <2> QED
      BY <2>1 DEF StackElements
  <1>4. c \in Frames /\ c.then = w /\ c.rule = Top.rule /\ c.pos = i
    BY <1>1 DEF Frames
  <1>5. y \in Frames /\ y.then = "run" /\ y.rule = Top.rule + r /\ y.pos = i + p
    BY <1>2 DEF Frames, Frame, Pending
  <1>6. stack' = [stack EXCEPT ![i] = e]
    BY DEF Mark, Element
  <1>7. frames' = Append([frames EXCEPT ![Len(frames)] = c], y) /\ calls' = calls
    BY DEF Call, Depth
  <1> HIDE DEF e, c, y, i
  <1>8. /\ stack' \in Seq(StackElements) /\ Len(stack') = Len(stack) /\ stack'[i] = e
        /\ \A j \in 1..Len(stack) : j # i => stack'[j] = stack[j]
    BY <1>1, <1>2, <1>3, <1>6, UpdateProperties
  <1>9. /\ frames' \in Seq(Frames) /\ Len(frames') = n + 1
        /\ frames'[n + 1] = y /\ frames'[n] = c
        /\ \A f \in 1..n - 1 : frames'[f] = frames[f]
    BY <1>1, <1>4, <1>5, <1>7, CallProperties
  <1>10. \A f \in 1..Len(frames') : \/ f \in 1..n - 1
                                    \/ f = n
                                    \/ f = n + 1
    BY <1>1, <1>9
  <1>11. \A f \in 1..n : f \in 1..n - 1 \/ f = n
    BY <1>1
  <1>12. n \in 1..Len(frames') /\ n + 1 \in 1..Len(frames') /\ 1..n - 1 \subseteq 1..n
         /\ 1..n - 1 \subseteq 1..Len(frames')
    BY <1>1, <1>9
  <1> HIDE DEF n
  <1>13. TypeOK'
    <2>1. y.rule <= Len(rules) + 1 /\ y.pos <= Len(stack) + 1
      BY <1>1, <1>2, <1>5
    <2>2. c.rule <= Len(rules) + 1 /\ c.pos <= Len(stack) + 1
      BY <1>1, <1>2, <1>4
    <2>3. \A f \in 1..n - 1 : frames[f].rule <= Len(rules) + 1 /\ frames[f].pos <= Len(stack) + 1
      BY <1>12 DEF MatchInv, TypeOK, n
    <2>4. \A f \in 1..Len(frames') : frames'[f].rule <= Len(rules) + 1 /\ frames'[f].pos <= Len(stack) + 1
      BY <1>9, <1>10, <2>1, <2>2, <2>3
    <2>5. stack' # <<>>
      BY <1>8 DEF MatchInv, TypeOK
    <2> QED
      BY <1>7, <1>8, <1>9, <2>4, <2>5 DEF MatchInv, TypeOK
  <1>14. SameShape' /\ EntrySettled'
    BY <1>2, <1>3, <1>8 DEF MatchInv, SameShape, EntrySettled
  <1>15. JoinedObjects'
    BY <1>2, <1>3, <1>8 DEF MatchInv, JoinedObjects, i
  <1>16. PendingTypes'
    <2>1. /\ c.then \in Restores => c.pos <= Len(stack) /\ entry[c.pos].type = c.then
          /\ c.then = "callAsHead" => c.pos <= Len(stack) /\ entry[c.pos].type = "OBJECT"
      BY <1>4 DEF i
    <2>2. y.then \notin Restores /\ y.then # "callAsHead"
      BY <1>5 DEF Restores, FieldTypes
    <2>3. \A f \in 1..n - 1 :
              /\ frames[f].then \in Restores =>
                     frames[f].pos <= Len(stack) /\ entry[frames[f].pos].type = frames[f].then
              /\ frames[f].then = "callAsHead" =>
                     frames[f].pos <= Len(stack) /\ entry[frames[f].pos].type = "OBJECT"
      BY <1>12 DEF MatchInv, PendingTypes, n
    <2> QED
      BY <1>8, <1>9, <1>10, <2>1, <2>2, <2>3 DEF PendingTypes
  <1>17. MarksOwned'
    <2> SUFFICES ASSUME NEW j \in 1..Len(stack'), stack'[j].type # entry[j].type
                 PROVE  /\ stack'[j].type \in TransientTypes
                        /\ \E f \in 1..Len(frames') : /\ frames'[f].pos = j
                                                       /\ frames'[f].then \in Owners
      BY DEF MarksOwned
    <2>1. CASE j = i /\ t \in TransientTypes /\ w \in Owners
      BY <1>3, <1>4, <1>8, <1>9, <1>12, <2>1
    <2>4. CASE j = i /\ t = stack[j].type
      <3>1. stack'[j].type = t /\ t # entry[j].type
        BY <1>3, <1>8, <2>4
      <3>2. t \in TransientTypes
        BY <1>2, <2>4, <3>1 DEF MatchInv, MarksOwned
      <3>3. PICK f \in 1..n : frames[f].pos = j /\ frames[f].then \in Owners
        BY <1>2, <2>4, <3>1 DEF MatchInv, MarksOwned, n
      <3>4. CASE f = n
        BY <1>1, <1>4, <1>9, <1>12, <2>4, <3>1, <3>2, <3>3, <3>4
      <3>5. CASE f # n
        <4>1. f \in 1..Len(frames') /\ frames'[f] = frames[f]
          BY <1>9, <1>11, <1>12, <3>5
        <4> QED
          BY <3>1, <3>2, <3>3, <4>1
      <3> QED
        BY <3>4, <3>5
    <2>2. CASE j # i
      <3>1. j \in 1..Len(stack) /\ stack'[j] = stack[j]
        BY <1>8, <2>2
      <3>2. stack[j].type \in TransientTypes
        BY <3>1 DEF MatchInv, MarksOwned
      <3>3. PICK f \in 1..n : frames[f].pos = j /\ frames[f].then \in Owners
        BY <3>1 DEF MatchInv, MarksOwned, n
      <3>4. f # n
        BY <1>1, <2>2, <3>3 DEF i
      <3>5. f \in 1..Len(frames') /\ frames'[f] = frames[f]
        BY <1>9, <1>11, <1>12, <3>4
      <3> QED
        BY <3>1, <3>2, <3>3, <3>5
    <2>3. j = i => t = stack[j].type \/ (t \in TransientTypes /\ w \in Owners)
      <3>1. j = i => stack'[j].type = t
        BY <1>3, <1>8
      <3> QED
        BY <3>1 DEF Element, i
    <2> QED
      BY <2>1, <2>2, <2>3, <2>4
  <1>18. WaitingInRange'
    <2>1. \A f \in 1..n - 1 :
              /\ frames[f].then # "run"
              /\ frames[f].rule <= Len(rules) /\ frames[f].pos <= Len(stack)
              /\ frames[f].then = "callAsHead" => rules[frames[f].rule].type = "RECURSIVE"
      <3>1. \A f \in 1..n - 1 : f \in 1..n /\ f < n
        BY <1>1
      <3> QED
        BY <3>1 DEF MatchInv, WaitingInRange, n
    <2>2. c.then = "callAsHead" => rules[c.rule].type = "RECURSIVE"
      BY <1>4 DEF Rule
    <2>3. c.then # "run" /\ c.rule <= Len(rules) /\ c.pos <= Len(stack)
      BY <1>2, <1>4
    <2>4. ~(n + 1 < Len(frames')) /\ y.then = "run" /\ y.then # "callAsHead"
      BY <1>1, <1>5, <1>9
    <2> QED
      BY <1>8, <1>9, <1>10, <2>1, <2>2, <2>3, <2>4 DEF WaitingInRange
  <1>19. CursorsMove'
    <2>1. n < c.rule + c.pos \/ (n = c.rule + c.pos /\ c.then = "OBJECT")
      BY <1>1, <1>4 DEF i
    <2>2. \/ n + 1 < y.rule + y.pos
          \/ /\ n + 1 = y.rule + y.pos
             /\ y.rule <= Len(rules) /\ rules[y.rule].type = "RECURSIVE"
             /\ y.pos <= Len(stack)
             /\ stack'[y.pos].type \in {"JOINED_OBJECT", "HEAD_OF_JOINED_OBJECT"}
      <3>1. CASE r + p = 0
        <4>1. r = 0 /\ p = 0
          BY <3>1
        <4>2. y.rule = Top.rule /\ y.pos = i
          BY <1>2, <1>5, <4>1
        <4>3. n < Top.rule + i
          BY <1>1, <4>1 DEF i
        <4>4. rules[y.rule].type = "RECURSIVE" /\ stack'[y.pos].type \in {"JOINED_OBJECT", "HEAD_OF_JOINED_OBJECT"}
          BY <1>3, <1>8, <3>1, <4>2 DEF Rule
        <4>0. \A a, b, m \in Nat : m < a + b => m + 1 < a + b \/ m + 1 = a + b
          OBVIOUS
        <4>5. n + 1 < Top.rule + i \/ n + 1 = Top.rule + i
          BY <1>1, <1>2, <4>0, <4>3
        <4>6. y.rule <= Len(rules) /\ y.pos <= Len(stack)
          BY <1>2, <4>2
        <4> QED
          BY <4>2, <4>4, <4>5, <4>6
      <3>2. CASE r + p # 0 /\ n < Top.rule + i
        BY SMTT(30), <1>1, <1>2, <1>5, <3>2
      <3>3. CASE r = 1 /\ p = 1 /\ n = Top.rule + i
        <4>1. y.rule = Top.rule + 1 /\ y.pos = i + 1
          BY <1>5, <3>3
        <4>2. \A a, b \in Nat : a + b + 1 < (a + 1) + (b + 1)
          OBVIOUS
        <4>3. n + 1 < (Top.rule + 1) + (i + 1)
          BY <1>2, <3>3, <4>2
        <4> QED
          BY <4>1, <4>3
      <3>4. r + p = 0 \/ r + p # 0
        OBVIOUS
      <3> QED
        BY <1>1, <3>1, <3>2, <3>3, <3>4 DEF i
    <2>3. \A f \in 1..n - 1 : \/ frames[f].then # "run" /\ f < frames[f].rule + frames[f].pos
                              \/ f = frames[f].rule + frames[f].pos /\ frames[f].then = "OBJECT"
      <3>1. \A f \in 1..n - 1 : f \in 1..n /\ f < n
        BY <1>1
      <3> QED
        BY <3>1 DEF MatchInv, CursorsMove, WaitingInRange, n
    <2> QED
      BY <1>5, <1>8, <1>9, <1>10, <2>1, <2>2, <2>3 DEF CursorsMove
  <1> QED
    BY <1>13, <1>14, <1>15, <1>16, <1>17, <1>18, <1>19 DEF MatchInv

-----------------------------------------------------------------------------
(* The initial states and the steps. *)

(* The rule and the stack the match starts with are as the grammar and the *)
(* parser build them, and the one call runs at their first elements.       *)
LEMMA InitInv == MatchInit => MatchInv
  <1> SUFFICES ASSUME MatchInit PROVE MatchInv
    OBVIOUS
  <1>1. /\ rules \in Seq(RuleElements) /\ rules # <<>>
        /\ stack \in Seq(StackElements) /\ stack # <<>> /\ entry = stack
        /\ \A i \in 1..Len(stack) : /\ stack[i].type \in SettledTypes
                                    /\ stack[i].type = "OBJECT" => i < Len(stack)
    BY DEF MatchInit, IsRule, IsParseStack
  <1>2. Len(frames) = 1 /\ frames[1] = Frame(1, 1) /\ frames \in Seq(Frames)
    BY DEF MatchInit, Frame, Frames, Pending
  <1>3. /\ frames[1].rule = 1 /\ frames[1].pos = 1 /\ frames[1].then = "run"
        /\ \A f \in 1..Len(frames) : f = 1
    BY <1>2 DEF Frame
  <1>4. TypeOK
    BY <1>1, <1>2, <1>3 DEF TypeOK, MatchInit
  <1>5. SameShape /\ EntrySettled /\ JoinedObjects /\ MarksOwned
    BY <1>1 DEF SameShape, EntrySettled, JoinedObjects, MarksOwned, SettledTypes, FieldTypes
  <1>6. PendingTypes
    BY <1>3 DEF PendingTypes, Restores, FieldTypes
  <1>7. WaitingInRange /\ CursorsMove
    BY <1>2, <1>3 DEF WaitingInRange, CursorsMove
  <1> QED
    BY <1>4, <1>5, <1>6, <1>7 DEF MatchInv

(* Inside the loop the innermost call runs with both cursors in range, and *)
(* the element it looks at has its own type or a mark.                     *)
LEMMA InLoopFacts ==
    ASSUME MatchInv, InLoop
    PROVE  /\ frames # <<>> /\ Top.then = "run"
           /\ Top.rule <= Len(rules) /\ Top.pos <= Len(stack)
           /\ Top.pos \in 1..Len(stack)
           /\ Depth < Top.rule + Top.pos
                 \/ /\ Depth = Top.rule + Top.pos /\ Rule.type = "RECURSIVE"
                    /\ Element.type \in {"JOINED_OBJECT", "HEAD_OF_JOINED_OBJECT"}
           /\ Element \in StackElements
           /\ Element.type \notin TransientTypes => Element.type = entry[Top.pos].type
           /\ Element.type \in {"JOINED_OBJECT", "HEAD_OF_JOINED_OBJECT"}
                 => entry[Top.pos].type = "OBJECT"
  <1>1. /\ Depth \in Nat /\ Depth \in 1..Len(frames) /\ Top \in Frames /\ Top = frames[Depth]
        /\ frames # <<>> /\ Top.then = "run"
        /\ Top.rule <= Len(rules) /\ Top.pos <= Len(stack)
    BY DEF MatchInv, TypeOK, InLoop, Running, Top, Depth
  <1>2. Top.pos \in 1..Len(stack)
    BY <1>1 DEF MatchInv, TypeOK, Frames
  <1>3. Element \in StackElements
    BY <1>2 DEF MatchInv, TypeOK, Element
  <1>4. Element.type \notin TransientTypes => Element.type = entry[Top.pos].type
    BY <1>2 DEF MatchInv, MarksOwned, Element
  <1>5. Element.type \in {"JOINED_OBJECT", "HEAD_OF_JOINED_OBJECT"} => entry[Top.pos].type = "OBJECT"
    BY <1>2 DEF MatchInv, JoinedObjects, Element
  <1>6. \/ Depth < Top.rule + Top.pos
        \/ /\ Depth = Top.rule + Top.pos /\ Rule.type = "RECURSIVE"
           /\ Element.type \in {"JOINED_OBJECT", "HEAD_OF_JOINED_OBJECT"}
    BY <1>1 DEF MatchInv, CursorsMove, Rule, Element
  <1> QED
    BY <1>1, <1>2, <1>3, <1>4, <1>5, <1>6

(* A call that leaves the stack alone marks its element with the type that *)
(* is there.                                                               *)
LEMMA UnchangedIsMark ==
    ASSUME MatchInv, Top.pos \in 1..Len(stack), UNCHANGED stack
    PROVE  Mark(Element.type)
  <1> DEFINE e == stack[Top.pos]
  <1>1. stack \in Seq(StackElements) /\ e \in StackElements
    BY DEF MatchInv, TypeOK
  <1>2. [e EXCEPT !.type = e.type] = e
    BY <1>1 DEF StackElements
  <1>3. [stack EXCEPT ![Top.pos] = stack[Top.pos]] = stack
    BY <1>1
  <1> QED
    BY <1>2, <1>3 DEF Mark, Element

(* Leaving the innermost call from the loop, with the handler called or not. *)
LEMMA LoopReturnKeepsInv ==
    ASSUME MatchInv, Running, Return \/ CallHandler, UNCHANGED <<rules, isComplex, entry>>
    PROVE  MatchInv'
  <1>1. frames # <<>> /\ Top.then \in {"run", "return"} /\ Pop
        /\ UNCHANGED <<rules, stack, isComplex, entry>>
    BY DEF Running, Return, CallHandler
  <1>2. calls' \in Nat
    BY DEF Return, CallHandler, MatchInv, TypeOK
  <1> QED
    BY <1>1, <1>2, ReturnKeepsInv

(* An element is resolved, and a call opened for the rest of the stack. *)
LEMMA DescendKeepsInv ==
    ASSUME MatchInv, InLoop, Rule.type # "RECURSIVE", Descend,
           Element.type \in FieldTypes \cup {"PARSED_INDEX"},
           UNCHANGED <<rules, isComplex, entry>>
    PROVE  MatchInv'
  <1> DEFINE w == Element.type
             t == "RESOLVED_FIELD"
  <1>1. /\ Mark(t) /\ Call(1, 1, w)
        /\ t \in StackTypes /\ t \in TransientTypes /\ w \in Pending /\ w # "run"
        /\ w \in Owners /\ w # "callAsHead"
        /\ t \notin {"JOINED_OBJECT", "HEAD_OF_JOINED_OBJECT"}
    BY DEF Descend, StackTypes, TransientTypes, Pending, FieldTypes, Owners, Restores
  <1>2. w = entry[Top.pos].type
    BY InLoopFacts DEF TransientTypes, FieldTypes
  <1>3. Depth < Top.rule + Top.pos
    BY InLoopFacts
  <1>4. frames # <<>> /\ Top.rule <= Len(rules) /\ Top.pos <= Len(stack) /\ Top.then \notin Owners
    BY InLoopFacts DEF Owners, Restores, FieldTypes
  <1> HIDE DEF w, t
  <1> QED
    BY <1>1, <1>2, <1>3, <1>4, CallKeepsInv

(* An object is marked, and a call opened on the same two elements.        *)
LEMMA JoinKeepsInv ==
    ASSUME MatchInv, frames # <<>>, Top.rule <= Len(rules), Top.pos <= Len(stack),
           Depth < Top.rule + Top.pos, Rule.type = "RECURSIVE",
           entry[Top.pos].type = "OBJECT",
           NEW t \in {"JOINED_OBJECT", "HEAD_OF_JOINED_OBJECT"}, Mark(t),
           NEW w \in {"OBJECT", "callAsHead"}, Call(0, 0, w),
           UNCHANGED <<rules, isComplex, entry>>
    PROVE  MatchInv'
  <1>1. t \in StackTypes /\ t \in TransientTypes
    BY DEF StackTypes, TransientTypes
  <1>2. w \in Pending /\ w # "run" /\ w \in Owners /\ (w \in Restores => w = "OBJECT")
    BY DEF Pending, Owners, Restores, FieldTypes
  <1> QED
    BY <1>1, <1>2, CallKeepsInv

-----------------------------------------------------------------------------
(* Every step keeps the invariant. *)

LEMMA MatchRootKeepsInv == ASSUME MatchInv, MatchRoot PROVE MatchInv'
  <1>1. InLoop /\ Running /\ UNCHANGED <<rules, isComplex, entry>>
    BY DEF MatchRoot, InLoop
  <1>2. CASE Return \/ CallHandler
    BY <1>1, <1>2, LoopReturnKeepsInv
  <1>3. CASE Advance(1, 0)
    BY <1>1, <1>3, AdvanceKeepsInv
  <1>4. CASE Advance(1, 1)
    BY <1>1, <1>4, AdvanceKeepsInv
  <1> QED
    BY <1>2, <1>3, <1>4 DEF MatchRoot

LEMMA ResolveAnyKeepsInv ==
    ASSUME MatchInv, InLoop, Rule.type # "RECURSIVE", ResolveAny
    PROVE  MatchInv'
  <1>1. InLoop /\ Running /\ UNCHANGED <<rules, isComplex, entry>>
    BY DEF ResolveAny, InLoop
  <1>2. CASE Return \/ CallHandler
    BY <1>1, <1>2, LoopReturnKeepsInv
  <1>3. CASE Advance(0, 1)
    BY <1>1, <1>3, AdvanceKeepsInv
  <1>4. CASE Element.type \in FieldTypes \cup {"PARSED_INDEX"} /\ Descend
    BY <1>1, <1>4, DescendKeepsInv
  <1> QED
    BY <1>2, <1>3, <1>4 DEF ResolveAny

LEMMA MatchAnyKeepsInv == ASSUME MatchInv, MatchAny \/ MatchAnyIndex PROVE MatchInv'
  BY ResolveAnyKeepsInv DEF MatchAny, MatchAnyIndex

LEMMA MatchNameKeepsInv == ASSUME MatchInv, MatchName PROVE MatchInv'
  <1>1. InLoop /\ Running /\ Rule.type # "RECURSIVE" /\ UNCHANGED <<rules, isComplex, entry>>
    BY DEF MatchName, InLoop
  <1>2. CASE Return \/ CallHandler
    BY <1>1, <1>2, LoopReturnKeepsInv
  <1>3. CASE Advance(0, 1)
    BY <1>1, <1>3, AdvanceKeepsInv
  <1>4. CASE Element.type \in FieldTypes \cup {"PARSED_INDEX"} /\ Descend
    BY <1>1, <1>4, DescendKeepsInv
  <1> QED
    BY <1>2, <1>3, <1>4 DEF MatchName

LEMMA MatchIndexKeepsInv == ASSUME MatchInv, MatchIndex PROVE MatchInv'
  <1>1. InLoop /\ Running /\ UNCHANGED <<rules, isComplex, entry>>
    BY DEF MatchIndex, InLoop
  <1>2. CASE Return \/ CallHandler
    BY <1>1, <1>2, LoopReturnKeepsInv
  <1>3. CASE Advance(1, 1)
    BY <1>1, <1>3, AdvanceKeepsInv
  <1>4. CASE Advance(0, 1)
    BY <1>1, <1>4, AdvanceKeepsInv
  <1> QED
    BY <1>2, <1>3, <1>4 DEF MatchIndex

LEMMA MatchRecursiveKeepsInv == ASSUME MatchInv, MatchRecursive PROVE MatchInv'
  <1>1. InLoop /\ Running /\ Rule.type = "RECURSIVE" /\ UNCHANGED <<rules, isComplex, entry>>
    BY DEF MatchRecursive, InLoop
  <1>2. /\ frames # <<>> /\ Top.then = "run" /\ Top.then \notin Owners
        /\ Top.rule <= Len(rules) /\ Top.pos <= Len(stack) /\ Top.pos \in 1..Len(stack)
    BY <1>1, InLoopFacts DEF Owners, Restores, FieldTypes
  <1>3. CASE RecursiveAtObject
    <2>1. Element.type = "OBJECT" /\ entry[Top.pos].type = "OBJECT" /\ Depth < Top.rule + Top.pos
      BY <1>1, <1>3, InLoopFacts DEF RecursiveAtObject, TransientTypes
    <2>2. CASE Mark("HEAD_OF_JOINED_OBJECT") /\ Call(0, 0, "OBJECT")
      BY <1>1, <1>2, <2>1, <2>2, JoinKeepsInv
    <2>3. CASE Mark("JOINED_OBJECT") /\ Call(0, 0, "callAsHead")
      BY <1>1, <1>2, <2>1, <2>3, JoinKeepsInv
    <2> QED
      BY <1>3, <2>2, <2>3 DEF RecursiveAtObject
  <1>4. CASE RecursiveAtHead
    <2>1. CASE Return \/ CallHandler
      BY <1>1, <2>1, LoopReturnKeepsInv
    <2>2. CASE Call(1, 1, "OBJECT") /\ UNCHANGED stack
      <3> DEFINE t == Element.type
      <3>1. t = "HEAD_OF_JOINED_OBJECT" /\ entry[Top.pos].type = "OBJECT"
        BY <1>1, <1>4, InLoopFacts DEF RecursiveAtHead
      <3>2. Mark(t)
        BY <1>2, <2>2, UnchangedIsMark
      <3>3. t \in StackTypes /\ t \in TransientTypes
        BY <3>1 DEF StackTypes, TransientTypes
      <3>4. "OBJECT" \in Pending /\ "OBJECT" \in Owners
        BY DEF Pending, Owners, Restores
      <3>5. \/ Depth < Top.rule + Top.pos
            \/ Depth = Top.rule + Top.pos
        BY <1>1, InLoopFacts
      <3> HIDE DEF t
      <3> QED
        BY <1>1, <1>2, <2>2, <3>1, <3>2, <3>3, <3>4, <3>5, CallKeepsInv
    <2> QED
      BY <1>4, <2>1, <2>2 DEF RecursiveAtHead
  <1>5. CASE RecursiveAtIndex
    <2>1. CASE Return \/ CallHandler
      BY <1>1, <2>1, LoopReturnKeepsInv
    <2>2. CASE Call(0, 1, "callNextRule") /\ UNCHANGED stack
      <3> DEFINE t == Element.type
      <3>1. t = "PARSED_INDEX" /\ entry[Top.pos].type = t /\ Depth < Top.rule + Top.pos
        BY <1>1, <1>5, InLoopFacts DEF RecursiveAtIndex, TransientTypes
      <3>2. Mark(t)
        BY <1>2, <2>2, UnchangedIsMark
      <3>3. t \in StackTypes
        BY <3>1 DEF StackTypes, SettledTypes
      <3>4. "callNextRule" \in Pending /\ "callNextRule" \notin Restores
        BY DEF Pending, Restores, FieldTypes
      <3> HIDE DEF t
      <3> QED
        BY <1>1, <1>2, <2>2, <3>1, <3>2, <3>3, <3>4, CallKeepsInv
    <2> QED
      BY <1>5, <2>1, <2>2 DEF RecursiveAtIndex
  <1>6. CASE RecursiveElsewhere
    <2>1. CASE Return
      BY <1>1, <2>1, LoopReturnKeepsInv
    <2>2. CASE Advance(0, 1)
      BY <1>1, <2>2, AdvanceKeepsInv
    <2> QED
      BY <1>6, <2>1, <2>2 DEF RecursiveElsewhere
  <1> QED
    BY <1>3, <1>4, <1>5, <1>6 DEF MatchRecursive

LEMMA LeaveLoopKeepsInv == ASSUME MatchInv, LeaveLoop PROVE MatchInv'
  BY LoopReturnKeepsInv DEF LeaveLoop

LEMMA ResumeKeepsInv == ASSUME MatchInv, Resume PROVE MatchInv'
  <1>1. frames # <<>> /\ UNCHANGED <<rules, isComplex, entry>>
    BY DEF Resume
  <1>2. /\ Depth \in 1..Len(frames) /\ Top \in Frames /\ Top = frames[Depth] /\ Depth \in Nat
    BY <1>1 DEF MatchInv, TypeOK, Top, Depth
  <1>3. Top.then # "run" => /\ Top.rule <= Len(rules) /\ Top.pos <= Len(stack)
                            /\ Top.pos \in 1..Len(stack)
                            /\ Depth < Top.rule + Top.pos \/ Top.then = "OBJECT"
    <2>1. Top.then # "run" => Top.rule <= Len(rules) /\ Top.pos <= Len(stack)
      BY <1>2 DEF MatchInv, WaitingInRange
    <2>2. Top.then # "run" => Top.pos \in 1..Len(stack)
      BY <1>2, <2>1 DEF MatchInv, TypeOK, Frames
    <2>3. Top.then # "run" => Depth < Top.rule + Top.pos \/ Top.then = "OBJECT"
      BY <1>2 DEF MatchInv, CursorsMove
    <2> QED
      BY <2>1, <2>2, <2>3
  <1>4. CASE Top.then \in Restores /\ Mark(Top.then) /\ Pop /\ UNCHANGED calls
    BY <1>1, <1>4, RestoreKeepsInv
  <1>5. CASE Top.then = "callAsHead" /\ Mark("HEAD_OF_JOINED_OBJECT") /\ Call(0, 0, "OBJECT")
    <2>1. entry[Top.pos].type = "OBJECT"
      BY <1>2, <1>5 DEF MatchInv, PendingTypes
    <2>2. Rule.type = "RECURSIVE"
      BY <1>2, <1>5 DEF MatchInv, WaitingInRange, Rule
    <2> QED
      BY <1>1, <1>3, <1>5, <2>1, <2>2, JoinKeepsInv
  <1>6. CASE Top.then = "callNextRule" /\ Call(1, 0, "return") /\ UNCHANGED stack
    <2> DEFINE t == Element.type
    <2>1. Top.rule <= Len(rules) /\ Top.pos <= Len(stack) /\ Top.pos \in 1..Len(stack)
          /\ Depth < Top.rule + Top.pos
      BY <1>3, <1>6
    <2>2. Mark(t)
      BY <1>6, <2>1, UnchangedIsMark
    <2>3. t \in StackTypes
      <3>1. stack[Top.pos] \in StackElements
        BY <2>1 DEF MatchInv, TypeOK
      <3> QED
        BY <3>1 DEF Element, StackElements
    <2>4. t \in {"JOINED_OBJECT", "HEAD_OF_JOINED_OBJECT"} => entry[Top.pos].type = "OBJECT"
      BY <2>1 DEF MatchInv, JoinedObjects, Element
    <2>5. "return" \in Pending /\ "return" \notin Restores /\ Top.then \notin Owners
      BY <1>6 DEF Pending, Restores, FieldTypes, Owners
    <2>6. t \in {entry[Top.pos].type, Element.type}
      OBVIOUS
    <2> HIDE DEF t
    <2> QED
      BY <1>1, <1>6, <2>1, <2>2, <2>3, <2>4, <2>5, <2>6, CallKeepsInv
  <1>7. CASE Top.then = "return" /\ Return
    BY <1>1, <1>7, ReturnKeepsInv DEF Return, MatchInv, TypeOK
  <1> QED
    BY <1>4, <1>5, <1>6, <1>7 DEF Resume, Restores

LEMMA MatchNextKeepsInv == ASSUME MatchInv, [MatchNext]_matchVars PROVE MatchInv'
  <1>1. CASE MatchStep
    BY <1>1, MatchRootKeepsInv, MatchAnyKeepsInv, MatchNameKeepsInv, MatchIndexKeepsInv,
       MatchRecursiveKeepsInv, LeaveLoopKeepsInv, ResumeKeepsInv DEF MatchStep
  <1>2. CASE UNCHANGED matchVars
    BY ZenonT(60), <1>2 DEF matchVars, MatchInv, TypeOK, SameShape, EntrySettled, PendingTypes,
                MarksOwned, JoinedObjects, WaitingInRange, CursorsMove
  <1> QED
    BY <1>1, <1>2 DEF MatchNext, Returned

-----------------------------------------------------------------------------
(* What follows from the invariant. *)

(* When no call is left, no mark has an owner, so there is none. *)
LEMMA NoMarkIsLeft == MatchInv => StackRestored
  <1> SUFFICES ASSUME MatchInv, frames = <<>> PROVE stack = entry
    BY DEF StackRestored
  <1>1. /\ stack \in Seq(StackElements) /\ entry \in Seq(StackElements)
        /\ Len(stack) = Len(entry)
    BY DEF MatchInv, TypeOK, SameShape
  <1>2. Len(frames) = 0
    OBVIOUS
  <1>3. \A i \in 1..Len(stack) : stack[i].type = entry[i].type /\ stack[i].key = entry[i].key
    BY <1>2 DEF MatchInv, MarksOwned, SameShape
  <1>4. \A i \in 1..Len(stack) : stack[i] = entry[i]
    <2> SUFFICES ASSUME NEW i \in 1..Len(stack) PROVE stack[i] = entry[i]
      OBVIOUS
    <2>1. stack[i] \in StackElements /\ entry[i] \in StackElements
      BY <1>1
    <2> QED
      BY <1>3, <2>1 DEF StackElements
  <1> QED
    BY <1>1, <1>4

(* The inductive invariant holds: at every step of a match, the marks that *)
(* the nested calls of isJsonPathResolved have put on the stack and the    *)
(* types they will put back agree.                                         *)
THEOREM MatchInvHolds == MatchSpec => []MatchInv
  <1>1. MatchInv /\ [MatchNext]_matchVars => MatchInv'
    BY MatchNextKeepsInv
  <1> QED
    BY InitInv, <1>1, PTL DEF MatchSpec

(* Types, and the ranges of the two cursors currRule and currStack.        *)
THEOREM TypeCorrect == MatchSpec => []TypeOK
  <1>1. MatchInv => TypeOK
    BY DEF MatchInv
  <1> QED
    BY MatchInvHolds, <1>1, PTL

(* The parser finds the stack as it left it, whatever the rule, the stack  *)
(* and the returns taken inside the nested calls.                          *)
THEOREM StackIsRestored == MatchSpec => []StackRestored
  BY MatchInvHolds, NoMarkIsLeft, PTL

(* The C stack isJsonPathResolved needs is bounded by the element array.   *)
THEOREM NestingIsBounded == MatchSpec => []NestingBounded
  <1>1. MatchInv => NestingBounded
    <2> SUFFICES ASSUME MatchInv, frames # <<>> PROVE NestingBounded
      BY DEF NestingBounded, Depth, MatchInv, TypeOK
    <2>1. /\ Depth \in Nat /\ Depth \in 1..Len(frames) /\ Top \in Frames /\ Top = frames[Depth]
          /\ Len(rules) \in Nat /\ Len(stack) \in Nat
      BY DEF MatchInv, TypeOK, Top, Depth
    <2>2. Top.rule \in Nat /\ Top.pos \in Nat
      BY <2>1 DEF Frames
    <2>3. Top.rule <= Len(rules) + 1 /\ Top.pos <= Len(stack) + 1
      BY <2>1 DEF MatchInv, TypeOK
    <2>4. \/ Depth < Top.rule + Top.pos
          \/ /\ Depth = Top.rule + Top.pos
             /\ Top.rule <= Len(rules) /\ Top.pos <= Len(stack)
      <3>1. CASE Top.then = "run"
        BY <2>1, <3>1 DEF MatchInv, CursorsMove
      <3>2. CASE Top.then # "run"
        BY <2>1, <3>2 DEF MatchInv, CursorsMove, WaitingInRange
      <3> QED
        BY <3>1, <3>2
    <2>5. \A d, r, p, m, n \in Nat :
             /\ r <= m + 1 /\ p <= n + 1
             /\ (d < r + p \/ (d = r + p /\ r <= m /\ p <= n))
             => d <= m + n + 1
      OBVIOUS
    <2> QED
      BY <2>1, <2>2, <2>3, <2>4, <2>5 DEF NestingBounded
  <1> QED
    BY MatchInvHolds, <1>1, PTL

(* "ERROR STATE 1" is unreachable on every stack the parser builds. *)
THEOREM ErrorState1Unreachable == MatchSpec => []NoErrorState1
  <1>1. MatchInv => NoErrorState1
    <2> SUFFICES ASSUME MatchInv, InLoop, Element.type = "JOINED_OBJECT", AtLastStack
                 PROVE FALSE
      BY DEF NoErrorState1
    <2>1. Top.pos \in 1..Len(stack) /\ entry[Top.pos].type = "OBJECT"
      BY InLoopFacts
    <2>2. Top.pos < Len(stack)
      BY <2>1 DEF MatchInv, EntrySettled, SameShape
    <2> QED
      BY <2>2 DEF AtLastStack, MatchInv, TypeOK
  <1> QED
    BY MatchInvHolds, <1>1, PTL

-----------------------------------------------------------------------------
(* The ways to lay the steps of a rule from step r on over what lies       *)
(* behind the first h steps of a path.                                     *)
LayingsFrom(R, path, C, r, h) ==
    { cut \in [r..Len(R) -> 0..Len(path)] :
        /\ cut[Len(R)] = Len(path)
        /\ \A k \in r..Len(R) : Covers(R[k], path, IF k = r THEN h ELSE cut[k - 1], cut[k])
        /\ R[Len(R)].type = "RECURSIVE" =>
               LET empty == (IF r = Len(R) THEN h ELSE cut[Len(R) - 1]) = Len(path)
               IN  CASE empty /\ R[Len(R) - 1].type = "NAME"  -> TRUE
                     [] empty /\ R[Len(R) - 1].type = "INDEX" -> FALSE
                     [] OTHER                                 -> C }

Ending(R, path, C, r, h, t) == {cut \in LayingsFrom(R, path, C, r, h) : cut[r] = t}

Count(R, path, C, r, h) == Cardinality(LayingsFrom(R, path, C, r, h))

(* Functions between finite sets: their graphs are sets of pairs. *)
LEMMA FunctionsFinite ==
    ASSUME NEW S, IsFiniteSet(S), NEW T, IsFiniteSet(T)
    PROVE  IsFiniteSet([S -> T])
<1> DEFINE graph == [f \in [S -> T] |-> {<<x, f[x]>> : x \in S}]
<1>1. IsFiniteSet(SUBSET (S \X T))
  BY FS_Product, FS_SUBSET
<1>2. graph \in Injection([S -> T], SUBSET (S \X T))
  <2>1. \A f \in [S -> T] : {<<x, f[x]>> : x \in S} \in SUBSET (S \X T)
    OBVIOUS
  <2>2. ASSUME NEW f \in [S -> T], NEW g \in [S -> T], graph[f] = graph[g] PROVE f = g
    <3>1. {<<x, f[x]>> : x \in S} = {<<x, g[x]>> : x \in S}
      BY <2>2
    <3>2. \A x \in S : f[x] = g[x]
      <4> TAKE x \in S
      <4>1. <<x, f[x]>> \in {<<y, g[y]>> : y \in S}
        BY <3>1
      <4> QED BY <4>1
    <3> QED BY <3>2
  <2>3. graph \in [[S -> T] -> SUBSET (S \X T)]
    BY <2>1
  <2>4. \A f, g \in [S -> T] : graph[f] = graph[g] => f = g
    BY <2>2
  <2> HIDE DEF graph
  <2> QED BY <2>3, <2>4 DEF Injection, IsInjective
<1> HIDE DEF graph
<1> QED BY <1>1, <1>2, FS_Injection

(* What the lemmas on a rule and a path have in common. *)
Laid(R, path, C, r, h) ==
    /\ IsRule(R) /\ Len(path) \in Nat /\ C \in BOOLEAN
    /\ r \in 1..Len(R) /\ h \in 0..Len(path)

LEMMA LayingsFinite ==
    ASSUME NEW R, NEW path, NEW C, NEW r, NEW h, Laid(R, path, C, r, h)
    PROVE  /\ IsFiniteSet(LayingsFrom(R, path, C, r, h))
           /\ Count(R, path, C, r, h) \in Nat
<1>1. r \in Int /\ Len(R) \in Int /\ 0 \in Int /\ Len(path) \in Int
  BY DEF Laid, IsRule
<1>2. IsFiniteSet(r..Len(R)) /\ IsFiniteSet(0..Len(path))
  BY <1>1, FS_Interval
<1>3. IsFiniteSet([r..Len(R) -> 0..Len(path)])
  BY <1>2, FunctionsFinite
<1>4. LayingsFrom(R, path, C, r, h) \in SUBSET [r..Len(R) -> 0..Len(path)]
  BY DEF LayingsFrom
<1>5. IsFiniteSet(LayingsFrom(R, path, C, r, h))
  BY <1>3, <1>4, FS_Subset
<1> QED BY <1>5, FS_CardinalityType DEF Count

(* Where step r ends is laid down: the rest is laid behind it. *)
LEMMA FirstEndsAt ==
    ASSUME NEW R, NEW path, NEW C, NEW r, NEW h, Laid(R, path, C, r, h),
           r < Len(R), NEW t \in 0..Len(path), Covers(R[r], path, h, t)
    PROVE  /\ IsFiniteSet(Ending(R, path, C, r, h, t))
           /\ Cardinality(Ending(R, path, C, r, h, t)) = Count(R, path, C, r + 1, t)
<1> DEFINE N == Len(R)
           S == {cut \in LayingsFrom(R, path, C, r, h) : cut[r] = t}
           T == LayingsFrom(R, path, C, r + 1, t)
           longer == [cut \in T |-> [k \in r..N |-> IF k = r THEN t ELSE cut[k]]]
<1>1. N \in Nat /\ r \in Nat /\ r >= 1 /\ r + 1 \in 1..N /\ Laid(R, path, C, r + 1, t)
  BY DEF Laid, IsRule
<1>2. ASSUME NEW cut \in T PROVE longer[cut] \in S
  <2> DEFINE l == [k \in r..N |-> IF k = r THEN t ELSE cut[k]]
  <2>1. /\ cut \in [r + 1..N -> 0..Len(path)] /\ cut[N] = Len(path)
        /\ \A k \in r + 1..N : Covers(R[k], path, IF k = r + 1 THEN t ELSE cut[k - 1], cut[k])
    BY DEF LayingsFrom
  <2>2. l \in [r..N -> 0..Len(path)]
    BY <1>1, <2>1
  <2>3. l[r] = t /\ \A k \in r + 1..N : l[k] = cut[k]
    BY <1>1
  <2>4. l[N] = Len(path)
    BY <1>1, <2>1, <2>3
  <2>5. (IF r + 1 = N THEN t ELSE cut[N - 1]) = (IF r = N THEN h ELSE l[N - 1])
    BY <1>1, <2>3
  <2> HIDE DEF l
  <2>6. ASSUME NEW k \in r..N PROVE Covers(R[k], path, IF k = r THEN h ELSE l[k - 1], l[k])
    <3>1. CASE k = r
      BY <3>1, <2>3
    <3>2. CASE k = r + 1
      BY <3>2, <1>1, <2>1, <2>3
    <3>3. CASE k > r + 1
      <4>1. k \in r + 1..N /\ k - 1 \in r + 1..N /\ k # r + 1 /\ k # r
        BY <3>3, <1>1
      <4>2. Covers(R[k], path, cut[k - 1], cut[k])
        BY <4>1, <2>1
      <4> QED BY <4>1, <4>2, <2>3
    <3> QED BY <3>1, <3>2, <3>3, <1>1
  <2>7. R[N].type = "RECURSIVE" =>
            LET empty == (IF r = N THEN h ELSE l[N - 1]) = Len(path)
            IN  CASE empty /\ R[N - 1].type = "NAME"  -> TRUE
                  [] empty /\ R[N - 1].type = "INDEX" -> FALSE
                  [] OTHER                            -> C
    BY <2>5 DEF LayingsFrom
  <2>8. l \in LayingsFrom(R, path, C, r, h)
    BY <2>2, <2>4, <2>6, <2>7 DEF LayingsFrom
  <2>9. longer[cut] = l
    BY DEF l
  <2> QED BY <2>3, <2>8, <2>9
<1>3. ASSUME NEW cut \in S PROVE \E d \in T : longer[d] = cut
  <2> DEFINE d == [k \in r + 1..N |-> cut[k]]
  <2>1. /\ cut \in [r..N -> 0..Len(path)] /\ cut[N] = Len(path) /\ cut[r] = t
        /\ \A k \in r..N : Covers(R[k], path, IF k = r THEN h ELSE cut[k - 1], cut[k])
    BY DEF LayingsFrom
  <2>2. d \in [r + 1..N -> 0..Len(path)]
    BY <1>1, <2>1
  <2>3. \A k \in r + 1..N : d[k] = cut[k]
    OBVIOUS
  <2>4. d[N] = Len(path)
    BY <1>1, <2>1
  <2>5. (IF r + 1 = N THEN t ELSE d[N - 1]) = (IF r = N THEN h ELSE cut[N - 1])
    BY <1>1, <2>1, <2>3
  <2> HIDE DEF d
  <2>6. ASSUME NEW k \in r + 1..N
        PROVE  Covers(R[k], path, IF k = r + 1 THEN t ELSE d[k - 1], d[k])
    <3>1. k \in r..N /\ k # r /\ d[k] = cut[k] /\ Covers(R[k], path, cut[k - 1], cut[k])
      BY <1>1, <2>1, <2>3
    <3>2. CASE k = r + 1
      <4>1. k - 1 = r
        BY <3>2, <1>1
      <4> QED BY <3>1, <3>2, <4>1, <2>1
    <3>3. CASE k # r + 1
      <4>1. k - 1 \in r + 1..N
        BY <3>3, <1>1
      <4> QED BY <3>1, <3>3, <4>1, <2>3
    <3> QED BY <3>2, <3>3
  <2>7. R[N].type = "RECURSIVE" =>
            LET empty == (IF r + 1 = N THEN t ELSE d[N - 1]) = Len(path)
            IN  CASE empty /\ R[N - 1].type = "NAME"  -> TRUE
                  [] empty /\ R[N - 1].type = "INDEX" -> FALSE
                  [] OTHER                            -> C
    BY <2>5 DEF LayingsFrom
  <2>8. d \in T
    BY <2>2, <2>4, <2>6, <2>7 DEF LayingsFrom
  <2>9. longer[d] = [k \in r..N |-> IF k = r THEN t ELSE d[k]]
    BY <2>8
  <2>10. cut = [k \in r..N |-> IF k = r THEN t ELSE d[k]]
    BY <1>1, <2>1, <2>3
  <2> QED BY <2>8, <2>9, <2>10
<1>4. ASSUME NEW c \in T, NEW d \in T, longer[c] = longer[d] PROVE c = d
  <2>1. c \in [r + 1..N -> 0..Len(path)] /\ d \in [r + 1..N -> 0..Len(path)]
    BY DEF LayingsFrom
  <2>2. [k \in r..N |-> IF k = r THEN t ELSE c[k]] = [k \in r..N |-> IF k = r THEN t ELSE d[k]]
    BY <1>4
  <2>3. \A k \in r + 1..N : c[k] = d[k]
    <3> TAKE k \in r + 1..N
    <3>1. k \in r..N /\ k # r
      BY <1>1
    <3> QED BY <3>1, <2>2
  <2>4. c = [k \in r + 1..N |-> c[k]] /\ d = [k \in r + 1..N |-> d[k]]
    BY <2>1
  <2> QED BY <2>3, <2>4
<1>5. longer \in [T -> S]
  BY <1>2
<1>6. longer \in Bijection(T, S)
  <2>1. \A c, d \in T : longer[c] = longer[d] => c = d
    BY <1>4
  <2>2. \A c \in S : \E d \in T : longer[d] = c
    BY <1>3
  <2> HIDE DEF longer, S, T
  <2> QED BY <2>1, <2>2, <1>5 DEF Bijection, Injection, IsInjective, Surjection
<1> HIDE DEF longer, S
<1>7. IsFiniteSet(T)
  BY <1>1, LayingsFinite
<1>8. ExistsBijection(T, S)
  BY <1>6 DEF ExistsBijection
<1>9. IsFiniteSet(S) /\ Cardinality(S) = Cardinality(T)
  <2> HIDE DEF T
  <2> QED BY <1>7, <1>8, FS_Bijection
<1> QED BY <1>9 DEF S, Count, Ending

StepRules == {"ANY", "ANYINDEX", "NAME", "INDEX"}

LEMMA NoneWithout ==
    ASSUME NEW R, NEW path, NEW C, NEW r, NEW h, Laid(R, path, C, r, h),
           \A t \in 0..Len(path) : ~Covers(R[r], path, h, t)
    PROVE  LayingsFrom(R, path, C, r, h) = {} /\ Count(R, path, C, r, h) = 0
<1>1. LayingsFrom(R, path, C, r, h) = {}
  <2> SUFFICES ASSUME NEW cut \in LayingsFrom(R, path, C, r, h) PROVE FALSE
    OBVIOUS
  <2>1. r \in r..Len(R)
    BY DEF Laid, IsRule
  <2>2. cut[r] \in 0..Len(path) /\ Covers(R[r], path, h, cut[r])
    BY <2>1 DEF LayingsFrom
  <2> QED BY <2>2
<1> QED BY <1>1, FS_EmptySet DEF Count

(* A step that can end at one place only. *)
LEMMA OneEnd ==
    ASSUME NEW R, NEW path, NEW C, NEW r, NEW h, Laid(R, path, C, r, h), r < Len(R),
           NEW t \in 0..Len(path), Covers(R[r], path, h, t),
           \A u \in 0..Len(path) : Covers(R[r], path, h, u) => u = t
    PROVE  Count(R, path, C, r, h) = Count(R, path, C, r + 1, t)
<1>1. \A cut \in LayingsFrom(R, path, C, r, h) : cut[r] = t
  <2> TAKE cut \in LayingsFrom(R, path, C, r, h)
  <2>1. r \in r..Len(R)
    BY DEF Laid, IsRule
  <2>2. cut[r] \in 0..Len(path) /\ Covers(R[r], path, h, cut[r])
    BY <2>1 DEF LayingsFrom
  <2> QED BY <2>2
<1>2. LayingsFrom(R, path, C, r, h) = Ending(R, path, C, r, h, t)
  BY <1>1 DEF Ending
<1>3. Cardinality(Ending(R, path, C, r, h, t)) = Count(R, path, C, r + 1, t)
  BY FirstEndsAt
<1> QED BY <1>2, <1>3 DEF Count

LEMMA StepCovers ==
    ASSUME NEW R, NEW path, NEW C, NEW r, NEW h, Laid(R, path, C, r, h),
           R[r].type \in StepRules, NEW t \in Int
    PROVE  Covers(R[r], path, h, t) <=> t = h + 1 /\ Covers(R[r], path, h, h + 1)
BY DEF Covers, StepRules, Laid

LEMMA StepGoesOn ==
    ASSUME NEW R, NEW path, NEW C, NEW r, NEW h, Laid(R, path, C, r, h), r < Len(R),
           R[r].type \in StepRules
    PROVE  Count(R, path, C, r, h) =
               IF h < Len(path) /\ Covers(R[r], path, h, h + 1)
               THEN Count(R, path, C, r + 1, h + 1) ELSE 0
<1>1. \A t \in 0..Len(path) : Covers(R[r], path, h, t) <=> t = h + 1 /\ Covers(R[r], path, h, h + 1)
  BY StepCovers
<1>2. h \in Nat /\ Len(path) \in Nat /\ h <= Len(path)
  BY DEF Laid
<1>3. CASE h < Len(path) /\ Covers(R[r], path, h, h + 1)
  <2>1. h + 1 \in 0..Len(path)
    BY <1>2, <1>3
  <2> QED BY <1>1, <1>3, <2>1, OneEnd
<1>4. CASE ~(h < Len(path) /\ Covers(R[r], path, h, h + 1))
  <2>1. \A t \in 0..Len(path) : ~Covers(R[r], path, h, t)
    BY <1>1, <1>2, <1>4
  <2> QED BY <1>4, <2>1, NoneWithout
<1> QED BY <1>3, <1>4

(* The last step ends with the path. *)
LEMMA AtLast ==
    ASSUME NEW R, NEW path, NEW C, NEW h, Laid(R, path, C, Len(R), h)
    PROVE  Count(R, path, C, Len(R), h) =
               IF /\ Covers(R[Len(R)], path, h, Len(path))
                  /\ R[Len(R)].type = "RECURSIVE" =>
                         CASE h = Len(path) /\ R[Len(R) - 1].type = "NAME"  -> TRUE
                           [] h = Len(path) /\ R[Len(R) - 1].type = "INDEX" -> FALSE
                           [] OTHER                                         -> C
               THEN 1 ELSE 0
<1> DEFINE N == Len(R)
           all == [k \in N..N |-> Len(path)]
           T == LayingsFrom(R, path, C, N, h)
<1>1. N \in Nat /\ Len(path) \in 0..Len(path)
  BY DEF Laid
<1>2. ASSUME NEW cut \in T PROVE cut = all
  <2>1. cut \in [N..N -> 0..Len(path)] /\ cut[N] = Len(path)
    BY DEF LayingsFrom
  <2>2. \A k \in N..N : k = N
    BY <1>1
  <2> QED BY <2>1, <2>2
<1>3. all \in [N..N -> 0..Len(path)] /\ all[N] = Len(path)
  BY <1>1
<1>4. \A k \in N..N : k = N
  BY <1>1
<1>5. all \in T <=>
          /\ Covers(R[N], path, h, Len(path))
          /\ R[N].type = "RECURSIVE" =>
                 CASE h = Len(path) /\ R[N - 1].type = "NAME"  -> TRUE
                   [] h = Len(path) /\ R[N - 1].type = "INDEX" -> FALSE
                   [] OTHER                                    -> C
  <2> HIDE DEF all
  <2>1. N \in N..N
    BY <1>1
  <2>2. (\A k \in N..N : Covers(R[k], path, IF k = N THEN h ELSE all[k - 1], all[k]))
            <=> Covers(R[N], path, h, Len(path))
    BY <1>3, <1>4, <2>1
  <2> QED BY <1>3, <2>2 DEF LayingsFrom
<1>6. T = IF all \in T THEN {all} ELSE {}
  <2> HIDE DEF all, T
  <2> QED BY <1>2
<1>7. Cardinality({all}) = 1 /\ Cardinality({}) = 0
  BY FS_Singleton, FS_EmptySet
<1> HIDE DEF all
<1>8. Count(R, path, C, N, h) = IF all \in T THEN 1 ELSE 0
  BY <1>6, <1>7 DEF Count
<1> QED BY <1>5, <1>8

(* ".." takes nothing, or one step and then as much as before. *)
LEMMA RecursiveSplits ==
    ASSUME NEW R, NEW path, NEW C, NEW r, NEW h, Laid(R, path, C, r, h), r < Len(R),
           R[r].type = "RECURSIVE", h < Len(path)
    PROVE  Count(R, path, C, r, h) = Count(R, path, C, r + 1, h) + Count(R, path, C, r, h + 1)
<1> DEFINE S == LayingsFrom(R, path, C, r, h)
           T == LayingsFrom(R, path, C, r, h + 1)
           U == {cut \in S : cut[r] = h}
<1>1. h \in Nat /\ Len(path) \in Nat /\ h + 1 \in 0..Len(path) /\ r \in Nat /\ Len(R) \in Nat
  BY DEF Laid, IsRule
<1>2. \A t \in Int : \A g \in Int : Covers(R[r], path, g, t) <=> g <= t
  BY DEF Covers
<1>3. IsFiniteSet(U) /\ Cardinality(U) = Count(R, path, C, r + 1, h)
  <2>1. Covers(R[r], path, h, h) /\ h \in 0..Len(path)
    BY <1>1, <1>2
  <2> QED BY SMTT(30), <2>1, FirstEndsAt DEF Ending
<1>4. IsFiniteSet(T)
  BY <1>1, LayingsFinite DEF Laid
<1>5. \A cut \in S \cup T :
          /\ cut \in [r..Len(R) -> 0..Len(path)]
          /\ cut[r] \in 0..Len(path)
          /\ cut \in S <=> cut[r] >= h
          /\ cut \in T <=> cut[r] >= h + 1
  <2> TAKE cut \in S \cup T
  <2>1. r \in r..Len(R) /\ r # Len(R)
    BY <1>1
  <2>2. cut \in [r..Len(R) -> 0..Len(path)]
    BY DEF LayingsFrom
  <2>3. \A k \in r..Len(R) : k # r => k - 1 \in r..Len(R)
    BY <1>1
  <2>4. cut[r] \in 0..Len(path)
    BY <2>1, <2>2
  <2>5. \A g \in {h, h + 1} :
            (\A k \in r..Len(R) : Covers(R[k], path, IF k = r THEN g ELSE cut[k - 1], cut[k]))
            <=> /\ g <= cut[r]
                /\ \A k \in r..Len(R) : k # r => Covers(R[k], path, cut[k - 1], cut[k])
    <3> TAKE g \in {h, h + 1}
    <3>1. Covers(R[r], path, g, cut[r]) <=> g <= cut[r]
      BY <1>1, <1>2, <2>4
    <3> QED BY <2>1, <3>1
  <2>6. /\ cut[Len(R)] = Len(path)
        /\ \A k \in r..Len(R) : k # r => Covers(R[k], path, cut[k - 1], cut[k])
        /\ R[Len(R)].type = "RECURSIVE" =>
               LET empty == cut[Len(R) - 1] = Len(path)
               IN  CASE empty /\ R[Len(R) - 1].type = "NAME"  -> TRUE
                     [] empty /\ R[Len(R) - 1].type = "INDEX" -> FALSE
                     [] OTHER                                 -> C
    BY <2>1 DEF LayingsFrom
  <2>7. cut \in S <=> h <= cut[r]
    BY <2>1, <2>2, <2>5, <2>6 DEF LayingsFrom
  <2>8. cut \in T <=> h + 1 <= cut[r]
    BY <2>1, <2>2, <2>5, <2>6 DEF LayingsFrom
  <2> QED BY <1>1, <2>2, <2>4, <2>7, <2>8
<1> HIDE DEF S, T
<1>6. S = U \cup T /\ U \cap T = {}
  <2>1. \A cut \in S : cut \in U \/ cut \in T
    BY <1>1, <1>5
  <2>2. \A cut \in T : cut \in S
    BY <1>1, <1>5
  <2>3. \A cut \in U : cut \notin T
    BY <1>1, <1>5
  <2> QED BY <2>1, <2>2, <2>3
<1>7. Cardinality(U \cup T) = Cardinality(U) + Cardinality(T) - Cardinality(U \cap T)
  <2> HIDE DEF U
  <2> QED BY <1>3, <1>4, FS_Union
<1>8. Cardinality(U \cap T) = 0 /\ Cardinality(U) \in Int /\ Cardinality(T) \in Int
  <2> HIDE DEF U
  <2>1. Cardinality(U) \in Nat /\ Cardinality(T) \in Nat
    BY <1>3, <1>4, FS_CardinalityType
  <2>2. Cardinality(U \cap T) = 0
    BY <1>6, FS_EmptySet
  <2> QED BY <2>1, <2>2
<1> HIDE DEF U
<1> QED BY <1>3, <1>6, <1>7, <1>8 DEF Count, S, T

(* Where the path has ended nothing but a last ".." is left to lay. *)
LEMMA NothingLeft ==
    ASSUME NEW R, NEW path, NEW C, NEW r, Laid(R, path, C, r, Len(path)), r < Len(R),
           R[r].type = "RECURSIVE"
    PROVE  Count(R, path, C, r, Len(path)) = 0
<1> DEFINE h == Len(path)
<1>1. h \in Nat /\ h \in 0..h /\ r \in Nat /\ Len(R) \in Nat /\ r + 1 \in 1..Len(R)
      /\ Laid(R, path, C, r + 1, h)
  BY DEF Laid, IsRule
<1>2. \A t \in 0..h : Covers(R[r], path, h, t) <=> t = h
  BY <1>1 DEF Covers
<1>3. Count(R, path, C, r, h) = Count(R, path, C, r + 1, h)
  BY <1>1, <1>2, OneEnd
<1>4. R[r + 1].type \in StepRules
  <2>1. r \in DOMAIN R /\ r + 1 \in DOMAIN R /\ R[r + 1] \in RuleElements /\ r + 1 # 1
    BY <1>1 DEF Laid, IsRule
  <2> QED BY <2>1 DEF Laid, IsRule, RuleElements, RuleTypes, StepRules
<1>5. \A t \in 0..h : ~Covers(R[r + 1], path, h, t)
  <2> TAKE t \in 0..h
  <2>1. Covers(R[r + 1], path, h, t) => t = h + 1
    BY <1>1, <1>4, StepCovers
  <2> QED BY <1>1, <2>1
<1> QED BY <1>1, <1>3, <1>5, NoneWithout

LEMMA LayingsFromStart ==
    ASSUME NEW R, NEW path, NEW C, Laid(R, path, C, 1, 0)
    PROVE  Cardinality(Layings(R, path, C)) = Count(R, path, C, 1, 0)
<1>1. R \in Seq(RuleElements) /\ Len(R) \in Nat /\ Len(R) >= 1 /\ DOMAIN R = 1..Len(R)
      /\ R[1].type = "ROOT" /\ \A i \in 2..Len(R) : R[i].type # "ROOT"
  BY DEF Laid, IsRule
<1>2. \A t : Covers(R[1], path, 0, t) <=> t = 0
  BY <1>1 DEF Covers
<1>3. ASSUME NEW cut \in [1..Len(R) -> 0..Len(path)], cut[Len(R)] = Len(path)
      PROVE  cut \in Layings(R, path, C) <=> cut \in LayingsFrom(R, path, C, 1, 0)
  <2>1. (\A k \in 1..Len(R) : Covers(R[k], path, IF k = 1 THEN 0 ELSE cut[k - 1], cut[k]))
        <=> /\ cut[1] = 0
            /\ \A k \in 2..Len(R) : Covers(R[k], path, cut[k - 1], cut[k])
    <3>1. \A k \in 1..Len(R) : k = 1 \/ (k # 1 /\ k \in 2..Len(R))
      BY <1>1
    <3>2. 1 \in 1..Len(R) /\ \A k \in 2..Len(R) : k # 1 /\ k \in 1..Len(R)
      BY <1>1
    <3> QED BY <1>2, <3>1, <3>2
  <2>2. TrailingHolds(R, cut, C) <=>
           (R[Len(R)].type = "RECURSIVE" =>
               LET empty == (IF 1 = Len(R) THEN 0 ELSE cut[Len(R) - 1]) = Len(path)
               IN  CASE empty /\ R[Len(R) - 1].type = "NAME"  -> TRUE
                     [] empty /\ R[Len(R) - 1].type = "INDEX" -> FALSE
                     [] OTHER                                 -> C)
    <3>1. CASE Len(R) = 1
      BY <1>1, <3>1 DEF TrailingHolds
    <3>2. CASE Len(R) # 1
      <4>1. (cut[Len(R)] = cut[Len(R) - 1])
                <=> (IF 1 = Len(R) THEN 0 ELSE cut[Len(R) - 1]) = Len(path)
        BY <1>3, <3>2
      <4> QED BY <4>1 DEF TrailingHolds
    <3> QED BY <3>1, <3>2
  <2> QED BY <1>1, <1>3, <2>1, <2>2 DEF Layings, LayingsFrom
<1>4. \A cut \in Layings(R, path, C) : cut \in [1..Len(R) -> 0..Len(path)] /\ cut[Len(R)] = Len(path)
  BY <1>1 DEF Layings
<1>5. \A cut \in LayingsFrom(R, path, C, 1, 0) :
          cut \in [1..Len(R) -> 0..Len(path)] /\ cut[Len(R)] = Len(path)
  BY DEF LayingsFrom
<1>6. Layings(R, path, C) = LayingsFrom(R, path, C, 1, 0)
  BY <1>3, <1>4, <1>5
<1> QED BY <1>6 DEF Count

-----------------------------------------------------------------------------
(* The path of a parse stack. *)

(* One element more: one step more if it is a step. *)
LEMMA StepsToNext ==
    ASSUME NEW s, NEW i \in Nat
    PROVE  /\ StepsTo(s, i) \in Nat /\ StepsTo(s, 0) = 0
           /\ StepsTo(s, i + 1) = StepsTo(s, i) + (IF IsStep(s[i + 1]) THEN 1 ELSE 0)
<1> DEFINE S(m) == {j \in 1..m : IsStep(s[j])}
<1>1. \A m \in Nat : IsFiniteSet(S(m)) /\ Cardinality(S(m)) \in Nat
  <2> TAKE m \in Nat
  <2>1. IsFiniteSet(1..m) /\ S(m) \in SUBSET (1..m)
    BY FS_Interval
  <2>2. IsFiniteSet(S(m))
    <3> HIDE DEF S
    <3> QED BY <2>1, FS_Subset
  <2> QED BY <2>2, FS_CardinalityType
<1>2. S(0) = {}
  OBVIOUS
<1>3. S(i + 1) = IF IsStep(s[i + 1]) THEN S(i) \cup {i + 1} ELSE S(i)
  <2>1. \A j \in 1..i + 1 : j \in 1..i \/ j = i + 1
    OBVIOUS
  <2>2. i + 1 \in 1..i + 1 /\ 1..i \subseteq 1..i + 1 /\ i + 1 \notin 1..i
    OBVIOUS
  <2> QED BY <2>1, <2>2
<1>4. i + 1 \notin S(i)
  OBVIOUS
<1>5. \A m : StepsTo(s, m) = Cardinality(S(m))
  BY DEF StepsTo
<1> HIDE DEF S
<1>6. StepsTo(s, i) \in Nat /\ StepsTo(s, 0) = 0
  BY <1>1, <1>2, <1>5, FS_EmptySet
<1>7. Cardinality(S(i) \cup {i + 1}) = Cardinality(S(i)) + 1
  BY <1>1, <1>4, FS_AddElement
<1> QED BY <1>3, <1>5, <1>6, <1>7

LEMMA StepsToGrows ==
    ASSUME NEW s, NEW i \in Nat, NEW j \in Nat, i <= j
    PROVE  /\ StepsTo(s, i) <= StepsTo(s, j)
           /\ i < j /\ IsStep(s[j]) => StepsTo(s, i) < StepsTo(s, j)
<1> DEFINE S == {k \in 1..i : IsStep(s[k])}
           T == {k \in 1..j : IsStep(s[k])}
<1>1. IsFiniteSet(T) /\ S \in SUBSET T
  <2>1. IsFiniteSet(1..j) /\ T \in SUBSET (1..j)
    BY FS_Interval
  <2>2. IsFiniteSet(T)
    <3> HIDE DEF T
    <3> QED BY <2>1, FS_Subset
  <2> QED BY <2>2
<1>2. i < j /\ IsStep(s[j]) => S # T
  <2> SUFFICES ASSUME i < j, IsStep(s[j]) PROVE j \in T /\ j \notin S
    OBVIOUS
  <2> QED OBVIOUS
<1>3. StepsTo(s, i) = Cardinality(S) /\ StepsTo(s, j) = Cardinality(T)
  BY DEF StepsTo
<1>4. StepsTo(s, i) \in Nat /\ StepsTo(s, j) \in Nat
  BY StepsToNext
<1> HIDE DEF S, T
<1>5. Cardinality(S) <= Cardinality(T) /\ (Cardinality(T) = Cardinality(S) => T = S)
  BY <1>1, FS_Subset
<1> QED BY <1>2, <1>3, <1>4, <1>5

LEMMA PathFacts ==
    ASSUME NEW s, NEW S, s \in Seq(S)
    PROVE  /\ Len(PathOf(s)) = StepsTo(s, Len(s)) /\ Len(PathOf(s)) \in Nat
           /\ \A p \in 1..Len(s) : IsStep(s[p]) =>
                  /\ StepsTo(s, p) \in 1..Len(PathOf(s))
                  /\ PathOf(s)[StepsTo(s, p)] = s[p]
<1> DEFINE n == StepsTo(s, Len(s))
<1>1. n \in Nat /\ Len(s) \in Nat
  BY StepsToNext
<1>2. Len(PathOf(s)) = n
  BY <1>1 DEF PathOf
<1>3. ASSUME NEW p \in 1..Len(s), IsStep(s[p])
      PROVE  StepsTo(s, p) \in 1..n /\ PathOf(s)[StepsTo(s, p)] = s[p]
  <2> DEFINE k == StepsTo(s, p)
             Q(i) == IsStep(s[i]) /\ StepsTo(s, i) = k
  <2>1. StepsTo(s, 0) = 0 /\ StepsTo(s, 0) < k /\ k <= n /\ k \in Nat
    BY <1>1, <1>3, StepsToNext, StepsToGrows
  <2>2. \A i \in 1..Len(s) : Q(i) => i = p
    <3> SUFFICES ASSUME NEW i \in 1..Len(s), Q(i), i # p PROVE FALSE
      OBVIOUS
    <3>1. CASE i < p
      BY <3>1, <1>3, StepsToGrows, <2>1
    <3>2. CASE p < i
      BY <3>2, StepsToGrows, <2>1
    <3> QED BY <3>1, <3>2
  <2>3. DOMAIN s = 1..Len(s) /\ p \in DOMAIN s /\ Q(p)
    BY <1>3
  <2>4. (CHOOSE i \in DOMAIN s : Q(i)) = p
    <3> HIDE DEF Q
    <3> QED BY <2>2, <2>3
  <2>5. k \in 1..n
    BY <1>1, <2>1
  <2>6. PathOf(s)[k] = s[CHOOSE i \in DOMAIN s : Q(i)]
    <3> HIDE DEF k
    <3> QED BY <2>5 DEF PathOf
  <2> QED BY <2>4, <2>5, <2>6
<1> QED BY <1>1, <1>2, <1>3

-----------------------------------------------------------------------------
(* The argument for CallsOwed. *)

(* The ways to lay the rule, from step r on, over the path behind h steps. *)
Ways(r, h) == Count(rules, PathOf(entry), isComplex, r, h)

(* What a call in the loop is still to find, with step r of the rule at    *)
(* element p of type t: all that lies behind, but where ".." has been      *)
(* joined with the step above or kept from it.                             *)
DueAt(r, p, t) ==
    LET below == StepsTo(entry, p - 1) IN
    CASE rules[r].type = "RECURSIVE" /\ t \in {"JOINED_OBJECT"} \cup FieldTypes ->
            Ways(r, below + 1)
      [] rules[r].type = "RECURSIVE" /\ t = "HEAD_OF_JOINED_OBJECT" /\ r < Len(rules) ->
            Ways(r + 1, below)
      [] OTHER -> Ways(r, below)

(* What a call is still to find: one that waits has left all of it to its  *)
(* callee, or to the call it will make when its callee is back.            *)
Due(c) ==
    CASE c.then \in {"callAsHead", "callNextRule"} /\ c.rule < Len(rules) ->
            Ways(c.rule + 1, StepsTo(entry, c.pos - 1))
      [] c.then = "run" /\ c.rule <= Len(rules) /\ c.pos <= Len(stack) ->
            DueAt(c.rule, c.pos, stack[c.pos].type)
      [] OTHER -> 0

(* Calls made and calls to come make up what is owed, added up from the    *)
(* outermost call inwards.                                                 *)
AddsUp(sum) ==
    /\ sum \in [0..Len(frames) -> Nat]
    /\ sum[0] = calls
    /\ \A f \in 1..Len(frames) : /\ Due(frames[f]) \in Nat
                                /\ sum[f] = sum[f - 1] + Due(frames[f])
    /\ sum[Len(frames)] = Owed(rules, entry, isComplex)

Balance == \E sum \in [0..Len(frames) -> Nat] : AddsUp(sum)

(* Calls nest upwards, and those that have resolved an element are below   *)
(* the calls they have made.                                               *)
NestUpwards ==
    \A f, g \in 1..Len(frames) : f < g =>
        /\ frames[f].pos <= frames[g].pos
        /\ frames[f].then \in {"PARSED_INDEX"} \cup FieldTypes => frames[f].pos < frames[g].pos

ObjectsJoin ==
    \A i \in 1..Len(stack) : stack[i].type = "RESOLVED_FIELD" => entry[i].type # "OBJECT"

(* Where ".." stands: it goes on over a field, or joins an object, only if *)
(* a step comes after it.  The roots are left together.                    *)
PlacedCall(c) ==
    /\ c.then = "callAsHead" => c.rule < Len(rules)
    /\ c.then = "callNextRule" =>
           rules[c.rule].type = "RECURSIVE" /\ entry[c.pos].type = "PARSED_INDEX"
    /\ /\ c.then = "run" /\ c.rule <= Len(rules) /\ c.pos <= Len(stack)
       /\ rules[c.rule].type = "RECURSIVE"
       /\ stack[c.pos].type = "JOINED_OBJECT" \/ entry[c.pos].type \in FieldTypes
       => c.rule < Len(rules)
    /\ c.rule = 1 => c.pos = 1
    /\ c.pos = 1 /\ c.rule # 1 =>
           /\ c.rule = 2 /\ Len(entry) = 1
           /\ rules[2].type = "RECURSIVE" /\ Len(rules) = 2 => ~isComplex

Placed == \A f \in 1..Len(frames) : PlacedCall(frames[f])

CountInv ==
    /\ MatchInv
    /\ IsRule(rules) /\ IsParseStack(entry, isComplex)
    /\ NestUpwards /\ ObjectsJoin /\ Placed
    /\ Balance

LEMMA CountInit == MatchInit => CountInv
<1> SUFFICES ASSUME MatchInit PROVE CountInv
  OBVIOUS
<1>1. MatchInv
  BY InitInv
<1>2. /\ IsRule(rules) /\ IsParseStack(entry, isComplex) /\ isComplex \in BOOLEAN
      /\ frames = <<Frame(1, 1)>> /\ calls = 0 /\ entry = stack
  BY DEF MatchInit
<1>3. /\ Len(frames) = 1 /\ frames[1] = Frame(1, 1)
      /\ Frame(1, 1).rule = 1 /\ Frame(1, 1).pos = 1 /\ Frame(1, 1).then = "run"
  BY <1>2 DEF Frame
<1>4. /\ rules \in Seq(RuleElements) /\ Len(rules) \in Nat /\ Len(rules) >= 1
      /\ 1 \in DOMAIN rules /\ rules[1].type = "ROOT"
      /\ entry \in Seq(StackElements) /\ Len(entry) \in Nat /\ Len(entry) >= 1
      /\ 1 \in DOMAIN entry /\ entry[1].type = "PARSED_ROOT"
  BY <1>2 DEF IsRule, IsParseStack
<1>5. NestUpwards /\ Placed
  BY <1>3, <1>4 DEF NestUpwards, Placed, PlacedCall, FieldTypes
<1>6. ObjectsJoin
  BY <1>2 DEF ObjectsJoin, IsParseStack, SettledTypes, FieldTypes
<1>7. Balance
  <2>1. Laid(rules, PathOf(entry), isComplex, 1, 0)
    BY <1>2, <1>4, PathFacts DEF Laid
  <2>2. Owed(rules, entry, isComplex) = Ways(1, 0) /\ Ways(1, 0) \in Nat
    BY <2>1, LayingsFromStart, LayingsFinite DEF Owed, Ways
  <2>3. StepsTo(entry, 0) = 0
    BY StepsToNext
  <2>4. Due(frames[1]) = Ways(1, 0)
    BY <1>2, <1>3, <1>4, <2>3 DEF Due, DueAt
  <2> DEFINE sum == [f \in 0..1 |-> IF f = 0 THEN 0 ELSE Ways(1, 0)]
  <2>5. sum \in [0..1 -> Nat] /\ sum[0] = 0 /\ sum[1] = Ways(1, 0)
    BY <2>2
  <2> HIDE DEF sum
  <2>6. AddsUp(sum)
    BY <1>2, <1>3, <2>2, <2>4, <2>5 DEF AddsUp
  <2> QED BY <1>3, <2>5, <2>6 DEF Balance
<1> QED BY <1>1, <1>2, <1>5, <1>6, <1>7 DEF CountInv

(* Calls that wait for the innermost one do not look at the stack before   *)
(* their callee is back.                                                   *)
LEMMA WaitingDue ==
    ASSUME MatchInv, UNCHANGED <<rules, isComplex, entry>>,
           NEW f \in 1..Len(frames), f < Len(frames), frames'[f] = frames[f]
    PROVE  Due(frames[f])' = Due(frames[f])
<1>1. frames[f].then # "run"
  BY DEF MatchInv, WaitingInRange
<1> QED BY <1>1 DEF Due, Ways

(* How the three shapes of a step keep the balance. *)
LEMMA PopBalance ==
    ASSUME MatchInv, Balance, frames # <<>>, Pop, UNCHANGED <<rules, isComplex, entry>>,
           NEW d \in Nat, d = Due(Top), calls' = calls + d
    PROVE  Balance'
<1>n. PICK n \in Nat : n = Len(frames)
  BY DEF MatchInv, TypeOK
<1>1. /\ frames \in Seq(Frames) /\ n = Len(frames) /\ n >= 1 /\ calls \in Nat /\ Top = frames[n]
      /\ Len(frames') = n - 1 /\ \A f \in 1..n - 1 : frames'[f] = frames[f]
  BY <1>n, PopProperties DEF MatchInv, TypeOK, Pop, Depth, Top
<1>2. PICK sum \in [0..n -> Nat] : AddsUp(sum)
  BY <1>n DEF Balance
<1>3. PICK sum2 \in [0..n - 1 -> Nat] : \A f \in 0..n - 1 : sum2[f] = sum[f] + d
  <2>1. [f \in 0..n - 1 |-> sum[f] + d] \in [0..n - 1 -> Nat]
    BY <1>1, <1>2
  <2> QED BY <2>1
<1>4. /\ sum[0] = calls
      /\ \A f \in 1..n : Due(frames[f]) \in Nat /\ sum[f] = sum[f - 1] + Due(frames[f])
      /\ sum[n] = Owed(rules, entry, isComplex)
  BY <1>n, <1>2 DEF AddsUp
<1>5. \A f \in 1..n - 1 : Due(frames[f])' = Due(frames[f])
  BY <1>1, WaitingDue
<1>6. sum2[0] = calls'
  BY <1>1, <1>3, <1>4
<1>7. \A f \in 1..n - 1 : Due(frames[f])' \in Nat /\ sum2[f] = sum2[f - 1] + Due(frames[f])'
  <2> TAKE f \in 1..n - 1
  <2>1. f \in 1..n /\ f \in 0..n - 1 /\ f - 1 \in 0..n - 1 /\ f \in 0..n /\ f - 1 \in 0..n
    BY <1>1
  <2>2. /\ sum[f] \in Nat /\ sum[f - 1] \in Nat
        /\ Due(frames[f]) \in Nat /\ sum[f] = sum[f - 1] + Due(frames[f])
    BY <1>2, <1>4, <2>1
  <2>3. sum2[f] = sum2[f - 1] + Due(frames[f])
    BY <1>3, <2>1, <2>2
  <2> QED BY <1>5, <2>2, <2>3
<1>8. sum2[n - 1] = Owed(rules, entry, isComplex)
  <2>1. n \in 1..n /\ n - 1 \in 0..n - 1 /\ n - 1 \in 0..n /\ n \in 0..n
    BY <1>1
  <2>2. sum[n] = sum[n - 1] + d
    BY <1>1, <1>4, <2>1
  <2> QED BY <1>3, <1>4, <2>1, <2>2
<1>9. Owed(rules, entry, isComplex)' = Owed(rules, entry, isComplex)
  BY DEF Owed
<1>10. AddsUp(sum2)'
  BY <1>1, <1>3, <1>6, <1>7, <1>8, <1>9 DEF AddsUp
<1> QED BY <1>1, <1>3, <1>10 DEF Balance

LEMMA MoveBalance ==
    ASSUME MatchInv, Balance, frames # <<>>, NEW y \in Frames,
           frames' = [frames EXCEPT ![Depth] = y], UNCHANGED <<rules, isComplex, entry, calls>>,
           Due(y)' = Due(Top)
    PROVE  Balance'
<1> DEFINE n == Len(frames)
<1>1. /\ frames \in Seq(Frames) /\ n \in Nat /\ n >= 1 /\ Top = frames[n] /\ n \in 1..n
  BY DEF MatchInv, TypeOK, Top, Depth
<1>2. Len(frames') = n /\ frames'[n] = y /\ \A f \in 1..n - 1 : frames'[f] = frames[f]
  BY <1>1 DEF Depth
<1>3. PICK sum \in [0..n -> Nat] : AddsUp(sum)
  BY DEF Balance
<1>4. \A f \in 1..n - 1 : Due(frames[f])' = Due(frames[f])
  BY <1>1, <1>2, WaitingDue
<1>5. Due(frames[n])' = Due(frames[n])
  BY <1>1, <1>2
<1>6. \A f \in 1..n : Due(frames[f])' = Due(frames[f])
  <2>1. \A f \in 1..n : f \in 1..n - 1 \/ f = n
    BY <1>1
  <2> QED BY <1>4, <1>5, <2>1
<1> HIDE DEF n
<1>7. AddsUp(sum)'
  BY <1>2, <1>3, <1>6 DEF AddsUp, n
<1> QED BY <1>2, <1>3, <1>7 DEF Balance, n

LEMMA CallBalance ==
    ASSUME MatchInv, Balance, frames # <<>>, NEW w \in Frames, NEW y \in Frames,
           frames' = Append([frames EXCEPT ![Depth] = w], y),
           UNCHANGED <<rules, isComplex, entry, calls>>,
           NEW a \in Nat, NEW b \in Nat, a = Due(w)', b = Due(y)', Due(Top) = a + b
    PROVE  Balance'
<1>n. PICK n \in Nat : n = Len(frames)
  BY DEF MatchInv, TypeOK
<1>1. /\ frames \in Seq(Frames) /\ n = Len(frames) /\ n >= 1 /\ Top = frames[n] /\ n \in 1..n
  BY <1>n DEF MatchInv, TypeOK, Top, Depth
<1>2. /\ Len(frames') = n + 1 /\ frames'[n + 1] = y /\ frames'[n] = w
      /\ \A f \in 1..n - 1 : frames'[f] = frames[f]
  BY <1>1, CallProperties DEF Depth
<1>3. PICK sum \in [0..n -> Nat] : AddsUp(sum)
  BY <1>n DEF Balance
<1>4. /\ sum[0] = calls
      /\ \A f \in 1..n : Due(frames[f]) \in Nat /\ sum[f] = sum[f - 1] + Due(frames[f])
      /\ sum[n] = Owed(rules, entry, isComplex)
  BY <1>n, <1>3 DEF AddsUp
<1>5. \A f \in 1..n - 1 : Due(frames[f])' = Due(frames[f])
  BY <1>1, <1>2, WaitingDue
<1>6. /\ n - 1 \in 0..n /\ n \in 0..n /\ sum[n - 1] \in Nat /\ sum[n] \in Nat
      /\ sum[n] = sum[n - 1] + (a + b)
  <2>1. n - 1 \in 0..n /\ n \in 0..n
    BY <1>1
  <2> QED BY <1>1, <1>3, <1>4, <2>1
<1>7. PICK sum2 \in [0..n + 1 -> Nat] : /\ \A f \in 0..n - 1 : sum2[f] = sum[f]
                                        /\ sum2[n] = sum[n - 1] + a /\ sum2[n + 1] = sum[n]
  <2> DEFINE s == [f \in 0..n + 1 |-> IF f < n THEN sum[f]
                                       ELSE IF f = n THEN sum[n - 1] + a ELSE sum[n]]
  <2>1. \A f \in 0..n + 1 : f < n => f \in 0..n /\ sum[f] \in Nat
    BY <1>1, <1>3
  <2>2. s \in [0..n + 1 -> Nat]
    BY <2>1, <1>6
  <2>3. \A f \in 0..n - 1 : f \in 0..n + 1 /\ f < n
    BY <1>1
  <2>4. n \in 0..n + 1 /\ n + 1 \in 0..n + 1 /\ ~(n < n) /\ ~(n + 1 < n) /\ n + 1 # n
    BY <1>1
  <2>5. /\ \A f \in 0..n - 1 : s[f] = sum[f]
        /\ s[n] = sum[n - 1] + a /\ s[n + 1] = sum[n]
    BY <2>3, <2>4
  <2> QED BY <2>2, <2>5
<1>8. \A f \in 1..n - 1 : Due(frames[f])' \in Nat /\ sum2[f] = sum2[f - 1] + Due(frames[f])'
  <2> TAKE f \in 1..n - 1
  <2>1. f \in 1..n - 1 /\ f \in 1..n /\ f \in 0..n - 1 /\ f - 1 \in 0..n - 1
    BY <1>1
  <2>2. Due(frames[f])' = Due(frames[f]) /\ Due(frames[f]) \in Nat
    BY <1>4, <1>5, <2>1
  <2> QED BY <1>4, <1>7, <2>1, <2>2
<1>13. Due(frames[n])' \in Nat /\ sum2[n] = sum2[n - 1] + Due(frames[n])'
  <2>1. n - 1 \in 0..n - 1
    BY <1>1
  <2>2. Due(frames[n])' = a
    BY <1>2
  <2>3. sum2[n - 1] = sum[n - 1]
    BY <1>7, <2>1
  <2> QED BY <1>7, <2>2, <2>3
<1>14. Due(frames[n + 1])' \in Nat /\ sum2[n + 1] = sum2[n] + Due(frames[n + 1])'
  <2>2. Due(frames[n + 1])' = b
    BY <1>2
  <2>3. sum2[n + 1] = sum[n] /\ sum2[n] = sum[n - 1] + a
    BY <1>7
  <2>4. sum[n] = sum[n - 1] + a + b
    BY <1>6
  <2> QED BY <2>2, <2>3, <2>4
<1>15. \A f \in 1..n + 1 : Due(frames[f])' \in Nat /\ sum2[f] = sum2[f - 1] + Due(frames[f])'
  <2>1. \A f \in 1..n + 1 : f \in 1..n - 1 \/ f = n \/ f = n + 1
    BY <1>1
  <2> TAKE f \in 1..n + 1
  <2>3. CASE f \in 1..n - 1
    BY <1>8, <2>3
  <2>4. CASE f = n
    BY <1>13, <2>4
  <2>5. CASE f = n + 1
    <3>1. sum2[f - 1] = sum2[n]
      BY <2>5
    <3>2. sum2[f] = sum2[n + 1] /\ Due(frames[f])' = Due(frames[n + 1])'
      BY <2>5
    <3> QED BY <1>14, <3>1, <3>2
  <2> QED BY <2>1, <2>3, <2>4, <2>5
<1>9. sum2[0] = calls'
  <2>1. 0 \in 0..n - 1
    BY <1>1
  <2> QED BY <1>4, <1>7, <2>1
<1>10. Owed(rules, entry, isComplex)' = Owed(rules, entry, isComplex)
  BY DEF Owed
<1>11. sum2[Len(frames')] = Owed(rules, entry, isComplex)
  BY <1>2, <1>4, <1>7
<1>12. AddsUp(sum2)'
  BY <1>2, <1>7, <1>15, <1>9, <1>10, <1>11 DEF AddsUp
<1> QED BY <1>2, <1>7, <1>12 DEF Balance

LEMMA StepWays ==
    ASSUME NEW R, NEW path, NEW C, NEW r, NEW h, Laid(R, path, C, r, h), R[r].type \in StepRules
    PROVE  Count(R, path, C, r, h) =
               IF h < Len(path) /\ Covers(R[r], path, h, h + 1)
               THEN IF r < Len(R) THEN Count(R, path, C, r + 1, h + 1)
                    ELSE IF h + 1 = Len(path) THEN 1 ELSE 0
               ELSE 0
<1>1. r \in Nat /\ Len(R) \in Nat /\ r <= Len(R) /\ h \in Nat /\ Len(path) \in Nat /\ h <= Len(path)
  BY DEF Laid, IsRule
<1>2. CASE r < Len(R)
  BY <1>2, StepGoesOn
<1>3. CASE r = Len(R)
  <2>1. Count(R, path, C, r, h) = IF Covers(R[r], path, h, Len(path)) THEN 1 ELSE 0
    BY <1>3, AtLast DEF StepRules
  <2>2. Covers(R[r], path, h, Len(path)) <=> Len(path) = h + 1 /\ Covers(R[r], path, h, h + 1)
    BY <1>1, StepCovers
  <2> QED BY <1>1, <1>3, <2>1, <2>2
<1> QED BY <1>1, <1>2, <1>3

(* Nothing of the path is left, but a step of the rule is. *)
LEMMA NoWays ==
    ASSUME NEW R, NEW path, NEW C, NEW r, Laid(R, path, C, r, Len(path)),
           R[r].type \in StepRules \/ (R[r].type = "RECURSIVE" /\ r < Len(R))
    PROVE  Count(R, path, C, r, Len(path)) = 0
<1>1. CASE R[r].type \in StepRules
  <2>1. ~(Len(path) < Len(path))
    BY DEF Laid
  <2> QED BY <1>1, <2>1, StepWays
<1> QED BY <1>1, NothingLeft

(* A ".." that ends the rule. *)
LEMMA LastRecursive ==
    ASSUME NEW R, NEW path, NEW C, NEW h, Laid(R, path, C, Len(R), h), R[Len(R)].type = "RECURSIVE"
    PROVE  /\ (h < Len(path) \/ R[Len(R) - 1].type \notin {"NAME", "INDEX"})
                 => /\ C = TRUE => Count(R, path, C, Len(R), h) = 1
                    /\ C = FALSE => Count(R, path, C, Len(R), h) = 0
           /\ h = Len(path) /\ R[Len(R) - 1].type = "NAME" => Count(R, path, C, Len(R), h) = 1
           /\ h = Len(path) /\ R[Len(R) - 1].type = "INDEX" => Count(R, path, C, Len(R), h) = 0
<1>1. h \in Nat /\ Len(path) \in Nat /\ h <= Len(path)
  BY DEF Laid
<1>2. Covers(R[Len(R)], path, h, Len(path))
  BY <1>1 DEF Covers
<1>3. Count(R, path, C, Len(R), h) =
          IF CASE h = Len(path) /\ R[Len(R) - 1].type = "NAME"  -> TRUE
               [] h = Len(path) /\ R[Len(R) - 1].type = "INDEX" -> FALSE
               [] OTHER                                         -> C
          THEN 1 ELSE 0
  BY <1>2, AtLast
<1> QED BY <1>1, <1>3

-----------------------------------------------------------------------------
LEMMA RuleFacts ==
    ASSUME NEW R, IsRule(R), NEW r \in 1..Len(R)
    PROVE  /\ Len(R) \in Nat /\ Len(R) >= 1
           /\ R[r].type = "ROOT" <=> r = 1
           /\ R[r].type = "RECURSIVE" \/ R[r].type \in StepRules \/ r = 1
           /\ R[r].type = "RECURSIVE" /\ r < Len(R) => R[r + 1].type \in StepRules
<1>1. R \in Seq(RuleElements) /\ Len(R) \in Nat /\ Len(R) >= 1 /\ DOMAIN R = 1..Len(R)
  BY DEF IsRule
<1>2. \A i \in 1..Len(R) : R[i].type \in RuleTypes
  <2> TAKE i \in 1..Len(R)
  <2>1. R[i] \in RuleElements
    BY <1>1
  <2> QED BY <2>1 DEF RuleElements
<1>3. r < Len(R) => r + 1 \in 1..Len(R) /\ r + 1 # 1
  BY <1>1
<1> QED BY <1>1, <1>2, <1>3 DEF IsRule, RuleTypes, StepRules

LEMMA KindFacts ==
    ASSUME NEW s, NEW C, IsParseStack(s, C), NEW p \in 1..Len(s)
    PROVE  /\ Len(s) \in Nat
           /\ s[p].type \in SettledTypes
           /\ s[p].type = "PARSED_ROOT" <=> p = 1
           /\ IsStep(s[p]) <=> s[p].type \in {"PARSED_INDEX"} \cup FieldTypes
           /\ s[p].type = "OBJECT" => p < Len(s) /\ p + 1 \in 1..Len(s) /\ s[p + 1].type \in FieldTypes
           /\ s[p].type # "OBJECT" /\ p < Len(s) =>
                  p + 1 \in 1..Len(s) /\ s[p + 1].type \in {"OBJECT", "PARSED_INDEX"}
           /\ s[p].type = "FIELD" => p = Len(s)
<1>1. s \in Seq(StackElements) /\ Len(s) \in Nat /\ DOMAIN s = 1..Len(s)
  BY DEF IsParseStack
<1>2. p < Len(s) => p + 1 \in 1..Len(s) /\ p + 1 > 1 /\ p + 1 # 1 /\ (p + 1) - 1 = p
  BY <1>1
<1>3. s[p].type \in SettledTypes /\ (s[p].type = "PARSED_ROOT" <=> p = 1)
  BY <1>1 DEF IsParseStack
<1>4. s[p].type = "OBJECT" => p < Len(s)
  BY <1>1 DEF IsParseStack
<1>5. p < Len(s) => /\ s[p + 1].type \in FieldTypes <=> s[p].type = "OBJECT"
                    /\ s[p + 1].type \in SettledTypes /\ s[p + 1].type # "PARSED_ROOT"
  BY <1>1, <1>2 DEF IsParseStack
<1>6. s[p].type = "FIELD" => p = Len(s)
  BY <1>1 DEF IsParseStack
<1>7. IsStep(s[p]) <=> s[p].type \in {"PARSED_INDEX"} \cup FieldTypes
  BY <1>3 DEF IsStep, SettledTypes, FieldTypes
<1> QED BY <1>1, <1>2, <1>3, <1>4, <1>5, <1>6, <1>7 DEF SettledTypes

LEMMA StepFacts ==
    ASSUME NEW s, NEW C, IsParseStack(s, C), NEW p \in 1..Len(s)
    PROVE  LET h == StepsTo(s, p - 1)
               g == StepsTo(s, p)
               M == Len(PathOf(s))
           IN  /\ h \in Nat /\ g \in Nat /\ M \in Nat /\ h <= M /\ g <= M
               /\ p = 1 => h = 0
               /\ IsStep(s[p]) => g = h + 1 /\ PathOf(s)[h + 1] = s[p]
               /\ ~IsStep(s[p]) => g = h
               /\ p = Len(s) => g = M
               /\ p < Len(s) => g < M
<1> DEFINE h == StepsTo(s, p - 1)
           g == StepsTo(s, p)
           M == Len(PathOf(s))
           L == Len(s)
<1>1. s \in Seq(StackElements) /\ L \in Nat /\ p \in 1..L /\ L \in 1..L /\ p \in Nat /\ p - 1 \in Nat
      /\ (p - 1) + 1 = p
  BY DEF IsParseStack
<1>2. M = StepsTo(s, L) /\ M \in Nat /\ h \in Nat /\ g \in Nat
  BY <1>1, PathFacts, StepsToNext
<1>3. h <= g /\ g <= M
  BY <1>1, <1>2, StepsToGrows
<1>4. p = 1 => h = 0
  BY StepsToNext
<1>5. g = h + (IF IsStep(s[p]) THEN 1 ELSE 0)
  <2>1. StepsTo(s, (p - 1) + 1) = StepsTo(s, p - 1) + (IF IsStep(s[(p - 1) + 1]) THEN 1 ELSE 0)
    BY <1>1, StepsToNext
  <2> QED BY <1>1, <2>1
<1>6. IsStep(s[p]) => PathOf(s)[g] = s[p]
  BY <1>1, PathFacts
<1>7. p < L => g < M
  <2>1. SUFFICES ASSUME p < L PROVE IsStep(s[L])
    BY <1>1, <1>2, <2>1, StepsToGrows
  <2>2. s[L].type # "OBJECT" /\ s[L].type # "PARSED_ROOT" /\ s[L].type \in SettledTypes
    BY <1>1, <2>1, KindFacts
  <2> QED BY <2>2 DEF IsStep, SettledTypes
<1>9. p = L => g = M
  BY <1>2
<1> HIDE DEF h, g, M, L
<1>8. /\ h \in Nat /\ g \in Nat /\ M \in Nat /\ h <= M /\ g <= M
      /\ p = 1 => h = 0
      /\ IsStep(s[p]) => g = h + 1 /\ PathOf(s)[h + 1] = s[p]
      /\ ~IsStep(s[p]) => g = h
      /\ p = L => g = M
      /\ p < L => g < M
  BY <1>2, <1>3, <1>4, <1>5, <1>6, <1>7, <1>9
<1> QED BY <1>8 DEF h, g, M, L

-----------------------------------------------------------------------------
(* What the invariant says of the call that runs. *)
RunsAt(r, p) ==
    /\ r \in 1..Len(rules) /\ p \in 1..Len(entry)
    /\ Top = frames[Depth] /\ Top.rule = r /\ Top.pos = p /\ Top \in Frames
    /\ frames # <<>> /\ Depth = Len(frames) /\ Depth \in 1..Len(frames)
    /\ Len(stack) = Len(entry) /\ PlacedCall(Top)

LEMMA RunningFacts ==
    ASSUME CountInv, InLoop
    PROVE  /\ RunsAt(Top.rule, Top.pos) /\ Top.then = "run"
           /\ Element.key = entry[Top.pos].key
           /\ entry[Top.pos].type # "OBJECT" => Element.type = entry[Top.pos].type
           /\ entry[Top.pos].type = "OBJECT" => Element.type \in ObjectTypes
           /\ \A i \in 1..Len(stack) : i > Top.pos => stack[i].type = entry[i].type
           /\ Due(Top) = DueAt(Top.rule, Top.pos, Element.type)
<1>1. /\ frames \in Seq(Frames) /\ stack \in Seq(StackElements) /\ Len(stack) = Len(entry)
      /\ frames # <<>> /\ Top = frames[Depth] /\ Depth \in 1..Len(frames) /\ Top \in Frames
      /\ Depth = Len(frames) /\ Depth \in Nat
      /\ Top.then = "run" /\ Top.rule \in 1..Len(rules) /\ Top.pos \in 1..Len(stack)
  <2>1. frames \in Seq(Frames) /\ stack \in Seq(StackElements) /\ Len(stack) = Len(entry)
    BY DEF CountInv, MatchInv, TypeOK, SameShape
  <2>2. /\ frames # <<>> /\ Top = frames[Depth] /\ Depth = Len(frames)
        /\ Top.then = "run" /\ Top.rule <= Len(rules) /\ Top.pos <= Len(stack)
    BY DEF InLoop, Running, Top, Depth
  <2>3. Depth \in 1..Len(frames) /\ Top \in Frames /\ Depth \in Nat
    BY <2>1, <2>2
  <2>4. Len(rules) \in Nat /\ Len(stack) \in Nat
    BY <2>1 DEF CountInv, IsRule
  <2> QED BY <2>1, <2>2, <2>3, <2>4 DEF Frames
<1>2. RunsAt(Top.rule, Top.pos)
  BY <1>1 DEF CountInv, Placed, RunsAt
<1>3. Element.key = entry[Top.pos].key
  BY <1>1 DEF Element, CountInv, MatchInv, SameShape
<1>4. ASSUME NEW i \in 1..Len(stack), i >= Top.pos, stack[i].type # entry[i].type
      PROVE  /\ entry[i].type = "OBJECT" /\ stack[i].type \in ObjectTypes
             /\ i = Top.pos
  <2>1. PICK f \in 1..Len(frames) : frames[f].pos = i /\ frames[f].then \in Owners
    BY <1>4 DEF CountInv, MatchInv, MarksOwned
  <2>2. f < Depth
    <3>1. frames[f].then # "run"
      BY <2>1 DEF Owners, Restores, FieldTypes
    <3> QED BY <1>1, <3>1
  <2>3. frames[f].pos <= Top.pos
    BY <1>1, <2>1, <2>2 DEF CountInv, NestUpwards
  <2>4. i = Top.pos
    BY <1>1, <1>4, <2>1, <2>3
  <2>5. frames[f].then \notin {"PARSED_INDEX"} \cup FieldTypes
    <3> SUFFICES ASSUME frames[f].then \in {"PARSED_INDEX"} \cup FieldTypes PROVE FALSE
      OBVIOUS
    <3>1. frames[f].pos < Top.pos
      BY <1>1, <2>1, <2>2 DEF CountInv, NestUpwards
    <3> QED BY <1>1, <2>1, <2>4, <3>1
  <2>6. frames[f].then \in {"OBJECT", "callAsHead"}
    BY <2>1, <2>5 DEF Owners, Restores
  <2>7. entry[i].type = "OBJECT"
    BY <2>1, <2>6 DEF CountInv, MatchInv, PendingTypes, Restores
  <2>8. stack[i].type \in TransientTypes /\ stack[i].type # "RESOLVED_FIELD"
    BY <1>4, <2>7 DEF CountInv, MatchInv, MarksOwned, ObjectsJoin
  <2> QED BY <2>4, <2>7, <2>8 DEF TransientTypes, ObjectTypes
<1>5. entry[Top.pos].type # "OBJECT" => Element.type = entry[Top.pos].type
  BY <1>1, <1>4 DEF Element, Frames
<1>6. entry[Top.pos].type = "OBJECT" => Element.type \in ObjectTypes
  BY <1>1, <1>4 DEF Element, Frames, ObjectTypes
<1>7. \A i \in 1..Len(stack) : i > Top.pos => stack[i].type = entry[i].type
  BY <1>1, <1>4 DEF Frames
<1>8. Due(Top) = DueAt(Top.rule, Top.pos, Element.type)
  BY <1>1 DEF Due, Element
<1> QED BY <1>1, <1>2, <1>3, <1>5, <1>6, <1>7, <1>8

(* What a call just begun is to find. *)
LEMMA FreshDue ==
    ASSUME UNCHANGED <<rules, isComplex, entry>>, NEW r, NEW p
    PROVE  /\ r <= Len(rules) /\ p <= Len(stack') =>
                  Due(Frame(r, p))' = DueAt(r, p, stack'[p].type)
           /\ ~(r <= Len(rules) /\ p <= Len(stack')) => Due(Frame(r, p))' = 0
<1> DEFINE c == Frame(r, p)
<1>1. c.rule = r /\ c.pos = p /\ c.then = "run"
  BY DEF Frame
<1>2. c' = c
  BY DEF Frame
<1> HIDE DEF c
<1> QED BY <1>1 DEF Due, DueAt, Ways, Frame, c

(* A call that begins above what has been matched. *)
LEMMA DueAbove ==
    ASSUME CountInv, NEW r \in 1..Len(rules), NEW p \in 1..Len(entry), p + 1 <= Len(entry),
           rules[r].type # "RECURSIVE" \/ entry[p].type # "OBJECT"
    PROVE  DueAt(r, p + 1, entry[p + 1].type) = Ways(r, StepsTo(entry, p))
<1>1. (p + 1) - 1 = p /\ p < Len(entry)
  BY DEF CountInv, IsParseStack
<1>2. entry[p].type # "OBJECT" => entry[p + 1].type \in {"OBJECT", "PARSED_INDEX"}
  BY <1>1, KindFacts DEF CountInv
<1>3. DueAt(r, p + 1, entry[p + 1].type) =
          LET below == StepsTo(entry, p)
              t == entry[p + 1].type
          IN  CASE rules[r].type = "RECURSIVE" /\ t \in {"JOINED_OBJECT"} \cup FieldTypes ->
                       Ways(r, below + 1)
                [] rules[r].type = "RECURSIVE" /\ t = "HEAD_OF_JOINED_OBJECT" /\ r < Len(rules) ->
                       Ways(r + 1, below)
                [] OTHER -> Ways(r, below)
  BY <1>1 DEF DueAt
<1> QED BY <1>2, <1>3 DEF FieldTypes

LEMMA WaysFacts ==
    ASSUME CountInv, NEW r \in 1..Len(rules), NEW h \in 0..Len(PathOf(entry))
    PROVE  Laid(rules, PathOf(entry), isComplex, r, h) /\ Ways(r, h) \in Nat
<1>1. Laid(rules, PathOf(entry), isComplex, r, h)
  BY PathFacts DEF CountInv, IsParseStack, Laid, MatchInv, TypeOK
<1> QED BY <1>1, LayingsFinite DEF Ways

(* How the shapes of a step keep the invariant. *)
LEMMA WaitingPlaced ==
    ASSUME CountInv, UNCHANGED <<rules, isComplex, entry>>,
           NEW f \in 1..Len(frames), f < Len(frames), frames'[f] = frames[f]
    PROVE  PlacedCall(frames[f])'
<1>1. frames[f].then # "run" /\ PlacedCall(frames[f])
  BY DEF CountInv, MatchInv, WaitingInRange, Placed
<1> QED BY <1>1 DEF PlacedCall

LEMMA PopKeeps ==
    ASSUME CountInv, MatchInv', frames # <<>>, Pop, UNCHANGED <<rules, isComplex, entry>>,
           UNCHANGED stack \/ (\E t \in SettledTypes : Mark(t)),
           Due(Top) \in Nat, calls' = calls + Due(Top)
    PROVE  CountInv'
<1>1. Balance'
  BY PopBalance DEF CountInv
<1> DEFINE n == Len(frames)
<1>2. /\ frames \in Seq(Frames) /\ n \in Nat /\ n >= 1
      /\ Len(frames') = n - 1 /\ \A f \in 1..n - 1 : frames'[f] = frames[f]
  BY PopProperties DEF CountInv, MatchInv, TypeOK, Pop, Depth
<1>3. \A f \in 1..n - 1 : f \in 1..n /\ f < n
  BY <1>2
<1>4. NestUpwards'
  <2>1. \A f, g \in 1..n - 1 : f < g =>
            /\ frames[f].pos <= frames[g].pos
            /\ frames[f].then \in {"PARSED_INDEX"} \cup FieldTypes => frames[f].pos < frames[g].pos
    BY <1>3 DEF CountInv, NestUpwards
  <2> QED BY <1>2, <2>1 DEF NestUpwards
<1>5. Placed'
  <2>1. \A f \in 1..n - 1 : PlacedCall(frames[f])'
    BY <1>2, <1>3, WaitingPlaced
  <2> QED BY <1>2, <2>1 DEF Placed
<1>6. ObjectsJoin'
  <2>1. CASE UNCHANGED stack
    BY <2>1 DEF CountInv, ObjectsJoin
  <2>2. ASSUME NEW t \in SettledTypes, Mark(t) PROVE ObjectsJoin'
    <3>1. stack \in Seq(StackElements) /\ t # "RESOLVED_FIELD"
      BY DEF CountInv, MatchInv, TypeOK, SettledTypes, FieldTypes
    <3>2. /\ Len(stack') = Len(stack)
          /\ \A i \in 1..Len(stack) : i # Top.pos => stack'[i] = stack[i]
      BY <2>2, <3>1 DEF Mark
    <3>3. ASSUME Top.pos \in 1..Len(stack) PROVE stack'[Top.pos].type = t
      <4>1. Element \in StackElements
        BY <3>1, <3>3 DEF Element
      <4> QED BY <2>2, <3>1, <3>3, <4>1 DEF Mark, StackElements
    <3> QED BY <3>1, <3>2, <3>3 DEF CountInv, ObjectsJoin
  <2> QED BY <2>1, <2>2
<1> QED BY <1>1, <1>4, <1>5, <1>6 DEF CountInv

LEMMA MoveKeeps ==
    ASSUME CountInv, MatchInv', InLoop, NEW r, NEW p, RunsAt(r, p),
           NEW i \in {0, 1}, NEW j \in {0, 1}, Advance(i, j),
           UNCHANGED <<rules, isComplex, entry>>,
           Due(Frame(r + i, p + j))' = Due(Top), PlacedCall(Frame(r + i, p + j))'
    PROVE  CountInv'
<1> DEFINE y == Frame(r + i, p + j)
<1>n. PICK n \in Nat : n = Len(frames)
  BY DEF CountInv, MatchInv, TypeOK
<1>1. /\ frames \in Seq(Frames) /\ n >= 1 /\ n \in 1..n /\ Depth = n /\ n = Len(frames)
      /\ Top = frames[n] /\ r = Top.rule /\ p = Top.pos
      /\ r \in Nat \ {0} /\ p \in Nat \ {0} /\ frames # <<>>
  BY <1>n DEF RunsAt, Frames, CountInv, MatchInv, TypeOK
<1>2. y \in Frames /\ y.pos = p + j /\ y.then = "run"
  BY <1>1 DEF Frame, Frames, Pending
<1>3. frames' = [frames EXCEPT ![Depth] = y] /\ UNCHANGED <<stack, calls>>
  BY <1>1 DEF Advance
<1>4. Due(y)' = Due(Top) /\ PlacedCall(y)'
  OBVIOUS
<1> HIDE DEF y
<1>5. Len(frames') = n /\ frames'[n] = y /\ \A f \in 1..n - 1 : frames'[f] = frames[f]
  BY <1>1, <1>2, <1>3
<1>6. Balance'
  BY <1>1, <1>2, <1>3, <1>4, MoveBalance DEF CountInv
<1>7. /\ \A f \in 1..n - 1 : f \in 1..n /\ f < n
      /\ \A f \in 1..n : f \in 1..n - 1 \/ f = n
  BY <1>1
<1>8. NestUpwards'
  <2>1. \A f, g \in 1..n : f < g =>
            /\ frames[f].pos <= frames[g].pos
            /\ frames[f].then \in {"PARSED_INDEX"} \cup FieldTypes => frames[f].pos < frames[g].pos
    BY <1>1 DEF CountInv, NestUpwards
  <2> SUFFICES ASSUME NEW f \in 1..n, NEW g \in 1..n, f < g
               PROVE  /\ frames'[f].pos <= frames'[g].pos
                      /\ frames'[f].then \in {"PARSED_INDEX"} \cup FieldTypes
                            => frames'[f].pos < frames'[g].pos
    BY <1>5 DEF NestUpwards
  <2>2. f \in 1..n - 1 /\ frames'[f] = frames[f] /\ frames[f].pos \in Nat
    <3>1. f \in 1..n - 1 /\ frames[f] \in Frames
      BY <1>1
    <3> QED BY <1>5, <3>1 DEF Frames
  <2>3. CASE g \in 1..n - 1
    BY <1>5, <2>1, <2>2, <2>3
  <2>4. CASE g = n
    <3>1. frames'[g].pos = p + j /\ frames[g].pos = p
      BY <1>1, <1>2, <1>5, <2>4
    <3>2. /\ frames[f].pos <= p
          /\ frames[f].then \in {"PARSED_INDEX"} \cup FieldTypes => frames[f].pos < p
      BY <2>1, <3>1
    <3>3. p <= p + j
      BY <1>1
    <3> HIDE DEF y
    <3> QED BY <1>1, <2>2, <3>1, <3>2, <3>3
  <2> QED BY <1>7, <2>3, <2>4
<1>9. Placed'
  <2>1. \A f \in 1..n - 1 : PlacedCall(frames[f])'
    BY <1>1, <1>5, <1>7, WaitingPlaced
  <2>2. PlacedCall(frames[n])'
    BY <1>4, <1>5
  <2> QED BY <1>5, <1>7, <2>1, <2>2 DEF Placed
<1>10. ObjectsJoin'
  BY <1>3 DEF CountInv, ObjectsJoin
<1> QED BY <1>6, <1>8, <1>9, <1>10 DEF CountInv

LEMMA CallKeeps ==
    ASSUME CountInv, MatchInv', NEW r, NEW p, RunsAt(r, p), NEW t \in Pending,
           NEW i \in {0, 1}, NEW j \in {0, 1}, Call(i, j, t),
           UNCHANGED <<rules, isComplex, entry>>,
           UNCHANGED stack
             \/ (\E m \in StackTypes : Mark(m) /\ (m = "RESOLVED_FIELD" => entry[p].type # "OBJECT")),
           t \in {"PARSED_INDEX"} \cup FieldTypes => j = 1,
           t # "run", Top.then \notin {"PARSED_INDEX"} \cup FieldTypes,
           NEW a \in Nat, NEW b \in Nat,
           t \in {"callAsHead", "callNextRule"} /\ r < Len(rules) => a = Ways(r + 1, StepsTo(entry, p - 1)),
           t \notin {"callAsHead", "callNextRule"} \/ r = Len(rules) => a = 0,
           Due(Frame(r + i, p + j))' = b, Due(Top) = a + b,
           t = "callAsHead" => r < Len(rules),
           t = "callNextRule" => rules[r].type = "RECURSIVE" /\ entry[p].type = "PARSED_INDEX",
           PlacedCall(Frame(r + i, p + j))'
    PROVE  CountInv'
<1> DEFINE y == Frame(r + i, p + j)
<1>n. PICK n \in Nat : n = Len(frames)
  BY DEF CountInv, MatchInv, TypeOK
<1>1. /\ frames \in Seq(Frames) /\ n >= 1 /\ n \in 1..n /\ Depth = n /\ n = Len(frames)
      /\ Top = frames[n] /\ r = Top.rule /\ p = Top.pos /\ Top \in Frames
      /\ r \in Nat \ {0} /\ p \in Nat \ {0} /\ frames # <<>>
      /\ r \in 1..Len(rules) /\ Len(rules) \in Nat
  BY SMTT(30), <1>n DEF RunsAt, Frames, CountInv, MatchInv, TypeOK
<1>w. PICK w \in Frames : w = [Top EXCEPT !.then = t]
  BY <1>1 DEF Frames
<1>2. y \in Frames /\ y.pos = p + j /\ y.then = "run"
  BY SMTT(30), <1>1 DEF Frame, Frames, Pending
<1>3. w.rule = r /\ w.pos = p /\ w.then = t
  BY <1>1, <1>w DEF Frames
<1>4. frames' = Append([frames EXCEPT ![Depth] = w], y) /\ UNCHANGED calls
  BY <1>1, <1>w DEF Call
<1>5. Due(y)' = b /\ PlacedCall(y)'
  OBVIOUS
<1> HIDE DEF y
<1>6. /\ Len(frames') = n + 1 /\ frames'[n + 1] = y /\ frames'[n] = w
      /\ \A f \in 1..n - 1 : frames'[f] = frames[f]
  BY SMTT(30), <1>1, <1>2, <1>4, CallProperties
<1>7. Due(w)' = a
  <2>1. CASE t \in {"callAsHead", "callNextRule"} /\ r < Len(rules)
    BY <1>3, <2>1 DEF Due, Ways
  <2>2. CASE ~(t \in {"callAsHead", "callNextRule"} /\ r < Len(rules))
    <3>1. a = 0
      BY <1>1, <2>2
    <3> QED BY <1>3, <2>2, <3>1 DEF Due
  <2> QED BY <2>1, <2>2
<1>8. Balance'
  BY SMTT(30), <1>1, <1>2, <1>4, <1>5, <1>7, CallBalance DEF CountInv
<1>9. /\ \A f \in 1..n - 1 : f \in 1..n /\ f < n
      /\ \A f \in 1..n + 1 : f \in 1..n - 1 \/ f = n \/ f = n + 1
  BY SMTT(30), <1>1
<1>10. NestUpwards'
  <2>1. \A f, g \in 1..n : f < g =>
            /\ frames[f].pos <= frames[g].pos
            /\ frames[f].then \in {"PARSED_INDEX"} \cup FieldTypes => frames[f].pos < frames[g].pos
    BY <1>1 DEF CountInv, NestUpwards
  <2> DEFINE Under(c, d) == /\ c.pos <= d.pos
                            /\ c.then \in {"PARSED_INDEX"} \cup FieldTypes => c.pos < d.pos
  <2>2. p <= p + j /\ (j = 1 => p < p + j) /\ \A f \in 1..n - 1 : frames[f].pos \in Nat
    <3>1. \A f \in 1..n - 1 : frames[f] \in Frames
      BY <1>1
    <3> QED BY SMTT(30), <1>1, <3>1 DEF Frames
  <2>3. \A f \in 1..n - 1 : Under(frames[f], w)
    BY <1>1, <1>3, <1>9, <2>1
  <2>4. \A f \in 1..n - 1 : Under(frames[f], y)
    <3> TAKE f \in 1..n - 1
    <3>1. Under(frames[f], w)
      BY <2>3
    <3> QED BY <1>1, <1>2, <1>3, <2>2, <3>1
  <2>5. Under(w, y)
    BY <1>2, <1>3, <2>2
  <2>6. \A f, g \in 1..n - 1 : f < g => Under(frames[f], frames[g])
    BY <1>9, <2>1
  <2> HIDE DEF Under
  <2>7. ASSUME NEW f \in 1..n + 1, NEW g \in 1..n + 1, f < g PROVE Under(frames'[f], frames'[g])
    <3>1. CASE g \in 1..n - 1
      <4>1. f \in 1..n - 1
        BY <1>1, <2>7, <3>1
      <4> QED BY <1>6, <2>6, <2>7, <3>1, <4>1
    <3>2. CASE g = n
      <4>1. f \in 1..n - 1
        BY <1>1, <2>7, <3>2
      <4> QED BY <1>6, <2>3, <3>2, <4>1
    <3>3. CASE g = n + 1
      <4>1. f \in 1..n - 1 \/ f = n
        BY <1>1, <2>7, <3>3
      <4> QED BY <1>6, <2>4, <2>5, <3>3, <4>1
    <3> QED BY <1>9, <3>1, <3>2, <3>3
  <2> QED BY <1>6, <2>7 DEF NestUpwards, Under
<1>11. Placed'
  <2>1. \A f \in 1..n - 1 : PlacedCall(frames[f])'
    BY <1>1, <1>6, <1>9, WaitingPlaced
  <2>2. PlacedCall(frames[n + 1])'
    BY <1>5, <1>6
  <2>3. PlacedCall(w)'
    BY <1>1, <1>3 DEF RunsAt, PlacedCall
  <2>4. PlacedCall(frames[n])'
    BY <1>6, <2>3
  <2>5. \A f \in 1..n + 1 : PlacedCall(frames[f])'
    BY <1>9, <2>1, <2>2, <2>4
  <2> QED BY <1>6, <2>5 DEF Placed
<1>12. ObjectsJoin'
  <2>1. CASE UNCHANGED stack
    BY <2>1 DEF CountInv, ObjectsJoin
  <2>2. ASSUME NEW m \in StackTypes, Mark(m), m = "RESOLVED_FIELD" => entry[p].type # "OBJECT"
        PROVE ObjectsJoin'
    <3>1. stack \in Seq(StackElements) /\ p \in 1..Len(stack) /\ Top.pos = p
      BY <1>1 DEF CountInv, MatchInv, TypeOK, RunsAt
    <3>2. /\ Len(stack') = Len(stack)
          /\ \A k \in 1..Len(stack) : k # p => stack'[k] = stack[k]
      BY <2>2, <3>1 DEF Mark
    <3>3. stack'[p].type = m
      <4>1. Element \in StackElements
        BY <3>1 DEF Element
      <4> QED BY <2>2, <3>1, <4>1 DEF Mark, StackElements
    <3> QED BY <2>2, <3>1, <3>2, <3>3 DEF CountInv, ObjectsJoin
  <2> QED BY <2>1, <2>2
<1> QED BY <1>8, <1>10, <1>11, <1>12 DEF CountInv

-----------------------------------------------------------------------------
(* Every step keeps it. *)

(* A call in the loop that returns, and calls the handler or not. *)
LEMMA LoopEnds ==
    ASSUME CountInv, MatchInv', InLoop, UNCHANGED <<rules, isComplex, entry>>,
           \/ CallHandler /\ Due(Top) = 1
           \/ Return /\ Due(Top) = 0
    PROVE  CountInv'
<1>1. frames # <<>> /\ Pop /\ UNCHANGED stack /\ calls \in Nat
  BY DEF InLoop, Running, CallHandler, Return, CountInv, MatchInv, TypeOK
<1>2. Due(Top) \in Nat /\ calls' = calls + Due(Top)
  BY <1>1 DEF CallHandler, Return
<1> QED BY <1>1, <1>2, PopKeeps

LEMMA MatchRootCounts == ASSUME CountInv, MatchRoot, MatchInv' PROVE CountInv'
<1> DEFINE N == Len(rules)
           L == Len(entry)
           M == Len(PathOf(entry))
<1>1. InLoop /\ Rule.type = "ROOT" /\ UNCHANGED <<rules, isComplex, entry>>
  BY DEF MatchRoot
<1>2. PICK r, p : r = Top.rule /\ p = Top.pos /\ RunsAt(r, p)
  BY <1>1, RunningFacts
<1>3. r = 1 /\ p = 1 /\ 1 \in 1..N /\ 1 \in 1..L /\ N \in Nat /\ L \in Nat /\ Top.rule = 1 /\ Top.pos = 1
      /\ isComplex \in BOOLEAN /\ Len(stack) = L /\ IsRule(rules) /\ IsParseStack(entry, isComplex)
  <2>1. r = 1
    BY <1>1, <1>2, RuleFacts DEF CountInv, RunsAt, Rule
  <2>2. p = 1
    BY <1>2, <2>1 DEF RunsAt, PlacedCall
  <2> QED BY <1>2, <2>1, <2>2, RuleFacts, KindFacts DEF RunsAt, CountInv, MatchInv, TypeOK
<1>4. /\ entry[1].type = "PARSED_ROOT" /\ Element.type = "PARSED_ROOT" /\ ~IsStep(entry[1])
      /\ rules[1].type = "ROOT"
  <2>1. entry[1].type = "PARSED_ROOT"
    BY <1>3, KindFacts
  <2> QED BY <1>1, <1>3, <2>1, RunningFacts, KindFacts DEF FieldTypes, Rule
<1>5. /\ StepsTo(entry, 0) = 0 /\ StepsTo(entry, 1) = 0 /\ M \in Nat
      /\ L = 1 => M = 0
      /\ L > 1 => 0 < M
  <2>1. 1 - 1 = 0 /\ 1 \in 1..Len(entry)
    BY <1>3
  <2>2. LET h == StepsTo(entry, 1 - 1)
            g == StepsTo(entry, 1)
        IN  /\ h \in Nat /\ g \in Nat /\ M \in Nat /\ h = 0
            /\ ~IsStep(entry[1]) => g = h
            /\ 1 = Len(entry) => g = M
            /\ 1 < Len(entry) => g < M
    BY <1>3, <2>1, StepFacts
  <2>3. StepsTo(entry, 1 - 1) = StepsTo(entry, 0)
    BY <2>1
  <2> QED BY <1>3, <1>4, <2>2, <2>3
<1>6. Due(Top) = Ways(1, 0)
  <2>1. Due(Top) = DueAt(1, 1, "PARSED_ROOT")
    BY <1>1, <1>3, <1>4, RunningFacts
  <2> QED BY <1>4, <1>5, <2>1 DEF DueAt
<1>7. Laid(rules, PathOf(entry), isComplex, 1, 0)
  BY <1>3, <1>5, WaysFacts
<1>8. \A t \in 0..M : Covers(rules[1], PathOf(entry), 0, t) <=> t = 0
  BY <1>4 DEF Covers
<1>9. N > 1 => Ways(1, 0) = Ways(2, 0) /\ 2 \in 1..N
      /\ Laid(rules, PathOf(entry), isComplex, 2, 0)
  <2> SUFFICES ASSUME N > 1 PROVE Ways(1, 0) = Ways(2, 0) /\ 2 \in 1..N
                                  /\ Laid(rules, PathOf(entry), isComplex, 2, 0)
    OBVIOUS
  <2>1. 2 \in 1..N /\ 1 + 1 = 2 /\ 1 < N /\ 0 \in 0..M
    BY <1>3, <1>5
  <2>2. Count(rules, PathOf(entry), isComplex, 1, 0) = Count(rules, PathOf(entry), isComplex, 1 + 1, 0)
    BY <1>7, <1>8, <2>1, OneEnd
  <2> QED BY <2>1, <2>2, <1>5, WaysFacts DEF Ways
<1>10. N = 1 => Ways(1, 0) = IF M = 0 THEN 1 ELSE 0
  <2> SUFFICES ASSUME N = 1 PROVE Ways(1, 0) = IF M = 0 THEN 1 ELSE 0
    OBVIOUS
  <2>1. rules[N].type # "RECURSIVE" /\ M \in 0..M
    BY <1>4, <1>5
  <2>2. Laid(rules, PathOf(entry), isComplex, N, 0)
    BY <1>7
  <2>3. Count(rules, PathOf(entry), isComplex, N, 0) =
            IF Covers(rules[N], PathOf(entry), 0, M) THEN 1 ELSE 0
    BY <2>1, <2>2, AtLast
  <2> QED BY <1>8, <2>1, <2>3 DEF Ways
<1>11. N = 2 /\ rules[2].type = "RECURSIVE" /\ M = 0 => Ways(2, 0) = IF isComplex THEN 1 ELSE 0
  <2> SUFFICES ASSUME N = 2, rules[2].type = "RECURSIVE", M = 0
               PROVE  Ways(2, 0) = IF isComplex THEN 1 ELSE 0
    OBVIOUS
  <2>1. Laid(rules, PathOf(entry), isComplex, N, 0) /\ N - 1 = 1
    BY <1>9
  <2>4. Count(rules, PathOf(entry), isComplex, N, 0) = IF isComplex THEN 1 ELSE 0
    <3>1. rules[N].type = "RECURSIVE" /\ rules[N - 1].type = "ROOT"
      BY <1>4, <2>1
    <3>2. /\ isComplex \in BOOLEAN /\ Laid(rules, PathOf(entry), isComplex, Len(rules), 0)
          /\ rules[Len(rules)].type = "RECURSIVE"
          /\ rules[Len(rules) - 1].type \notin {"NAME", "INDEX"}
      BY <1>3, <2>1, <3>1
    <3> HIDE DEF N, M
    <3>3. Count(rules, PathOf(entry), isComplex, Len(rules), 0) = IF isComplex THEN 1 ELSE 0
      BY ZenonT(60), <3>2, LastRecursive
    <3> QED BY <3>3 DEF N
  <2> QED BY <2>4 DEF Ways
<1>12. N > 1 /\ M = 0 /\ (rules[2].type # "RECURSIVE" \/ N > 2) => Ways(2, 0) = 0
  <2> SUFFICES ASSUME N > 1, M = 0, rules[2].type # "RECURSIVE" \/ N > 2 PROVE Ways(2, 0) = 0
    OBVIOUS
  <2>1. rules[2].type \in StepRules \/ (rules[2].type = "RECURSIVE" /\ 2 < N)
    <3>1. 2 \in 1..N /\ 2 # 1 /\ N >= 2
      BY <1>3, <1>9
    <3> QED BY <1>3, <3>1, RuleFacts
  <2> QED BY <1>9, <2>1, NoWays DEF Ways
<1> HIDE DEF N, L, M
<1>13. /\ AtLastRule <=> N = 1
       /\ AtLastStack <=> L = 1
       /\ RecursiveIsNextAndLast <=> N = 2 /\ rules[2].type = "RECURSIVE" /\ L = 1
  BY <1>3 DEF AtLastRule, AtLastStack, RecursiveIsNextAndLast, N, L
<1> DEFINE fires == \/ BothLast
                    \/ AtLastStack /\ RecursiveIsNextAndLast /\ isComplex
           advances == ~AtLastRule /\ (~AtLastStack \/ rules[Top.rule + 1].type = "RECURSIVE")
<1>14. /\ fires => CallHandler
       /\ ~fires /\ advances => Advance(1, IF L = 1 THEN 0 ELSE 1)
       /\ ~fires /\ ~advances => Return
  BY <1>4, <1>13 DEF MatchRoot
<1>15. /\ fires <=> L = 1 /\ (N = 1 \/ (N = 2 /\ rules[2].type = "RECURSIVE" /\ isComplex))
       /\ advances <=> N > 1 /\ (L > 1 \/ rules[2].type = "RECURSIVE")
  <2>1. Top.rule + 1 = 2 /\ N >= 1 /\ L >= 1 /\ N \in Nat /\ L \in Nat
    BY <1>3 DEF N, L
  <2> QED BY <1>13, <2>1 DEF BothLast
<1> HIDE DEF fires, advances
<1>16. CASE fires
  <2>1. Ways(1, 0) = 1
    BY <1>5, <1>9, <1>10, <1>11, <1>15, <1>16
  <2> QED BY <1>1, <1>6, <1>14, <1>16, <2>1, LoopEnds
<1>17. CASE ~fires /\ ~advances
  <2>1. Ways(1, 0) = 0
    <3>1. N \in Nat /\ N >= 1 /\ L \in Nat /\ L >= 1
      BY <1>3 DEF N, L
    <3>2. CASE N = 1
      <4>1. L > 1
        BY <1>15, <1>17, <3>1, <3>2
      <4> QED BY <1>5, <1>10, <3>2, <4>1
    <3>3. CASE N > 1
      <4>1. L = 1 /\ rules[2].type # "RECURSIVE"
        BY <1>15, <1>17, <3>1, <3>3
      <4> QED BY <1>5, <1>9, <1>12, <3>3, <4>1
    <3> QED BY <3>1, <3>2, <3>3
  <2> QED BY <1>1, <1>6, <1>14, <1>17, <2>1, LoopEnds
<1>18. CASE ~fires /\ advances
  <2>1. N > 1 /\ 2 \in 1..N /\ (L > 1 \/ (L = 1 /\ rules[2].type = "RECURSIVE"))
    BY <1>3, <1>9, <1>15, <1>18 DEF N, L
  <2>2. stack' = stack
    BY <1>14, <1>18 DEF Advance
  <2>3. CASE L = 1
    <3>1. Advance(1, 0) /\ 1 + 1 = 2 /\ 1 + 0 = 1
      BY <1>14, <1>18, <2>3
    <3>2. PlacedCall(Frame(2, 1))'
      <4>1. entry[1].type \notin FieldTypes /\ stack'[1].type # "JOINED_OBJECT"
        BY <1>3, <1>4, <2>2 DEF FieldTypes, Element
      <4>2. N = 2 => ~isComplex
        BY <1>15, <1>18, <2>1, <2>3
      <4> QED BY <1>1, <1>3, <2>3, <4>1, <4>2 DEF PlacedCall, Frame, N, L
    <3>3. Due(Frame(2, 1))' = Due(Top)
      <4>1. Due(Frame(2, 1))' = DueAt(2, 1, "PARSED_ROOT")
        BY <1>1, <1>3, <1>4, <2>1, <2>2, FreshDue DEF Element, N
      <4> QED BY <1>5, <1>6, <1>9, <2>1, <4>1 DEF DueAt, FieldTypes
    <3> QED BY <1>1, <1>2, <1>3, <3>1, <3>2, <3>3, MoveKeeps
  <2>4. CASE L > 1
    <3>1. Advance(1, 1) /\ 1 + 1 = 2
      BY <1>14, <1>18, <2>4
    <3>2. entry[2].type \in {"OBJECT", "PARSED_INDEX"} /\ stack'[2].type = entry[2].type
          /\ 2 \in 1..L
      <4>1. 1 + 1 = 2 /\ 1 < Len(entry) /\ 2 \in 1..Len(entry) /\ 2 > 1
        BY <1>3, <2>4 DEF L
      <4>2. entry[2].type \in {"OBJECT", "PARSED_INDEX"}
        BY <1>3, <1>4, <4>1, KindFacts
      <4> QED BY <1>1, <1>3, <2>2, <4>1, <4>2, RunningFacts DEF L
    <3>3. PlacedCall(Frame(2, 2))'
      BY <1>1, <3>2 DEF PlacedCall, Frame, FieldTypes
    <3>4. Due(Frame(2, 2))' = Due(Top)
      <4>1. Due(Frame(2, 2))' = DueAt(2, 2, entry[2].type)
        BY <1>1, <1>3, <2>1, <2>2, <3>2, FreshDue DEF N, L
      <4>2. 2 - 1 = 1
        OBVIOUS
      <4> QED BY <1>5, <1>6, <1>9, <2>1, <3>2, <4>1, <4>2 DEF DueAt, FieldTypes
    <3> QED BY <1>1, <1>2, <1>3, <3>1, <3>3, <3>4, MoveKeeps
  <2> QED BY <2>1, <2>3, <2>4
<1> QED BY <1>16, <1>17, <1>18

-----------------------------------------------------------------------------
(* The call that runs is at step r of the rule, not the root, and at       *)
(* element p, below which lie h steps of the path, and up to which g.      *)
Here(r, p, h, g) ==
    LET N == Len(rules)
        L == Len(entry)
        M == Len(PathOf(entry))
        kind == entry[p].type
    IN  /\ r \in 2..N /\ p \in 1..L /\ N \in Nat /\ L \in Nat /\ h \in 0..M /\ g \in 0..M /\ M \in Nat
        /\ h = StepsTo(entry, p - 1) /\ g = StepsTo(entry, p)
        /\ p = L <=> g = M
        /\ Rule = rules[r] /\ Element.key = entry[p].key /\ Len(stack) = L
        /\ \/ kind = "PARSED_ROOT" /\ Element.type = kind /\ p = 1 /\ L = 1 /\ g = h /\ r = 2
           \/ kind = "OBJECT" /\ Element.type \in ObjectTypes /\ p < L /\ g = h
           \/ /\ kind \in {"PARSED_INDEX"} \cup FieldTypes /\ Element.type = kind
              /\ g = h + 1 /\ PathOf(entry)[g] = entry[p] /\ (kind = "FIELD" => p = L)
        /\ p < L => p + 1 \in 1..L /\ stack[p + 1].type = entry[p + 1].type
        /\ AtLastRule <=> r = N
        /\ AtLastStack <=> p = L
        /\ RecursiveIsNextAndLast <=> r + 1 = N /\ rules[N].type = "RECURSIVE" /\ p = L
        /\ PlacedCall(Top) /\ Top.rule = r /\ Top.pos = p /\ Top.then = "run"
        /\ Due(Top) = DueAt(r, p, Element.type)

LEMMA WhereItRuns ==
    ASSUME CountInv, InLoop, Rule.type # "ROOT"
    PROVE  \E r, p, h, g : RunsAt(r, p) /\ Here(r, p, h, g)
<1> DEFINE N == Len(rules)
           L == Len(entry)
           M == Len(PathOf(entry))
<1>1. PICK r, p : r = Top.rule /\ p = Top.pos /\ RunsAt(r, p)
  BY RunningFacts
<1>2. PICK h, g : h = StepsTo(entry, p - 1) /\ g = StepsTo(entry, p)
  OBVIOUS
<1>3. /\ IsRule(rules) /\ IsParseStack(entry, isComplex)
      /\ r \in 1..N /\ p \in 1..L /\ Rule = rules[r] /\ Len(stack) = L
      /\ PlacedCall(Top) /\ Top.rule = r /\ Top.pos = p /\ Top.then = "run"
  BY <1>1, RunningFacts DEF RunsAt, CountInv, Rule
<1>4. r \in 2..N /\ N \in Nat /\ L \in Nat /\ r \in Nat /\ p \in Nat
  <2>1. N \in Nat /\ (rules[r].type = "ROOT" <=> r = 1)
    BY <1>3, RuleFacts
  <2>2. L \in Nat
    BY <1>3, KindFacts
  <2> QED BY <1>3, <2>1, <2>2
<1>5. /\ h \in Nat /\ g \in Nat /\ M \in Nat /\ h <= M /\ g <= M
      /\ p = 1 => h = 0
      /\ IsStep(entry[p]) => g = h + 1 /\ PathOf(entry)[h + 1] = entry[p]
      /\ ~IsStep(entry[p]) => g = h
      /\ p = L => g = M
      /\ p < L => g < M
  BY <1>2, <1>3, StepFacts
<1>6. /\ entry[p].type \in SettledTypes
      /\ entry[p].type = "PARSED_ROOT" <=> p = 1
      /\ IsStep(entry[p]) <=> entry[p].type \in {"PARSED_INDEX"} \cup FieldTypes
      /\ entry[p].type = "OBJECT" => p < L
      /\ entry[p].type = "FIELD" => p = L
  BY <1>3, KindFacts
<1>7. /\ entry[p].type # "OBJECT" => Element.type = entry[p].type
      /\ entry[p].type = "OBJECT" => Element.type \in ObjectTypes
      /\ Element.key = entry[p].key
      /\ Due(Top) = DueAt(r, p, Element.type)
      /\ p < L => p + 1 \in 1..L /\ stack[p + 1].type = entry[p + 1].type
  <2>1. p < L => p + 1 \in 1..L /\ p + 1 > p
    BY <1>3, <1>4
  <2>2. p < L => stack[p + 1].type = entry[p + 1].type
    BY <1>1, <1>3, <2>1, RunningFacts
  <2> QED BY <1>1, <2>1, <2>2, RunningFacts
<1>8. p = 1 => L = 1 /\ r = 2
  BY <1>3, <1>4 DEF PlacedCall
<1>9. p = L <=> g = M
  BY <1>3, <1>4, <1>5
<1>10. /\ AtLastRule <=> r = N
       /\ AtLastStack <=> p = L
       /\ RecursiveIsNextAndLast <=> r + 1 = N /\ rules[N].type = "RECURSIVE" /\ p = L
  BY <1>3 DEF AtLastRule, AtLastStack, RecursiveIsNextAndLast
<1>11. \/ entry[p].type = "PARSED_ROOT" /\ Element.type = entry[p].type
          /\ p = 1 /\ L = 1 /\ g = h /\ r = 2
       \/ entry[p].type = "OBJECT" /\ Element.type \in ObjectTypes /\ p < L /\ g = h
       \/ /\ entry[p].type \in {"PARSED_INDEX"} \cup FieldTypes /\ Element.type = entry[p].type
          /\ g = h + 1 /\ PathOf(entry)[g] = entry[p] /\ (entry[p].type = "FIELD" => p = L)
  <2>1. CASE entry[p].type = "PARSED_ROOT"
    BY <1>5, <1>6, <1>7, <1>8, <2>1 DEF FieldTypes
  <2>2. CASE entry[p].type = "OBJECT"
    BY <1>5, <1>6, <1>7, <2>2 DEF FieldTypes
  <2>3. CASE entry[p].type \in {"PARSED_INDEX"} \cup FieldTypes
    BY <1>5, <1>6, <1>7, <2>3 DEF FieldTypes
  <2> QED BY <1>6, <2>1, <2>2, <2>3 DEF SettledTypes
<1>12. h \in 0..M /\ g \in 0..M
  BY <1>5
<1> HIDE DEF N, L, M
<1>13. Here(r, p, h, g)
  BY <1>2, <1>3, <1>4, <1>5, <1>7, <1>9, <1>10, <1>11, <1>12 DEF Here, N, L, M
<1> QED BY <1>1, <1>13

(* What a running call is due when its rule is a single step. *)
LEMMA StepDue ==
    ASSUME CountInv, NEW r, NEW p, NEW h, NEW g, Here(r, p, h, g), Rule.type \in StepRules
    PROVE  LET covers == /\ entry[p].type \in {"PARSED_INDEX"} \cup FieldTypes
                         /\ Covers(rules[r], PathOf(entry), h, g)
               last == rules[Len(rules)].type = "RECURSIVE" /\ r + 1 = Len(rules)
           IN  /\ entry[p].type = "OBJECT" => Due(Top) = Ways(r, g)
               /\ entry[p].type # "OBJECT" /\ ~covers => Due(Top) = 0
               /\ covers /\ r = Len(rules) /\ p = Len(entry) => Due(Top) = 1
               /\ covers /\ r = Len(rules) /\ p < Len(entry) => Due(Top) = 0
               /\ covers /\ r < Len(rules) /\ p < Len(entry) => Due(Top) = Ways(r + 1, g)
               /\ covers /\ r < Len(rules) /\ p = Len(entry) /\ ~last => Due(Top) = 0
               /\ covers /\ p = Len(entry) /\ last /\ Rule.type = "NAME" => Due(Top) = 1
               /\ covers /\ p = Len(entry) /\ last /\ Rule.type = "INDEX" => Due(Top) = 0
               /\ covers /\ p = Len(entry) /\ last /\ Rule.type \in {"ANY", "ANYINDEX"} /\ isComplex
                     => Due(Top) = 1
               /\ covers /\ p = Len(entry) /\ last /\ Rule.type \in {"ANY", "ANYINDEX"} /\ ~isComplex
                     => Due(Top) = 0
<1> DEFINE N == Len(rules)
           L == Len(entry)
           M == Len(PathOf(entry))
           covers == /\ entry[p].type \in {"PARSED_INDEX"} \cup FieldTypes
                     /\ Covers(rules[r], PathOf(entry), h, g)
           last == rules[N].type = "RECURSIVE" /\ r + 1 = N
<1>1. /\ r \in 2..N /\ r \in 1..N /\ p \in 1..L /\ N \in Nat /\ L \in Nat
      /\ h \in 0..M /\ g \in 0..M /\ M \in Nat /\ r \in Nat /\ h \in Nat /\ g \in Nat
      /\ p = L <=> g = M
      /\ Rule = rules[r] /\ rules[r].type \in StepRules /\ rules[r].type # "RECURSIVE"
      /\ Due(Top) = DueAt(r, p, Element.type) /\ h = StepsTo(entry, p - 1)
      /\ IsRule(rules) /\ isComplex \in BOOLEAN
  BY DEF Here, StepRules, CountInv, MatchInv, TypeOK
<1>2. Due(Top) = Ways(r, h)
  BY <1>1 DEF DueAt
<1>3. \/ entry[p].type = "PARSED_ROOT" /\ p = L /\ g = h
      \/ entry[p].type = "OBJECT" /\ g = h
      \/ entry[p].type \in {"PARSED_INDEX"} \cup FieldTypes /\ g = h + 1
  BY DEF Here
<1>4. Ways(r, h) = IF h < M /\ Covers(rules[r], PathOf(entry), h, h + 1)
                   THEN IF r < N THEN Ways(r + 1, h + 1) ELSE IF h + 1 = M THEN 1 ELSE 0
                   ELSE 0
  <2>1. Laid(rules, PathOf(entry), isComplex, r, h)
    BY <1>1, WaysFacts
  <2> QED BY <1>1, <2>1, StepWays DEF Ways
<1>5. covers => Ways(r, h) = IF r < N THEN Ways(r + 1, g) ELSE IF g = M THEN 1 ELSE 0
  <2> SUFFICES ASSUME covers PROVE Ways(r, h) = IF r < N THEN Ways(r + 1, g) ELSE IF g = M THEN 1 ELSE 0
    OBVIOUS
  <2>1. g = h + 1 /\ h < M
    BY <1>1, <1>3 DEF FieldTypes
  <2> QED BY <1>4, <2>1
<1>6. entry[p].type # "OBJECT" /\ ~covers => Ways(r, h) = 0
  <2>1. CASE entry[p].type = "PARSED_ROOT"
    BY <1>1, <1>3, <1>4, <2>1 DEF FieldTypes
  <2>2. CASE entry[p].type \in {"PARSED_INDEX"} \cup FieldTypes
    BY <1>1, <1>3, <1>4, <2>2 DEF FieldTypes
  <2> QED BY <1>3, <2>1, <2>2
<1>7. ASSUME r < N, g = M
      PROVE  /\ r + 1 \in 1..N
             /\ Laid(rules, PathOf(entry), isComplex, r + 1, Len(PathOf(entry)))
             /\ rules[r + 1].type \in StepRules \/ rules[r + 1].type = "RECURSIVE"
  <2>1. r + 1 \in 1..N /\ r + 1 # 1 /\ M \in 0..M
    BY <1>1, <1>7
  <2>2. Laid(rules, PathOf(entry), isComplex, r + 1, M)
    BY <2>1, WaysFacts
  <2>3. rules[r + 1].type \in StepRules \/ rules[r + 1].type = "RECURSIVE"
    BY <1>1, <2>1, RuleFacts
  <2> QED BY <2>1, <2>2, <2>3
<1>8. r < N /\ g = M /\ ~last => Ways(r + 1, g) = 0
  <2> SUFFICES ASSUME r < N, g = M, ~last PROVE Ways(r + 1, g) = 0
    OBVIOUS
  <2>1. rules[r + 1].type \in StepRules \/ (rules[r + 1].type = "RECURSIVE" /\ r + 1 < N)
    <3>1. r + 1 < N \/ r + 1 = N
      BY <1>1
    <3> QED BY <1>7, <3>1
  <2> QED BY <1>7, <2>1, NoWays DEF Ways
<1>9. ASSUME last, g = M
      PROVE  /\ rules[r].type = "NAME" => Ways(r + 1, g) = 1
             /\ rules[r].type = "INDEX" => Ways(r + 1, g) = 0
             /\ rules[r].type \in {"ANY", "ANYINDEX"} /\ isComplex => Ways(r + 1, g) = 1
             /\ rules[r].type \in {"ANY", "ANYINDEX"} /\ ~isComplex => Ways(r + 1, g) = 0
  <2>1. r < N /\ N - 1 = r
    BY <1>1, <1>9
  <2>2. Laid(rules, PathOf(entry), isComplex, N, Len(PathOf(entry)))
    BY <1>7, <1>9, <2>1
  <2>3. rules[N].type = "RECURSIVE" /\ rules[N - 1].type = rules[r].type
    BY <1>9, <2>1
  <2> HIDE DEF N
  <2>4. /\ rules[r].type = "NAME" => Count(rules, PathOf(entry), isComplex, N, g) = 1
        /\ rules[r].type = "INDEX" => Count(rules, PathOf(entry), isComplex, N, g) = 0
        /\ rules[r].type \in {"ANY", "ANYINDEX"} /\ isComplex => Count(rules, PathOf(entry), isComplex, N, g) = 1
        /\ rules[r].type \in {"ANY", "ANYINDEX"} /\ ~isComplex => Count(rules, PathOf(entry), isComplex, N, g) = 0
    BY ZenonT(60), <1>1, <1>9, <2>2, <2>3, LastRecursive DEF N
  <2> QED BY <1>9, <2>4 DEF Ways
<1>10. last => r < N
  BY <1>1
<1>11. entry[p].type = "OBJECT" => Ways(r, h) = Ways(r, g)
  BY <1>3 DEF FieldTypes
<1>12. covers => entry[p].type # "OBJECT"
  BY DEF FieldTypes
<1>13. r < N => r # N
  BY <1>1
<1>14. p < L => p # L
  BY <1>1
<1> HIDE DEF covers, last, N, L, M
<1>15. /\ entry[p].type = "OBJECT" => Due(Top) = Ways(r, g)
       /\ entry[p].type # "OBJECT" /\ ~covers => Due(Top) = 0
       /\ covers /\ r = N /\ p = L => Due(Top) = 1
       /\ covers /\ r = N /\ p < L => Due(Top) = 0
       /\ covers /\ r < N /\ p < L => Due(Top) = Ways(r + 1, g)
       /\ covers /\ r < N /\ p = L /\ ~last => Due(Top) = 0
  BY <1>1, <1>2, <1>5, <1>6, <1>8, <1>11, <1>13, <1>14
<1>16. /\ covers /\ p = L /\ last /\ Rule.type = "NAME" => Due(Top) = 1
       /\ covers /\ p = L /\ last /\ Rule.type = "INDEX" => Due(Top) = 0
       /\ covers /\ p = L /\ last /\ Rule.type \in {"ANY", "ANYINDEX"} /\ isComplex => Due(Top) = 1
       /\ covers /\ p = L /\ last /\ Rule.type \in {"ANY", "ANYINDEX"} /\ ~isComplex => Due(Top) = 0
  BY <1>1, <1>2, <1>5, <1>9, <1>10
<1> QED BY <1>15, <1>16 DEF covers, last, N, L

(* A call that moves past an object. *)
LEMMA SkipKeeps ==
    ASSUME CountInv, MatchInv', InLoop, UNCHANGED <<rules, isComplex, entry>>,
           NEW r, NEW p, NEW h, NEW g, RunsAt(r, p), Here(r, p, h, g),
           Rule.type \in StepRules, entry[p].type = "OBJECT", Advance(0, 1)
    PROVE  CountInv'
<1>1. /\ r \in 1..Len(rules) /\ r # 1 /\ r <= Len(rules) /\ p \in 1..Len(entry)
      /\ p + 1 \in 1..Len(entry) /\ p + 1 <= Len(stack) /\ p + 1 # 1 /\ p + 1 <= Len(entry)
      /\ stack[p + 1].type = entry[p + 1].type /\ rules[r] = Rule /\ r + 0 = r
      /\ g = StepsTo(entry, p)
  <2>1. r \in 2..Len(rules) /\ Len(rules) \in Nat /\ p \in 1..Len(entry) /\ Len(entry) \in Nat
    BY DEF Here
  <2>2. p < Len(entry)
    BY DEF Here, FieldTypes
  <2> QED BY <2>1, <2>2 DEF Here
<1>2. UNCHANGED stack
  BY DEF Advance
<1>3. rules[r].type # "RECURSIVE"
  BY <1>1 DEF StepRules
<1>4. Due(Frame(r, p + 1))' = DueAt(r, p + 1, entry[p + 1].type)
  BY <1>1, <1>2, FreshDue
<1>5. DueAt(r, p + 1, entry[p + 1].type) = Ways(r, g)
  BY <1>1, <1>3, DueAbove
<1>6. Due(Top) = Ways(r, g)
  BY StepDue
<1>7. PlacedCall(Frame(r, p + 1))'
  BY <1>1, <1>3 DEF PlacedCall, Frame
<1> QED BY <1>1, <1>4, <1>5, <1>6, <1>7, MoveKeeps

(* The rest of the stack is for the rest of the rule. *)
LEMMA OnwardFacts ==
    ASSUME CountInv, UNCHANGED <<rules, isComplex, entry>>,
           NEW r, NEW p, NEW h, NEW g, Here(r, p, h, g), Rule.type \in StepRules,
           entry[p].type \in {"PARSED_INDEX"} \cup FieldTypes,
           Covers(rules[r], PathOf(entry), h, g), r < Len(rules), p < Len(entry),
           Len(stack') = Len(stack), stack'[p + 1] = stack[p + 1]
    PROVE  /\ Due(Frame(r + 1, p + 1))' = Due(Top) /\ Due(Top) \in Nat
           /\ PlacedCall(Frame(r + 1, p + 1))'
<1>1. /\ r + 1 \in 1..Len(rules) /\ r + 1 # 1 /\ r + 1 <= Len(rules) /\ p \in 1..Len(entry)
      /\ p + 1 \in 1..Len(entry) /\ p + 1 <= Len(stack') /\ p + 1 # 1 /\ p + 1 <= Len(entry)
      /\ stack'[p + 1].type = entry[p + 1].type /\ g \in 0..Len(PathOf(entry))
      /\ g = StepsTo(entry, p)
  BY DEF Here
<1>2. entry[p].type # "OBJECT"
  BY DEF FieldTypes
<1>3. Due(Frame(r + 1, p + 1))' = DueAt(r + 1, p + 1, entry[p + 1].type)
  BY <1>1, FreshDue
<1>4. DueAt(r + 1, p + 1, entry[p + 1].type) = Ways(r + 1, g)
  BY <1>1, <1>2, DueAbove
<1>5. Due(Top) = Ways(r + 1, g)
  BY StepDue
<1>6. Ways(r + 1, g) \in Nat
  BY <1>1, WaysFacts
<1>7. PlacedCall(Frame(r + 1, p + 1))'
  <2>1. entry[p + 1].type \in {"OBJECT", "PARSED_INDEX"}
    BY <1>1, <1>2, KindFacts DEF CountInv
  <2> QED BY <1>1, <2>1 DEF PlacedCall, Frame, FieldTypes
<1> QED BY <1>3, <1>4, <1>5, <1>6, <1>7

LEMMA DescendKeeps ==
    ASSUME CountInv, MatchInv', InLoop, UNCHANGED <<rules, isComplex, entry>>,
           NEW r, NEW p, NEW h, NEW g, RunsAt(r, p), Here(r, p, h, g), Rule.type \in StepRules,
           entry[p].type \in {"PARSED_INDEX"} \cup FieldTypes,
           Covers(rules[r], PathOf(entry), h, g), r < Len(rules), p < Len(entry), Descend
    PROVE  CountInv'
<1> DEFINE t == entry[p].type
<1>1. /\ Element.type = t /\ Top.pos = p /\ Top.then = "run" /\ stack \in Seq(StackElements)
      /\ t \in {"PARSED_INDEX"} \cup FieldTypes
  BY DEF Here, FieldTypes, CountInv, MatchInv, TypeOK, ObjectTypes
<1>2. Mark("RESOLVED_FIELD") /\ Call(1, 1, t)
  BY <1>1 DEF Descend
<1>3. /\ t \in Pending /\ t \notin {"callAsHead", "callNextRule", "run", "OBJECT"}
      /\ "RESOLVED_FIELD" \in StackTypes /\ 0 \in Nat /\ 1 \in {0, 1}
      /\ Top.then \notin {"PARSED_INDEX"} \cup FieldTypes
  BY <1>1 DEF Pending, FieldTypes, StackTypes, TransientTypes
<1>4. Len(stack') = Len(stack) /\ stack'[p + 1] = stack[p + 1]
  <2>1. p + 1 \in 1..Len(stack) /\ p \in 1..Len(stack) /\ p + 1 # p
    BY DEF Here
  <2> QED BY <1>1, <1>2, <2>1 DEF Mark
<1>5. /\ Due(Frame(r + 1, p + 1))' = Due(Top) /\ Due(Top) \in Nat
      /\ PlacedCall(Frame(r + 1, p + 1))'
  BY <1>4, OnwardFacts
<1>6. Due(Top) = 0 + Due(Top)
  BY <1>5
<1>7. PICK b \in Nat : b = Due(Top)
  BY <1>5
<1>8. t = entry[p].type
  OBVIOUS
<1> HIDE DEF t
<1> QED BY <1>2, <1>3, <1>5, <1>6, <1>7, <1>8, CallKeeps

LEMMA ResolveAnyCounts ==
    ASSUME CountInv, MatchInv', InLoop, Rule.type \in {"ANY", "ANYINDEX"}, ResolveAny
    PROVE  CountInv'
<1>1. PICK r, p, h, g : RunsAt(r, p) /\ Here(r, p, h, g)
  BY WhereItRuns
<1> DEFINE N == Len(rules)
           L == Len(entry)
           step == entry[p].type \in {"PARSED_INDEX"} \cup FieldTypes
           last == rules[Len(rules)].type = "RECURSIVE" /\ r + 1 = Len(rules)
<1>2. /\ r \in 2..N /\ N \in Nat /\ p \in 1..L /\ L \in Nat
      /\ AtLastRule <=> r = N
      /\ AtLastStack <=> p = L
      /\ BothLast <=> r = N /\ p = L
      /\ RecursiveIsNextAndLast <=> last /\ p = L
      /\ Rule.type \in StepRules /\ UNCHANGED <<rules, isComplex, entry>>
      /\ Rule = rules[r] /\ isComplex \in BOOLEAN
  BY <1>1 DEF Here, BothLast, StepRules, ResolveAny, CountInv, MatchInv, TypeOK
<1>3. /\ Element.type \in FieldTypes \cup {"PARSED_INDEX"} <=> step
      /\ Element.type \in ObjectTypes <=> entry[p].type = "OBJECT"
      /\ step => entry[p].type # "OBJECT"
      /\ entry[p].type = "OBJECT" => p < L
      /\ step => g = h + 1
  BY <1>1 DEF Here, FieldTypes, ObjectTypes
<1>4. step => Covers(rules[r], PathOf(entry), h, g)
  BY <1>2, <1>3 DEF Covers
<1>5. /\ entry[p].type # "OBJECT" /\ ~step => Due(Top) = 0
      /\ step /\ r = N /\ p = L => Due(Top) = 1
      /\ step /\ r = N /\ p < L => Due(Top) = 0
      /\ step /\ r < N /\ p = L /\ ~last => Due(Top) = 0
      /\ step /\ p = L /\ last /\ isComplex => Due(Top) = 1
      /\ step /\ p = L /\ last /\ ~isComplex => Due(Top) = 0
  BY <1>1, <1>2, <1>4, StepDue
<1> DEFINE fires == \/ r = N /\ p = L /\ step
                    \/ last /\ p = L /\ isComplex /\ step
           descends == step /\ p # L /\ r # N
<1>6. \/ fires /\ CallHandler
      \/ ~fires /\ descends /\ Descend
      \/ ~fires /\ entry[p].type = "OBJECT" /\ Advance(0, 1)
      \/ ~fires /\ ~descends /\ entry[p].type # "OBJECT" /\ Return
  <2>1. p < L => p # L
    BY <1>2
  <2> QED BY <1>2, <1>3, <2>1 DEF ResolveAny
<1>7. (r # N <=> r < N) /\ (p # L <=> p < L) /\ (last => r < N)
  BY <1>2
<1>8. CASE fires /\ CallHandler
  <2>1. Due(Top) = 1
    BY <1>5, <1>8
  <2> QED BY <1>2, <1>8, <2>1, LoopEnds
<1>9. CASE ~fires /\ descends /\ Descend
  BY <1>1, <1>2, <1>4, <1>7, <1>9, DescendKeeps
<1>10. CASE ~fires /\ entry[p].type = "OBJECT" /\ Advance(0, 1)
  BY <1>1, <1>2, <1>10, SkipKeeps
<1>11. CASE ~fires /\ ~descends /\ entry[p].type # "OBJECT" /\ Return
  <2>1. Due(Top) = 0
    BY <1>2, <1>5, <1>7, <1>11
  <2> QED BY <1>2, <1>11, <2>1, LoopEnds
<1> HIDE DEF fires, descends
<1> QED BY <1>6, <1>8, <1>9, <1>10, <1>11

LEMMA MatchNameCounts == ASSUME CountInv, MatchInv', MatchName PROVE CountInv'
<1>1. InLoop /\ Rule.type = "NAME" /\ Rule.type # "ROOT" /\ UNCHANGED <<rules, isComplex, entry>>
  BY DEF MatchName
<1>2. PICK r, p, h, g : RunsAt(r, p) /\ Here(r, p, h, g)
  BY <1>1, WhereItRuns
<1> DEFINE N == Len(rules)
           L == Len(entry)
           resolves == entry[p].type \in FieldTypes /\ entry[p].key = rules[r].key
           last == rules[Len(rules)].type = "RECURSIVE" /\ r + 1 = Len(rules)
<1>3. /\ r \in 2..N /\ N \in Nat /\ p \in 1..L /\ L \in Nat
      /\ AtLastRule <=> r = N
      /\ AtLastStack <=> p = L
      /\ BothLast <=> r = N /\ p = L
      /\ RecursiveIsNextAndLast <=> last /\ p = L
      /\ Rule.type \in StepRules /\ Rule = rules[r] /\ rules[r].type = "NAME"
  BY <1>1, <1>2 DEF Here, BothLast, StepRules
<1>4. /\ Element.type \in FieldTypes /\ Element.key = Rule.key <=> resolves
      /\ Element.type \in ObjectTypes <=> entry[p].type = "OBJECT"
      /\ resolves => entry[p].type \in {"PARSED_INDEX"} \cup FieldTypes /\ entry[p].type # "OBJECT"
      /\ entry[p].type = "OBJECT" => p < L
      /\ entry[p].type \in {"PARSED_INDEX"} \cup FieldTypes => g = h + 1 /\ PathOf(entry)[g] = entry[p]
  BY <1>2 DEF Here, FieldTypes, ObjectTypes
<1>5. (/\ entry[p].type \in {"PARSED_INDEX"} \cup FieldTypes
       /\ Covers(rules[r], PathOf(entry), h, g)) <=> resolves
  <2>1. CASE entry[p].type \in {"PARSED_INDEX"} \cup FieldTypes
    <3>1. Covers(rules[r], PathOf(entry), h, g)
             <=> entry[p].type # "PARSED_INDEX" /\ entry[p].key = rules[r].key
      BY <1>3, <1>4, <2>1 DEF Covers
    <3> QED BY <2>1, <3>1 DEF FieldTypes
  <2>2. CASE entry[p].type \notin {"PARSED_INDEX"} \cup FieldTypes
    BY <2>2
  <2> QED BY <2>1, <2>2
<1>6. /\ entry[p].type # "OBJECT" /\ ~resolves => Due(Top) = 0
      /\ resolves /\ r = N /\ p = L => Due(Top) = 1
      /\ resolves /\ r = N /\ p < L => Due(Top) = 0
      /\ resolves /\ r < N /\ p = L /\ ~last => Due(Top) = 0
      /\ resolves /\ p = L /\ last => Due(Top) = 1
  BY <1>1, <1>2, <1>3, <1>5, StepDue
<1> DEFINE fires == resolves /\ p = L /\ (r = N \/ last)
           descends == resolves /\ p # L /\ r # N
<1>7. \/ fires /\ CallHandler
      \/ ~fires /\ descends /\ Descend
      \/ entry[p].type = "OBJECT" /\ Advance(0, 1)
      \/ ~fires /\ ~descends /\ entry[p].type # "OBJECT" /\ Return
  BY <1>3, <1>4 DEF MatchName
<1>8. (r # N <=> r < N) /\ (p # L <=> p < L) /\ (last => r < N)
  BY <1>3
<1>9. CASE fires /\ CallHandler
  <2>1. Due(Top) = 1
    BY <1>6, <1>9
  <2> QED BY <1>1, <1>9, <2>1, LoopEnds
<1>10. CASE ~fires /\ descends /\ Descend
  BY <1>1, <1>2, <1>3, <1>4, <1>5, <1>8, <1>10, DescendKeeps
<1>11. CASE entry[p].type = "OBJECT" /\ Advance(0, 1)
  BY <1>1, <1>2, <1>3, <1>11, SkipKeeps
<1>12. CASE ~fires /\ ~descends /\ entry[p].type # "OBJECT" /\ Return
  <2>1. Due(Top) = 0
    BY <1>3, <1>6, <1>8, <1>12
  <2> QED BY <1>1, <1>12, <2>1, LoopEnds
<1> HIDE DEF fires, descends
<1> QED BY <1>7, <1>9, <1>10, <1>11, <1>12

LEMMA MatchIndexCounts == ASSUME CountInv, MatchInv', MatchIndex PROVE CountInv'
<1>1. InLoop /\ Rule.type = "INDEX" /\ Rule.type # "ROOT" /\ UNCHANGED <<rules, isComplex, entry>>
  BY DEF MatchIndex
<1>2. PICK r, p, h, g : RunsAt(r, p) /\ Here(r, p, h, g)
  BY <1>1, WhereItRuns
<1> DEFINE N == Len(rules)
           L == Len(entry)
           resolves == entry[p].type = "PARSED_INDEX" /\ entry[p].key = rules[r].key
           last == rules[Len(rules)].type = "RECURSIVE" /\ r + 1 = Len(rules)
<1>3. /\ r \in 2..N /\ N \in Nat /\ p \in 1..L /\ L \in Nat
      /\ AtLastRule <=> r = N
      /\ AtLastStack <=> p = L
      /\ BothLast <=> r = N /\ p = L
      /\ Rule.type \in StepRules /\ Rule = rules[r] /\ rules[r].type = "INDEX"
  BY <1>1, <1>2 DEF Here, BothLast, StepRules
<1>4. /\ Element.type = "PARSED_INDEX" /\ Element.key = Rule.key <=> resolves
      /\ Element.type \in ObjectTypes <=> entry[p].type = "OBJECT"
      /\ resolves => entry[p].type \in {"PARSED_INDEX"} \cup FieldTypes /\ entry[p].type # "OBJECT"
      /\ entry[p].type = "OBJECT" => p < L
      /\ entry[p].type \in {"PARSED_INDEX"} \cup FieldTypes => g = h + 1 /\ PathOf(entry)[g] = entry[p]
  BY <1>2 DEF Here, FieldTypes, ObjectTypes
<1>5. (/\ entry[p].type \in {"PARSED_INDEX"} \cup FieldTypes
       /\ Covers(rules[r], PathOf(entry), h, g)) <=> resolves
  <2>1. CASE entry[p].type \in {"PARSED_INDEX"} \cup FieldTypes
    BY <1>3, <1>4, <2>1 DEF Covers
  <2>2. CASE entry[p].type \notin {"PARSED_INDEX"} \cup FieldTypes
    BY <2>2
  <2> QED BY <2>1, <2>2
<1>6. /\ entry[p].type # "OBJECT" /\ ~resolves => Due(Top) = 0
      /\ resolves /\ r = N /\ p = L => Due(Top) = 1
      /\ resolves /\ r = N /\ p < L => Due(Top) = 0
      /\ resolves /\ r < N /\ p = L /\ ~last => Due(Top) = 0
      /\ resolves /\ p = L /\ last => Due(Top) = 0
  BY <1>1, <1>2, <1>3, <1>5, StepDue
<1>7. \/ resolves /\ r = N /\ p = L /\ CallHandler
      \/ resolves /\ p # L /\ r # N /\ Advance(1, 1)
      \/ entry[p].type = "OBJECT" /\ Advance(0, 1)
      \/ /\ ~(resolves /\ r = N /\ p = L) /\ ~(resolves /\ p # L /\ r # N)
         /\ entry[p].type # "OBJECT" /\ Return
  BY <1>3, <1>4 DEF MatchIndex
<1>8. (r # N <=> r < N) /\ (p # L <=> p < L)
  BY <1>3
<1>9. CASE resolves /\ r = N /\ p = L /\ CallHandler
  BY <1>1, <1>6, <1>9, LoopEnds
<1>10. CASE resolves /\ p # L /\ r # N /\ Advance(1, 1)
  <2>1. UNCHANGED stack
    BY <1>10 DEF Advance
  <2>2. Due(Frame(r + 1, p + 1))' = Due(Top) /\ PlacedCall(Frame(r + 1, p + 1))'
    BY <1>1, <1>2, <1>3, <1>4, <1>5, <1>8, <1>10, <2>1, OnwardFacts
  <2> QED BY <1>1, <1>2, <1>10, <2>2, MoveKeeps
<1>11. CASE entry[p].type = "OBJECT" /\ Advance(0, 1)
  BY <1>1, <1>2, <1>3, <1>11, SkipKeeps
<1>12. CASE /\ ~(resolves /\ r = N /\ p = L) /\ ~(resolves /\ p # L /\ r # N)
            /\ entry[p].type # "OBJECT" /\ Return
  <2>1. Due(Top) = 0
    BY <1>3, <1>6, <1>8, <1>12
  <2> QED BY <1>1, <1>12, <2>1, LoopEnds
<1> QED BY <1>7, <1>9, <1>10, <1>11, <1>12

LEMMA LeaveLoopCounts == ASSUME CountInv, MatchInv', LeaveLoop PROVE CountInv'
<1>1. /\ frames # <<>> /\ Top.then = "run" /\ Pop /\ UNCHANGED <<rules, isComplex, entry, stack, calls>>
      /\ ~(Top.rule <= Len(rules) /\ Top.pos <= Len(stack)) /\ calls \in Nat
  BY DEF LeaveLoop, Running, InLoop, Return, CountInv, MatchInv, TypeOK
<1>2. Due(Top) = 0
  BY <1>1 DEF Due
<1> QED BY <1>1, <1>2, PopKeeps

LEMMA ResumeCounts == ASSUME CountInv, MatchInv', Resume PROVE CountInv'
<1>1. /\ frames # <<>> /\ UNCHANGED <<rules, isComplex, entry>>
      /\ Depth \in 1..Len(frames) /\ Top \in Frames /\ Top = frames[Depth] /\ Depth = Len(frames)
      /\ calls \in Nat /\ Len(stack) = Len(entry)
  BY DEF Resume, CountInv, MatchInv, TypeOK, SameShape, Top, Depth
<1>2. CASE Top.then \in {"OBJECT", "PARSED_INDEX"} \cup FieldTypes /\ Mark(Top.then) /\ Pop /\ UNCHANGED calls
  <2>1. Due(Top) = 0 /\ Top.then \in SettledTypes
    BY <1>2 DEF Due, FieldTypes, SettledTypes
  <2>2. PICK t \in SettledTypes : Mark(t)
    BY <1>2, <2>1
  <2> QED BY <1>1, <1>2, <2>1, <2>2, PopKeeps
<1>3. CASE Top.then = "return" /\ Return
  <2>1. Due(Top) = 0
    BY <1>3 DEF Due
  <2> QED BY <1>1, <1>3, <2>1, PopKeeps DEF Return
<1>4. ASSUME Top.then \in {"callAsHead", "callNextRule"}
      PROVE  \E r, p : /\ RunsAt(r, p) /\ IsRule(rules) /\ IsParseStack(entry, isComplex)
                       /\ r \in 1..Len(rules) /\ p \in 1..Len(entry) /\ Len(rules) \in Nat
                       /\ Top.rule = r /\ Top.pos = p
                       /\ rules[r].type = "RECURSIVE" /\ r # 1
                       /\ Top.then = "callAsHead" => r < Len(rules) /\ entry[p].type = "OBJECT"
                       /\ Top.then = "callNextRule" => entry[p].type = "PARSED_INDEX"
                       /\ Due(Top) = IF r < Len(rules) THEN Ways(r + 1, StepsTo(entry, p - 1)) ELSE 0
                       /\ Due(Top) \in Nat
  <2>1. PICK r, p : Top.rule = r /\ Top.pos = p
    OBVIOUS
  <2>2. PlacedCall(Top) /\ IsRule(rules) /\ IsParseStack(entry, isComplex) /\ Len(rules) \in Nat
    BY <1>1 DEF CountInv, Placed, IsRule
  <2>3. r <= Len(rules) /\ p <= Len(stack)
    BY <1>1, <1>4, <2>1 DEF CountInv, MatchInv, WaitingInRange
  <2>4. r \in 1..Len(rules) /\ p \in 1..Len(entry) /\ Len(entry) \in Nat
    <3>1. Len(entry) \in Nat
      BY <2>2 DEF IsParseStack
    <3> QED BY <1>1, <2>1, <2>2, <2>3, <3>1 DEF Frames
  <2>5. rules[r].type = "RECURSIVE"
    BY <1>1, <1>4, <2>1, <2>2 DEF CountInv, MatchInv, WaitingInRange, PlacedCall
  <2>6. r # 1
    BY <2>2, <2>4, <2>5, RuleFacts
  <2>7. Top.then = "callAsHead" => r < Len(rules) /\ entry[p].type = "OBJECT"
    BY <1>1, <2>1, <2>2 DEF CountInv, MatchInv, PendingTypes, PlacedCall
  <2>8. Top.then = "callNextRule" => entry[p].type = "PARSED_INDEX"
    BY <2>1, <2>2 DEF PlacedCall
  <2>9. Due(Top) = IF r < Len(rules) THEN Ways(r + 1, StepsTo(entry, p - 1)) ELSE 0
    BY <1>4, <2>1 DEF Due
  <2>10. r < Len(rules) => Ways(r + 1, StepsTo(entry, p - 1)) \in Nat
    <3> SUFFICES ASSUME r < Len(rules) PROVE Ways(r + 1, StepsTo(entry, p - 1)) \in Nat
      OBVIOUS
    <3>1. r + 1 \in 1..Len(rules) /\ StepsTo(entry, p - 1) \in 0..Len(PathOf(entry))
      BY <2>2, <2>4, StepFacts
    <3> QED BY <3>1, WaysFacts
  <2>11. RunsAt(r, p)
    BY <1>1, <2>1, <2>2, <2>4 DEF RunsAt
  <2> QED BY <2>1, <2>2, <2>4, <2>5, <2>6, <2>7, <2>8, <2>9, <2>10, <2>11
<1>5. CASE Top.then = "callAsHead" /\ Mark("HEAD_OF_JOINED_OBJECT") /\ Call(0, 0, "OBJECT")
  <2>1. PICK r, p : /\ RunsAt(r, p) /\ Top.pos = p
                    /\ r \in 1..Len(rules) /\ p \in 1..Len(entry) /\ Len(rules) \in Nat
                    /\ rules[r].type = "RECURSIVE" /\ r # 1
                    /\ r < Len(rules) /\ entry[p].type = "OBJECT"
                    /\ Due(Top) = Ways(r + 1, StepsTo(entry, p - 1)) /\ Due(Top) \in Nat
                    /\ IsParseStack(entry, isComplex)
    BY <1>4, <1>5
  <2>2. Len(stack') = Len(entry) /\ stack'[p].type = "HEAD_OF_JOINED_OBJECT"
    <3>1. stack \in Seq(StackElements) /\ p \in 1..Len(stack)
      BY <1>1, <2>1 DEF CountInv, MatchInv, TypeOK
    <3>2. Element \in StackElements
      BY <2>1, <3>1 DEF Element
    <3> QED BY <1>1, <1>5, <2>1, <3>1, <3>2 DEF Mark, StackElements
  <2>3. r + 0 = r /\ p + 0 = p /\ p \in Nat /\ r <= Len(rules) /\ p <= Len(entry) /\ r # Len(rules)
    BY <2>1
  <2>4. Due(Frame(r, p))' = Due(Top)
    <3>1. Due(Frame(r, p))' = DueAt(r, p, "HEAD_OF_JOINED_OBJECT")
      BY <1>1, <2>2, <2>3, FreshDue
    <3> QED BY <2>1, <3>1 DEF DueAt, FieldTypes
  <2>5. PlacedCall(Frame(r, p))'
    <3>1. p # 1
      BY <2>1, KindFacts
    <3> QED BY <1>1, <2>1, <2>2, <3>1 DEF PlacedCall, Frame
  <2>6. PICK b \in Nat : b = Due(Top)
    BY <2>1
  <2>7. /\ "OBJECT" \in Pending /\ "OBJECT" \notin {"PARSED_INDEX"} \cup FieldTypes
        /\ "HEAD_OF_JOINED_OBJECT" \in StackTypes /\ Top.then \notin {"PARSED_INDEX"} \cup FieldTypes
    BY <1>5 DEF Pending, FieldTypes, StackTypes, TransientTypes
  <2>8. 0 \in {0, 1} /\ 0 \in Nat /\ b = 0 + b
    OBVIOUS
  <2> QED BY SMTT(30), <1>1, <1>5, <2>1, <2>3, <2>4, <2>5, <2>6, <2>7, <2>8, CallKeeps
<1>6. CASE Top.then = "callNextRule" /\ Call(1, 0, "return") /\ UNCHANGED stack
  <2>1. PICK r, p : /\ RunsAt(r, p) /\ Top.pos = p
                    /\ r \in 1..Len(rules) /\ p \in 1..Len(entry) /\ Len(rules) \in Nat
                    /\ rules[r].type = "RECURSIVE" /\ r # 1 /\ entry[p].type = "PARSED_INDEX"
                    /\ Due(Top) = IF r < Len(rules) THEN Ways(r + 1, StepsTo(entry, p - 1)) ELSE 0
                    /\ Due(Top) \in Nat /\ IsParseStack(entry, isComplex) /\ IsRule(rules)
    BY <1>4, <1>6
  <2>2. p + 0 = p /\ p \in Nat /\ p <= Len(stack') /\ r + 1 # 1
    BY <1>1, <1>6, <2>1
  <2>3. Due(Frame(r + 1, p))' = Due(Top)
    <3>1. CASE r < Len(rules)
      <4>1. rules[r + 1].type # "RECURSIVE" /\ r + 1 <= Len(rules)
        BY <2>1, <3>1, RuleFacts DEF StepRules
      <4>2. Due(Frame(r + 1, p))' = DueAt(r + 1, p, stack'[p].type)
        BY <1>1, <2>2, <4>1, FreshDue
      <4> QED BY <2>1, <3>1, <4>1, <4>2 DEF DueAt
    <3>2. CASE ~(r < Len(rules))
      <4>1. ~(r + 1 <= Len(rules) /\ p <= Len(stack'))
        BY <2>1, <3>2
      <4>2. Due(Frame(r + 1, p))' = 0
        BY <1>1, <4>1, FreshDue
      <4> QED BY <2>1, <3>2, <4>2
    <3> QED BY <3>1, <3>2
  <2>4. PlacedCall(Frame(r + 1, p))'
    <3>1. p # 1
      BY <2>1, KindFacts
    <3>2. r < Len(rules) => rules[r + 1].type # "RECURSIVE"
      BY <2>1, RuleFacts DEF StepRules
    <3>3. r + 1 <= Len(rules) => r < Len(rules)
      BY <2>1
    <3> QED BY <1>1, <2>1, <2>2, <3>1, <3>2, <3>3 DEF PlacedCall, Frame
  <2>5. PICK b \in Nat : b = Due(Top)
    BY <2>1
  <2>6. /\ "return" \in Pending /\ "return" \notin {"PARSED_INDEX"} \cup FieldTypes
        /\ Top.then \notin {"PARSED_INDEX"} \cup FieldTypes
    BY <1>6 DEF Pending, FieldTypes
  <2>7. 0 \in {0, 1} /\ 1 \in {0, 1} /\ 0 \in Nat /\ b = 0 + b
    OBVIOUS
  <2>8. Due(Frame(r + 1, p + 0))' = b /\ Due(Top) = 0 + b /\ PlacedCall(Frame(r + 1, p + 0))'
    BY <2>2, <2>3, <2>4, <2>5, <2>7
  <2>9. "return" \notin {"callAsHead", "callNextRule", "run"} /\ "return" # "RESOLVED_FIELD"
    OBVIOUS
  <2> QED BY SMTT(30), <1>1, <1>6, <2>1, <2>6, <2>7, <2>8, <2>9, CallKeeps
<1> QED BY <1>2, <1>3, <1>5, <1>6 DEF Resume

(* What is due where ".." stands. *)
LEMMA RecursiveOnward ==
    ASSUME CountInv, NEW r, NEW p, NEW h, NEW g, Here(r, p, h, g), Rule.type = "RECURSIVE",
           r < Len(rules)
    PROVE  /\ rules[r + 1].type \in StepRules /\ rules[r + 1].type # "RECURSIVE"
           /\ r + 1 \in 1..Len(rules)
           /\ Ways(r, Len(PathOf(entry))) = 0
           /\ h < Len(PathOf(entry)) => Ways(r, h) = Ways(r + 1, h) + Ways(r, h + 1)
<1> DEFINE N == Len(rules)
           M == Len(PathOf(entry))
<1>1. /\ r \in 2..N /\ r \in 1..N /\ N \in Nat /\ M \in Nat /\ h \in 0..M /\ M \in 0..M
      /\ rules[r].type = "RECURSIVE" /\ IsRule(rules)
  BY DEF Here, CountInv
<1>2. rules[r + 1].type \in StepRules /\ r + 1 \in 1..N
  BY <1>1, RuleFacts
<1>3. Laid(rules, PathOf(entry), isComplex, r, M) /\ Laid(rules, PathOf(entry), isComplex, r, h)
  BY <1>1, WaysFacts
<1>4. Ways(r, M) = 0
  BY <1>1, <1>3, NoWays DEF Ways
<1>5. h < M => Ways(r, h) = Ways(r + 1, h) + Ways(r, h + 1)
  BY <1>1, <1>3, RecursiveSplits DEF Ways
<1> QED BY <1>2, <1>4, <1>5 DEF StepRules

LEMMA RecursiveEnds ==
    ASSUME CountInv, NEW r, NEW p, NEW h, NEW g, Here(r, p, h, g), Rule.type = "RECURSIVE",
           r = Len(rules), NEW k \in 0..Len(PathOf(entry)), k < Len(PathOf(entry))
    PROVE  /\ isComplex = TRUE => Ways(r, k) = 1
           /\ isComplex = FALSE => Ways(r, k) = 0
<1> DEFINE N == Len(rules)
<1>1. /\ N \in 1..N /\ rules[N].type = "RECURSIVE"
  BY DEF Here
<1>2. Laid(rules, PathOf(entry), isComplex, N, k)
  BY <1>1, WaysFacts
<1> HIDE DEF N
<1>3. /\ isComplex = TRUE => Count(rules, PathOf(entry), isComplex, N, k) = 1
      /\ isComplex = FALSE => Count(rules, PathOf(entry), isComplex, N, k) = 0
  BY <1>1, <1>2, LastRecursive DEF N
<1> QED BY <1>3 DEF Ways, N

LEMMA RecursiveDue ==
    ASSUME CountInv, NEW r, NEW p, NEW h, NEW g, Here(r, p, h, g), Rule.type = "RECURSIVE"
    PROVE  /\ Element.type \in {"OBJECT", "PARSED_INDEX", "PARSED_ROOT"} => Due(Top) = Ways(r, h)
           /\ Element.type \in {"JOINED_OBJECT"} \cup FieldTypes =>
                  r < Len(rules) /\ Due(Top) = Ways(r, h + 1)
           /\ Element.type = "HEAD_OF_JOINED_OBJECT" =>
                  Due(Top) = IF r < Len(rules) THEN Ways(r + 1, h) ELSE Ways(r, h)
<1> DEFINE N == Len(rules)
<1>1. /\ r \in 2..N /\ N \in Nat /\ rules[r].type = "RECURSIVE"
      /\ Due(Top) = DueAt(r, p, Element.type) /\ h = StepsTo(entry, p - 1)
      /\ PlacedCall(Top) /\ Top.rule = r /\ Top.pos = p /\ Top.then = "run"
      /\ p \in 1..Len(stack) /\ Len(stack) \in Nat /\ Element = stack[p]
  BY DEF Here, Element
<1>2. Element.type \in {"OBJECT", "PARSED_INDEX", "PARSED_ROOT"} => Due(Top) = Ways(r, h)
  BY <1>1 DEF DueAt, FieldTypes
<1>3. Element.type \in {"JOINED_OBJECT"} \cup FieldTypes => r < N /\ Due(Top) = Ways(r, h + 1)
  <2> SUFFICES ASSUME Element.type \in {"JOINED_OBJECT"} \cup FieldTypes
               PROVE  r < N /\ Due(Top) = Ways(r, h + 1)
    OBVIOUS
  <2>1. DueAt(r, p, Element.type) = Ways(r, StepsTo(entry, p - 1) + 1)
    BY <1>1 DEF DueAt, FieldTypes
  <2>2. stack[p].type = "JOINED_OBJECT" \/ entry[p].type \in FieldTypes
    BY <1>1 DEF Here, ObjectTypes, FieldTypes
  <2>3. r <= Len(rules) /\ p <= Len(stack)
    BY <1>1
  <2>4. r < N
    BY <1>1, <2>2, <2>3 DEF PlacedCall
  <2> QED BY <1>1, <2>1, <2>4
<1>4. Element.type = "HEAD_OF_JOINED_OBJECT" =>
          Due(Top) = IF r < N THEN Ways(r + 1, h) ELSE Ways(r, h)
  BY <1>1 DEF DueAt, FieldTypes
<1> QED BY <1>2, <1>3, <1>4

LEMMA RecursiveAtObjectCounts ==
    ASSUME CountInv, MatchInv', InLoop, Rule.type = "RECURSIVE", RecursiveAtObject,
           UNCHANGED <<rules, isComplex, entry>>
    PROVE  CountInv'
<1>1. PICK r, p, h, g : RunsAt(r, p) /\ Here(r, p, h, g)
  BY WhereItRuns
<1> DEFINE N == Len(rules)
           M == Len(PathOf(entry))
<1>2. /\ r \in 2..N /\ r \in 1..N /\ N \in Nat /\ p \in 1..Len(entry) /\ M \in Nat /\ h \in 0..M /\ Len(entry) \in Nat
      /\ h < M /\ entry[p].type = "OBJECT" /\ Element.type = "OBJECT" /\ p # 1 /\ r # 1
      /\ AtLastRule <=> r = N
      /\ h = StepsTo(entry, p - 1) /\ Len(stack) = Len(entry) /\ rules[r].type = "RECURSIVE"
      /\ Top.pos = p /\ Top.then = "run" /\ p + 0 = p /\ r + 0 = r
  <2>1. Element.type = "OBJECT"
    BY DEF RecursiveAtObject
  <2>2. /\ r \in 2..N /\ N \in Nat /\ p \in 1..Len(entry) /\ M \in Nat /\ h \in 0..M /\ g \in 0..M
        /\ p = Len(entry) <=> g = M
        /\ entry[p].type = "OBJECT" /\ p < Len(entry) /\ g = h /\ Len(entry) \in Nat
        /\ Top.pos = p /\ Top.then = "run" /\ h = StepsTo(entry, p - 1) /\ Len(stack) = Len(entry)
        /\ AtLastRule <=> r = N
        /\ rules[r].type = "RECURSIVE"
    BY <1>1, <2>1 DEF Here, FieldTypes
  <2>3. p # 1
    BY <2>2, KindFacts DEF CountInv
  <2> QED BY <2>1, <2>2, <2>3
<1>3. /\ stack \in Seq(StackElements) /\ p \in 1..Len(stack) /\ Element \in StackElements
      /\ isComplex \in BOOLEAN
  BY <1>2, InLoopFacts DEF CountInv, MatchInv, TypeOK
<1>4. Top.then \notin {"PARSED_INDEX"} \cup FieldTypes
  BY <1>2 DEF FieldTypes
<1>5. CASE AtLastRule /\ Mark("HEAD_OF_JOINED_OBJECT") /\ Call(0, 0, "OBJECT")
  <2>1. Len(stack') = Len(entry) /\ stack'[p].type = "HEAD_OF_JOINED_OBJECT"
    BY <1>2, <1>3, <1>5 DEF Mark, StackElements
  <2>2. Due(Top) = Ways(r, h) /\ Ways(r, h) \in Nat
    BY <1>1, <1>2, RecursiveDue, WaysFacts
  <2>3. Due(Frame(r, p))' = Ways(r, h)
    <3>1. r <= Len(rules) /\ p <= Len(stack') /\ ~(r < Len(rules))
      BY <1>2, <1>5, <2>1
    <3>2. Due(Frame(r, p))' = DueAt(r, p, "HEAD_OF_JOINED_OBJECT")
      BY <2>1, <3>1, FreshDue
    <3> QED BY <1>2, <3>1, <3>2 DEF DueAt, FieldTypes
  <2>4. PlacedCall(Frame(r, p))'
    BY <1>2, <2>1 DEF PlacedCall, Frame, FieldTypes
  <2>5. PICK b \in Nat : b = Ways(r, h)
    BY <2>2
  <2>6. Due(Frame(r + 0, p + 0))' = b /\ Due(Top) = 0 + b /\ PlacedCall(Frame(r + 0, p + 0))'
    BY <1>2, <2>2, <2>3, <2>4, <2>5
  <2>7. /\ "OBJECT" \in Pending /\ "OBJECT" \notin {"PARSED_INDEX"} \cup FieldTypes
        /\ "HEAD_OF_JOINED_OBJECT" \in StackTypes /\ 0 \in {0, 1} /\ 0 \in Nat
    BY DEF Pending, FieldTypes, StackTypes, TransientTypes
  <2> QED BY <1>1, <1>4, <1>5, <2>6, <2>7, CallKeeps
<1>6. CASE ~AtLastRule /\ Mark("JOINED_OBJECT") /\ Call(0, 0, "callAsHead")
  <2>1. Len(stack') = Len(entry) /\ stack'[p].type = "JOINED_OBJECT"
    BY <1>2, <1>3, <1>6 DEF Mark, StackElements
  <2>2. r < N /\ r + 1 \in 1..N /\ h + 1 \in 0..M
    BY <1>2, <1>6
  <2>3. PICK a \in Nat, b \in Nat : a = Ways(r + 1, h) /\ b = Ways(r, h + 1)
    BY <1>2, <2>2, WaysFacts
  <2>4. Due(Top) = a + b
    <3>1. Due(Top) = Ways(r, h)
      BY <1>1, <1>2, RecursiveDue
    <3>2. Ways(r, h) = Ways(r + 1, h) + Ways(r, h + 1)
      BY <1>1, <1>2, <2>2, RecursiveOnward
    <3> QED BY <2>3, <3>1, <3>2
  <2>5. Due(Frame(r, p))' = b
    <3>1. r <= Len(rules) /\ p <= Len(stack')
      BY <1>2, <2>1
    <3>2. Due(Frame(r, p))' = DueAt(r, p, "JOINED_OBJECT")
      BY <2>1, <3>1, FreshDue
    <3> QED BY <1>2, <2>3, <3>2 DEF DueAt
  <2>6. PlacedCall(Frame(r, p))'
    BY <1>2, <2>1, <2>2 DEF PlacedCall, Frame, FieldTypes
  <2>7. Due(Frame(r + 0, p + 0))' = b /\ PlacedCall(Frame(r + 0, p + 0))'
    BY <1>2, <2>5, <2>6
  <2>8. /\ "callAsHead" \in Pending /\ "callAsHead" \notin {"PARSED_INDEX", "run"} \cup FieldTypes
        /\ "JOINED_OBJECT" \in StackTypes /\ 0 \in {0, 1} /\ r # Len(rules)
        /\ "JOINED_OBJECT" # "RESOLVED_FIELD"
    BY <1>2, <2>2 DEF Pending, FieldTypes, StackTypes, TransientTypes
  <2>9. a = Ways(r + 1, StepsTo(entry, p - 1))
    BY <1>2, <2>3
  <2> QED BY <1>1, <1>4, <1>6, <2>2, <2>4, <2>7, <2>8, <2>9, CallKeeps
<1> QED BY <1>5, <1>6 DEF RecursiveAtObject

LEMMA RecursiveAtHeadCounts ==
    ASSUME CountInv, MatchInv', InLoop, Rule.type = "RECURSIVE", RecursiveAtHead,
           UNCHANGED <<rules, isComplex, entry>>
    PROVE  CountInv'
<1>1. PICK r, p, h, g : RunsAt(r, p) /\ Here(r, p, h, g)
  BY WhereItRuns
<1> DEFINE N == Len(rules)
           M == Len(PathOf(entry))
<1>2. /\ r \in 2..N /\ r \in 1..N /\ N \in Nat /\ p \in 1..Len(entry) /\ M \in Nat /\ h \in 0..M /\ Len(entry) \in Nat
      /\ h < M /\ entry[p].type = "OBJECT" /\ Element.type = "HEAD_OF_JOINED_OBJECT"
      /\ AtLastRule <=> r = N
      /\ g = h /\ g = StepsTo(entry, p) /\ Len(stack) = Len(entry)
      /\ p < Len(entry) /\ p + 1 \in 1..Len(entry) /\ stack[p + 1].type = entry[p + 1].type
      /\ Top.pos = p /\ Top.then = "run" /\ isComplex \in BOOLEAN
  <2>1. Element.type = "HEAD_OF_JOINED_OBJECT"
    BY DEF RecursiveAtHead
  <2>2. /\ r \in 2..N /\ N \in Nat /\ p \in 1..Len(entry) /\ M \in Nat /\ h \in 0..M /\ g \in 0..M
        /\ p = Len(entry) <=> g = M
        /\ entry[p].type = "OBJECT" /\ p < Len(entry) /\ g = h /\ Len(entry) \in Nat
        /\ p < Len(entry) => p + 1 \in 1..Len(entry) /\ stack[p + 1].type = entry[p + 1].type
        /\ Top.pos = p /\ Top.then = "run" /\ g = StepsTo(entry, p) /\ Len(stack) = Len(entry)
        /\ AtLastRule <=> r = N
    BY <1>1, <2>1 DEF Here, FieldTypes
  <2> QED BY <2>1, <2>2 DEF CountInv, MatchInv, TypeOK
<1>3. CASE AtLastRule /\ isComplex /\ CallHandler
  <2>1. Due(Top) = Ways(r, h)
    BY <1>1, <1>2, <1>3, RecursiveDue
  <2>2. Due(Top) = 1
    BY <1>1, <1>2, <1>3, <2>1, RecursiveEnds
  <2> QED BY <1>3, <2>2, LoopEnds
<1>4. CASE AtLastRule /\ ~isComplex /\ Return
  <2>1. Due(Top) = Ways(r, h)
    BY <1>1, <1>2, <1>4, RecursiveDue
  <2>2. Due(Top) = 0
    BY <1>1, <1>2, <1>4, <2>1, RecursiveEnds
  <2> QED BY <1>4, <2>2, LoopEnds
<1>5. CASE ~AtLastRule /\ Call(1, 1, "OBJECT") /\ UNCHANGED stack
  <2>1. r < N /\ rules[r + 1].type \in StepRules /\ r + 1 \in 1..N /\ rules[r + 1].type # "RECURSIVE"
        /\ Due(Top) = Ways(r + 1, h) /\ r + 1 # 1 /\ p + 1 # 1
    <3>1. r < N /\ r + 1 # 1 /\ p + 1 # 1
      BY <1>2, <1>5
    <3>2. rules[r + 1].type \in StepRules /\ r + 1 \in 1..N /\ rules[r + 1].type # "RECURSIVE"
      BY <1>1, <3>1, RecursiveOnward
    <3>3. Due(Top) = Ways(r + 1, h)
      BY <1>1, <1>2, <3>1, RecursiveDue
    <3> QED BY <3>1, <3>2, <3>3
  <2>2. PICK b \in Nat : b = Ways(r + 1, h)
    BY <1>2, <2>1, WaysFacts
  <2>3. Due(Frame(r + 1, p + 1))' = b
    <3>1. r + 1 <= Len(rules) /\ p + 1 <= Len(stack') /\ p + 1 <= Len(entry)
      BY <1>2, <1>5, <2>1
    <3>2. Due(Frame(r + 1, p + 1))' = DueAt(r + 1, p + 1, entry[p + 1].type)
      BY <1>2, <1>5, <3>1, FreshDue
    <3>3. DueAt(r + 1, p + 1, entry[p + 1].type) = Ways(r + 1, g)
      BY <1>2, <2>1, <3>1, DueAbove
    <3> QED BY <1>2, <2>2, <3>2, <3>3
  <2>4. PlacedCall(Frame(r + 1, p + 1))'
    BY <2>1 DEF PlacedCall, Frame
  <2>5. /\ "OBJECT" \in Pending /\ "OBJECT" \notin {"PARSED_INDEX"} \cup FieldTypes
        /\ 1 \in {0, 1} /\ 0 \in Nat /\ Due(Top) = 0 + b
        /\ Top.then \notin {"PARSED_INDEX"} \cup FieldTypes
    BY <1>2, <2>1, <2>2 DEF Pending, FieldTypes
  <2> QED BY <1>1, <1>5, <2>2, <2>3, <2>4, <2>5, CallKeeps
<1> QED BY <1>3, <1>4, <1>5 DEF RecursiveAtHead

LEMMA RecursiveAtIndexCounts ==
    ASSUME CountInv, MatchInv', InLoop, Rule.type = "RECURSIVE", RecursiveAtIndex,
           UNCHANGED <<rules, isComplex, entry>>
    PROVE  CountInv'
<1>1. PICK r, p, h, g : RunsAt(r, p) /\ Here(r, p, h, g)
  BY WhereItRuns
<1> DEFINE N == Len(rules)
           M == Len(PathOf(entry))
           L == Len(entry)
<1>2. /\ r \in 2..N /\ r \in 1..N /\ N \in Nat /\ p \in 1..L /\ M \in Nat /\ h \in 0..M /\ L \in Nat
      /\ h < M /\ entry[p].type = "PARSED_INDEX" /\ Element.type = "PARSED_INDEX"
      /\ BothLast <=> r = N /\ p = L
      /\ g = h + 1 /\ g = StepsTo(entry, p) /\ Len(stack) = L /\ h + 1 \in 0..M
      /\ p = L <=> g = M
      /\ p < L => p + 1 \in 1..L /\ stack[p + 1].type = entry[p + 1].type
      /\ Top.pos = p /\ Top.then = "run" /\ isComplex \in BOOLEAN
      /\ h = StepsTo(entry, p - 1) /\ rules[r].type = "RECURSIVE"
  <2>1. Element.type = "PARSED_INDEX"
    BY DEF RecursiveAtIndex
  <2>2. /\ r \in 2..N /\ N \in Nat /\ p \in 1..L /\ M \in Nat /\ h \in 0..M /\ g \in 0..M
        /\ p = L <=> g = M
        /\ entry[p].type = "PARSED_INDEX" /\ g = h + 1 /\ L \in Nat
        /\ p < L => p + 1 \in 1..L /\ stack[p + 1].type = entry[p + 1].type
        /\ Top.pos = p /\ Top.then = "run" /\ g = StepsTo(entry, p) /\ Len(stack) = L
        /\ BothLast <=> r = N /\ p = L
        /\ h = StepsTo(entry, p - 1) /\ rules[r].type = "RECURSIVE"
    BY <1>1, <2>1 DEF Here, FieldTypes, BothLast, ObjectTypes
  <2> QED BY <2>1, <2>2 DEF CountInv, MatchInv, TypeOK
<1>3. Due(Top) = Ways(r, h)
  BY <1>1, <1>2, RecursiveDue
<1>4. CASE BothLast /\ isComplex /\ CallHandler
  <2>1. Due(Top) = 1
    BY <1>1, <1>2, <1>3, <1>4, RecursiveEnds
  <2> QED BY <1>4, <2>1, LoopEnds
<1>5. CASE BothLast /\ ~isComplex /\ Return
  <2>1. Due(Top) = 0
    BY <1>1, <1>2, <1>3, <1>5, RecursiveEnds
  <2> QED BY <1>5, <2>1, LoopEnds
<1>6. CASE ~BothLast /\ Call(0, 1, "callNextRule") /\ UNCHANGED stack
  <2>1. PICK b \in Nat : b = IF p < L THEN Ways(r, h + 1) ELSE 0
    BY <1>2, WaysFacts
  <2>2. PICK a \in Nat : a = IF r < N THEN Ways(r + 1, h) ELSE 0
    <3>1. r < N => r + 1 \in 1..N
      BY <1>2
    <3> QED BY <1>2, <3>1, WaysFacts
  <2>3. Due(Top) = a + b
    <3>1. CASE r < N /\ p < L
      <4>1. Ways(r, h) = Ways(r + 1, h) + Ways(r, h + 1)
        BY <1>1, <1>2, <3>1, RecursiveOnward
      <4> QED BY <1>3, <2>1, <2>2, <3>1, <4>1
    <3>2. CASE r < N /\ p = L
      <4>1. Ways(r, h + 1) = 0 /\ Ways(r, h) = Ways(r + 1, h) + Ways(r, h + 1)
        <5>1. Ways(r, M) = 0 /\ Ways(r, h) = Ways(r + 1, h) + Ways(r, h + 1)
          BY <1>1, <1>2, <3>2, RecursiveOnward
        <5> QED BY <1>2, <3>2, <5>1
      <4>2. b = 0 /\ a = Ways(r + 1, h)
        BY <2>1, <2>2, <3>2, <1>2
      <4> QED BY <1>3, <4>1, <4>2
    <3>3. CASE r = N /\ p < L
      <4>1. a = 0 /\ b = Ways(r, h + 1) /\ h + 1 < M
        BY <1>2, <2>1, <2>2, <3>3
      <4>2. Ways(r, h) = Ways(r, h + 1)
        <5>1. /\ isComplex = TRUE => Ways(r, h) = 1
              /\ isComplex = FALSE => Ways(r, h) = 0
          BY <1>1, <1>2, <3>3, RecursiveEnds
        <5>2. /\ isComplex = TRUE => Ways(r, h + 1) = 1
              /\ isComplex = FALSE => Ways(r, h + 1) = 0
          BY <1>1, <1>2, <3>3, <4>1, RecursiveEnds
        <5> QED BY <1>2, <5>1, <5>2
      <4> QED BY <1>3, <4>1, <4>2
    <3> QED BY <1>2, <1>6, <3>1, <3>2, <3>3
  <2>4. Due(Frame(r, p + 1))' = b
    <3>1. CASE p < L
      <4>1. r <= Len(rules) /\ p + 1 <= Len(stack') /\ p + 1 <= Len(entry)
            /\ stack'[p + 1].type = entry[p + 1].type
        BY <1>2, <1>6, <3>1
      <4>2. Due(Frame(r, p + 1))' = DueAt(r, p + 1, entry[p + 1].type)
        BY <4>1, FreshDue
      <4>3. DueAt(r, p + 1, entry[p + 1].type) = Ways(r, g)
        BY <1>2, <4>1, DueAbove
      <4> QED BY <1>2, <2>1, <3>1, <4>2, <4>3
    <3>2. CASE p = L
      <4>1. ~(r <= Len(rules) /\ p + 1 <= Len(stack')) /\ ~(p < L)
        BY <1>2, <1>6, <3>2
      <4>2. Due(Frame(r, p + 1))' = 0
        BY <4>1, FreshDue
      <4> QED BY <2>1, <4>1, <4>2
    <3> QED BY <1>2, <3>1, <3>2
  <2>5. PlacedCall(Frame(r, p + 1))'
    <3>1. r # 1 /\ p + 1 # 1
      BY <1>2
    <3>2. p + 1 <= Len(stack') =>
              /\ stack'[p + 1].type # "JOINED_OBJECT" /\ entry[p + 1].type \notin FieldTypes
      <4> SUFFICES ASSUME p + 1 <= Len(stack')
                   PROVE  /\ stack'[p + 1].type # "JOINED_OBJECT" /\ entry[p + 1].type \notin FieldTypes
        OBVIOUS
      <4>1. p < L
        BY <1>2, <1>6
      <4>2. entry[p + 1].type \in {"OBJECT", "PARSED_INDEX"}
        BY <1>2, <4>1, KindFacts DEF CountInv
      <4> QED BY <1>2, <1>6, <4>1, <4>2 DEF FieldTypes
    <3> QED BY <3>1, <3>2 DEF PlacedCall, Frame
  <2>6. r + 0 = r /\ 0 \in {0, 1} /\ 1 \in {0, 1} /\ (r < Len(rules) => r # Len(rules))
    BY <1>2
  <2>7. /\ "callNextRule" \in Pending /\ "callNextRule" \notin {"PARSED_INDEX", "run", "callAsHead"} \cup FieldTypes
        /\ Top.then \notin {"PARSED_INDEX"} \cup FieldTypes
    BY <1>2 DEF Pending, FieldTypes
  <2>8. Due(Frame(r + 0, p + 1))' = b /\ PlacedCall(Frame(r + 0, p + 1))'
    BY <2>4, <2>5, <2>6
  <2>9. /\ r < Len(rules) => a = Ways(r + 1, StepsTo(entry, p - 1))
        /\ r = Len(rules) => a = 0
    BY <1>2, <2>2
  <2> QED BY SMTT(30), <1>1, <1>2, <1>6, <2>3, <2>6, <2>7, <2>8, <2>9, CallKeeps
<1> QED BY <1>4, <1>5, <1>6 DEF RecursiveAtIndex

LEMMA RecursiveElsewhereCounts ==
    ASSUME CountInv, MatchInv', InLoop, Rule.type = "RECURSIVE", RecursiveElsewhere,
           UNCHANGED <<rules, isComplex, entry>>
    PROVE  CountInv'
<1>1. PICK r, p, h, g : RunsAt(r, p) /\ Here(r, p, h, g)
  BY WhereItRuns
<1> DEFINE N == Len(rules)
           M == Len(PathOf(entry))
           L == Len(entry)
           joins == Element.type \in {"JOINED_OBJECT", "FIELD_WITH_OBJECT"} /\ ~AtLastStack
<1>2. /\ r \in 2..N /\ r \in 1..N /\ N \in Nat /\ p \in 1..L /\ M \in Nat /\ h \in 0..M /\ L \in Nat
      /\ Element.type \in {"PARSED_ROOT", "JOINED_OBJECT"} \cup FieldTypes
      /\ AtLastStack <=> p = L
      /\ g = StepsTo(entry, p) /\ Len(stack) = L /\ g \in 0..M
      /\ p = L <=> g = M
      /\ p < L => p + 1 \in 1..L /\ stack[p + 1].type = entry[p + 1].type
      /\ Top.pos = p /\ Top.then = "run" /\ isComplex \in BOOLEAN
      /\ h = StepsTo(entry, p - 1) /\ rules[r].type = "RECURSIVE" /\ PlacedCall(Top) /\ Top.rule = r
      /\ Element.type = "JOINED_OBJECT" => entry[p].type = "OBJECT" /\ p < L /\ g = h
      /\ Element.type \in FieldTypes => /\ entry[p].type = Element.type /\ g = h + 1
                                        /\ entry[p].type = "FIELD" => p = L
      /\ Element.type = "PARSED_ROOT" => p = 1 /\ L = 1 /\ g = h /\ r = 2
  <2>1. Element.type \notin {"OBJECT", "HEAD_OF_JOINED_OBJECT", "PARSED_INDEX"}
    BY DEF RecursiveElsewhere
  <2>2. isComplex \in BOOLEAN /\ r \in 1..N
    BY <1>1 DEF CountInv, MatchInv, TypeOK, Here
  <2> QED BY <1>1, <2>1, <2>2 DEF Here, FieldTypes, ObjectTypes
<1>3. CASE joins /\ Advance(0, 1)
  <2>1. UNCHANGED stack /\ p < L /\ r + 0 = r /\ r # 1 /\ p + 1 # 1
    BY <1>2, <1>3 DEF Advance
  <2>2. r < N /\ Due(Top) = Ways(r, h + 1)
    BY <1>1, <1>3, RecursiveDue DEF FieldTypes
  <2>3. Due(Frame(r, p + 1))' = DueAt(r, p + 1, entry[p + 1].type)
    <3>1. r <= Len(rules) /\ p + 1 <= Len(stack') /\ stack'[p + 1].type = entry[p + 1].type
      BY <1>2, <2>1
    <3> QED BY <3>1, FreshDue
  <2>4. DueAt(r, p + 1, entry[p + 1].type) = Ways(r, h + 1)
    <3>1. CASE Element.type = "JOINED_OBJECT"
      <4>1. entry[p + 1].type \in FieldTypes
        BY <1>2, <3>1, KindFacts DEF CountInv
      <4>2. (p + 1) - 1 = p
        BY <1>2
      <4>3. DueAt(r, p + 1, entry[p + 1].type) = Ways(r, StepsTo(entry, (p + 1) - 1) + 1)
        BY <1>2, <4>1 DEF DueAt, FieldTypes
      <4> QED BY <1>2, <3>1, <4>2, <4>3
    <3>2. CASE Element.type = "FIELD_WITH_OBJECT"
      <4>1. p + 1 <= Len(entry) /\ entry[p].type # "OBJECT" /\ g = h + 1
        BY <1>2, <2>1, <3>2 DEF FieldTypes
      <4> QED BY <1>2, <4>1, DueAbove
    <3> QED BY <1>3, <3>1, <3>2
  <2>5. PlacedCall(Frame(r, p + 1))'
    BY <2>1, <2>2 DEF PlacedCall, Frame
  <2>6. Due(Frame(r + 0, p + 1))' = Due(Top) /\ PlacedCall(Frame(r + 0, p + 1))'
    BY <2>1, <2>2, <2>3, <2>4, <2>5
  <2> QED BY <1>1, <1>3, <2>6, MoveKeeps
<1>4. CASE ~joins /\ Return
  <2>1. CASE Element.type = "PARSED_ROOT"
    <3>1. h = M /\ Due(Top) = Ways(r, M)
      BY <1>1, <1>2, <2>1, RecursiveDue
    <3>2. CASE r < N
      BY <1>1, <1>4, <3>1, <3>2, RecursiveOnward, LoopEnds
    <3>3. CASE r = N
      <4>1. isComplex = FALSE
        BY <1>2, <2>1, <3>3 DEF PlacedCall
      <4>2. rules[N - 1].type = "ROOT" /\ N - 1 = 1
        <5>1. 1 \in 1..N /\ N - 1 = 1
          BY <1>2, <2>1, <3>3
        <5> QED BY <5>1, RuleFacts DEF CountInv
      <4>3. Laid(rules, PathOf(entry), isComplex, N, M) /\ rules[N].type = "RECURSIVE"
        <5>1. N \in 1..N /\ M \in 0..M
          BY <1>2
        <5>2. Laid(rules, PathOf(entry), isComplex, N, M)
          BY <5>1, WaysFacts
        <5> QED BY <1>2, <3>3, <5>2
      <4> HIDE DEF N
      <4>4. Count(rules, PathOf(entry), isComplex, N, M) = 0
        BY <4>1, <4>2, <4>3, LastRecursive DEF N
      <4> QED BY <1>4, <3>1, <3>3, <4>4, LoopEnds DEF Ways
    <3> QED BY <1>2, <3>2, <3>3
  <2>2. CASE Element.type = "JOINED_OBJECT"
    BY <1>2, <1>4, <2>2
  <2>3. CASE Element.type \in FieldTypes
    <3>1. p = L
      BY <1>2, <1>4, <2>3 DEF FieldTypes
    <3>2. h + 1 = M /\ r < N /\ Due(Top) = Ways(r, h + 1)
      BY <1>1, <1>2, <2>3, <3>1, RecursiveDue
    <3>3. Due(Top) = 0
      BY <1>1, <3>2, RecursiveOnward
    <3> QED BY <1>4, <3>3, LoopEnds
  <2> QED BY <1>2, <2>1, <2>2, <2>3
<1> QED BY <1>3, <1>4 DEF RecursiveElsewhere

LEMMA MatchNextCounts == ASSUME CountInv, [MatchNext]_matchVars PROVE CountInv'
<1>1. MatchInv'
  BY MatchNextKeepsInv DEF CountInv
<1>2. CASE UNCHANGED matchVars
  <2>1. UNCHANGED <<rules, stack, isComplex, frames, calls, entry>>
    BY <1>2 DEF matchVars
  <2>2. (IsRule(rules) /\ IsParseStack(entry, isComplex))' /\ NestUpwards' /\ ObjectsJoin'
    BY <2>1 DEF CountInv, NestUpwards, ObjectsJoin
  <2>3. Placed'
    BY <2>1 DEF CountInv, Placed, PlacedCall
  <2>4. Balance'
    BY <2>1 DEF CountInv, Balance, AddsUp, Due, DueAt, Ways
  <2> QED BY <1>1, <2>2, <2>3, <2>4 DEF CountInv
<1>3. CASE MatchRoot
  BY <1>1, <1>3, MatchRootCounts
<1>4. CASE MatchAny \/ MatchAnyIndex
  BY <1>1, <1>4, ResolveAnyCounts DEF MatchAny, MatchAnyIndex
<1>5. CASE MatchName \/ MatchIndex
  BY <1>1, <1>5, MatchNameCounts, MatchIndexCounts
<1>6. CASE MatchRecursive
  BY <1>1, <1>6, RecursiveAtObjectCounts, RecursiveAtHeadCounts, RecursiveAtIndexCounts,
     RecursiveElsewhereCounts DEF MatchRecursive
<1>7. CASE LeaveLoop \/ Resume
  BY <1>1, <1>7, LeaveLoopCounts, ResumeCounts
<1> QED BY <1>2, <1>3, <1>4, <1>5, <1>6, <1>7 DEF MatchNext, MatchStep, Returned

(* With no call open, the calls made are all that was owed. *)
LEMMA AllCallsMade == CountInv => CallsOwed
<1> SUFFICES ASSUME CountInv, frames = <<>> PROVE calls = Owed(rules, entry, isComplex)
  BY DEF CallsOwed
<1>1. Len(frames) = 0
  OBVIOUS
<1> QED BY <1>1 DEF CountInv, Balance, AddsUp

(* CallsOwed, for every rule and parse stack the grammars can build. *)
THEOREM CallsAreOwed == MatchSpec => []CallsOwed
<1>1. CountInv /\ [MatchNext]_matchVars => CountInv'
  BY MatchNextCounts
<1> QED BY CountInit, <1>1, AllCallsMade, PTL DEF MatchSpec
=============================================================================

--------------------------- MODULE UriPathProofs ---------------------------
(***************************************************************************)
(* Proofs about UriPath, for every path that may be received.              *)
(***************************************************************************)
EXTENDS UriPath, SequenceTheorems, WellFoundedInduction, TLAPS

TypeInv ==
    /\ pos \in Nat /\ segStart \in Nat /\ segLength \in Nat /\ pathLength \in Nat
    /\ at \in Places /\ isFirst \in BOOLEAN

(* Where the slash is that leads what is being collected. *)
Lead == CASE at = "slash"      -> pos - 1
          [] at = "dot"        -> pos - 2
          [] at = "dots"       -> pos - 3
          [] at = "segment"    -> segStart - 1
          [] at = "dotSegment" -> segStart - 2

(* The path that has been built ends before what is being collected, which *)
(* reaches up to the next character; the first segment begins the buffer.  *)
BehindInv ==
    /\ pathLength < Lead
    /\ isFirst => Lead = 1
    /\ IsSegment => segStart + segLength = pos /\ segLength > 0

IInv == TypeInv /\ (outcome = "reading" => BehindInv)

-----------------------------------------------------------------------------
(* A set of natural numbers has a least element. *)
LEMMA LeastExists ==
    ASSUME NEW S, S \subseteq Nat, S # {}
    PROVE  \E x \in S : \A y \in S : x <= y
<1>1. PICK Less : IsWellFoundedOn(Less, Nat) /\ \A x, y \in Nat : <<y, x>> \in Less <=> y < x
  <2>1. \A x, y \in Nat : <<y, x>> \in OpToRel(<, Nat) <=> y < x
    BY DEF OpToRel
  <2> QED BY <2>1, NatLessThanWellFounded, Zenon
<1>2. PICK x \in S : \A y \in S : ~ (<<y, x>> \in Less)
  BY <1>1, WFMin
<1>3. ASSUME NEW y \in S PROVE x <= y
  <2>1. x \in Nat /\ y \in Nat
    OBVIOUS
  <2>2. ~(y < x)
    BY <1>1, <1>2, <2>1
  <2> QED BY <2>1, <2>2
<1> QED BY <1>3

(* And a bounded one a greatest. *)
LEMMA GreatestExists ==
    ASSUME NEW n \in Nat, NEW S, S \subseteq 0..n, S # {}
    PROVE  \E x \in S : \A y \in S : y <= x
<1> DEFINE T == {n - y : y \in S}
<1>1. T \subseteq Nat /\ T # {} /\ \A y \in S : n - y \in T
  <2>1. \A y \in S : n - y \in Nat
    OBVIOUS
  <2> QED BY <2>1
<1>2. PICK m \in T : \A y \in T : m <= y
  <2> HIDE DEF T
  <2> QED BY <1>1, LeastExists
<1>3. PICK x \in S : m = n - x
  OBVIOUS
<1>4. \A y \in S : y <= x
  <2> TAKE y \in S
  <2>1. n - x <= n - y
    BY <1>1, <1>2, <1>3
  <2> QED BY <2>1
<1> QED BY <1>4

LEMMA BackIsShorter ==
    ASSUME NEW length \in Nat
    PROVE  Back(length) \in 0..length
<1> DEFINE slashes == {k \in 1..length : buf[k] = Slash}
<1>1. slashes \subseteq 1..length
  OBVIOUS
<1>2. slashes \subseteq 0..length
  OBVIOUS
<1>3. CASE slashes = {}
  BY <1>3 DEF Back
<1>4. CASE slashes # {}
  <2> DEFINE last == Greatest(slashes)
  <2>1. last \in slashes
    <3> HIDE DEF slashes
    <3> QED BY <1>1, <1>2, <1>4, GreatestExists DEF Greatest
  <2>2. Back(length) = last - 1
    BY <1>4 DEF Back
  <2> HIDE DEF slashes, last
  <2> QED BY <1>1, <2>1, <2>2
<1> QED BY <1>3, <1>4

(* What is copied has been read, and lies behind what it is copied to. *)
LEMMA SegmentIsBehind ==
    ASSUME TypeInv, BehindInv, IsSegment
    PROVE  /\ From \in Int /\ Count = pos - From
           /\ pathLength < From /\ From < pos /\ (isFirst => From = 1)
<1>1. CASE at = "segment"
  BY <1>1 DEF TypeInv, BehindInv, Lead, IsSegment, From, Count
<1>2. CASE at = "dotSegment"
  BY <1>2 DEF TypeInv, BehindInv, Lead, IsSegment, From, Count
<1> QED BY <1>1, <1>2 DEF IsSegment

LEMMA ReducedIsBehind ==
    ASSUME TypeInv, BehindInv
    PROVE  ReducedLength \in Nat /\ ReducedLength < pos
<1>1. CASE IsSegment /\ isFirst
  BY <1>1, SegmentIsBehind DEF ReducedLength, TypeInv
<1>2. CASE IsSegment /\ ~isFirst
  <2>1. ReducedLength = pathLength + Count
    BY <1>2 DEF ReducedLength, TypeInv, IsSegment
  <2> QED BY <1>2, <2>1, SegmentIsBehind DEF TypeInv
<1>3. CASE ~IsSegment /\ isFirst
  BY <1>3 DEF ReducedLength, TypeInv, BehindInv, Lead, IsSegment, Places
<1>4. CASE ~IsSegment /\ ~isFirst
  <2>1. pathLength < pos
    BY <1>4 DEF TypeInv, BehindInv, Lead, IsSegment, Places
  <2>2. ReducedLength = Back(pathLength) \/ ReducedLength = pathLength
    BY <1>4 DEF ReducedLength
  <2> QED BY <2>1, <2>2, BackIsShorter DEF TypeInv
<1> QED BY <1>1, <1>2, <1>3, <1>4 DEF TypeInv

LEMMA InitEstablishes == Init => IInv
BY DEF Init, IInv, TypeInv, BehindInv, Lead, IsSegment, Places

LEMMA StepPreserves == IInv /\ [Next]_vars => IInv'
<1> SUFFICES ASSUME IInv, [Next]_vars PROVE IInv'
  OBVIOUS
<1> USE DEF IInv
<1>1. CASE Plain
  <2>1. outcome = "reading" /\ UNCHANGED <<isFirst, pathLength, outcome>> /\ pos' = pos + 1
    BY <1>1 DEF Plain, More, Reading, Shift, StartSegment, GrowSegment
  <2>2. CASE at \in {"slash", "dot"}
    <3>1. /\ at' = IF at = "slash" THEN "segment" ELSE "dotSegment"
          /\ segStart' = pos /\ segLength' = 1
      BY <1>1, <2>2 DEF Plain, Shift, StartSegment, IsSegment
    <3> QED BY <2>1, <2>2, <3>1 DEF TypeInv, BehindInv, Lead, IsSegment, Places
  <2>3. CASE IsSegment
    <3>1. at' = at /\ segStart' = segStart /\ segLength' = segLength + 1
      BY <1>1, <2>3 DEF Plain, Shift, GrowSegment, IsSegment
    <3> QED BY <2>1, <2>3, <3>1 DEF TypeInv, BehindInv, Lead, IsSegment, Places
  <2> QED BY <1>1, <2>2, <2>3 DEF Plain
<1>2. CASE ADot
  <2>1. outcome = "reading" /\ UNCHANGED <<isFirst, pathLength, outcome>> /\ pos' = pos + 1
    BY <1>2 DEF ADot, More, Reading, Shift, GrowSegment
  <2>2. CASE at \in {"slash", "dot"}
    <3>1. /\ at' = IF at = "slash" THEN "dot" ELSE "dots"
          /\ UNCHANGED <<segStart, segLength>>
      BY <1>2, <2>2 DEF ADot, Shift, IsSegment
    <3> QED BY <2>1, <2>2, <3>1 DEF TypeInv, BehindInv, Lead, IsSegment, Places
  <2>3. CASE IsSegment
    <3>1. at' = at /\ segStart' = segStart /\ segLength' = segLength + 1
      BY <1>2, <2>3 DEF ADot, Shift, GrowSegment, IsSegment
    <3> QED BY <2>1, <2>3, <3>1 DEF TypeInv, BehindInv, Lead, IsSegment, Places
  <2> QED BY <1>2, <2>2, <2>3 DEF ADot
<1>3. CASE ASlash
  <2>1. ReducedLength \in Nat /\ ReducedLength < pos
    BY <1>3, ReducedIsBehind DEF ASlash, More, Reading
  <2>2. /\ pathLength' = ReducedLength /\ at' = "slash" /\ isFirst' = FALSE /\ pos' = pos + 1
        /\ UNCHANGED <<segStart, segLength>>
    BY <1>3 DEF ASlash
  <2>3. TypeInv'
    <3>1. pos + 1 \in Nat /\ "slash" \in Places
      BY DEF TypeInv, Places
    <3> QED BY <2>1, <2>2, <3>1 DEF TypeInv
  <2>4. BehindInv'
    BY <2>1, <2>2 DEF TypeInv, BehindInv, Lead, IsSegment
  <2> QED BY <2>3, <2>4
<1>4. CASE End \/ Malformed
  <2>1. ReducedLength \in Nat
    BY <1>4, ReducedIsBehind DEF End, Malformed, More, Reading
  <2> QED BY <1>4, <2>1 DEF End, Malformed, Report, TypeInv
<1>5. CASE UNCHANGED vars
  BY <1>5 DEF vars, TypeInv, BehindInv, Lead, IsSegment
<1> QED BY <1>1, <1>2, <1>3, <1>4, <1>5 DEF Next, Done

-----------------------------------------------------------------------------
(* The invariant the theorems below rest on. *)
THEOREM InductiveInvariant == Spec => []IInv
BY InitEstablishes, StepPreserves, PTL DEF Spec

(* For every path: the rewriting in place writes only where the grammar    *)
(* has read already, and never into the segment it is about to move.       *)
THEOREM RewritingStaysBehind == Spec => WritesBehindReader
<1> DEFINE Behind == \A k \in DOMAIN buf :
               buf'[k] # buf[k] => k < pos /\ (IsSegment => pathLength < From)
<1>1. IInv /\ [Next]_vars => [Behind]_vars
  <2> SUFFICES ASSUME IInv, Next, NEW k \in DOMAIN buf, buf'[k] # buf[k]
               PROVE  k < pos /\ (IsSegment => pathLength < From)
    OBVIOUS
  <2>1. outcome = "reading" /\ buf' = ReducedBuf
    BY DEF Next, Plain, ADot, ASlash, End, Malformed, Done, More, Reading, Report,
           Shift, StartSegment, GrowSegment, vars
  <2>2. IsSegment /\ k \in pathLength + 1..pathLength + Count
    BY <2>1 DEF ReducedBuf, Copy
  <2> QED BY <2>1, <2>2, SegmentIsBehind DEF IInv, TypeInv
<1> QED BY <1>1, InductiveInvariant, PTL DEF Spec, WritesBehindReader

-----------------------------------------------------------------------------
(* The normal form is defined by recursion over prefixes: the value at p   *)
(* comes from the value at back[p], which is before p.  Such a function    *)
(* exists.                                                                 *)
IsRecursion(N, S, a, back, g) ==
    /\ N \in Nat /\ a \in S
    /\ \A p \in 1..N : back[p] \in 0..(p - 1)
    /\ \A p \in 1..N, x \in S : g[<<p, x>>] \in S

LEMMA PrefixRecursion ==
    ASSUME NEW N, NEW S, NEW a, NEW back, NEW g, IsRecursion(N, S, a, back, g)
    PROVE  \E f \in [0..N -> S] :
               f[0] = a /\ \A p \in 1..N : f[p] = g[<<p, f[back[p]]>>]
<1> USE DEF IsRecursion
<1> DEFINE Solves(f, n) == /\ f \in [0..n -> S] /\ f[0] = a
                           /\ \A p \in 1..n : f[p] = g[<<p, f[back[p]]>>]
           Bad == {n \in 0..N : ~ \E f : Solves(f, n)}
<1>1. Bad = {}
  <2> SUFFICES ASSUME Bad # {} PROVE FALSE
    OBVIOUS
  <2>1. Bad \subseteq Nat
    OBVIOUS
  <2>2. PICK n \in Bad : \A m \in Bad : n <= m
    <3> HIDE DEF Bad
    <3> QED BY <2>1, LeastExists
  <2>3. n \in 0..N /\ n \in Nat
    OBVIOUS
  <2>4. CASE n = 0
    <3>1. Solves([p \in 0..0 |-> a], 0)
      OBVIOUS
    <3> QED BY <2>2, <2>4, <3>1
  <2>5. CASE n > 0
    <3>1. n - 1 \in 0..N /\ n - 1 \notin Bad
      BY SMTT(30), <2>2, <2>3, <2>5
    <3>2. PICK f : Solves(f, n - 1)
      BY <3>1
    <3> DEFINE h == [p \in 0..n |-> IF p < n THEN f[p] ELSE g[<<n, f[back[n]]>>]]
    <3>3. back[n] \in 0..(n - 1) /\ n \in 1..N
      BY <2>3, <2>5
    <3>4. \A p \in 0..(n - 1) : f[p] \in S
      BY <3>2
    <3>5. g[<<n, f[back[n]]>>] \in S
      BY <3>3, <3>4
    <3>6. h \in [0..n -> S]
      <4>1. \A p \in 0..n : p < n => p \in 0..(n - 1)
        BY <2>3
      <4> QED BY <3>4, <3>5, <4>1
    <3>7. h[0] = a
      BY <2>3, <2>5, <3>2
    <3>8. ASSUME NEW p \in 1..n PROVE h[p] = g[<<p, h[back[p]]>>]
      <4>1. back[p] \in 0..(p - 1) /\ p \in 1..N
        BY <2>3
      <4>2. h[back[p]] = f[back[p]]
        BY <2>3, <4>1
      <4>5. h[n] = g[<<n, f[back[n]]>>]
        BY <2>3
      <4>3. CASE p = n
        <5> HIDE DEF h
        <5> QED BY <4>2, <4>3, <4>5
      <4>4. CASE p < n
        <5>1. p \in 1..(n - 1) /\ h[p] = f[p]
          BY <2>3, <4>4
        <5> QED BY <3>2, <4>2, <5>1
      <4> QED BY <2>3, <4>3, <4>4
    <3> HIDE DEF h
    <3>9. Solves(h, n)
      BY <3>6, <3>7, <3>8
    <3> QED BY <2>2, <3>9
  <2> QED BY <2>3, <2>4, <2>5
<1>2. N \in 0..N
  OBVIOUS
<1> QED BY <1>1, <1>2

(* The last slash of a text. *)
LEMMA LastSlashIs ==
    ASSUME NEW s \in Seq(Chars)
    PROVE  /\ LastSlash(s) \in 0..Len(s)
           /\ LastSlash(s) > 0 => s[LastSlash(s)] = Slash
           /\ \A k \in 1..Len(s) : s[k] = Slash => k <= LastSlash(s)
<1> DEFINE slashes == {k \in DOMAIN s : s[k] = Slash}
<1>1. slashes \subseteq 1..Len(s) /\ Len(s) \in Nat /\ DOMAIN s = 1..Len(s)
  OBVIOUS
<1>2. slashes \subseteq 0..Len(s)
  BY <1>1
<1>3. CASE slashes = {}
  <2>1. LastSlash(s) = 0
    BY <1>3 DEF LastSlash
  <2> QED BY <1>1, <1>3, <2>1
<1>4. CASE slashes # {}
  <2> DEFINE last == Greatest(slashes)
  <2>1. last \in slashes /\ \A m \in slashes : m <= last
    <3> HIDE DEF slashes
    <3> QED BY <1>1, <1>2, <1>4, GreatestExists DEF Greatest
  <2>2. LastSlash(s) = last
    BY <1>4 DEF LastSlash
  <2> HIDE DEF last
  <2> QED BY <1>1, <2>1, <2>2
<1> QED BY <1>3, <1>4

LEMMA LastSlashUnique ==
    ASSUME NEW s \in Seq(Chars), NEW k \in 1..Len(s), s[k] = Slash,
           \A m \in 1..Len(s) : m > k => s[m] # Slash
    PROVE  LastSlash(s) = k
<1>1. LastSlash(s) \in 0..Len(s) /\ k <= LastSlash(s) /\ (LastSlash(s) > 0 => s[LastSlash(s)] = Slash)
  BY LastSlashIs
<1> QED BY <1>1

LEMMA BackIsSlash ==
    ASSUME NEW l \in Nat, l <= Len(buf), buf \in Seq(Chars)
    PROVE  Back(l) = LET k == LastSlash(SubSeq(buf, 1, l)) IN IF k = 0 THEN 0 ELSE k - 1
<1> DEFINE s == SubSeq(buf, 1, l)
<1>1. s \in Seq(Chars) /\ Len(s) = l /\ DOMAIN s = 1..l /\ \A k \in 1..l : s[k] = buf[k]
  OBVIOUS
<1> HIDE DEF s
<1>2. {k \in 1..l : buf[k] = Slash} = {k \in DOMAIN s : s[k] = Slash}
  BY <1>1
<1>3. {k \in DOMAIN s : s[k] = Slash} # {} =>
          Greatest({k \in DOMAIN s : s[k] = Slash}) = LastSlash(s)
  BY DEF LastSlash
<1>4. {k \in DOMAIN s : s[k] = Slash} = {} => LastSlash(s) = 0
  BY DEF LastSlash
<1>5. {k \in DOMAIN s : s[k] = Slash} # {} => LastSlash(s) # 0
  BY <1>1, LastSlashIs
<1> QED BY <1>2, <1>3, <1>4, <1>5 DEF Back, s

(* What a normal form is made of: nothing, or segments with their slashes. *)
Paths == {s \in Seq(Chars) : s = <<>> \/ s[1] = Slash}

LEMMA AddSegmentIsPath ==
    ASSUME NEW x \in Paths, NEW y \in Seq(Chars)
    PROVE  AddSegment(x, y) \in Paths
<1>1. SubSeq(x, 1, LastSlash(x) - 1) \in Paths
  <2>1. LastSlash(x) \in 0..Len(x) /\ Len(x) \in Nat /\ x \in Seq(Chars)
    BY LastSlashIs DEF Paths
  <2>2. \A k \in 1..(LastSlash(x) - 1) : x[k] \in Chars
    BY <2>1
  <2>3. SubSeq(x, 1, LastSlash(x) - 1) \in Seq(Chars)
    BY <2>1, <2>2
  <2>4. CASE LastSlash(x) <= 1
    <3>1. SubSeq(x, 1, LastSlash(x) - 1) = <<>>
      BY <2>1, <2>4, SubSeqEmpty
    <3> QED BY <2>3, <3>1 DEF Paths
  <2>5. CASE LastSlash(x) > 1
    <3>1. SubSeq(x, 1, LastSlash(x) - 1)[1] = x[1]
      BY <2>1, <2>5
    <3>2. x[1] = Slash
      BY <2>1, <2>5 DEF Paths
    <3> DEFINE z == SubSeq(x, 1, LastSlash(x) - 1)
    <3>3. z \in Seq(Chars) /\ z[1] = Slash
      BY <2>3, <3>1, <3>2
    <3> HIDE DEF z
    <3>4. z \in Paths
      BY <3>3 DEF Paths
    <3> QED BY <3>4 DEF z
  <2> QED BY <2>1, <2>4, <2>5
<1>2. x \o <<Slash>> \o y \in Paths
  <2>1. <<Slash>> \in Seq(Chars) /\ x \in Seq(Chars)
    BY DEF Chars, Paths
  <2>2. x \o <<Slash>> \o y \in Seq(Chars)
    BY <2>1
  <2>3. (x \o <<Slash>> \o y)[1] = Slash
    BY <2>1 DEF Paths
  <2> QED BY <2>2, <2>3 DEF Paths
<1> QED BY <1>1, <1>2 DEF AddSegment

LEMMA NormalExists ==
    ASSUME target \in Targets
    PROVE  /\ Normal = [p \in 0..Len(target) |->
                   IF p = 0 THEN <<>>
                   ELSE AddSegment(Normal[LastSlash(SubSeq(target, 1, p)) - 1],
                                   SubSeq(target, LastSlash(SubSeq(target, 1, p)) + 1, p))]
<1> DEFINE slash(p) == LastSlash(SubSeq(target, 1, p))
           back == [p \in 1..Len(target) |-> slash(p) - 1]
           S == Paths
           g == [px \in (1..Len(target)) \X S |->
                     AddSegment(px[2], SubSeq(target, slash(px[1]) + 1, px[1]))]
<1>1. target \in Seq(Chars) /\ Len(target) \in Nat /\ target # <<>> /\ target[1] = Slash
  BY UriPathAssumption DEF Chars
<1>2. ASSUME NEW p \in 1..Len(target)
      PROVE  slash(p) \in 1..p /\ SubSeq(target, slash(p) + 1, p) \in Seq(Chars)
  <2>1. SubSeq(target, 1, p) \in Seq(Chars) /\ Len(SubSeq(target, 1, p)) = p
        /\ SubSeq(target, 1, p)[1] = Slash /\ p \in Nat /\ 1 \in 1..p
    BY <1>1
  <2>2. slash(p) \in 0..p /\ 1 <= slash(p)
    BY <2>1, LastSlashIs
  <2>3. slash(p) \in 1..p
    BY <2>1, <2>2
  <2>4. \A k \in (slash(p) + 1)..p : target[k] \in Chars
    BY <1>1, <2>1, <2>3
  <2> HIDE DEF slash
  <2> QED BY <1>1, <2>1, <2>3, <2>4
<1>3. \A p \in 1..Len(target) : back[p] \in 0..(p - 1)
  <2> TAKE p \in 1..Len(target)
  <2>1. slash(p) \in 1..p /\ back[p] = slash(p) - 1
    BY <1>2
  <2> HIDE DEF slash, back
  <2> QED BY <1>1, <2>1
<1>4. \A p \in 1..Len(target), x \in S :
          /\ g[<<p, x>>] \in S
          /\ g[<<p, x>>] = AddSegment(x, SubSeq(target, slash(p) + 1, p))
  <2> TAKE p \in 1..Len(target), x \in S
  <2>1. SubSeq(target, slash(p) + 1, p) \in Seq(Chars)
    BY <1>2
  <2>2. g[<<p, x>>] = AddSegment(x, SubSeq(target, slash(p) + 1, p))
    BY DEF slash
  <2> HIDE DEF slash, g
  <2> QED BY <2>1, <2>2, AddSegmentIsPath
<1>5. <<>> \in S
  BY DEF Paths
<1>6. PICK f \in [0..Len(target) -> S] :
          f[0] = <<>> /\ \A p \in 1..Len(target) : f[p] = g[<<p, f[back[p]]>>]
  <2>1. \A p \in 1..Len(target), x \in S : g[<<p, x>>] \in S
    BY <1>4
  <2> HIDE DEF back, g, S
  <2>2. IsRecursion(Len(target), S, <<>>, back, g)
    BY <1>1, <1>3, <2>1, <1>5 DEF IsRecursion
  <2> QED BY <2>2, PrefixRecursion
<1> DEFINE Is(h) == h = [p \in 0..Len(target) |->
                   IF p = 0 THEN <<>>
                   ELSE AddSegment(h[LastSlash(SubSeq(target, 1, p)) - 1],
                                   SubSeq(target, LastSlash(SubSeq(target, 1, p)) + 1, p))]
<1>9. Is(f)
  <2>1. ASSUME NEW p \in 1..Len(target)
        PROVE  f[p] = AddSegment(f[slash(p) - 1], SubSeq(target, slash(p) + 1, p))
    <3>1. back[p] = slash(p) - 1 /\ back[p] \in 0..Len(target)
      BY <1>1, <1>3
    <3>2. f[p] = g[<<p, f[back[p]]>>]
      <4> HIDE DEF g, back, S
      <4> QED BY <1>6
    <3>3. f[back[p]] \in S
      <4> HIDE DEF g, back, S
      <4> QED BY <1>6, <3>1
    <3> HIDE DEF g, back, S, slash
    <3> QED BY <1>4, <3>1, <3>2, <3>3
  <2>2. f = [p \in 0..Len(target) |-> f[p]]
    <3> HIDE DEF g, back
    <3> QED BY <1>6
  <2>3. \A p \in 0..Len(target) : f[p] = IF p = 0 THEN <<>>
                   ELSE AddSegment(f[LastSlash(SubSeq(target, 1, p)) - 1],
                                   SubSeq(target, LastSlash(SubSeq(target, 1, p)) + 1, p))
    <3> HIDE DEF g, back, S
    <3>1. \A p \in 0..Len(target) : p = 0 \/ p \in 1..Len(target)
      BY <1>1
    <3> QED BY <1>6, <2>1, <3>1
  <2> QED BY <2>2, <2>3
<1>10. Normal = CHOOSE h : Is(h)
  BY DEF Normal
<1> HIDE DEF Is
<1>11. Is(Normal)
  BY <1>9, <1>10
<1> QED BY <1>11 DEF Is

LEMMA NormalIs ==
    ASSUME target \in Targets
    PROVE  /\ Normal[0] = <<>>
           /\ \A p \in 1..Len(target) :
                 Normal[p] = AddSegment(Normal[LastSlash(SubSeq(target, 1, p)) - 1],
                                        SubSeq(target, LastSlash(SubSeq(target, 1, p)) + 1, p))
<1>1. Len(target) \in Nat
  BY UriPathAssumption
<1> DEFINE f(h) == [p \in 0..Len(target) |->
                   IF p = 0 THEN <<>>
                   ELSE AddSegment(h[LastSlash(SubSeq(target, 1, p)) - 1],
                                   SubSeq(target, LastSlash(SubSeq(target, 1, p)) + 1, p))]
<1>2. Normal = f(Normal)
  BY NormalExists
<1>3. f(Normal)[0] = <<>>
  BY <1>1
<1>4. ASSUME NEW p \in 1..Len(target)
      PROVE  f(Normal)[p] = AddSegment(Normal[LastSlash(SubSeq(target, 1, p)) - 1],
                                       SubSeq(target, LastSlash(SubSeq(target, 1, p)) + 1, p))
  BY <1>1
<1> HIDE DEF f
<1> QED BY <1>2, <1>3, <1>4

(* A target begins with a slash: each of its prefixes has a last segment. *)
LEMMA LastSegment ==
    ASSUME target \in Targets, NEW p \in 1..Len(target)
    PROVE  /\ LastSlash(SubSeq(target, 1, p)) \in 1..p
           /\ SubSeq(target, LastSlash(SubSeq(target, 1, p)) + 1, p) \in Seq(Chars)
<1>1. target \in Seq(Chars) /\ Len(target) \in Nat /\ target # <<>> /\ target[1] = Slash
  BY UriPathAssumption DEF Chars
<1> DEFINE slash == LastSlash(SubSeq(target, 1, p))
<1>2. SubSeq(target, 1, p) \in Seq(Chars) /\ Len(SubSeq(target, 1, p)) = p
      /\ SubSeq(target, 1, p)[1] = Slash /\ p \in Nat /\ 1 \in 1..p
  BY <1>1
<1>3. slash \in 0..p /\ 1 <= slash
  BY <1>2, LastSlashIs
<1> HIDE DEF slash
<1>4. slash \in 1..p
  BY <1>2, <1>3
<1>5. \A k \in (slash + 1)..p : target[k] \in Chars
  BY <1>1, <1>2, <1>4
<1>6. SubSeq(target, slash + 1, p) \in Seq(Chars)
  BY <1>2, <1>4, <1>5, SubSeqProperties
<1> QED BY <1>4, <1>6 DEF slash

LEMMA NormalIsPath ==
    ASSUME target \in Targets, NEW q \in 0..Len(target)
    PROVE  Normal[q] \in Paths
<1> DEFINE Bad == {p \in 0..Len(target) : Normal[p] \notin Paths}
<1>1. Len(target) \in Nat
  BY UriPathAssumption
<1>2. Bad \subseteq Nat
  BY <1>1
<1>3. Bad = {}
  <2> SUFFICES ASSUME Bad # {} PROVE FALSE
    OBVIOUS
  <2>1. PICK p \in Bad : \A m \in Bad : p <= m
    <3> HIDE DEF Bad
    <3> QED BY <1>2, LeastExists
  <2>2. p # 0
    <3>1. <<>> \in Paths /\ Normal[0] = <<>>
      BY NormalIs DEF Paths
    <3>2. Normal[p] \notin Paths
      BY <2>1
    <3> QED BY <3>1, <3>2
  <2>3. p \in 1..Len(target)
    BY <1>1, <2>1, <2>2
  <2> DEFINE slash == LastSlash(SubSeq(target, 1, p))
  <2>4. /\ slash \in 1..p
        /\ SubSeq(target, slash + 1, p) \in Seq(Chars)
        /\ Normal[p] = AddSegment(Normal[slash - 1], SubSeq(target, slash + 1, p))
    BY <2>3, NormalIs, LastSegment
  <2> HIDE DEF slash
  <2>5. slash - 1 \in 0..Len(target) /\ slash - 1 < p
    BY <1>1, <2>3, <2>4
  <2>6. Normal[slash - 1] \in Paths
    BY <2>1, <2>3, <2>5
  <2>7. Normal[p] \in Paths
    BY <2>4, <2>6, AddSegmentIsPath
  <2> QED BY <2>1, <2>7
<1> QED BY <1>3

(* Up to p the segment after the slash at q is added to what comes before. *)
LEMMA NormalAdds ==
    ASSUME target \in Targets, NEW p \in 1..Len(target), NEW q \in 1..p, target[q] = Slash,
           \A k \in 1..Len(target) : q < k /\ k <= p => target[k] # Slash
    PROVE  Normal[p] = AddSegment(Normal[q - 1], SubSeq(target, q + 1, p))
<1>1. target \in Seq(Chars) /\ Len(target) \in Nat
  BY UriPathAssumption DEF Chars
<1> DEFINE s == SubSeq(target, 1, p)
<1>2. s \in Seq(Chars) /\ Len(s) = p /\ \A k \in 1..p : s[k] = target[k]
  BY <1>1
<1> HIDE DEF s
<1>3. LastSlash(s) = q
  <2>1. q \in 1..Len(s) /\ s[q] = Slash /\ \A m \in 1..Len(s) : m > q => s[m] # Slash
    BY <1>1, <1>2
  <2> QED BY <1>2, <2>1, LastSlashUnique
<1>4. Normal[p] = AddSegment(Normal[LastSlash(s) - 1], SubSeq(target, LastSlash(s) + 1, p))
  BY NormalIs DEF s
<1> QED BY <1>3, <1>4

(* What each kind of segment adds. *)
LEMMA AddNothing ==
    ASSUME NEW x, NEW y, y = <<>> \/ y = <<Dot>>
    PROVE  AddSegment(x, y) = x
BY DEF AddSegment

LEMMA AddDots ==
    ASSUME NEW x
    PROVE  AddSegment(x, <<Dot, Dot>>) = SubSeq(x, 1, LastSlash(x) - 1)
<1>1. <<Dot, Dot>> # <<>> /\ <<Dot, Dot>> # <<Dot>>
  OBVIOUS
<1> QED BY <1>1 DEF AddSegment

LEMMA AddOther ==
    ASSUME NEW x, NEW y \in Seq(Chars), Len(y) >= 1,
           y[1] # Dot \/ (Len(y) >= 2 /\ y[2] # Dot)
    PROVE  AddSegment(x, y) = x \o <<Slash>> \o y
<1>1. y # <<>> /\ y # <<Dot>> /\ y # <<Dot, Dot>>
  OBVIOUS
<1> QED BY <1>1 DEF AddSegment

(* Two dots take the last segment away, behind a doubled slash as well. *)
LEMMA DotsShorten ==
    ASSUME NEW x \in Paths, NEW u, u = x \/ u = <<Slash>> \o x,
           NEW b, b = IF LastSlash(u) = 0 THEN 0 ELSE LastSlash(u) - 1
    PROVE  \/ SubSeq(u, 1, b) = AddSegment(x, <<Dot, Dot>>)
           \/ u # x /\ SubSeq(u, 1, b) = <<Slash>> \o AddSegment(x, <<Dot, Dot>>)
<1>1. /\ x \in Seq(Chars) /\ Len(x) \in Nat /\ LastSlash(x) \in 0..Len(x)
      /\ x # <<>> => x[1] = Slash /\ Len(x) > 0
  BY LastSlashIs DEF Paths
<1>2. AddSegment(x, <<Dot, Dot>>) = SubSeq(x, 1, LastSlash(x) - 1)
  BY AddDots
<1>3. CASE u = x
  <2>1. CASE LastSlash(x) = 0
    <3>1. SubSeq(x, 1, 0) = <<>> /\ SubSeq(x, 1, 0 - 1) = <<>>
      BY <1>1, SubSeqEmpty
    <3> QED BY <1>2, <1>3, <2>1, <3>1
  <2>2. CASE LastSlash(x) # 0
    BY <1>2, <1>3, <2>2
  <2> QED BY <2>1, <2>2
<1>4. CASE u = <<Slash>> \o x
  <2>1. /\ u \in Seq(Chars) /\ Len(u) = Len(x) + 1 /\ u[1] = Slash
        /\ \A k \in 1..Len(x) : u[k + 1] = x[k]
    BY <1>1, <1>4 DEF Chars
  <2>2. CASE x = <<>>
    <3>1. LastSlash(u) = 1
      BY <2>1, <2>2, LastSlashIs
    <3>2. SubSeq(u, 1, 0) = <<>> /\ SubSeq(x, 1, LastSlash(x) - 1) = <<>>
      <4>1. LastSlash(x) = 0
        BY <1>1, <2>2
      <4> QED BY <4>1, SubSeqEmpty
    <3>3. b = 0
      BY <3>1
    <3> QED BY <1>2, <3>2, <3>3
  <2>3. CASE x # <<>>
    <3>1. LastSlash(x) >= 1 /\ x[LastSlash(x)] = Slash
          /\ \A k \in 1..Len(x) : x[k] = Slash => k <= LastSlash(x)
      <4>1. x[1] = Slash /\ 1 \in 1..Len(x)
        BY <1>1, <2>3
      <4> QED BY <1>1, <4>1, LastSlashIs
    <3> DEFINE l == LastSlash(x)
    <3>2. l \in 1..Len(x) /\ x[l] = Slash /\ \A k \in 1..Len(x) : x[k] = Slash => k <= l
      BY <1>1, <3>1
    <3>3. AddSegment(x, <<Dot, Dot>>) = SubSeq(x, 1, l - 1)
      BY <1>2
    <3> HIDE DEF l
    <3>4. l + 1 \in 1..Len(u) /\ u[l + 1] = Slash
      BY <1>1, <2>1, <3>2
    <3>5. ASSUME NEW m \in 1..Len(u), m > l + 1 PROVE u[m] # Slash
      <4>1. m - 1 \in 1..Len(x) /\ m - 1 > l /\ u[(m - 1) + 1] = x[m - 1] /\ (m - 1) + 1 = m
        BY <1>1, <2>1, <3>2, <3>5
      <4>2. x[m - 1] # Slash
        BY <3>2, <4>1
      <4> QED BY <4>1, <4>2
    <3>6. LastSlash(u) = l + 1
      BY <2>1, <3>4, <3>5, LastSlashUnique
    <3>7. b = l
      BY <3>2, <3>6
    <3>8. SubSeq(u, 1, l) = <<Slash>> \o SubSeq(x, 1, l - 1)
      <4> DEFINE r == SubSeq(x, 1, l - 1)
      <4>1. r \in Seq(Chars) /\ Len(r) = l - 1 /\ \A k \in 1..(l - 1) : r[k] = x[k]
        BY <1>1, <3>2
      <4>2. SubSeq(u, 1, l) \in Seq(Chars) /\ Len(SubSeq(u, 1, l)) = l
            /\ \A k \in 1..l : SubSeq(u, 1, l)[k] = u[k]
        BY <1>1, <2>1, <3>2
      <4> HIDE DEF r
      <4>3. <<Slash>> \o r \in Seq(Chars) /\ Len(<<Slash>> \o r) = l
            /\ (<<Slash>> \o r)[1] = Slash
            /\ \A k \in 1..(l - 1) : (<<Slash>> \o r)[k + 1] = r[k]
        BY <3>2, <4>1 DEF Chars
      <4>4. ASSUME NEW k \in 1..l PROVE SubSeq(u, 1, l)[k] = (<<Slash>> \o r)[k]
        <5>1. CASE k = 1
          BY <2>1, <4>2, <4>3, <5>1
        <5>2. CASE k # 1
          <6>1. k - 1 \in 1..(l - 1) /\ k - 1 \in 1..Len(x) /\ (k - 1) + 1 = k
            BY <1>1, <3>2, <5>2
          <6> QED BY SMTT(30), <2>1, <4>1, <4>2, <4>3, <6>1
        <5> QED BY <5>1, <5>2
      <4> QED BY <4>2, <4>3, <4>4, SeqEqual DEF r
    <3>9. u # x
      BY <1>1, <2>1
    <3> QED BY <3>3, <3>7, <3>8, <3>9
  <2> QED BY <2>2, <2>3
<1> QED BY <1>3, <1>4

-----------------------------------------------------------------------------
(* A path that has been built stands for its normal form. *)
StandsFor(path, normal) == path = normal \/ (TrivialStart /\ path = <<Slash>> \o normal)

(* From the leading slash on the buffer still is what was received, and    *)
(* holds what `at' says; the path built stands for all that comes before.  *)
TextInv ==
    /\ buf \in Seq(Chars) /\ Len(buf) = Len(target) /\ pos <= Len(target) + 1
    /\ \A k \in 1..Len(target) : k >= Lead => buf[k] = target[k]
    /\ target[Lead] = Slash
    /\ \A k \in 1..Len(target) : Lead < k /\ k < pos => target[k] # Slash
    /\ at \in {"dot", "dots"} => target[Lead + 1] = Dot
    /\ at = "dots" => target[Lead + 2] = Dot
    /\ at = "segment" => target[Lead + 1] # Dot
    /\ at = "dotSegment" => target[Lead + 1] = Dot /\ target[Lead + 2] # Dot
    /\ ~isFirst => Lead > 1 /\ StandsFor(Uri, Normal[Lead - 1])

UriInv ==
    /\ IInv
    /\ target \in Targets
    /\ outcome = "reading" => TextInv
    /\ UriIsNormal

LEMMA LeadIs ==
    ASSUME TypeInv, BehindInv, target \in Targets, TextInv
    PROVE  /\ Lead \in 1..(pos - 1) /\ pos - 1 \in 1..Len(target) /\ Len(target) \in Nat
           /\ target \in Seq(Chars)
           /\ at = "slash" => Lead = pos - 1
           /\ at = "dot" => Lead = pos - 2
           /\ at = "dots" => Lead = pos - 3
           /\ IsSegment => Lead = From /\ Count = pos - Lead
           /\ at = "segment" => Lead < pos - 1
           /\ at = "dotSegment" => Lead < pos - 2
<1>1. target \in Seq(Chars) /\ Len(target) \in Nat
  BY UriPathAssumption DEF Chars
<1>2. pos \in Nat /\ pos <= Len(target) + 1 /\ pathLength \in Nat /\ pathLength < Lead
  BY DEF TypeInv, TextInv, BehindInv
<1>3. CASE at \in {"slash", "dot", "dots"}
  BY <1>1, <1>2, <1>3 DEF Lead, IsSegment
<1>4. CASE at \in {"segment", "dotSegment"}
  BY SMTT(30), <1>1, <1>2, <1>4 DEF Lead, IsSegment, From, Count, TypeInv, BehindInv
<1> QED BY <1>3, <1>4 DEF TypeInv, Places

(* What has been collected, as a segment of the target. *)
Collected == SubSeq(target, Lead + 1, pos - 1)

LEMMA CollectedIs ==
    ASSUME TypeInv, BehindInv, target \in Targets, TextInv
    PROVE  /\ Normal[pos - 1] = AddSegment(Normal[Lead - 1], Collected)
           /\ Normal[Lead - 1] \in Paths /\ Collected \in Seq(Chars)
           /\ at \in {"slash", "dot"} => Collected = <<>> \/ Collected = <<Dot>>
           /\ at = "dots" => Collected = <<Dot, Dot>>
           /\ IsSegment => Normal[pos - 1] = Normal[Lead - 1] \o <<Slash>> \o Collected
<1> DEFINE p == pos - 1
           q == Lead
<1>1. q \in 1..p /\ p \in 1..Len(target) /\ Len(target) \in Nat /\ target \in Seq(Chars)
  BY LeadIs
<1>2. target[q] = Slash /\ \A k \in 1..Len(target) : q < k /\ k <= p => target[k] # Slash
  BY LeadIs DEF TextInv, TypeInv
<1>3. /\ at = "slash" => q = p
      /\ at = "dot" => q = p - 1 /\ target[q + 1] = Dot
      /\ at = "dots" => q = p - 2 /\ target[q + 1] = Dot /\ target[q + 2] = Dot
      /\ at = "segment" => q < p /\ target[q + 1] # Dot
      /\ at = "dotSegment" => q < p - 1 /\ target[q + 1] = Dot /\ target[q + 2] # Dot
  BY LeadIs DEF TextInv, TypeInv
<1>4. Collected = SubSeq(target, q + 1, p)
  BY DEF Collected
<1> HIDE DEF p, q
<1>5. /\ Collected \in Seq(Chars) /\ Len(Collected) = p - q
      /\ \A k \in 1..(p - q) : Collected[k] = target[q + k]
  <2>1. \A k \in (q + 1)..p : target[k] \in Chars
    BY <1>1
  <2>2. q + 1 \in Int /\ p \in Int
    BY <1>1
  <2>3. /\ Collected \in Seq(Chars)
        /\ Len(Collected) = IF q + 1 <= p THEN p - (q + 1) + 1 ELSE 0
        /\ \A k \in 1..(p - (q + 1) + 1) : Collected[k] = target[(q + 1) + k - 1]
    BY <1>4, <2>1, <2>2, SubSeqProperties
  <2>4. p - (q + 1) + 1 = p - q /\ p - q >= 0
    BY <1>1
  <2>5. \A k \in 1..(p - q) : (q + 1) + k - 1 = q + k
    BY <1>1
  <2>6. Len(Collected) = p - q
    BY <1>1, <2>3
  <2> QED BY <2>3, <2>4, <2>5, <2>6
<1>6. Normal[p] = AddSegment(Normal[q - 1], Collected)
  BY <1>1, <1>2, <1>4, NormalAdds
<1>7. Normal[q - 1] \in Paths
  <2>1. q - 1 \in 0..Len(target)
    BY <1>1
  <2> QED BY <2>1, NormalIsPath
<1>8. at = "slash" => Collected = <<>>
  BY <1>1, <1>3, <1>5
<1>9. at = "dot" => Collected = <<Dot>>
  <2> SUFFICES ASSUME at = "dot" PROVE Collected = <<Dot>>
    OBVIOUS
  <2>1. p - q = 1 /\ target[q + 1] = Dot
    BY <1>1, <1>3
  <2>2. Len(Collected) = 1 /\ Collected[1] = Dot
    BY <1>5, <2>1
  <2>3. <<Dot>> \in Seq(Chars) /\ Len(<<Dot>>) = 1 /\ <<Dot>>[1] = Dot
    BY DEF Chars
  <2>4. \A k \in 1..1 : Collected[k] = <<Dot>>[k]
    BY <2>2, <2>3
  <2> QED BY <1>5, <2>2, <2>3, <2>4, SeqEqual
<1>10. at = "dots" => Collected = <<Dot, Dot>>
  <2> SUFFICES ASSUME at = "dots" PROVE Collected = <<Dot, Dot>>
    OBVIOUS
  <2>1. p - q = 2 /\ target[q + 1] = Dot /\ target[q + 2] = Dot
    BY <1>1, <1>3
  <2>2. Len(Collected) = 2 /\ Collected[1] = Dot /\ Collected[2] = Dot
    BY <1>5, <2>1
  <2>3. /\ <<Dot, Dot>> \in Seq(Chars) /\ Len(<<Dot, Dot>>) = 2
        /\ <<Dot, Dot>>[1] = Dot /\ <<Dot, Dot>>[2] = Dot
    BY DEF Chars
  <2>4. \A k \in 1..2 : Collected[k] = <<Dot, Dot>>[k]
    BY <2>2, <2>3
  <2> QED BY <1>5, <2>2, <2>3, <2>4, SeqEqual
<1>11. IsSegment => Normal[p] = Normal[q - 1] \o <<Slash>> \o Collected
  <2> SUFFICES ASSUME IsSegment PROVE Normal[p] = Normal[q - 1] \o <<Slash>> \o Collected
    OBVIOUS
  <2>1. Len(Collected) >= 1 /\ (Collected[1] # Dot \/ (Len(Collected) >= 2 /\ Collected[2] # Dot))
    <3>1. CASE at = "segment"
      <4>1. 1 \in 1..(p - q) /\ target[q + 1] # Dot
        BY <1>1, <1>3, <3>1
      <4> QED BY <1>1, <1>5, <4>1
    <3>2. CASE at = "dotSegment"
      <4>1. 2 \in 1..(p - q) /\ p - q >= 2 /\ target[q + 2] # Dot
        BY <1>1, <1>3, <3>2
      <4> QED BY <1>1, <1>5, <4>1
    <3> QED BY <3>1, <3>2 DEF IsSegment
  <2> QED BY <1>5, <1>6, <2>1, AddOther
<1> QED BY <1>6, <1>7, <1>5, <1>8, <1>9, <1>10, <1>11 DEF p, q

(* The path that the reduction leaves, and what it leaves of the buffer. *)
ReducedUri == SubSeq(ReducedBuf, 1, ReducedLength)

LEMMA ReducedKeeps ==
    ASSUME TypeInv, BehindInv, target \in Targets, TextInv
    PROVE  /\ ReducedBuf \in Seq(Chars) /\ Len(ReducedBuf) = Len(target)
           /\ \A k \in 1..Len(target) : k >= pos => ReducedBuf[k] = target[k]
<1>1. /\ buf \in Seq(Chars) /\ Len(buf) = Len(target) /\ DOMAIN buf = 1..Len(target)
      /\ Len(target) \in Nat /\ Lead < pos /\ Lead \in Int /\ pos \in Int
      /\ \A k \in 1..Len(target) : k >= Lead => buf[k] = target[k]
  BY LeadIs DEF TextInv, TypeInv
<1>2. CASE IsSegment /\ ~isFirst
  <2>1. From \in Int /\ Count = pos - From /\ pathLength < From /\ From < pos /\ pathLength \in Nat
        /\ pos <= Len(target) + 1 /\ From >= 1
    BY <1>2, SegmentIsBehind, LeadIs DEF TypeInv, TextInv
  <2>2. ReducedBuf = [k \in 1..Len(target) |->
            IF k \in pathLength + 1..pathLength + Count THEN buf[From + k - pathLength - 1] ELSE buf[k]]
    BY <1>1, <1>2 DEF ReducedBuf, Copy
  <2>3. \A k \in 1..Len(target) : k \in pathLength + 1..pathLength + Count =>
            From + k - pathLength - 1 \in 1..Len(target) /\ k < pos
    BY <1>1, <2>1
  <2>4. ReducedBuf \in [1..Len(target) -> Chars]
    BY <1>1, <2>2, <2>3
  <2>5. ReducedBuf \in Seq(Chars) /\ Len(ReducedBuf) = Len(target)
    BY <1>1, <2>4
  <2>6. ASSUME NEW k \in 1..Len(target), k >= pos PROVE ReducedBuf[k] = target[k]
    BY <1>1, <2>2, <2>3, <2>6
  <2> QED BY <2>5, <2>6
<1>3. CASE ~(IsSegment /\ ~isFirst)
  <2>1. ReducedBuf = buf
    BY <1>3 DEF ReducedBuf
  <2> QED BY <1>1, <2>1
<1> QED BY <1>2, <1>3

LEMMA ReducedStands ==
    ASSUME TypeInv, BehindInv, target \in Targets, TextInv
    PROVE  \/ StandsFor(ReducedUri, Normal[pos - 1])
           \/ isFirst /\ ~IsSegment /\ ReducedUri = <<Slash>> /\ Normal[pos - 1] = <<>>
<1> DEFINE q == Lead
           n == Normal[q - 1]
           segment == Collected
<1>1. /\ Normal[pos - 1] = AddSegment(n, segment) /\ n \in Paths /\ segment \in Seq(Chars)
      /\ at \in {"slash", "dot"} => segment = <<>> \/ segment = <<Dot>>
      /\ at = "dots" => segment = <<Dot, Dot>>
      /\ IsSegment => Normal[pos - 1] = n \o <<Slash>> \o segment
  BY CollectedIs
<1>2. /\ q \in 1..(pos - 1) /\ pos - 1 \in 1..Len(target) /\ Len(target) \in Nat
      /\ target \in Seq(Chars) /\ target[q] = Slash /\ pos \in Nat /\ pathLength \in Nat
      /\ IsSegment => q = From /\ Count = pos - q /\ From \in Int
      /\ pathLength < q
      /\ buf \in Seq(Chars) /\ Len(buf) = Len(target) /\ DOMAIN buf = 1..Len(target)
      /\ \A k \in 1..Len(target) : k >= q => buf[k] = target[k]
  BY LeadIs DEF TextInv, TypeInv, BehindInv
<1>3. isFirst => q = 1 /\ n = <<>>
  BY <1>2, NormalIs DEF BehindInv
<1>4. ~isFirst => StandsFor(Uri, n)
  BY DEF TextInv
<1>5. <<Slash>> \o segment \in Seq(Chars) /\ n \in Seq(Chars) /\ <<Slash>> \in Seq(Chars)
  BY <1>1 DEF Chars, Paths
<1>6. <<Slash>> \o segment = SubSeq(target, q, pos - 1)
  BY <1>2, SubSeqRecursiveFirst DEF Collected
<1> HIDE DEF q, n, segment
<1>7. CASE IsSegment /\ isFirst
  <2>1. ReducedBuf = buf /\ ReducedLength = pos - 1
    BY <1>2, <1>3, <1>7 DEF ReducedBuf, ReducedLength
  <2>2. ReducedUri = SubSeq(target, 1, pos - 1)
    <3>1. /\ SubSeq(buf, 1, pos - 1) \in Seq(Chars) /\ Len(SubSeq(buf, 1, pos - 1)) = pos - 1
          /\ \A k \in 1..(pos - 1) : SubSeq(buf, 1, pos - 1)[k] = buf[k]
      BY <1>2
    <3>2. /\ SubSeq(target, 1, pos - 1) \in Seq(Chars) /\ Len(SubSeq(target, 1, pos - 1)) = pos - 1
          /\ \A k \in 1..(pos - 1) : SubSeq(target, 1, pos - 1)[k] = target[k]
      BY <1>2
    <3>3. \A k \in 1..(pos - 1) : buf[k] = target[k]
      BY <1>2, <1>3, <1>7
    <3>4. SubSeq(buf, 1, pos - 1) = SubSeq(target, 1, pos - 1)
      BY <3>1, <3>2, <3>3, SeqEqual
    <3> QED BY <2>1, <3>4 DEF ReducedUri
  <2>3. Normal[pos - 1] = <<Slash>> \o segment
    <3>1. Normal[pos - 1] = <<>> \o (<<Slash>> \o segment)
      BY <1>1, <1>3, <1>5, <1>7
    <3> QED BY <1>5, <3>1, ConcatEmptySeq
  <2>4. ReducedUri = Normal[pos - 1]
    BY <1>3, <1>6, <1>7, <2>2, <2>3
  <2> QED BY <2>4 DEF StandsFor
<1>8. CASE IsSegment /\ ~isFirst
  <2>1. ReducedUri = Uri \o SubSeq(target, q, pos - 1)
    <3>1. ReducedLength = pathLength + (pos - q)
      BY <1>2, <1>8 DEF ReducedLength, IsSegment
    <3>2. ReducedBuf = [k \in 1..Len(target) |->
              IF k \in pathLength + 1..pathLength + (pos - q) THEN buf[q + k - pathLength - 1] ELSE buf[k]]
      BY <1>2, <1>8 DEF ReducedBuf, Copy
    <3>3. Uri \in Seq(Chars) /\ Len(Uri) = pathLength /\ \A k \in 1..pathLength : Uri[k] = buf[k]
      BY <1>2 DEF Uri
    <3> DEFINE r == SubSeq(target, q, pos - 1)
    <3>4. r \in Seq(Chars) /\ Len(r) = pos - q /\ \A k \in 1..(pos - q) : r[k] = target[(q + k) - 1]
      BY <1>2
    <3>5. /\ ReducedUri \in Seq(Chars) /\ Len(ReducedUri) = pathLength + (pos - q)
          /\ \A k \in 1..(pathLength + (pos - q)) : ReducedUri[k] = ReducedBuf[k]
      BY <1>2, <3>1, ReducedKeeps DEF ReducedUri
    <3> HIDE DEF r
    <3>6. /\ Uri \o r \in Seq(Chars) /\ Len(Uri \o r) = pathLength + (pos - q)
          /\ \A k \in 1..(pathLength + (pos - q)) :
                (Uri \o r)[k] = IF k <= pathLength THEN buf[k] ELSE r[k - pathLength]
      BY <3>3, <3>4
    <3>7. ASSUME NEW k \in 1..(pathLength + (pos - q)) PROVE ReducedUri[k] = (Uri \o r)[k]
      <4>1. k \in 1..Len(target) /\ ReducedUri[k] = ReducedBuf[k]
        BY <1>2, <3>5
      <4>2. CASE k <= pathLength
        BY <1>2, <3>2, <3>6, <4>1, <4>2
      <4>3. CASE k > pathLength
        <5>1. PICK j \in Int : j = q + k - pathLength - 1
          BY <1>2
        <5>2. j \in 1..Len(target) /\ j >= q /\ k - pathLength \in 1..(pos - q)
              /\ j = (q + (k - pathLength)) - 1
          BY <1>2, <4>3, <5>1
        <5>3. ReducedBuf[k] = buf[j]
          BY <1>2, <3>2, <4>1, <4>3, <5>1
        <5>4. r[k - pathLength] = target[j]
          BY <3>4, <5>2
        <5>5. (Uri \o r)[k] = r[k - pathLength]
          <6>1. ~(k <= pathLength)
            BY <1>2, <4>3
          <6> QED BY <3>6, <6>1, Zenon
        <5>6. buf[j] = target[j]
          BY <1>2, <5>2
        <5> QED BY <4>1, <5>3, <5>4, <5>5, <5>6, Zenon
      <4>4. k \in Int /\ pathLength \in Int
        BY <1>2
      <4>5. k <= pathLength \/ k > pathLength
        BY <4>4
      <4> QED BY <4>2, <4>3, <4>5
    <3> QED BY <3>5, <3>6, <3>7, SeqEqual DEF r
  <2>2. ReducedUri = Uri \o (<<Slash>> \o segment)
    BY <1>6, <2>1
  <2>3. Normal[pos - 1] = n \o (<<Slash>> \o segment)
    <3>1. (n \o <<Slash>>) \o segment = n \o (<<Slash>> \o segment)
      BY <1>1, <1>5
    <3> QED BY <1>1, <1>8, <3>1
  <2>4. CASE Uri = n
    BY <2>2, <2>3, <2>4 DEF StandsFor
  <2>5. CASE TrivialStart /\ Uri = <<Slash>> \o n
    <3>1. (<<Slash>> \o n) \o (<<Slash>> \o segment) = <<Slash>> \o (n \o (<<Slash>> \o segment))
      BY <1>5
    <3> QED BY <2>2, <2>3, <2>5, <3>1 DEF StandsFor
  <2> QED BY <1>4, <1>8, <2>4, <2>5 DEF StandsFor
<1>9. CASE ~IsSegment /\ isFirst
  <2>1. ReducedBuf = buf /\ ReducedLength = 1
    BY <1>9 DEF ReducedBuf, ReducedLength
  <2>2. ReducedUri = <<Slash>>
    <3>1. buf[1] = Slash /\ 1 <= Len(buf)
      BY <1>2, <1>3, <1>9
    <3> DEFINE r == SubSeq(buf, 1, 1)
    <3>2. r \in Seq(Chars) /\ Len(r) = 1 /\ r[1] = Slash
      BY <1>2, <3>1
    <3> HIDE DEF r
    <3>3. r = <<Slash>>
      BY <3>2
    <3> QED BY <2>1, <3>3 DEF ReducedUri, r
  <2>3. Normal[pos - 1] = <<>>
    <3>1. at \in {"slash", "dot", "dots"}
      BY <1>9 DEF IsSegment, TypeInv, Places
    <3>2. CASE at \in {"slash", "dot"}
      BY <1>1, <1>3, <1>9, <3>2, AddNothing
    <3>3. CASE at = "dots"
      <4>1. Normal[pos - 1] = SubSeq(<<>>, 1, LastSlash(<<>>) - 1)
        BY <1>1, <1>3, <1>9, <3>3, AddDots
      <4>2. LastSlash(<<>>) = 0
        <5>1. <<>> \in Seq(Chars) /\ Len(<<>>) = 0
          OBVIOUS
        <5>2. LastSlash(<<>>) \in 0..Len(<<>>)
          BY <5>1, LastSlashIs
        <5> QED BY <5>1, <5>2
      <4> QED BY <4>1, <4>2, SubSeqEmpty
    <3> QED BY <3>1, <3>2, <3>3
  <2> QED BY <1>9, <2>2, <2>3
<1>10. CASE ~IsSegment /\ ~isFirst /\ at = "dots"
  <2>1. ReducedBuf = buf /\ ReducedLength = Back(pathLength)
    BY <1>10 DEF ReducedBuf, ReducedLength
  <2> DEFINE b == Back(pathLength)
  <2>2. b = IF LastSlash(Uri) = 0 THEN 0 ELSE LastSlash(Uri) - 1
    BY <1>2, BackIsSlash DEF Uri
  <2>3. b \in 0..pathLength
    BY <1>2, BackIsShorter
  <2> HIDE DEF b
  <2>4. ReducedUri = SubSeq(Uri, 1, b)
    <3>1. ReducedUri = SubSeq(buf, 1, b)
      BY <2>1 DEF ReducedUri, b
    <3>2. /\ SubSeq(buf, 1, b) \in Seq(Chars) /\ Len(SubSeq(buf, 1, b)) = b
          /\ \A k \in 1..b : SubSeq(buf, 1, b)[k] = buf[k]
      BY <1>2, <2>3
    <3>3. Uri \in Seq(Chars) /\ Len(Uri) = pathLength /\ \A k \in 1..pathLength : Uri[k] = buf[k]
      BY <1>2 DEF Uri
    <3>4. /\ SubSeq(Uri, 1, b) \in Seq(Chars) /\ Len(SubSeq(Uri, 1, b)) = b
          /\ \A k \in 1..b : SubSeq(Uri, 1, b)[k] = Uri[k]
      BY <2>3, <3>3
    <3>5. \A k \in 1..b : SubSeq(buf, 1, b)[k] = SubSeq(Uri, 1, b)[k]
      BY <2>3, <3>2, <3>3, <3>4
    <3> QED BY <3>1, <3>2, <3>4, <3>5, SeqEqual
  <2>5. Normal[pos - 1] = AddSegment(n, <<Dot, Dot>>)
    BY <1>1, <1>10
  <2>6. Uri = n \/ Uri = <<Slash>> \o n
    BY <1>4, <1>10 DEF StandsFor
  <2>7. \/ ReducedUri = Normal[pos - 1]
        \/ Uri # n /\ ReducedUri = <<Slash>> \o Normal[pos - 1]
    <3> DEFINE u == Uri
    <3>1. \/ SubSeq(u, 1, b) = AddSegment(n, <<Dot, Dot>>)
          \/ u # n /\ SubSeq(u, 1, b) = <<Slash>> \o AddSegment(n, <<Dot, Dot>>)
      <4>1. u = n \/ u = <<Slash>> \o n
        BY <2>6
      <4>2. b = IF LastSlash(u) = 0 THEN 0 ELSE LastSlash(u) - 1
        BY <2>2
      <4> HIDE DEF u
      <4> QED BY <1>1, <4>1, <4>2, DotsShorten
    <3> QED BY <2>4, <2>5, <3>1
  <2> QED BY <1>4, <1>10, <2>7 DEF StandsFor
<1>11. CASE ~IsSegment /\ ~isFirst /\ at # "dots"
  <2>1. ReducedBuf = buf /\ ReducedLength = pathLength
    BY <1>11 DEF ReducedBuf, ReducedLength
  <2>2. ReducedUri = Uri
    BY <2>1 DEF ReducedUri, Uri
  <2>3. at \in {"slash", "dot"}
    BY <1>11 DEF IsSegment, TypeInv, Places
  <2>4. Normal[pos - 1] = n
    BY <1>1, <2>3, AddNothing
  <2> QED BY <1>4, <1>11, <2>2, <2>4
<1> QED BY <1>7, <1>8, <1>9, <1>10, <1>11 DEF TypeInv

(* What is said of the target does not change. *)
LEMMA TargetIsSame ==
    ASSUME target' = target
    PROVE  Normal' = Normal /\ (TrivialStart' <=> TrivialStart)
<1>1. Normal' = Normal
  BY DEF Normal
<1>2. TrivialStart' <=> TrivialStart
  BY DEF TrivialStart
<1> QED BY <1>1, <1>2

LEMMA StartIsTrivial ==
    ASSUME TypeInv, BehindInv, target \in Targets, TextInv, isFirst, ~IsSegment,
           pos - 1 = Len(target) \/ target[pos] = Slash
    PROVE  TrivialStart
<1>1. /\ Lead = 1 /\ target \in Seq(Chars) /\ Len(target) \in Nat /\ pos - 1 \in 1..Len(target)
      /\ pos \in Nat
      /\ at = "slash" => Lead = pos - 1
      /\ at = "dot" => Lead = pos - 2
      /\ at = "dots" => Lead = pos - 3
  BY LeadIs DEF BehindInv, TypeInv
<1>2. at \in {"slash", "dot", "dots"}
  BY DEF IsSegment, TypeInv, Places
<1>3. /\ at \in {"dot", "dots"} => target[2] = Dot
      /\ at = "dots" => target[3] = Dot
  BY <1>1 DEF TextInv
<1> DEFINE k == pos - 1
<1>4. k \in 1..3 /\ k + 1 = pos
  BY <1>1, <1>2
<1>5. ASSUME NEW m \in 2..k PROVE m \in DOMAIN target /\ target[m] = Dot
  <2>1. m \in 1..Len(target) /\ m \in {2, 3} /\ (m = 2 => at \in {"dot", "dots"}) /\ (m = 3 => at = "dots")
    BY <1>1, <1>2
  <2> QED BY <1>1, <1>3, <2>1
<1>6. k = Len(target) \/ target[k + 1] = Slash
  BY <1>4
<1> HIDE DEF k
<1> QED BY <1>4, <1>5, <1>6 DEF TrivialStart

(* A character that is collected. *)
LEMMA CollectingKeepsText ==
    ASSUME TypeInv, BehindInv, target \in Targets, TextInv, Plain \/ ADot
    PROVE  TextInv'
<1>1. /\ Lead \in 1..(pos - 1) /\ pos \in Nat /\ Len(target) \in Nat
      /\ pos \in 1..Len(target) /\ Len(buf) = Len(target)
      /\ buf[pos] = target[pos] /\ target[pos] # Slash
      /\ at = "slash" => Lead = pos - 1
      /\ at = "dot" => Lead = pos - 2
      /\ at = "dots" => Lead = pos - 3
  BY LeadIs, UriPathAssumption DEF TextInv, TypeInv, Plain, ADot, More, Char
<1>2. /\ target' = target /\ buf' = buf /\ pos' = pos + 1 /\ isFirst' = isFirst
      /\ pathLength' = pathLength
  BY DEF Plain, ADot, Shift, StartSegment, GrowSegment
<1>3. /\ Lead' = Lead
      /\ at' \in {"dot", "dots"} => target[Lead + 1] = Dot
      /\ at' = "dots" => target[Lead + 2] = Dot
      /\ at' = "segment" => target[Lead + 1] # Dot
      /\ at' = "dotSegment" => target[Lead + 1] = Dot /\ target[Lead + 2] # Dot
  <2>1. CASE Plain /\ at = "slash"
    <3>1. at' = "segment" /\ segStart' = pos /\ target[pos] # Dot
      BY <1>1, <2>1 DEF Plain, StartSegment, Shift, IsSegment, Char
    <3> QED BY <1>1, <1>2, <2>1, <3>1 DEF Lead
  <2>2. CASE Plain /\ at = "dot"
    <3>1. at' = "dotSegment" /\ segStart' = pos /\ target[pos] # Dot
      BY <1>1, <2>2 DEF Plain, StartSegment, Shift, IsSegment, Char
    <3>2. target[Lead + 1] = Dot
      BY <2>2 DEF TextInv
    <3> QED BY <1>1, <1>2, <2>2, <3>1, <3>2 DEF Lead
  <2>3. CASE (Plain \/ ADot) /\ IsSegment
    <3>1. at' = at /\ segStart' = segStart
      BY <2>3 DEF Plain, ADot, GrowSegment, StartSegment, Shift, IsSegment
    <3>2. Lead' = Lead
      BY <2>3, <3>1 DEF Lead, IsSegment
    <3> QED BY <2>3, <3>1, <3>2 DEF TextInv
  <2>4. CASE ADot /\ at = "slash"
    <3>1. at' = "dot" /\ target[pos] = Dot
      BY <1>1, <2>4 DEF ADot, Shift, IsSegment, Char
    <3> QED BY <1>1, <1>2, <2>4, <3>1 DEF Lead
  <2>5. CASE ADot /\ at = "dot"
    <3>1. at' = "dots" /\ target[pos] = Dot
      BY <1>1, <2>5 DEF ADot, Shift, IsSegment, Char
    <3>2. target[Lead + 1] = Dot
      BY <2>5 DEF TextInv
    <3> QED BY <1>1, <1>2, <2>5, <3>1, <3>2 DEF Lead
  <2> QED BY <2>1, <2>2, <2>3, <2>4, <2>5 DEF Plain, ADot
<1>4. \A k \in 1..Len(target) : Lead < k /\ k < pos + 1 => target[k] # Slash
  BY <1>1 DEF TextInv
<1>5. ~isFirst => StandsFor(Uri, Normal[Lead - 1])'
  <2>1. Uri' = Uri
    BY <1>2 DEF Uri
  <2> QED BY <1>2, <1>3, <2>1, TargetIsSame DEF StandsFor, TextInv
<1> QED BY <1>1, <1>2, <1>3, <1>4, <1>5 DEF TextInv

(* A slash, which reduces what has been collected. *)
LEMMA SlashKeepsText ==
    ASSUME TypeInv, BehindInv, target \in Targets, TextInv, ASlash
    PROVE  TextInv'
<1>1. /\ pos \in 1..Len(target) /\ Len(target) \in Nat /\ target[pos] = Slash /\ pos > 1
      /\ target' = target /\ buf' = ReducedBuf /\ pathLength' = ReducedLength
      /\ at' = "slash" /\ isFirst' = FALSE /\ pos' = pos + 1
  BY LeadIs DEF TextInv, TypeInv, ASlash, More, Char
<1>2. Lead' = pos
  BY <1>1 DEF Lead
<1>3. StandsFor(ReducedUri, Normal[pos - 1])
  <2>1. isFirst /\ ~IsSegment => TrivialStart
    BY <1>1, StartIsTrivial
  <2>2. <<Slash>> \o <<>> = <<Slash>>
    <3>1. <<Slash>> \in Seq(Chars)
      BY DEF Chars
    <3> QED BY <3>1, ConcatEmptySeq
  <2> QED BY <2>1, <2>2, ReducedStands DEF StandsFor
<1>4. StandsFor(Uri, Normal[Lead - 1])'
  <2>1. Uri' = ReducedUri
    BY <1>1 DEF Uri, ReducedUri
  <2> QED BY <1>1, <1>2, <1>3, <2>1, TargetIsSame DEF StandsFor
<1>5. /\ buf' \in Seq(Chars) /\ Len(buf') = Len(target)
      /\ \A k \in 1..Len(target) : k >= pos => buf'[k] = target[k]
  BY <1>1, ReducedKeeps
<1> QED BY <1>1, <1>2, <1>4, <1>5 DEF TextInv

(* The end, or a character that does not fit. *)
LEMMA ReportIsNormal ==
    ASSUME TypeInv, BehindInv, target \in Targets, TextInv, End \/ Malformed
    PROVE  UriIsNormal'
<1> DEFINE n == Normal[pos - 1]
           u == ReducedUri
<1>1. /\ pos' = pos /\ target' = target /\ buf' = ReducedBuf /\ pathLength' = ReducedLength
      /\ outcome' \in {"reported", "malformed", "refused"}
      /\ outcome' = "refused" <=> ReducedLength = 0
  BY DEF End, Malformed, Report
<1>2. Uri' = u /\ Read' = pos - 1 /\ Normal' = Normal /\ (TrivialStart' <=> TrivialStart)
  BY <1>1, TargetIsSame DEF Uri, ReducedUri, Read
<1>3. NormalForm(Read)' = IF n = <<>> THEN <<Slash>> ELSE n
  BY <1>2 DEF NormalForm
<1>4. n \in Seq(Chars) /\ <<Slash>> \in Seq(Chars) /\ <<Slash>> # <<>>
  <2>1. pos - 1 \in 0..Len(target)
    BY LeadIs
  <2> QED BY <2>1, NormalIsPath DEF Paths, Chars
<1>5. /\ ReducedLength = 0 <=> u = <<>>
  <2>1. ReducedLength \in Nat /\ ReducedLength < pos /\ pos <= Len(target) + 1 /\ Len(target) \in Nat /\ pos \in Nat
    BY ReducedIsBehind, LeadIs DEF TextInv, TypeInv
  <2>2. Len(u) = ReducedLength
    BY <2>1, ReducedKeeps DEF ReducedUri
  <2>3. ReducedLength = 0 => u = <<>>
    BY SubSeqEmpty DEF ReducedUri
  <2> QED BY <2>2, <2>3
<1>6. \/ u = n
      \/ TrivialStart /\ u = <<Slash>> \o n
      \/ u = <<Slash>> /\ n = <<>>
  BY ReducedStands DEF StandsFor
<1>7. <<Slash>> \o <<>> = <<Slash>> /\ <<Slash>> \o n # <<>>
  BY <1>4, ConcatEmptySeq, ConcatSimplifications
<1> HIDE DEF n, u
<1>8. CASE outcome' = "refused"
  <2>1. n = <<>>
    BY <1>1, <1>4, <1>5, <1>6, <1>7, <1>8
  <2> QED BY <1>3, <1>8, <2>1 DEF UriIsNormal
<1>9. CASE outcome' \in {"reported", "malformed"}
  <2>1. u # <<>>
    BY <1>1, <1>5, <1>9
  <2>2. u = NormalForm(Read)' \/ (TrivialStart /\ u = <<Slash>> \o NormalForm(Read)')
    BY <1>3, <1>6, <1>7, <2>1
  <2> QED BY <1>2, <1>9, <2>2 DEF UriIsNormal
<1> QED BY <1>1, <1>8, <1>9

LEMMA UriStepPreserves == UriInv /\ [Next]_vars => UriInv'
<1> SUFFICES ASSUME UriInv, [Next]_vars PROVE UriInv'
  OBVIOUS
<1>1. IInv'
  BY StepPreserves DEF UriInv
<1>2. target' = target
  BY DEF Next, Plain, ADot, ASlash, End, Malformed, Done, Report, Shift, StartSegment,
         GrowSegment, vars
<1>3. TypeInv /\ target \in Targets /\ (outcome = "reading" => BehindInv /\ TextInv)
  BY DEF UriInv, IInv
<1>4. CASE Plain \/ ADot
  <2>1. outcome = "reading" /\ outcome' = "reading"
    BY <1>4 DEF Plain, ADot, More, Reading, Shift, StartSegment, GrowSegment
  <2>2. TextInv'
    BY <1>3, <1>4, <2>1, CollectingKeepsText
  <2> QED BY <1>1, <1>2, <1>3, <2>1, <2>2 DEF UriInv, UriIsNormal
<1>5. CASE ASlash
  <2>1. outcome = "reading" /\ outcome' = "reading"
    BY <1>5 DEF ASlash, More, Reading
  <2>2. TextInv'
    BY <1>3, <1>5, <2>1, SlashKeepsText
  <2> QED BY <1>1, <1>2, <1>3, <2>1, <2>2 DEF UriInv, UriIsNormal
<1>6. CASE End \/ Malformed
  <2>1. outcome = "reading" /\ outcome' # "reading"
    BY <1>6 DEF End, Malformed, More, Reading, Report
  <2>2. UriIsNormal'
    BY <1>3, <1>6, <2>1, ReportIsNormal
  <2> QED BY <1>1, <1>2, <1>3, <2>1, <2>2 DEF UriInv
<1>7. CASE UNCHANGED vars
  <2>1. /\ Uri' = Uri /\ Read' = Read /\ Lead' = Lead /\ Normal' = Normal
        /\ TrivialStart' <=> TrivialStart
    BY <1>7, TargetIsSame DEF vars, Uri, Read, Lead
  <2>2. NormalForm(Read)' = NormalForm(Read)
    BY <2>1 DEF NormalForm
  <2>3. outcome = "reading" => TextInv'
    BY <1>3, <1>7, <2>1 DEF vars, TextInv, StandsFor
  <2>4. UriIsNormal'
    BY <1>7, <2>1, <2>2 DEF vars, UriInv, UriIsNormal
  <2> QED BY <1>1, <1>2, <1>3, <1>7, <2>3, <2>4 DEF UriInv, vars
<1> QED BY <1>4, <1>5, <1>6, <1>7 DEF Next, Done

LEMMA UriInitEstablishes == Init => UriInv
<1> SUFFICES ASSUME Init PROVE UriInv
  OBVIOUS
<1>1. IInv
  BY InitEstablishes
<1>2. /\ target \in Seq(Chars) /\ Len(target) \in Nat /\ Len(target) >= 1 /\ target[1] = Slash
      /\ target \in Targets
  BY UriPathAssumption DEF Init, Chars
<1>3. Lead = 1
  BY DEF Init, Lead
<1>4. TextInv
  BY <1>2, <1>3 DEF Init, TextInv
<1> QED BY <1>1, <1>2, <1>4 DEF UriInv, Init, UriIsNormal

(* For every target: the path handed to the URI callbacks is the normal    *)
(* form of what was read of it, but for the slash that a first segment of  *)
(* none, one or two dots may double.                                       *)
THEOREM UriIsNormalButForSlash == Spec => []UriIsNormal
<1>1. UriInv => UriIsNormal
  BY DEF UriInv
<1> QED BY <1>1, UriInitEstablishes, UriStepPreserves, PTL DEF Spec
=============================================================================

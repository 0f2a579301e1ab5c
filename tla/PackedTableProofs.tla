------------------------- MODULE PackedTableProofs -------------------------
(***************************************************************************)
(* Proofs about PackedTable, for every set of rows.  The theorems at the   *)
(* end need to know of a table more than that every row is found: IInv     *)
(* adds that a slot has one entry, that every row of tokens has left the   *)
(* room of NTerminal slots behind it, and that an entry for a token        *)
(* belongs to some row of tokens.  Without the room, a row that is placed  *)
(* where the search has given up might get the offset of another.          *)
(***************************************************************************)
EXTENDS PackedTable, FiniteSetTheorems, FunctionTheorems, SequenceTheorems,
        WellFoundedInduction, TLAPS

(* A finite set of integers has a smallest element.  (The set of those     *)
(* below an element is the smaller the smaller the element is.)            *)
LEMMA SmallestExists ==
    ASSUME NEW S, IsFiniteSet(S), S \subseteq Int, S # {}
    PROVE  \E x \in S : \A y \in S : x <= y
<1> DEFINE Below(x) == {y \in S : y < x}
           T == {Below(x) : x \in S}
<1>1. T \subseteq FiniteSubsetsOf(S) /\ T # {}
  <2>1. \A x \in S : Below(x) \in SUBSET S
    OBVIOUS
  <2>2. FiniteSubsetsOf(S) = SUBSET S
    BY FS_FiniteSubsetsOfFinite
  <2>3. T # {}
    OBVIOUS
  <2>4. T \subseteq SUBSET S
    <3> HIDE DEF Below
    <3> QED BY <2>1
  <2> QED BY <2>2, <2>3, <2>4
<1>2. PICK B \in T : \A C \in T : ~ (<<C, B>> \in StrictSubsetOrdering(S))
  <2> HIDE DEF T
  <2> QED BY <1>1, FS_StrictSubsetOrderingWellFounded, WFMin
<1>3. PICK x \in S : B = Below(x)
  BY <1>2
<1>4. ASSUME NEW y \in S, y < x PROVE FALSE
  <2>1. Below(y) \subseteq Below(x) /\ Below(y) # Below(x)
    <3>1. y \in Below(x) /\ y \notin Below(y)
      BY <1>4
    <3>2. \A z \in Below(y) : z \in Below(x)
      BY <1>4
    <3> QED BY <3>1, <3>2
  <2>2. Below(y) \in SUBSET S /\ Below(x) \in SUBSET S
    OBVIOUS
  <2>3. <<Below(y), Below(x)>> \in StrictSubsetOrdering(S)
    BY <2>1, <2>2 DEF StrictSubsetOrdering
  <2> QED BY <2>3, <1>2, <1>3
<1> QED BY <1>4

(* And a greatest. *)
LEMMA GreatestExists ==
    ASSUME NEW S, IsFiniteSet(S), S \subseteq Int, S # {}
    PROVE  \E x \in S : \A y \in S : y <= x
<1> DEFINE f == [x \in S |-> 0 - x]
           T == {f[x] : x \in S}
<1>1. f \in Surjection(S, T)
  BY DEF Surjection
<1>2. IsFiniteSet(T)
  <2> HIDE DEF f, T
  <2> QED BY <1>1, FS_Surjection
<1>3. T \subseteq Int /\ T # {}
  <2>1. \A x \in S : f[x] = 0 - x /\ 0 - x \in Int
    OBVIOUS
  <2> QED BY <2>1
<1>4. PICK t \in T : \A u \in T : t <= u
  <2> HIDE DEF f, T
  <2> QED BY <1>2, <1>3, SmallestExists
<1>5. PICK x \in S : t = 0 - x
  OBVIOUS
<1>6. \A y \in S : y <= x
  <2> TAKE y \in S
  <2>1. f[y] \in T /\ f[y] = 0 - y
    OBVIOUS
  <2>2. 0 - x <= 0 - y
    BY <2>1, <1>4, <1>5
  <2> QED BY <2>2
<1> QED BY <1>6

(* The elements that MinOf and MaxOf choose. *)
LEMMA MinOfFinite ==
    ASSUME NEW S, IsFiniteSet(S), S \subseteq Int, S # {}
    PROVE  MinOf(S) \in S /\ \A y \in S : MinOf(S) <= y
BY SmallestExists DEF MinOf

LEMMA MaxOfFinite ==
    ASSUME NEW S, IsFiniteSet(S), S \subseteq Int, S # {}
    PROVE  MaxOf(S) \in S /\ \A y \in S : y <= MaxOf(S)
BY GreatestExists DEF MaxOf

LEMMA MaxOfPair ==
    ASSUME NEW a \in Int, NEW b \in Int
    PROVE  MaxOf({a, b}) \in {a, b} /\ a <= MaxOf({a, b}) /\ b <= MaxOf({a, b})
<1>1. \E x \in {a, b} : \A y \in {a, b} : y <= x
  <2>1. CASE a <= b BY <2>1
  <2>2. CASE b <= a BY <2>2
  <2> QED BY <2>1, <2>2
<1> QED BY <1>1 DEF MaxOf

-----------------------------------------------------------------------------
(* Rows, and what is written of them.                                      *)

Symbols == Tokens \cup Nonterminals

LEMMA Sizes == NTerminal \in Nat /\ NSymbol \in Nat /\ NTerminal < NSymbol
BY PackedTableAssumption

LEMMA SymbolsAre ==
    Symbols = 0 .. NSymbol - 1 /\ \A la \in Symbols : la \in Int /\ 0 <= la /\ la <= NSymbol - 1
BY Sizes DEF Symbols, Tokens, Nonterminals

LEMMA RowFacts ==
    ASSUME NEW S \in SUBSET Symbols, NEW row, IsRow(row, S)
    PROVE  /\ Lookaheads(row) \subseteq S
           /\ Mn(row) \in Lookaheads(row) /\ Mx(row) \in Lookaheads(row)
           /\ \A la \in Lookaheads(row) : Mn(row) <= la /\ la <= Mx(row)
           /\ \A j \in DOMAIN row : row[j] = <<row[j][1], row[j][2]>> /\ row[j][2] \in Numbers
           /\ 0 <= Mn(row) /\ Mx(row) <= NSymbol - 1
<1>1. \A j \in DOMAIN row : row[j] \in S \X Numbers
  BY DEF IsRow
<1>2. Lookaheads(row) \subseteq S
  BY <1>1 DEF Lookaheads
<1>3. Lookaheads(row) # {}
  <2>1. 1 \in DOMAIN row
    BY DEF IsRow
  <2> QED BY <2>1 DEF Lookaheads
<1>4. IsFiniteSet(Lookaheads(row))
  <2>1. IsFiniteSet(0 .. NSymbol - 1)
    BY FS_Interval, Sizes
  <2> QED BY <2>1, <1>2, SymbolsAre, FS_Subset
<1>5. Lookaheads(row) \subseteq Int
  BY <1>2, SymbolsAre, Sizes
<1>6. Mn(row) \in Lookaheads(row) /\ \A la \in Lookaheads(row) : Mn(row) <= la
  BY <1>3, <1>4, <1>5, MinOfFinite DEF Mn
<1>7. Mx(row) \in Lookaheads(row) /\ \A la \in Lookaheads(row) : la <= Mx(row)
  BY <1>3, <1>4, <1>5, MaxOfFinite DEF Mx
<1>8. \A j \in DOMAIN row : row[j] = <<row[j][1], row[j][2]>> /\ row[j][2] \in Numbers
  BY <1>1
<1>9. 0 <= Mn(row) /\ Mx(row) <= NSymbol - 1
  <2>1. Mn(row) \in Symbols /\ Mx(row) \in Symbols
    BY <1>2, <1>6, <1>7
  <2> QED BY <2>1, SymbolsAre
<1> QED BY <1>2, <1>6, <1>7, <1>8, <1>9

LEMMA WrittenFacts ==
    ASSUME NEW S \in SUBSET Symbols, NEW row, IsRow(row, S), NEW ofst \in Int
    PROVE  /\ \A e \in Written(row, ofst) : \E j \in DOMAIN row :
                 e = <<ofst + row[j][1], row[j][1], row[j][2]>>
           /\ \A d, e \in Written(row, ofst) : d[1] = e[1] => d = e
           /\ \A la \in Lookaheads(row) : \E e \in Written(row, ofst) : e[2] = la
           /\ \A x : x \in Meant(row) <=>
                 \E e \in Written(row, ofst) : x = <<e[2], e[3]>>
<1> DEFINE Last(k) == \A l \in DOMAIN row : row[l][1] = row[k][1] => l <= k
<1>1. DOMAIN row = 1 .. Len(row) /\ Len(row) \in Nat
  BY DEF IsRow
<1>2. \A j \in DOMAIN row : row[j][1] \in Int
  <2>1. \A j \in DOMAIN row : row[j][1] \in Lookaheads(row)
    BY DEF Lookaheads
  <2>2. Lookaheads(row) \subseteq Symbols
    BY RowFacts
  <2> QED BY <2>1, <2>2, SymbolsAre
<1>3. \A e : e \in Written(row, ofst) <=>
         \E j \in DOMAIN row : Last(j) /\ e = <<ofst + row[j][1], row[j][1], row[j][2]>>
  BY DEF Written
<1>5. \A j, k \in DOMAIN row : Last(j) /\ Last(k) /\ row[j][1] = row[k][1] => j = k
  BY <1>1
<1>6. \A la \in Lookaheads(row) : \E k \in DOMAIN row : Last(k) /\ row[k][1] = la
  <2> TAKE la \in Lookaheads(row)
  <2> DEFINE J == {j \in DOMAIN row : row[j][1] = la}
  <2>1. J # {}
    BY DEF Lookaheads
  <2>2. IsFiniteSet(J) /\ J \subseteq Int
    <3>1. J \subseteq 1 .. Len(row)
      BY <1>1
    <3>2. IsFiniteSet(1 .. Len(row))
      BY <1>1, FS_Interval
    <3>3. 1 .. Len(row) \subseteq Int
      BY <1>1
    <3> HIDE DEF J
    <3> QED BY <3>1, <3>2, <3>3, FS_Subset
  <2>3. MaxOf(J) \in J /\ \A j \in J : j <= MaxOf(J)
    BY <2>1, <2>2, MaxOfFinite
  <2> QED BY <2>3
<1>7. \A d, e \in Written(row, ofst) : d[1] = e[1] => d = e
  <2> SUFFICES ASSUME NEW d \in Written(row, ofst), NEW e \in Written(row, ofst), d[1] = e[1]
               PROVE  d = e
    OBVIOUS
  <2>1. PICK j \in DOMAIN row : Last(j) /\ d = <<ofst + row[j][1], row[j][1], row[j][2]>>
    BY <1>3
  <2>2. PICK k \in DOMAIN row : Last(k) /\ e = <<ofst + row[k][1], row[k][1], row[k][2]>>
    BY <1>3
  <2>3. row[j][1] = row[k][1]
    BY <2>1, <2>2, <1>2
  <2> QED BY <2>1, <2>2, <2>3, <1>5
<1>8. ASSUME NEW x
      PROVE  x \in Meant(row) <=> \E e \in Written(row, ofst) : x = <<e[2], e[3]>>
  <2>1. ASSUME NEW o \in Int
        PROVE  (\E e \in Written(row, o) : x = <<e[2], e[3]>>)
                   <=> \E j \in DOMAIN row : Last(j) /\ x = <<row[j][1], row[j][2]>>
    <3> DEFINE entry(j) == <<o + row[j][1], row[j][1], row[j][2]>>
    <3>1. \A e : e \in Written(row, o) <=> \E j \in DOMAIN row : Last(j) /\ e = entry(j)
      BY DEF Written
    <3>2. \A j : entry(j)[2] = row[j][1] /\ entry(j)[3] = row[j][2]
      OBVIOUS
    <3> HIDE DEF entry, Last
    <3> QED BY <3>1, <3>2
  <2>2. x \in Meant(row) <=> \E e \in Written(row, 0) : x = <<e[2], e[3]>>
    BY DEF Meant
  <2> QED BY <2>1, <2>2
<1>9. \A la \in Lookaheads(row) : \E e \in Written(row, ofst) : e[2] = la
  <2> TAKE la \in Lookaheads(row)
  <2>1. PICK k \in DOMAIN row : Last(k) /\ row[k][1] = la
    BY <1>6
  <2>2. <<ofst + row[k][1], row[k][1], row[k][2]>> \in Written(row, ofst)
    BY <2>1, <1>3
  <2> QED BY <2>1, <2>2
<1> HIDE DEF Last
<1> QED BY <1>3, <1>7, <1>8, <1>9

-----------------------------------------------------------------------------
(* Where a row goes.                                                       *)

TableOK(p) ==
    /\ p.nAction \in Nat /\ p.nActionAlloc \in Nat
    /\ p.aAction \subseteq (0 .. p.nAction - 1) \X Symbols \X Numbers
    /\ \A d, e \in p.aAction : d[1] = e[1] => d = e
    /\ \A s \in Slots(p) : s < p.nActionAlloc

LookaheadsOf(safe) == IF safe THEN Tokens ELSE Nonterminals

LEMMA EntryFacts ==
    ASSUME NEW p, TableOK(p), NEW e \in p.aAction
    PROVE  /\ e[1] \in Int /\ 0 <= e[1] /\ e[1] < p.nAction /\ e[1] < p.nActionAlloc
           /\ e[2] \in Symbols /\ e[2] \in Int /\ 0 <= e[2]
           /\ e[3] \in Numbers /\ e = <<e[1], e[2], e[3]>>
<1>1. e \in (0 .. p.nAction - 1) \X Symbols \X Numbers
  BY DEF TableOK
<1>2. e[1] \in 0 .. p.nAction - 1 /\ e[2] \in Symbols /\ e[3] \in Numbers /\ e = <<e[1], e[2], e[3]>>
  BY <1>1
<1>3. e[1] \in Slots(p)
  BY DEF Slots
<1> QED BY <1>2, <1>3, SymbolsAre DEF TableOK

LEMMA AllocFacts ==
    ASSUME NEW p, TableOK(p)
    PROVE  /\ Alloc(p, NSymbol) \in Nat
           /\ p.nAction + NSymbol + 1 <= Alloc(p, NSymbol)
           /\ p.nActionAlloc <= Alloc(p, NSymbol)
BY Sizes, GrowthAssumption DEF Alloc, TableOK

(* A row is placed over an equal one, or into free slots; in that case its *)
(* offset finds nothing, or the search has given up near the end of the    *)
(* memory.  All its slots are in the memory.                               *)
LEMMA PlaceFacts ==
    ASSUME NEW p, TableOK(p), NEW safe \in BOOLEAN, NEW row, IsRow(row, LookaheadsOf(safe)),
           NEW i, i = Place(p, row, safe, NSymbol)
    PROVE  /\ i \in Nat /\ (safe => Mn(row) <= i)
           /\ \A la \in Lookaheads(row) : i - Mn(row) + la < Alloc(p, NSymbol)
           /\ \/ Same(p, row, i) /\ i < p.nAction
              \/ /\ \A la \in Lookaheads(row) : i - Mn(row) + la \notin Slots(p)
                 /\ \/ At(p, i - Mn(row)) = {}
                    \/ p.nAction + NSymbol + 1 <= i + Mx(row)
<1> DEFINE mn == Mn(row)
           mx == Mx(row)
           end == IF safe THEN mn ELSE 0
           same == {k \in end .. p.nAction - 1 : Same(p, row, k)}
           limit == Alloc(p, NSymbol) - mx
           holes == {k \in end .. limit - 1 : Fits(p, row, k)}
<1>0. LookaheadsOf(safe) \in SUBSET Symbols
  BY DEF LookaheadsOf, Symbols
<1>1. /\ mn \in Lookaheads(row) /\ mx \in Lookaheads(row)
      /\ \A la \in Lookaheads(row) : la \in Int /\ mn <= la /\ la <= mx
      /\ mn \in Nat /\ mx \in Nat /\ mn <= mx /\ mx <= NSymbol - 1
  <2>1. Lookaheads(row) \subseteq Symbols
    BY <1>0, RowFacts
  <2>2. \A la \in Lookaheads(row) : la \in Int /\ 0 <= la
    BY <2>1, SymbolsAre
  <2> QED BY <1>0, <2>2, RowFacts
<1>2. p.nAction \in Nat /\ Alloc(p, NSymbol) \in Nat
      /\ p.nAction + NSymbol + 1 <= Alloc(p, NSymbol) /\ p.nActionAlloc <= Alloc(p, NSymbol)
  BY AllocFacts DEF TableOK
<1>3. \A s \in Slots(p) : s \in Int /\ 0 <= s /\ s < p.nAction
  BY EntryFacts DEF Slots
<1>4. end \in Nat /\ limit \in Int
  BY <1>1, <1>2
<1>5. i = IF same # {} THEN MaxOf(same) ELSE IF holes # {} THEN MinOf(holes) ELSE MaxOf({end, limit})
  BY DEF Place
<1> HIDE DEF mn, mx, end, same, limit, holes
<1>6. CASE same # {}
  <2>1. IsFiniteSet(same) /\ same \subseteq Int
    <3>1. same \subseteq end .. p.nAction - 1 /\ end .. p.nAction - 1 \subseteq Int
      BY <1>4, <1>2 DEF same
    <3>2. end \in Int /\ p.nAction - 1 \in Int
      BY <1>4, <1>2
    <3>3. IsFiniteSet(end .. p.nAction - 1)
      BY <3>2, FS_Interval
    <3> QED BY <3>1, <3>3, FS_Subset
  <2>2. i \in same
    BY <1>6, <1>5, <2>1, MaxOfFinite
  <2>3. Same(p, row, i) /\ i \in Int /\ end <= i /\ i < p.nAction
    BY <2>2, <1>2, <1>4 DEF same
  <2>4. \A la \in Lookaheads(row) : i - mn + la \in Slots(p)
    <3>1. \A j \in DOMAIN row : <<i - mn + row[j][1], row[j][1], row[j][2]>> \in p.aAction
      BY <2>3 DEF Same, mn
    <3> TAKE la \in Lookaheads(row)
    <3>2. PICK j \in DOMAIN row : row[j][1] = la
      BY DEF Lookaheads
    <3>3. <<i - mn + la, la, row[j][2]>> \in p.aAction
      BY <3>1, <3>2
    <3> QED BY <3>3 DEF Slots
  <2>5. \A la \in Lookaheads(row) : i - mn + la < Alloc(p, NSymbol)
    BY <2>4, <1>2, <1>1, <1>3, <2>3 DEF TableOK
  <2> QED BY <2>3, <2>5, <1>4 DEF end, mn
<1>7. CASE same = {} /\ holes # {}
  <2>1. IsFiniteSet(holes) /\ holes \subseteq Int
    <3>1. holes \subseteq end .. limit - 1 /\ end .. limit - 1 \subseteq Int
      BY <1>4 DEF holes
    <3>2. IsFiniteSet(end .. limit - 1)
      BY <1>4, FS_Interval
    <3> QED BY <3>1, <3>2, FS_Subset
  <2>2. i \in holes
    BY <1>7, <1>5, <2>1, MinOfFinite
  <2>3. Fits(p, row, i) /\ i \in Int /\ end <= i /\ i < limit
    BY <2>2, <1>4 DEF holes
  <2>4. \A la \in Lookaheads(row) : i - mn + la \notin Slots(p)
    BY <2>3 DEF Fits, mn
  <2>5. At(p, i - mn) = {}
    BY <2>3 DEF Fits, mn
  <2>6. \A la \in Lookaheads(row) : i - mn + la < Alloc(p, NSymbol)
    BY <2>3, <1>1, <1>2 DEF limit
  <2> QED BY <2>3, <2>4, <2>5, <2>6, <1>4 DEF end, mn
<1>8. CASE same = {} /\ holes = {}
  <2>1. i \in {end, limit} /\ end <= i /\ limit <= i
    <3>1. i = MaxOf({end, limit})
      BY <1>8, <1>5
    <3>2. end \in Int /\ limit \in Int
      BY <1>4
    <3> QED BY <3>1, <3>2, MaxOfPair
  <2>2. p.nAction + NSymbol + 1 <= i + mx /\ p.nAction < i
    BY <2>1, <1>1, <1>2, <1>4, Sizes DEF limit
  <2>3. \A la \in Lookaheads(row) : i - mn + la \notin Slots(p)
    BY <2>1, <2>2, <1>1, <1>2, <1>3, <1>4
  <2>4. mn # 0
    <3> SUFFICES ASSUME mn = 0 PROVE FALSE
      OBVIOUS
    <3> DEFINE k == p.nAction + 1
    <3>1. k - mn = k /\ k - mn - 1 = p.nAction
      BY <1>2
    <3>2. \A la \in Lookaheads(row) : k - mn + la \notin Slots(p)
      BY <1>1, <1>2, <1>3
    <3>3. At(p, k - mn) = {}
      BY <3>1, <1>2, EntryFacts DEF At
    <3>4. k - mn - 1 \notin 0 .. p.nAction - 1
      BY <1>2
    <3>5. Fits(p, row, k)
      BY <3>2, <3>3, <3>4 DEF Fits, mn
    <3>6. end = 0
      BY DEF end
    <3>7. k \in end .. limit - 1
      BY <3>6, <1>1, <1>2, Sizes DEF limit
    <3> QED BY <3>5, <3>7, <1>8 DEF holes
  <2>5. \A la \in Lookaheads(row) : i - mn + la < Alloc(p, NSymbol)
    <3>1. CASE i = limit
      BY <3>1, <2>4, <1>1, <1>2 DEF limit
    <3>2. CASE i = end /\ end = mn
      <4> TAKE la \in Lookaheads(row)
      <4>1. la \in Int /\ la <= mx /\ mn \in Int /\ i = mn
        BY <3>2, <1>1
      <4>2. i - mn + la = la
        BY <4>1
      <4>3. la < Alloc(p, NSymbol)
        BY <4>1, <1>1, <1>2, Sizes
      <4> QED BY <4>2, <4>3
    <3>3. i = end => end = mn
      BY <2>2, <1>2 DEF end
    <3> QED BY <2>1, <3>1, <3>2, <3>3
  <2> QED BY <2>1, <2>2, <2>3, <2>5, <1>4 DEF end, mn, mx
<1> QED BY <1>6, <1>7, <1>8

(* A row that is in the table already, as Same finds it, has no lookahead  *)
(* twice, and its offset finds nothing else.                               *)
LEMMA SameFacts ==
    ASSUME NEW p, TableOK(p), NEW S \in SUBSET Symbols, NEW row, IsRow(row, S),
           NEW i \in Int, Same(p, row, i)
    PROVE  /\ At(p, i - Mn(row)) = Written(row, i - Mn(row))
           /\ Written(row, i - Mn(row)) \subseteq p.aAction
<1> DEFINE ofst == i - Mn(row)
           entry(j) == <<ofst + row[j][1], row[j][1], row[j][2]>>
           f == [j \in DOMAIN row |-> entry(j)]
           g == [e \in p.aAction |-> e[1]]
<1>1. DOMAIN row = 1 .. Len(row) /\ Len(row) \in Nat
  BY DEF IsRow
<1>2. /\ \A j \in DOMAIN row : entry(j) \in p.aAction
      /\ Cardinality(At(p, ofst)) = Len(row)
  BY DEF Same
<1>3. \A j \in DOMAIN row : row[j] = <<row[j][1], row[j][2]>>
  BY RowFacts
<1>4. \A d, e \in p.aAction : d[1] = e[1] => d = e
  BY DEF TableOK
<1>5. \A j, k \in DOMAIN row : row[j][1] = row[k][1] => j = k
  <2> TAKE j, k \in DOMAIN row
  <2> HAVE row[j][1] = row[k][1]
  <2>1. entry(j)[1] = entry(k)[1]
    OBVIOUS
  <2>2. entry(j) = entry(k)
    <3> HIDE DEF entry
    <3> QED BY <2>1, <1>2, <1>4
  <2>3. row[j][2] = row[k][2]
    BY <2>2
  <2> QED BY <2>3, <1>3 DEF IsRow
<1>6. Mn(row) \in Int
  <2>1. Mn(row) \in Symbols
    BY RowFacts
  <2> QED BY <2>1, SymbolsAre
<1>7. ofst \in Int
  BY <1>6
<1>8. \A j \in DOMAIN row : row[j][1] \in Int
  <2>1. \A j \in DOMAIN row : row[j][1] \in Lookaheads(row)
    BY DEF Lookaheads
  <2>2. Lookaheads(row) \subseteq Symbols
    BY RowFacts
  <2> QED BY <2>1, <2>2, SymbolsAre
<1>9. \A j \in DOMAIN row : entry(j) \in At(p, ofst)
  <2> TAKE j \in DOMAIN row
  <2>1. entry(j)[1] - entry(j)[2] = ofst
    BY <1>7, <1>8
  <2> QED BY <2>1, <1>2 DEF At
<1>10. f \in Injection(DOMAIN row, At(p, ofst))
  <2>1. f \in [DOMAIN row -> At(p, ofst)]
    BY <1>9
  <2>2. \A j, k \in DOMAIN row : f[j] = f[k] => j = k
    <3> TAKE j, k \in DOMAIN row
    <3>1. f[j] = entry(j) /\ f[k] = entry(k)
      OBVIOUS
    <3>2. entry(j)[2] = row[j][1] /\ entry(k)[2] = row[k][1]
      OBVIOUS
    <3> QED BY <3>1, <3>2, <1>5
  <2> HIDE DEF f
  <2> QED BY <2>1, <2>2 DEF Injection, IsInjective
<1>11. IsFiniteSet(p.aAction)
  <2>1. \A e \in p.aAction : e[1] \in 0 .. p.nAction - 1
    BY EntryFacts DEF TableOK
  <2>2. g \in Injection(p.aAction, 0 .. p.nAction - 1)
    <3>1. g \in [p.aAction -> 0 .. p.nAction - 1]
      BY <2>1
    <3>2. \A d, e \in p.aAction : g[d] = g[e] => d = e
      BY <1>4
    <3> HIDE DEF g
    <3> QED BY <3>1, <3>2 DEF Injection, IsInjective
  <2>3. 0 \in Int /\ p.nAction - 1 \in Int
    BY DEF TableOK
  <2>4. IsFiniteSet(0 .. p.nAction - 1)
    BY <2>3, FS_Interval
  <2> HIDE DEF g
  <2> QED BY <2>2, <2>4, FS_Injection
<1>12. IsFiniteSet(At(p, ofst))
  <2>1. At(p, ofst) \in SUBSET p.aAction
    BY DEF At
  <2> QED BY <2>1, <1>11, FS_Subset
<1>13. Cardinality(DOMAIN row) = Len(row)
  <2>1. Cardinality(1 .. Len(row)) = IF 1 > Len(row) THEN 0 ELSE Len(row) - 1 + 1
    BY <1>1, FS_Interval
  <2> QED BY <2>1, <1>1
<1>14. f \in Surjection(DOMAIN row, At(p, ofst))
  <2> HIDE DEF f, ofst
  <2> QED BY <1>10, <1>12, <1>13, <1>2, FS_Injection
<1>15. \A e \in At(p, ofst) : \E j \in DOMAIN row : e = entry(j)
  <2>1. \A e \in At(p, ofst) : \E j \in DOMAIN row : f[j] = e
    <3> HIDE DEF f, ofst
    <3> QED BY <1>14 DEF Surjection
  <2>2. \A j \in DOMAIN row : f[j] = entry(j)
    OBVIOUS
  <2> HIDE DEF f, entry, ofst
  <2> QED BY <2>1, <2>2
<1>16. \A e : e \in Written(row, ofst) <=> \E j \in DOMAIN row : e = entry(j)
  <2>1. \A k, l \in DOMAIN row : row[l][1] = row[k][1] => l <= k
    BY <1>5, <1>1
  <2> QED BY <2>1 DEF Written
<1> HIDE DEF entry, ofst
<1>17. At(p, ofst) = Written(row, ofst) /\ Written(row, ofst) \subseteq p.aAction
  BY ZenonT(60), <1>2, <1>9, <1>15, <1>16
<1> QED BY <1>17 DEF ofst

(* Inserting a row either writes nothing anew, or writes only into slots   *)
(* that were free.  A row of tokens gets an offset from which every token  *)
(* is a slot of the table.                                                 *)
LEMMA InsertFacts ==
    ASSUME NEW p, TableOK(p), NEW safe \in BOOLEAN, NEW row, IsRow(row, LookaheadsOf(safe)),
           NEW done, done = Insert(p, row, safe, NTerminal, NSymbol)
    PROVE  /\ TableOK(done.table) /\ done.ofst \in Int /\ p.nAction <= done.table.nAction
           /\ safe => /\ 0 <= done.ofst
                      /\ done.ofst + Mn(row) + NTerminal + 1 <= done.table.nAction
           /\ \/ /\ done.table.aAction = p.aAction
                 /\ At(p, done.ofst) = Written(row, done.ofst)
              \/ /\ done.table.aAction = p.aAction \cup Written(row, done.ofst)
                 /\ \A e \in Written(row, done.ofst) : e[1] \notin Slots(p)
                 /\ \/ At(p, done.ofst) = {}
                    \/ p.nAction + NSymbol + 1 <= done.ofst + Mn(row) + Mx(row)
<1> DEFINE i == Place(p, row, safe, NSymbol)
           ofst == i - Mn(row)
           new == Written(row, ofst)
           slots == {e[1] : e \in new}
           last == MaxOf({p.nAction, ofst + Mx(row) + 1})
           nAction == IF safe /\ i + NTerminal >= last THEN i + NTerminal + 1 ELSE last
           aAction == {e \in p.aAction : e[1] \notin slots} \cup new
<1>1. /\ done.ofst = ofst /\ done.table.nAction = nAction
      /\ done.table.nActionAlloc = Alloc(p, NSymbol) /\ done.table.aAction = aAction
  BY DEF Insert
<1>2. LookaheadsOf(safe) \in SUBSET Symbols
  BY DEF LookaheadsOf, Symbols
<1>3. /\ Lookaheads(row) \subseteq Symbols
      /\ Mn(row) \in Int /\ Mx(row) \in Int /\ 0 <= Mn(row) /\ Mn(row) <= Mx(row)
      /\ \A la \in Lookaheads(row) : la \in Int /\ Mn(row) <= la /\ la <= Mx(row)
      /\ \A j \in DOMAIN row : row[j][1] \in Lookaheads(row) /\ row[j][2] \in Numbers
  <2>1. Lookaheads(row) \subseteq Symbols /\ Mn(row) \in Symbols /\ Mx(row) \in Symbols
    BY <1>2, RowFacts
  <2>2. \A la \in Lookaheads(row) : la \in Int
    BY <2>1, SymbolsAre
  <2>3. \A j \in DOMAIN row : row[j][1] \in Lookaheads(row)
    BY DEF Lookaheads
  <2> QED BY <1>2, <2>1, <2>2, <2>3, RowFacts, SymbolsAre
<1>4. /\ i \in Nat /\ (safe => Mn(row) <= i)
      /\ \A la \in Lookaheads(row) : i - Mn(row) + la < Alloc(p, NSymbol)
      /\ \/ Same(p, row, i) /\ i < p.nAction
         \/ /\ \A la \in Lookaheads(row) : i - Mn(row) + la \notin Slots(p)
            /\ \/ At(p, i - Mn(row)) = {}
               \/ p.nAction + NSymbol + 1 <= i + Mx(row)
  BY PlaceFacts
<1>5. p.nAction \in Nat /\ Alloc(p, NSymbol) \in Nat /\ p.nActionAlloc <= Alloc(p, NSymbol)
      /\ p.nActionAlloc \in Nat
  BY AllocFacts DEF TableOK
<1> HIDE DEF i
<1>6. ofst \in Int /\ i = ofst + Mn(row)
  BY <1>3, <1>4
<1>7. last \in Int /\ p.nAction <= last /\ ofst + Mx(row) + 1 <= last
  <2>1. p.nAction \in Int /\ ofst + Mx(row) + 1 \in Int
    BY <1>3, <1>5, <1>6
  <2> QED BY <2>1, MaxOfPair
<1> HIDE DEF ofst, last
<1>8. nAction \in Nat /\ last <= nAction /\ (safe => i + NTerminal + 1 <= nAction)
  BY <1>7, <1>4, <1>5, Sizes
<1>9. \A e \in new : /\ e[1] = ofst + e[2] /\ e[2] \in Lookaheads(row) /\ e[3] \in Numbers
                     /\ e = <<e[1], e[2], e[3]>>
  <2> TAKE e \in new
  <2>1. PICK j \in DOMAIN row : e = <<ofst + row[j][1], row[j][1], row[j][2]>>
    BY ZenonT(60), <1>2, <1>6, WrittenFacts
  <2> QED BY <2>1, <1>3
<1>10. \A d, e \in new : d[1] = e[1] => d = e
  BY <1>2, <1>6, WrittenFacts
<1>11. \A e \in new : e[1] < Alloc(p, NSymbol)
  <2> TAKE e \in new
  <2>1. ofst + e[2] < Alloc(p, NSymbol)
    BY <1>4, <1>9 DEF ofst
  <2> QED BY <2>1, <1>9
<1> HIDE DEF new, slots, nAction
<1>12. CASE Same(p, row, i) /\ i < p.nAction
  <2>1. At(p, ofst) = new /\ new \subseteq p.aAction
    <3>1. i \in Int /\ Same(p, row, i)
      BY <1>12, <1>4
    <3>2. /\ At(p, i - Mn(row)) = Written(row, i - Mn(row))
          /\ Written(row, i - Mn(row)) \subseteq p.aAction
      BY <3>1, <1>2, SameFacts
    <3> QED BY <3>2 DEF ofst, new
  <2>2. aAction = p.aAction
    <3>1. \A e \in p.aAction : e[1] \in slots => e \in new
      BY <2>1 DEF slots, TableOK
    <3> QED BY <3>1, <2>1
  <2>3. TableOK(done.table)
    <3>1. aAction \subseteq (0 .. nAction - 1) \X Symbols \X Numbers
      <4>1. 0 .. p.nAction - 1 \subseteq 0 .. nAction - 1
        BY <1>5, <1>7, <1>8
      <4> QED BY <4>1, <2>2 DEF TableOK
    <3>2. \A d, e \in aAction : d[1] = e[1] => d = e
      BY <2>2 DEF TableOK
    <3>3. \A e \in aAction : e[1] < Alloc(p, NSymbol)
      BY <2>2, <1>5, EntryFacts
    <3> QED BY <3>1, <3>2, <3>3, <1>1, <1>5, <1>8 DEF TableOK, Slots
  <2> QED BY <2>1, <2>2, <2>3, <1>1, <1>4, <1>6, <1>3, <1>5, <1>7, <1>8 DEF new
<1>13. CASE /\ \A la \in Lookaheads(row) : i - Mn(row) + la \notin Slots(p)
            /\ \/ At(p, i - Mn(row)) = {}
               \/ p.nAction + NSymbol + 1 <= i + Mx(row)
  <2>1. \A e \in new : e[1] \notin Slots(p)
    <3> TAKE e \in new
    <3>1. ofst + e[2] \notin Slots(p)
      BY <1>13, <1>9 DEF ofst
    <3> QED BY <3>1, <1>9
  <2>2. aAction = p.aAction \cup new
    BY <2>1 DEF slots, Slots
  <2>3. \A e \in new : 0 <= e[1]
    <3> TAKE e \in new
    <3>1. e[1] = i + (e[2] - Mn(row))
      BY <1>9, <1>3, <1>6
    <3> QED BY <3>1, <1>9, <1>3, <1>4
  <2>4. TableOK(done.table)
    <3>1. aAction \subseteq (0 .. nAction - 1) \X Symbols \X Numbers
      <4>1. 0 .. p.nAction - 1 \subseteq 0 .. nAction - 1
        BY <1>5, <1>7, <1>8
      <4>2. \A e \in new : e \in (0 .. nAction - 1) \X Symbols \X Numbers
        <5> TAKE e \in new
        <5>1. e[2] \in Symbols /\ e[3] \in Numbers /\ e = <<e[1], e[2], e[3]>>
          BY <1>9, <1>3
        <5>2. e[1] \in Int /\ e[1] <= nAction - 1
          BY <1>9, <1>3, <1>6, <1>7, <1>8
        <5> QED BY <5>1, <5>2, <2>3, <1>8
      <4> QED BY <4>1, <4>2, <2>2 DEF TableOK
    <3>2. \A d, e \in aAction : d[1] = e[1] => d = e
      BY <2>1, <2>2, <1>10 DEF TableOK, Slots
    <3>3. \A e \in aAction : e[1] < Alloc(p, NSymbol)
      BY <2>2, <1>5, <1>11, EntryFacts
    <3> QED BY <3>1, <3>2, <3>3, <1>1, <1>5, <1>8 DEF TableOK, Slots
  <2>5. At(p, ofst) = {} \/ p.nAction + NSymbol + 1 <= ofst + Mn(row) + Mx(row)
    BY <1>13, <1>6 DEF ofst
  <2> QED BY <2>1, <2>2, <2>4, <2>5, <1>1, <1>4, <1>6, <1>3, <1>5, <1>7, <1>8 DEF new
<1> QED BY <1>4, <1>12, <1>13

-----------------------------------------------------------------------------
(* What a row that has been placed is. *)
PlacedOK(q) ==
    /\ q.safe \in BOOLEAN
    /\ IsRow(q.row, LookaheadsOf(q.safe))
    /\ q.row \in TokenRows \cup NtRows
    /\ q.ofst \in Int

(* A row of tokens leaves room for every token behind the largest slot at  *)
(* which its smallest lookahead may be.                                    *)
HasRoom(q, p) == q.safe => 0 <= q.ofst /\ q.ofst + Mn(q.row) + NTerminal + 1 <= p.nAction

(* An entry for a token is found from the offset of a row of tokens. *)
Owned(e) == e[2] \in Tokens => \E n \in DOMAIN placed : placed[n].safe /\ placed[n].ofst = e[1] - e[2]

IInv ==
    /\ TableOK(acttab)
    /\ placed \in Seq([row : TokenRows \cup NtRows, safe : BOOLEAN, ofst : Int])
    /\ \A n \in DOMAIN placed : PlacedOK(placed[n]) /\ HasRoom(placed[n], acttab)
    /\ \A e \in acttab.aAction : Owned(e)
    /\ RowsFound

LEMMA InitInv == Init => IInv
<1> SUFFICES ASSUME Init PROVE IInv
  OBVIOUS
<1>1. acttab.aAction = {} /\ acttab.nAction = 0 /\ acttab.nActionAlloc = 0 /\ placed = <<>>
  BY DEF Init, EmptyTable
<1>2. TableOK(acttab)
  BY <1>1 DEF TableOK, Slots
<1>3. DOMAIN placed = {} /\ placed \in Seq([row : TokenRows \cup NtRows, safe : BOOLEAN, ofst : Int])
  BY <1>1
<1> QED BY <1>1, <1>2, <1>3 DEF IInv, RowsFound

(* What one row finds, in a table of which only the entries matter. *)
FoundIn(A, q) == {<<e[2], e[3]>> : e \in {d \in A : d[1] - d[2] = q.ofst /\ d[2] \in Asked(q)}}

LEMMA FoundIsFoundIn ==
    /\ \A q : Found(q) = FoundIn(acttab.aAction, q)
    /\ \A n : Found(placed[n])' = FoundIn(acttab'.aAction, placed'[n])
BY DEF Found, FoundIn, At, Asked, Tokens, Lookaheads

(* Every row means something. *)
LEMMA MeantFacts ==
    ASSUME NEW q, PlacedOK(q), NEW la \in Lookaheads(q.row)
    PROVE  \E x \in Meant(q.row) : x[1] = la
<1>1. LookaheadsOf(q.safe) \in SUBSET Symbols
  BY DEF LookaheadsOf, Symbols
<1>2. IsRow(q.row, LookaheadsOf(q.safe)) /\ 0 \in Int
  BY DEF PlacedOK
<1>3. PICK e \in Written(q.row, 0) : e[2] = la
  BY ZenonT(60), <1>1, <1>2, WrittenFacts
<1>4. <<e[2], e[3]>> \in Meant(q.row)
  BY DEF Meant
<1> QED BY <1>3, <1>4

(* Where the search has given up, the offset lies beyond that of any row   *)
(* of tokens: this is what the room in HasRoom is for.                     *)
LEMMA BeyondTheRest ==
    ASSUME NEW q, PlacedOK(q), NEW p, p.nAction \in Nat, HasRoom(q, p), q.safe,
           NEW row, IsRow(row, Tokens)
    PROVE  q.ofst + Mn(row) + Mx(row) < p.nAction + NSymbol + 1
<1>1. Tokens \in SUBSET Symbols /\ LookaheadsOf(q.safe) = Tokens
  BY DEF Symbols, LookaheadsOf
<1>2. IsRow(q.row, Tokens) /\ q.ofst \in Int
  BY <1>1 DEF PlacedOK
<1>3. \A la \in Tokens : la \in Int /\ 0 <= la /\ la <= NTerminal - 1
  BY Sizes DEF Tokens
<1>4. Mn(q.row) \in Tokens /\ Mn(row) \in Tokens /\ Mx(row) \in Tokens
  <2>1. Mn(q.row) \in Tokens
    BY <1>1, <1>2, RowFacts
  <2>2. Mn(row) \in Tokens /\ Mx(row) \in Tokens
    BY <1>1, RowFacts
  <2> QED BY <2>1, <2>2
<1>5. q.ofst + Mn(q.row) + NTerminal + 1 <= p.nAction
  BY DEF HasRoom
<1> QED BY <1>2, <1>3, <1>4, <1>5, Sizes

LEMMA InsertInv ==
    ASSUME IInv, NEW safe \in BOOLEAN, NEW row \in TokenRows \cup NtRows,
           IsRow(row, LookaheadsOf(safe)), InsertRow(row, safe)
    PROVE  /\ IInv'
           /\ [n \in DOMAIN placed |-> Found(placed[n])]'
                 = Append([n \in DOMAIN placed |-> Found(placed[n])], Meant(row))
<1> DEFINE done == Insert(acttab, row, safe, NTerminal, NSymbol)
           q == [row |-> row, safe |-> safe, ofst |-> done.ofst]
           new == Written(row, done.ofst)
           A == acttab.aAction
           m == Len(placed) + 1
<1>1. acttab' = done.table /\ placed' = Append(placed, q)
  BY DEF InsertRow
<1>2. /\ TableOK(acttab)
      /\ \A n \in DOMAIN placed : PlacedOK(placed[n]) /\ HasRoom(placed[n], acttab)
      /\ \A e \in A : Owned(e)
      /\ \A n \in DOMAIN placed : FoundIn(A, placed[n]) = Meant(placed[n].row)
  BY FoundIsFoundIn DEF IInv, RowsFound
<1>3. /\ TableOK(done.table) /\ done.ofst \in Int /\ acttab.nAction <= done.table.nAction
      /\ safe => /\ 0 <= done.ofst
                 /\ done.ofst + Mn(row) + NTerminal + 1 <= done.table.nAction
      /\ \/ /\ done.table.aAction = A
            /\ At(acttab, done.ofst) = new
         \/ /\ done.table.aAction = A \cup new
            /\ \A e \in new : e[1] \notin Slots(acttab)
            /\ \/ At(acttab, done.ofst) = {}
               \/ acttab.nAction + NSymbol + 1 <= done.ofst + Mn(row) + Mx(row)
  <2> HIDE DEF done
  <2>1. TableOK(acttab)
    BY <1>2
  <2>2. done = Insert(acttab, row, safe, NTerminal, NSymbol)
    BY DEF done
  <2> QED BY SMTT(30), <2>1, <2>2, InsertFacts
<1> HIDE DEF done
<1>4. /\ placed \in Seq([row : TokenRows \cup NtRows, safe : BOOLEAN, ofst : Int])
      /\ q \in [row : TokenRows \cup NtRows, safe : BOOLEAN, ofst : Int]
  BY <1>3 DEF IInv
<1>5. /\ placed' \in Seq([row : TokenRows \cup NtRows, safe : BOOLEAN, ofst : Int])
      /\ DOMAIN placed = 1 .. Len(placed) /\ DOMAIN placed' = 1 .. m /\ m \in Nat
      /\ \A n \in DOMAIN placed : placed'[n] = placed[n]
      /\ placed'[m] = q
  BY <1>1, <1>4
<1>6. DOMAIN placed' = DOMAIN placed \cup {m} /\ m \notin DOMAIN placed
  BY <1>4, <1>5
<1>7. PlacedOK(q) /\ HasRoom(q, done.table)
  BY <1>3 DEF PlacedOK, HasRoom
<1>8. \A n \in DOMAIN placed : HasRoom(placed[n], done.table)
  <2> TAKE n \in DOMAIN placed
  <2>1. PlacedOK(placed[n]) /\ HasRoom(placed[n], acttab)
    BY <1>2
  <2>2. Mn(placed[n].row) \in Int
    <3>1. LookaheadsOf(placed[n].safe) \in SUBSET Symbols
      BY DEF LookaheadsOf, Symbols
    <3>2. Mn(placed[n].row) \in Symbols
      BY ZenonT(60), <3>1, <2>1, RowFacts DEF PlacedOK
    <3> QED BY <3>2, SymbolsAre
  <2>3. acttab.nAction \in Nat /\ done.table.nAction \in Nat /\ acttab.nAction <= done.table.nAction
    BY <1>2, <1>3 DEF TableOK
  <2> QED BY <2>1, <2>2, <2>3, Sizes DEF HasRoom, PlacedOK
<1>9. /\ \A e \in new : e[1] = done.ofst + e[2] /\ e[2] \in Lookaheads(row) /\ e[2] \in Int
      /\ \A la \in Lookaheads(row) : \E e \in new : e[2] = la
      /\ \A x : x \in Meant(row) <=> \E e \in new : x = <<e[2], e[3]>>
      /\ Lookaheads(row) \subseteq LookaheadsOf(safe)
  <2>1. LookaheadsOf(safe) \in SUBSET Symbols
    BY DEF LookaheadsOf, Symbols
  <2>2. Lookaheads(row) \subseteq LookaheadsOf(safe)
    BY <2>1, RowFacts
  <2>3. \A e \in new : e[1] = done.ofst + e[2] /\ e[2] \in Lookaheads(row)
    <3>1. done.ofst \in Int
      BY <1>3
    <3>2. \A e \in new : \E j \in DOMAIN row :
             e = <<done.ofst + row[j][1], row[j][1], row[j][2]>>
      BY <2>1, <3>1, WrittenFacts
    <3>3. \A j \in DOMAIN row : row[j][1] \in Lookaheads(row)
      BY DEF Lookaheads
    <3> HIDE DEF new
    <3> QED BY <3>2, <3>3
  <2>4. \A la \in Lookaheads(row) : la \in Int
    BY <2>1, <2>2, SymbolsAre
  <2>5. /\ \A la \in Lookaheads(row) : \E e \in new : e[2] = la
        /\ \A x : x \in Meant(row) <=> \E e \in new : x = <<e[2], e[3]>>
    BY <2>1, <1>3, WrittenFacts
  <2> QED BY <2>2, <2>3, <2>4, <2>5
<1>10. \A e \in A : e[1] \in Int /\ e[2] \in Int /\ e[2] \in Symbols
  BY <1>2, EntryFacts
<1> HIDE DEF new, A, q, m
<1>11. \A la \in LookaheadsOf(safe) : la \in Tokens => safe
  BY Sizes DEF LookaheadsOf, Tokens, Nonterminals
<1>12. ASSUME NEW n \in DOMAIN placed, placed[n].safe, safe, placed[n].ofst = done.ofst
       PROVE  At(acttab, done.ofst) = {} \/ done.table.aAction = A
  <2>1. IsRow(row, Tokens)
    BY <1>12 DEF LookaheadsOf
  <2>2. acttab.nAction \in Nat /\ PlacedOK(placed[n]) /\ HasRoom(placed[n], acttab)
    BY <1>2 DEF TableOK
  <2>3. done.ofst + Mn(row) + Mx(row) < acttab.nAction + NSymbol + 1
    BY <2>1, <2>2, <1>12, BeyondTheRest
  <2>4. ~ (acttab.nAction + NSymbol + 1 <= done.ofst + Mn(row) + Mx(row))
    <3>1. Mn(row) \in Tokens /\ Mx(row) \in Tokens /\ Tokens \subseteq Int
      <4>1. Tokens \in SUBSET Symbols
        BY DEF Symbols
      <4>2. Mn(row) \in Tokens /\ Mx(row) \in Tokens
        BY <2>1, <4>1, RowFacts
      <4> QED BY <4>2, Sizes DEF Tokens
    <3>2. done.ofst \in Int /\ NSymbol \in Int /\ Mn(row) \in Int /\ Mx(row) \in Int
      <4>1. done.ofst \in Int
        BY <1>3
      <4>2. NSymbol \in Int
        BY Sizes
      <4> QED BY <3>1, <4>1, <4>2
    <3> QED BY <3>2, <2>2, <2>3
  <2> QED BY <2>4, <1>3
<1>13. ASSUME NEW n \in DOMAIN placed
       PROVE  FoundIn(done.table.aAction, placed[n]) = FoundIn(A, placed[n])
  <2>1. CASE done.table.aAction = A
    BY <2>1
  <2>2. CASE /\ done.table.aAction = A \cup new
             /\ \A e \in new : e[1] \notin Slots(acttab)
             /\ done.table.aAction # A
    <3>1. ASSUME NEW e \in new, e[1] - e[2] = placed[n].ofst, e[2] \in Asked(placed[n])
          PROVE  FALSE
      <4>1. placed[n].ofst = done.ofst /\ PlacedOK(placed[n])
        BY <3>1, <1>2, <1>3, <1>9
      <4>2. CASE placed[n].safe
        <5>1. safe
          BY <4>2, <3>1, <1>9, <1>11 DEF Asked
        <5>2. At(acttab, done.ofst) = {}
          BY <5>1, <4>1, <4>2, <2>2, <1>12
        <5>3. Mn(placed[n].row) \in Lookaheads(placed[n].row)
          <6>1. LookaheadsOf(placed[n].safe) \in SUBSET Symbols
            BY DEF LookaheadsOf, Symbols
          <6> QED BY <6>1, <4>1, RowFacts DEF PlacedOK
        <5>4. PICK x \in Meant(placed[n].row) : TRUE
          BY <5>3, <4>1, MeantFacts
        <5>5. x \in FoundIn(A, placed[n])
          BY <5>4, <1>2
        <5>6. PICK d \in A : d[1] - d[2] = placed[n].ofst
          BY <5>5 DEF FoundIn
        <5>7. d \in At(acttab, done.ofst)
          BY <5>6, <4>1 DEF At, A
        <5> QED BY <5>2, <5>7
      <4>3. CASE ~ placed[n].safe
        <5>1. e[2] \in Lookaheads(placed[n].row)
          BY <3>1, <4>3 DEF Asked
        <5>2. PICK x \in Meant(placed[n].row) : x[1] = e[2]
          BY <5>1, <4>1, MeantFacts
        <5>3. x \in FoundIn(A, placed[n])
          BY <5>2, <1>2
        <5>4. PICK d \in A : d[1] - d[2] = placed[n].ofst /\ x = <<d[2], d[3]>>
          BY <5>3 DEF FoundIn
        <5>5. d[1] = e[1]
          BY <5>2, <5>4, <4>1, <1>3, <1>9, <1>10
        <5> QED BY <5>5, <2>2 DEF Slots, A
      <4> QED BY <4>2, <4>3
    <3> QED BY <3>1, <2>2 DEF FoundIn
  <2> QED BY <2>1, <2>2, <1>3
<1>14. FoundIn(done.table.aAction, q) = Meant(row)
  <2>1. q.ofst = done.ofst /\ q.safe = safe /\ q.row = row
    BY DEF q
  <2>2. \A la \in Lookaheads(row) : la \in Asked(q)
    BY <2>1, <1>9 DEF Asked, LookaheadsOf
  <2>3. {d \in done.table.aAction : d[1] - d[2] = q.ofst /\ d[2] \in Asked(q)} = new
    <3>1. CASE done.table.aAction = A /\ At(acttab, done.ofst) = new
      BY <3>1, <2>1, <2>2, <1>9 DEF At, A
    <3>2. CASE /\ done.table.aAction = A \cup new
               /\ \A e \in new : e[1] \notin Slots(acttab)
               /\ done.table.aAction # A
      <4>1. ASSUME NEW d \in A, d[1] - d[2] = q.ofst, d[2] \in Asked(q)
            PROVE  FALSE
        <5>1. At(acttab, done.ofst) # {}
          BY <4>1, <2>1 DEF At, A
        <5>2. CASE safe
          <6>1. d[2] \in Tokens
            BY <5>2, <4>1, <2>1 DEF Asked
          <6>2. PICK n \in DOMAIN placed : placed[n].safe /\ placed[n].ofst = d[1] - d[2]
            BY <6>1, <1>2 DEF Owned
          <6> QED BY <6>2, <5>1, <5>2, <4>1, <3>2, <2>1, <1>12
        <5>3. CASE ~ safe
          <6>1. d[2] \in Lookaheads(row)
            BY <5>3, <4>1, <2>1 DEF Asked
          <6>2. PICK e \in new : e[2] = d[2]
            BY <6>1, <1>9
          <6>3. d[1] = e[1]
            BY <6>2, <4>1, <2>1, <1>3, <1>9, <1>10
          <6> QED BY <6>3, <3>2 DEF Slots, A
        <5> QED BY <5>2, <5>3
      <4>2. \A e \in new : e[1] - e[2] = q.ofst /\ e[2] \in Asked(q)
        BY <2>1, <2>2, <1>3, <1>9
      <4> QED BY <4>1, <4>2, <3>2
    <3>3. CASE done.table.aAction = A /\ done.table.aAction = A \cup new
               /\ \A e \in new : e[1] \notin Slots(acttab)
      <4>1. \A e \in new : e[1] \in Slots(acttab)
        BY <3>3 DEF Slots, A
      <4>2. Mn(row) \in Lookaheads(row)
        <5>1. LookaheadsOf(safe) \in SUBSET Symbols
          BY DEF LookaheadsOf, Symbols
        <5> QED BY <5>1, RowFacts
      <4> QED BY <4>1, <4>2, <3>3, <1>9
    <3> QED BY <3>1, <3>2, <3>3, <1>3
  <2> QED BY <2>3, <1>9 DEF FoundIn
<1>15. \A n \in DOMAIN placed' : Found(placed[n])' = FoundIn(done.table.aAction, placed'[n])
  BY <1>1, FoundIsFoundIn
<1>16. RowsFound'
  <2>1. \A n \in DOMAIN placed' : FoundIn(done.table.aAction, placed'[n]) = Meant(placed'[n].row)
    <3> TAKE n \in DOMAIN placed'
    <3>1. CASE n \in DOMAIN placed
      BY <3>1, <1>2, <1>5, <1>13
    <3>2. CASE n = m
      BY <3>2, <1>5, <1>14 DEF q
    <3> QED BY <3>1, <3>2, <1>6
  <2>2. (\A n \in DOMAIN placed : Found(placed[n]) = Meant(placed[n].row))'
        <=> \A n \in DOMAIN placed' : Found(placed[n])' = Meant(placed'[n].row)
    BY DEF Meant, Written
  <2> QED BY <2>1, <2>2, <1>15 DEF RowsFound
<1>17. \A e \in acttab'.aAction : Owned(e)'
  <2> SUFFICES ASSUME NEW e \in acttab'.aAction, e[2] \in Tokens
               PROVE  \E n \in DOMAIN placed' : placed'[n].safe /\ placed'[n].ofst = e[1] - e[2]
    BY DEF Owned, Tokens
  <2>1. CASE e \in A
    <3>1. PICK n \in DOMAIN placed : placed[n].safe /\ placed[n].ofst = e[1] - e[2]
      BY <2>1, <1>2 DEF Owned
    <3> QED BY <3>1, <1>5, <1>6
  <2>2. CASE e \in new
    <3>1. safe
      BY <2>2, <1>9, <1>11
    <3>2. e[1] - e[2] = done.ofst
      BY <2>2, <1>3, <1>9
    <3>3. placed'[m].safe /\ placed'[m].ofst = done.ofst
      BY <3>1, <1>5 DEF q
    <3> QED BY <3>2, <3>3, <1>6
  <2> QED BY <2>1, <2>2, <1>1, <1>3
<1>18. (\A n \in DOMAIN placed : PlacedOK(placed[n]) /\ HasRoom(placed[n], acttab))'
  <2>1. \A n \in DOMAIN placed' : PlacedOK(placed'[n]) /\ HasRoom(placed'[n], acttab')
    BY <1>1, <1>2, <1>5, <1>6, <1>7, <1>8
  <2> QED BY <2>1
<1>19. IInv'
  BY <1>1, <1>3, <1>5, <1>16, <1>17, <1>18 DEF IInv
<1>20. [n \in DOMAIN placed |-> Found(placed[n])]'
          = Append([n \in DOMAIN placed |-> Found(placed[n])], Meant(row))
  <2> DEFINE old == [n \in DOMAIN placed |-> Found(placed[n])]
             fresh == [n \in DOMAIN placed' |-> FoundIn(done.table.aAction, placed'[n])]
  <2>1. [n \in DOMAIN placed |-> Found(placed[n])]' = fresh
    <3>1. [n \in DOMAIN placed |-> Found(placed[n])]' = [n \in DOMAIN placed' |-> Found(placed[n])']
      OBVIOUS
    <3> QED BY <3>1, <1>15
  <2>2. old \in Seq({Found(placed[n]) : n \in DOMAIN placed}) /\ Len(old) = Len(placed)
    BY <1>4, <1>5
  <2>3. DOMAIN Append(old, Meant(row)) = 1 .. m
    BY <2>2 DEF m
  <2>4. \A n \in DOMAIN placed : Append(old, Meant(row))[n] = old[n]
    BY <2>2, <1>5
  <2>5. Append(old, Meant(row))[m] = Meant(row)
    BY <2>2 DEF m
  <2>6. \A n \in 1 .. m : fresh[n] = Append(old, Meant(row))[n]
    <3> TAKE n \in 1 .. m
    <3>1. fresh[n] = FoundIn(done.table.aAction, placed'[n])
      BY <1>5
    <3>2. CASE n \in DOMAIN placed
      <4>1. fresh[n] = FoundIn(A, placed[n])
        BY <3>1, <3>2, <1>5, <1>13
      <4>2. old[n] = FoundIn(A, placed[n])
        BY <3>2, FoundIsFoundIn DEF A
      <4> HIDE DEF old, fresh
      <4> QED BY <4>1, <4>2, <3>2, <2>4
    <3>3. CASE n = m
      <4>1. fresh[n] = Meant(row)
        BY <3>1, <3>3, <1>5, <1>14
      <4> HIDE DEF old, fresh
      <4> QED BY <4>1, <3>3, <2>5
    <3> QED BY <3>2, <3>3, <1>5, <1>6
  <2>7. DOMAIN fresh = 1 .. m
    BY <1>5
  <2> DEFINE T == {Found(placed[n]) : n \in DOMAIN placed} \cup {Meant(row)}
  <2>8. Append(old, Meant(row)) \in Seq(T)
    <3>1. old \in Seq(T) /\ Meant(row) \in T
      BY <1>4, <1>5
    <3> HIDE DEF old, T
    <3> QED BY <3>1
  <2>9. fresh = Append(old, Meant(row))
    <3>1. fresh = [n \in 1 .. m |-> fresh[n]]
      BY <2>7
    <3> HIDE DEF old, fresh, T
    <3> DEFINE g == Append(old, Meant(row))
    <3>2. g \in Seq(T) /\ DOMAIN g = 1 .. m
      BY <2>3, <2>8
    <3>3. \A n \in 1 .. m : fresh[n] = g[n]
      BY <2>6
    <3> HIDE DEF g
    <3>4. g \in [1 .. Len(g) -> T]
      BY <3>2, LenProperties
    <3>5. 1 .. Len(g) = 1 .. m
      BY <3>2
    <3>6. g = [n \in 1 .. m |-> g[n]]
      BY <3>4, <3>5
    <3> QED BY <3>1, <3>3, <3>6 DEF g
  <2> QED BY <2>1, <2>9
<1> QED BY <1>19, <1>20

-----------------------------------------------------------------------------
(* IInv is inductive: whatever the rows are, entering one breaks nothing   *)
(* of it.                                                                  *)
LEMMA StepInv ==
    ASSUME IInv, Next
    PROVE  /\ IInv'
           /\ \E row \in TokenRows \cup NtRows :
                 [n \in DOMAIN placed |-> Found(placed[n])]'
                    = Append([n \in DOMAIN placed |-> Found(placed[n])], Meant(row))
<1>1. CASE \E row \in TokenRows : InsertRow(row, TRUE)
  <2>1. PICK row \in TokenRows : InsertRow(row, TRUE)
    BY <1>1
  <2>2. IsRow(row, LookaheadsOf(TRUE))
    BY PackedTableAssumption DEF LookaheadsOf
  <2> QED BY <2>1, <2>2, InsertInv
<1>2. CASE \E row \in NtRows : InsertRow(row, FALSE)
  <2>1. PICK row \in NtRows : InsertRow(row, FALSE)
    BY <1>2
  <2>2. IsRow(row, LookaheadsOf(FALSE))
    BY PackedTableAssumption DEF LookaheadsOf
  <2> QED BY <2>1, <2>2, InsertInv
<1> QED BY <1>1, <1>2 DEF Next

LEMMA StutterInv ==
    ASSUME IInv, UNCHANGED packVars
    PROVE  /\ IInv'
           /\ [n \in DOMAIN placed |-> Found(placed[n])]' = [n \in DOMAIN placed |-> Found(placed[n])]
<1>1. acttab' = acttab /\ placed' = placed
  BY DEF packVars
<1> QED BY SMTT(30), <1>1 DEF IInv, TableOK, Slots, PlacedOK, HasRoom, Owned, RowsFound, Found, At, Asked,
                    Meant, Written

(* The invariant from which the theorems below follow. *)
THEOREM InductiveInvariant == Spec => []IInv
<1>1. IInv /\ [Next]_packVars => IInv'
  BY StepInv, StutterInv
<1> QED BY <1>1, InitInv, PTL DEF Spec

(* The state has its types: all slots used are below nAction.              *)
THEOREM TypeCorrect == Spec => []TypeOK
<1>1. IInv => TypeOK
  BY DEF IInv, TableOK, TypeOK, Symbols
<1> QED BY <1>1, InductiveInvariant, PTL

(* Every row is found as it was entered, whatever was entered before and   *)
(* after it.                                                               *)
THEOREM FoundAsEntered == Spec => []RowsFound
<1>1. IInv => RowsFound
  BY DEF IInv
<1> QED BY <1>1, InductiveInvariant, PTL

(* A lookup of any token in any row of tokens stays within the table.      *)
THEOREM LookupsStayInTable == Spec => []TokensInTable
<1>1. ASSUME IInv PROVE TokensInTable
  <2>1. TableOK(acttab)
    BY <1>1 DEF IInv
  <2>2. ASSUME NEW n \in DOMAIN placed, placed[n].safe, NEW t \in Tokens
        PROVE  placed[n].ofst + t \in 0 .. acttab.nAction - 1
    <3>1. PlacedOK(placed[n]) /\ HasRoom(placed[n], acttab)
      BY <1>1 DEF IInv
    <3>2. LookaheadsOf(TRUE) = Tokens /\ Tokens \in SUBSET Symbols
      BY DEF LookaheadsOf, Symbols
    <3>3. IsRow(placed[n].row, Tokens) /\ placed[n].ofst \in Int
      BY <2>2, <3>1, <3>2 DEF PlacedOK
    <3>4. Mn(placed[n].row) \in Tokens
      BY <3>2, <3>3, RowFacts
    <3>5. /\ t \in Int /\ 0 <= t /\ t <= NTerminal - 1
          /\ Mn(placed[n].row) \in Int /\ 0 <= Mn(placed[n].row)
      BY <3>4, Sizes DEF Tokens
    <3>6. /\ 0 <= placed[n].ofst
          /\ placed[n].ofst + Mn(placed[n].row) + NTerminal + 1 <= acttab.nAction
      BY <2>2, <3>1 DEF HasRoom
    <3>7. acttab.nAction \in Nat
      BY <2>1 DEF TableOK
    <3> QED BY <3>3, <3>5, <3>6, <3>7, Sizes
  <2> QED BY <2>1, <2>2 DEF TokensInTable, TableOK
<1> QED BY <1>1, InductiveInvariant, PTL

(* The packed table implements the map of ActionMap: a row that is         *)
(* inserted is a row that the map gets, and no other row of the map        *)
(* changes.                                                                *)
THEOREM PackingImplementsMap == Spec => RefinesMap
<1>1. Init => Map!Init
  <2> SUFFICES ASSUME Init PROVE [n \in DOMAIN placed |-> Found(placed[n])] = <<>>
    BY DEF Map!Init
  <2> QED BY DEF Init
<1>2. IInv /\ [Next]_packVars => [Map!Next]_([n \in DOMAIN placed |-> Found(placed[n])])
  <2> SUFFICES ASSUME IInv, [Next]_packVars
               PROVE  [Map!Next]_([n \in DOMAIN placed |-> Found(placed[n])])
    OBVIOUS
  <2>1. CASE Next
    <3>1. Map!Next
      BY <2>1, StepInv DEF Map!Next, Map!Enter
    <3> QED BY <3>1
  <2>2. CASE UNCHANGED packVars
    BY <2>2, StutterInv
  <2> QED BY <2>1, <2>2
<1> QED BY <1>1, <1>2, InductiveInvariant, PTL DEF Spec, RefinesMap, Map!Spec
=============================================================================

---------------------------- MODULE ActionTable ----------------------------
(***************************************************************************)
(* The acttab of lemon.c, in which the rows of all states are packed over  *)
(* one another: a set of entries <<slot, lookahead, action>>, at most one  *)
(* for each slot.  An entry is found from the offset slot - lookahead of   *)
(* its row.  A row is a sequence of <<lookahead, action>>.                 *)
(***************************************************************************)
EXTENDS Integers, Sequences, FiniteSets

CONSTANT Growth     \* slots allocated beyond what an insertion may need: 20

ASSUME GrowthAssumption == Growth \in Nat

EmptyTable == [nAction |-> 0, nActionAlloc |-> 0, aAction |-> {}]

MaxOf(S) == CHOOSE x \in S : \A y \in S : y <= x
MinOf(S) == CHOOSE x \in S : \A y \in S : x <= y

Lookaheads(row) == {row[j][1] : j \in DOMAIN row}

(* acttab_action: mnLookahead, mxLookahead and mnAction of the row. *)
Mn(row) == MinOf(Lookaheads(row))
Mx(row) == MaxOf(Lookaheads(row))

Slots(p) == {e[1] : e \in p.aAction}

(* The entries that an offset finds. *)
At(p, ofst) == {e \in p.aAction : e[1] - e[2] = ofst}

(* A row is in the table already, with its smallest lookahead at slot i.   *)
Same(p, row, i) ==
    LET ofst == i - Mn(row)
    IN  /\ \A j \in DOMAIN row : <<ofst + row[j][1], row[j][1], row[j][2]>> \in p.aAction
        /\ Cardinality(At(p, ofst)) = Len(row)

\* Mistake: free slots are enough.
FitsSlots(p, row, i) ==
    {i - Mn(row) + la : la \in Lookaheads(row)} \cap Slots(p) = {}

(* A row fits at slot i: its slots are free, and its offset finds no entry *)
(* of another row.  (A free slot has the lookahead -1: the code takes one  *)
(* at ofst - 1 for such an entry.)                                         *)
Fits(p, row, i) ==
    LET ofst == i - Mn(row)
    IN  /\ {ofst + la : la \in Lookaheads(row)} \cap Slots(p) = {}
        /\ At(p, ofst) = {}
        /\ ofst - 1 \in 0 .. p.nAction - 1 => ofst - 1 \in Slots(p)

(* acttab_insert: the slot of the smallest lookahead.  The loop for a hole *)
(* gives up at the end of the memory and takes the place it has reached.   *)
Alloc(p, nsymbol) ==
    IF p.nAction + nsymbol + 1 >= p.nActionAlloc
    THEN p.nAction + nsymbol + 1 + p.nActionAlloc + Growth ELSE p.nActionAlloc

\* Mistake: an offset may be negative for tokens too.
PlaceUnsafe(p, row, safe, nsymbol) ==
    LET same  == {i \in 0 .. p.nAction - 1 : Same(p, row, i)}
        limit == Alloc(p, nsymbol) - Mx(row)
        holes == {i \in 0 .. limit - 1 : Fits(p, row, i)}
    IN  IF same # {} THEN MaxOf(same) ELSE IF holes # {} THEN MinOf(holes) ELSE limit

Place(p, row, safe, nsymbol) ==
    LET end   == IF safe THEN Mn(row) ELSE 0
        same  == {i \in end .. p.nAction - 1 : Same(p, row, i)}
        limit == Alloc(p, nsymbol) - Mx(row)
        holes == {i \in end .. limit - 1 : Fits(p, row, i)}
    IN  IF same # {} THEN MaxOf(same)
        ELSE IF holes # {} THEN MinOf(holes) ELSE MaxOf({end, limit})

(* Of two actions for a lookahead the later one is written last. *)
Written(row, ofst) ==
    {<<ofst + row[j][1], row[j][1], row[j][2]>> :
        j \in {k \in DOMAIN row : \A l \in DOMAIN row : row[l][1] = row[k][1] => l <= k}}

Insert(p, row, safe, nterminal, nsymbol) ==
    LET i     == Place(p, row, safe, nsymbol)
        ofst  == i - Mn(row)
        new   == Written(row, ofst)
        last  == MaxOf({p.nAction, ofst + Mx(row) + 1})
        slots == {e[1] : e \in new}
    IN  [ofst |-> ofst,
         table |-> [nAction |-> IF safe /\ i + nterminal >= last THEN i + nterminal + 1 ELSE last,
                    nActionAlloc |-> Alloc(p, nsymbol),
                    aAction |-> {e \in p.aAction : e[1] \notin slots} \cup new]]

(* acttab_action_size: without the free slots at the end. *)
ActionSize(p) == IF p.aAction = {} THEN 0 ELSE MaxOf(Slots(p)) + 1
=============================================================================

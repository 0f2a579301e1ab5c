---------------------------- MODULE PackedTable ----------------------------
(***************************************************************************)
(* The rows of a parser go one by one into the acttab of lemon.c, as       *)
(* ReportTable enters them: the largest first, the tokens of a state and   *)
(* its nonterminals in rows of their own, the former safely.  Rows here    *)
(* are whatever a state may have.                                          *)
(***************************************************************************)
EXTENDS ActionTable

CONSTANTS
    NTerminal,     \* the tokens are 0 .. NTerminal - 1
    NSymbol,       \* the nonterminals are NTerminal .. NSymbol - 1
    Numbers,       \* the action numbers
    TokenRows,     \* what a row of tokens may be
    NtRows,        \* what a row of nonterminals may be
    MaxRows        \* bound of the model on the rows

Tokens       == 0 .. NTerminal - 1
Nonterminals == NTerminal .. NSymbol - 1

(* A row has at least one action, and no action twice. *)
IsRow(row, S) ==
    /\ row \in Seq(S \X Numbers) /\ Len(row) > 0
    /\ \A j, k \in DOMAIN row : row[j] = row[k] => j = k

ASSUME PackedTableAssumption ==
    /\ NTerminal \in Nat /\ NSymbol \in Nat /\ NTerminal < NSymbol /\ MaxRows \in Nat
    /\ \A row \in TokenRows : IsRow(row, Tokens)
    /\ \A row \in NtRows : IsRow(row, Nonterminals)

VARIABLES
    acttab,
    placed      \* of each row: what it holds, whether of tokens, its offset

packVars == <<acttab, placed>>

(* The heuristic "of placing the largest action sets first". *)
InOrder(row) == \A n \in DOMAIN placed : Len(row) <= Len(placed[n].row)

InsertRow(row, safe) ==
    /\ Len(placed) < MaxRows /\ InOrder(row)
    /\ LET done == Insert(acttab, row, safe, NTerminal, NSymbol)
       IN  /\ acttab' = done.table
           /\ placed' = Append(placed, [row |-> row, safe |-> safe, ofst |-> done.ofst])

Init == acttab = EmptyTable /\ placed = <<>>

Next ==
    \/ \E row \in TokenRows : InsertRow(row, TRUE)
    \/ \E row \in NtRows : InsertRow(row, FALSE)

Spec == Init /\ [][Next]_packVars

-----------------------------------------------------------------------------
TypeOK ==
    /\ acttab.nAction \in Nat /\ acttab.nActionAlloc \in Nat
    /\ acttab.aAction \subseteq (0..acttab.nAction - 1) \X (Tokens \cup Nonterminals) \X Numbers

(* The symbols a parser may look up in a row: any token, but only those    *)
(* nonterminals for which the state has an action.                         *)
Asked(p) == IF p.safe THEN Tokens ELSE Lookaheads(p.row)

(* What a lookup finds: the table is read at ofst + symbol, and the        *)
(* lookahead found there is compared.                                      *)
Found(p) == {<<e[2], e[3]>> : e \in {d \in At(acttab, p.ofst) : d[2] \in Asked(p)}}

(* A row as a map: of two actions for a lookahead the later one. *)
Meant(row) == {<<e[2], e[3]>> : e \in Written(row, 0)}

(* No row, entered before or after, gets into the way of another: every    *)
(* row is found as it was entered.                                         *)
RowsFound == \A n \in DOMAIN placed : Found(placed[n]) = Meant(placed[n].row)

Map == INSTANCE ActionMap WITH
    map  <- [n \in DOMAIN placed |-> Found(placed[n])],
    Rows <- {Meant(row) : row \in TokenRows \cup NtRows}

(* The packed table is the map that the comment at lines 567-577 describes. *)
RefinesMap == Map!Spec

(* "it is impossible to overread the yy_lookaside[] table": whatever the   *)
(* token is, the slot read for a row of tokens is a slot of the table, and *)
(* no slot holds two entries or lies beyond the memory.                    *)
TokensInTable ==
    /\ \A n \in DOMAIN placed :
          placed[n].safe => \A t \in Tokens : placed[n].ofst + t \in 0 .. acttab.nAction - 1
    /\ \A d, e \in acttab.aAction : d[1] = e[1] => d = e
    /\ \A s \in Slots(acttab) : s < acttab.nActionAlloc
=============================================================================

---------------------------- MODULE ParserTables ----------------------------
(***************************************************************************)
(* The end of lemon.c: from the actions of the states to the tables of the *)
(* generated parser.  CompressTables gives states a default reduction,     *)
(* does without the states that only reduce and skips reductions of a      *)
(* single symbol without code; ResortStates numbers the states anew; then  *)
(* ReportTable packs the rows of the states into one table and writes it.  *)
(***************************************************************************)
EXTENDS LalrTables, ActionTable, ParserLookup

VARIABLES
    ap,            \* ap of each state, as CompressTables changes it
    autoReduce,    \* of each state: the rule it reduces whatever comes, or
                   \* Missing
    order,         \* sorted: the states in the order of their new numbers
    ax,            \* the rows in the order in which they are packed
    acttab,
    ofsts,         \* iTknOfst and iNtOfst: <<state, isTkn, offset>>
    tables         \* what ReportTable writes

tableVars  == <<ap, autoReduce, order, ax, acttab, ofsts, tables>>
parserVars == <<lalrVars, tableVars>>

NoTables == [nstate |-> 0]

-----------------------------------------------------------------------------
(* CompressTables, first pass.                                             *)

IsReduce(a, r) == a.type = "REDUCE" /\ a.x = r

\* Mistake: the wildcard does not keep a state from having a default.
BestWild(A) ==
    LET rules == {a.x : a \in {b \in ToSet(A) : b.type = "REDUCE"
                                                  /\ g.rule[b.x].lhs # Start(g)}}
    IN  IF rules = {} THEN Missing ELSE CHOOSE r \in rules : TRUE

(* The most frequent REDUCE, the first of those, but no rule of the start  *)
(* symbol, and none in a state that shifts the wildcard.                   *)
Best(A) ==
    LET rules == {a.x : a \in {b \in ToSet(A) : b.type = "REDUCE"
                                                  /\ g.rule[b.x].lhs # Start(g)}}
        n(r)  == Cardinality({i \in DOMAIN A : IsReduce(A[i], r)})
        at1(r) == CHOOSE i \in DOMAIN A : IsReduce(A[i], r)
                                          /\ \A j \in 1..i - 1 : ~IsReduce(A[j], r)
    IN  IF rules = {} \/ \E a \in ToSet(A) : a.type = "SHIFT" /\ a.sp = g.wildcard
        THEN Missing
        ELSE CHOOSE r \in rules :
                 \A q \in rules \ {r} : n(r) > n(q) \/ (n(r) = n(q) /\ at1(r) < at1(q))

(* The first of its actions becomes the default, the others are not used. *)
WithDefault(A, r) ==
    LET mine   == {i \in DOMAIN A : IsReduce(A[i], r)}
        change == [i \in DOMAIN A |->
                     IF i \notin mine THEN A[i]
                     ELSE IF i = MinOf(mine) THEN [A[i] EXCEPT !.sp = Default(g)]
                     ELSE [A[i] EXCEPT !.type = "NOT_USED"]]
    IN  ActionSort(ToSet(change))

Reduces(A, r) ==
    \A a \in ToSet(A) : a.type # "SHIFT" /\ (a.type = "REDUCE" => a.x = r)

CompressState ==
    /\ phase = "tables" /\ at \in DOMAIN states
    /\ LET best == Best(actions[at])
           A    == IF best = Missing THEN actions[at] ELSE WithDefault(actions[at], best)
       IN  /\ ap' = Append(ap, A)
           /\ autoReduce' = Append(autoReduce,
                                   IF best # Missing /\ Reduces(A, best) THEN best ELSE Missing)
    /\ at' = at + 1
    /\ UNCHANGED <<g, phase, progress, precsym, lambda, first, buildVars, flowVars, actions,
                   nconflict, errors, order, ax, acttab, ofsts, tables>>

-----------------------------------------------------------------------------
(* Second pass: a SHIFT to a state that only reduces does both.            *)

ShiftReduced(a) ==
    IF a.type = "SHIFT" /\ autoReduce[a.x] # Missing
    THEN [a EXCEPT !.type = "SHIFTREDUCE", !.x = autoReduce[a.x]] ELSE a

ShiftReduce ==
    /\ phase = "tables" /\ at > Len(states)
    /\ ap' = [n \in DOMAIN ap |-> [i \in DOMAIN ap[n] |-> ShiftReduced(ap[n][i])]]
    /\ Enter("units")
    /\ UNCHANGED <<g, precsym, lambda, first, buildVars, flowVars, actions, nconflict, errors,
                   autoReduce, order, ax, acttab, ofsts, tables>>

(* Third pass.                                                             *)

\* Mistake: a rule whose code must run is skipped as well.
IsUnitCode(a) ==
    /\ a.type = "SHIFTREDUCE" /\ Len(g.rule[a.x].rhs) = 1 /\ a.sp \in Nonterminals(g)

IsUnit(a) ==
    /\ a.type = "SHIFTREDUCE" /\ ~HasCode(g, a.x)
    /\ Len(g.rule[a.x].rhs) = 1 /\ a.sp \in Nonterminals(g)

Units == {p \in UNION {{n} \X DOMAIN ap[n] : n \in DOMAIN ap} : IsUnit(ap[p[1]][p[2]])}

(* The actions of the state for the left side of the rule of the i-th. *)
ForLhs(A, i) == {j \in DOMAIN A \ {i} : A[j].sp = g.rule[A[i].x].lhs}

(* The first such action becomes what its left side does; it is looked at  *)
(* again then.  The assertion that there is one stops the program.         *)
SkipUnit ==
    /\ phase = "units" /\ Units # {}
    /\ LET p == CHOOSE q \in Units : \A r \in Units \ {q} : Before(q, r)
           A == ap[p[1]]
           J == ForLhs(A, p[2])
       IN  IF J = {} THEN phase' = "abort" /\ UNCHANGED ap
           ELSE /\ ap' = [ap EXCEPT ![p[1]][p[2]].type = A[MinOf(J)].type,
                                    ![p[1]][p[2]].x = A[MinOf(J)].x]
                /\ UNCHANGED phase
    /\ UNCHANGED <<g, at, progress, precsym, lambda, first, buildVars, flowVars, actions,
                   nconflict, errors, autoReduce, order, ax, acttab, ofsts, tables>>

-----------------------------------------------------------------------------
(* ResortStates.                                                           *)

Live(a) == a.type \in {"SHIFT", "SHIFTREDUCE", "REDUCE", "ERROR", "ACCEPT"}

TknActions(n) ==
    SelectSeq(ap[n], LAMBDA a : Live(a) /\ a.sp \in Terminals(g))

NtActions(n) ==
    SelectSeq(ap[n], LAMBDA a : Live(a) /\ a.sp \in Nonterminals(g))

DefaultRule(n) ==
    LET D == {a.x : a \in {b \in ToSet(ap[n]) : Live(b) /\ b.sp = Default(g)}}
    IN  IF D = {} THEN Missing ELSE CHOOSE r \in D : TRUE

(* Of two states the one with more actions comes first, nonterminals       *)
(* counted before tokens, then the later one.                              *)
ResortBefore(m, n) ==
    LET nt(k)  == Len(NtActions(k))
        tkn(k) == Len(TknActions(k))
    IN  \/ nt(m) > nt(n)
        \/ nt(m) = nt(n) /\ tkn(m) > tkn(n)
        \/ nt(m) = nt(n) /\ tkn(m) = tkn(n) /\ m > n

ResortStates ==
    /\ phase = "units" /\ Units = {}
    /\ order' = <<1>> \o SortSeq([i \in 1..Len(ap) - 1 |-> i + 1], ResortBefore)
    /\ Enter("rows")
    /\ UNCHANGED <<g, precsym, lambda, first, buildVars, flowVars, actions, nconflict, errors,
                   ap, autoReduce, ax, acttab, ofsts, tables>>

\* Mistake: one state too many is dropped.
NxStateLess ==
    MaxOf({1} \cup {i \in DOMAIN order : autoReduce[order[i]] = Missing}) - 1

(* nxstate: the states at the end that only reduce are dropped. *)
NxState == MaxOf({1} \cup {i \in DOMAIN order : autoReduce[order[i]] = Missing})

-----------------------------------------------------------------------------
(* ReportTable.  States are numbered from 0 by their place in order.       *)

MinShiftReduce == Len(states)
ErrAction      == MinShiftReduce + Len(g.rule)
AccAction      == ErrAction + 1
NoAction       == AccAction + 1
MinReduce      == NoAction + 1

StateNo(n) == (CHOOSE i \in DOMAIN order : order[i] = n) - 1

(* compute_action, for the actions that are Live. *)
ComputeAction(a) ==
    IF a.type = "SHIFT" THEN StateNo(a.x)
    ELSE IF a.type = "SHIFTREDUCE" /\ a.sp \in Terminals(g) THEN MinShiftReduce + IRule(g, a.x)
    ELSE IF a.type \in {"SHIFTREDUCE", "REDUCE"} THEN MinReduce + IRule(g, a.x)
    ELSE IF a.type = "ERROR" THEN ErrAction ELSE AccAction

(* ax: a row for the tokens of each state and one for its nonterminals,    *)
(* "the largest action sets first".                                        *)
Row(n, isTkn) ==
    LET A == IF isTkn THEN TknActions(n) ELSE NtActions(n)
    IN  [j \in DOMAIN A |-> <<A[j].sp, ComputeAction(A[j])>>]

SortRows ==
    /\ phase = "rows"
    /\ LET rows == [i \in 1..2 * NxState |->
                       [n |-> order[(i + 1) \div 2], isTkn |-> i % 2 = 1, iOrder |-> i,
                        row |-> Row(order[(i + 1) \div 2], i % 2 = 1)]]
           before(x, y) == \/ Len(x.row) > Len(y.row)
                           \/ Len(x.row) = Len(y.row) /\ x.iOrder < y.iOrder
       IN  ax' = SelectSeq(SortSeq(rows, before), LAMBDA x : x.row # <<>>)
    /\ Enter("pack")
    /\ UNCHANGED <<g, precsym, lambda, first, buildVars, flowVars, actions, nconflict, errors,
                   ap, autoReduce, order, acttab, ofsts, tables>>

PackRow ==
    /\ phase = "pack" /\ at \in DOMAIN ax
    /\ LET done == Insert(acttab, ax[at].row, ax[at].isTkn, g.nterminal, g.nsymbol)
       IN  /\ acttab' = done.table
           /\ ofsts' = ofsts \cup {<<ax[at].n, ax[at].isTkn, done.ofst>>}
    /\ at' = at + 1
    /\ UNCHANGED <<g, phase, progress, precsym, lambda, first, buildVars, flowVars, actions,
                   nconflict, errors, ap, autoReduce, order, ax, tables>>

(* A table of offsets ends with the last state that has one; a state       *)
(* without has an offset that finds nothing.                               *)
Offsets(tkn, none) ==
    LET of(i) == {o[3] : o \in {p \in ofsts : p[1] = order[i] /\ p[2] = tkn}}
        n     == MaxOf({0} \cup {i \in 1..NxState : of(i) # {}})
    IN  [i \in 0..n - 1 |-> IF of(i + 1) = {} THEN none ELSE CHOOSE o \in of(i + 1) : TRUE]

MnNtOfst == MinOf({0} \cup {o[3] : o \in {p \in ofsts : ~p[2]}})

(* The entries of the table: free slots have a symbol that is none, and so *)
(* that any token may be looked up, there are some more lookaheads.        *)
Entry(i, field, none) ==
    LET E == {e \in acttab.aAction : e[1] = i}
    IN  IF E = {} THEN none ELSE (CHOOSE e \in E : TRUE)[field]

LookaheadTable ==
    [i \in 0..MaxOf({acttab.nAction, g.nterminal + ActionSize(acttab)}) - 1 |->
        IF i < acttab.nAction THEN Entry(i, 2, g.nsymbol) ELSE g.nterminal]

ActionTab == [i \in 0..ActionSize(acttab) - 1 |-> Entry(i, 3, NoAction)]

(* yyRuleInfoLhs and yyRuleInfoNRhs, by iRule. *)
RuleInfo ==
    LET of(k) == CHOOSE r \in Rules(g) : IRule(g, r) = k
    IN  [k \in 0..Len(g.rule) - 1 |-> [rule |-> of(k), lhs |-> g.rule[of(k)].lhs,
                                      nrhs |-> Len(g.rule[of(k)].rhs)]]

YyDefault ==
    [i \in 0..NxState - 1 |->
        LET r == DefaultRule(order[i + 1])
        IN  IF r = Missing THEN ErrAction ELSE IRule(g, r) + MinReduce]

ReportTable ==
    /\ phase = "pack" /\ at > Len(ax)
    /\ tables' = [nstate |-> NxState, ntoken |-> g.nterminal, fallback |-> g.fallback,
                  wildcard |-> g.wildcard, minShiftReduce |-> MinShiftReduce,
                  errAction |-> ErrAction, accAction |-> AccAction, minReduce |-> MinReduce,
                  action |-> ActionTab, lookahead |-> LookaheadTable,
                  shiftOfst |-> Offsets(TRUE, ActionSize(acttab)),
                  reduceOfst |-> Offsets(FALSE, MnNtOfst - 1),
                  default |-> YyDefault, ruleInfo |-> RuleInfo]
    /\ Enter("written")
    /\ UNCHANGED <<g, precsym, lambda, first, buildVars, flowVars, actions, nconflict, errors,
                   ap, autoReduce, order, ax, acttab, ofsts>>

-----------------------------------------------------------------------------
TablesInit ==
    /\ Init
    /\ ap = <<>> /\ autoReduce = <<>> /\ order = <<>>
    /\ ax = <<>> /\ acttab = EmptyTable /\ ofsts = {} /\ tables = NoTables

Generate == CompressState \/ ShiftReduce \/ SkipUnit \/ ResortStates \/ SortRows \/ PackRow \/ ReportTable

TablesNext == (Next /\ UNCHANGED tableVars) \/ Generate

TablesSpec == TablesInit /\ [][TablesNext]_parserVars /\ WF_parserVars(TablesNext)

-----------------------------------------------------------------------------
Done == phase = "written"

(* What state n was to do on a token: the action that the resolution left, *)
(* or that for the fallback token, or that for the wildcard.               *)
Meant(n, t) ==
    LET of(s) == {actions[n][i] : i \in Answers(n, s)}
        u     == IF of(t) = {} /\ HasFallback(g, t) THEN g.fallback[t] ELSE t
    IN  IF of(u) # {} THEN of(u) ELSE IF u > 0 THEN of(g.wildcard) ELSE {}

(* The numbers that stand for an action. *)
NumberOf(a) ==
    IF a.type = "REDUCE" THEN MinReduce + IRule(g, a.x)
    ELSE IF a.type = "ERROR" THEN ErrAction
    ELSE IF autoReduce[a.x] # Missing THEN MinShiftReduce + IRule(g, autoReduce[a.x])
    ELSE StateNo(a.x)

(* After compression, renumbering and packing the parser finds for every   *)
(* state and token what the resolution of conflicts left: its number, or   *)
(* where there is none an error, or at worst a reduction that the state    *)
(* makes on some token.  (The offsets end with the last state that has a   *)
(* row of tokens.  A state that has none and does not only reduce waits    *)
(* for symbols of which no word has a token: a lookup would read beyond    *)
(* the offsets.  No parser that is run here has such a state.)             *)
TokensAsResolved ==
    Done => \A i \in {j \in 1..NxState : j - 1 \in DOMAIN tables.shiftOfst}, t \in Terminals(g) :
        LET n     == order[i]
            found == FindShiftAction(tables, t, i - 1)
            M     == Meant(n, t)
        IN  IF M # {} THEN \E a \in M : found = NumberOf(a)
            ELSE found \in {ErrAction} \cup {MinReduce + IRule(g, a.x) :
                               a \in {b \in ToSet(actions[n]) : b.type = "REDUCE"}}
=============================================================================

----------------------------- MODULE LalrTables -----------------------------
(***************************************************************************)
(* The middle of lemon.c, from a grammar to the actions of every state:    *)
(* rule precedences, first sets, the LR(0) states with their propagation   *)
(* links, the follow sets of the configurations, the actions and the       *)
(* resolution of their conflicts.  main() calls the phases one by one; a   *)
(* loop takes a step for each round, with its place in at, and             *)
(* buildshifts, which is recursive, has its activations on stack.          *)
(*                                                                         *)
(* Lists that the code keeps sorted are sets here, sorted where the order  *)
(* matters.  States count from 1, rules too.                               *)
(***************************************************************************)
EXTENDS Grammar

CONSTANTS
    Grammars,      \* the grammars to start from
    WordBound      \* words up to this length define the reference sets

VARIABLES
    g,             \* the grammar
    phase,
    at,            \* the place of the loop of the phase
    progress,      \* something has changed in this round of the loop
    precsym,       \* of each rule: the symbol it takes its precedence from
    lambda,        \* nonterminals known to derive the empty word
    first,         \* the first sets
    states,        \* [basis, items] of each state, in order of creation
    stack,         \* activations of buildshifts: the state, and the
                   \* configurations of it that are not COMPLETE
    backlinks,     \* bplp: <<configuration, the one it was shifted from>>
    links,         \* fplp: <<configuration, the one its follow set flows to>>
    fws,           \* the follow sets: pairs <<configuration, token>>
    incomplete,    \* configurations whose follow set must be spread
    shifts,        \* ap of each state as buildshifts leaves it
    actions,       \* ap of each state, sorted and resolved
    nconflict,
    errors         \* what ErrorMsg has reported

buildVars == <<states, stack, backlinks, shifts>>
flowVars  == <<links, fws, incomplete>>
lalrVars  == <<g, phase, at, progress, precsym, lambda, first, buildVars, flowVars,
               actions, nconflict, errors>>

TypeOrder == <<"SHIFT", "ACCEPT", "REDUCE", "ERROR", "SSCONFLICT", "SRCONFLICT",
               "RRCONFLICT", "SH_RESOLVED", "RD_RESOLVED", "NOT_USED", "SHIFTREDUCE">>

ActionRecord(sp, type, x, n) == [sp |-> sp, type |-> type, x |-> x, n |-> n]

-----------------------------------------------------------------------------
(* Precedences and first sets.                                             *)

Enter(next) == phase' = next /\ at' = 1 /\ progress' = FALSE

(* The symbols of a right side that have a precedence, in order. *)
Ranked(r) ==
    LET tokens(s) == IF s \in Classes(g) THEN g.subsym[s] ELSE <<s>>
        ranked(s) == s \in Terminals(g) /\ g.prec[s] >= 0
    IN  SelectSeq(FlattenSeq([i \in DOMAIN g.rule[r].rhs |-> tokens(g.rule[r].rhs[i])]),
                  ranked)

PrecedenceOf(r) ==
    IF g.rule[r].precsym # Missing THEN g.rule[r].precsym
    ELSE IF Ranked(r) = <<>> THEN Missing ELSE Head(Ranked(r))

FindRulePrecedences ==
    /\ phase = "precedences"
    /\ precsym' = [r \in Rules(g) |-> PrecedenceOf(r)]
    /\ Enter("lambda")
    /\ UNCHANGED <<g, lambda, first, buildVars, flowVars, actions, nconflict, errors>>

(* The rules in the order of their numbers, as Rule_sort leaves them. *)
RuleAt == CHOOSE r \in Rules(g) : IRule(g, r) = at - 1

(* do { ... } while( progress ) over a list of n elements, and what comes  *)
(* after it.                                                               *)
Again(n, next) ==
    /\ at > n
    /\ IF progress THEN at' = 1 /\ progress' = FALSE /\ UNCHANGED phase ELSE Enter(next)

NextRule(change) ==
    /\ at \in Rules(g)
    /\ at' = at + 1 /\ progress' = (progress \/ change) /\ UNCHANGED phase

FindLambda ==
    /\ phase = "lambda"
    /\ \/ /\ at \in Rules(g)
          /\ lambda' = IF ToSet(g.rule[RuleAt].rhs) \subseteq lambda
                       THEN lambda \cup {g.rule[RuleAt].lhs} ELSE lambda
          /\ NextRule(lambda' # lambda)
       \/ Again(Len(g.rule), "first") /\ UNCHANGED lambda
    /\ UNCHANGED <<g, precsym, first, buildVars, flowVars, actions, nconflict, errors>>

(* The symbols up to the i-th may all be empty; the tokens a string of     *)
(* symbols may begin with.                                                 *)
EmptyUpTo(rhs, i) == \A j \in 1..i : rhs[j] \in lambda

Heads(f, rhs) ==
    UNION {IF rhs[i] \in Nonterminals(g) THEN f[rhs[i]] ELSE Tokens(g, rhs[i]) :
              i \in {n \in DOMAIN rhs : EmptyUpTo(rhs, n - 1)}}

FindFirst ==
    /\ phase = "first"
    /\ \/ /\ at \in Rules(g)
          /\ first' = [first EXCEPT ![g.rule[RuleAt].lhs] = @ \cup Heads(first, g.rule[RuleAt].rhs)]
          /\ NextRule(first' # first)
       \/ Again(Len(g.rule), "start") /\ UNCHANGED first
    /\ UNCHANGED <<g, precsym, lambda, buildVars, flowVars, actions, nconflict, errors>>

-----------------------------------------------------------------------------
(* The states.                                                             *)

RECURSIVE Closure(_)
Closure(I) ==
    LET new == UNION {{Item(r, 0) : r \in RulesOf(g, After(g, c))} :
                          c \in {i \in I : ~Complete(g, i)}}
    IN  IF new \subseteq I THEN I ELSE Closure(I \cup new)

(* The configurations of n that c leads to in the closure. *)
Derived(items, c) ==
    IF Complete(g, c) THEN {}
    ELSE {Item(r, 0) : r \in RulesOf(g, After(g, c))} \cap items

\* Mistake: a link only where nothing follows the symbol.
ClosureLinksAtEnd(n, items) ==
    UNION {{<<<<n, p>>, <<n, c>>>> : c \in Derived(items, p)} :
              p \in {i \in items : ~Complete(g, i) /\ Rest(g, i) = <<>>}}

(* Configlist_closure: plinks, and what follows by itself. *)
ClosureLinks(n, items) ==
    UNION {{<<<<n, p>>, <<n, c>>>> : c \in Derived(items, p)} :
              p \in {i \in items : ~Complete(g, i)
                                   /\ EmptyUpTo(Rest(g, i), Len(Rest(g, i)))}}

Spontaneous(items, c) ==
    UNION {Heads(first, Rest(g, p)) : p \in {i \in items : c \in Derived(items, i)}}

Ruleless(items) ==
    {After(g, c) : c \in {i \in items : ~Complete(g, i)}} \cap
    {s \in Nonterminals(g) : RulesOf(g, s) = {}}

(* getstate for a state that is new: its closure, its place on the stack.  *)
(* seed is what the follow sets of the basis hold to begin with.           *)
NewState(basis, seed, complaints) ==
    LET n     == Len(states) + 1
        items == Closure(basis)
        flows == UNION {{<<<<n, c>>, t>> : t \in Spontaneous(items, c)} : c \in items}
                 \cup {<<<<n, c>>, t>> : c \in basis, t \in seed}
    IN  /\ states' = Append(states, [basis |-> basis, items |-> items])
        /\ fws' = fws \cup flows
        /\ links' = links \cup ClosureLinks(n, items)
        /\ errors' = errors \cup complaints \cup {<<"no rules", s>> : s \in Ruleless(items)}

(* FindStates: complaints about the start symbol, and the first state. *)
FindStates ==
    /\ phase = "start"
    /\ LET basis      == {Item(r, 0) : r \in RulesOf(g, Start(g))}
           complaints == (IF g.start \in {Missing, Start(g)} THEN {}
                          ELSE {<<"no start", g.start>>})
                         \cup (IF \E r \in Rules(g) : Start(g) \in ToSet(g.rule[r].rhs)
                               THEN {<<"start used", Start(g)>>} ELSE {})
       IN  /\ NewState(basis, {0}, complaints)
           /\ stack' = <<[state |-> 1, rest |-> Closure(basis)]>>
    /\ shifts' = <<{}>>
    /\ Enter("states")
    /\ UNCHANGED <<g, precsym, lambda, first, backlinks, incomplete, actions, nconflict>>

Before(c, d) == c[1] < d[1] \/ (c[1] = d[1] /\ c[2] < d[2])

(* The states with this basis: State_find. *)
Existing(basis) == {n \in DOMAIN states : states[n].basis = basis}

(* buildshifts: the configurations with the same symbol after the dot      *)
(* shift it together, into a state that exists or into a new one, whose    *)
(* own buildshifts runs first.                                             *)
BuildShifts ==
    /\ phase = "states" /\ stack # <<>>
    /\ LET n      == Last(stack).state
           open   == {c \in Last(stack).rest : ~Complete(g, c)}
           c      == CHOOSE i \in open : \A j \in open \ {i} : Before(i, j)
           group  == {i \in open : SameSymbol(g, After(g, i), After(g, c))}
           basis  == {Advance(i) : i \in group}
           found  == Existing(basis)
           target == IF found = {} THEN Len(states) + 1 ELSE CHOOSE m \in found : TRUE
           rest   == ReplaceAt(stack, Len(stack), [state |-> n, rest |-> open \ group])
           shift  == {ActionRecord(t, "SHIFT", target, Cardinality(shifts[n])) :
                        t \in Tokens(g, After(g, c))}
       IN  /\ open # {}
           /\ backlinks' = backlinks \cup {<<<<target, Advance(i)>>, <<n, i>>>> : i \in group}
           /\ IF found = {}
              THEN /\ NewState(basis, {}, {})
                   /\ stack' = Append(rest, [state |-> target, rest |-> Closure(basis)])
              ELSE stack' = rest /\ UNCHANGED <<states, fws, links, errors>>
           /\ shifts' = [IF found = {} THEN Append(shifts, {}) ELSE shifts
                            EXCEPT ![n] = @ \cup shift]
    /\ UNCHANGED <<g, phase, at, progress, precsym, lambda, first, incomplete, actions,
                   nconflict>>

BuildShiftsReturn ==
    /\ phase = "states" /\ stack # <<>>
    /\ \A c \in Last(stack).rest : Complete(g, c)
    /\ stack' = Front(stack)
    /\ IF stack' = <<>> THEN Enter("links") ELSE UNCHANGED <<phase, at, progress>>
    /\ UNCHANGED <<g, precsym, lambda, first, states, backlinks, shifts, flowVars,
                   actions, nconflict, errors>>

-----------------------------------------------------------------------------
(* The follow sets.                                                        *)

Configs == UNION {{<<n, c>> : c \in states[n].items} : n \in DOMAIN states}

FindLinks ==
    /\ phase = "links"
    /\ links' = links \cup {<<b[2], b[1]>> : b \in backlinks}
    /\ incomplete' = Configs
    /\ Enter("follow")
    /\ UNCHANGED <<g, precsym, lambda, first, buildVars, fws, actions, nconflict, errors>>

FollowSet(f, c) == {p[2] : p \in {q \in f : q[1] = c}}

ConfigList ==
    LET before(c, d) == c[1] < d[1] \/ (c[1] = d[1] /\ Before(c[2], d[2]))
    IN  SortedSeq(Configs, before)

(* The configuration at at has its follow set spread along its links, if   *)
(* it is incomplete.                                                       *)
Flow(c) ==
    {<<d, t>> : d \in {l[2] : l \in {k \in links : k[1] = c}}, t \in FollowSet(fws, c)} \ fws

FindFollowSet ==
    /\ phase = "follow"
    /\ \/ /\ at \in DOMAIN ConfigList
          /\ LET c == ConfigList[at]
             IN  /\ fws' = IF c \in incomplete THEN fws \cup Flow(c) ELSE fws
                 /\ incomplete' = (incomplete \cup {p[1] : p \in fws' \ fws}) \ {c}
          /\ at' = at + 1 /\ progress' = (progress \/ fws' # fws) /\ UNCHANGED phase
       \/ Again(Len(ConfigList), "actions") /\ UNCHANGED <<fws, incomplete>>
    /\ UNCHANGED <<g, precsym, lambda, first, buildVars, links, actions, nconflict, errors>>

-----------------------------------------------------------------------------
(* The actions.                                                            *)

ReduceActions(n) ==
    UNION {{ActionRecord(t, "REDUCE", c[1], 0) : t \in FollowSet(fws, <<n, c>>)} :
              c \in {i \in states[n].items : Complete(g, i)}}

AllActions(n) ==
    shifts[n] \cup ReduceActions(n)
        \cup (IF n = 1 THEN {ActionRecord(Start(g), "ACCEPT", Missing, 0)} ELSE {})

(* actioncmp; of two shifts of a token the later one comes first.          *)
TypeRank(a) == CHOOSE i \in DOMAIN TypeOrder : TypeOrder[i] = a.type

ActionBefore(a, b) ==
    \/ a.sp < b.sp
    \/ (a.sp = b.sp /\ TypeRank(a) < TypeRank(b))
    \/ /\ a.sp = b.sp /\ a.type = b.type
       /\ \/ (a.type # "SHIFT" /\ a.x < b.x)
          \/ ((a.type = "SHIFT" \/ a.x = b.x) /\ a.n > b.n)

ActionSort(A) == SortedSeq(A, ActionBefore)

Resolved == {"SSCONFLICT", "SRCONFLICT", "RRCONFLICT", "SH_RESOLVED", "RD_RESOLVED"}

\* Mistake: a shift with less precedence is not taken away.
ResolutionOfRules(x, y) ==
    [x |-> x.type, y |-> IF x.type = "SHIFT" THEN y.type ELSE "RRCONFLICT",
     conflicts |-> 1, asserted |-> TRUE]

(* resolve_conflict: the types that x and y get, how many conflicts stay,  *)
(* and whether its assertion holds.                                        *)
Resolution(x, y) ==
    LET outcome(tx, ty, n) == [x |-> tx, y |-> ty, conflicts |-> n, asserted |-> TRUE]
        precOf(s) == IF s = Missing THEN Missing ELSE g.prec[s]
        py == precOf(precsym[y.x])
        px == IF x.type = "SHIFT" THEN precOf(x.sp) ELSE precOf(precsym[x.x])
    IN  IF x.type = "SHIFT" /\ y.type = "SHIFT"
        THEN outcome("SHIFT", "SSCONFLICT", 1)
        ELSE IF x.type = "SHIFT" /\ y.type = "REDUCE"
        THEN IF px < 0 \/ py < 0 THEN outcome("SHIFT", "SRCONFLICT", 1)
             ELSE IF px > py \/ (px = py /\ g.assoc[x.sp] = "RIGHT")
                  THEN outcome("SHIFT", "RD_RESOLVED", 0)
             ELSE IF px < py \/ g.assoc[x.sp] = "LEFT"
                  THEN outcome("SH_RESOLVED", "REDUCE", 0)
             ELSE outcome("ERROR", "REDUCE", 0)
        ELSE IF x.type = "REDUCE" /\ y.type = "REDUCE"
        THEN IF px < 0 \/ py < 0 \/ px = py THEN outcome("REDUCE", "RRCONFLICT", 1)
             ELSE IF px > py THEN outcome("REDUCE", "RD_RESOLVED", 0)
             ELSE outcome("RD_RESOLVED", "REDUCE", 0)
        ELSE [x |-> x.type, y |-> y.type, conflicts |-> 0,
              asserted |-> x.type \in Resolved \/ y.type \in Resolved]

AddActions ==
    /\ phase = "actions"
    /\ actions' = [n \in DOMAIN states |-> ActionSort(AllActions(n))]
    /\ Enter("resolve")
    /\ UNCHANGED <<g, precsym, lambda, first, buildVars, flowVars, nconflict, errors>>

(* The pairs of actions with the same lookahead, as the loops meet them. *)
Pairs ==
    LET before(p, q) == p[1] < q[1] \/ (p[1] = q[1] /\ Before(<<p[2], p[3]>>, <<q[2], q[3]>>))
        pairs(n) == {<<n, i, j>> : i \in DOMAIN actions[n], j \in DOMAIN actions[n]}
    IN  SortedSeq({p \in UNION {pairs(n) : n \in DOMAIN actions} :
                       p[2] < p[3] /\ actions[p[1]][p[2]].sp = actions[p[1]][p[3]].sp}, before)

(* A failed assertion stops the program. *)
ResolveConflict ==
    /\ phase = "resolve" /\ at \in DOMAIN Pairs
    /\ LET p   == Pairs[at]
           res == Resolution(actions[p[1]][p[2]], actions[p[1]][p[3]])
       IN  /\ actions' = [actions EXCEPT ![p[1]][p[2]].type = res.x, ![p[1]][p[3]].type = res.y]
           /\ nconflict' = nconflict + res.conflicts
           /\ phase' = IF res.asserted THEN "resolve" ELSE "abort"
    /\ at' = at + 1
    /\ UNCHANGED <<g, progress, precsym, lambda, first, buildVars, flowVars, errors>>

(* "This rule can not be reduced." *)
FindUnreduced ==
    /\ phase = "resolve" /\ at > Len(Pairs)
    /\ LET all     == UNION {ToSet(actions[n]) : n \in DOMAIN actions}
           reduced == {a.x : a \in {b \in all : b.type = "REDUCE"}}
       IN  errors' = errors \cup {<<"never reduced", r>> : r \in Rules(g) \ reduced}
    /\ Enter("tables")
    /\ UNCHANGED <<g, precsym, lambda, first, buildVars, flowVars, actions, nconflict>>

-----------------------------------------------------------------------------
Init ==
    /\ g \in Grammars
    /\ phase = "precedences" /\ at = 1 /\ progress = FALSE
    /\ precsym = <<>> /\ lambda = {} /\ first = [s \in Nonterminals(g) |-> {}]
    /\ states = <<>> /\ stack = <<>> /\ backlinks = {} /\ shifts = <<>>
    /\ links = {} /\ fws = {} /\ incomplete = {}
    /\ actions = <<>> /\ nconflict = 0 /\ errors = {}

Next ==
    \/ FindRulePrecedences \/ FindLambda \/ FindFirst
    \/ FindStates \/ BuildShifts \/ BuildShiftsReturn
    \/ FindLinks \/ FindFollowSet
    \/ AddActions \/ ResolveConflict \/ FindUnreduced

(* One program that waits for nothing. *)
Spec == Init /\ [][Next]_lalrVars /\ WF_lalrVars(Next)

-----------------------------------------------------------------------------
(* Every nonterminal derives some word within the bound: the reference     *)
(* sets below are complete for such a grammar.                             *)
Productive == Nonterminals(g) \subseteq {p[1] : p \in Words(g, WordBound)}

(* The states and their follow sets are the LALR(1) ones: the canonical    *)
(* LR(1) states merged by core, each once, each lookahead that is possible *)
(* and none that is not.                                                   *)
FollowSetsAreLalr ==
    phase = "actions" /\ Productive =>
        /\ {UNION {{<<c[1], c[2], t>> : t \in FollowSet(fws, <<n, c>>)} : c \in states[n].items} :
                n \in DOMAIN states} = LalrStates(g, WordBound)
        /\ \A m, n \in DOMAIN states : states[m].basis = states[n].basis => m = n

Usable == {"SHIFT", "ACCEPT", "REDUCE", "ERROR"}

Answers(n, s) == {i \in DOMAIN actions[n] : actions[n][i].sp = s /\ actions[n][i].type \in Usable}
=============================================================================

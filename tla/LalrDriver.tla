----------------------------- MODULE LalrDriver -----------------------------
(***************************************************************************)
(* A generated parser: the template lempar.c with the tables that lemon.c  *)
(* has written for the grammar, fed token by token.  Once the tables are   *)
(* there, the generator has ended and leaves nothing else.                 *)
(*                                                                         *)
(* The template is compiled without an error symbol and with error         *)
(* recovery, as http11Lemon.y makes it.                                    *)
(***************************************************************************)
EXTENDS ParserTables

CONSTANTS
    YYSTACKDEPTH,  \* the entries of the stack, for the grammars whose parser
                   \* is compiled
    MaxTokens,     \* bound of the model on the tokens of a text
    TextBound      \* bound of the model on the words it may begin

ASSUME DriverAssumption ==
    /\ DOMAIN YYSTACKDEPTH \subseteq Grammars
    /\ \A gr \in DOMAIN YYSTACKDEPTH : YYSTACKDEPTH[gr] \in Nat \ {0}
    /\ MaxTokens \in Nat /\ TextBound \in Nat

VARIABLES
    pc,            \* "none" before ParseInit, "ready" between two calls of
                   \* Parse, "parsing" in one, "ended" after the last
    yystack,       \* entries [stateno, major], the one at the bottom first
    yyerrcnt,
    yymajor,       \* the token of the call
    \* history:
    text,          \* the tokens given
    trace,         \* the rules whose code has run
    result,        \* what the parser has called last: yy_accept, ...
    messages,      \* calls of yy_syntax_error
    shifted,       \* tokens shifted since the last of them
    overflows,
    meanings       \* what the grammar means: <<word, trace>>

driverVars == <<yystack, yyerrcnt, yymajor, text, trace, result, messages, shifted, overflows>>
allVars    == <<parserVars, pc, driverVars, meanings>>

Bottom == [stateno |-> 0, major |-> 0]
Top    == Last(yystack)

Full == Len(yystack) >= YYSTACKDEPTH[g]     \* yytos >= yystackEnd

(* The generator exits: of what it has computed only the tables are left.  *)
Exit ==
    /\ UNCHANGED <<g, tables, nconflict, errors>>
    /\ phase' = "parser" /\ at' = 1 /\ progress' = FALSE
    /\ precsym' = <<>> /\ lambda' = {} /\ first' = <<>>
    /\ states' = <<>> /\ stack' = <<>> /\ backlinks' = {} /\ shifts' = <<>>
    /\ links' = {} /\ fws' = {} /\ incomplete' = {} /\ actions' = <<>>
    /\ ap' = <<>> /\ autoReduce' = <<>> /\ order' = <<>> /\ ax' = <<>>
    /\ acttab' = EmptyTable /\ ofsts' = {}

ParseInit ==
    /\ phase = "written" /\ g \in DOMAIN YYSTACKDEPTH /\ Exit
    /\ pc' = "ready" /\ yystack' = <<Bottom>> /\ yyerrcnt' = -1
    /\ meanings' = Translations(g, TextBound)
    /\ UNCHANGED <<yymajor, text, trace, result, messages, shifted, overflows>>

-----------------------------------------------------------------------------
(* Parse(yymajor), one round of its loop a step.                           *)

Parse(t) ==
    /\ pc = "ready" /\ (t # 0 => Len(text) < MaxTokens)
    /\ pc' = "parsing" /\ yymajor' = t
    /\ text' = IF t = 0 THEN text ELSE Append(text, t)
    /\ UNCHANGED <<yystack, yyerrcnt, trace, result, messages, shifted, overflows>>

(* Parse returns; the token 0 was the last. *)
Return == pc' = IF yymajor = 0 THEN "ended" ELSE "ready"

Action == FindShiftAction(tables, yymajor, Top.stateno)

MaxShiftReduce == tables.errAction - 1

ToReduce == Action >= tables.minReduce
RuleOf(act) == tables.ruleInfo[act - tables.minReduce]

(* yyStackOverflow: everything is popped, and the token is lost. *)
\* Mistake: one entry is popped.
OverflowPopsOne ==
    yystack' = Front(yystack) /\ overflows' = overflows + 1 /\ result' = "overflow"

Overflow ==
    yystack' = <<Bottom>> /\ overflows' = overflows + 1 /\ result' = "overflow"

(* A rule with nothing on its right side needs room. *)
ReduceOverflow ==
    /\ pc = "parsing" /\ ToReduce /\ RuleOf(Action).nrhs = 0 /\ Full
    /\ Overflow /\ Return
    /\ UNCHANGED <<yyerrcnt, yymajor, text, trace, messages, shifted>>

Below(rule) == Len(yystack) - rule.nrhs
Goto(rule)  == FindReduceAction(tables, yystack[Below(rule)].stateno, rule.lhs)

(* yy_reduce *)
Reduce ==
    /\ pc = "parsing" /\ ToReduce
    /\ LET rule == RuleOf(Action)
       IN  /\ ~(rule.nrhs = 0 /\ Full)
           /\ yystack' = Append(SubSeq(yystack, 1, Below(rule)),
                                [stateno |-> Goto(rule), major |-> rule.lhs])
           /\ trace' = IF HasCode(g, rule.rule) THEN Append(trace, rule.rule) ELSE trace
    /\ UNCHANGED <<pc, yyerrcnt, yymajor, text, result, messages, shifted, overflows>>

(* yy_shift: after a SHIFTREDUCE the state is the reduction to come. *)
\* Mistake: the number of a SHIFTREDUCE is not changed.
ShiftedAsIs(act) == act

Shifted(act) ==
    IF act > MaxShift(tables) THEN act + tables.minReduce - tables.minShiftReduce ELSE act

CountDown == yyerrcnt' = yyerrcnt - 1

Shift ==
    /\ pc = "parsing" /\ Action <= MaxShiftReduce
    /\ CountDown /\ Return
    /\ IF Full THEN Overflow /\ UNCHANGED shifted
       ELSE /\ yystack' = Append(yystack, [stateno |-> Shifted(Action), major |-> yymajor])
            /\ shifted' = shifted + 1
            /\ UNCHANGED <<overflows, result>>
    /\ UNCHANGED <<yymajor, text, trace, messages>>

(* yy_accept *)
Accept ==
    /\ pc = "parsing" /\ Action = tables.accAction
    /\ yystack' = Front(yystack) /\ yyerrcnt' = -1 /\ result' = "accept" /\ Return
    /\ UNCHANGED <<yymajor, text, trace, messages, shifted, overflows>>

\* Mistake: after an error the token is tried again.
ErrorAgain ==
    /\ pc = "parsing" /\ Action = tables.errAction
    /\ IF yyerrcnt <= 0 THEN messages' = messages + 1 /\ shifted' = 0
       ELSE UNCHANGED <<messages, shifted>>
    /\ yyerrcnt' = 3 /\ result' = "error"
    /\ UNCHANGED <<pc, yystack, yymajor, text, trace, overflows>>

(* yy_syntax_error is called if no error has been for some time; the end   *)
(* of the input fails the parse, which pops everything.                    *)
Error ==
    /\ pc = "parsing" /\ Action = tables.errAction
    /\ IF yyerrcnt <= 0 THEN messages' = messages + 1 /\ shifted' = 0
       ELSE UNCHANGED <<messages, shifted>>
    /\ IF yymajor = 0 THEN yystack' = <<Bottom>> /\ yyerrcnt' = -1 /\ result' = "failure"
       ELSE yyerrcnt' = 3 /\ result' = "error" /\ UNCHANGED yystack
    /\ Return
    /\ UNCHANGED <<yymajor, text, trace, overflows>>

-----------------------------------------------------------------------------
DriverInit ==
    /\ TablesInit
    /\ pc = "none" /\ yystack = <<>> /\ yyerrcnt = -1 /\ yymajor = 0
    /\ text = <<>> /\ trace = <<>> /\ result = "none"
    /\ messages = 0 /\ shifted = 0 /\ overflows = 0
    /\ meanings = {}

Run == ReduceOverflow \/ Reduce \/ Shift \/ Accept \/ Error

Feed == \E t \in Terminals(g) : Parse(t)

DriverNext ==
    \/ TablesNext /\ UNCHANGED <<pc, driverVars, meanings>>
    \/ ParseInit
    \/ (Feed \/ Run) /\ UNCHANGED <<parserVars, meanings>>

(* A call of Parse runs until it returns; the caller need not call. *)
DriverSpec == DriverInit /\ [][DriverNext]_allVars /\ WF_allVars(Run /\ UNCHANGED <<parserVars, meanings>>)

-----------------------------------------------------------------------------
(* None of the assertions of the template fails: reads of the tables stay  *)
(* in them, after a reduction the state below has a goto that is neither a *)
(* SHIFTREDUCE nor an error, and what is left on acceptance is the bottom. *)
AssertionsHold ==
    pc = "parsing" =>
        /\ ShiftAsserts(tables, yymajor, Top.stateno)
        /\ ToReduce =>
              LET rule == RuleOf(Action)
              IN  /\ Below(rule) > 0
                  /\ ReduceAsserts(tables, yystack[Below(rule)].stateno, rule.lhs)
                  /\ Goto(rule) \notin MaxShift(tables) + 1 .. MaxShiftReduce
                  /\ Goto(rule) # tables.errAction
        /\ Action = tables.accAction => Len(yystack) = 2

(* A token as another one that it may stand for. *)
Plain == g.wildcard = Missing /\ DOMAIN g.fallback = {}

StandsFor(t, u) ==
    u \in {t, g.wildcard} \cup (IF HasFallback(g, t) THEN {g.fallback[t]} ELSE {})

Untroubled == messages = 0 /\ overflows = 0

(* The generator and the template together: a text that is accepted is a   *)
(* word of the grammar, up to fallback tokens and the wildcard, and the    *)
(* code that has run is that of a derivation, in order.                    *)
AcceptedIsTranslated ==
    result = "accept" /\ Untroubled =>
        \E m \in meanings :
            /\ trace = m[2] /\ Len(m[1]) = Len(text)
            /\ \A i \in DOMAIN text : StandsFor(text[i], m[1][i])

(* Without conflicts every word is accepted; and a token is an error as    *)
(* soon as no word goes on with it, in spite of the default reductions.    *)
ErrorIsPrompt ==
    Plain /\ nconflict = 0 /\ pc \in {"ready", "ended"} /\ overflows = 0 =>
        LET begun == {m \in meanings : IsPrefix(text, m[1])}
        IN  /\ Untroubled => begun # {}
            /\ pc = "ended" =>
                  (result = "accept" /\ Untroubled <=> \E m \in begun : m[1] = text)

(* Precedences and associativities: the operations of a text are done in   *)
(* the order that these demand.  (Operators are the tokens with one; the   *)
(* rule that applies an operator follows its number.)                      *)
RECURSIVE Reference(_)
Reference(w) ==
    LET ops      == {i \in DOMAIN w : g.prec[w[i]] >= 0}
        later(i, j) == \* the operator at i is applied after the one at j
            \/ g.prec[w[i]] < g.prec[w[j]]
            \/ g.prec[w[i]] = g.prec[w[j]]
               /\ IF g.assoc[w[i]] = "LEFT" THEN i > j ELSE i < j
        last     == CHOOSE i \in ops : \A j \in ops \ {i} : later(i, j)
        applies(t) == CHOOSE r \in Rules(g) : Len(g.rule[r].rhs) = 3 /\ g.rule[r].rhs[2] = t
        operand  == CHOOSE r \in Rules(g) : g.rule[r].rhs = w
    IN  IF ops = {} THEN <<operand>>
        ELSE Reference(SubSeq(w, 1, last - 1)) \o Reference(SubSeq(w, last + 1, Len(w)))
                 \o <<applies(w[last])>>

PrecedenceHonoured ==
    result = "accept" /\ Untroubled /\ (\E t \in Terminals(g) : g.prec[t] >= 0) =>
        trace = Append(Reference(text), 1)

(* After an overflow the rest of the text may look like a text of its own. *)
(* Where words begin with a token that they have nowhere else, as those of *)
(* http11Lemon.y begin with the one that selects the language, the text is *)
(* not accepted unless that token comes again.                             *)
OverflowIsFinal ==
    overflows > 0 /\ (\A i \in 2..Len(text) : text[i] # text[1]) => result # "accept"

(* Every call of Parse returns. *)
ParseReturns == pc = "parsing" ~> pc \in {"ready", "ended"}
=============================================================================

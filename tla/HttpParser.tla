----------------------------- MODULE HttpParser -----------------------------
(***************************************************************************)
(* parseHTTP: the loop of parse() in parser.c, the generated LALR parser   *)
(* (lempar.c) with the HTTP half of http11Lemon.y, and the five execute*   *)
(* functions of httpRequestInternal.c that call the registered handlers.   *)
(*                                                                         *)
(* A token here is a whole word, path, key, value or line end where the    *)
(* code reads characters; "other" is any character the grammar does not    *)
(* accept in its place, an item that breaks off included.  The tables the  *)
(* grammar is compiled to reduce by default: what has been read is reduced *)
(* when the next token comes, whichever it is, and then the token is       *)
(* shifted or found wrong.  So the handlers hear of an item one token late,*)
(* and also when that token ends the parse.                                *)
(*                                                                         *)
(* Keys and values always decode: the grammar lets no bad escape through.  *)
(***************************************************************************)
EXTENDS Integers, Sequences

CONSTANTS
    Keys,          \* names of query parameters and headers, up to case
    NoKey,
    Tables,        \* what is registered when parseHTTP is called
    MaxElements,   \* bound of the model on elementsCount
    MaxTokens      \* bound of the model on the length of a request

VARIABLES
    table,         \* elements[0 .. elementsCount)
    place,         \* state of the LALR parser
    token,         \* the token being looked at
    pos,           \* tokens read
    key,           \* name of the parameter or header that is being read
    pathIsEmpty,   \* the path came out empty of its normal form
    reduced,       \* what was read last has been reduced
    events,        \* reductions with a callback that the token sets off
    i, lastElement,\* of the execute* function that runs; i = 0 when none does
    isParsed, isParseFailed, isSyntaxIncorrect,     \* of parserState
    recovering,    \* yyerrcnt > 0
    result,        \* what parseHTTP returned
    told,          \* history: the events handlers were called for
    called,        \* history: elements called for the event at hand
    found,         \* history: the table when the event came
    blankAt        \* history: tokens read up to the empty line, 0 before it

flags     == <<isParsed, isParseFailed, isSyntaxIncorrect>>
lrVars    == <<place, token, pos, key, pathIsEmpty, reduced, recovering, blankAt>>
eventVars == <<events, i, lastElement, told, called, found>>
vars      == <<table, lrVars, eventVars, flags, result>>

NoToken == [kind |-> "none", key |-> NoKey]
EndOfInput == [kind |-> "end", key |-> NoKey]

Event(type, k) == [type |-> type, key |-> k]

EventTypes == {"METHOD", "GET", "URI", "VERSION", "HEADER"}

Elements == [type : EventTypes \cup {"ROOT"}, key : Keys \cup {NoKey}]

ASSUME HttpParserAssumption == Tables \subseteq Seq(Elements)

-----------------------------------------------------------------------------
(* The grammar, 96-279: in each place the tokens it accepts and where they *)
(* lead.                                                                   *)
Accepts ==
    [ start     |-> [word |-> "method"],
      method    |-> [SP |-> "target"],
      target    |-> [path |-> "path", emptyPath |-> "path"],
      path      |-> [SP |-> "protocol", question |-> "query"],
      query     |-> [key |-> "key", ampersand |-> "ampersand", SP |-> "protocol"],
      ampersand |-> [key |-> "key"],
      key       |-> [value |-> "pair"],
      pair      |-> [ampersand |-> "ampersand", SP |-> "protocol"],
      protocol  |-> [version |-> "version"],
      version   |-> [CR |-> "lineEnd"],
      lineEnd   |-> [LF |-> "headers"],
      headers   |-> [word |-> "name", CR |-> "lastLineEnd"],
      name      |-> [colon |-> "colon"],
      colon     |-> [value |-> "field", CR |-> "lineEnd"],
      field     |-> [CR |-> "lineEnd"],
      lastLineEnd |-> [LF |-> "blank"] ]

Places == DOMAIN Accepts \cup {"blank"}

Accepted(p) == IF p = "blank" THEN {} ELSE DOMAIN Accepts[p]

NamedKinds == {"key", "word"}

\* Mistake: the path is told with its first parameter still to come.
ReductionsPathFirst(p, t) ==
    CASE p = "method" -> <<Event("METHOD", NoKey)>>
      [] p = "path"   -> <<Event("URI", NoKey)>>
      [] p = "pair"   -> <<Event("GET", key)>>
      [] p = "version" -> <<Event("VERSION", NoKey)>>
      [] p = "field"   -> <<Event("HEADER", key)>>
      [] OTHER         -> <<>>

(* The callbacks of the reductions in place p that token kind t sets off:  *)
(* a query parameter is told before the path of the request it belongs to. *)
Reductions(p, t) ==
    CASE p = "method"                                  -> <<Event("METHOD", NoKey)>>
      [] p = "path" /\ t # "question"                  -> <<Event("URI", NoKey)>>
      [] p = "query" /\ t \notin {"key", "ampersand"}  -> <<Event("URI", NoKey)>>
      [] p = "pair" /\ t = "ampersand"                 -> <<Event("GET", key)>>
      [] p = "pair" /\ t # "ampersand"                 -> <<Event("GET", key), Event("URI", NoKey)>>
      [] p = "version"                                 -> <<Event("VERSION", NoKey)>>
      [] p = "colon" /\ t # "value"                    -> <<Event("HEADER", key)>>
      [] p = "field"                                   -> <<Event("HEADER", key)>>
      [] OTHER                                         -> <<>>

-----------------------------------------------------------------------------
(* parse(): one more token unless a flag is set, 241-248, and at last the  *)
(* end of the input, 250.                                                  *)
\* Mistake: only errors end the loop.
StoppedByError == isParseFailed \/ isSyntaxIncorrect

Stopped == isParsed \/ isParseFailed \/ isSyntaxIncorrect

Between == token = NoToken /\ result = "none"

Look(t) ==
    /\ token' = t
    /\ events' = IF reduced THEN <<>> ELSE Reductions(place, t.kind)
    /\ isParsed' = (isParsed \/ place = "blank")
    /\ reduced' = TRUE
    /\ UNCHANGED <<table, place, key, pathIsEmpty, recovering, blankAt>>
    /\ UNCHANGED <<i, lastElement, told, called, found>>
    /\ UNCHANGED <<isParseFailed, isSyntaxIncorrect, result>>

\* Mistake: the loop goes on after a syntax error.
ReadTokenPastError(t) ==
    /\ Between /\ ~isParsed /\ ~isParseFailed /\ pos < MaxTokens
    /\ t.kind \in Accepted(place) \cup {"other"}
    /\ Look(t)
    /\ pos' = pos + 1

ReadToken(t) ==
    /\ Between /\ ~Stopped /\ pos < MaxTokens
    /\ t.kind \in Accepted(place) \cup {"other"}
    /\ Look(t)
    /\ pos' = pos + 1

ReadEnd == Between /\ Stopped /\ Look(EndOfInput) /\ UNCHANGED pos

-----------------------------------------------------------------------------
(* The execute* functions: the handlers of the elements that are there     *)
(* when the event comes, in the order of registration.                     *)
Reducing == token # NoToken /\ events # <<>>

Last == lastElement

StartEvent ==
    /\ Reducing /\ i = 0
    /\ ~(events[1].type = "URI" /\ pathIsEmpty)
    /\ i' = 1 /\ lastElement' = Len(table)
    /\ told' = Append(told, events[1]) /\ called' = <<>> /\ found' = table
    /\ UNCHANGED <<table, lrVars, events, flags, result>>

(* decodeValue refuses an empty path: markAsParseFailed, 122-123.          *)
RefusePath ==
    /\ Reducing /\ i = 0
    /\ events[1].type = "URI" /\ pathIsEmpty
    /\ isParseFailed' = TRUE
    /\ events' = Tail(events)
    /\ UNCHANGED <<table, lrVars, i, lastElement, told, called, found>>
    /\ UNCHANGED <<isParsed, isSyntaxIncorrect, result>>

\* Mistake: any parameter, any header will do.
MatchesType(e) == e.type = events[1].type

Matches(e) == e.type = events[1].type /\ e.key = events[1].key

(* A handler may register another element on the request it serves: its    *)
(* data can hold the request.                                              *)
Handle ==
    /\ Reducing /\ i \in 1..Last /\ Matches(table[i])
    /\ called' = Append(called, i) /\ i' = i + 1
    /\ \/ UNCHANGED table
       \/ Len(table) < MaxElements /\ table' = Append(table, events[1])
    /\ UNCHANGED <<lrVars, events, lastElement, told, found, flags, result>>

Skip ==
    /\ Reducing /\ i \in 1..Last /\ ~Matches(table[i])
    /\ i' = i + 1
    /\ UNCHANGED <<table, lrVars, events, lastElement, told, called, found, flags, result>>

EndEvent ==
    /\ Reducing /\ i > Last
    /\ i' = 0 /\ events' = Tail(events)
    /\ UNCHANGED <<table, lrVars, lastElement, told, called, found, flags, result>>

-----------------------------------------------------------------------------
(* The reductions are done.                                                *)
Settled == token # NoToken /\ events = <<>>

Shift ==
    /\ Settled /\ token.kind \in Accepted(place)
    /\ place' = Accepts[place][token.kind]
    /\ key' = IF token.kind \in NamedKinds THEN token.key ELSE key
    /\ pathIsEmpty' = (pathIsEmpty \/ token.kind = "emptyPath")
    /\ blankAt' = IF place = "lastLineEnd" THEN pos ELSE blankAt
    /\ reduced' = FALSE /\ token' = NoToken
    /\ UNCHANGED <<table, pos, recovering, eventVars, flags, result>>

(* lempar.c 1026-1037: the first error is reported and the token dropped.  *)
(* The token after the empty line is always wrong, but then isParsed keeps *)
(* %syntax_error from marking the message.                                 *)
Reject ==
    /\ Settled /\ token.kind = "other"
    /\ isSyntaxIncorrect' = (isSyntaxIncorrect \/ (~recovering /\ ~isParsed))
    /\ recovering' = TRUE /\ token' = NoToken
    /\ UNCHANGED <<place, pos, key, pathIsEmpty, reduced, blankAt>>
    /\ UNCHANGED <<table, eventVars, isParsed, isParseFailed, result>>

Returned(failed, incorrect) ==
    IF failed THEN "LE_PARSING_IS_FAILED"
    ELSE IF incorrect THEN "LE_INCORRECT_SYNTAX" ELSE "LE_OK"

\* Mistake: the end of the input is not taken for a failure.
ReturnLeniently ==
    /\ Settled /\ token = EndOfInput
    /\ result' = Returned(isParseFailed, isSyntaxIncorrect)
    /\ token' = NoToken
    /\ UNCHANGED <<table, place, pos, key, pathIsEmpty, reduced, recovering, blankAt>>
    /\ UNCHANGED <<eventVars, flags>>

(* The end of the input is accepted after a message, and elsewhere it is   *)
(* an error that fails the parse: 256 looks at that flag first.            *)
Return ==
    /\ Settled /\ token = EndOfInput
    /\ LET wrong == place # "blank"
       IN  /\ isParseFailed' = (isParseFailed \/ wrong)
           /\ isSyntaxIncorrect' = (isSyntaxIncorrect \/ (wrong /\ ~recovering /\ ~isParsed))
    /\ result' = Returned(isParseFailed', isSyntaxIncorrect')
    /\ token' = NoToken
    /\ UNCHANGED <<table, place, pos, key, pathIsEmpty, reduced, recovering, blankAt>>
    /\ UNCHANGED <<eventVars, isParsed>>

-----------------------------------------------------------------------------
Init ==
    /\ table \in Tables
    /\ place = "start" /\ token = NoToken /\ pos = 0 /\ key = NoKey
    /\ pathIsEmpty = FALSE /\ reduced = FALSE
    /\ events = <<>> /\ i = 0 /\ lastElement = 0
    /\ isParsed = FALSE /\ isParseFailed = FALSE /\ isSyntaxIncorrect = FALSE
    /\ recovering = FALSE /\ result = "none"
    /\ told = <<>> /\ called = <<>> /\ found = <<>> /\ blankAt = 0

Kinds == {"word", "SP", "path", "emptyPath", "question", "key", "ampersand",
          "value", "version", "CR", "LF", "colon", "other"}

(* The parser reads on as long as no flag is set, whatever it finds there: *)
(* beyond the bytes received are those the buffer held before.             *)
Tokens == [kind : Kinds \ NamedKinds, key : {NoKey}] \cup [kind : NamedKinds, key : Keys]

Work ==
    \/ ReadEnd \/ StartEvent \/ RefusePath \/ Handle \/ Skip \/ EndEvent
    \/ Shift \/ Reject \/ Return

Ended == (result # "none" \/ pos = MaxTokens) /\ UNCHANGED vars

Next == Work \/ (\E t \in Tokens : ReadToken(t)) \/ Ended

(* Handlers return, and the thread waits for nothing between two tokens.   *)
Spec == Init /\ [][Next]_vars /\ WF_vars(Work)

-----------------------------------------------------------------------------
(* An event calls, once each and in the order of registration, the handlers*)
(* registered for it when it came, and not those a handler adds meanwhile. *)
Ascending(s) == \A m, n \in DOMAIN s : m < n => s[m] < s[n]

CalledElements == {called[n] : n \in DOMAIN called}

OwedElements == {n \in DOMAIN found : found[n] = told[Len(told)]}

CalledOnce == [][EndEvent => Ascending(called) /\ CalledElements = OwedElements]_vars

(* Handlers may rely on the order: the method, the parameters of the query,*)
(* the path, the version, the headers; no version and no header comes      *)
(* without a path, and only parameters and headers come more than once.    *)
Rank == [METHOD |-> 1, GET |-> 2, URI |-> 3, VERSION |-> 4, HEADER |-> 5]

EventsInOrder ==
    \A m, n \in DOMAIN told :
        /\ m < n => /\ Rank[told[m].type] <= Rank[told[n].type]
                    /\ told[m].type = told[n].type => told[m].type \in {"GET", "HEADER"}
        /\ told[n].type \in {"VERSION", "HEADER"} =>
               \E k \in 1..n : told[k].type = "URI"

(* Once the parse is known to fail, or to be complete, no handler is told  *)
(* of anything more.                                                       *)
NothingToldAfterwards == [][Stopped => told' = told]_vars

(* LE_OK is for a message read up to its empty line, and such a message is *)
(* LE_OK whatever byte the parser finds after it.  LE_INCORRECT_SYNTAX is  *)
(* never returned: the end of the input turns it into                      *)
(* LE_PARSING_IS_FAILED.                                                   *)
OkIffComplete ==
    result # "none" =>
        IF blankAt > 0 THEN result = "LE_OK" ELSE result = "LE_PARSING_IS_FAILED"

(* Of what follows the empty line one token is read at most.               *)
ReadsOnePast == blankAt > 0 => pos <= blankAt + 1

=============================================================================

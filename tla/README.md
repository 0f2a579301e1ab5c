# Lemon Server in TLA+

A verification development of Lemon Server, a small HTTP server built on a
Lemon LALR(1) parser. It consists of TLA+ modules that model the program and the
parser generator it is built with, TLC configurations that check them on small
instances, and proofs checked by TLAPS. Paths below are relative to the
repository's root; the server is in `src/` (`lemonHttp/`, `net/`), the
demonstration page in `demoPage/`, the generator in `3rdParty/lemon/`.

## The system

One thread does everything. `runServer` accepts a connection, sets up an
`httpRequest`, reads once, lets the application register callbacks, and parses
the buffer; the callbacks do the application's work. The same request object
can also parse a JSON document, with callbacks registered by JSONPath. There is
no concurrency inside the program. What is hard is elsewhere: an in-place
matcher that calls itself and marks the stack it works on, two stacks of
different bounds that do not know of each other, failures that leave state
behind for the next call, callbacks that come one token late, a buffer that is
rewritten while it is read, memory that is reused between connections, and
tables in which the rows of all parser states lie over one another.

| component | state | operations | code |
|---|---|---|---|
| registration | `elements[0..elementsCount)`, `ruleSize` of each root | `append*Request`, `appendJsonPathRequest` (parses the path) | `httpRequest.c`, `jsonPath.c`, `jsonPathInternal.c` 29-62, `http11Lemon.y` 453-591 |
| JSON document parser | the parse stack `elements[elementsCount .. +parsedStackSize)`, the LALR stack | `parseJSON`; the `update*`/`rollback*` functions; `executeJsonPathCallbackWithValue` | `http11Lemon.y` 287-450, `jsonPathInternal.c` 525-618, `lempar.c` |
| JSONPath matcher | cursors and nested calls; marks on the parse stack | `isJsonPathResolved` | `jsonPathInternal.c` 83-523 |
| HTTP parser | place in the grammar, `parserState` flags, the buffer | `parseHTTP`, `execute*Callback` | `parser.c`, `lempar.c`, `http11Lemon.y` 96-279, `httpRequestInternal.c` 130-213 |
| request path | the path in the buffer, its length | `absolute_path`, `segment` | `http11Lemon.y` 121-187 |
| value decoding | the value in the buffer | `decodeValue`, `trim`, `convertUtf16ToString`, the strings of documents | `httpRequestInternal.c` 53-128, 215-235, `http11Lemon.y` 385-450 |
| server loop | descriptors, the request on the C stack | `runServer`, `manageConnection`, `readData` | `net/socket.c` |
| demo page | the global `elements` (`fd`, `isGet`) | `page`, `checkIsGet`, `returnPage` | `demoPage/hello.c` |
| generator: states and actions | rules, first sets, states, links, follow sets, actions | `FindRulePrecedences` .. `FindActions`, `resolve_conflict` | `lemon.c` 533-1299, 1400-1442 |
| generator: tables | the `acttab`, offsets, defaults, state numbers | `CompressTables`, `ResortStates`, `ReportTable` | `lemon.c` 565-793, 4287-5161 |
| parser driver | the LALR stack of a generated parser | `Parse`, `yy_shift`, `yy_reduce`, lookups | `lempar.c` |
| helpers | none | `createString`, `strncasecmp` | `string.c`, `strncasecmp.c` |
| generator: input and output | | reads the grammar, writes C text | `lemon.c` otherwise |

How they interact: the generator turns `http11Lemon.y` into tables, the driver
template becomes the parser that all three languages (HTTP, JSON, JSONPath)
share; the loop of `parser.c` selects one by a first token. `runServer` calls
the application's handler, which registers; `parseHTTP` reduces a rule and calls
the handlers through `execute*`; `parseJSON` pushes and pops the parse stack in
the semantic actions and, for each complete value, walks over the registered
rules and calls the matcher with the parse stack, which the matcher changes and
has to put back. The table and the parse stack share one array.

What makes each correct:

- **matcher**: calls the handler of a rule once for each way to lay the rule
  over the path of the value; leaves the stack as it was; ends; nests boundedly.
- **document**: the parse stack is the path of the value whenever a value is
  told; an accepted document leaves nothing; values are told in order to every
  live rule; a document takes a bounded share of the array, and so do its leavings.
- **registration**: an accepted rule is one block of the right shape whatever
  else is registered or fails; the walk finds all rules up to an HTTP callback or the
  root of a failed path, and ends if there is no such root.
- **HTTP parser**: order and number of callbacks; nothing after the message is
  known to be wrong; the result says whether the message was complete; nothing
  is read far beyond it.
- **path**: the URI is the normal form; the rewriting does not overtake the reader.
- **decoding**: a callback is given what the text means; the rest of the buffer
  is as received; nothing outside the text is touched.
- **server**: every connection is closed, no other descriptor is; a request
  that was read whole gets its answer; everyone is served in the end.
- **generator**: lookaheads are those of LALR; conflicts are resolved by
  precedence; the packed tables do exactly what the actions say.
- **driver**: accepts the words of the grammar, runs their code in the order of
  a derivation, finds errors at once, returns from every call.

## Modules

| module | models |
|---|---|
| `JsonPathRules` | vocabulary: rule types, rules and parse stacks as the grammar builds them, and `Layings`, the definition of a match by which the matcher is judged |
| `JsonPathMatcher` | `isJsonPathResolved`: one step per turn of the loop, a frame per nested call |
| `JsonPathMatch` | one outermost call on any rule and stack; its properties and its inductive invariant `MatchInv` |
| `JsonDocument` | `parseJSON`: tokens, parse stack, LALR stack depth, the loop over the rules; extends `JsonPathMatcher`, so documents run the real matcher |
| `JsonTraversal` | abstract specification: a document is read, each value is told to each rule as often as it can be laid |
| `RuleTable` | registration and the walk over the table |
| `UriPath` | `absolute_path` and its report |
| `HttpParser` | `parseHTTP`, default reductions, dispatch |
| `TextDecoding` | decoding in the buffer that is being read |
| `Server` | `net/socket.c` with the demo page |
| `Grammar` | a grammar as `lemon.c` holds it, and, as reference, the words it derives and its canonical LR(1) states |
| `LalrTables` | `lemon.c` from the rules to the resolved actions |
| `ActionTable` | the `acttab` operations |
| `PackedTable` | rows of any kind packed one by one; its abstract specification is `ActionMap`, the map the comment of `lemon.c` promises |
| `ParserTables` | `CompressTables`, `ResortStates`, `ReportTable`; extends `LalrTables` and `ActionTable` |
| `ParserLookup` | how `lempar.c` reads the tables, and its assertions |
| `LalrDriver` | `Parse()` on those tables; extends `ParserTables`, so that a run goes from the rules of a grammar to the end of a text |
| `SampleGrammars` | grammars for TLC |
| `*Proofs` | theorems, one module per component |
| `MC*` | instances for TLC |

### Matcher

State: `rules` is the block of one registered rule (its root first), `stack`
the parse stack, `frames` the calls that have not returned. A frame has the two
cursors `currRule` and `currStack` and `then`, what its caller does when the
call returns: put the type back it had overwritten, or mark the head of joined
objects and call again. `calls` counts calls of the handler, `entry` remembers
the stack of the outermost call. Each branch of the two nested `switch`es is a
disjunct named for the rule's type. The handler's argument (the text of the
value) and the tracing output are left out.

What a rule should select is not written down in the repository; `Layings`
states it without cursors: a laying assigns each step of the rule to an element
of the path so that names, indices and wildcards fit and `..` covers any stretch.

### Document

A token is a scalar, a brace, a bracket, a name, a colon, a comma or the final
NUL; characters inside scalars and names only matter by how deep they pile on
the LALR stack (`ScalarDepths`, `KeyDepths`, `Lead`). `expect` is the parser's
place, `nest` the open containers with the LALR depth at which each began. The
generated parser reduces by default, so what a token completes happens when
the token is seen; the model's `Report`, `NextRule`, `RuleDone`, `Leave*` are the
semantic actions in their order. `Fail` and `Overflow` leave the parse stack as it
is, which is what the code does: only `initHttpRequest` resets it. `Restart` and
`ParseAgain` begin a document on the same request. `below` is the part of the parse
stack that was there when the root was pushed; a request is *spoiled* when
there is any, and `JsonTraversal` promises nothing of it. `leftovers` counts, for the
property on the size of the stack only, the documents that left something.

### Registration

The grammar pushes the element of a step when it sees the token that follows;
`due` holds what the next token will push. `Fail` models every wrong token: the
push happens all the same and nothing is taken back. `Unset` is a `ruleSize` that
was never written; the walk treats it as uninitialised memory, which may lead to any
place of the table, back too (beyond the table the model does not go).

### Path

`buf` is rewritten as the code does, one character at a time being unobservable
between two tokens; `Copy`, `Back` and `ReducedLength` are the three kinds of
semantic action. `Normal` is the reference: take the segments in turn, drop empty
ones and `.`, remove the last for `..`.

### HTTP parser

A token is a whole word, path, key, value or line end, or `other`, any character
that does not fit, so every message can break off anywhere. `Accepts` is the
grammar; `Reductions` gives the events a token sets off *before* it is shifted
or found wrong. `execute*` runs handler by handler, because a handler may register
(`Handle`); `Last` is the count taken before the loop. `Look`, `Shift`, `Reject`, `Return` are
the driver: default reductions, the first error reported, the end of the input.

### Decoding

A text is a buffer of character codes with the list of what is to be decoded in
it. `decodeValue` and `trim` work on a place and a length that the grammar has
collected; a string of a document is compacted by the grammar's actions while
the reader goes on, an escape being replaced over its own digits. The reference
(`Meant`) decodes unit by unit and never looks at the buffer.

### Server

Three words make a message. `Read` brings any part of what has been sent and
overwrites only so much of `buffer`, which keeps the rest from the connection
before. Descriptors get the lowest free number, so a second `close` can hit
something else if anything is opened in between; the handler may open a file.
Clients connect, send, shut down and reset at any time. The kernel's side
(`Lowest`, `AtEof`, the clients) is external.

### Generator and driver

Each phase of `main()` is an action or, if it is a loop, one action per round, so
that invariants can be stated between phases. Lists that the code keeps sorted,
hash tables and bit sets are sets; where the order has an effect (the order in
which a conflict's pairs are met, the order of rules, the tie-breaks of the two
sorts) it is kept. `buildshifts` calls itself through `getstate`; its activations
are on `stack`. `ActionTable` has both searches, downwards
for an identical row and upwards for a hole, and the growth of the table by
`Growth` (20 in the code). Of the driver the history keeps what was given
(`text`) and the rules whose code has run (`trace`), which `AcceptedIsTranslated`
compares with the derivations of the grammar (`meanings`). Grammars have
precedences, token classes, a wildcard, fallbacks, rules without code, empty
rules and a `%start`; error symbols and destructors are not among what
`http11Lemon.y` uses and are left out.

## Runs

| run | shows | bounds |
|---|---|---|
| `match` | all properties of one match, and that `MatchInv` holds | rules of up to 3 steps after `$`, of all five types; paths of up to 3 steps |
| `document` | the parse stack is right at every value; refinement of `JsonTraversal` | LALR stack of 15, 2 documents on one request |
| `overflow` | LE_OK with elements left behind (finding) | LALR stack of 12, 2 starts |
| `rule_table` | accepted rules stay; the walk finds those before an HTTP callback or the root of a failed path, and ends if there is no such root | 5 elements, one name, one index |
| `uri_path` | the path in normal form, the rewriting safe | all paths of up to 9 characters |
| `uri` | `//x` for `/./x` (finding) | 4 characters |
| `http_parser` | order and number of callbacks, results | 19 tokens, 2 elements registered and a third by a handler |
| `server` | descriptors, answers, progress | 2 clients, 3 messages, 3 descriptors |
| `decoding` | values are given as meant, in place | paths of 4 units, parameters of 2 and 2, fields of 5 characters, objects with a key of 2 and a string of 3 |
| `escapes` | `\u006F` is told as `e` (finding) | the same documents, an escape with a letter |
| `packed_table` | the `acttab` implements `ActionMap` | every sequence of 3 rows over 3 tokens and 2 nonterminals |
| `lalr_driver` | the generator's phases and the parsers it makes | all sample grammars; texts of up to 5 tokens |

Why the bounds are enough. *match*: a laying depends on neighbours only; three
steps allow `..` first, last, twice and between any two types, and paths of
three steps make joined objects nest twice, which is where calls, marks and
the double call interact; longer stacks repeat these. *document*: 15 entries
admit two objects or six arrays inside one another, an overflow at every kind
of token, and, being odd, the overflow after an element of an array (`array_inc`),
for between tokens the depth is even; the build's 100 does not meet that one.
The second document meets what the first has left after acceptance, rejection
anywhere, or overflow; the tables have rules that recurse, rules in a row and a
rule hidden by an HTTP callback. *overflow*: 12 is the smallest depth that lets
every scalar be a document and still overflows inside one. *rule_table*: five
elements hold two rules, one failed in any place, around an HTTP callback.
*uri_path*: nine characters hold `/a/b/../c` and every mixture of shorter
segments; characters that are neither slash nor dot are pairwise different, so a
wrong copy shows. *http_parser*: 19 tokens are a message with two parameters and
one header or one and two; the table has up to two elements of any kind.
*server*: two clients are one that leaves something in the buffer and one that
meets it; three descriptors leave room for a file a handler opens. *decoding*:
an escape before, after and next to an escape, at the start and at the end of a
value, escapes of one and of two bytes, and a second string that a first could
reach into. *packed_table*: the third row is laid into holes that two rows leave
among them, and the search gives up at the end of the table; rows with two
actions for one token, which `%nonassoc` makes, are among them. *lalr_driver*:
every choice of two rules for one nonterminal and one for another out of right
sides that are empty, begin or end with what may be empty, or use a token class;
grammars that separate SLR, LALR and LR(1); the four mixes of precedence and
associativity of two operators; single rules without code in a row; a wildcard;
a fallback. Texts of five tokens hold two operators with their operands, which
is what precedence decides, and a stack of four is overflowed by them.

Each property has a mutant in `PROJECT.json`, a version of one definition with
which TLC finds that property violated; those that need more than a line are in
the modules, marked *Mistake*.

### Fairness

`WF(MatchStep)`, `WF(Work)`, `WF(Walk)`, `WF(Serve)`, `WF(Run)`: the program is one
thread, and between two tokens, two system calls or two handlers nothing makes it
wait. Nothing is assumed of documents, requests, texts or clients: no liveness
property says that a message ends. `EachIsServed` therefore takes two assumptions
in its statement: the server does not end (any failure of `accept`, or SIGPIPE,
ends it), and an accepted client sends something or shuts down; without the second
one silent client keeps all others waiting. `WalkEnds` excludes a table with the
root of a failed registration in reach: its size was never written, and when
that memory holds 0 the walk does not end. `ParseReturns` is about one call of
`Parse`, and is fair to its steps only.

## Findings

1. `overflow`: after an overflow of the LALR stack `parseJSON` can return LE_OK and
   leave the elements it pushed on the request; the next document is then matched
   with them below its root.
2. `uri`: a dot segment at the start of a path doubles the slash: `/../c` gives
   `//c`. (The same run would also find that a path whose last segment is taken
   back, like `/a/..`, is refused with LE_PARSING_IS_FAILED instead of being the root.)
3. `escapes`: the digits A to F of a `\u` escape count from 0: `\u006F` is `e`.

Also seen while modelling, though no document of the repository says otherwise:

- Documents that are rejected or overflow leave their elements on the request, and
  nothing checks that the next ones still fit into `elements[MAX_ELEMENTS]` (`StackFits`
  bounds each document's share).
- A failed `appendJsonPathRequest` leaves its root in the table (`WalkEnds` states
  the exception).
- LE_INCORRECT_SYNTAX is never returned (`OkIffComplete`).
- "ERROR STATE 2" of the matcher is an ordinary state: the rule `$..` and any scalar
  in an object reach it, and nothing is wrong there.
- A message that came in parts may be completed by bytes of an earlier connection
  (`AnswersAsAsked` is about messages that came whole).
- In `lemon.c`: the ERROR that `%nonassoc` leaves in a state is lost when the state
  only reduces; a cycle of single rules without code runs into the assertion of
  `CompressTables`; `yyerrcnt` counts down after a shift that has overflowed; the
  comment of `acttab_insert` on `i` when no hole is found ("i is left at
  p->nAction") is not what the loop does, which is harmless as the proof of
  `PackedTable` shows.

## Proofs

Theorems hold for every value of the constants that the named assumptions of the
modules allow: any tables, keys, clients, descriptors, symbols, stack depths, and
documents, messages and paths of every length.

| module | theorems | of the runs' properties |
|---|---|---|
| `JsonPathMatchProofs` | `MatchInvHolds`, `TypeCorrect`, `StackIsRestored`, `NestingIsBounded`, `ErrorState1Unreachable`, `CallsAreOwed` | `MatchInv`, `TypeOK`, `StackRestored`, `NestingBounded`, `NoErrorState1`, `CallsOwed` |
| `JsonDocumentProofs` | `NothingStays`, `BoundedByLalrStack`, `IndexesAreKept`, `MatchesStartClean`, `DocumentsImplementTraversal` | `AcceptedIsBalanced`, `StackFits`, `OuterCursorsStay`, `MatchedOnParseStack`, `ImplementsTraversal` |
| `RuleTableProofs` | `AcceptedStayRules`, `WalksFindRules` | `AcceptedAreRules`, `WalkFindsRules` |
| `HttpParserProofs` | `ToldInOrder`, `OkMeansComplete`, `StopsAtMessage`, `SilentAfterwards`, `CalledAsFound` | `EventsInOrder`, `OkIffComplete`, `ReadsOnePast`, `NothingToldAfterwards`, `CalledOnce` |
| `UriPathProofs` | `RewritingStaysBehind`, `UriIsNormalButForSlash` | `WritesBehindReader`, `UriIsNormal` |
| `ServerProofs` | `NoDescriptorLeaks`, `ForeignDescriptorsStay`, `WholeMessagesAnswered` | `NothingLeaks`, `ClosesOnlyItsOwn`, `AnswersAsAsked` |
| `TextDecodingProofs` | `DecodersReadInText`, `NothingElseIsRefused`, `RestStaysAsReceived`, `ToldAsMeant` | `ReadsInText`, `RestAsReceived`, `GivenAsMeant` |
| `PackedTableProofs` | `PackingImplementsMap`, `LookupsStayInTable`, `FoundAsEntered` | `RefinesMap`, `TokensInTable` |

Each module has an inductive invariant, and one lemma or step per action that
preserves it.

**Matcher.** `StackRestored` speaks of the end of the outermost call only and is
not inductive. `MatchInv` is the strengthening: the stack has kept its length and
keys (`SameShape`); what a waiting call will put back is the type the element had
(`PendingTypes`); every element that differs from `entry` bears a transient
mark and belongs to a waiting call that will put it back (`MarksOwned`); only
objects are joined (`JoinedObjects`); a call that waits did so inside the loop
(`WaitingInRange`). When no call is left, no mark has an owner, so there is none.
`CursorsMove` is the part for the nesting: each nested call has moved a cursor
beyond its caller's, or is the extra call on a joined object, which moves on
before it calls again. A match starts with any rule and any stack that satisfy
`IsRule` and `IsParseStack`; that these are what registration and parsing
deliver is proved next.

`CallsAreOwed` is about the number of calls. `Due` says of each call on the stack
of frames how many calls of the handler it is still to make: `Ways`, the number of
layings of the rest of the rule over the rest of the path, where the rest depends
on how the type of the element is marked (a joined object has left to its callee
the layings in which `..` ends there). `Balance` says that the calls made and those
due from all frames, summed from the outermost one inwards, are `Owed`; each branch
of the matcher moves what one frame owes to itself and its callee. What makes these
splits true are lemmas about layings, by whether the step `..` takes the next
element of the path or leaves it; they need no induction over the rule, since one
element is taken at a time. `Placed`, `NestUpwards` and `ObjectsJoin` say where a
call may stand (`..` joins or jumps a field only when a step follows it, for
instance), and were found necessary one by one; that `CountInv` is inductive was
checked by TLC with a recursive sum in the place of `AddsUp` before it was proved.

**Registration.** `AcceptedAreRules` is not inductive, for accepting makes a rule of
what was pushed before. `Growing` says of the elements pushed so far, and of the
one that is due, that they are a rule up to here and lie behind everything that
was accepted; a failure leaves them there, behind the accepted ones still.
For `WalksFindRules`, `Tiled` says that before the first HTTP callback each element
lies in the block of an accepted rule or behind a root that got no size, and
`Visiting` that a walk that has met no such root yet stands where no block is cut in
two and has visited exactly the accepted places before; so it never steps into the
middle of a rule. The theorem speaks of the moment when a walk ends or comes to
the first such root, whichever is first: the rules before it have been handed over,
each once and in order. Of what follows such a root nothing holds.
`Room` is there because a failing registration may push one more element.

**Document.** `Heights` gives each open container its height on the parse stack
and ties it to the depth of the LALR stack at which it began: two entries for
each element, so a document has at most half the entries of the other on the
parse stack (`MostOfOne`), and leaves no more than this when it is rejected or
overflows. `LeftInv` adds up: what lies below the root is at most that share for
each document that left something (`leftovers`). So `BoundedByLalrStack` bounds the whole
parse stack by the number of such documents, not by a constant: nothing in the code
keeps it in its array. With the build's LALR stack of 100 a document
has at most 49 elements; `MAX_ELEMENTS` is 128, so a request with up to 30
registered elements holds a document and one left behind, and documents rejected in
their depths on one request may pass the end of the array.
`Kinds` says that the element at that height is the container's, and `ShapeInv`
that on a clean request the stack has the shape `IsParseStack` asks for, but for
the marks that `Report` sets. While a match is on, all this is said of the stack
that will be restored, and `MatchInv` is part of the invariant: the proof uses
the matcher's lemmas `InitInv`, `MatchNextKeepsInv` and `NoMarkIsLeft`, so parser
and matcher are proved to keep each other's assumptions, value after value.
`LiveRulesAre` takes from `TablesAssumption` that tables hold rules, which is what
`AcceptedStayRules` says of registration.

`DocumentsImplementTraversal` is the refinement. The mapping forgets the marks, the
frames and the parse stack but for the keys of its steps (`ValuePath`), which is
the path of the value, and, once a request is spoiled, everything but the rules. `RefInv`
adds to the invariant that, on a clean request, the rule at hand is the next to be
told and `CountInv` holds of its match, and that an overflow leaves something on the
stack. When a rule is done, `CallsAreOwed`'s argument gives the number of its calls
as layings over the path of the stack, and `SameLayings` shows these to be the layings
over the traversal's path, which knows names and indices only: this is where
`NamesAssumption` is needed, for a key of the code is a `char *` or a number and
is told apart by the type of its element. A request that is spoiled stays so
(`SpoiledStays`), so the mapping may go blind. Report and the matcher's steps are
stutters; every other step is one of the traversal.

**HTTP parser.** `Story` is what has been told and what waits to be told. It is
ordered, and bounded by the place the token at hand leads to (`Heading`, `Top`);
`StopInv` says that a set flag leaves nothing to tell; `BlankInv` that the empty
line is reached with all flags clear and passed by one token at most.
For `CalledAsFound`, `CallsInv` says that the elements the loop looks at are those
that were there when the event came, and that of them exactly those before the
`i`-th that match have been called; what a handler registers comes behind them.

**Path.** `BehindInv`: the path built so far ends before what is being collected,
and this reaches up to the reader. For `UriIsNormalButForSlash`, `TextInv` says that
from the last slash on the buffer is as received and that the path built stands
for the normal form of what comes before, but for the doubled slash of the finding
(`StandsFor`). The reference `Normal` is a recursive function on the prefixes of the
target; that it obeys its equations is proved from the least place where it could
not. TLC had checked the invariant on all targets of up to six characters.

**Decoding.** `RestAsReceived` is not inductive: that a write hits a value needs where
the writer stands. `DecodeInv` has `writePos` behind `readPos`, and what is still to be
read as it was received, so that a `%` has two digits behind it as the grammar saw
it, and is never refused (`EscapeIsDecoded`, and with it `OnlyEmptyRefused`, a conjunct
of `GivenAsMeant`); for this, `TodoInv` keeps the places of the jobs to come apart from all that has been
touched. `TrimInv` says that a field of which nothing is left has lost a blank on the left,
and that the loop from the right meets what stopped the one from the left.
`JsonInv` has the characters collected end before the one being read, and all between
within the string: an escape gives no more bytes than it has digits (`BytesFit`), and it is
appended before the reader's place (`ReduceInPlace`). `TextsAssumption` is what the grammar
hands to the decoders (`Fits`): places in the text, apart from each other, a `%` with two
digits, a field with the end of its line behind it. That a document ends where its
braces do, and not inside a string, is a guard of the model (see Not modelled), no theorem.

`GivenAsMeant` compares the buffer at the end with a reference on the text as received.
`Meaning` says in every state what the two have in common. `HistInv` ties the jobs done
to what was given; by `ToldInv` a string already given lies before the job at hand or
before `Start`, where nothing writes any more. `ValueInv` is the decoder's loop: what it has
written are the characters that begin before the reader, and the writer stands at their number
(`Rank`). `FieldInv` gives what `trim` keeps, `EscapeInv` the digits of the escape being
reduced, `GivenInv` the strings of a document: those given, followed by those that the
reference finds from the reader on, are those meant. The reference is recursive on the text;
that it obeys its equations is proved with least elements of sets of numbers
(`CountUp`, `CountDown`), and each action has its lemma (`...KeepsMeaning`). The theorem is
about texts in which a `\u` has decimal digits only: with letters it is the finding.
TLC had checked `Meaning` on the texts of the run `decoding` first.

**Server.** `FdsInv` says whose each descriptor is at each step, `QueueInv` that who
waits has not been looked at, `ServeInv` what has been parsed of the message being
served, and that a message read whole is all of the buffer; `DueInv` follows.

**Packed table.** `TableOK`: a slot has one entry and lies in the memory. `RowsFound`
is the map. It is preserved because a row placed among others shares its offset
with none that reads the same slots (`Owned`), and where the search gives up
because every row of tokens has left room for all tokens behind it (`HasRoom`):
that is what the padding by `nterminal` is for, and without it the theorem fails.
The refinement maps the table to the function from rows to what is found.

Model-checked only:

- liveness (`MatchEnds`, `ValuesAreLeft`, `WalkEnds`, `EachIsServed`, `ParseReturns`),
  which the prover cannot treat under fairness;
- `FollowSetsAreLalr`, `AcceptedIsTranslated`, `ErrorIsPrompt`, `PrecedenceHonoured`: their
  references search the sentences and derivations of a grammar, and their modules rest
  on the recursive operators of `Grammar`, which the prover cannot treat;
- `TokensAsResolved`, `AssertionsHold` and `OverflowIsFinal`: their modules rest on the
  same recursive operators.

## Not modelled

- Tracing output; texts of values; positions of containers handed to handlers.
- `sscanf` of an index too large for `size_t`; surrogate pairs, which the code
  converts one by one.
- After an overflow of the LALR stack, documents that go on with '1' or '3' and
  so start the other modes of the grammar.
- Handlers of JSON values that register rules while a document is parsed.
- Bytes of 0x80 and more, which index `ascii[]` with a negative number where
  `char` is signed; a document that ends inside a string, which is read on
  beyond its end; the limit MAX_ELEMENTS, which the code does not check.
- The generator's input and output: command line, the parser of `.y` files,
  preprocessing, the translation of code blocks, reports and generated text.
  Nothing of it decides what a parser does beyond the grammar it hands on.
- `createString` and the character classes of `strncasecmp`: names are compared
  as model values, equal up to case. The build has no behaviour of its own, but
  see the hazard on YYSTACKDEPTH.

## Plan

Done, in this order: matcher and its proofs, document and traversal, rule table,
path, HTTP parser, server; generator, tables, driver, decoding; the proofs of all
components but the generator. To come:

1. `JsonRequest`: `RuleTable` composed with `JsonDocument`, so that documents are
   parsed on tables that registration built, failed ones and handlers that
   register included.
2. An abstract dispatch (a message is a sequence of events, each told once to each
   handler) that `HttpParser` implements, and an abstract server (accept, answer,
   close) for `Server`.
3. Proofs: `OverflowIsFinal` and `AssertionsHold` of `LalrDriver`, from the tables as
   constants with what `ParserTables` is checked to give them as assumptions.

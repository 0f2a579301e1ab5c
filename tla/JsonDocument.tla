---------------------------- MODULE JsonDocument ----------------------------
(***************************************************************************)
(* parseJSON on one request (parser.c 276, http11Lemon.y 289-450,          *)
(* jsonPathInternal.c 525-618): the LALR parser reads a JSON document, the *)
(* grammar's actions keep the parse stack behind the registered elements   *)
(* of the request, and each value, as soon as it is read, is matched with  *)
(* the registered JSONPath rules by JsonPathMatcher on that same stack.    *)
(*                                                                         *)
(* The document is not given: at each point where the parser waits for a   *)
(* token, any token may come.  A number, string, true, false or null is    *)
(* one event; how many entries of the LALR stack its tokens take is kept,  *)
(* for the stack is an array of YYSTACKDEPTH entries, and a push beyond it *)
(* empties the parser's stack but not the request's (lempar.c 601-617).    *)
(*                                                                         *)
(* "Mistake:" marks variants no action uses, as in JsonPathMatcher.        *)
(***************************************************************************)
EXTENDS JsonPathMatcher

CONSTANTS
    Tables,         \* what may be registered: sequences of rules and HttpBlocks
    YYSTACKDEPTH,   \* entries of the LALR stack
    MaxIndex,       \* bound: array elements are counted up to this
    MaxRoots        \* bound: roots pushed, by parses and restarts

VARIABLES
    table,          \* the registered blocks, in order of registration
    expect,         \* where the parse is: waiting for a token, see
                    \* Waiting, or at "start", "report", "match" or "leave"
                    \* of a value, or "done" or "failed"
    nest,           \* open containers: kind, and depth of the LALR stack below
    yydepth,        \* entries on the LALR stack
    told,           \* calls the handlers of the first rules got for this value
    below,          \* elements that were on the parse stack under this root
    leftovers,      \* history: earlier documents that left some of them
    found,          \* history: elements there when parseJSON was called
    roots           \* documents started on this request

docVars == <<table, expect, nest, yydepth, told, below, leftovers, found, roots>>
vars    == <<matchVars, docVars>>

\* An HTTP callback's element: it ends the loop over the rules (588).
HttpBlock == <<[type |-> "HTTP", key |-> NoKey]>>

ASSUME TablesAssumption ==
    \A t \in Tables : t \in Seq({HttpBlock} \cup {r \in Seq(RuleElements) : IsRule(r)})
ASSUME DepthAssumption  == YYSTACKDEPTH \in Nat /\ YYSTACKDEPTH > 6
ASSUME BoundsAssumption == MaxIndex \in Nat /\ MaxRoots \in Nat \ {0}

(* Where the parser waits for a token: a value; the first thing in a       *)
(* container; a key; the colon after it; a comma or the end of the         *)
(* container; the end of the document; or anything, on an emptied stack.   *)
Waiting == {"value", "first", "key", "colon", "next", "ended", "overflowed"}

-----------------------------------------------------------------------------
(* The LALR stack *)

\* Entry 0 is the bottom: yystackEnd is entry YYSTACKDEPTH - 1.
Room(pushes) == yydepth + pushes <= YYSTACKDEPTH - 1

(* The most entries the tokens of a number, string, true, false or null    *)
(* and of a key take; "" takes 2 and a \u after other characters 8.        *)
ScalarDepths == 1..8
KeyDepths    == {2, 3, 4, 7, 8}

(* json_ows comes before each value but the root.                          *)
Lead == IF nest = <<>> THEN 0 ELSE 1

Inside    == nest[Len(nest)]
InObject  == nest # <<>> /\ Inside.kind = "object"
InArray   == nest # <<>> /\ Inside.kind = "array"

AtValue   == expect = "value" \/ (expect = "first" /\ InArray)
AtKey     == expect = "key" \/ (expect = "first" /\ InObject)

(* The pushes of the next events that can come here.                       *)
NextPushes ==
    CASE AtValue /\ expect = "value"       -> {Lead + d : d \in ScalarDepths}
      [] AtValue /\ expect = "first"       -> {Lead + d : d \in ScalarDepths} \cup {2}
      [] expect = "key"                    -> {1 + d : d \in KeyDepths}
      [] AtKey /\ expect = "first"         -> {1 + d : d \in KeyDepths} \cup {2}
      [] expect \in {"colon", "next"}      -> {2}
      [] expect = "leave" /\ InArray       -> {1}
      [] expect = "leave" /\ nest = <<>>   -> {2}
      [] OTHER                             -> {}

-----------------------------------------------------------------------------
(* The parse stack of the request *)

Push(t, k) == stack' = Append(stack, [type |-> t, key |-> k])
PopStack   == stack' = SubSeq(stack, 1, Len(stack) - 1)
TopElement == stack[Len(stack)]

NoMatch == UNCHANGED <<rules, frames, calls, entry>>

-----------------------------------------------------------------------------
(* parse() shifts the mode token; json_ows and start_root are reduced with *)
(* the first token, whatever it is.                                        *)
StartRoot ==
    /\ expect = "start"
    /\ Push("PARSED_ROOT", NoKey)
    /\ expect' = "value" /\ yydepth' = yydepth + 2 /\ below' = Len(stack)
    /\ leftovers' = IF Len(stack) > below THEN leftovers + 1 ELSE leftovers
    /\ NoMatch /\ UNCHANGED <<isComplex, table, nest, told, found, roots>>

(* A number, string, true, false or null is read. *)
Scalar ==
    /\ AtValue
    /\ \E d \in ScalarDepths : Room(Lead + d)
    /\ isComplex' = FALSE
    /\ expect' = "report" /\ yydepth' = yydepth + Lead + 1
    /\ NoMatch /\ UNCHANGED <<stack, table, nest, told, below, leftovers, found, roots>>

Open(kind, type, key) ==
    /\ AtValue /\ Room(Lead + 1)
    /\ Push(type, key)
    /\ nest' = Append(nest, [kind |-> kind, base |-> yydepth + Lead])
    /\ expect' = "first" /\ yydepth' = yydepth + Lead + 1
    /\ NoMatch /\ UNCHANGED <<isComplex, table, told, below, leftovers, found, roots>>

OpenObject == Open("object", "OBJECT", NoKey)
OpenArray  == Open("array", "PARSED_INDEX", 0)

Key(name) ==
    /\ AtKey
    /\ \E d \in KeyDepths : Room(1 + d)
    /\ Push("FIELD", name)
    /\ expect' = "colon" /\ yydepth' = yydepth + 2
    /\ NoMatch /\ UNCHANGED <<isComplex, table, nest, told, below, leftovers, found, roots>>

Colon ==
    /\ expect = "colon" /\ Room(2)
    /\ expect' = "value" /\ yydepth' = yydepth + 2
    /\ UNCHANGED <<matchVars, table, nest, told, below, leftovers, found, roots>>

Comma ==
    /\ expect = "next" /\ Room(2)
    /\ TopElement.type = "PARSED_INDEX" => TopElement.key <= MaxIndex
    /\ expect' = IF InObject THEN "key" ELSE "value"
    /\ yydepth' = yydepth + 2
    /\ UNCHANGED <<matchVars, table, nest, told, below, leftovers, found, roots>>

\* Mistake: the array cursor stays, only objects are taken off.
CloseObjectsOnly ==
    /\ nest # <<>> /\ expect \in {"first", "next"} /\ Room(2)
    /\ IF InObject THEN PopStack ELSE UNCHANGED stack
    /\ isComplex' = TRUE
    /\ nest' = SubSeq(nest, 1, Len(nest) - 1)
    /\ expect' = "report" /\ yydepth' = Inside.base + 1
    /\ NoMatch /\ UNCHANGED <<table, told, below, leftovers, found, roots>>

(* The element of the container goes when its last bracket is read, before *)
(* the container is reported as a value.                                   *)
Close ==
    /\ nest # <<>> /\ expect \in {"first", "next"} /\ Room(2)
    /\ PopStack
    /\ isComplex' = TRUE
    /\ nest' = SubSeq(nest, 1, Len(nest) - 1)
    /\ expect' = "report" /\ yydepth' = Inside.base + 1
    /\ NoMatch /\ UNCHANGED <<table, told, below, leftovers, found, roots>>

-----------------------------------------------------------------------------
(* executeJsonPathCallbackWithValue, 568-598 *)

\* Mistake: only the last field is looked at.
HasContainerAsValue(s, i) == i = Len(s) /\ isComplex

(* 574-583: fields are marked that have a container as value. *)
HasContainer(s, i) ==
    \/ i = Len(s) /\ isComplex
    \/ i < Len(s) /\ s[i + 1].type \in {"OBJECT", "PARSED_INDEX"}

Marked(s) ==
    [i \in DOMAIN s |->
        IF s[i].type = "FIELD" /\ HasContainer(s, i)
            THEN [s[i] EXCEPT !.type = "FIELD_WITH_OBJECT"] ELSE s[i]]

Report ==
    /\ expect = "report"
    /\ stack' = Marked(stack)
    /\ expect' = "match"
    /\ NoMatch /\ UNCHANGED <<isComplex, table, nest, yydepth, told, below, leftovers, found, roots>>

(* The rules the loop reaches: those before the first HTTP callback. *)
LiveRules ==
    LET reached == {n \in 0..Len(table) : \A i \in 1..n : table[i] # HttpBlock}
    IN  SubSeq(table, 1, CHOOSE n \in reached : \A m \in reached : m <= n)

Matching == expect = "match" /\ rules # <<>>

NextRule ==
    /\ expect = "match" /\ rules = <<>> /\ Len(told) < Len(LiveRules)
    /\ StartMatch(LiveRules[Len(told) + 1], stack, isComplex)
    /\ UNCHANGED docVars

RuleStep == MatchStep /\ UNCHANGED docVars

\* Mistake: the loop does not go on to the next rule.
RuleDoneAgain ==
    /\ Matching /\ frames = <<>>
    /\ rules' = <<>> /\ calls' = 0 /\ entry' = <<>>
    /\ UNCHANGED <<stack, isComplex, frames, docVars>>

RuleDone ==
    /\ Matching /\ frames = <<>>
    /\ told' = Append(told, calls)
    /\ rules' = <<>> /\ calls' = 0 /\ entry' = <<>>
    /\ UNCHANGED <<stack, isComplex, frames>>
    /\ UNCHANGED <<table, expect, nest, yydepth, below, leftovers, found, roots>>

AllRulesDone ==
    /\ expect = "match" /\ rules = <<>> /\ Len(told) = Len(LiveRules)
    /\ expect' = "leave"
    /\ UNCHANGED <<matchVars, table, nest, yydepth, told, below, leftovers, found, roots>>

-----------------------------------------------------------------------------
(* The value is done with. *)

\* Mistake: the field stays on the stack.
LeaveMemberOnStack ==
    /\ expect = "leave" /\ InObject
    /\ expect' = "next" /\ yydepth' = Inside.base + 3 /\ told' = <<>>
    /\ NoMatch /\ UNCHANGED <<stack, isComplex, table, nest, below, leftovers, found, roots>>

(* object_content, 341-342 *)
LeaveMember ==
    /\ expect = "leave" /\ InObject
    /\ PopStack
    /\ expect' = "next" /\ yydepth' = Inside.base + 3 /\ told' = <<>>
    /\ NoMatch /\ UNCHANGED <<isComplex, table, nest, below, leftovers, found, roots>>

\* Mistake: every open array counts the element.
LeaveElementOfAll ==
    /\ expect = "leave" /\ InArray /\ Room(1)
    /\ stack' = [i \in DOMAIN stack |->
                    IF stack[i].type = "PARSED_INDEX"
                      THEN [stack[i] EXCEPT !.key = @ + 1] ELSE stack[i]]
    /\ expect' = "next" /\ yydepth' = Inside.base + 3 /\ told' = <<>>
    /\ NoMatch /\ UNCHANGED <<isComplex, table, nest, below, leftovers, found, roots>>

\* Mistake: the element is not counted.
LeaveElementUncounted ==
    /\ expect = "leave" /\ InArray /\ Room(1)
    /\ expect' = "next" /\ yydepth' = Inside.base + 3 /\ told' = <<>>
    /\ NoMatch /\ UNCHANGED <<stack, isComplex, table, nest, below, leftovers, found, roots>>

(* array_inc, 356 *)
LeaveElement ==
    /\ expect = "leave" /\ InArray /\ Room(1)
    /\ stack' = IF TopElement.type = "PARSED_INDEX"
                  THEN [stack EXCEPT ![Len(stack)] = [TopElement EXCEPT !.key = @ + 1]]
                  ELSE stack
    /\ expect' = "next" /\ yydepth' = Inside.base + 3 /\ told' = <<>>
    /\ NoMatch /\ UNCHANGED <<isComplex, table, nest, below, leftovers, found, roots>>

(* end_root, 295 *)
LeaveRoot ==
    /\ expect = "leave" /\ nest = <<>> /\ Room(2)
    /\ PopStack
    /\ expect' = "ended" /\ yydepth' = yydepth + 2 /\ told' = <<>>
    /\ NoMatch /\ UNCHANGED <<isComplex, table, nest, below, leftovers, found, roots>>

(* The terminating NUL: json is reduced and the parse returns LE_OK. *)
Accept ==
    /\ expect = "ended"
    /\ expect' = "done" /\ yydepth' = 0
    /\ UNCHANGED <<matchVars, table, nest, told, below, leftovers, found, roots>>

(* A token that does not fit: parse() stops and returns an error.  Nothing *)
(* takes back what is on the parse stack of the request.                   *)
Fail ==
    /\ expect \in Waiting
    /\ expect' = "failed" /\ nest' = <<>> /\ yydepth' = 0
    /\ UNCHANGED <<matchVars, table, told, below, leftovers, found, roots>>

(* A push beyond the LALR stack: the parser drops all entries and the      *)
(* token, sets no flag of parserState, and is as before the mode token.    *)
Overflow ==
    /\ \E n \in NextPushes : ~Room(n)
    /\ expect' = "overflowed" /\ nest' = <<>> /\ yydepth' = 0 /\ told' = <<>>
    /\ UNCHANGED <<matchVars, table, below, leftovers, found, roots>>

(* The next character is a '2': as TOK_TWO it starts the JSON mode anew.   *)
Restart ==
    /\ expect = "overflowed" /\ roots < MaxRoots
    /\ expect' = "start" /\ yydepth' = 1 /\ roots' = roots + 1
    /\ UNCHANGED <<matchVars, table, nest, told, below, leftovers, found>>

(* The next document on the same request: only initHttpRequest would reset *)
(* the size of the parse stack.                                            *)
ParseAgain ==
    /\ expect \in {"done", "failed"} /\ roots < MaxRoots
    /\ expect' = "start" /\ yydepth' = 1 /\ roots' = roots + 1
    /\ found' = Len(stack)
    /\ UNCHANGED <<matchVars, table, nest, told, below, leftovers>>

-----------------------------------------------------------------------------
Init ==
    /\ table \in Tables
    /\ rules = <<>> /\ stack = <<>> /\ isComplex = FALSE
    /\ frames = <<>> /\ calls = 0 /\ entry = <<>>
    /\ expect = "start" /\ nest = <<>> /\ yydepth = 1
    /\ told = <<>> /\ below = 0 /\ leftovers = 0 /\ found = 0 /\ roots = 1

Token ==
    \/ Scalar \/ OpenObject \/ OpenArray \/ Colon \/ Comma \/ Close
    \/ \E n \in Names : Key(n)
    \/ Accept \/ Fail \/ Restart
    \/ expect \in Waiting /\ Overflow

(* What the code does of itself, without looking at the next token. *)
Work ==
    \/ StartRoot \/ Report \/ NextRule \/ RuleStep \/ RuleDone \/ AllRulesDone
    \/ LeaveMember \/ LeaveElement \/ LeaveRoot
    \/ expect = "leave" /\ Overflow

Ended == expect \in {"done", "failed"} /\ roots = MaxRoots /\ UNCHANGED vars

Next == Work \/ Token \/ ParseAgain \/ Ended

(* The thread that parses does nothing else and nothing makes it wait: the *)
(* work between two tokens goes on.  Nothing is said of the tokens.        *)
Spec == Init /\ [][Next]_vars /\ WF_vars(Work)

-----------------------------------------------------------------------------

(* Every match of a document on a clean request starts on a stack such as  *)
(* JsonPathMatch assumes: what is proved there of all such stacks holds    *)
(* of the stacks the parser builds.                                        *)
MatchedOnParseStack ==
    (Matching /\ below = 0) => IsParseStack(entry, isComplex)

(* Two stacks that do not know of each other: the parse stack, which lies  *)
(* in the request's array and is bounded by nothing, and the LALR stack,   *)
(* which is bounded.  A document has at most half the entries of the LALR  *)
(* stack on the parse stack, and so much at most it leaves there when it   *)
(* is rejected or overflows; accepted ones leave nothing.  With            *)
(* YYSTACKDEPTH = 100 and MAX_ELEMENTS = 128 a request with up to 30       *)
(* elements registered is sure to have room for a document and one left    *)
(* behind; with two left behind it need not have.                          *)
MostOfOne == (YYSTACKDEPTH - 1) \div 2

StackFits == Len(stack) <= (leftovers + 1) * MostOfOne

(* A document that is accepted leaves nothing of what it pushed, however   *)
(* its values nest and whatever was there when its root was pushed.        *)
AcceptedIsBalanced == expect = "done" => Len(stack) = below

(* An accepted document leaves the parse stack as parseJSON found it, for  *)
(* requests are used again after LE_OK (t_8.c).  The code does not keep    *)
(* this: after an overflow of the LALR stack a '2' makes it start again on *)
(* what is on the parse stack, and it may then accept.                     *)
AcceptedLeavesNothing == expect = "done" => Len(stack) = found

(* The array cursor on the stack counts the elements read so far: a push,  *)
(* a mark or a pop for another container never touches it.                 *)
OuterCursorsStay ==
    [][\A i \in DOMAIN stack :
          (i < Len(stack) /\ i < Len(stack')) => stack'[i].key = stack[i].key]_vars

(* Each value that was read is left, or the LALR stack overflows: neither  *)
(* the loop over the rules nor the matcher keeps the parser from going on. *)
ValuesAreLeft == expect = "report" ~> expect \in {"next", "ended", "overflowed"}

-----------------------------------------------------------------------------
(* What JsonTraversal promises of a request as long as nothing is left on  *)
(* its parse stack by an earlier document.                                 *)
Spoiled ==
    \/ below > 0
    \/ expect \in {"start", "failed", "overflowed"} /\ stack # <<>>

At ==
    IF Spoiled THEN "spoiled"
    ELSE CASE expect = "start"  -> "value"
           [] expect = "match"  -> "report"
           [] expect = "failed" -> "rejected"
           [] OTHER             -> expect

KindsOf(containers) == [i \in DOMAIN containers |-> containers[i].kind]
KeysOf(path)        == [i \in DOMAIN path |-> path[i].key]

OpenKinds      == IF Spoiled THEN <<>> ELSE KindsOf(nest)
ValuePath      == IF Spoiled THEN <<>> ELSE KeysOf(PathOf(stack))
ValueIsComplex == IF Spoiled THEN FALSE ELSE isComplex
CallsTold      == IF Spoiled THEN <<>> ELSE told

Traversal == INSTANCE JsonTraversal WITH
    live    <- LiveRules,
    at      <- At,
    kinds   <- OpenKinds,
    path    <- ValuePath,
    complex <- ValueIsComplex,
    told    <- CallsTold

ImplementsTraversal == Traversal!Spec
=============================================================================

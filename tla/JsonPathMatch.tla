--------------------------- MODULE JsonPathMatch ---------------------------
(***************************************************************************)
(* One outermost call of isJsonPathResolved: any rule the grammar can      *)
(* build against any parse stack it can build.  JsonDocument shows that    *)
(* the stacks on which the parser starts a match on a clean request are    *)
(* such stacks.                                                            *)
(***************************************************************************)
EXTENDS JsonPathMatcher

MatchInit ==
    /\ IsRule(rules)
    /\ isComplex \in BOOLEAN
    /\ IsParseStack(stack, isComplex)
    /\ frames = <<Frame(1, 1)>>
    /\ calls = 0
    /\ entry = stack

Returned == frames = <<>> /\ UNCHANGED matchVars

MatchNext == MatchStep \/ Returned

(* The server is one thread and the matcher neither waits nor blocks: once *)
(* called it keeps stepping.                                               *)
MatchSpec == MatchInit /\ [][MatchNext]_matchVars /\ WF_matchVars(MatchStep)

-----------------------------------------------------------------------------
(* Every variable keeps its type; the cursors are at most one past the     *)
(* elements they run over (the loop test of line 95 compares them so).     *)
TypeOK ==
    /\ rules \in Seq(RuleElements) /\ rules # <<>>
    /\ stack \in Seq(StackElements) /\ stack # <<>>
    /\ entry \in Seq(StackElements)
    /\ isComplex \in BOOLEAN
    /\ frames \in Seq(Frames)
    /\ calls \in Nat
    /\ \A f \in 1..Len(frames) : /\ frames[f].rule <= Len(rules) + 1
                                /\ frames[f].pos <= Len(stack) + 1

(* The matcher works in place on the stack the parser goes on with: when   *)
(* the outermost call returns, every element is as that call found it,     *)
(* whichever of the returns inside the nested calls was taken.             *)
StackRestored == frames = <<>> => stack = entry

(* The handler of the rule is called exactly as often as the steps of the  *)
(* rule can be laid over the path of the value: never for a value the rule *)
(* does not select, never too few times, and not twice for one laying.     *)
CallsOwed == frames = <<>> => calls = Owed(rules, entry, isComplex)

(* The calls of isJsonPathResolved never nest deeper than there are rule   *)
(* and stack elements, and one: the C stack the matcher needs is bounded   *)
(* by the element array and not by the document or the rules' shape.       *)
NestingBounded == Depth <= Len(rules) + Len(stack) + 1

(* "ERROR STATE 1" (453): a joined object is never the last element.       *)
NoErrorState1 ==
    ~(InLoop /\ Rule.type = "RECURSIVE" /\ Element.type = "JOINED_OBJECT" /\ AtLastStack)

(* The outermost call returns, for every rule and every stack.             *)
MatchEnds == <>(frames = <<>>)

-----------------------------------------------------------------------------
(* The argument for StackRestored, part by part.                           *)

SameShape ==
    /\ Len(stack) = Len(entry)
    /\ \A i \in 1..Len(stack) : stack[i].key = entry[i].key

EntrySettled ==
    \A i \in 1..Len(entry) : /\ entry[i].type \in SettledTypes
                             /\ entry[i].type = "OBJECT" => i < Len(entry)

Restores == {"OBJECT", "PARSED_INDEX"} \cup FieldTypes

Owners == Restores \cup {"callAsHead"}

(* The type a waiting caller will put back is the one the element had.     *)
PendingTypes ==
    \A f \in 1..Len(frames) :
        LET c == frames[f] IN
        /\ c.then \in Restores =>
               c.pos <= Len(stack) /\ entry[c.pos].type = c.then
        /\ c.then = "callAsHead" =>
               c.pos <= Len(stack) /\ entry[c.pos].type = "OBJECT"

(* A mark is only ever on an element some waiting caller will put back.    *)
MarksOwned ==
    \A i \in 1..Len(stack) :
        \/ stack[i].type = entry[i].type
        \/ /\ stack[i].type \in TransientTypes
           /\ \E f \in 1..Len(frames) : /\ frames[f].pos = i
                                        /\ frames[f].then \in Owners

(* Only objects are joined. *)
JoinedObjects ==
    \A i \in 1..Len(stack) :
        stack[i].type \in {"JOINED_OBJECT", "HEAD_OF_JOINED_OBJECT"}
            => entry[i].type = "OBJECT"

(* Only the innermost call runs; those that wait were inside the loop, and *)
(* the one that will mark a head is at "..".                               *)
WaitingInRange ==
    \A f \in 1..Len(frames) :
        /\ f < Len(frames) => frames[f].then # "run"
        /\ frames[f].then # "run" => /\ frames[f].rule <= Len(rules)
                                    /\ frames[f].pos <= Len(stack)
        /\ frames[f].then = "callAsHead" => rules[frames[f].rule].type = "RECURSIVE"

(* Each call has moved a cursor, or is the extra call on a joined object.  *)
CursorsMove ==
    \A f \in 1..Len(frames) :
        LET c == frames[f] IN
        \/ f < c.rule + c.pos
        \/ /\ f = c.rule + c.pos
           /\ c.then \in {"run", "OBJECT"}
           /\ c.then = "run" =>
                  /\ c.rule <= Len(rules) /\ rules[c.rule].type = "RECURSIVE"
                  /\ c.pos <= Len(stack)
                  /\ stack[c.pos].type \in {"JOINED_OBJECT", "HEAD_OF_JOINED_OBJECT"}

(* The inductive invariant: the marks the nested calls have put on the     *)
(* stack and the types they owe back agree at every step, and every call   *)
(* has moved.                                                              *)
MatchInv ==
    /\ TypeOK
    /\ SameShape /\ EntrySettled
    /\ PendingTypes /\ MarksOwned /\ JoinedObjects
    /\ WaitingInRange /\ CursorsMove
=============================================================================

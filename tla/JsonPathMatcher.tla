-------------------------- MODULE JsonPathMatcher --------------------------
(***************************************************************************)
(* isJsonPathResolved (jsonPathInternal.c 88-522): one JSONPath rule is    *)
(* matched against the stack of the JSON value that has just been parsed.  *)
(*                                                                         *)
(* The C function is a loop over two cursors, currRule and currStack, that *)
(* calls itself.  While a call is open it changes the type of a stack      *)
(* element in place, the callee sees the changed type, and the caller puts *)
(* it back: the parser goes on using the same stack.  The C call stack is  *)
(* explicit here: a frame holds the two cursors and what the caller has    *)
(* still to do when the call it made returns.                              *)
(*                                                                         *)
(* A definition whose comment begins with "Mistake:" is a variant of the   *)
(* one that follows it, as a plausible bug would have it.  No action uses  *)
(* it: put in place of the right one, it makes a property fail.            *)
(***************************************************************************)
EXTENDS JsonPathRules

VARIABLES
    rules,      \* currRoot .. lastRule
    stack,      \* elements[elementsCount ..], up to lastStack
    isComplex,  \* the value is an object or an array
    frames,     \* open calls of isJsonPathResolved, the innermost last
    calls,      \* times the handler of the rule was called for this value
    entry       \* history: the stack as the outermost call found it

matchVars == <<rules, stack, isComplex, frames, calls, entry>>

(* What a frame does next: run the loop, or, when its callee is back, put  *)
(* a type back and return, mark the object as head and call again, call    *)
(* with the next rule, or just return.                                     *)
Pending == {"run", "return", "callAsHead", "callNextRule"}
             \cup {"OBJECT", "PARSED_INDEX"} \cup FieldTypes

Frames == [rule : Nat \ {0}, pos : Nat \ {0}, then : Pending]

Frame(r, p) == [rule |-> r, pos |-> p, then |-> "run"]

-----------------------------------------------------------------------------
Depth == Len(frames)
Top   == frames[Depth]

Running == frames # <<>> /\ Top.then = "run"
InLoop  == Running /\ Top.rule <= Len(rules) /\ Top.pos <= Len(stack)

Rule    == rules[Top.rule]
Element == stack[Top.pos]

AtLastRule  == Top.rule = Len(rules)
AtLastStack == Top.pos = Len(stack)
BothLast    == AtLastRule /\ AtLastStack

\* Mistake: a rule that ends with ".." is not thought of.
RecursiveIsNeverNext == FALSE

(* The last rule but this one is "..", and the stack ends here.            *)
RecursiveIsNextAndLast ==
    /\ Top.rule + 1 = Len(rules)
    /\ rules[Len(rules)].type = "RECURSIVE"
    /\ AtLastStack

-----------------------------------------------------------------------------
(* What one turn of the loop can do.                                       *)
Pop == frames' = SubSeq(frames, 1, Depth - 1)

Return      == Pop /\ UNCHANGED <<stack, calls>>
CallHandler == Pop /\ calls' = calls + 1 /\ UNCHANGED stack

Advance(r, p) ==
    /\ frames' = [frames EXCEPT ![Depth] = Frame(Top.rule + r, Top.pos + p)]
    /\ UNCHANGED <<stack, calls>>

\* Mistake: a mark is taken off as rollback takes elements off, with NONE.
MarkOrNone(t) ==
    stack' = [stack EXCEPT ![Top.pos] =
                 [Element EXCEPT !.type = IF t \in SettledTypes THEN "NONE" ELSE t]]

Mark(t) == stack' = [stack EXCEPT ![Top.pos] = [Element EXCEPT !.type = t]]

Call(r, p, then) ==
    /\ frames' = Append([frames EXCEPT ![Depth] = [Top EXCEPT !.then = then]],
                        Frame(Top.rule + r, Top.pos + p))
    /\ UNCHANGED calls

\* Mistake: the caller returns and leaves its mark.
DescendAndForget == Mark("RESOLVED_FIELD") /\ Call(1, 1, "return")

(* The element is resolved by this rule: the rest of the stack is for the  *)
(* rest of the rule.                                                       *)
Descend == Mark("RESOLVED_FIELD") /\ Call(1, 1, Element.type)

-----------------------------------------------------------------------------
(* case JSONPATH_REQUEST_ROOT, 97-133 *)
MatchRoot ==
    LET fires == \/ BothLast
                 \/ AtLastStack /\ RecursiveIsNextAndLast /\ isComplex
        advances == ~AtLastRule /\ (~AtLastStack \/ rules[Top.rule + 1].type = "RECURSIVE")
        isRoot == Element.type = "PARSED_ROOT"
    IN  /\ InLoop /\ Rule.type = "ROOT"
        /\ \/ isRoot /\ fires /\ CallHandler
           \/ isRoot /\ ~fires /\ advances /\ Advance(1, IF AtLastStack THEN 0 ELSE 1)
           \/ ~(isRoot /\ (fires \/ advances)) /\ Return
        /\ UNCHANGED <<rules, isComplex, entry>>

(* case JSONPATH_REQUEST_ANY and case JSONPATH_REQUEST_ANYINDEX have the   *)
(* same body: any step, a field or an array cursor, resolves either.       *)
ResolveAny ==
    LET step  == Element.type \in FieldTypes \cup {"PARSED_INDEX"}
        skips == Element.type \in ObjectTypes
        fires == \/ BothLast /\ (step \/ skips)
                 \/ RecursiveIsNextAndLast /\ isComplex /\ step
        descends == step /\ ~AtLastStack /\ ~AtLastRule
    IN  /\ \/ fires /\ CallHandler
           \/ ~fires /\ descends /\ Descend
           \/ ~fires /\ skips /\ ~AtLastStack /\ Advance(0, 1)
           \/ ~fires /\ ~descends /\ ~(skips /\ ~AtLastStack) /\ Return
        /\ UNCHANGED <<rules, isComplex, entry>>

(* 134-216 *)
MatchAny == InLoop /\ Rule.type = "ANY" /\ ResolveAny

(* 349-431 *)
MatchAnyIndex == InLoop /\ Rule.type = "ANYINDEX" /\ ResolveAny

(* case JSONPATH_REQUEST_NAME, 217-310: a last ".." after the name needs   *)
(* no container here.                                                      *)
MatchName ==
    LET resolves == Element.type \in FieldTypes /\ Element.key = Rule.key
        fires    == resolves /\ (BothLast \/ RecursiveIsNextAndLast)
        descends == resolves /\ ~AtLastStack /\ ~AtLastRule
        skips    == Element.type \in ObjectTypes
    IN  /\ InLoop /\ Rule.type = "NAME"
        /\ \/ fires /\ CallHandler
           \/ ~fires /\ descends /\ Descend
           \/ skips /\ Advance(0, 1)
           \/ ~fires /\ ~descends /\ ~skips /\ Return
        /\ UNCHANGED <<rules, isComplex, entry>>

(* case JSONPATH_REQUEST_INDEX, 311-348: goes on in the same loop and does *)
(* not look for a last "..".                                               *)
MatchIndex ==
    LET resolves == Element.type = "PARSED_INDEX" /\ Element.key = Rule.key
        skips    == Element.type \in ObjectTypes
        advances == resolves /\ ~AtLastStack /\ ~AtLastRule
    IN  /\ InLoop /\ Rule.type = "INDEX"
        /\ \/ resolves /\ BothLast /\ CallHandler
           \/ advances /\ Advance(1, 1)
           \/ skips /\ Advance(0, 1)
           \/ ~(resolves /\ BothLast) /\ ~advances /\ ~skips /\ Return
        /\ UNCHANGED <<rules, isComplex, entry>>

-----------------------------------------------------------------------------
(* case JSONPATH_REQUEST_RECURSIVE, 432-511 *)

\* Mistake: the object is not marked for the callee.
RecursiveAtObjectUnmarked ==
    /\ Element.type = "OBJECT"
    /\ Call(0, 0, IF AtLastRule THEN "OBJECT" ELSE "callAsHead") /\ UNCHANGED stack

(* An object is tried twice: joined with what is above it, and as the head *)
(* above which the next rule starts.  A last ".." only needs the head.     *)
RecursiveAtObject ==
    /\ Element.type = "OBJECT"
    /\ \/ AtLastRule /\ Mark("HEAD_OF_JOINED_OBJECT") /\ Call(0, 0, "OBJECT")
       \/ ~AtLastRule /\ Mark("JOINED_OBJECT") /\ Call(0, 0, "callAsHead")

RecursiveAtHead ==
    /\ Element.type = "HEAD_OF_JOINED_OBJECT"
    /\ \/ AtLastRule /\ isComplex /\ CallHandler
       \/ AtLastRule /\ ~isComplex /\ Return          \* "ERROR STATE 2"
       \/ ~AtLastRule /\ Call(1, 1, "OBJECT") /\ UNCHANGED stack

\* Mistake: an array is joined as an object is.
RecursiveAtIndexJoined ==
    /\ Element.type = "PARSED_INDEX"
    /\ \/ AtLastRule /\ Mark("HEAD_OF_JOINED_OBJECT") /\ Call(0, 0, "PARSED_INDEX")
       \/ ~AtLastRule /\ Mark("JOINED_OBJECT") /\ Call(0, 0, "PARSED_INDEX")

RecursiveAtIndex ==
    /\ Element.type = "PARSED_INDEX"
    /\ \/ BothLast /\ isComplex /\ CallHandler
       \/ BothLast /\ ~isComplex /\ Return
       \/ ~BothLast /\ Call(0, 1, "callNextRule") /\ UNCHANGED stack

\* Mistake: the cursor is not moved past a joined object.
RecursiveElsewhereStays ==
    /\ Element.type \notin {"OBJECT", "HEAD_OF_JOINED_OBJECT", "PARSED_INDEX"}
    /\ IF Element.type = "JOINED_OBJECT" /\ ~AtLastStack THEN Advance(0, 0) ELSE Return

RecursiveElsewhere ==
    LET joins == /\ Element.type \in {"JOINED_OBJECT", "FIELD_WITH_OBJECT"}
                 /\ ~AtLastStack
    IN  /\ Element.type \notin {"OBJECT", "HEAD_OF_JOINED_OBJECT", "PARSED_INDEX"}
        /\ \/ joins /\ Advance(0, 1)
           \/ ~joins /\ Return                        \* "ERROR STATE 1" among others

MatchRecursive ==
    /\ InLoop /\ Rule.type = "RECURSIVE"
    /\ \/ RecursiveAtObject
       \/ RecursiveAtHead
       \/ RecursiveAtIndex
       \/ RecursiveElsewhere
    /\ UNCHANGED <<rules, isComplex, entry>>

-----------------------------------------------------------------------------
(* A cursor left its range: the loop ends and the call returns, 95, 518. *)
LeaveLoop ==
    /\ Running /\ ~InLoop /\ Return
    /\ UNCHANGED <<rules, isComplex, entry>>

(* The callee is back. *)
Resume ==
    /\ frames # <<>>
    /\ \/ /\ Top.then \in {"OBJECT", "PARSED_INDEX"} \cup FieldTypes
          /\ Mark(Top.then) /\ Pop /\ UNCHANGED calls
       \/ /\ Top.then = "callAsHead"
          /\ Mark("HEAD_OF_JOINED_OBJECT") /\ Call(0, 0, "OBJECT")
       \/ /\ Top.then = "callNextRule"
          /\ Call(1, 0, "return") /\ UNCHANGED stack
       \/ Top.then = "return" /\ Return
    /\ UNCHANGED <<rules, isComplex, entry>>

MatchStep ==
    \/ MatchRoot \/ MatchAny \/ MatchAnyIndex \/ MatchName \/ MatchIndex
    \/ MatchRecursive \/ LeaveLoop \/ Resume

(* The outermost call, 592: both cursors at the roots. *)
StartMatch(r, s, complex) ==
    /\ rules' = r /\ stack' = s /\ isComplex' = complex
    /\ frames' = <<Frame(1, 1)>>
    /\ calls' = 0
    /\ entry' = s
=============================================================================

----------------------------- MODULE RuleTable -----------------------------
(***************************************************************************)
(* The registered half of httpRequest.elements: what the append* functions *)
(* of httpRequest.c and appendJsonPathRequest of jsonPath.c write into it, *)
(* and the walk of executeJsonPathCallbackWithValue from one JSONPath rule *)
(* to the next, which relies on it.                                        *)
(*                                                                         *)
(* A JSONPath is registered by parsing it.  The generated LALR parser      *)
(* pushes the element of a step when it sees the token that follows the    *)
(* step, whatever that token is: the last step of a text that fails is     *)
(* pushed before the failure is noticed.  A token here is a whole name,    *)
(* index or punctuation mark.                                              *)
(***************************************************************************)
EXTENDS JsonPathRules

CONSTANTS
    HttpTypes,     \* types of elements with an HTTP callback
    Unset,         \* a ruleSize that was never written
    Indexes,       \* array indexes written in the registered paths
    MaxElements,   \* bound of the model on elementsCount; the code has no check
    MaxWalks       \* bound of the model on the walks over the table

ASSUME RuleTableAssumption ==
    /\ MaxElements \in Nat /\ MaxWalks \in Nat
    /\ Indexes \subseteq Nat
    /\ HttpTypes \cap RuleTypes = {}
    /\ NoKey \notin Names \cup Nat
    /\ Unset \notin Nat

VARIABLES
    elements,     \* elements[0 .. elementsCount)
    ruleSize,     \* data.root.ruleSize of each of them, Unset when never written
    at,           \* where the JSONPath parser is, "idle" when none is parsed
    recursive,    \* ".." came before the bracket that is open
    due,          \* elements pushed when the next token is seen
    newRootPlace, \* of the appendJsonPathRequest that runs
    accepted,     \* history: places of the rules registered with LE_OK
    current,      \* currElement of a walk, 0 when none runs
    visited,      \* history: places the walk has handed to the matcher
    walks

tableVars == <<elements, ruleSize, accepted>>
parseVars == <<at, recursive, due, newRootPlace>>
walkVars  == <<current, visited, walks>>
vars      == <<tableVars, parseVars, walkVars>>

Step(type, key) == [type |-> type, key |-> key]

Recursive == Step("RECURSIVE", NoKey)

(* The parser expects: the mode token's successor "$"; a step or the end;  *)
(* what follows "."; what follows ".."; what follows "[".                  *)
Places == {"idle", "dollar", "path", "dot", "dotdot", "bracket"}

-----------------------------------------------------------------------------
Idle == at = "idle" /\ current = 0

(* The bound of the model: no more is read than there is room to push. *)
Fits(es) == Len(elements) + Len(es) <= MaxElements

(* appendJsonPathElementOfHttpRequest, once for each element. *)
Push(es) ==
    /\ elements' = elements \o es
    /\ ruleSize' = ruleSize \o [i \in DOMAIN es |-> Unset]

(* appendHttpMethodRequest and its four siblings. *)
AppendHttp(type) ==
    /\ Idle
    /\ Fits(<<type>>)
    /\ Push(<<Step(type, NoKey)>>)
    /\ UNCHANGED <<accepted, parseVars, walkVars>>

(* appendJsonPathRequest up to the first character of the path. *)
AppendJsonPath ==
    /\ Idle
    /\ at' = "dollar" /\ newRootPlace' = Len(elements) + 1
    /\ UNCHANGED <<tableVars, recursive, due, walkVars>>

Dollar ==
    /\ at = "dollar"
    /\ at' = "path" /\ due' = <<Step("ROOT", NoKey)>> /\ Fits(due')
    /\ UNCHANGED <<tableVars, recursive, newRootPlace, walkVars>>

Dot ==
    \/ /\ at = "path" /\ Push(due)
       /\ at' = "dot" /\ due' = <<>>
       /\ UNCHANGED <<accepted, recursive, newRootPlace, walkVars>>
    \/ /\ at = "dot" /\ Fits(<<Recursive>>)
       /\ at' = "dotdot"
       /\ UNCHANGED <<tableVars, recursive, due, newRootPlace, walkVars>>

Bracket ==
    /\ \/ at = "path" /\ Push(due) /\ recursive' = FALSE
       \/ at = "dotdot" /\ recursive' = TRUE /\ UNCHANGED <<elements, ruleSize>>
    /\ at' = "bracket" /\ due' = <<>>
    /\ UNCHANGED <<accepted, newRootPlace, walkVars>>

(* jsonpath ::= jsonpath DOT dotobjectname and the like. *)
StepAfterDot(step) ==
    /\ at \in {"dot", "dotdot"}
    /\ due' = IF at = "dotdot" THEN <<Recursive, step>> ELSE <<step>>
    /\ Fits(due')
    /\ at' = "path"
    /\ UNCHANGED <<tableVars, recursive, newRootPlace, walkVars>>

(* What the bracket holds, up to its end. *)
StepInBracket(step) ==
    /\ at = "bracket"
    /\ due' = IF recursive THEN <<Recursive, step>> ELSE <<step>>
    /\ Fits(due')
    /\ at' = "path" /\ recursive' = FALSE
    /\ UNCHANGED <<tableVars, newRootPlace, walkVars>>

(* What the parser pushes when a token comes that is no part of a step. *)
Reduced == IF at = "dotdot" THEN <<Recursive>> ELSE due

\* Mistake: the size is the whole table, not what the rule added to it.
AcceptAll(new) ==
    /\ ruleSize' = [i \in DOMAIN new |->
                        IF i = newRootPlace THEN Len(new)
                        ELSE IF i \in DOMAIN ruleSize THEN ruleSize[i] ELSE Unset]
    /\ accepted' = Append(accepted, newRootPlace)

(* jsonPath.c 39-41: the rule is complete. *)
Accept(new) ==
    /\ ruleSize' = [i \in DOMAIN new |->
                        IF i = newRootPlace THEN Len(new) - newRootPlace + 1
                        ELSE IF i \in DOMAIN ruleSize THEN ruleSize[i] ELSE Unset]
    /\ accepted' = Append(accepted, newRootPlace)

(* The NUL after "$", a step, "." or "..": LE_OK. *)
End ==
    /\ at \in {"path", "dot", "dotdot"}
    /\ elements' = elements \o Reduced
    /\ Accept(elements \o Reduced)
    /\ at' = "idle" /\ due' = <<>> /\ newRootPlace' = 0
    /\ UNCHANGED <<recursive, walkVars>>

(* Any other token: what is due is pushed all the same, and stays.         *)
Fail ==
    /\ at # "idle"
    /\ Push(Reduced)
    /\ at' = "idle" /\ recursive' = FALSE /\ due' = <<>> /\ newRootPlace' = 0
    /\ UNCHANGED <<accepted, walkVars>>

-----------------------------------------------------------------------------
(* A value of a JSON document has been parsed.  The parse stack, whose     *)
(* first element is no JSONPATH_REQUEST_ROOT, begins after the table.      *)
StartWalk ==
    /\ Idle /\ walks < MaxWalks
    /\ current' = 1 /\ visited' = <<>> /\ walks' = walks + 1
    /\ UNCHANGED <<tableVars, parseVars>>

AtRoot == current \in DOMAIN elements /\ elements[current].type = "ROOT"

\* Mistake: the walk goes on by one element.
NextRootByOne ==
    /\ current > 0 /\ AtRoot
    /\ visited' = Append(visited, current)
    /\ current' = current + 1
    /\ UNCHANGED <<tableVars, parseVars, walks>>

\* Mistake: the walk does not go on.
NextRootStays ==
    /\ current > 0 /\ AtRoot
    /\ visited' = <<current>>
    /\ UNCHANGED <<tableVars, parseVars, current, walks>>

(* A size that was never written is whatever the memory holds: the model   *)
(* lets it lead to any place of the table, back too, or to its end.        *)
NextRoot ==
    /\ current > 0 /\ AtRoot
    /\ visited' = IF Len(visited) < MaxElements THEN Append(visited, current) ELSE visited
    /\ IF ruleSize[current] = Unset
       THEN current' \in 1..(Len(elements) + 1)
       ELSE current' = current + ruleSize[current]
    /\ UNCHANGED <<tableVars, parseVars, walks>>

EndWalk ==
    /\ current > 0 /\ ~AtRoot
    /\ current' = 0
    /\ UNCHANGED <<tableVars, parseVars, visited, walks>>

-----------------------------------------------------------------------------
Init ==
    /\ elements = <<>> /\ ruleSize = <<>> /\ accepted = <<>>
    /\ at = "idle" /\ recursive = FALSE /\ due = <<>> /\ newRootPlace = 0
    /\ current = 0 /\ visited = <<>> /\ walks = 0

Walk == NextRoot \/ EndWalk

Steps == {Step("NAME", n) : n \in Names}

Next ==
    \/ \E t \in HttpTypes : AppendHttp(t)
    \/ AppendJsonPath \/ Dollar \/ Dot \/ Bracket \/ End \/ Fail
    \/ \E s \in Steps \cup {Step("ANY", NoKey)} : StepAfterDot(s)
    \/ \E s \in Steps \cup {Step("ANYINDEX", NoKey)}
                      \cup {Step("INDEX", i) : i \in Indexes} : StepInBracket(s)
    \/ StartWalk \/ Walk

(* A walk is a loop of one thread that waits for nothing. *)
Spec == Init /\ [][Next]_vars /\ WF_vars(Walk)

-----------------------------------------------------------------------------

(* The elements of the rule whose root is at place p. *)
Block(p) == SubSeq(elements, p, p + ruleSize[p] - 1)

(* Every path accepted with LE_OK is in the table as a rule of the shape   *)
(* the matcher relies on, in one piece, and stays so: no later             *)
(* registration, failed or not, disturbs it.                               *)
AcceptedAreRules ==
    \A k \in DOMAIN accepted :
        LET p == accepted[k]
        IN  /\ p \in DOMAIN elements
            /\ ruleSize[p] \in 1..(Len(elements) - p + 1)
            /\ IsRule(Block(p))

-----------------------------------------------------------------------------
(* No HTTP callback is registered at place p or before it. *)
FreeTo(p) == \A q \in 1..p : elements[q].type \notin HttpTypes

(* The root of a path that failed, where a walk gets to it. *)
Broken == \E p \in DOMAIN elements :
    elements[p].type = "ROOT" /\ ruleSize[p] = Unset /\ FreeTo(p)

(* Up to place p there is no HTTP callback and no root of a failed path. *)
SoundTo(p) ==
    FreeTo(p) /\ \A q \in 1..p : elements[q].type = "ROOT" => ruleSize[q] # Unset

(* Accepted rules with nothing but rules before them. *)
Reachable == {p \in {accepted[k] : k \in DOMAIN accepted} : SoundTo(p)}

Ascending(s) == \A m, n \in DOMAIN s : m < n => s[m] < s[n]

Visited == {visited[n] : n \in DOMAIN visited}

OnRoots == \A p \in Visited : ruleSize[p] # Unset

(* The walk ends, or is at the root of a failed path and steps by a size   *)
(* that was never written: from there on it may be anywhere.               *)
LosesTable == EndWalk \/ (NextRoot /\ ruleSize[current] = Unset)

(* Whatever was registered, and whatever of it failed: until a walk ends,  *)
(* or comes to the first root of a failed path, it has handed to the       *)
(* matcher every rule registered before that root and before the first     *)
(* HTTP callback, once and in order, and nothing else.  "Be carefull" at   *)
(* line 588 is about the rules behind an HTTP callback; of those behind a  *)
(* failed path the repository says nothing, and nothing holds of them.     *)
WalkFindsRules ==
    [][LosesTable /\ OnRoots => Ascending(visited) /\ Visited = Reachable]_vars

(* A walk ends, unless it meets such a root: of size zero, it is the next  *)
(* one again.                                                              *)
WalkEnds == (current > 0 /\ ~Broken) ~> (current = 0)
=============================================================================

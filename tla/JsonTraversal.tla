--------------------------- MODULE JsonTraversal ---------------------------
(***************************************************************************)
(* What parsing a JSON document with registered rules promises, without    *)
(* stacks, marks or a matcher: the document is read in order; every value, *)
(* when it is complete, is told to the rules in the order in which they    *)
(* were registered, and each handler is called once for each way to lay    *)
(* its rule over the path of the value.  JsonDocument implements this.     *)
(*                                                                         *)
(* A document that is rejected in the middle spoils the request: nothing   *)
(* is promised of it any more.                                             *)
(***************************************************************************)
EXTENDS JsonPathRules

VARIABLES
    live,     \* the rules the values are told to
    at,       \* what comes next in the document
    kinds,    \* the containers that are open, outermost first
    path,     \* the names and indices that lead to the present value
    complex,  \* the value that is told is a container
    told      \* calls the first handlers got for it

travVars == <<live, at, kinds, path, complex, told>>

Inner == kinds[Len(kinds)]
InObj == kinds # <<>> /\ Inner = "object"
InArr == kinds # <<>> /\ Inner = "array"

ValueDue == at = "value" \/ (at = "first" /\ InArr)
KeyDue   == at = "key" \/ (at = "first" /\ InObj)

Front(s) == SubSeq(s, 1, Len(s) - 1)

Step(k) == [type |-> IF k \in Names THEN "FIELD" ELSE "PARSED_INDEX", key |-> k]

-----------------------------------------------------------------------------
ReadScalar ==
    /\ ValueDue
    /\ at' = "report" /\ complex' = FALSE
    /\ UNCHANGED <<live, kinds, path, told>>

EnterObject ==
    /\ ValueDue
    /\ at' = "first" /\ kinds' = Append(kinds, "object")
    /\ UNCHANGED <<live, path, complex, told>>

EnterArray ==
    /\ ValueDue
    /\ at' = "first" /\ kinds' = Append(kinds, "array") /\ path' = Append(path, 0)
    /\ UNCHANGED <<live, complex, told>>

ReadKey(k) ==
    /\ KeyDue
    /\ at' = "colon" /\ path' = Append(path, k)
    /\ UNCHANGED <<live, kinds, complex, told>>

ReadColon == at = "colon" /\ at' = "value" /\ UNCHANGED <<live, kinds, path, complex, told>>

ReadComma ==
    /\ at = "next" /\ kinds # <<>>
    /\ at' = IF InObj THEN "key" ELSE "value"
    /\ UNCHANGED <<live, kinds, path, complex, told>>

LeaveContainer ==
    /\ at \in {"first", "next"} /\ kinds # <<>>
    /\ at' = "report" /\ complex' = TRUE /\ kinds' = Front(kinds)
    /\ path' = IF InArr THEN Front(path) ELSE path
    /\ UNCHANGED <<live, told>>

(* One rule is told the value. *)
Tell ==
    /\ at = "report" /\ Len(told) < Len(live)
    /\ told' = Append(told, Cardinality(
                   Layings(live[Len(told) + 1], [i \in DOMAIN path |-> Step(path[i])], complex)))
    /\ UNCHANGED <<live, at, kinds, path, complex>>

AllTold ==
    /\ at = "report" /\ Len(told) = Len(live)
    /\ at' = "leave"
    /\ UNCHANGED <<live, kinds, path, complex, told>>

LeaveValue ==
    /\ at = "leave"
    /\ told' = <<>>
    /\ \/ InObj /\ at' = "next" /\ path' = Front(path)
       \/ InArr /\ at' = "next" /\ path' = [path EXCEPT ![Len(path)] = @ + 1]
       \/ kinds = <<>> /\ at' = "ended" /\ path' = path
    /\ UNCHANGED <<live, kinds, complex>>

End == at = "ended" /\ at' \in {"done", "rejected"} /\ UNCHANGED <<live, kinds, path, complex, told>>

Again == at \in {"done", "rejected"} /\ at' = "value" /\ UNCHANGED <<live, kinds, path, complex, told>>

Spoil ==
    /\ at \in {"value", "first", "key", "colon", "next", "leave"}
    /\ at' = "spoiled" /\ kinds' = <<>> /\ path' = <<>> /\ complex' = FALSE /\ told' = <<>>
    /\ UNCHANGED live

-----------------------------------------------------------------------------
Init ==
    /\ at = "value" /\ kinds = <<>> /\ path = <<>> /\ complex = FALSE /\ told = <<>>

Next ==
    \/ ReadScalar \/ EnterObject \/ EnterArray \/ ReadColon \/ ReadComma \/ LeaveContainer
    \/ \E k \in Names : ReadKey(k)
    \/ Tell \/ AllTold \/ LeaveValue \/ End \/ Again \/ Spoil

Spec == Init /\ [][Next]_travVars
=============================================================================

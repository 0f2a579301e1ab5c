--------------------------- MODULE MCJsonDocument ---------------------------
(***************************************************************************)
(* Three registrations: two rules; a rule with "..", which calls the       *)
(* matcher recursively; and a rule that an HTTP callback hides.            *)
(***************************************************************************)
EXTENDS JsonDocument

CONSTANTS a, b

Of(t, k) == [type |-> t, key |-> k]

Root      == Of("ROOT", NoKey)
Name(n)   == Of("NAME", n)
Any       == Of("ANY", NoKey)
Recursive == Of("RECURSIVE", NoKey)

MCTables == {
    << <<Root, Recursive, Name(a)>>, <<Root, Any, Recursive>> >>,
    << <<Root, Name(a), Of("INDEX", 0)>>, HttpBlock, <<Root, Any>> >> }
=============================================================================

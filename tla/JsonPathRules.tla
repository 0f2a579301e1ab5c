--------------------------- MODULE JsonPathRules ---------------------------
(***************************************************************************)
(* Vocabulary shared by the JSONPath modules: the elements of              *)
(* httpRequest.elements (rules.h, httpRequest.h), which rule and which     *)
(* parse stack the grammar can build, and the meaning of a rule, stated    *)
(* independently of the matcher as the number of ways in which the steps   *)
(* of the rule can be laid over the path of a value.                       *)
(*                                                                         *)
(* The union in requestElement holds a name, an index or nothing the       *)
(* matcher looks at; "key" stands for it.  A name stands for its class     *)
(* under STRNCASECMP: two names are equal exactly when the code finds them *)
(* of one length and equal up to the case of letters.                      *)
(***************************************************************************)
EXTENDS Integers, Sequences, FiniteSets

CONSTANTS
    Names,     \* field names, up to the case of letters
    NoKey      \* the key of an element that has none

\* A key is a name or an index: the union of an element is read by its type.
ASSUME NamesAssumption == Names \cap Nat = {}

Keys == Names \cup Nat \cup {NoKey}

RuleTypes == {"ROOT", "ANY", "ANYINDEX", "NAME", "INDEX", "RECURSIVE"}

FieldTypes == {"FIELD", "FIELD_WITH_OBJECT"}

\* Marks the matcher leaves on the stack only while it works.
TransientTypes == {"JOINED_OBJECT", "HEAD_OF_JOINED_OBJECT", "RESOLVED_FIELD"}

ObjectTypes == {"OBJECT", "JOINED_OBJECT", "HEAD_OF_JOINED_OBJECT"}

SettledTypes == {"PARSED_ROOT", "OBJECT", "PARSED_INDEX"} \cup FieldTypes

StackTypes == SettledTypes \cup TransientTypes

RuleElements == [type : RuleTypes, key : Keys]

StackElements == [type : StackTypes, key : Keys]

KeyFits(e) ==
    CASE e.type \in {"NAME"} \cup FieldTypes     -> e.key \in Names
      [] e.type \in {"INDEX", "PARSED_INDEX"}    -> e.key \in Nat
      [] OTHER                                   -> e.key = NoKey

-----------------------------------------------------------------------------
(* What the JSONPath grammar can build: ROOT comes first and only first,   *)
(* and ".." is followed by a step of another kind or ends the rule.        *)
IsRule(r) ==
    /\ r \in Seq(RuleElements)
    /\ r # <<>>
    /\ \A i \in DOMAIN r :
        /\ KeyFits(r[i])
        /\ (r[i].type = "ROOT") <=> (i = 1)
        /\ (r[i].type = "RECURSIVE" /\ i < Len(r)) => r[i + 1].type # "RECURSIVE"

(* What executeJsonPathCallbackWithValue hands to the matcher: the root,   *)
(* then for every open container an array cursor, or an object and the     *)
(* field in it.  Every field but the last has a container above it and     *)
(* is marked so; the last one is marked when its value is a container.     *)
IsParseStack(s, complex) ==
    /\ s \in Seq(StackElements)
    /\ s # <<>>
    /\ \A i \in DOMAIN s :
        /\ KeyFits(s[i])
        /\ (s[i].type = "PARSED_ROOT") <=> (i = 1)
        /\ s[i].type \in SettledTypes
        /\ s[i].type \in FieldTypes <=> (i > 1 /\ s[i - 1].type = "OBJECT")
        /\ s[i].type = "OBJECT" => i < Len(s)
        /\ s[i].type = "FIELD" <=> (/\ i > 1 /\ s[i - 1].type = "OBJECT"
                                    /\ i = Len(s) /\ ~complex)

-----------------------------------------------------------------------------
(* The path of a value: the fields and array cursors above the root, each  *)
(* at the place it has among them.                                         *)
IsStep(e) == e.type \in {"PARSED_INDEX", "RESOLVED_FIELD"} \cup FieldTypes

StepsTo(s, i) == Cardinality({j \in 1..i : IsStep(s[j])})

PathOf(s) ==
    [k \in 1..StepsTo(s, Len(s)) |->
        s[CHOOSE i \in DOMAIN s : IsStep(s[i]) /\ StepsTo(s, i) = k]]

(* Step k of the rule covers the part of the path after position from up   *)
(* to position to.                                                         *)
Covers(step, path, from, to) ==
    CASE step.type = "RECURSIVE"           -> from <= to
      [] step.type \in {"ANY", "ANYINDEX"} -> to = from + 1
      [] step.type = "NAME"                -> /\ to = from + 1
                                              /\ path[to].type # "PARSED_INDEX"
                                              /\ path[to].key = step.key
      [] step.type = "INDEX"               -> /\ to = from + 1
                                              /\ path[to].type = "PARSED_INDEX"
                                              /\ path[to].key = step.key
      [] OTHER                             -> to = 0

(* The last ".." of a rule selects containers, the value the rule has      *)
(* reached before ".." among them, with two exceptions the code makes for  *)
(* that value: after a name it is selected whatever it is, and after an    *)
(* index it is never selected.                                             *)
TrailingHolds(r, cut, complex) ==
    LET n     == Len(r)
        empty == cut[n] = cut[n - 1]
    IN  r[n].type = "RECURSIVE" =>
            CASE empty /\ r[n - 1].type = "NAME"  -> TRUE
              [] empty /\ r[n - 1].type = "INDEX" -> FALSE
              [] OTHER                            -> complex

(* The ways to lay rule r over the whole path: cut[k] is the position      *)
(* where step k ends.                                                      *)
Layings(r, path, complex) ==
    { cut \in [DOMAIN r -> 0..Len(path)] :
        /\ cut[1] = 0
        /\ cut[Len(r)] = Len(path)
        /\ \A k \in 2..Len(r) : Covers(r[k], path, cut[k - 1], cut[k])
        /\ TrailingHolds(r, cut, complex) }

(* How many times the handler of rule r is owed a call for a value.        *)
Owed(r, s, complex) == Cardinality(Layings(r, PathOf(s), complex))
=============================================================================

-------------------------- MODULE MCJsonPathMatch --------------------------
(***************************************************************************)
(* Every rule of at most MaxSteps steps against every parse stack with a   *)
(* path of at most MaxPath steps.  The rules name one field and one index, *)
(* the paths have these and a second one of each: a field or a cursor the  *)
(* rule does not name behaves like any other such.                         *)
(***************************************************************************)
EXTENDS JsonPathMatch, SequencesExt

CONSTANTS a, b, MaxSteps, MaxPath, StepTypes

Of(t, k) == [type |-> t, key |-> k]

RuleKey(t) == CASE t = "NAME" -> a [] t = "INDEX" -> 0 [] OTHER -> NoKey

Steps == { Of(t, RuleKey(t)) : t \in StepTypes }

MCRules == { r \in { <<Of("ROOT", NoKey)>> \o q : q \in BoundedSeq(Steps, MaxSteps) } :
                IsRule(r) }

PathSteps == { Of("FIELD_WITH_OBJECT", n) : n \in {a, b} }
                \cup { Of("PARSED_INDEX", i) : i \in {0, 1} }

Elements(step) ==
    IF step.type = "PARSED_INDEX" THEN <<step>> ELSE <<Of("OBJECT", NoKey), step>>

OfPath(p) ==
    <<Of("PARSED_ROOT", NoKey)>> \o FlattenSeq([i \in DOMAIN p |-> Elements(p[i])])

Closed == { OfPath(p) : p \in BoundedSeq(PathSteps, MaxPath) }

\* The same paths with a scalar as value: the last field is not marked.
Unmarked(s) ==
    [s EXCEPT ![Len(s)].type = IF @ = "FIELD_WITH_OBJECT" THEN "FIELD" ELSE @]

MCStacks == Closed \cup { Unmarked(s) : s \in Closed }

MCInit == rules \in MCRules /\ stack \in MCStacks /\ isComplex \in BOOLEAN /\ MatchInit

MCSpec == MCInit /\ [][MatchNext]_matchVars /\ WF_matchVars(MatchStep)
=============================================================================

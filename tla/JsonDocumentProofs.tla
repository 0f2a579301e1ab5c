------------------------- MODULE JsonDocumentProofs -------------------------
(***************************************************************************)
(* Proofs about JsonDocument, for every table of rules, every depth of the *)
(* LALR stack, and documents of every size.                                *)
(*                                                                         *)
(* DocInv ties the parse stack to the open containers and the LALR stack;  *)
(* ShapeInv says that on a clean request the stack has the shape the       *)
(* matcher needs.  The matcher leaves it so by what JsonPathMatchProofs    *)
(* proves: its invariant is used here for the matches of documents.        *)
(*                                                                         *)
(* Second part: JsonDocument implements JsonTraversal.  RefInv adds that   *)
(* the count of a rule's calls is on its way to what it is owed.           *)
(***************************************************************************)
EXTENDS JsonDocument, JsonPathMatchProofs, WellFoundedInduction

(* All that has to be known of elements, marks of the matcher included:    *)
(* they are records of a type and a key.                                   *)
IsElement(e) == e = [type |-> e.type, key |-> e.key]

IsStack(s) == /\ s \in Seq({s[k] : k \in DOMAIN s})
              /\ \A k \in DOMAIN s : IsElement(s[k])

Containers == [kind : {"object", "array"}, base : Nat]

InValue == {"value", "first", "key", "colon", "next", "report", "match", "leave"}

TypeInv ==
    /\ IsStack(stack)
    /\ expect \in InValue \cup {"start", "ended", "done", "failed", "overflowed"}
    /\ nest \in Seq(Containers) /\ yydepth \in Nat /\ below \in Nat

(* Whether the field of the member at hand is on the stack. *)
HasField == InObject /\ expect \in {"colon", "value", "report", "match", "leave"}

(* h[j] is the height of the parse stack, counted from the root of the     *)
(* document, when container j had been pushed.                             *)
Heights(h) ==
    /\ h \in Seq(Nat) /\ Len(h) = Len(nest)
    /\ \A j \in 1..Len(nest) :
        /\ 2 * h[j] <= nest[j].base + 1
        /\ IF j = 1 THEN h[j] = 2
           ELSE /\ h[j] = h[j - 1] + (IF nest[j - 1].kind = "object" THEN 2 ELSE 1)
                /\ nest[j - 1].base + 2 <= nest[j].base
    /\ Len(stack) = below + IF nest = <<>> THEN 1
                            ELSE IF HasField THEN h[Len(nest)] + 1 ELSE h[Len(nest)]

(* What the stack is when no match is on, and will be again after one. *)
Idle    == rules = <<>> /\ frames = <<>>
Resting == IF Idle THEN stack ELSE entry

\* On a clean request the element at h[j] is the one of container j.
Kinds(h) ==
    below = 0 => \A j \in 1..Len(nest) :
        /\ h[j] \in 1..Len(Resting)
        /\ Resting[h[j]].type = (IF nest[j].kind = "object" THEN "OBJECT" ELSE "PARSED_INDEX")
        /\ \A i \in 1..j - 1 : h[i] < h[j]

(* The LALR stack is as high as the open containers make it. *)
DepthInv ==
    /\ yydepth <= YYSTACKDEPTH - 1
    /\ nest = <<>> => expect \in {"value", "report", "match", "leave"} /\ yydepth >= 3
    /\ nest # <<>> => yydepth >= Inside.base + (IF expect = "first" THEN 1 ELSE 3)
    /\ expect \in {"key", "colon"} => InObject

BalanceInv ==
    /\ expect \in InValue => DepthInv /\ \E h \in Seq(Nat) : Heights(h) /\ Kinds(h)
    /\ expect \notin InValue => nest = <<>>
    /\ expect = "start" => yydepth = 1
    /\ expect \in {"ended", "done"} => Len(stack) = below
    /\ below <= Len(stack)
    /\ 2 * (Len(stack) - below) <= YYSTACKDEPTH - 1

DocInv == TypeInv /\ BalanceInv

(* The matcher works only where the loop over the rules is. *)
IdleInv ==
    /\ ~Idle => expect = "match"
    /\ rules = <<>> => frames = <<>>
    /\ calls \in Nat /\ told \in Seq(Nat)
    /\ table \in Tables /\ isComplex \in BOOLEAN

(* A parse stack but for the types of its fields. *)
Shape(s) ==
    /\ s \in Seq(StackElements) /\ s # <<>>
    /\ \A i \in 1..Len(s) :
        /\ KeyFits(s[i])
        /\ (s[i].type = "PARSED_ROOT") <=> (i = 1)
        /\ s[i].type \in SettledTypes
        /\ s[i].type \in FieldTypes <=> (i > 1 /\ s[i - 1].type = "OBJECT")

\* The field on top has not been seen with a container.
FreshField == InObject /\ (expect \in {"colon", "value"} \/ (expect = "report" /\ ~isComplex))

ShapeInv ==
    below = 0 =>
        /\ ~Idle => MatchInv
        /\ expect \in InValue => Shape(Resting)
        /\ FreshField => Resting[Len(Resting)].type = "FIELD"
        /\ expect = "match" => IsParseStack(Resting, isComplex)

IInv == DocInv /\ IdleInv /\ ShapeInv

-----------------------------------------------------------------------------
(* Stacks and their elements.                                              *)

LEMMA SeqIsFunction ==
    ASSUME NEW S, NEW s \in Seq(S)
    PROVE  s = [k \in 1..Len(s) |-> s[k]] /\ DOMAIN s = 1..Len(s) /\ Len(s) \in Nat
OBVIOUS

LEMMA StackIs ==
    ASSUME NEW s, IsStack(s)
    PROVE  /\ Len(s) \in Nat /\ DOMAIN s = 1..Len(s)
           /\ s = [k \in 1..Len(s) |-> s[k]]
BY DEF IsStack

LEMMA StackFromFunction ==
    ASSUME NEW n \in Nat, NEW s, s = [k \in 1..n |-> s[k]],
           \A k \in 1..n : IsElement(s[k])
    PROVE  IsStack(s) /\ Len(s) = n
<1> DEFINE S == {s[k] : k \in DOMAIN s}
<1>1. DOMAIN s = 1..n
  OBVIOUS
<1>2. s \in [1..n -> S]
  BY <1>1
<1>3. s \in Seq(S) /\ Len(s) = n
  <2> HIDE DEF S
  <2> QED BY <1>2
<1> QED BY <1>1, <1>3 DEF IsStack

LEMMA PushIs ==
    ASSUME NEW s, IsStack(s), NEW e, IsElement(e), NEW t, t = Append(s, e)
    PROVE  /\ IsStack(t) /\ Len(t) = Len(s) + 1
           /\ \A k \in 1..Len(s) : t[k] = s[k]
           /\ t[Len(s) + 1] = e
<1> DEFINE S == {s[k] : k \in DOMAIN s} \cup {e}
<1>1. s \in Seq(S) /\ e \in S /\ Len(s) \in Nat
  <2>1. {s[k] : k \in DOMAIN s} \subseteq S
    OBVIOUS
  <2> HIDE DEF S
  <2>2. \A k \in 1..Len(s) : s[k] \in S
    BY <2>1, StackIs DEF IsStack
  <2>3. s \in Seq(S)
    BY <2>2, StackIs
  <2> QED BY <2>3, StackIs DEF S
<1> HIDE DEF S
<1>2. /\ t \in Seq(S) /\ Len(t) = Len(s) + 1 /\ \A k \in 1..Len(s) : t[k] = s[k]
      /\ t[Len(s) + 1] = e
  BY <1>1
<1>3. \A k \in 1..Len(t) : IsElement(t[k])
  <2> TAKE k \in 1..Len(t)
  <2>1. CASE k \in 1..Len(s)
    BY <1>2, <2>1, StackIs DEF IsStack
  <2>2. CASE k = Len(s) + 1
    BY <1>2, <2>2
  <2> QED BY <1>1, <1>2, <2>1, <2>2
<1>4. Len(t) \in Nat /\ DOMAIN t = 1..Len(t)
  BY <1>2
<1>6. t = [k \in 1..Len(t) |-> t[k]]
  BY <1>2, SeqIsFunction
<1>5. IsStack(t)
  BY <1>3, <1>4, <1>6, StackFromFunction
<1> QED BY <1>2, <1>5

LEMMA PopIs ==
    ASSUME NEW s, IsStack(s), Len(s) > 0, NEW t, t = SubSeq(s, 1, Len(s) - 1)
    PROVE  /\ IsStack(t) /\ Len(t) = Len(s) - 1
           /\ \A k \in 1..Len(t) : t[k] = s[k]
<1>1. Len(s) \in Nat /\ Len(s) - 1 \in Nat
  BY StackIs
<1>2. t = [k \in 1..Len(s) - 1 |-> s[k]]
  BY <1>1, StackIs DEF IsStack
<1>3. \A k \in 1..Len(s) - 1 : IsElement(t[k])
  BY <1>1, <1>2, StackIs DEF IsStack
<1>4. t = [k \in 1..Len(s) - 1 |-> t[k]]
  BY <1>2
<1>5. IsStack(t) /\ Len(t) = Len(s) - 1
  BY <1>1, <1>3, <1>4, StackFromFunction
<1> QED BY <1>2, <1>5

(* A change in place. *)
LEMMA UpdateIs ==
    ASSUME NEW s, IsStack(s), NEW t, DOMAIN t = DOMAIN s, t = [k \in DOMAIN s |-> t[k]],
           \A k \in DOMAIN s : IsElement(t[k])
    PROVE  IsStack(t) /\ Len(t) = Len(s)
BY StackIs, StackFromFunction

(* Other types for some elements: the same stack but for that. *)
LEMMA RetypedIs ==
    ASSUME NEW s, IsStack(s), NEW t, DOMAIN t = DOMAIN s, t = [k \in DOMAIN s |-> t[k]],
           \A k \in DOMAIN s : t[k] = s[k] \/ \E x : t[k] = [type |-> x, key |-> s[k].key]
    PROVE  /\ IsStack(t) /\ Len(t) = Len(s)
           /\ \A k \in 1..Len(s) : t[k].key = s[k].key
<1>1. ASSUME NEW k \in DOMAIN s
      PROVE  IsElement(t[k]) /\ t[k].key = s[k].key
  <2>1. CASE t[k] = s[k]
    BY <2>1 DEF IsStack
  <2>2. CASE \E x : t[k] = [type |-> x, key |-> s[k].key]
    BY <2>2 DEF IsElement
  <2> QED BY <2>1, <2>2
<1>2. IsStack(t) /\ Len(t) = Len(s)
  BY <1>1, UpdateIs
<1> QED BY <1>1, <1>2, StackIs

(* So the matcher changes nothing but types. *)
LEMMA MatchStepIs ==
    ASSUME IsStack(stack), MatchStep
    PROVE  /\ IsStack(stack') /\ Len(stack') = Len(stack)
           /\ \A k \in 1..Len(stack) : stack'[k].key = stack[k].key
<1>1. ASSUME NEW x, Mark(x)
      PROVE  /\ IsStack(stack') /\ Len(stack') = Len(stack)
             /\ \A k \in 1..Len(stack) : stack'[k].key = stack[k].key
  <2>1. DOMAIN stack' = DOMAIN stack /\ stack' = [k \in DOMAIN stack |-> stack'[k]]
    BY <1>1 DEF Mark
  <2>2. ASSUME NEW k \in DOMAIN stack
        PROVE  stack'[k] = stack[k] \/ \E y : stack'[k] = [type |-> y, key |-> stack[k].key]
    <3>1. IsElement(stack[k])
      BY DEF IsStack
    <3>2. stack'[k] = stack[k] \/ stack'[k] = [stack[k] EXCEPT !.type = x]
      BY <1>1 DEF Mark, Element
    <3>3. stack'[k] = stack[k] \/ stack'[k] = [type |-> x, key |-> stack[k].key]
      BY <3>1, <3>2 DEF IsElement
    <3> QED BY <3>3
  <2> QED BY <2>1, <2>2, RetypedIs
<1>2. CASE UNCHANGED stack
  BY <1>2
<1>3. CASE MatchRoot
  BY <1>2, <1>3 DEF MatchRoot, CallHandler, Advance, Return
<1>4. CASE MatchAny \/ MatchAnyIndex
  BY <1>1, <1>2, <1>4 DEF MatchAny, MatchAnyIndex, ResolveAny, CallHandler, Advance, Return, Descend
<1>5. CASE MatchName
  BY <1>1, <1>2, <1>5 DEF MatchName, CallHandler, Advance, Return, Descend
<1>6. CASE MatchIndex
  BY <1>2, <1>6 DEF MatchIndex, CallHandler, Advance, Return
<1>7. CASE MatchRecursive
  BY <1>1, <1>2, <1>7 DEF MatchRecursive, RecursiveAtObject, RecursiveAtHead, RecursiveAtIndex,
                          RecursiveElsewhere, CallHandler, Advance, Return
<1>8. CASE LeaveLoop
  BY <1>2, <1>8 DEF LeaveLoop, Return
<1>9. CASE Resume
  BY <1>1, <1>2, <1>9 DEF Resume, Return
<1> QED BY <1>3, <1>4, <1>5, <1>6, <1>7, <1>8, <1>9 DEF MatchStep

(* And so does the marking of the fields. *)
LEMMA MarkedIs ==
    ASSUME NEW s, IsStack(s), NEW t, t = Marked(s)
    PROVE  /\ IsStack(t) /\ Len(t) = Len(s)
           /\ \A k \in 1..Len(s) : t[k].key = s[k].key
<1>1. DOMAIN t = DOMAIN s /\ t = [k \in DOMAIN s |-> t[k]]
  BY DEF Marked
<1>2. ASSUME NEW k \in DOMAIN s
      PROVE  t[k] = s[k] \/ \E x : t[k] = [type |-> x, key |-> s[k].key]
  <2>1. IsElement(s[k])
    BY DEF IsStack
  <2>2. t[k] = s[k] \/ t[k] = [s[k] EXCEPT !.type = "FIELD_WITH_OBJECT"]
    BY DEF Marked
  <2>3. t[k] = s[k] \/ t[k] = [type |-> "FIELD_WITH_OBJECT", key |-> s[k].key]
    BY <2>1, <2>2 DEF IsElement
  <2> QED BY <2>3
<1>3. IsStack(s)
  OBVIOUS
<1> QED BY ONLY <1>1, <1>2, <1>3, RetypedIs

(* The element of an array is counted. *)
LEMMA CountIs ==
    ASSUME IsStack(stack), NEW t, Len(stack) > 0,
           t = IF TopElement.type = "PARSED_INDEX"
                 THEN [stack EXCEPT ![Len(stack)] = [TopElement EXCEPT !.key = @ + 1]]
                 ELSE stack
    PROVE  /\ IsStack(t) /\ Len(t) = Len(stack)
           /\ \A k \in 1..Len(stack) - 1 : t[k] = stack[k]
           /\ \/ t[Len(stack)] = stack[Len(stack)]
              \/ /\ stack[Len(stack)].type = "PARSED_INDEX"
                 /\ t[Len(stack)] = [type |-> "PARSED_INDEX", key |-> stack[Len(stack)].key + 1]
           /\ \A k \in 1..Len(stack) : t[k].type = stack[k].type
<1>1. DOMAIN t = DOMAIN stack /\ t = [k \in DOMAIN stack |-> t[k]]
  BY StackIs
<1>2. \A k \in 1..Len(stack) - 1 : t[k] = stack[k]
  BY StackIs
<1>3. \/ t[Len(stack)] = stack[Len(stack)]
      \/ /\ stack[Len(stack)].type = "PARSED_INDEX"
         /\ t[Len(stack)] = [type |-> "PARSED_INDEX", key |-> stack[Len(stack)].key + 1]
  <2>1. IsElement(TopElement)
    BY StackIs DEF IsStack, TopElement
  <2>2. \/ t[Len(stack)] = TopElement
        \/ /\ TopElement.type = "PARSED_INDEX"
           /\ t[Len(stack)] = [TopElement EXCEPT !.key = @ + 1]
    BY StackIs DEF TopElement
  <2>3. \/ t[Len(stack)] = TopElement
        \/ /\ TopElement.type = "PARSED_INDEX"
           /\ t[Len(stack)] = [type |-> TopElement.type, key |-> TopElement.key + 1]
    BY <2>1, <2>2 DEF IsElement
  <2> QED BY <2>3 DEF TopElement
<1>4. IsElement(t[Len(stack)])
  BY <1>3, StackIs DEF IsStack, IsElement
<1>5. \A k \in DOMAIN stack : k = Len(stack) \/ k \in 1..Len(stack) - 1
  BY StackIs
<1>6. \A k \in DOMAIN stack : IsElement(t[k])
  BY <1>2, <1>4, <1>5 DEF IsStack
<1>7. \A k \in 1..Len(stack) : t[k].type = stack[k].type
  BY <1>2, <1>3, <1>5, StackIs
<1>8. IsStack(t) /\ Len(t) = Len(stack)
  BY <1>1, <1>6, UpdateIs
<1> QED BY <1>2, <1>3, <1>7, <1>8

-----------------------------------------------------------------------------
(* The bound of the LALR stack is one of the parse stack.                  *)

LEMMA InsideIs ==
    ASSUME nest \in Seq(Containers), nest # <<>>
    PROVE  /\ Len(nest) \in Nat \ {0}
           /\ Inside.kind \in {"object", "array"} /\ Inside.base \in Nat
<1>1. Len(nest) \in Nat \ {0} /\ nest[Len(nest)] \in Containers
  OBVIOUS
<1> QED BY <1>1 DEF Inside, Containers

LEMMA HeightFits ==
    (TypeInv /\ DepthInv /\ \E h \in Seq(Nat) : Heights(h))
        => below <= Len(stack) /\ 2 * (Len(stack) - below) <= YYSTACKDEPTH - 1
<1> SUFFICES ASSUME TypeInv, DepthInv, NEW h \in Seq(Nat), Heights(h)
             PROVE  below <= Len(stack) /\ 2 * (Len(stack) - below) <= YYSTACKDEPTH - 1
  OBVIOUS
<1>1. yydepth \in Nat /\ below \in Nat /\ Len(stack) \in Nat /\ YYSTACKDEPTH \in Nat
  BY StackIs, DepthAssumption DEF TypeInv
<1>2. CASE nest = <<>>
  BY <1>1, <1>2 DEF DepthInv, Heights
<1>3. CASE nest # <<>>
  <2>1. Len(nest) \in Nat \ {0} /\ Inside.base \in Nat
    BY <1>3, InsideIs DEF TypeInv
  <2>2. h[Len(nest)] \in Nat /\ 2 * h[Len(nest)] <= Inside.base + 1
    BY <2>1 DEF Heights, Inside
  <2>3. CASE HasField
    <3>1. Len(stack) = below + h[Len(nest)] + 1
      BY <1>1, <1>3, <2>2, <2>3 DEF Heights
    <3>2. yydepth >= Inside.base + 3 /\ yydepth <= YYSTACKDEPTH - 1
      BY <1>3, <2>3 DEF HasField, DepthInv
    <3>3. Len(stack) - below = h[Len(nest)] + 1
      BY <1>1, <2>2, <3>1
    <3>4. 2 * (h[Len(nest)] + 1) <= yydepth
      BY SMTT(30), <1>1, <2>1, <2>2, <3>2
    <3>5. below <= Len(stack)
      BY <1>1, <2>2, <3>1
    <3> QED BY <1>1, <3>2, <3>3, <3>4, <3>5
  <2>4. CASE ~HasField
    <3>1. Len(stack) = below + h[Len(nest)]
      BY <1>3, <2>4 DEF Heights
    <3>2. yydepth >= Inside.base + 1 /\ yydepth <= YYSTACKDEPTH - 1
      BY <1>1, <1>3, <2>1 DEF DepthInv
    <3> QED BY SMTT(30), <1>1, <2>1, <2>2, <3>1, <3>2
  <2> QED BY <2>3, <2>4
<1> QED BY <1>2, <1>3

(* What is left to show of a step inside a value. *)
LEMMA StepIntoValue ==
    ASSUME TypeInv', expect' \in InValue, DepthInv',
           NEW g \in Seq(Nat), Heights(g)', Kinds(g)'
    PROVE  DocInv'
<1>1. ((TypeInv /\ DepthInv /\ \E h \in Seq(Nat) : Heights(h))
          => below <= Len(stack) /\ 2 * (Len(stack) - below) <= YYSTACKDEPTH - 1)'
  BY HeightFits, PTL
<1>2. below' <= Len(stack') /\ 2 * (Len(stack') - below') <= YYSTACKDEPTH - 1
  BY <1>1
<1>3. expect' \notin {"start", "ended", "done"}
  BY DEF InValue
<1> QED BY <1>2, <1>3 DEF DocInv, BalanceInv

(* A step that opens and closes nothing and keeps the height of the stack. *)
LEMMA SameHeights ==
    ASSUME NEW h \in Seq(Nat), Heights(h), UNCHANGED <<nest, below>>,
           Len(stack') = Len(stack), HasField' <=> HasField
    PROVE  Heights(h)'
BY DEF Heights

LEMMA SameKinds ==
    ASSUME NEW h, Kinds(h), UNCHANGED <<nest, below, Resting>>
    PROVE  Kinds(h)'
BY DEF Kinds

LEMMA RestsOnStack ==
    ASSUME IdleInv, expect # "match", UNCHANGED <<rules, frames>>
    PROVE  Resting = stack /\ Resting' = stack' /\ Idle'
BY DEF IdleInv, Idle, Resting

-----------------------------------------------------------------------------
(* The steps inside a value.                                               *)

\* What the steps of a value start from.
InValueInv(h) ==
    /\ TypeInv /\ expect \in InValue /\ DepthInv
    /\ h \in Seq(Nat) /\ Heights(h) /\ Kinds(h)

LEMMA WhileInValue ==
    ASSUME DocInv, IdleInv, expect \in InValue
    PROVE  \E h \in Seq(Nat) : InValueInv(h)
BY DEF DocInv, BalanceInv, InValueInv

LEMMA OutsideOfValue ==
    ASSUME DocInv, IdleInv, nest # <<>> \/ expect \in InValue
    PROVE  expect \in InValue
BY DEF DocInv, BalanceInv

LEMMA StartRootKeepsDoc ==
    ASSUME DocInv, IdleInv, StartRoot
    PROVE  DocInv'
<1>1. nest = <<>> /\ yydepth = 1 /\ nest' = <<>> /\ yydepth' = 3 /\ expect' = "value"
  BY DEF StartRoot, DocInv, BalanceInv, InValue
<1>2. below' = Len(stack) /\ Len(stack) \in Nat /\ IsStack(stack')
      /\ Len(stack') = below' + 1
  BY StackIs, PushIs DEF StartRoot, Push, DocInv, TypeInv, IsElement
<1>3. TypeInv'
  BY <1>1, <1>2 DEF TypeInv, InValue
<1>4. DepthInv'
  BY <1>1, DepthAssumption DEF DepthInv
<1>5. PICK g : g = <<>>
  OBVIOUS
<1>6. g \in Seq(Nat) /\ Heights(g)'
  BY <1>1, <1>2, <1>5 DEF Heights
<1>7. Kinds(g)'
  BY <1>1 DEF Kinds
<1> QED BY <1>1, <1>3, <1>4, <1>6, <1>7, StepIntoValue DEF InValue

LEMMA ScalarKeepsDoc ==
    ASSUME DocInv, IdleInv, Scalar
    PROVE  DocInv'
<1>1. PICK h : InValueInv(h)
  BY WhileInValue DEF Scalar, AtValue, InValue
<1>2. /\ expect' = "report" /\ UNCHANGED <<stack, nest, below>>
      /\ yydepth' = yydepth + Lead + 1 /\ yydepth' <= YYSTACKDEPTH - 1
      /\ Lead \in {0, 1} /\ yydepth \in Nat
  BY <1>1, DepthAssumption DEF Scalar, Room, ScalarDepths, Lead, InValueInv, TypeInv
<1>3. HasField' <=> HasField
  BY <1>2 DEF Scalar, AtValue, HasField, InObject, InArray, Inside
<1>4. TypeInv'
  BY <1>1, <1>2 DEF TypeInv, InValueInv, InValue
<1>5. DepthInv'
  <2>1. CASE nest = <<>>
    BY <1>1, <1>2, <2>1 DEF DepthInv, InValueInv
  <2>2. CASE nest # <<>>
    <3>1. Lead = 1 /\ yydepth >= Inside.base + 1 /\ Inside.base \in Nat
      BY <1>1, <2>2, InsideIs DEF DepthInv, InValueInv, Lead, TypeInv
    <3>2. expect # "first" => yydepth >= Inside.base + 3
      BY <1>1, <2>2 DEF DepthInv, InValueInv
    <3>3. yydepth' >= Inside.base + 3
      BY <1>2, <3>1, <3>2
    <3> QED BY <1>2, <2>2, <3>3 DEF DepthInv, Inside
  <2> QED BY <2>1, <2>2
<1>6. h \in Seq(Nat) /\ Heights(h)'
  BY <1>1, <1>2, <1>3, SameHeights DEF InValueInv
<1>7. UNCHANGED <<nest, below, Resting>>
  BY <1>2, RestsOnStack DEF Scalar, AtValue, NoMatch
<1>8. Kinds(h)'
  BY <1>1, <1>7, SameKinds DEF InValueInv
<1> QED BY <1>2, <1>4, <1>5, <1>6, <1>8, StepIntoValue DEF InValue

LEMMA OpenKeepsDoc ==
    ASSUME DocInv, IdleInv, NEW kind \in {"object", "array"}, NEW type, NEW key, Open(kind, type, key),
           type = (IF kind = "object" THEN "OBJECT" ELSE "PARSED_INDEX")
    PROVE  DocInv'
<1>1. PICK h : InValueInv(h)
  BY WhileInValue DEF Open, AtValue, InValue
<1>2. /\ expect' = "first" /\ below' = below
      /\ yydepth' = yydepth + Lead + 1 /\ yydepth' <= YYSTACKDEPTH - 1
      /\ Lead \in {0, 1} /\ yydepth \in Nat /\ below \in Nat /\ Len(stack) \in Nat
  BY <1>1, StackIs, DepthAssumption DEF Open, Room, Lead, InValueInv, TypeInv
<1>3. IsStack(stack') /\ Len(stack') = Len(stack) + 1
  BY <1>1, PushIs DEF Open, Push, InValueInv, TypeInv, IsElement
<1>4. PICK box : box = [kind |-> kind, base |-> yydepth + Lead]
  OBVIOUS
<1>5. box \in Containers /\ box.base = yydepth + Lead
  BY <1>2, <1>4 DEF Containers
<1>6. /\ nest \in Seq(Containers) /\ nest' = Append(nest, box)
      /\ Len(nest) \in Nat
  BY <1>1, <1>4 DEF Open, InValueInv, TypeInv
<1>7. /\ nest' \in Seq(Containers) /\ Len(nest') = Len(nest) + 1
      /\ nest'[Len(nest) + 1] = box /\ \A j \in 1..Len(nest) : nest'[j] = nest[j]
  BY <1>5, <1>6
<1>8. TypeInv'
  BY <1>2, <1>3, <1>7 DEF TypeInv, InValue
<1>9. nest' # <<>> /\ Inside' = box
  BY <1>6, <1>7 DEF Inside
<1>10. DepthInv'
  BY <1>2, <1>5, <1>9 DEF DepthInv
<1>11. PICK top : top = Len(stack) + 1 - below
  OBVIOUS
<1>12. PICK g : g = Append(h, top)
  OBVIOUS
<1>13. below <= Len(stack)
  BY <1>1, HeightFits DEF InValueInv
<1>14. top \in Nat /\ h \in Seq(Nat) /\ Len(h) = Len(nest)
  BY <1>1, <1>2, <1>11, <1>13 DEF InValueInv, Heights
<1>15. /\ g \in Seq(Nat) /\ Len(g) = Len(nest) + 1 /\ g[Len(nest) + 1] = top
       /\ \A j \in 1..Len(nest) : g[j] = h[j]
  BY <1>6, <1>12, <1>14
<1>16. Len(stack') = below' + top /\ ~HasField'
  BY <1>2, <1>3, <1>11 DEF HasField
<1>17. /\ 2 * top <= box.base + 1
       /\ IF nest = <<>> THEN top = 2
          ELSE /\ top = h[Len(nest)] + (IF Inside.kind = "object" THEN 2 ELSE 1)
               /\ Inside.base + 2 <= box.base
  <2>1. CASE nest = <<>>
    <3>1. Len(stack) = below + 1 /\ yydepth >= 3
      BY <1>1, <2>1 DEF InValueInv, Heights, DepthInv
    <3>2. top = 2
      BY <1>2, <1>11, <3>1
    <3>3. box.base >= 3 /\ box.base \in Nat
      BY <1>2, <1>5, <3>1
    <3> QED BY <2>1, <3>2, <3>3
  <2>2. CASE nest # <<>>
    <3>1. /\ Len(nest) \in Nat \ {0} /\ Inside.base \in Nat
          /\ Inside.kind \in {"object", "array"} /\ Lead = 1
      BY <1>1, <2>2, InsideIs DEF InValueInv, TypeInv, Lead
    <3>2. h[Len(nest)] \in Nat /\ 2 * h[Len(nest)] <= Inside.base + 1
      BY <1>1, <3>1 DEF InValueInv, Heights, Inside
    <3>3. CASE Inside.kind = "object"
      <4>1. expect = "value" /\ HasField
        BY <2>2, <3>3 DEF Open, AtValue, HasField, InObject, InArray
      <4>2. Len(stack) = below + h[Len(nest)] + 1 /\ yydepth >= Inside.base + 3
        BY <1>1, <1>2, <2>2, <3>2, <4>1 DEF InValueInv, Heights, DepthInv
      <4>3. top = h[Len(nest)] + 2
        BY SMTT(30), <1>2, <1>11, <3>2, <4>2
      <4>4. 2 * top = 2 * h[Len(nest)] + 4
        BY <3>2, <4>3
      <4>5. box.base \in Nat /\ box.base >= Inside.base + 4
        BY <1>2, <1>5, <3>1, <4>2
      <4>6. 2 * top <= Inside.base + 5
        BY <3>1, <3>2, <4>4
      <4>7. 2 * top <= box.base + 1 /\ Inside.base + 2 <= box.base
        BY <1>14, <3>1, <4>5, <4>6
      <4> QED BY <2>2, <3>3, <4>3, <4>7
    <3>4. CASE Inside.kind # "object"
      <4>1. ~HasField
        BY <3>4 DEF HasField, InObject
      <4>2. Len(stack) = below + h[Len(nest)] /\ yydepth >= Inside.base + 1
        BY <1>1, <1>2, <2>2, <3>1, <3>2, <4>1 DEF InValueInv, Heights, DepthInv
      <4>3. top = h[Len(nest)] + 1
        BY <1>2, <1>11, <3>2, <4>2
      <4>4. 2 * top = 2 * h[Len(nest)] + 2
        BY <3>2, <4>3
      <4>5. 2 * top <= box.base + 1 /\ Inside.base + 2 <= box.base
        BY SMTT(30), <1>2, <1>5, <3>1, <3>2, <4>2, <4>4
      <4> QED BY <2>2, <3>4, <4>3, <4>5
    <3> QED BY <3>3, <3>4
  <2> QED BY <2>1, <2>2
<1>18. ASSUME NEW j \in 1..Len(nest) + 1
       PROVE  /\ 2 * g[j] <= nest'[j].base + 1
              /\ IF j = 1 THEN g[j] = 2
                 ELSE /\ g[j] = g[j - 1] + (IF nest'[j - 1].kind = "object" THEN 2 ELSE 1)
                      /\ nest'[j - 1].base + 2 <= nest'[j].base
  <2>1. CASE j \in 1..Len(nest)
    <3>1. j # 1 => j - 1 \in 1..Len(nest)
      BY <1>6, <2>1
    <3> QED BY <1>1, <1>7, <1>15, <2>1, <3>1 DEF InValueInv, Heights
  <2>2. CASE j = Len(nest) + 1
    <3>1. j = 1 <=> nest = <<>>
      BY <1>6, <2>2
    <3>2. j # 1 => /\ j - 1 = Len(nest) /\ g[j - 1] = h[Len(nest)]
                   /\ nest'[j - 1] = Inside
      BY <1>6, <1>7, <1>15, <2>2 DEF Inside
    <3>3. g[j] = top /\ nest'[j] = box
      BY <1>7, <1>15, <2>2
    <3> QED BY <1>17, <3>1, <3>2, <3>3
  <2> QED BY <1>6, <2>1, <2>2
<1>19. Heights(g)'
  BY <1>6, <1>7, <1>9, <1>15, <1>16, <1>18 DEF Heights
<1>20. Resting = stack /\ Resting' = stack'
  BY RestsOnStack DEF Open, AtValue, NoMatch
<1>21. ASSUME below = 0, NEW j \in 1..Len(nest) + 1
       PROVE  /\ g[j] \in 1..Len(stack')
              /\ stack'[g[j]].type = (IF nest'[j].kind = "object" THEN "OBJECT" ELSE "PARSED_INDEX")
              /\ \A i \in 1..j - 1 : g[i] < g[j]
  <2>1. \A i \in 1..Len(nest) : /\ h[i] \in 1..Len(stack) /\ g[i] = h[i]
                               /\ \A m \in 1..i - 1 : h[m] < h[i]
    BY <1>1, <1>15, <1>20, <1>21 DEF InValueInv, Kinds
  <2>2. /\ \A i \in 1..Len(stack) : stack'[i] = stack[i]
        /\ stack'[Len(stack) + 1] = [type |-> type, key |-> key]
    BY <1>1, PushIs DEF Open, Push, InValueInv, TypeInv, IsElement
  <2>3. CASE j \in 1..Len(nest)
    <3>1. \A i \in 1..j - 1 : i \in 1..Len(nest)
      BY <1>6, <2>3
    <3>2. g[j] \in 1..Len(stack') /\ stack'[g[j]] = stack[h[j]] /\ \A i \in 1..j - 1 : g[i] < g[j]
      BY <1>2, <1>3, <2>1, <2>2, <2>3, <3>1
    <3>3. stack[h[j]].type = (IF nest[j].kind = "object" THEN "OBJECT" ELSE "PARSED_INDEX")
      BY <1>1, <1>20, <1>21, <2>3 DEF InValueInv, Kinds
    <3> QED BY <1>7, <2>3, <3>2, <3>3
  <2>4. CASE j = Len(nest) + 1
    <3>1. g[j] = Len(stack) + 1
      BY <1>2, <1>11, <1>15, <1>21, <2>4
    <3>2. \A i \in 1..j - 1 : g[i] \in 1..Len(stack)
      BY <1>6, <2>1, <2>4
    <3>3. nest'[j].kind = kind /\ stack'[g[j]].type = type
      BY <1>4, <1>7, <2>2, <2>4, <3>1
    <3> QED BY <1>2, <1>3, <3>1, <3>2, <3>3
  <2> QED BY <1>6, <2>3, <2>4
<1>22. Kinds(g)'
  BY <1>2, <1>7, <1>20, <1>21 DEF Kinds
<1> QED BY <1>2, <1>8, <1>10, <1>15, <1>19, <1>22, StepIntoValue DEF InValue

LEMMA KeyKeepsDoc ==
    ASSUME DocInv, IdleInv, NEW name, Key(name)
    PROVE  DocInv'
<1>1. InObject /\ nest # <<>> /\ ~HasField
  BY DEF Key, AtKey, InObject, HasField, DocInv, BalanceInv, InValue, DepthInv
<1>2. PICK h : InValueInv(h)
  BY WhileInValue DEF Key, AtKey, InValue
<1>3. /\ expect' = "colon" /\ UNCHANGED <<nest, below>>
      /\ yydepth' = yydepth + 2 /\ yydepth' <= YYSTACKDEPTH - 1
      /\ yydepth \in Nat /\ below \in Nat
  BY <1>2, DepthAssumption DEF Key, KeyDepths, Room, InValueInv, TypeInv
<1>4. IsStack(stack') /\ Len(stack') = Len(stack) + 1 /\ Len(stack) \in Nat
  BY <1>2, PushIs, StackIs DEF Key, Push, InValueInv, TypeInv, IsElement
<1>5. TypeInv'
  BY <1>2, <1>3, <1>4 DEF TypeInv, InValueInv, InValue
<1>6. Inside.base \in Nat /\ yydepth >= Inside.base + 1 /\ Len(nest) \in Nat \ {0}
  BY <1>1, <1>2, InsideIs DEF InValueInv, TypeInv, DepthInv
<1>7. DepthInv'
  BY <1>1, <1>3, <1>6 DEF DepthInv, InObject, Inside
<1>8. h[Len(nest)] \in Nat /\ Len(stack) = below + h[Len(nest)]
  BY <1>1, <1>2, <1>6 DEF InValueInv, Heights
<1>9. HasField' /\ Len(stack') = below' + h[Len(nest)] + 1
  BY <1>1, <1>3, <1>4, <1>8 DEF HasField, InObject, Inside
<1>10. Heights(h)'
  BY <1>1, <1>2, <1>3, <1>9 DEF InValueInv, Heights
<1>11. Resting = stack /\ Resting' = stack'
  BY RestsOnStack DEF Key, AtKey, NoMatch
<1>12. \A i \in 1..Len(stack) : i \in 1..Len(stack') /\ stack'[i] = stack[i]
  BY <1>2, <1>4, PushIs DEF Key, Push, InValueInv, TypeInv, IsElement
<1>13. Kinds(h)'
  BY <1>2, <1>3, <1>11, <1>12 DEF InValueInv, Kinds
<1> QED BY <1>2, <1>3, <1>5, <1>7, <1>10, <1>13, StepIntoValue DEF InValueInv, InValue

LEMMA ColonKeepsDoc ==
    ASSUME DocInv, IdleInv, Colon
    PROVE  DocInv'
<1>1. PICK h : InValueInv(h)
  BY WhileInValue DEF Colon, InValue
<1>2. InObject /\ HasField
  BY <1>1 DEF Colon, HasField, InValueInv, DepthInv
<1>3. /\ expect' = "value" /\ UNCHANGED <<stack, nest, below>>
      /\ yydepth' = yydepth + 2 /\ yydepth' <= YYSTACKDEPTH - 1 /\ yydepth \in Nat
  BY <1>1, DepthAssumption DEF Colon, Room, matchVars, InValueInv, TypeInv
<1>4. TypeInv'
  BY <1>1, <1>3 DEF TypeInv, InValueInv, InValue
<1>5. Inside.base \in Nat /\ yydepth >= Inside.base + 3 /\ nest # <<>>
  BY <1>1, <1>2, InsideIs DEF InValueInv, TypeInv, DepthInv, Colon, InObject
<1>6. DepthInv'
  BY <1>3, <1>5 DEF DepthInv, Inside
<1>7. HasField'
  BY <1>2, <1>3 DEF HasField, InObject, Inside
<1>8. Heights(h)'
  BY <1>1, <1>2, <1>3, <1>7, SameHeights DEF InValueInv
<1>9. Kinds(h)'
  BY <1>1, <1>3, SameKinds DEF InValueInv, Colon, matchVars, Resting, Idle
<1> QED BY <1>1, <1>3, <1>4, <1>6, <1>8, <1>9, StepIntoValue DEF InValueInv, InValue

LEMMA CommaKeepsDoc ==
    ASSUME DocInv, IdleInv, Comma
    PROVE  DocInv'
<1>1. PICK h : InValueInv(h)
  BY WhileInValue DEF Comma, InValue
<1>2. nest # <<>> /\ ~HasField /\ expect = "next"
  BY <1>1 DEF Comma, HasField, InValueInv, DepthInv
<1>3. /\ expect' = (IF InObject THEN "key" ELSE "value") /\ UNCHANGED <<stack, nest, below>>
      /\ yydepth' = yydepth + 2 /\ yydepth' <= YYSTACKDEPTH - 1 /\ yydepth \in Nat
  BY <1>1, DepthAssumption DEF Comma, Room, matchVars, InValueInv, TypeInv
<1>4. TypeInv'
  BY <1>1, <1>3 DEF TypeInv, InValueInv, InValue
<1>5. Inside.base \in Nat /\ yydepth >= Inside.base + 3
  BY <1>1, <1>2, InsideIs DEF InValueInv, TypeInv, DepthInv
<1>6. DepthInv'
  BY <1>2, <1>3, <1>5 DEF DepthInv, Inside, InObject
<1>7. ~HasField'
  BY <1>3 DEF HasField, InObject, Inside
<1>8. Heights(h)'
  BY <1>1, <1>2, <1>3, <1>7, SameHeights DEF InValueInv
<1>9. Kinds(h)'
  BY <1>1, <1>3, SameKinds DEF InValueInv, Comma, matchVars, Resting, Idle
<1> QED BY <1>1, <1>3, <1>4, <1>6, <1>8, <1>9, StepIntoValue DEF InValueInv, InValue

LEMMA CloseKeepsDoc ==
    ASSUME DocInv, IdleInv, Close
    PROVE  DocInv'
<1>1. PICK h : InValueInv(h)
  BY WhileInValue DEF Close, InValue
<1>2. PICK n : n = Len(nest)
  OBVIOUS
<1>3. /\ nest # <<>> /\ n \in Nat \ {0} /\ Inside.base \in Nat /\ nest \in Seq(Containers)
      /\ ~HasField /\ yydepth >= Inside.base + 1 /\ Inside = nest[n] /\ yydepth \in Nat
      /\ below \in Nat /\ Len(stack) \in Nat
  BY <1>1, <1>2, InsideIs, StackIs DEF Close, InValueInv, TypeInv, DepthInv, HasField, Inside
<1>4. /\ h \in Seq(Nat) /\ Len(h) = n /\ Len(stack) = below + h[n] /\ h[n] \in Nat
      /\ 2 * h[n] <= Inside.base + 1
      /\ IF n = 1 THEN h[n] = 2
         ELSE /\ h[n] = h[n - 1] + (IF nest[n - 1].kind = "object" THEN 2 ELSE 1)
              /\ nest[n - 1].base + 2 <= Inside.base
  <2>1. h \in Seq(Nat) /\ Len(h) = n /\ Len(stack) = below + h[n]
    BY <1>1, <1>2, <1>3 DEF InValueInv, Heights
  <2>2. n \in 1..Len(nest) /\ Inside = nest[n]
    BY <1>2, <1>3
  <2>3. h[n] \in Nat
    BY <1>3, <2>1
  <2> QED BY <1>1, <2>1, <2>2, <2>3 DEF InValueInv, Heights
<1>5. ASSUME n # 1
      PROVE  /\ h[n - 1] \in Nat /\ nest[n - 1].base \in Nat
             /\ h[n] = h[n - 1] + (IF nest[n - 1].kind = "object" THEN 2 ELSE 1)
             /\ nest[n - 1].base + 2 <= Inside.base
  <2>1. n - 1 \in 1..n
    BY <1>3, <1>5
  <2>2. h[n - 1] \in Nat /\ nest[n - 1] \in Containers
    BY <1>2, <1>3, <1>4, <2>1, ElementOfSeq
  <2>3. nest[n - 1].base \in Nat
    BY <2>2 DEF Containers
  <2> QED BY <1>4, <1>5, <2>2, <2>3
<1>6. h[n] > 0
  BY <1>4, <1>5
<1>7. IsStack(stack') /\ Len(stack') = below + (h[n] - 1)
  <2>1. Len(stack) > 0
    BY <1>3, <1>4, <1>6
  <2>2. IsStack(stack') /\ Len(stack') = Len(stack) - 1
    BY <1>1, <2>1, PopIs DEF Close, PopStack, InValueInv, TypeInv
  <2> QED BY <1>3, <1>4, <2>2
<1>8. /\ nest' \in Seq(Containers) /\ Len(nest') = n - 1
      /\ \A j \in 1..n - 1 : nest'[j] = nest[j]
  BY <1>2, <1>3 DEF Close
<1>9. expect' = "report" /\ yydepth' = Inside.base + 1 /\ below' = below
  BY DEF Close
<1>10. TypeInv'
  BY <1>3, <1>7, <1>8, <1>9 DEF TypeInv, InValue
<1>11. PICK g : g = SubSeq(h, 1, n - 1)
  OBVIOUS
<1>12. g \in Seq(Nat) /\ Len(g) = n - 1 /\ \A j \in 1..n - 1 : g[j] = h[j]
  BY <1>3, <1>4, <1>11
<1>13. yydepth' <= YYSTACKDEPTH - 1
  <2>1. yydepth <= YYSTACKDEPTH - 1
    BY <1>1 DEF InValueInv, DepthInv
  <2> QED BY <1>3, <1>9, <2>1, DepthAssumption
<1>14. Kinds(g)'
  <2>1. Resting = stack /\ Resting' = stack'
    BY RestsOnStack DEF Close, NoMatch
  <2>2. \A i \in 1..Len(stack') : stack'[i] = stack[i]
    <3>1. Len(stack) > 0
      BY <1>3, <1>4, <1>6
    <3> QED BY <1>1, <3>1, PopIs DEF Close, PopStack, InValueInv, TypeInv
  <2>3. ASSUME below = 0, NEW j \in 1..n - 1
        PROVE  /\ g[j] \in 1..Len(stack')
               /\ stack'[g[j]].type = (IF nest'[j].kind = "object" THEN "OBJECT" ELSE "PARSED_INDEX")
               /\ \A i \in 1..j - 1 : g[i] < g[j]
    <3>1. j \in 1..n /\ n \in 1..n /\ j \in 1..n - 1 /\ \A i \in 1..j - 1 : i \in 1..n - 1
      BY <1>3
    <3>2. /\ h[j] \in 1..Len(stack) /\ h[j] < h[n] /\ \A i \in 1..j - 1 : h[i] < h[j]
          /\ stack[h[j]].type = (IF nest[j].kind = "object" THEN "OBJECT" ELSE "PARSED_INDEX")
      BY <1>1, <1>2, <2>1, <2>3, <3>1 DEF InValueInv, Kinds
    <3>3. g[j] = h[j] /\ h[j] \in 1..Len(stack')
      <4>1. Len(stack') = h[n] - 1 /\ h[n] \in Nat
        BY <1>4, <1>7, <2>3
      <4> QED BY <1>12, <3>1, <3>2, <4>1
    <3> QED BY <1>8, <1>12, <2>2, <3>1, <3>2, <3>3
  <2> QED BY <1>8, <1>9, <2>1, <2>3 DEF Kinds
<1>15. CASE n = 1
  <2>1. nest' = <<>>
    BY <1>8, <1>15
  <2>2. Inside.base >= 3
    BY <1>3, <1>4, <1>15
  <2>3. DepthInv'
    BY <1>3, <1>9, <1>13, <2>1, <2>2 DEF DepthInv
  <2>4. Len(stack') = below' + 1
    BY <1>4, <1>7, <1>9, <1>15
  <2>5. Heights(g)'
    BY <1>12, <1>15, <2>1, <2>4 DEF Heights
  <2> QED BY <1>9, <1>10, <1>12, <1>14, <2>3, <2>5, StepIntoValue DEF InValue
<1>16. CASE n # 1
  <2>1. n - 1 \in Nat \ {0} /\ n - 1 \in 1..n - 1 /\ nest' # <<>>
    BY <1>3, <1>8, <1>16
  <2>2. Inside' = nest[n - 1] /\ Len(nest') = n - 1
    BY <1>8, <2>1 DEF Inside
  <2>3. yydepth' >= nest[n - 1].base + 3
    BY SMTT(30), <1>3, <1>5, <1>9, <1>16
  <2>4. DepthInv'
    BY <1>9, <1>13, <2>1, <2>2, <2>3 DEF DepthInv
  <2>5. HasField' <=> nest[n - 1].kind = "object"
    BY <1>9, <2>1, <2>2 DEF HasField, InObject
  <2>6. Len(stack') = below' + IF HasField' THEN h[n - 1] + 1 ELSE h[n - 1]
    <3>1. CASE nest[n - 1].kind = "object"
      <4>1. h[n] = h[n - 1] + 2
        BY <1>5, <1>16, <3>1
      <4> QED BY <1>3, <1>5, <1>7, <1>9, <1>16, <2>5, <3>1, <4>1
    <3>2. CASE nest[n - 1].kind # "object"
      <4>1. h[n] = h[n - 1] + 1
        BY <1>5, <1>16, <3>2
      <4> QED BY <1>3, <1>5, <1>7, <1>9, <1>16, <2>5, <3>2, <4>1
    <3> QED BY <3>1, <3>2
  <2>7. ASSUME NEW j \in 1..n - 1
        PROVE  /\ 2 * g[j] <= nest'[j].base + 1
               /\ IF j = 1 THEN g[j] = 2
                  ELSE /\ g[j] = g[j - 1] + (IF nest'[j - 1].kind = "object" THEN 2 ELSE 1)
                       /\ nest'[j - 1].base + 2 <= nest'[j].base
    <3>1. j \in 1..n /\ (j # 1 => j - 1 \in 1..n - 1)
      BY <1>3
    <3> QED BY <1>1, <1>2, <1>8, <1>12, <3>1 DEF InValueInv, Heights
  <2>8. Heights(g)'
    BY <1>8, <1>12, <2>1, <2>6, <2>7 DEF Heights
  <2> QED BY <1>9, <1>10, <1>12, <1>14, <2>4, <2>8, StepIntoValue DEF InValue
<1> QED BY <1>15, <1>16

(* The value is reported: elements change their types, at most. *)
LEMMA RetypingKeepsDoc ==
    ASSUME DocInv, IdleInv, IsStack(stack'), Len(stack') = Len(stack), UNCHANGED <<nest, yydepth, below>>,
           expect' = expect \/ {expect, expect'} \subseteq {"report", "match", "leave"},
           \A h \in Seq(Nat) : Kinds(h) => Kinds(h)'
    PROVE  DocInv'
<1>1. TypeInv'
  BY DEF DocInv, TypeInv, InValue
<1>2. CASE expect \in InValue
  <2>1. PICK h : InValueInv(h)
    BY <1>2, WhileInValue
  <2>2. expect' \in InValue /\ (HasField' <=> HasField)
    BY <1>2 DEF InValue, HasField, InObject, Inside
  <2>3. DepthInv'
    BY <2>1 DEF InValueInv, DepthInv, InObject, Inside
  <2>4. Heights(h)'
    BY <2>1, <2>2, SameHeights DEF InValueInv
  <2>5. h \in Seq(Nat) /\ Kinds(h)'
    BY <2>1 DEF InValueInv
  <2> QED BY <1>1, <2>2, <2>3, <2>4, <2>5, StepIntoValue
<1>3. CASE expect \notin InValue
  <2>1. expect' = expect
    BY <1>3 DEF InValue
  <2> QED BY <1>1, <1>3, <2>1 DEF DocInv, BalanceInv
<1> QED BY <1>2, <1>3

(* A match does not count: what rests is the stack it works on.            *)
LEMMA MatchRests ==
    ASSUME IdleInv, ShapeInv, below = 0, NextRule \/ RuleStep \/ RuleDone \/ AllRulesDone
    PROVE  Resting' = Resting
<1>1. ~Idle => rules # <<>> /\ (frames = <<>> => stack = entry)
  <2>1. ~Idle => MatchInv
    BY DEF ShapeInv
  <2>2. MatchInv => rules # <<>>
    BY DEF MatchInv, TypeOK
  <2>3. MatchInv => StackRestored
    BY NoMarkIsLeft
  <2> QED BY <2>1, <2>2, <2>3 DEF StackRestored
<1>2. CASE NextRule
  <2>1. Idle /\ frames' # <<>> /\ entry' = stack
    BY <1>1, <1>2 DEF NextRule, StartMatch, Idle
  <2> QED BY <2>1 DEF Resting, Idle
<1>3. CASE RuleStep
  <2>1. frames # <<>> /\ UNCHANGED <<rules, entry>>
    BY <1>3 DEF RuleStep, MatchStep, MatchRoot, MatchAny, MatchAnyIndex, ResolveAny, MatchName,
                MatchIndex, MatchRecursive, LeaveLoop, Resume, InLoop, Running
  <2> QED BY <1>1, <2>1 DEF Resting, Idle
<1>4. CASE RuleDone
  <2>1. ~Idle /\ frames = <<>> /\ Idle' /\ UNCHANGED stack
    BY <1>4 DEF RuleDone, Matching, Idle
  <2> QED BY <1>1, <2>1 DEF Resting
<1>5. CASE AllRulesDone
  BY <1>5 DEF AllRulesDone, matchVars, Resting, Idle
<1> QED BY <1>2, <1>3, <1>4, <1>5

LEMMA ReportingKeepsDoc ==
    ASSUME DocInv, IdleInv, ShapeInv, Report \/ NextRule \/ RuleStep \/ RuleDone \/ AllRulesDone
    PROVE  DocInv'
<1>1. IsStack(stack)
  BY DEF DocInv, TypeInv
<1>2. CASE Report
  <2>1. IsStack(stack') /\ Len(stack') = Len(stack)
    BY <1>1, <1>2, MarkedIs DEF Report
  <2>2. UNCHANGED <<nest, yydepth, below>> /\ {expect, expect'} \subseteq {"report", "match", "leave"}
    BY <1>2 DEF Report
  <2>3. Resting = stack /\ Resting' = stack'
    BY <1>2, RestsOnStack DEF Report, NoMatch
  <2>4. \A k \in 1..Len(stack) : stack[k].type \in {"OBJECT", "PARSED_INDEX"}
                                   => stack'[k].type = stack[k].type
    BY <1>1, <1>2, StackIs DEF Report, Marked
  <2>5. \A h \in Seq(Nat) : Kinds(h) => Kinds(h)'
    BY <2>1, <2>2, <2>3, <2>4 DEF Kinds
  <2> QED BY <2>1, <2>2, <2>5, RetypingKeepsDoc
<1>3. CASE NextRule \/ RuleStep \/ RuleDone \/ AllRulesDone
  <2>1. /\ IsStack(stack') /\ Len(stack') = Len(stack)
        /\ UNCHANGED <<nest, yydepth, below>>
        /\ expect' = expect \/ {expect, expect'} \subseteq {"report", "match", "leave"}
    BY <1>1, <1>3, MatchStepIs DEF NextRule, StartMatch, RuleStep, RuleDone, AllRulesDone, docVars, matchVars
  <2>2. \A h \in Seq(Nat) : Kinds(h) => Kinds(h)'
    BY <1>3, <2>1, MatchRests DEF Kinds
  <2> QED BY <2>1, <2>2, RetypingKeepsDoc
<1> QED BY <1>2, <1>3

LEMMA LeaveMemberKeepsDoc ==
    ASSUME DocInv, IdleInv, LeaveMember
    PROVE  DocInv'
<1>1. PICK h : InValueInv(h)
  BY WhileInValue DEF LeaveMember, InValue
<1>2. /\ nest # <<>> /\ HasField /\ Inside.base \in Nat /\ Len(nest) \in Nat \ {0}
      /\ yydepth >= Inside.base + 3 /\ Len(stack) \in Nat /\ below \in Nat /\ yydepth \in Nat
  BY <1>1, InsideIs, StackIs DEF LeaveMember, InObject, HasField, InValueInv, TypeInv, DepthInv
<1>3. h[Len(nest)] \in Nat /\ Len(stack) = below + h[Len(nest)] + 1
  BY <1>1, <1>2 DEF InValueInv, Heights
<1>4. IsStack(stack') /\ Len(stack') = below + h[Len(nest)]
  <2>1. Len(stack) > 0
    BY <1>2, <1>3
  <2>2. IsStack(stack') /\ Len(stack') = Len(stack) - 1
    BY <1>1, <2>1, PopIs DEF LeaveMember, PopStack, InValueInv, TypeInv
  <2> QED BY <1>2, <1>3, <2>2
<1>5. expect' = "next" /\ yydepth' = Inside.base + 3 /\ UNCHANGED <<nest, below>>
  BY DEF LeaveMember
<1>6. TypeInv'
  BY <1>1, <1>2, <1>4, <1>5 DEF TypeInv, InValueInv, InValue
<1>7. yydepth' <= YYSTACKDEPTH - 1
  BY <1>1, <1>2, <1>5, DepthAssumption DEF InValueInv, DepthInv
<1>8. DepthInv'
  BY <1>2, <1>5, <1>7 DEF DepthInv, Inside
<1>9. ~HasField'
  BY <1>5 DEF HasField
<1>10. Heights(h)'
  BY <1>1, <1>2, <1>4, <1>5, <1>9 DEF InValueInv, Heights
<1>11. Resting = stack /\ Resting' = stack'
  BY RestsOnStack DEF LeaveMember, NoMatch
<1>12. \A i \in 1..Len(stack') : stack'[i] = stack[i]
  <2>1. IsStack(stack) /\ stack' = SubSeq(stack, 1, Len(stack) - 1)
    BY <1>1 DEF LeaveMember, PopStack, InValueInv, TypeInv
  <2>2. Len(stack) > 0
    BY <1>2, <1>3
  <2> QED BY ONLY <2>1, <2>2, PopIs
<1>13. ASSUME below = 0, NEW j \in 1..Len(nest)
       PROVE  h[j] \in 1..Len(stack')
  <2>1. /\ h[j] \in 1..Len(stack)
        /\ \A m \in 1..Len(nest) : \A i \in 1..m - 1 : h[i] < h[m]
    BY <1>1, <1>11, <1>13 DEF InValueInv, Kinds
  <2>2. j = Len(nest) \/ j \in 1..Len(nest) - 1
    BY <1>2
  <2>3. h[j] <= h[Len(nest)]
    BY <1>2, <1>3, <2>1, <2>2
  <2> QED BY <1>3, <1>4, <1>13, <2>1, <2>3
<1>14. Kinds(h)'
  BY <1>1, <1>5, <1>11, <1>12, <1>13 DEF InValueInv, Kinds
<1> QED BY <1>1, <1>5, <1>6, <1>8, <1>10, <1>14, StepIntoValue DEF InValueInv, InValue

LEMMA LeaveElementKeepsDoc ==
    ASSUME DocInv, IdleInv, LeaveElement
    PROVE  DocInv'
<1>1. PICK h : InValueInv(h)
  BY WhileInValue DEF LeaveElement, InValue
<1>2. /\ nest # <<>> /\ ~HasField /\ Inside.base \in Nat /\ Len(nest) \in Nat \ {0}
      /\ yydepth >= Inside.base + 3 /\ Len(stack) \in Nat /\ below \in Nat /\ yydepth \in Nat
  BY <1>1, InsideIs, StackIs DEF LeaveElement, InArray, InObject, HasField, InValueInv, TypeInv, DepthInv
<1>3. h[Len(nest)] \in Nat /\ Len(stack) = below + h[Len(nest)]
  BY <1>1, <1>2 DEF InValueInv, Heights
<1>4. Len(stack) > 0
  <2>1. Len(nest) = 1 => h[Len(nest)] = 2
    BY <1>1, <1>2 DEF InValueInv, Heights
  <2>2. CASE Len(nest) # 1
    <3>1. /\ Len(nest) - 1 \in 1..Len(nest) /\ Len(nest) \in 1..Len(nest)
          /\ h \in Seq(Nat) /\ Len(h) = Len(nest)
      BY SMTT(30), <1>1, <1>2, <2>2 DEF InValueInv, Heights
    <3>2. h[Len(nest) - 1] \in Nat
      BY <3>1, ElementOfSeq
    <3>3. h[Len(nest)] = h[Len(nest) - 1] + (IF nest[Len(nest) - 1].kind = "object" THEN 2 ELSE 1)
      BY <1>1, <2>2, <3>1 DEF InValueInv, Heights
    <3> QED BY <1>2, <1>3, <3>2, <3>3
  <2> QED BY <1>2, <1>3, <2>1, <2>2
<1>5. IsStack(stack') /\ Len(stack') = Len(stack)
  BY <1>1, <1>4, CountIs DEF LeaveElement, InValueInv, TypeInv
<1>6. expect' = "next" /\ yydepth' = Inside.base + 3 /\ UNCHANGED <<nest, below>>
  BY DEF LeaveElement
<1>7. TypeInv'
  BY <1>1, <1>2, <1>5, <1>6 DEF TypeInv, InValueInv, InValue
<1>8. yydepth' <= YYSTACKDEPTH - 1
  BY <1>1, <1>2, <1>6, DepthAssumption DEF InValueInv, DepthInv
<1>9. DepthInv'
  BY <1>2, <1>6, <1>8 DEF DepthInv, Inside
<1>10. ~HasField'
  BY <1>6 DEF HasField
<1>11. Heights(h)'
  BY <1>1, <1>2, <1>5, <1>6, <1>10, SameHeights DEF InValueInv
<1>12. Resting = stack /\ Resting' = stack'
  BY RestsOnStack DEF LeaveElement, NoMatch
<1>13. \A i \in 1..Len(stack) : stack'[i].type = stack[i].type
  BY <1>1, <1>4, CountIs DEF LeaveElement, InValueInv, TypeInv
<1>14. Kinds(h)'
  BY <1>1, <1>5, <1>6, <1>12, <1>13 DEF InValueInv, Kinds
<1> QED BY <1>1, <1>6, <1>7, <1>9, <1>11, <1>14, StepIntoValue DEF InValueInv, InValue

-----------------------------------------------------------------------------
(* The steps at the ends of a document.                                    *)

LEMMA LeaveRootKeepsDoc ==
    ASSUME DocInv, IdleInv, LeaveRoot
    PROVE  DocInv'
<1>1. PICK h : InValueInv(h)
  BY WhileInValue DEF LeaveRoot, InValue
<1>2. /\ Len(stack) = below + 1 /\ below \in Nat /\ IsStack(stack) /\ yydepth \in Nat
      /\ nest = <<>>
  BY <1>1 DEF LeaveRoot, InValueInv, Heights, TypeInv
<1>3. IsStack(stack') /\ Len(stack') = below
  <2>1. Len(stack) > 0 /\ Len(stack) - 1 = below
    BY <1>2
  <2> QED BY <1>2, <2>1, PopIs DEF LeaveRoot, PopStack
<1>4. expect' = "ended" /\ UNCHANGED <<nest, below>> /\ yydepth' = yydepth + 2
  BY DEF LeaveRoot
<1>5. TypeInv'
  BY <1>1, <1>2, <1>3, <1>4 DEF TypeInv, InValueInv
<1>6. 2 * (below - below) <= YYSTACKDEPTH - 1
  BY <1>2, DepthAssumption
<1> QED BY <1>2, <1>3, <1>4, <1>5, <1>6 DEF DocInv, BalanceInv, InValue

LEMMA AcceptKeepsDoc ==
    ASSUME DocInv, IdleInv, Accept
    PROVE  DocInv'
<1>1. UNCHANGED <<stack, nest, below>> /\ expect = "ended" /\ expect' = "done" /\ yydepth' = 0
  BY DEF Accept, matchVars
<1>2. TypeInv'
  BY <1>1 DEF DocInv, TypeInv
<1> QED BY <1>1, <1>2 DEF DocInv, BalanceInv, InValue

LEMMA BreakKeepsDoc ==
    ASSUME DocInv, IdleInv, Fail \/ Overflow
    PROVE  DocInv'
<1>1. /\ UNCHANGED <<stack, below>> /\ expect' \in {"failed", "overflowed"}
      /\ nest' = <<>> /\ yydepth' = 0
  BY DEF Fail, Overflow, matchVars
<1>2. TypeInv'
  BY <1>1 DEF DocInv, TypeInv
<1> QED BY <1>1, <1>2 DEF DocInv, BalanceInv, InValue

LEMMA AgainKeepsDoc ==
    ASSUME DocInv, IdleInv, Restart \/ ParseAgain
    PROVE  DocInv'
<1>1. /\ UNCHANGED <<stack, nest, below>> /\ expect' = "start" /\ yydepth' = 1
      /\ expect \notin InValue
  BY DEF Restart, ParseAgain, matchVars, InValue
<1>2. TypeInv'
  BY <1>1 DEF DocInv, TypeInv
<1> QED BY <1>1, <1>2 DEF DocInv, BalanceInv, InValue


-----------------------------------------------------------------------------
(* The shape of the stack.                                                 *)

LEMMA ShapeOfPush ==
    ASSUME NEW s, Shape(s), NEW e \in StackElements, KeyFits(e),
           e.type \in SettledTypes, e.type # "PARSED_ROOT",
           e.type \in FieldTypes <=> s[Len(s)].type = "OBJECT",
           NEW t, t = Append(s, e)
    PROVE  Shape(t)
<1>1. s \in Seq(StackElements) /\ s # <<>> /\ Len(s) \in Nat \ {0}
  BY DEF Shape
<1>2. /\ t \in Seq(StackElements) /\ Len(t) = Len(s) + 1 /\ t # <<>>
      /\ t[Len(s) + 1] = e /\ \A i \in 1..Len(s) : t[i] = s[i]
  BY <1>1
<1>3. ASSUME NEW i \in 1..Len(t)
      PROVE  /\ KeyFits(t[i])
             /\ (t[i].type = "PARSED_ROOT") <=> (i = 1)
             /\ t[i].type \in SettledTypes
             /\ t[i].type \in FieldTypes <=> (i > 1 /\ t[i - 1].type = "OBJECT")
  <2>1. CASE i \in 1..Len(s)
    <3>1. t[i] = s[i] /\ (i > 1 => t[i - 1] = s[i - 1])
      BY <1>1, <1>2, <2>1
    <3> QED BY <2>1, <3>1 DEF Shape
  <2>2. CASE i = Len(s) + 1
    <3>1. t[i] = e /\ i > 1 /\ t[i - 1] = s[Len(s)]
      BY <1>1, <1>2, <2>2
    <3> QED BY <3>1
  <2> QED BY <1>1, <1>2, <2>1, <2>2
<1> QED BY <1>2, <1>3 DEF Shape

LEMMA ShapeOfPop ==
    ASSUME NEW s, Shape(s), Len(s) > 1, NEW t, t = SubSeq(s, 1, Len(s) - 1)
    PROVE  Shape(t)
<1>1. s \in Seq(StackElements) /\ Len(s) \in Nat
  BY DEF Shape
<1>2. /\ t \in Seq(StackElements) /\ Len(t) = Len(s) - 1 /\ t # <<>>
      /\ \A i \in 1..Len(t) : t[i] = s[i]
  <2>1. s # <<>>
    BY <1>1
  <2>2. /\ t \in Seq(StackElements) /\ Len(t) = Len(s) - 1
        /\ \A i \in 1..Len(s) - 1 : t[i] = s[i]
    BY <1>1, <2>1, PopProperties
  <2>3. Len(t) > 0
    BY <1>1, <2>2
  <2>4. t # <<>>
    <3>1. Len(<<>>) = 0
      OBVIOUS
    <3> QED BY ONLY <2>3, <3>1
  <2>5. \A i \in 1..Len(t) : t[i] = s[i]
    BY ONLY <2>2
  <2> QED BY <2>2, <2>4, <2>5
<1>3. ASSUME NEW i \in 1..Len(t)
      PROVE  /\ KeyFits(t[i])
             /\ (t[i].type = "PARSED_ROOT") <=> (i = 1)
             /\ t[i].type \in SettledTypes
             /\ t[i].type \in FieldTypes <=> (i > 1 /\ t[i - 1].type = "OBJECT")
  <2>1. i \in 1..Len(s) /\ t[i] = s[i] /\ (i > 1 => t[i - 1] = s[i - 1])
    BY <1>1, <1>2
  <2> QED BY <2>1 DEF Shape
<1> QED BY <1>2, <1>3 DEF Shape

LEMMA ShapeOfChange ==
    ASSUME NEW s, Shape(s), NEW t \in Seq(StackElements), Len(t) = Len(s),
           \A i \in 1..Len(s) : /\ KeyFits(t[i])
                                /\ \/ t[i].type = s[i].type
                                   \/ t[i].type \in FieldTypes /\ s[i].type \in FieldTypes
    PROVE  Shape(t)
<1>1. s \in Seq(StackElements) /\ Len(s) \in Nat /\ t # <<>>
  BY DEF Shape
<1>2. ASSUME NEW i \in 1..Len(t)
      PROVE  /\ KeyFits(t[i])
             /\ (t[i].type = "PARSED_ROOT") <=> (i = 1)
             /\ t[i].type \in SettledTypes
             /\ t[i].type \in FieldTypes <=> (i > 1 /\ t[i - 1].type = "OBJECT")
  <2>1. \A j \in 1..Len(s) : t[j].type = "OBJECT" <=> s[j].type = "OBJECT"
    BY DEF FieldTypes
  <2>2. i > 1 => i - 1 \in 1..Len(s)
    BY <1>1
  <2> QED BY <2>1, <2>2 DEF Shape, SettledTypes, FieldTypes
<1> QED BY <1>1, <1>2 DEF Shape

(* What is on top where the parser is. *)
LEMMA TopIs ==
    ASSUME DocInv, IdleInv, below = 0, expect \in InValue, expect # "match"
    PROVE  /\ Resting = stack /\ Len(stack) \in Nat \ {0}
           /\ nest = <<>> => Len(stack) = 1
           /\ nest # <<>> => Len(stack) > 1
           /\ InArray => stack[Len(stack)].type = "PARSED_INDEX"
           /\ InObject /\ ~HasField => stack[Len(stack)].type = "OBJECT"
           /\ HasField => stack[Len(stack) - 1].type = "OBJECT"
<1>1. PICK h : InValueInv(h)
  BY WhileInValue
<1>2. Resting = stack
  BY DEF IdleInv, Resting
<1>3. CASE nest = <<>>
  <2>1. Len(stack) = 1
    BY <1>1, <1>3 DEF InValueInv, Heights
  <2> QED BY <1>2, <1>3, <2>1 DEF InObject, InArray, HasField
<1>4. CASE nest # <<>>
  <2>1. PICK n : n = Len(nest)
    OBVIOUS
  <2>2. n \in Nat \ {0} /\ Inside = nest[n] /\ Inside.kind \in {"object", "array"}
    BY <1>1, <1>4, <2>1, InsideIs DEF InValueInv, TypeInv, Inside
  <2>3. n \in 1..Len(nest) /\ 1 \in 1..Len(nest) /\ (n # 1 => 1 \in 1..n - 1)
    BY <2>1, <2>2
  <2>4. /\ h[n] \in 1..Len(stack) /\ h[1] = 2 /\ (n # 1 => h[1] < h[n])
        /\ stack[h[n]].type = (IF Inside.kind = "object" THEN "OBJECT" ELSE "PARSED_INDEX")
    BY <1>1, <1>2, <2>2, <2>3 DEF InValueInv, Kinds, Heights
  <2>5. Len(stack) = (IF HasField THEN h[n] + 1 ELSE h[n])
    BY <1>1, <1>4, <2>1, <2>4 DEF InValueInv, Heights
  <2>6. Len(stack) \in Nat
    BY <1>1, StackIs DEF InValueInv, TypeInv
  <2>7. h[n] \in Nat /\ h[n] > 1
    BY <2>2, <2>4, <2>6
  <2>8. HasField => InObject
    BY DEF HasField
  <2>9. CASE HasField
    <3>1. Len(stack) - 1 = h[n] /\ Inside.kind = "object"
      BY <2>5, <2>7, <2>8, <2>9 DEF InObject
    <3> QED BY <1>2, <1>4, <2>4, <2>6, <2>7, <2>9, <3>1 DEF InArray
  <2>10. CASE ~HasField
    BY <1>2, <1>4, <2>4, <2>5, <2>6, <2>7, <2>10 DEF InArray, InObject
  <2> QED BY <2>9, <2>10
<1> QED BY <1>3, <1>4

(* A set of natural numbers has a least element. *)
LEMMA LeastExists ==
    ASSUME NEW S, S \subseteq Nat, S # {}
    PROVE  \E x \in S : \A y \in S : x <= y
<1>1. PICK Less : IsWellFoundedOn(Less, Nat) /\ \A x, y \in Nat : <<y, x>> \in Less <=> y < x
  <2>1. \A x, y \in Nat : <<y, x>> \in OpToRel(<, Nat) <=> y < x
    BY DEF OpToRel
  <2> QED BY <2>1, NatLessThanWellFounded, Zenon
<1>2. PICK x \in S : \A y \in S : ~ (<<y, x>> \in Less)
  BY <1>1, WFMin
<1>3. ASSUME NEW y \in S PROVE x <= y
  <2>1. x \in Nat /\ y \in Nat
    OBVIOUS
  <2>2. ~(y < x)
    BY <1>1, <1>2, <2>1
  <2> QED BY <2>1, <2>2
<1> QED BY <1>3

(* And a bounded one a greatest. *)
LEMMA GreatestExists ==
    ASSUME NEW n \in Nat, NEW S, S \subseteq 0..n, S # {}
    PROVE  \E x \in S : \A y \in S : y <= x
<1> DEFINE T == {n - y : y \in S}
<1>1. T \subseteq Nat /\ T # {} /\ \A y \in S : n - y \in T
  <2>1. \A y \in S : n - y \in Nat
    OBVIOUS
  <2> QED BY <2>1
<1>2. PICK m \in T : \A y \in T : m <= y
  <2> HIDE DEF T
  <2> QED BY <1>1, LeastExists
<1>3. PICK x \in S : m = n - x
  OBVIOUS
<1>4. \A y \in S : y <= x
  <2> TAKE y \in S
  <2>1. n - x <= n - y
    BY <1>1, <1>2, <1>3
  <2> QED BY <2>1
<1> QED BY <1>4

(* The loop ends at the first HTTP callback, or at the last block. *)
LEMMA LiveRulesLength ==
    ASSUME table \in Tables
    PROVE  \E last \in 0..Len(table) :
              /\ LiveRules = SubSeq(table, 1, last) /\ \A i \in 1..last : table[i] # HttpBlock
              /\ Len(LiveRules) = last /\ Len(LiveRules) \in Nat
<1> DEFINE reached == {n \in 0..Len(table) : \A i \in 1..n : table[i] # HttpBlock}
           last    == CHOOSE n \in reached : \A m \in reached : m <= n
<1>1. table \in Seq({HttpBlock} \cup {r \in Seq(RuleElements) : IsRule(r)}) /\ Len(table) \in Nat
  BY TablesAssumption
<1>2. 0 \in reached
  BY <1>1
<1>3. reached \subseteq 0..Len(table) /\ Len(table) \in Nat
  BY <1>1
<1>4. last \in reached
  <2> HIDE DEF reached
  <2> QED BY <1>2, <1>3, GreatestExists
<1>5. LiveRules = SubSeq(table, 1, last)
  BY DEF LiveRules
<1>6. last \in 0..Len(table) /\ \A i \in 1..last : table[i] # HttpBlock
  BY <1>4
<1> HIDE DEF reached, last
<1>7. Len(LiveRules) = last /\ Len(LiveRules) \in Nat
  BY <1>1, <1>5, <1>6
<1> QED BY <1>5, <1>6, <1>7

(* The rules the loop reaches are rules. *)
LEMMA LiveRulesAre ==
    ASSUME table \in Tables, NEW k \in 1..Len(LiveRules)
    PROVE  IsRule(LiveRules[k])
<1>1. PICK last \in 0..Len(table) :
          /\ LiveRules = SubSeq(table, 1, last) /\ \A i \in 1..last : table[i] # HttpBlock
          /\ Len(LiveRules) = last
  BY LiveRulesLength
<1>2. table \in Seq({HttpBlock} \cup {r \in Seq(RuleElements) : IsRule(r)}) /\ Len(table) \in Nat
  BY TablesAssumption
<1>3. LiveRules[k] = table[k] /\ k \in 1..last /\ k \in 1..Len(table)
  BY <1>1, <1>2
<1>4. table[k] \in {HttpBlock} \cup {r \in Seq(RuleElements) : IsRule(r)}
  BY <1>2, <1>3, ElementOfSeq
<1> QED BY <1>1, <1>3, <1>4

-----------------------------------------------------------------------------
(* The matcher works only in the loop over the rules.                      *)

LEMMA QuietIdle ==
    ASSUME IdleInv, expect # "match", UNCHANGED <<rules, frames, calls, table>>,
           told' \in {told, <<>>}, isComplex' \in {isComplex, TRUE, FALSE}
    PROVE  IdleInv'
<1>1. rules = <<>> /\ frames = <<>> /\ rules' = <<>> /\ frames' = <<>> /\ calls' = calls /\ table' = table
  BY DEF IdleInv, Idle
<1>2. told' \in Seq(Nat)
  <2>1. <<>> \in Seq(Nat)
    OBVIOUS
  <2>2. told' = told \/ told' = <<>>
    OBVIOUS
  <2> QED BY ONLY <2>1, <2>2, IdleInv DEF IdleInv
<1>3. isComplex' \in BOOLEAN
  BY DEF IdleInv
<1>4. Idle'
  BY <1>1 DEF Idle
<1> QED BY <1>1, <1>2, <1>3, <1>4 DEF IdleInv

LEMMA StepOfMatch ==
    ASSUME IdleInv, MatchStep
    PROVE  /\ rules # <<>> /\ frames # <<>> /\ expect = "match"
           /\ UNCHANGED <<rules, isComplex, entry>>
           /\ calls' \in Nat
<1>1. frames # <<>> /\ UNCHANGED <<rules, isComplex, entry>>
  BY DEF MatchStep, MatchRoot, MatchAny, MatchAnyIndex, ResolveAny, MatchName, MatchIndex,
         MatchRecursive, LeaveLoop, Resume, InLoop, Running
<1>2. calls' = calls \/ calls' = calls + 1
  BY DEF MatchStep, MatchRoot, MatchAny, MatchAnyIndex, ResolveAny, MatchName, MatchIndex,
         MatchRecursive, RecursiveAtObject, RecursiveAtHead, RecursiveAtIndex,
         RecursiveElsewhere, LeaveLoop, Resume, Return, CallHandler, Advance, Descend, Call
<1> QED BY <1>1, <1>2 DEF IdleInv, Idle

(* What the loop starts a match with is a rule. *)
LEMMA NextRuleIs ==
    ASSUME IdleInv, NextRule
    PROVE  IsRule(rules') /\ rules' # <<>> /\ Idle
<1>1. Len(told) \in Nat /\ Len(LiveRules) \in Int /\ Len(told) + 1 <= Len(LiveRules)
  BY LiveRulesLength DEF IdleInv, NextRule
<1>2. Len(told) + 1 \in 1..Len(LiveRules)
  BY <1>1
<1>3. IsRule(LiveRules[Len(told) + 1])
  BY <1>2, LiveRulesAre DEF IdleInv
<1> QED BY <1>3 DEF NextRule, StartMatch, IsRule, IdleInv, Idle

LEMMA NextKeepsIdle ==
    ASSUME IdleInv, [Next]_vars
    PROVE  IdleInv'
<1>1. CASE StartRoot \/ Scalar \/ OpenObject \/ OpenArray \/ Colon \/ Comma \/ Close
             \/ \E n \in Names : Key(n)
  BY <1>1, QuietIdle DEF StartRoot, Scalar, OpenObject, OpenArray, Open, Colon, Comma, Close, Key,
         NoMatch, AtValue, AtKey, matchVars
<1>2. CASE Report \/ LeaveMember \/ LeaveElement \/ LeaveRoot
  BY <1>2, QuietIdle DEF Report, LeaveMember, LeaveElement, LeaveRoot, NoMatch
<1>3. CASE Accept \/ Restart \/ ParseAgain
  BY <1>3, QuietIdle DEF Accept, Restart, ParseAgain, matchVars
<1>4. CASE Fail \/ (expect \in Waiting /\ Overflow) \/ (expect = "leave" /\ Overflow)
  BY <1>4, QuietIdle DEF Fail, Overflow, Waiting, matchVars
<1>5. CASE NextRule
  <2>1. rules' # <<>> /\ expect' = "match" /\ UNCHANGED docVars /\ calls' = 0 /\ isComplex' = isComplex
    BY <1>5, NextRuleIs DEF NextRule, StartMatch, docVars
  <2> QED BY <2>1 DEF IdleInv, docVars
<1>6. CASE RuleStep
  <2>1. /\ rules # <<>> /\ expect = "match" /\ UNCHANGED <<rules, isComplex>>
        /\ calls' \in Nat /\ UNCHANGED <<expect, told, table>>
    BY <1>6, StepOfMatch DEF RuleStep, docVars
  <2>2. isComplex' \in BOOLEAN
    BY <2>1 DEF IdleInv
  <2>3. told' \in Seq(Nat) /\ table' \in Tables
    BY <2>1 DEF IdleInv
  <2>4. rules' # <<>> /\ expect' = "match" /\ calls' \in Nat
    BY <2>1
  <2> QED BY <2>2, <2>3, <2>4 DEF IdleInv
<1>7. CASE RuleDone
  BY <1>7 DEF RuleDone, Matching, IdleInv, Idle
<1>8. CASE AllRulesDone
  BY <1>8 DEF AllRulesDone, IdleInv, Idle, matchVars
<1>9. CASE UNCHANGED vars
  BY <1>9 DEF vars, matchVars, docVars, IdleInv, Idle
<1> QED BY <1>1, <1>2, <1>3, <1>4, <1>5, <1>6, <1>7, <1>8, <1>9 DEF Next, Work, Token, Ended

-----------------------------------------------------------------------------
(* The shape, step by step.                                                *)

LEMMA QuietShape ==
    ASSUME IInv, expect # "match", UNCHANGED <<rules, frames>>,
           below' = 0 => /\ expect' \in InValue => Shape(stack')
                         /\ FreshField' => stack'[Len(stack')].type = "FIELD"
                         /\ expect' = "match" => IsParseStack(stack', isComplex')
    PROVE  ShapeInv'
<1>1. Resting' = stack' /\ Idle'
  BY RestsOnStack DEF IInv
<1> QED BY <1>1 DEF ShapeInv

(* Outside of values nothing is said of the stack. *)
LEMMA OutsideShape ==
    ASSUME IInv, expect # "match", UNCHANGED <<rules, frames>>, expect' \notin InValue
    PROVE  ShapeInv'
<1>1. ~FreshField' /\ expect' # "match"
  BY DEF FreshField, InValue
<1> QED BY <1>1, QuietShape

(* The stack stays and no field is fresh. *)
LEMMA SameShapeOfStack ==
    ASSUME IInv, expect \in InValue, expect # "match", UNCHANGED <<rules, frames, stack, below>>,
           FreshField' => FreshField, expect' # "match"
    PROVE  ShapeInv'
<1>1. Resting = stack
  BY RestsOnStack DEF IInv, IdleInv, Resting
<1>2. below = 0 => /\ Shape(stack)
                   /\ FreshField => stack[Len(stack)].type = "FIELD"
  BY <1>1 DEF IInv, ShapeInv
<1> QED BY <1>2, QuietShape

LEMMA StartRootKeepsShape ==
    ASSUME IInv, StartRoot
    PROVE  ShapeInv'
<1>1. /\ expect = "start" /\ expect' = "value" /\ UNCHANGED <<rules, frames, nest>> /\ below' = Len(stack)
      /\ stack' = Append(stack, [type |-> "PARSED_ROOT", key |-> NoKey]) /\ nest = <<>>
  BY DEF StartRoot, Push, NoMatch, IInv, DocInv, BalanceInv, InValue
<1>2. ~FreshField'
  BY <1>1 DEF FreshField, InObject
<1>3. ASSUME below' = 0
      PROVE  Shape(stack')
  <2> DEFINE root == [type |-> "PARSED_ROOT", key |-> NoKey]
  <2>1. IsStack(stack) /\ Len(stack) = 0
    BY <1>1, <1>3 DEF IInv, DocInv, TypeInv
  <2>2. IsElement(root) /\ root \in StackElements /\ KeyFits(root) /\ root.type \in SettledTypes
        /\ root.type \notin FieldTypes /\ root.type = "PARSED_ROOT"
    BY DEF IsElement, StackElements, StackTypes, SettledTypes, FieldTypes, Keys, KeyFits
  <2>3. stack' = Append(stack, root) /\ Len(stack) + 1 = 1
    BY <1>1, <2>1
  <2> HIDE DEF root
  <2>4. IsStack(stack') /\ Len(stack') = 1 /\ stack'[1] = root
    <3>1. IsStack(stack) /\ IsElement(root) /\ stack' = Append(stack, root)
      BY <2>1, <2>2, <2>3
    <3>2. /\ IsStack(stack') /\ Len(stack') = Len(stack) + 1
          /\ stack'[Len(stack) + 1] = root
      BY ONLY <3>1, PushIs
    <3> QED BY <2>3, <3>2
  <2>5. stack' = [k \in 1..1 |-> stack'[k]] /\ \A k \in 1..1 : k = 1
    BY <2>4, StackIs
  <2>6. stack' = [k \in 1..1 |-> root]
    BY <2>4, <2>5
  <2>7. stack' \in Seq(StackElements) /\ stack' # <<>>
    BY ONLY <2>2, <2>6
  <2> QED BY <2>2, <2>4, <2>5, <2>7 DEF Shape
<1> QED BY <1>1, <1>2, <1>3, QuietShape

LEMMA ScalarKeepsShape ==
    ASSUME IInv, Scalar
    PROVE  ShapeInv'
<1>1. /\ expect \in {"value", "first"} /\ expect' = "report"
      /\ UNCHANGED <<rules, frames, stack, below, nest>>
      /\ expect = "first" => InArray
  BY DEF Scalar, NoMatch, AtValue
<1>2. FreshField' => FreshField
  BY <1>1 DEF FreshField, InObject, InArray, Inside
<1> QED BY <1>1, <1>2, SameShapeOfStack DEF InValue

LEMMA OpenKeepsShape ==
    ASSUME IInv, OpenObject \/ OpenArray
    PROVE  ShapeInv'
<1>1. PICK e : /\ e \in {[type |-> "OBJECT", key |-> NoKey], [type |-> "PARSED_INDEX", key |-> 0]}
               /\ stack' = Append(stack, e)
  BY DEF OpenObject, OpenArray, Open, Push
<1>2. /\ e \in StackElements /\ KeyFits(e) /\ e.type \in SettledTypes /\ e.type # "PARSED_ROOT"
      /\ e.type \notin FieldTypes
  BY <1>1 DEF StackElements, StackTypes, SettledTypes, FieldTypes, Keys, KeyFits
<1>3. /\ AtValue /\ expect \in {"value", "first"} /\ expect' = "first"
      /\ UNCHANGED <<rules, frames, below>>
  BY DEF OpenObject, OpenArray, Open, NoMatch, AtValue
<1>4. ~FreshField'
  BY <1>3 DEF FreshField
<1>5. ASSUME below = 0
      PROVE  Shape(stack')
  <2>1. Shape(stack) /\ Len(stack) \in Nat \ {0}
    BY <1>3, <1>5, TopIs DEF IInv, ShapeInv, InValue
  <2>2. stack[Len(stack)].type # "OBJECT"
    <3>1. CASE nest = <<>>
      <4>1. Len(stack) = 1
        BY <1>3, <1>5, <3>1, TopIs DEF IInv, InValue
      <4>2. stack[1].type = "PARSED_ROOT"
        BY <2>1, <4>1 DEF Shape
      <4> QED BY <4>1, <4>2
    <3>2. CASE InArray
      BY <1>3, <1>5, <3>2, TopIs DEF IInv, InValue
    <3>3. CASE nest # <<>> /\ ~InArray
      <4>1. expect = "value" /\ InObject
        BY <1>3, <3>3, InsideIs DEF AtValue, InArray, InObject, IInv, DocInv, TypeInv
      <4>2. FreshField
        BY <4>1 DEF FreshField
      <4>3. stack[Len(stack)].type = "FIELD"
        BY <1>3, <1>5, <4>2, TopIs DEF IInv, ShapeInv, InValue
      <4> QED BY <4>3
    <3> QED BY <3>1, <3>2, <3>3
  <2> QED BY <1>1, <1>2, <2>1, <2>2, ShapeOfPush
<1> QED BY <1>3, <1>4, <1>5, QuietShape

LEMMA KeyKeepsShape ==
    ASSUME IInv, NEW name \in Names, Key(name)
    PROVE  ShapeInv'
<1>1. /\ AtKey /\ expect \in {"key", "first"} /\ expect' = "colon"
      /\ stack' = Append(stack, [type |-> "FIELD", key |-> name])
      /\ UNCHANGED <<rules, frames, below>>
  BY DEF Key, Push, NoMatch, AtKey
<1>2. PICK e : e = [type |-> "FIELD", key |-> name]
  OBVIOUS
<1>3. /\ e \in StackElements /\ KeyFits(e) /\ e.type \in SettledTypes /\ e.type # "PARSED_ROOT"
      /\ e.type \in FieldTypes /\ e.type = "FIELD"
  BY <1>2 DEF StackElements, StackTypes, SettledTypes, FieldTypes, Keys, KeyFits
<1>4. ASSUME below = 0
      PROVE  Shape(stack') /\ stack'[Len(stack')].type = "FIELD"
  <2>1. Shape(stack) /\ Len(stack) \in Nat \ {0}
    BY <1>1, <1>4, TopIs DEF IInv, ShapeInv, InValue
  <2>2. InObject /\ ~HasField
    BY <1>1 DEF AtKey, InObject, HasField, IInv, DocInv, BalanceInv, DepthInv, InValue
  <2>3. stack[Len(stack)].type = "OBJECT"
    BY <1>1, <1>4, <2>2, TopIs DEF IInv, InValue
  <2>4. Shape(stack')
    BY <1>1, <1>2, <1>3, <2>1, <2>3, ShapeOfPush
  <2>5. stack \in Seq(StackElements)
    BY <2>1 DEF Shape
  <2>6. stack'[Len(stack')] = e
    BY <1>1, <1>2, <1>3, <2>5
  <2> QED BY <1>3, <2>4, <2>6
<1> QED BY <1>1, <1>4, QuietShape

LEMMA ColonKeepsShape ==
    ASSUME IInv, Colon
    PROVE  ShapeInv'
<1>1. /\ expect = "colon" /\ expect' = "value" /\ UNCHANGED <<rules, frames, stack, below, nest>>
  BY DEF Colon, matchVars
<1>2. FreshField' => FreshField
  BY <1>1 DEF FreshField, InObject, Inside
<1> QED BY <1>1, <1>2, SameShapeOfStack DEF InValue

LEMMA CommaKeepsShape ==
    ASSUME IInv, Comma
    PROVE  ShapeInv'
<1>1. /\ expect = "next" /\ expect' = (IF InObject THEN "key" ELSE "value")
      /\ UNCHANGED <<rules, frames, stack, below, nest>>
  BY DEF Comma, matchVars
<1>2. ~FreshField'
  BY <1>1 DEF FreshField, InObject, Inside
<1>3. expect' # "match"
  BY <1>1
<1> QED BY <1>1, <1>2, <1>3, SameShapeOfStack DEF InValue

(* What Close and LeaveMember take off is not the root. *)
LEMMA PopShape ==
    ASSUME IInv, below = 0, expect \in InValue, expect # "match", nest # <<>>, PopStack
    PROVE  Shape(stack')
<1>1. Shape(stack) /\ Len(stack) > 1
  BY TopIs DEF IInv, ShapeInv
<1> QED BY <1>1, ShapeOfPop DEF PopStack

LEMMA CloseKeepsShape ==
    ASSUME IInv, Close
    PROVE  ShapeInv'
<1>1. /\ expect \in {"first", "next"} /\ expect' = "report" /\ nest # <<>> /\ PopStack
      /\ UNCHANGED <<rules, frames, below>> /\ isComplex' = TRUE
  BY DEF Close, NoMatch
<1>2. ~FreshField'
  BY <1>1 DEF FreshField
<1>3. below = 0 => Shape(stack')
  BY <1>1, PopShape DEF InValue
<1> QED BY <1>1, <1>2, <1>3, QuietShape

LEMMA LeaveMemberKeepsShape ==
    ASSUME IInv, LeaveMember
    PROVE  ShapeInv'
<1>1. /\ expect = "leave" /\ expect' = "next" /\ nest # <<>> /\ PopStack
      /\ UNCHANGED <<rules, frames, below>>
  BY DEF LeaveMember, NoMatch, InObject
<1>2. ~FreshField'
  BY <1>1 DEF FreshField
<1>3. below = 0 => Shape(stack')
  BY <1>1, PopShape DEF InValue
<1> QED BY <1>1, <1>2, <1>3, QuietShape

LEMMA LeaveElementKeepsShape ==
    ASSUME IInv, LeaveElement
    PROVE  ShapeInv'
<1>1. /\ expect = "leave" /\ expect' = "next" /\ UNCHANGED <<rules, frames, below>>
      /\ stack' = IF TopElement.type = "PARSED_INDEX"
                  THEN [stack EXCEPT ![Len(stack)] = [TopElement EXCEPT !.key = @ + 1]]
                  ELSE stack
  BY DEF LeaveElement, NoMatch
<1>2. ~FreshField'
  BY <1>1 DEF FreshField
<1>3. ASSUME below = 0
      PROVE  Shape(stack')
  <2>1. Shape(stack) /\ Len(stack) \in Nat \ {0} /\ stack \in Seq(StackElements)
    BY <1>1, <1>3, TopIs DEF IInv, ShapeInv, InValue, Shape
  <2>2. PICK n : n = Len(stack)
    OBVIOUS
  <2>3. n \in 1..Len(stack)
    BY <2>1, <2>2
  <2>4. CASE TopElement.type = "PARSED_INDEX"
    <3>1. stack[n] \in StackElements /\ stack[n].type = "PARSED_INDEX" /\ KeyFits(stack[n])
      BY <2>1, <2>2, <2>3, <2>4 DEF Shape, TopElement
    <3>2. stack[n].key \in Nat
      BY <3>1 DEF KeyFits, FieldTypes
    <3>3. PICK e : e = [stack[n] EXCEPT !.key = @ + 1]
      OBVIOUS
    <3>4. e = [type |-> "PARSED_INDEX", key |-> stack[n].key + 1]
      BY <3>1, <3>3 DEF StackElements
    <3>5. e \in StackElements /\ e.type = "PARSED_INDEX" /\ KeyFits(e)
      BY <3>2, <3>4 DEF StackElements, StackTypes, SettledTypes, FieldTypes, Keys, KeyFits
    <3>6. stack' = [stack EXCEPT ![n] = e]
      BY <1>1, <2>2, <2>4, <3>3 DEF TopElement
    <3>7. /\ stack' \in Seq(StackElements) /\ Len(stack') = Len(stack) /\ stack'[n] = e
          /\ \A j \in 1..Len(stack) : j # n => stack'[j] = stack[j]
      BY <2>1, <2>3, <3>5, <3>6, UpdateProperties
    <3>8. \A j \in 1..Len(stack) : KeyFits(stack'[j]) /\ stack'[j].type = stack[j].type
      BY <2>1, <3>1, <3>5, <3>7 DEF Shape
    <3> QED BY <2>1, <3>7, <3>8, ShapeOfChange
  <2>5. CASE TopElement.type # "PARSED_INDEX"
    BY <1>1, <2>1, <2>5
  <2> QED BY <2>4, <2>5
<1> QED BY <1>1, <1>2, <1>3, QuietShape

LEMMA EndsKeepShape ==
    ASSUME IInv, LeaveRoot \/ Accept \/ Fail \/ Overflow \/ Restart \/ ParseAgain,
           expect # "match"
    PROVE  ShapeInv'
<1>1. UNCHANGED <<rules, frames>> /\ expect' \in {"ended", "done", "failed", "overflowed", "start"}
  BY DEF LeaveRoot, Accept, Fail, Overflow, Restart, ParseAgain, matchVars, NoMatch
<1> QED BY <1>1, OutsideShape DEF InValue

(* The stack a value is matched on: the marks of line 574 make of a stack  *)
(* with the right shape one the matcher can work on.                       *)
LEMMA ReportKeepsShape ==
    ASSUME IInv, Report
    PROVE  ShapeInv'
<1>1. /\ expect = "report" /\ expect' = "match" /\ stack' = Marked(stack)
      /\ UNCHANGED <<rules, frames, below, isComplex, nest>>
  BY DEF Report, NoMatch
<1>2. ~FreshField'
  BY <1>1 DEF FreshField
<1>3. ASSUME below = 0
      PROVE  Shape(stack') /\ IsParseStack(stack', isComplex)
  <2>1. Shape(stack) /\ Len(stack) \in Nat \ {0} /\ stack \in Seq(StackElements)
    BY <1>1, <1>3, TopIs DEF IInv, ShapeInv, InValue, Shape
  <2>2. PICK n : n = Len(stack)
    OBVIOUS
  <2>3. PICK t : t = stack'
    OBVIOUS
  <2>4. ASSUME NEW i \in 1..n
        PROVE  /\ (stack[i].type = "FIELD" /\ HasContainer(stack, i)) =>
                      t[i] = [type |-> "FIELD_WITH_OBJECT", key |-> stack[i].key]
               /\ ~(stack[i].type = "FIELD" /\ HasContainer(stack, i)) => t[i] = stack[i]
    <3>1. stack[i] \in StackElements /\ i \in DOMAIN stack
      BY <2>1, <2>2, <2>4
    <3>2. [stack[i] EXCEPT !.type = "FIELD_WITH_OBJECT"] = [type |-> "FIELD_WITH_OBJECT", key |-> stack[i].key]
      BY <3>1 DEF StackElements
    <3> QED BY <1>1, <2>3, <3>1, <3>2 DEF Marked
  <2>5. \A i \in 1..n : stack[i] \in StackElements /\ KeyFits(stack[i])
    BY <2>1, <2>2 DEF Shape
  <2>6. ASSUME NEW i \in 1..n
        PROVE  /\ t[i] \in StackElements /\ KeyFits(t[i])
               /\ t[i].type = stack[i].type \/ (t[i].type \in FieldTypes /\ stack[i].type \in FieldTypes)
    <3>1. CASE stack[i].type = "FIELD" /\ HasContainer(stack, i)
      <4>1. stack[i] \in StackElements /\ stack[i].key \in Names
        BY <2>5, <3>1 DEF KeyFits, FieldTypes
      <4>2. t[i] = [type |-> "FIELD_WITH_OBJECT", key |-> stack[i].key]
        BY <2>4, <3>1
      <4> QED BY <3>1, <4>1, <4>2 DEF StackElements, StackTypes, SettledTypes, FieldTypes, Keys, KeyFits
    <3>2. CASE ~(stack[i].type = "FIELD" /\ HasContainer(stack, i))
      BY <2>4, <2>5, <3>2
    <3> QED BY <3>1, <3>2
  <2>7. t \in Seq(StackElements) /\ Len(t) = n
    <3>1. t = [i \in 1..n |-> t[i]] /\ n \in Nat
      BY <1>1, <2>1, <2>2, <2>3 DEF Marked
    <3> QED BY <2>6, <3>1
  <2>8. Shape(t)
    BY <2>1, <2>2, <2>6, <2>7, ShapeOfChange
  <2>9. n \in Nat \ {0} /\ n \in 1..n
    BY <2>1, <2>2
  <2>10. t[n].type # "OBJECT"
    <3>1. CASE HasField
      <4>1. stack[n - 1].type = "OBJECT" /\ n > 1
        BY <1>1, <1>3, <2>2, <3>1, TopIs DEF IInv, InValue, HasField, InObject
      <4>2. stack[n].type \in FieldTypes
        BY <2>1, <2>2, <2>9, <4>1 DEF Shape
      <4> QED BY <2>6, <2>9, <4>2 DEF FieldTypes
    <3>2. CASE InArray
      BY <1>1, <1>3, <2>2, <2>6, <2>9, <3>2, TopIs DEF IInv, InValue, FieldTypes
    <3>3. CASE nest = <<>>
      <4>1. n = 1
        BY <1>1, <1>3, <2>2, <3>3, TopIs DEF IInv, InValue
      <4>2. stack[1].type = "PARSED_ROOT"
        BY <2>1, <4>1, <2>2 DEF Shape
      <4> QED BY <2>6, <2>9, <4>1, <4>2 DEF FieldTypes
    <3> QED BY <1>1, <3>1, <3>2, <3>3, InsideIs DEF HasField, InObject, InArray, IInv, DocInv, TypeInv
  <2>11. ASSUME NEW i \in 1..n
         PROVE  t[i].type = "OBJECT" => i < n
    BY <2>9, <2>10, <2>11
  <2>12. ASSUME NEW i \in 1..n
         PROVE  t[i].type = "FIELD" <=> (i > 1 /\ t[i - 1].type = "OBJECT" /\ i = n /\ ~isComplex)
    <3>1. t[i].type \in FieldTypes <=> (i > 1 /\ t[i - 1].type = "OBJECT")
      BY <2>7, <2>8, <2>12 DEF Shape
    <3>2. CASE stack[i].type \notin FieldTypes
      BY <2>4, <2>6, <3>1, <3>2 DEF FieldTypes
    <3>3. CASE stack[i].type \in FieldTypes /\ i < n
      (* Above a field that is not the last there is its container. *)
      <4>1. i + 1 \in 1..n /\ stack[i + 1].type \in SettledTypes /\ i + 1 > 1 /\ i + 1 - 1 = i
        BY <2>1, <2>2, <2>9, <3>3 DEF Shape
      <4>2. stack[i + 1].type \notin FieldTypes /\ stack[i + 1].type # "PARSED_ROOT"
        BY <2>1, <2>2, <3>3, <4>1 DEF Shape, FieldTypes
      <4>3. HasContainer(stack, i)
        BY <2>2, <3>3, <4>1, <4>2 DEF HasContainer, SettledTypes
      <4>4. t[i].type # "FIELD"
        <5>1. stack[i].type = "FIELD" => t[i].type = "FIELD_WITH_OBJECT"
          <6>1. stack[i].type = "FIELD" => t[i] = [type |-> "FIELD_WITH_OBJECT", key |-> stack[i].key]
            BY <2>4, <4>3, Zenon
          <6> QED BY <6>1
        <5>2. stack[i].type # "FIELD" => t[i] = stack[i]
          BY <2>4
        <5> QED BY <5>1, <5>2
      <4> QED BY <2>9, <3>3, <4>4
    <3>4. CASE stack[i].type \in FieldTypes /\ i = n
      <4>1. i > 1 /\ t[i - 1].type = "OBJECT"
        BY <2>6, <3>1, <3>4 DEF FieldTypes
      <4>2. HasContainer(stack, i) <=> isComplex
        BY <2>2, <2>9, <3>4 DEF HasContainer
      <4>3. CASE isComplex
        <5>1. HasContainer(stack, i)
          BY <4>2, <4>3
        <5>2. stack[i].type = "FIELD" => t[i] = [type |-> "FIELD_WITH_OBJECT", key |-> stack[i].key]
          BY <2>4, <5>1, Zenon
        <5>3. stack[i].type # "FIELD" => t[i] = stack[i]
          BY <2>4
        <5>4. t[i].type # "FIELD"
          BY <5>2, <5>3
        <5> QED BY <4>3, <5>4
      <4>4. CASE ~isComplex
        <5>1. stack[i].type = "FIELD"
          <6>1. HasField
            <7>1. stack[n].type # "PARSED_INDEX" /\ n # 1
              BY <2>1, <2>2, <2>9, <3>4 DEF Shape, FieldTypes
            <7>2. nest # <<>> /\ ~InArray
              BY <1>1, <1>3, <2>2, <7>1, TopIs DEF IInv, InValue
            <7> QED BY <1>1, <7>2, InsideIs DEF HasField, InObject, InArray, IInv, DocInv, TypeInv
          <6>2. FreshField
            BY <1>1, <4>4, <6>1 DEF FreshField, HasField
          <6> QED BY <1>1, <1>3, <2>2, <3>4, <6>2, TopIs DEF IInv, ShapeInv, InValue
        <5>2. t[i].type = "FIELD"
          BY <2>4, <4>2, <4>4, <5>1
        <5> QED BY <3>4, <4>1, <4>4, <5>2
      <4> QED BY <4>3, <4>4
    <3> QED BY <2>9, <3>2, <3>3, <3>4
  <2>13. DOMAIN t = 1..n
    BY <2>7
  <2>14. IsParseStack(t, isComplex)
    BY <2>7, <2>8, <2>11, <2>12, <2>13 DEF IsParseStack, Shape
  <2> QED BY <2>3, <2>8, <2>14
<1> QED BY <1>1, <1>2, <1>3, QuietShape

(* What the matcher changes it changes back: JsonPathMatchProofs.          *)
LEMMA MatchKeepsShape ==
    ASSUME IInv, IdleInv', NextRule \/ RuleStep \/ RuleDone \/ AllRulesDone
    PROVE  ShapeInv'
<1>1. expect = "match" /\ expect' \in {"match", "leave"} /\ UNCHANGED below
  BY StepOfMatch DEF NextRule, RuleStep, RuleDone, Matching, AllRulesDone, docVars, IInv
<1>2. ~FreshField'
  BY <1>1 DEF FreshField
<1>3. ASSUME below = 0
      PROVE  Resting' = Resting /\ IsParseStack(Resting, isComplex) /\ Shape(Resting)
  BY <1>1, <1>3, MatchRests DEF IInv, ShapeInv, InValue
<1>4. UNCHANGED isComplex
  BY StepOfMatch DEF NextRule, StartMatch, RuleStep, RuleDone, AllRulesDone, matchVars, IInv
<1>5. ASSUME below = 0
      PROVE  ~Idle' => MatchInv'
  <2>1. CASE NextRule
    <3>1. Idle /\ IsRule(rules')
      BY <2>1, NextRuleIs DEF IInv
    <3>2. Resting = stack
      BY <3>1 DEF Resting
    <3>3. MatchInit'
      BY <1>3, <1>4, <1>5, <2>1, <3>1, <3>2 DEF MatchInit, NextRule, StartMatch, Frame, IInv, IdleInv
    <3>4. (MatchInit => MatchInv)'
      BY InitInv, PTL
    <3> QED BY <3>3, <3>4
  <2>2. CASE RuleStep
    <3>1. MatchStep /\ rules # <<>>
      BY <2>2, StepOfMatch DEF RuleStep, IInv
    <3>2. MatchInv
      BY <1>5, <3>1 DEF IInv, ShapeInv, Idle
    <3>3. [MatchNext]_matchVars
      BY <3>1 DEF MatchNext
    <3> QED BY <3>2, <3>3, MatchNextKeepsInv
  <2>3. CASE RuleDone
    BY <2>3 DEF RuleDone, Idle
  <2>4. CASE AllRulesDone
    BY <1>1, <2>4 DEF AllRulesDone, IdleInv
  <2> QED BY <2>1, <2>2, <2>3, <2>4
<1> QED BY <1>1, <1>2, <1>3, <1>4, <1>5 DEF ShapeInv

LEMMA NextKeepsShape ==
    ASSUME IInv, IdleInv', [Next]_vars
    PROVE  ShapeInv'
<1>1. CASE expect # "match" /\ (LeaveRoot \/ Accept \/ Fail \/ Overflow \/ Restart \/ ParseAgain)
  BY <1>1, EndsKeepShape
<1>2. LeaveRoot \/ Accept \/ Fail \/ Restart \/ ParseAgain => expect # "match"
  BY DEF LeaveRoot, Accept, Fail, Waiting, Restart, ParseAgain
<1>3. expect \in Waiting \/ expect = "leave" => expect # "match"
  BY DEF Waiting
<1>4. CASE UNCHANGED vars
  <2>1. ShapeInv' = ShapeInv
    BY <1>4 DEF vars, docVars, matchVars, ShapeInv, Resting, Idle, FreshField, InObject, Inside,
           MatchInv, TypeOK, SameShape, EntrySettled, PendingTypes, MarksOwned, JoinedObjects,
           WaitingInRange, CursorsMove
  <2> QED BY <2>1 DEF IInv
<1> QED BY <1>1, <1>2, <1>3, <1>4, StartRootKeepsShape, ScalarKeepsShape, OpenKeepsShape,
           KeyKeepsShape, ColonKeepsShape, CommaKeepsShape, CloseKeepsShape, ReportKeepsShape,
           MatchKeepsShape, LeaveMemberKeepsShape, LeaveElementKeepsShape
       DEF Next, Work, Token, Ended

-----------------------------------------------------------------------------
LEMMA InitHasInv == Init => IInv
<1> SUFFICES ASSUME Init PROVE IInv
  OBVIOUS
<1>1. /\ stack = <<>> /\ nest = <<>> /\ yydepth = 1 /\ below = 0 /\ expect = "start"
      /\ rules = <<>> /\ frames = <<>> /\ calls = 0 /\ told = <<>>
  BY DEF Init
<1>2. IsStack(stack) /\ Len(stack) = 0
  BY <1>1 DEF IsStack
<1>3. TypeInv
  BY <1>1, <1>2 DEF TypeInv
<1>4. BalanceInv
  BY <1>1, <1>2, DepthAssumption DEF BalanceInv, InValue
<1>5. IdleInv
  <2>1. table \in Tables /\ isComplex \in BOOLEAN
    BY DEF Init
  <2>2. Idle /\ told \in Seq(Nat)
    BY <1>1 DEF Idle
  <2> QED BY <1>1, <2>1, <2>2 DEF IdleInv
<1>6. ShapeInv
  BY <1>1 DEF ShapeInv, Idle, InValue, FreshField
<1> QED BY <1>3, <1>4, <1>5, <1>6 DEF IInv, DocInv

LEMMA NextKeepsDoc ==
    ASSUME IInv, [Next]_vars
    PROVE  DocInv'
<1> DocInv /\ IdleInv /\ ShapeInv
  BY DEF IInv
<1>1. CASE StartRoot
  BY <1>1, StartRootKeepsDoc
<1>2. CASE Scalar
  BY <1>2, ScalarKeepsDoc
<1>3. CASE OpenObject \/ OpenArray
  BY <1>3, OpenKeepsDoc DEF OpenObject, OpenArray
<1>4. CASE \E n \in Names : Key(n)
  BY <1>4, KeyKeepsDoc
<1>5. CASE Colon
  BY <1>5, ColonKeepsDoc
<1>6. CASE Comma
  BY <1>6, CommaKeepsDoc
<1>7. CASE Close
  BY <1>7, CloseKeepsDoc
<1>8. CASE Report \/ NextRule \/ RuleStep \/ RuleDone \/ AllRulesDone
  BY <1>8, ReportingKeepsDoc
<1>9. CASE LeaveMember
  BY <1>9, LeaveMemberKeepsDoc
<1>10. CASE LeaveElement
  BY <1>10, LeaveElementKeepsDoc
<1>11. CASE LeaveRoot
  BY <1>11, LeaveRootKeepsDoc
<1>12. CASE Accept
  BY <1>12, AcceptKeepsDoc
<1>13. CASE Fail \/ Overflow
  BY <1>13, BreakKeepsDoc
<1>14. CASE Restart \/ ParseAgain
  BY <1>14, AgainKeepsDoc
<1>15. CASE UNCHANGED vars
  <2>1. /\ IsStack(stack') /\ Len(stack') = Len(stack) /\ UNCHANGED <<nest, yydepth, below, expect>>
        /\ UNCHANGED <<stack, entry, rules, frames>>
    BY <1>15 DEF vars, docVars, matchVars, DocInv, TypeInv
  <2>2. Resting' = Resting
    BY <2>1 DEF Resting, Idle
  <2>3. \A h \in Seq(Nat) : Kinds(h) => Kinds(h)'
    BY <2>1, <2>2, SameKinds
  <2> QED BY <2>1, <2>3, RetypingKeepsDoc
<1> QED BY <1>1, <1>2, <1>3, <1>4, <1>5, <1>6, <1>7, <1>8, <1>9, <1>10, <1>11, <1>12, <1>13,
           <1>14, <1>15 DEF Next, Work, Token, Ended

LEMMA NextKeepsInv == IInv /\ [Next]_vars => IInv'
<1> SUFFICES ASSUME IInv, [Next]_vars PROVE IInv'
  OBVIOUS
<1>1. IdleInv'
  BY NextKeepsIdle DEF IInv
<1> QED BY <1>1, NextKeepsDoc, NextKeepsShape DEF IInv

-----------------------------------------------------------------------------
(* The invariant the theorems below rest on. *)
THEOREM InductiveInvariant == Spec => []IInv
<1>1. Init => IInv
  BY InitHasInv
<1>2. IInv /\ [Next]_vars => IInv'
  BY NextKeepsInv
<1> QED BY <1>1, <1>2, PTL DEF Spec

(* A document that is accepted has taken from the parse stack all that it  *)
(* had put there, whatever its containers hold and in whatever order they  *)
(* nest, and whatever a document before it had left (json, start_root and  *)
(* end_root of the grammar).                                               *)
THEOREM NothingStays == Spec => []AcceptedIsBalanced
<1>1. IInv => AcceptedIsBalanced
  BY DEF IInv, DocInv, BalanceInv, AcceptedIsBalanced
<1> QED BY <1>1, InductiveInvariant, PTL

(* The documents that left elements have left no more than their share.   *)
LeftInv == leftovers \in Nat /\ below <= leftovers * MostOfOne

LEMMA OneShare ==
    ASSUME NEW x \in Int, 2 * x <= YYSTACKDEPTH - 1
    PROVE  MostOfOne \in Nat /\ x <= MostOfOne
<1>1. YYSTACKDEPTH - 1 \in Nat
  BY DepthAssumption
<1>2. PICK d \in Nat : d = YYSTACKDEPTH - 1
  BY <1>1
<1>3. d \div 2 \in Nat /\ x <= d \div 2
  BY ONLY <1>2, 2 * x <= YYSTACKDEPTH - 1
<1> QED BY <1>2, <1>3 DEF MostOfOne

LEMMA AnotherShare ==
    ASSUME NEW l \in Nat, NEW m \in Nat
    PROVE  (l + 1) * m = l * m + m
OBVIOUS

LEMMA LeftoversCounted == IInv /\ LeftInv /\ [Next]_vars => LeftInv'
<1> SUFFICES ASSUME IInv, LeftInv, [Next]_vars PROVE LeftInv'
  OBVIOUS
<1>1. CASE StartRoot
  <2>1. PICK b \in Nat, n \in Nat, m \in Nat :
            /\ b = below /\ n = Len(stack) /\ m = MostOfOne /\ b <= n /\ n - b <= m
    <3>1. PICK x \in Int : x = Len(stack) - below /\ 2 * x <= YYSTACKDEPTH - 1
      BY StackIs DEF IInv, DocInv, TypeInv, BalanceInv
    <3>2. MostOfOne \in Nat /\ x <= MostOfOne
      BY <3>1, OneShare
    <3> QED BY <3>1, <3>2, StackIs DEF IInv, DocInv, TypeInv, BalanceInv
  <2>2. PICK l \in Nat : l = leftovers
    BY DEF LeftInv
  <2>3. PICK share \in Int : share = l * m
    OBVIOUS
  <2>4. b <= share
    BY <2>1, <2>2, <2>3 DEF LeftInv
  <2>5. below' = n /\ leftovers' = IF n > b THEN l + 1 ELSE l
    BY <1>1, <2>1, <2>2 DEF StartRoot
  <2>6. CASE n > b
    <3>1. (l + 1) * m = share + m /\ n <= share + m
      BY <2>1, <2>3, <2>4, AnotherShare
    <3>2. leftovers' = l + 1 /\ l + 1 \in Nat
      BY <2>5, <2>6
    <3>3. MostOfOne' = m
      BY <2>1 DEF MostOfOne
    <3> QED BY <2>5, <3>1, <3>2, <3>3 DEF LeftInv
  <2>7. CASE ~(n > b)
    <3>1. n = b /\ leftovers' = l
      BY <2>1, <2>5, <2>7
    <3>2. MostOfOne' = m
      BY <2>1 DEF MostOfOne
    <3> QED BY <2>3, <2>4, <2>5, <3>1, <3>2 DEF LeftInv
  <2> QED BY <2>6, <2>7
<1>2. CASE ~StartRoot
  <2>1. UNCHANGED <<below, leftovers>>
    BY <1>2 DEF Next, Work, Token, Scalar, OpenObject, OpenArray, Open, Colon, Comma, Close, Key,
                Accept, Fail, Restart, Overflow, Report, NextRule, RuleStep, RuleDone, AllRulesDone,
                LeaveMember, LeaveElement, LeaveRoot, ParseAgain, Ended, docVars, vars
  <2> QED BY <2>1 DEF LeftInv, MostOfOne
<1> QED BY <1>1, <1>2

(* The parse stack, whose bound nothing checks, stays within half of the   *)
(* LALR stack, whose bound is checked, for the document at hand and each   *)
(* document before it that was rejected or overflowed and left something:  *)
(* for each YYSTACKDEPTH and any number of documents on one request.       *)
THEOREM BoundedByLalrStack == Spec => []StackFits
<1>1. Init => LeftInv
  <2>1. MostOfOne \in Nat
    BY OneShare, DepthAssumption
  <2> QED BY <2>1 DEF Init, LeftInv
<1>2. IInv /\ LeftInv => StackFits
  <2> SUFFICES ASSUME IInv, LeftInv PROVE StackFits
    OBVIOUS
  <2>1. PICK x \in Int : x = Len(stack) - below /\ 2 * x <= YYSTACKDEPTH - 1
    BY StackIs DEF IInv, DocInv, TypeInv, BalanceInv
  <2>2. PICK m \in Nat : m = MostOfOne /\ x <= m
    BY <2>1, OneShare
  <2>3. PICK b \in Nat, n \in Nat, l \in Nat : b = below /\ n = Len(stack) /\ l = leftovers
    BY StackIs DEF IInv, DocInv, TypeInv, LeftInv
  <2>4. b <= l * m /\ n <= b + m /\ (l + 1) * m = l * m + m
    BY <2>1, <2>2, <2>3, AnotherShare DEF LeftInv
  <2>5. n <= (l + 1) * m
    BY <2>4
  <2> QED BY <2>2, <2>3, <2>5 DEF StackFits
<1> QED BY <1>1, <1>2, LeftoversCounted, InductiveInvariant, PTL DEF Spec

LEMMA KeysStay ==
    ASSUME IInv, [Next]_vars
    PROVE  \A i \in DOMAIN stack :
              (i < Len(stack) /\ i < Len(stack')) => stack'[i].key = stack[i].key
<1>1. IsStack(stack) /\ Len(stack) \in Nat /\ DOMAIN stack = 1..Len(stack)
  BY StackIs DEF IInv, DocInv, TypeInv
<1>2. CASE UNCHANGED stack
  BY <1>2
<1>3. CASE Report \/ RuleStep
  BY <1>1, <1>3, MarkedIs, MatchStepIs DEF Report, RuleStep
<1>4. ASSUME NEW t, NEW k, Push(t, k)
      PROVE  \A i \in 1..Len(stack) : stack'[i] = stack[i]
  BY <1>1, <1>4, PushIs DEF Push, IsElement
<1>5. CASE PopStack
  <2>1. CASE Len(stack) > 0
    <3>1. Len(stack') = Len(stack) - 1 /\ \A i \in 1..Len(stack') : stack'[i] = stack[i]
      BY <1>1, <1>5, <2>1, PopIs DEF PopStack
    <3> QED BY <1>1, <3>1
  <2>2. CASE Len(stack) = 0
    BY <1>1, <2>2
  <2> QED BY <1>1, <2>1, <2>2
<1>6. CASE LeaveElement
  <2>1. CASE Len(stack) > 0
    <3>1. \A i \in 1..Len(stack) - 1 : stack'[i] = stack[i]
      BY <1>1, <1>6, <2>1, CountIs DEF LeaveElement
    <3> QED BY <1>1, <3>1
  <2>2. CASE Len(stack) = 0
    BY <1>1, <2>2
  <2> QED BY <1>1, <2>1, <2>2
<1>7. CASE StartRoot \/ OpenObject \/ OpenArray \/ \E n \in Names : Key(n)
  BY <1>1, <1>4, <1>7 DEF StartRoot, OpenObject, OpenArray, Open, Key
<1>8. CASE Close \/ LeaveMember \/ LeaveRoot
  BY <1>5, <1>8 DEF Close, LeaveMember, LeaveRoot
<1>9. CASE Scalar \/ NextRule \/ RuleDone
  BY <1>2, <1>9 DEF Scalar, NextRule, RuleDone, StartMatch
<1>10. CASE Colon \/ Comma \/ AllRulesDone \/ Accept \/ Fail \/ Overflow \/ Restart \/ ParseAgain
  BY <1>2, <1>10 DEF Colon, Comma, AllRulesDone, Accept, Fail, Overflow, Restart, ParseAgain, matchVars
<1>11. CASE UNCHANGED vars
  BY <1>2, <1>11 DEF vars, matchVars
<1> QED BY <1>3, <1>6, <1>7, <1>8, <1>9, <1>10, <1>11 DEF Next, Work, Token, Ended

(* No push, mark or pop made for one container touches the index of an     *)
(* array that is open around it (array_inc of the grammar and the types    *)
(* isJsonPathResolved changes in place).                                   *)
THEOREM IndexesAreKept == Spec => OuterCursorsStay
<1>1. IInv /\ [Next]_vars =>
        [\A i \in DOMAIN stack :
            (i < Len(stack) /\ i < Len(stack')) => stack'[i].key = stack[i].key]_vars
  BY KeysStay
<1> QED BY <1>1, InductiveInvariant, PTL DEF Spec, OuterCursorsStay

(* Every match on a request with nothing left on its stack starts on a     *)
(* stack such as JsonPathMatch assumes, however the values before it were  *)
(* matched (executeJsonPathCallbackWithValue and isJsonPathResolved        *)
(* together): what is proved there holds of the stacks the parser builds.  *)
THEOREM MatchesStartClean == Spec => []MatchedOnParseStack
<1>1. IInv => MatchedOnParseStack
  <2> SUFFICES ASSUME IInv, Matching, below = 0 PROVE IsParseStack(entry, isComplex)
    BY DEF MatchedOnParseStack
  <2>1. Resting = entry /\ expect = "match"
    BY DEF Matching, Resting, Idle
  <2> QED BY <2>1 DEF IInv, ShapeInv
<1> QED BY <1>1, InductiveInvariant, PTL

-----------------------------------------------------------------------------
(* The path of a stack, as the names and indices that lead to the value.   *)

LEMMA SameSteps ==
    ASSUME NEW s, NEW t, NEW i \in Nat, \A j \in 1..i : IsStep(s[j]) <=> IsStep(t[j])
    PROVE  StepsTo(s, i) = StepsTo(t, i)
<1>1. {j \in 1..i : IsStep(s[j])} = {j \in 1..i : IsStep(t[j])}
  OBVIOUS
<1> QED BY <1>1 DEF StepsTo

(* Every place of the path is that of an element. *)
LEMMA StepExists ==
    ASSUME NEW s, NEW n \in Nat, NEW k \in 1..StepsTo(s, n)
    PROVE  \E p \in 1..n : IsStep(s[p]) /\ StepsTo(s, p) = k
<1> DEFINE S == {p \in 0..n : k <= StepsTo(s, p)}
<1>1. \A p \in 0..n : StepsTo(s, p) \in Nat
  BY StepsToNext
<1>2. StepsTo(s, 0) = 0 /\ StepsTo(s, n) \in Nat
  BY StepsToNext
<1>3. n \in S /\ S \subseteq Nat
  BY <1>2
<1>4. PICK p \in S : \A q \in S : p <= q
  <2> HIDE DEF S
  <2> QED BY <1>3, LeastExists
<1>5. p \in 1..n
  BY <1>2
<1>6. PICK q : q = p - 1
  OBVIOUS
<1>7. q \in Nat /\ q \in 0..n /\ q + 1 = p /\ q < p
  BY <1>5, <1>6
<1>8. StepsTo(s, q) < k
  <2>1. q \notin S
    BY <1>4, <1>7
  <2> QED BY <1>1, <1>2, <1>7, <2>1
<1>9. /\ StepsTo(s, q) \in Nat
      /\ StepsTo(s, q + 1) = StepsTo(s, q) + (IF IsStep(s[q + 1]) THEN 1 ELSE 0)
  BY <1>7, StepsToNext
<1>10. k <= StepsTo(s, p) /\ k \in Int
  BY <1>2, <1>4
<1>11. IsStep(s[p]) /\ StepsTo(s, p) = k
  BY <1>7, <1>8, <1>9, <1>10
<1> QED BY <1>5, <1>11


(* The keys of the path, place by place. *)
LEMMA PathKeysAre ==
    ASSUME NEW S, NEW s \in Seq(S)
    PROVE  /\ DOMAIN KeysOf(PathOf(s)) = 1..StepsTo(s, Len(s))
           /\ KeysOf(PathOf(s)) = [k \in 1..StepsTo(s, Len(s)) |-> KeysOf(PathOf(s))[k]]
           /\ StepsTo(s, Len(s)) \in Nat
           /\ \A p \in 1..Len(s) : IsStep(s[p]) =>
                 /\ StepsTo(s, p) \in 1..StepsTo(s, Len(s))
                 /\ KeysOf(PathOf(s))[StepsTo(s, p)] = s[p].key
<1>1. /\ Len(PathOf(s)) = StepsTo(s, Len(s)) /\ Len(PathOf(s)) \in Nat
      /\ \A p \in 1..Len(s) : IsStep(s[p]) =>
             /\ StepsTo(s, p) \in 1..Len(PathOf(s))
             /\ PathOf(s)[StepsTo(s, p)] = s[p]
  BY PathFacts
<1>2. DOMAIN PathOf(s) = 1..StepsTo(s, Len(s))
  BY DEF PathOf
<1> QED BY <1>1, <1>2 DEF KeysOf

(* Stacks whose steps have the same keys have the same path. *)
LEMMA SamePathKeys ==
    ASSUME NEW S, NEW s \in Seq(S), NEW T, NEW t \in Seq(T), Len(t) = Len(s),
           \A i \in 1..Len(s) : (IsStep(t[i]) <=> IsStep(s[i])) /\ t[i].key = s[i].key
    PROVE  KeysOf(PathOf(t)) = KeysOf(PathOf(s))
<1>1. Len(s) \in Nat
  OBVIOUS
<1>2. \A p \in 0..Len(s) : StepsTo(s, p) = StepsTo(t, p)
  BY <1>1, SameSteps
<1>3. PICK n : n = StepsTo(s, Len(s))
  OBVIOUS
<1>4. n = StepsTo(t, Len(t)) /\ n \in Nat
  BY <1>1, <1>2, <1>3, StepsToNext
<1>5. ASSUME NEW k \in 1..n
      PROVE  KeysOf(PathOf(t))[k] = KeysOf(PathOf(s))[k]
  <2>1. PICK p \in 1..Len(s) : IsStep(s[p]) /\ StepsTo(s, p) = k
    BY <1>1, <1>3, StepExists
  <2>2. p \in 1..Len(t) /\ IsStep(t[p]) /\ StepsTo(t, p) = k /\ t[p].key = s[p].key
    BY <1>1, <1>2, <2>1
  <2>3. KeysOf(PathOf(s))[k] = s[p].key
    BY <2>1, PathKeysAre
  <2>4. KeysOf(PathOf(t))[k] = t[p].key
    BY <2>2, PathKeysAre
  <2> QED BY <2>2, <2>3, <2>4
<1>6. /\ KeysOf(PathOf(s)) = [k \in 1..n |-> KeysOf(PathOf(s))[k]]
      /\ KeysOf(PathOf(t)) = [k \in 1..n |-> KeysOf(PathOf(t))[k]]
  BY <1>3, <1>4, PathKeysAre
<1>7. [k \in 1..n |-> KeysOf(PathOf(s))[k]] = [k \in 1..n |-> KeysOf(PathOf(t))[k]]
  BY <1>5
<1> QED BY <1>6, <1>7

(* A step on top is a step more on the path. *)
LEMMA PushedPath ==
    ASSUME NEW S, NEW s \in Seq(S), NEW T, NEW t \in Seq(T), Len(t) = Len(s) + 1,
           \A i \in 1..Len(s) : t[i] = s[i]
    PROVE  KeysOf(PathOf(t)) = IF IsStep(t[Len(t)]) THEN Append(KeysOf(PathOf(s)), t[Len(t)].key)
                                                    ELSE KeysOf(PathOf(s))
<1> DEFINE K == KeysOf(PathOf(s))
           L == KeysOf(PathOf(t))
<1>1. Len(s) \in Nat /\ Len(s) + 1 \in 1..Len(t)
  OBVIOUS
<1>2. \A p \in 0..Len(s) : StepsTo(s, p) = StepsTo(t, p)
  BY <1>1, SameSteps
<1>3. PICK n : n = StepsTo(s, Len(s))
  OBVIOUS
<1>4. n \in Nat /\ StepsTo(t, Len(s)) = n
  BY <1>1, <1>2, <1>3, StepsToNext
<1>5. StepsTo(t, Len(t)) = n + (IF IsStep(t[Len(t)]) THEN 1 ELSE 0)
  BY <1>1, <1>4, StepsToNext
<1>6. ASSUME NEW k \in 1..n
      PROVE  L[k] = K[k]
  <2>1. PICK p \in 1..Len(s) : IsStep(s[p]) /\ StepsTo(s, p) = k
    BY <1>1, <1>3, StepExists
  <2>2. p \in 1..Len(t) /\ IsStep(t[p]) /\ StepsTo(t, p) = k /\ t[p].key = s[p].key
    BY <1>1, <1>2, <2>1
  <2>3. K[k] = s[p].key
    BY <2>1, PathKeysAre
  <2>4. L[k] = t[p].key
    BY <2>2, PathKeysAre
  <2> QED BY <2>2, <2>3, <2>4
<1>7. /\ K = [k \in 1..n |-> K[k]]
      /\ L = [k \in 1..StepsTo(t, Len(t)) |-> L[k]]
  BY <1>3, PathKeysAre
<1>8. CASE ~IsStep(t[Len(t)])
  <2>1. StepsTo(t, Len(t)) = n
    BY <1>4, <1>5, <1>8
  <2>2. [k \in 1..n |-> K[k]] = [k \in 1..n |-> L[k]]
    BY <1>6
  <2> QED BY <1>7, <1>8, <2>1, <2>2
<1>9. CASE IsStep(t[Len(t)])
  <2>1. StepsTo(t, Len(t)) = n + 1 /\ Len(t) \in 1..Len(t)
    BY <1>1, <1>4, <1>5, <1>9
  <2>2. L[n + 1] = t[Len(t)].key
    BY <1>9, <2>1, PathKeysAre
  <2> HIDE DEF K, L
  <2>3. PICK U : U = {K[k] : k \in 1..n} \cup {t[Len(t)].key}
    OBVIOUS
  <2>4. K \in Seq(U) /\ Len(K) = n
    <3>1. \A k \in 1..n : K[k] \in U
      BY <2>3
    <3> QED BY SMTT(30), <1>4, <1>7, <3>1
  <2>5. t[Len(t)].key \in U
    BY <2>3
  <2>6. /\ Append(K, t[Len(t)].key) \in Seq(U) /\ Len(Append(K, t[Len(t)].key)) = n + 1
        /\ \A k \in 1..n : Append(K, t[Len(t)].key)[k] = K[k]
        /\ Append(K, t[Len(t)].key)[n + 1] = t[Len(t)].key
    BY <2>4, <2>5, AppendProperties
  <2>7. \A k \in 1..n + 1 : L[k] = Append(K, t[Len(t)].key)[k]
    <3> TAKE k \in 1..n + 1
    <3>1. k \in 1..n \/ k = n + 1
      BY <1>4
    <3> QED BY <1>6, <2>2, <2>6, <3>1
  <2>8. L = [k \in 1..n + 1 |-> L[k]]
    BY <1>7, <2>1
  <2>9. Append(K, t[Len(t)].key) = [k \in 1..n + 1 |-> Append(K, t[Len(t)].key)[k]]
    BY <2>6
  <2>10. L = Append(K, t[Len(t)].key)
    BY <2>7, <2>8, <2>9
  <2> QED BY <1>9, <2>10 DEF K, L
<1> QED BY <1>8, <1>9

(* And one off the top is one less. *)
LEMMA PoppedPath ==
    ASSUME NEW S, NEW s \in Seq(S), Len(s) > 0, NEW T, NEW t \in Seq(T), Len(t) = Len(s) - 1,
           \A i \in 1..Len(t) : t[i] = s[i]
    PROVE  /\ ~IsStep(s[Len(s)]) => KeysOf(PathOf(t)) = KeysOf(PathOf(s))
           /\ IsStep(s[Len(s)]) =>
                  /\ KeysOf(PathOf(s)) = Append(KeysOf(PathOf(t)), s[Len(s)].key)
                  /\ KeysOf(PathOf(t)) = SubSeq(KeysOf(PathOf(s)), 1, Len(KeysOf(PathOf(s))) - 1)
<1>1. Len(s) = Len(t) + 1 /\ \A i \in 1..Len(t) : s[i] = t[i]
  OBVIOUS
<1>2. KeysOf(PathOf(s)) = IF IsStep(s[Len(s)]) THEN Append(KeysOf(PathOf(t)), s[Len(s)].key)
                                               ELSE KeysOf(PathOf(t))
  BY <1>1, PushedPath
<1>3. ASSUME IsStep(s[Len(s)])
      PROVE  KeysOf(PathOf(t)) = SubSeq(KeysOf(PathOf(s)), 1, Len(KeysOf(PathOf(s))) - 1)
  <2>1. PICK K : K = KeysOf(PathOf(t))
    OBVIOUS
  <2>2. PICK n \in Nat : K = [k \in 1..n |-> K[k]]
    BY <2>1, PathKeysAre
  <2>3. PICK U : U = {K[k] : k \in 1..n} \cup {s[Len(s)].key}
    OBVIOUS
  <2>4. s[Len(s)].key \in U /\ K \in Seq(U) /\ Len(K) = n
    <3>1. s[Len(s)].key \in U /\ \A k \in 1..n : K[k] \in U
      BY <2>3
    <3>2. K \in Seq(U) /\ Len(K) = n
      BY <2>2, <3>1
    <3> QED BY <3>1, <3>2
  <2>5. K = SubSeq(Append(K, s[Len(s)].key), 1, Len(Append(K, s[Len(s)].key)) - 1)
    <3>1. /\ Append(K, s[Len(s)].key) \in Seq(U) /\ Len(Append(K, s[Len(s)].key)) = n + 1
          /\ \A k \in 1..n : Append(K, s[Len(s)].key)[k] = K[k]
      BY <2>4, AppendProperties
    <3>2. PICK L : L = Append(K, s[Len(s)].key)
      OBVIOUS
    <3>3. SubSeq(L, 1, n) \in Seq(U) /\ Len(SubSeq(L, 1, n)) = n /\ \A k \in 1..n : SubSeq(L, 1, n)[k] = L[k]
      BY <3>1, <3>2, PrefixProperties
    <3>4. SubSeq(L, 1, n) = K
      BY <2>4, <3>1, <3>2, <3>3, SeqEqual
    <3>5. n = Len(L) - 1
      BY <3>1, <3>2
    <3> QED BY <3>2, <3>4, <3>5
  <2> QED BY <1>2, <1>3, <2>1, <2>5
<1> QED BY <1>2, <1>3

(* The index on top is counted. *)
LEMMA CountedPath ==
    ASSUME NEW S, NEW s \in Seq(S), NEW T, NEW t \in Seq(T), Len(s) > 0, Len(t) = Len(s),
           \A i \in 1..Len(s) - 1 : t[i] = s[i],
           IsStep(s[Len(s)]), IsStep(t[Len(s)]), t[Len(s)].key = s[Len(s)].key + 1
    PROVE  KeysOf(PathOf(t)) =
              [KeysOf(PathOf(s)) EXCEPT ![Len(KeysOf(PathOf(s)))] = @ + 1]
<1>1. PICK r : r = SubSeq(s, 1, Len(s) - 1)
  OBVIOUS
<1>2. /\ r \in Seq(S) /\ Len(r) = Len(s) - 1 /\ \A i \in 1..Len(r) : r[i] = s[i]
  <2>1. Len(s) \in Nat /\ Len(s) - 1 \in Nat
    OBVIOUS
  <2> QED BY <1>1, <2>1, PrefixProperties
<1>3. \A i \in 1..Len(r) : r[i] = t[i]
  BY <1>2
<1>4. PICK K : K = KeysOf(PathOf(r))
  OBVIOUS
<1>5. /\ KeysOf(PathOf(s)) = Append(K, s[Len(s)].key)
      /\ KeysOf(PathOf(t)) = Append(K, s[Len(s)].key + 1)
  BY <1>2, <1>3, <1>4, PoppedPath
<1>6. PICK n \in Nat : K = [k \in 1..n |-> K[k]]
  BY <1>2, <1>4, PathKeysAre
<1>7. PICK a : a = s[Len(s)].key
  OBVIOUS
<1>8. PICK U : U = {K[k] : k \in 1..n} \cup {a, a + 1}
  OBVIOUS
<1>9. a \in U /\ a + 1 \in U /\ K \in Seq(U) /\ Len(K) = n
  <2>1. a \in U /\ a + 1 \in U /\ \A k \in 1..n : K[k] \in U
    BY <1>8
  <2>2. K \in Seq(U) /\ Len(K) = n
    BY SMTT(30), <1>6, <2>1
  <2> QED BY <2>1, <2>2
<1>10. /\ Append(K, a) \in Seq(U) /\ Len(Append(K, a)) = n + 1 /\ Append(K, a)[n + 1] = a
       /\ \A k \in 1..n : Append(K, a)[k] = K[k]
       /\ Append(K, a + 1) \in Seq(U) /\ Len(Append(K, a + 1)) = n + 1 /\ Append(K, a + 1)[n + 1] = a + 1
       /\ \A k \in 1..n : Append(K, a + 1)[k] = K[k]
  BY <1>9, AppendProperties
<1>11. PICK L : L = Append(K, a)
  OBVIOUS
<1>12. PICK M : M = [L EXCEPT ![n + 1] = a + 1]
  OBVIOUS
<1>13. M \in Seq(U) /\ Len(M) = n + 1 /\ M[n + 1] = a + 1 /\ \A k \in 1..n + 1 : k # n + 1 => M[k] = L[k]
  <2>1. PICK m, b : m = n + 1 /\ b = a + 1
    OBVIOUS
  <2>2. m \in 1..Len(L) /\ L \in Seq(U) /\ b \in U /\ Len(L) = m
    BY <1>9, <1>10, <1>11, <2>1
  <2>3. M = [L EXCEPT ![m] = b]
    BY <1>12, <2>1
  <2>4. M \in Seq(U) /\ Len(M) = Len(L) /\ M[m] = b /\ \A k \in 1..Len(L) : k # m => M[k] = L[k]
    BY <2>2, <2>3, UpdateProperties
  <2> QED BY <2>1, <2>2, <2>4
<1>14. \A k \in 1..n + 1 : M[k] = Append(K, a + 1)[k]
  <2> TAKE k \in 1..n + 1
  <2>1. k = n + 1 \/ (k \in 1..n /\ k # n + 1)
    BY <1>6
  <2> QED BY <1>10, <1>11, <1>13, <2>1
<1>15. M = Append(K, a + 1)
  BY <1>10, <1>13, <1>14, SeqEqual
<1>16. KeysOf(PathOf(s)) = L /\ KeysOf(PathOf(t)) = Append(K, a + 1) /\ Len(L) = n + 1 /\ L[n + 1] = a
  BY <1>5, <1>7, <1>10, <1>11
<1>17. [L EXCEPT ![Len(L)] = @ + 1] = M
  BY <1>12, <1>16
<1> QED BY <1>15, <1>16, <1>17

(* While a rule is matched, steps are marked as steps. *)
LEMMA MarkedSteps ==
    ASSUME CountInv
    PROVE  /\ stack \in Seq(StackElements) /\ entry \in Seq(StackElements) /\ Len(stack) = Len(entry)
           /\ \A i \in 1..Len(entry) : /\ IsStep(stack[i]) <=> IsStep(entry[i])
                                       /\ stack[i].key = entry[i].key
<1>1. /\ stack \in Seq(StackElements) /\ entry \in Seq(StackElements) /\ Len(stack) = Len(entry)
      /\ \A i \in 1..Len(stack) : stack[i].key = entry[i].key
  BY DEF CountInv, MatchInv, TypeOK, SameShape
<1>2. ASSUME NEW i \in 1..Len(stack)
      PROVE  IsStep(stack[i]) <=> IsStep(entry[i])
  <2>1. entry[i].type \in SettledTypes
    BY <1>1 DEF CountInv, MatchInv, EntrySettled
  <2>2. CASE stack[i].type = entry[i].type
    BY <2>2 DEF IsStep
  <2>3. CASE stack[i].type \in TransientTypes /\ \E f \in 1..Len(frames) : frames[f].pos = i /\ frames[f].then \in Owners
    <3>1. PICK f \in 1..Len(frames) : frames[f].pos = i /\ frames[f].then \in Owners
      BY <2>3
    <3>2. entry[i].type \in Restores
      BY <3>1 DEF CountInv, MatchInv, PendingTypes, Owners, Restores
    <3>3. CASE stack[i].type = "RESOLVED_FIELD"
      <4>1. entry[i].type # "OBJECT"
        BY <3>3 DEF CountInv, ObjectsJoin
      <4> QED BY <3>2, <3>3, <4>1 DEF IsStep, Restores
    <3>4. CASE stack[i].type # "RESOLVED_FIELD"
      <4>1. entry[i].type = "OBJECT"
        BY <2>3, <3>4 DEF CountInv, MatchInv, JoinedObjects, TransientTypes
      <4> QED BY <2>3, <3>4, <4>1 DEF IsStep, TransientTypes, FieldTypes
    <3> QED BY <3>3, <3>4
  <2> QED BY <2>2, <2>3 DEF CountInv, MatchInv, MarksOwned
<1> QED BY <1>1, <1>2

(* The names and indices are all that a laying looks at. *)
LEMMA SameLayings ==
    ASSUME NEW R \in Seq(RuleElements), NEW P, NEW Q, NEW n \in Nat, Len(P) = n, Len(Q) = n, NEW C,
           \A k \in 1..n : /\ (P[k].type = "PARSED_INDEX") <=> (Q[k].type = "PARSED_INDEX")
                           /\ P[k].key = Q[k].key
    PROVE  Traversal!Layings(R, Q, C) = Layings(R, P, C)
<1>1. ASSUME NEW e, NEW f \in 0..n, NEW t \in 0..n
      PROVE  Traversal!Covers(e, Q, f, t) <=> Covers(e, P, f, t)
  <2>1. t = f + 1 => t \in 1..n
    OBVIOUS
  <2> QED BY <2>1 DEF Traversal!Covers, Covers
<1>2. ASSUME NEW cut \in [DOMAIN R -> 0..n]
      PROVE  /\ Traversal!TrailingHolds(R, cut, C) <=> TrailingHolds(R, cut, C)
             /\ (\A k \in 2..Len(R) : Traversal!Covers(R[k], Q, cut[k - 1], cut[k]))
                   <=> (\A k \in 2..Len(R) : Covers(R[k], P, cut[k - 1], cut[k]))
  <2>1. \A k \in 2..Len(R) : cut[k - 1] \in 0..n /\ cut[k] \in 0..n
    BY <1>2
  <2>2. \A k \in 2..Len(R) : Traversal!Covers(R[k], Q, cut[k - 1], cut[k])
                                <=> Covers(R[k], P, cut[k - 1], cut[k])
    BY <1>1, <2>1
  <2> QED BY <2>2 DEF Traversal!TrailingHolds, TrailingHolds
<1> QED BY <1>2 DEF Traversal!Layings, Layings

(* Names are fields and numbers are indices. *)
LEMMA StepsOfPath ==
    ASSUME IsParseStack(entry, isComplex),
           NEW K, K = KeysOf(PathOf(entry))
    PROVE  /\ Len(PathOf(entry)) \in Nat /\ DOMAIN K = 1..Len(PathOf(entry))
           /\ \A k \in 1..Len(PathOf(entry)) :
                 /\ (PathOf(entry)[k].type = "PARSED_INDEX") <=> (Traversal!Step(K[k]).type = "PARSED_INDEX")
                 /\ PathOf(entry)[k].key = Traversal!Step(K[k]).key
<1>1. entry \in Seq(StackElements) /\ Len(entry) \in Nat /\ DOMAIN entry = 1..Len(entry)
  BY DEF IsParseStack
<1>2. /\ Len(PathOf(entry)) = StepsTo(entry, Len(entry)) /\ Len(PathOf(entry)) \in Nat
      /\ \A p \in 1..Len(entry) : IsStep(entry[p]) => PathOf(entry)[StepsTo(entry, p)] = entry[p]
  BY <1>1, PathFacts
<1>3. /\ DOMAIN K = 1..StepsTo(entry, Len(entry))
      /\ \A p \in 1..Len(entry) : IsStep(entry[p]) => K[StepsTo(entry, p)] = entry[p].key
  BY <1>1, PathKeysAre
<1>4. ASSUME NEW k \in 1..Len(PathOf(entry))
      PROVE  /\ (PathOf(entry)[k].type = "PARSED_INDEX") <=> (Traversal!Step(K[k]).type = "PARSED_INDEX")
             /\ PathOf(entry)[k].key = Traversal!Step(K[k]).key
  <2>1. PICK p \in 1..Len(entry) : IsStep(entry[p]) /\ StepsTo(entry, p) = k
    BY <1>1, <1>2, StepExists
  <2>2. PathOf(entry)[k] = entry[p] /\ K[k] = entry[p].key
    BY <1>2, <1>3, <2>1
  <2>3. entry[p].type \in {"PARSED_INDEX"} \cup FieldTypes /\ KeyFits(entry[p])
    BY <1>1, <2>1 DEF IsParseStack, IsStep, SettledTypes, FieldTypes
  <2>4. (entry[p].type = "PARSED_INDEX") <=> (entry[p].key \notin Names)
    BY <2>3, NamesAssumption DEF KeyFits, FieldTypes
  <2> QED BY <2>2, <2>4 DEF Traversal!Step
<1> QED BY <1>2, <1>3, <1>4

(* So the calls a rule got are the layings the traversal counts. *)
LEMMA CallsAreLayings ==
    ASSUME CountInv, frames = <<>>
    PROVE  calls = Cardinality(Traversal!Layings(rules,
                      [i \in DOMAIN KeysOf(PathOf(stack)) |-> Traversal!Step(KeysOf(PathOf(stack))[i])], isComplex))
<1>1. PICK K : K = KeysOf(PathOf(stack))
  OBVIOUS
<1>2. K = KeysOf(PathOf(entry))
  BY <1>1, MarkedSteps, SamePathKeys
<1>3. PICK Q : Q = [i \in DOMAIN K |-> Traversal!Step(K[i])]
  OBVIOUS
<1>4. PICK n : n = Len(PathOf(entry))
  OBVIOUS
<1>5. /\ n \in Nat /\ DOMAIN K = 1..n
      /\ \A k \in 1..n :
            /\ (PathOf(entry)[k].type = "PARSED_INDEX") <=> (Traversal!Step(K[k]).type = "PARSED_INDEX")
            /\ PathOf(entry)[k].key = Traversal!Step(K[k]).key
  BY <1>2, <1>4, StepsOfPath DEF CountInv
<1>6. Len(Q) = n /\ \A k \in 1..n : Q[k] = Traversal!Step(K[k])
  BY <1>3, <1>5
<1>7. rules \in Seq(RuleElements)
  BY DEF CountInv, IsRule
<1>8. Traversal!Layings(rules, Q, isComplex) = Layings(rules, PathOf(entry), isComplex)
  BY <1>4, <1>5, <1>6, <1>7, SameLayings
<1>9. calls = Owed(rules, entry, isComplex)
  BY AllCallsMade DEF CallsOwed
<1> QED BY <1>1, <1>3, <1>8, <1>9 DEF Owed

(* On a clean request the rule that is matched is the next to be told, and *)
(* the count of its calls is on the way to what it is owed.                *)
Counting ==
    below = 0 /\ rules # <<>> =>
        /\ CountInv
        /\ Len(told) < Len(LiveRules) /\ rules = LiveRules[Len(told) + 1]

LeftOver == expect = "overflowed" => stack # <<>>

RefInv == IInv /\ Counting /\ LeftOver

LEMMA MatchKeepsCounting ==
    ASSUME RefInv, IInv', NextRule \/ RuleStep \/ RuleDone \/ AllRulesDone
    PROVE  Counting'
<1>1. expect = "match" /\ UNCHANGED <<below, table>>
  BY StepOfMatch DEF NextRule, RuleStep, RuleDone, Matching, AllRulesDone, docVars, RefInv, IInv
<1>2. LiveRules' = LiveRules
  BY <1>1 DEF LiveRules
<1>3. SUFFICES ASSUME below = 0, rules' # <<>>
               PROVE  /\ CountInv'
                      /\ Len(told') < Len(LiveRules) /\ rules' = LiveRules[Len(told') + 1]
  BY <1>1, <1>2 DEF Counting
<1>4. CASE NextRule
  <2>1. Idle /\ IsRule(rules')
    BY <1>4, NextRuleIs DEF RefInv, IInv
  <2>2. Resting = stack /\ UNCHANGED isComplex
    BY <1>4, <2>1 DEF Resting, NextRule, StartMatch
  <2>3. IsParseStack(stack, isComplex)
    BY <1>1, <1>3, <2>2 DEF RefInv, IInv, ShapeInv
  <2>4. MatchInit'
    BY <1>4, <2>1, <2>2, <2>3 DEF MatchInit, NextRule, StartMatch, Frame, RefInv, IInv, IdleInv
  <2>5. (MatchInit => CountInv)'
    BY CountInit, PTL
  <2>6. rules' = LiveRules[Len(told) + 1] /\ told' = told /\ Len(told) < Len(LiveRules)
    BY <1>4 DEF NextRule, StartMatch, docVars
  <2> QED BY <2>4, <2>5, <2>6
<1>5. CASE RuleStep
  <2>1. MatchStep /\ rules # <<>> /\ UNCHANGED <<rules, told>>
    BY <1>5, StepOfMatch DEF RuleStep, docVars, RefInv, IInv
  <2>2. CountInv /\ Len(told) < Len(LiveRules) /\ rules = LiveRules[Len(told) + 1]
    BY <1>3, <2>1 DEF RefInv, Counting
  <2>3. [MatchNext]_matchVars
    BY <2>1 DEF MatchNext
  <2> QED BY <2>1, <2>2, <2>3, MatchNextCounts
<1>6. CASE RuleDone
  BY <1>3, <1>6 DEF RuleDone
<1>7. CASE AllRulesDone
  BY <1>3, <1>7 DEF AllRulesDone, matchVars
<1> QED BY <1>4, <1>5, <1>6, <1>7

(* Outside of the loop over the rules nothing is matched. *)
LEMMA QuietCounting ==
    ASSUME IInv, expect # "match", UNCHANGED rules
    PROVE  Counting'
<1>1. rules = <<>>
  BY DEF IInv, IdleInv, Idle
<1> QED BY <1>1 DEF Counting

LEMMA OverflowLeaves ==
    ASSUME IInv, expect # "match", Overflow
    PROVE  expect \in InValue /\ stack # <<>>
<1>1. expect \in InValue
  <2>1. PICK n \in NextPushes : ~Room(n)
    BY DEF Overflow
  <2>2. NextPushes # {}
    BY <2>1
  <2>3. nest # <<>> \/ expect \in InValue
    BY <2>2 DEF NextPushes, AtValue, AtKey, InArray, InValue
  <2> QED BY <2>3, OutsideOfValue DEF IInv
<1>2. PICK h : InValueInv(h)
  BY <1>1, WhileInValue DEF IInv
<1>3. Len(stack) > 0
  <2>1. below \in Nat /\ Len(stack) \in Nat
    BY <1>2, StackIs DEF InValueInv, TypeInv
  <2>2. CASE nest = <<>>
    BY <1>2, <2>1, <2>2 DEF InValueInv, Heights
  <2>3. CASE nest # <<>>
    <3>1. Len(nest) \in Nat \ {0}
      BY <1>2, <2>3, InsideIs DEF InValueInv, TypeInv
    <3>2. Len(nest) \in 1..Len(nest) /\ 1 \in 1..Len(nest)
      BY <3>1
    <3>3. h[Len(nest)] \in Nat
      BY <1>2, <3>2 DEF InValueInv, Heights
    <3>4. h[Len(nest)] > 0
      <4>1. CASE Len(nest) = 1
        BY <1>2, <3>2, <4>1 DEF InValueInv, Heights
      <4>2. CASE Len(nest) # 1
        <5>1. PICK m : m = Len(nest)
          OBVIOUS
        <5>2. m \in 1..Len(nest) /\ m # 1 /\ m - 1 \in 1..Len(nest)
          BY <3>1, <4>2, <5>1
        <5>3. h[m] = h[m - 1] + (IF nest[m - 1].kind = "object" THEN 2 ELSE 1) /\ h[m - 1] \in Nat
          BY <1>2, <5>2 DEF InValueInv, Heights
        <5> QED BY <3>3, <5>1, <5>3
      <4> QED BY <4>1, <4>2
    <3>5. CASE HasField
      <4>1. Len(stack) = below + h[Len(nest)] + 1
        BY <1>2, <2>1, <2>3, <3>3, <3>5 DEF InValueInv, Heights
      <4> QED BY <2>1, <3>3, <3>4, <4>1
    <3>6. CASE ~HasField
      <4>1. Len(stack) = below + h[Len(nest)]
        BY <1>2, <2>3, <3>6 DEF InValueInv, Heights
      <4> QED BY <2>1, <3>3, <3>4, <4>1
    <3> QED BY <3>5, <3>6
  <2> QED BY <2>2, <2>3
<1> QED BY <1>1, <1>3

LEMMA NextKeepsRef == RefInv /\ [Next]_vars => RefInv'
<1> SUFFICES ASSUME RefInv, [Next]_vars PROVE RefInv'
  OBVIOUS
<1>1. IInv /\ IInv'
  BY NextKeepsInv DEF RefInv
<1>2. CASE NextRule \/ RuleStep \/ RuleDone \/ AllRulesDone
  <2>1. expect' # "overflowed"
    BY <1>1, <1>2, StepOfMatch DEF NextRule, RuleStep, RuleDone, Matching, AllRulesDone, docVars, IInv
  <2> QED BY <1>1, <1>2, <2>1, MatchKeepsCounting DEF RefInv, LeftOver
<1>3. CASE expect # "match" /\ Overflow
  <2>1. UNCHANGED <<rules, stack>>
    BY <1>3 DEF Overflow, matchVars
  <2> QED BY <1>1, <1>3, <2>1, OverflowLeaves, QuietCounting DEF RefInv, LeftOver
<1>4. CASE \/ StartRoot \/ Scalar \/ OpenObject \/ OpenArray \/ \E n \in Names : Key(n)
           \/ Colon \/ Comma \/ Close \/ Report
  <2>1. expect # "match" /\ expect' # "overflowed" /\ UNCHANGED rules
    BY <1>4 DEF StartRoot, Scalar, OpenObject, OpenArray, Open, Key, Colon, Comma, Close, Report,
                AtValue, AtKey, NoMatch, matchVars
  <2> QED BY <1>1, <2>1, QuietCounting DEF RefInv, LeftOver
<1>5. CASE LeaveMember \/ LeaveElement \/ LeaveRoot \/ Accept \/ Fail \/ Restart \/ ParseAgain
  <2>1. expect # "match" /\ expect' # "overflowed" /\ UNCHANGED rules
    BY <1>5 DEF LeaveMember, LeaveElement, LeaveRoot, Accept, Fail, Waiting, Restart, ParseAgain,
                NoMatch, matchVars
  <2> QED BY <1>1, <2>1, QuietCounting DEF RefInv, LeftOver
<1>6. CASE UNCHANGED vars
  <2>1. UNCHANGED <<rules, stack, isComplex, frames, calls, entry>> /\ UNCHANGED <<table, told, below, expect>>
    BY <1>6 DEF vars, matchVars, docVars
  <2>2. CountInv => CountInv'
    <3>1. [MatchNext]_matchVars
      BY <2>1 DEF matchVars
    <3> QED BY <3>1, MatchNextCounts
  <2>3. LiveRules' = LiveRules
    BY <2>1 DEF LiveRules
  <2>4. Counting'
    BY <2>1, <2>2, <2>3 DEF RefInv, Counting
  <2> QED BY <1>1, <2>1, <2>4 DEF RefInv, LeftOver
<1>7. expect \in Waiting \/ expect = "leave" => expect # "match"
  BY DEF Waiting
<1> QED BY <1>2, <1>3, <1>4, <1>5, <1>6, <1>7 DEF Next, Work, Token, Ended

LEMMA InitHasRef == Init => RefInv
<1> SUFFICES ASSUME Init PROVE RefInv
  OBVIOUS
<1> QED BY InitHasInv DEF Init, RefInv, Counting, LeftOver

(* The containers of the traversal are the open ones. *)
LEMMA KindsAre ==
    ASSUME NEW n \in Seq(Containers)
    PROVE  /\ KindsOf(n) \in Seq({"object", "array"}) /\ Len(KindsOf(n)) = Len(n)
           /\ (KindsOf(n) = <<>>) <=> (n = <<>>)
           /\ \A i \in 1..Len(n) : KindsOf(n)[i] = n[i].kind
           /\ n # <<>> => KindsOf(n)[Len(KindsOf(n))] = n[Len(n)].kind
<1>1. Len(n) \in Nat /\ DOMAIN n = 1..Len(n) /\ \A i \in 1..Len(n) : n[i].kind \in {"object", "array"}
  <2>1. Len(n) \in Nat /\ DOMAIN n = 1..Len(n) /\ \A i \in 1..Len(n) : n[i] \in Containers
    OBVIOUS
  <2> QED BY <2>1 DEF Containers
<1>2. KindsOf(n) = [i \in 1..Len(n) |-> n[i].kind]
  BY <1>1 DEF KindsOf
<1>3. KindsOf(n) \in Seq({"object", "array"}) /\ Len(KindsOf(n)) = Len(n)
  BY <1>1, <1>2
<1>4. n # <<>> => Len(n) \in 1..Len(n)
  BY <1>1
<1>5. (KindsOf(n) = <<>>) <=> (n = <<>>)
  BY <1>1, <1>3
<1> QED BY <1>2, <1>3, <1>4, <1>5

LEMMA KindsOfPush ==
    ASSUME NEW n \in Seq(Containers), NEW e \in Containers
    PROVE  KindsOf(Append(n, e)) = Append(KindsOf(n), e.kind)
<1>1. PICK m : m = Append(n, e)
  OBVIOUS
<1>2. m \in Seq(Containers) /\ Len(m) = Len(n) + 1 /\ m[Len(n) + 1] = e /\ \A i \in 1..Len(n) : m[i] = n[i]
  BY <1>1
<1>3. e.kind \in {"object", "array"}
  BY DEF Containers
<1>4. PICK K, L : K = KindsOf(n) /\ L = KindsOf(m)
  OBVIOUS
<1>5. /\ K \in Seq({"object", "array"}) /\ Len(K) = Len(n) /\ \A i \in 1..Len(n) : K[i] = n[i].kind
      /\ L \in Seq({"object", "array"}) /\ Len(L) = Len(m) /\ \A i \in 1..Len(m) : L[i] = m[i].kind
  BY <1>2, <1>4, KindsAre
<1>6. /\ Append(K, e.kind) \in Seq({"object", "array"}) /\ Len(Append(K, e.kind)) = Len(m)
      /\ \A i \in 1..Len(n) : Append(K, e.kind)[i] = K[i]
      /\ Append(K, e.kind)[Len(n) + 1] = e.kind
  BY <1>2, <1>3, <1>5, AppendProperties
<1>7. \A i \in 1..Len(m) : L[i] = Append(K, e.kind)[i]
  <2> TAKE i \in 1..Len(m)
  <2>1. i \in 1..Len(n) \/ i = Len(n) + 1
    BY <1>2
  <2> QED BY <1>2, <1>5, <1>6, <2>1
<1>8. L = Append(K, e.kind)
  BY <1>5, <1>6, <1>7, SeqEqual
<1> QED BY <1>1, <1>4, <1>8

LEMMA KindsOfPop ==
    ASSUME NEW n \in Seq(Containers), n # <<>>
    PROVE  KindsOf(SubSeq(n, 1, Len(n) - 1)) = SubSeq(KindsOf(n), 1, Len(KindsOf(n)) - 1)
<1>1. PICK m : m = SubSeq(n, 1, Len(n) - 1)
  OBVIOUS
<1>2. m \in Seq(Containers) /\ Len(m) = Len(n) - 1 /\ \A i \in 1..Len(n) - 1 : m[i] = n[i]
  BY <1>1, PopProperties
<1>3. PICK K, L : K = KindsOf(n) /\ L = KindsOf(m)
  OBVIOUS
<1>4. /\ K \in Seq({"object", "array"}) /\ Len(K) = Len(n) /\ \A i \in 1..Len(n) : K[i] = n[i].kind
      /\ L \in Seq({"object", "array"}) /\ Len(L) = Len(m) /\ \A i \in 1..Len(m) : L[i] = m[i].kind
      /\ K # <<>>
  BY <1>2, <1>3, KindsAre
<1>5. PICK P : P = SubSeq(K, 1, Len(K) - 1)
  OBVIOUS
<1>6. /\ P \in Seq({"object", "array"}) /\ Len(P) = Len(K) - 1 /\ \A i \in 1..Len(K) - 1 : P[i] = K[i]
  BY <1>4, <1>5, PopProperties
<1>7. \A i \in 1..Len(m) : L[i] = P[i]
  BY SMTT(30), <1>2, <1>4, <1>6
<1>8. L = P
  BY <1>2, <1>4, <1>6, <1>7, SeqEqual
<1> QED BY <1>1, <1>3, <1>5, <1>8

-----------------------------------------------------------------------------
(* What is left on a request stays there. *)

LEMMA TableStays == ASSUME IInv, [Next]_vars PROVE UNCHANGED LiveRules
<1>1. CASE StartRoot \/ Scalar \/ OpenObject \/ OpenArray \/ (\E n \in Names : Key(n)) \/ Colon \/ Comma \/ Close
  BY <1>1 DEF StartRoot, Scalar, OpenObject, OpenArray, Open, Key, Colon, Comma, Close, LiveRules
<1>2. CASE Report \/ NextRule \/ RuleStep \/ RuleDone \/ AllRulesDone
  BY <1>2 DEF Report, NextRule, RuleStep, RuleDone, AllRulesDone, docVars, LiveRules
<1>3. CASE LeaveMember \/ LeaveElement \/ LeaveRoot \/ Accept \/ Fail \/ Overflow \/ Restart \/ ParseAgain
  BY <1>3 DEF LeaveMember, LeaveElement, LeaveRoot, Accept, Fail, Overflow, Restart, ParseAgain, LiveRules
<1>4. CASE UNCHANGED vars
  BY <1>4 DEF vars, docVars, LiveRules
<1> QED BY <1>1, <1>2, <1>3, <1>4 DEF Next, Work, Token, Ended

LEMMA SpoiledStays ==
    ASSUME IInv, [Next]_vars, Spoiled
    PROVE  Spoiled'
<1>1. below \in Nat /\ Len(stack) \in Nat /\ below <= Len(stack) /\ (Len(stack) = 0 => stack = <<>>)
  <2>1. IsStack(stack) /\ below \in Nat /\ below <= Len(stack)
    BY DEF IInv, DocInv, TypeInv, BalanceInv
  <2> QED BY <2>1, StackIs DEF IsStack
<1>2. CASE StartRoot
  <2>1. Len(stack) > 0
    BY <1>1, <1>2 DEF Spoiled, StartRoot
  <2> QED BY <1>2, <2>1 DEF Spoiled, StartRoot
<1>3. CASE below > 0 /\ ~StartRoot
  <2>1. below' = below
    <3>1. CASE Scalar \/ OpenObject \/ OpenArray \/ (\E n \in Names : Key(n)) \/ Colon \/ Comma \/ Close
      BY <3>1 DEF Scalar, OpenObject, OpenArray, Open, Key, Colon, Comma, Close
    <3>2. CASE Report \/ NextRule \/ RuleStep \/ RuleDone \/ AllRulesDone
      BY <3>2 DEF Report, NextRule, RuleStep, RuleDone, AllRulesDone, docVars
    <3>3. CASE LeaveMember \/ LeaveElement \/ LeaveRoot \/ Accept \/ Fail \/ Overflow \/ Restart \/ ParseAgain
      BY <3>3 DEF LeaveMember, LeaveElement, LeaveRoot, Accept, Fail, Overflow, Restart, ParseAgain
    <3>4. CASE UNCHANGED vars
      BY <3>4 DEF vars, docVars
    <3> QED BY <1>3, <3>1, <3>2, <3>3, <3>4 DEF Next, Work, Token, Ended
  <2> QED BY <1>3, <2>1 DEF Spoiled
<1>4. CASE below = 0 /\ ~StartRoot
  <2>1. expect \in {"start", "failed", "overflowed"} /\ stack # <<>> /\ expect \notin InValue
    BY <1>4 DEF Spoiled, InValue
  <2>2. nest = <<>>
    BY <2>1 DEF IInv, DocInv, BalanceInv
  <2>3. NextPushes = {}
    BY <2>1, <2>2 DEF NextPushes, AtValue, AtKey, InArray
  <2>4. CASE Fail \/ Restart \/ ParseAgain
    BY <2>1, <2>4 DEF Spoiled, Fail, Restart, ParseAgain, matchVars
  <2>5. CASE UNCHANGED vars
    BY <2>1, <2>5 DEF Spoiled, vars, docVars, matchVars
  <2>6. ~Overflow
    BY <2>3 DEF Overflow
  <2>7. ~(Scalar \/ OpenObject \/ OpenArray \/ (\E n \in Names : Key(n)) \/ Colon \/ Comma \/ Close)
    BY <2>1 DEF Scalar, OpenObject, OpenArray, Open, Key, Colon, Comma, Close, AtValue, AtKey
  <2>8. ~(Report \/ NextRule \/ RuleStep \/ RuleDone \/ AllRulesDone)
    BY <2>1, StepOfMatch DEF Report, NextRule, RuleStep, RuleDone, Matching, AllRulesDone, IInv
  <2>9. ~(LeaveMember \/ LeaveElement \/ LeaveRoot \/ Accept)
    BY <2>1 DEF LeaveMember, LeaveElement, LeaveRoot, Accept
  <2> QED BY <1>4, <2>4, <2>5, <2>6, <2>7, <2>8, <2>9 DEF Next, Work, Token, Ended
<1> QED BY <1>1, <1>2, <1>3, <1>4

(* And the traversal has nothing to do any more. *)
LEMMA SpoiledStutters ==
    ASSUME IInv, [Next]_vars, Spoiled
    PROVE  UNCHANGED <<LiveRules, At, OpenKinds, ValuePath, ValueIsComplex, CallsTold>>
<1>1. Spoiled' /\ UNCHANGED LiveRules
  BY TableStays, SpoiledStays
<1>2. At = "spoiled" /\ At' = "spoiled"
  BY <1>1 DEF At
<1>3. UNCHANGED <<OpenKinds, ValuePath, ValueIsComplex, CallsTold>>
  BY <1>1, Zenon DEF OpenKinds, ValuePath, ValueIsComplex, CallsTold
<1> QED BY <1>1, <1>2, <1>3

-----------------------------------------------------------------------------
(* On a clean request each step is one of the traversal, or none.          *)

\* What the traversal sees of a clean request.
Seen ==
    /\ At = IF expect = "start" THEN "value" ELSE IF expect = "match" THEN "report"
            ELSE IF expect = "failed" THEN "rejected" ELSE expect
    /\ OpenKinds = KindsOf(nest) /\ ValuePath = KeysOf(PathOf(stack))
    /\ ValueIsComplex = isComplex /\ CallsTold = told

LEMMA CleanSeen == ~Spoiled => Seen
<1> SUFFICES ASSUME ~Spoiled PROVE Seen
  OBVIOUS
<1>1. At = IF expect = "start" THEN "value" ELSE IF expect = "match" THEN "report"
           ELSE IF expect = "failed" THEN "rejected" ELSE expect
  BY DEF At
<1>2. /\ OpenKinds = KindsOf(nest) /\ ValuePath = KeysOf(PathOf(stack))
      /\ ValueIsComplex = isComplex /\ CallsTold = told
  BY DEF OpenKinds, ValuePath, ValueIsComplex, CallsTold
<1> QED BY <1>1, <1>2 DEF Seen

(* Where the parser is in a value of a clean request. *)
LEMMA WhereIs ==
    ASSUME RefInv, ~Spoiled, expect \in InValue, expect # "match"
    PROVE  /\ below = 0 /\ Seen /\ stack \in Seq(StackElements) /\ Len(stack) \in Nat \ {0}
           /\ nest \in Seq(Containers)
           /\ Traversal!InObj <=> InObject
           /\ Traversal!InArr <=> InArray
           /\ (OpenKinds = <<>>) <=> (nest = <<>>)
           /\ nest = <<>> => ~IsStep(TopElement)
           /\ InArray => IsStep(TopElement) /\ TopElement.type = "PARSED_INDEX"
           /\ InObject /\ ~HasField => ~IsStep(TopElement)
           /\ HasField => IsStep(TopElement)
<1>1. below = 0
  BY DEF Spoiled, RefInv, IInv, DocInv, TypeInv
<1>2. /\ Resting = stack /\ Len(stack) \in Nat \ {0}
      /\ nest = <<>> => Len(stack) = 1
      /\ nest # <<>> => Len(stack) > 1
      /\ InArray => stack[Len(stack)].type = "PARSED_INDEX"
      /\ InObject /\ ~HasField => stack[Len(stack)].type = "OBJECT"
      /\ HasField => stack[Len(stack) - 1].type = "OBJECT"
  BY <1>1, TopIs DEF RefInv, IInv
<1>3. Shape(stack) /\ stack \in Seq(StackElements)
  BY <1>1, <1>2 DEF RefInv, IInv, ShapeInv, Shape
<1>4. nest \in Seq(Containers) /\ Seen
  BY CleanSeen DEF RefInv, IInv, DocInv, TypeInv
<1>5. OpenKinds = KindsOf(nest)
  BY <1>4 DEF Seen
<1>6. /\ (OpenKinds = <<>>) <=> (nest = <<>>)
      /\ nest # <<>> => OpenKinds[Len(OpenKinds)] = nest[Len(nest)].kind
  BY <1>4, <1>5, KindsAre
<1>7. (Traversal!InObj <=> InObject) /\ (Traversal!InArr <=> InArray)
  BY <1>6 DEF Traversal!InObj, Traversal!InArr, Traversal!Inner, InObject, InArray, Inside
<1>8. nest = <<>> => ~IsStep(TopElement)
  <2>1. Len(stack) = 1 => stack[Len(stack)].type = "PARSED_ROOT"
    BY <1>3 DEF Shape
  <2> QED BY <1>2, <2>1 DEF TopElement, IsStep, FieldTypes
<1>9. HasField => IsStep(TopElement)
  <2>1. HasField => nest # <<>>
    BY DEF HasField, InObject
  <2>2. HasField => stack[Len(stack)].type \in FieldTypes
    BY <1>2, <1>3, <2>1 DEF Shape
  <2> QED BY <2>2 DEF TopElement, IsStep
<1>10. /\ InArray => IsStep(TopElement) /\ TopElement.type = "PARSED_INDEX"
       /\ InObject /\ ~HasField => ~IsStep(TopElement)
  BY <1>2 DEF TopElement, IsStep, FieldTypes
<1> QED BY <1>1, <1>2, <1>3, <1>4, <1>6, <1>7, <1>8, <1>9, <1>10

LEMMA PushOnPath ==
    ASSUME stack \in Seq(StackElements), NEW t \in StackTypes, NEW k \in Keys, Push(t, k)
    PROVE  KeysOf(PathOf(stack')) = IF t \in {"PARSED_INDEX", "RESOLVED_FIELD"} \cup FieldTypes
                                      THEN Append(KeysOf(PathOf(stack)), k) ELSE KeysOf(PathOf(stack))
<1>1. PICK e : e = [type |-> t, key |-> k]
  OBVIOUS
<1>2. e \in StackElements /\ e.key = k /\ (IsStep(e) <=> t \in {"PARSED_INDEX", "RESOLVED_FIELD"} \cup FieldTypes)
  BY <1>1 DEF StackElements, IsStep
<1>3. /\ stack' \in Seq(StackElements) /\ Len(stack') = Len(stack) + 1
      /\ stack'[Len(stack')] = e /\ \A i \in 1..Len(stack) : stack'[i] = stack[i]
  BY <1>1, <1>2 DEF Push
<1>4. KeysOf(PathOf(stack')) = IF IsStep(e) THEN Append(KeysOf(PathOf(stack)), e.key) ELSE KeysOf(PathOf(stack))
  BY <1>3, PushedPath
<1> QED BY <1>2, <1>4

LEMMA PopOnPath ==
    ASSUME stack \in Seq(StackElements), Len(stack) \in Nat \ {0}, PopStack
    PROVE  KeysOf(PathOf(stack')) =
              IF IsStep(TopElement)
                THEN SubSeq(KeysOf(PathOf(stack)), 1, Len(KeysOf(PathOf(stack))) - 1)
                ELSE KeysOf(PathOf(stack))
<1>1. stack # <<>>
  OBVIOUS
<1>2. /\ stack' \in Seq(StackElements) /\ Len(stack') = Len(stack) - 1
      /\ \A i \in 1..Len(stack) - 1 : stack'[i] = stack[i]
  BY <1>1, PopProperties DEF PopStack
<1>3. Len(stack) > 0 /\ \A i \in 1..Len(stack') : stack'[i] = stack[i]
  BY <1>2
<1>4. /\ ~IsStep(stack[Len(stack)]) => KeysOf(PathOf(stack')) = KeysOf(PathOf(stack))
      /\ IsStep(stack[Len(stack)]) =>
            KeysOf(PathOf(stack')) = SubSeq(KeysOf(PathOf(stack)), 1, Len(KeysOf(PathOf(stack))) - 1)
  BY <1>2, <1>3, PoppedPath
<1> QED BY <1>4 DEF TopElement

(* A step within values leaves the request clean. *)
LEMMA StaysClean ==
    ASSUME below = 0, below' = below, expect' \in InValue \cup {"ended", "done"}
    PROVE  ~Spoiled' /\ Seen'
<1>1. ~Spoiled'
  BY DEF Spoiled, InValue
<1>2. (~Spoiled => Seen)'
  BY CleanSeen, PTL
<1> QED BY <1>1, <1>2

LEMMA ScalarMaps ==
    ASSUME RefInv, ~Spoiled, Scalar
    PROVE  Traversal!ReadScalar
<1>1. expect \in InValue /\ expect # "match" /\ expect' = "report" /\ UNCHANGED <<below, nest, stack, table, told>>
      /\ isComplex' = FALSE
  BY DEF Scalar, AtValue, InValue
<1>2. Seen /\ (Traversal!InArr <=> InArray)
  BY <1>1, WhereIs
<1>3. Seen'
  BY <1>1, WhereIs, StaysClean DEF InValue
<1>4. Traversal!ValueDue
  BY <1>2 DEF Seen, Scalar, AtValue, Traversal!ValueDue
<1>5. At' = "report" /\ ValueIsComplex' = FALSE /\ UNCHANGED <<OpenKinds, ValuePath, CallsTold, LiveRules>>
  BY <1>1, <1>2, <1>3 DEF Seen, LiveRules
<1> QED BY <1>4, <1>5 DEF Traversal!ReadScalar

LEMMA OpenMaps ==
    ASSUME RefInv, ~Spoiled, OpenObject \/ OpenArray
    PROVE  Traversal!EnterObject \/ Traversal!EnterArray
<1>1. /\ expect \in InValue /\ expect # "match" /\ expect' = "first" /\ AtValue
      /\ UNCHANGED <<below, table, told, isComplex>>
  BY DEF OpenObject, OpenArray, Open, AtValue, InValue
<1>2. Seen /\ (Traversal!InArr <=> InArray) /\ stack \in Seq(StackElements) /\ nest \in Seq(Containers)
  BY <1>1, WhereIs
<1>3. Seen'
  BY <1>1, WhereIs, StaysClean DEF InValue
<1>4. Traversal!ValueDue
  BY <1>1, <1>2 DEF Seen, AtValue, Traversal!ValueDue
<1>5. At' = "first" /\ UNCHANGED <<ValueIsComplex, CallsTold, LiveRules>>
  BY <1>1, <1>2, <1>3 DEF Seen, LiveRules
<1>6. PICK b \in Nat : b = yydepth + Lead
  BY DEF Lead, RefInv, IInv, DocInv, TypeInv
<1>7. CASE OpenObject
  <2>1. nest' = Append(nest, [kind |-> "object", base |-> b]) /\ Push("OBJECT", NoKey)
    BY <1>6, <1>7 DEF OpenObject, Open
  <2>2. KindsOf(nest') = Append(KindsOf(nest), "object")
    <3>1. PICK e : e = [kind |-> "object", base |-> b]
      OBVIOUS
    <3>2. e \in Containers /\ e.kind = "object" /\ nest' = Append(nest, e)
      BY <2>1, <3>1 DEF Containers
    <3> QED BY <1>2, <3>2, KindsOfPush
  <2>3. KeysOf(PathOf(stack')) = KeysOf(PathOf(stack))
    <3>1. "OBJECT" \in StackTypes /\ NoKey \in Keys /\ "OBJECT" \notin {"PARSED_INDEX", "RESOLVED_FIELD"} \cup FieldTypes
      BY DEF StackTypes, SettledTypes, Keys, FieldTypes
    <3> QED BY <1>2, <2>1, <3>1, PushOnPath
  <2>4. OpenKinds' = Append(OpenKinds, "object") /\ UNCHANGED ValuePath
    BY <1>2, <1>3, <2>2, <2>3 DEF Seen
  <2> QED BY <1>4, <1>5, <2>4 DEF Traversal!EnterObject
<1>8. CASE OpenArray
  <2>1. nest' = Append(nest, [kind |-> "array", base |-> b]) /\ Push("PARSED_INDEX", 0)
    BY <1>6, <1>8 DEF OpenArray, Open
  <2>2. KindsOf(nest') = Append(KindsOf(nest), "array")
    <3>1. PICK e : e = [kind |-> "array", base |-> b]
      OBVIOUS
    <3>2. e \in Containers /\ e.kind = "array" /\ nest' = Append(nest, e)
      BY <2>1, <3>1 DEF Containers
    <3> QED BY <1>2, <3>2, KindsOfPush
  <2>3. KeysOf(PathOf(stack')) = Append(KeysOf(PathOf(stack)), 0)
    <3>1. "PARSED_INDEX" \in StackTypes /\ 0 \in Keys /\ "PARSED_INDEX" \in {"PARSED_INDEX", "RESOLVED_FIELD"} \cup FieldTypes
      BY DEF StackTypes, SettledTypes, Keys, FieldTypes
    <3> QED BY <1>2, <2>1, <3>1, PushOnPath
  <2>4. OpenKinds' = Append(OpenKinds, "array") /\ ValuePath' = Append(ValuePath, 0)
    BY <1>2, <1>3, <2>2, <2>3 DEF Seen
  <2> QED BY <1>4, <1>5, <2>4 DEF Traversal!EnterArray
<1> QED BY <1>7, <1>8

LEMMA KeyMaps ==
    ASSUME RefInv, ~Spoiled, NEW n \in Names, Key(n)
    PROVE  Traversal!ReadKey(n)
<1>1. /\ expect \in InValue /\ expect # "match" /\ expect' = "colon" /\ AtKey /\ Push("FIELD", n)
      /\ UNCHANGED <<below, table, told, isComplex, nest>>
  BY DEF Key, AtKey, InValue
<1>2. Seen /\ (Traversal!InObj <=> InObject) /\ stack \in Seq(StackElements)
  BY <1>1, WhereIs
<1>3. Seen'
  BY <1>1, WhereIs, StaysClean DEF InValue
<1>4. Traversal!KeyDue
  BY <1>1, <1>2 DEF Seen, AtKey, Traversal!KeyDue
<1>5. At' = "colon" /\ UNCHANGED <<ValueIsComplex, CallsTold, LiveRules, OpenKinds>>
  BY <1>1, <1>2, <1>3 DEF Seen, LiveRules
<1>6. KeysOf(PathOf(stack')) = Append(KeysOf(PathOf(stack)), n)
  <2>1. "FIELD" \in StackTypes /\ n \in Keys /\ "FIELD" \in {"PARSED_INDEX", "RESOLVED_FIELD"} \cup FieldTypes
    BY DEF StackTypes, SettledTypes, Keys, FieldTypes
  <2> QED BY <1>1, <1>2, <2>1, PushOnPath
<1>7. ValuePath' = Append(ValuePath, n)
  BY <1>2, <1>3, <1>6 DEF Seen
<1> QED BY <1>4, <1>5, <1>7 DEF Traversal!ReadKey

LEMMA PunctuationMaps ==
    ASSUME RefInv, ~Spoiled, Colon \/ Comma
    PROVE  Traversal!ReadColon \/ Traversal!ReadComma
<1>1. /\ expect \in {"colon", "next"} /\ expect \in InValue /\ expect # "match" /\ expect' \in InValue
      /\ UNCHANGED <<below, table, told, isComplex, nest, stack>>
  BY DEF Colon, Comma, InValue, matchVars
<1>2. Seen /\ (Traversal!InObj <=> InObject) /\ ((OpenKinds = <<>>) <=> (nest = <<>>))
  BY <1>1, WhereIs
<1>3. Seen'
  BY <1>1, WhereIs, StaysClean
<1>4. UNCHANGED <<ValueIsComplex, CallsTold, LiveRules, OpenKinds, ValuePath>>
  BY <1>1, <1>2, <1>3 DEF Seen, LiveRules
<1>5. CASE Colon
  <2>1. At = "colon" /\ At' = "value"
    BY <1>2, <1>3, <1>5 DEF Seen, Colon
  <2> QED BY <1>4, <2>1 DEF Traversal!ReadColon
<1>6. CASE Comma
  <2>1. At = "next" /\ At' = IF InObject THEN "key" ELSE "value"
    BY <1>2, <1>3, <1>6 DEF Seen, Comma
  <2>2. nest # <<>>
    <3>1. expect = "next"
      BY <1>6 DEF Comma
    <3> QED BY <1>1, <3>1 DEF RefInv, IInv, DocInv, BalanceInv, DepthInv
  <2> QED BY <1>2, <1>4, <2>1, <2>2 DEF Traversal!ReadComma
<1> QED BY <1>5, <1>6

LEMMA CloseMaps ==
    ASSUME RefInv, ~Spoiled, Close
    PROVE  Traversal!LeaveContainer
<1>1. /\ expect \in {"first", "next"} /\ expect \in InValue /\ expect # "match" /\ expect' = "report"
      /\ UNCHANGED <<below, table, told>> /\ isComplex' = TRUE /\ PopStack
      /\ nest # <<>> /\ nest' = SubSeq(nest, 1, Len(nest) - 1)
  BY DEF Close, InValue
<1>2. /\ Seen /\ (Traversal!InArr <=> InArray) /\ ((OpenKinds = <<>>) <=> (nest = <<>>))
      /\ stack \in Seq(StackElements) /\ Len(stack) \in Nat \ {0} /\ nest \in Seq(Containers)
      /\ InArray => IsStep(TopElement)
      /\ InObject /\ ~HasField => ~IsStep(TopElement)
  BY <1>1, WhereIs
<1>3. Seen'
  BY <1>1, WhereIs, StaysClean DEF InValue
<1>4. IsStep(TopElement) <=> InArray
  <2>1. ~HasField
    BY <1>1 DEF HasField
  <2>2. InArray \/ InObject
    BY <1>1, <1>2, InsideIs DEF InArray, InObject
  <2> QED BY <1>2, <2>1, <2>2
<1>5. KeysOf(PathOf(stack')) = IF InArray
                                 THEN SubSeq(KeysOf(PathOf(stack)), 1, Len(KeysOf(PathOf(stack))) - 1)
                                 ELSE KeysOf(PathOf(stack))
  BY <1>1, <1>2, <1>4, PopOnPath
<1>6. KindsOf(nest') = SubSeq(KindsOf(nest), 1, Len(KindsOf(nest)) - 1)
  BY <1>1, <1>2, KindsOfPop
<1>7. /\ At \in {"first", "next"} /\ At' = "report" /\ ValueIsComplex' = TRUE
      /\ UNCHANGED <<CallsTold, LiveRules>>
  BY <1>1, <1>2, <1>3 DEF Seen, LiveRules
<1>8. /\ OpenKinds' = Traversal!Front(OpenKinds)
      /\ ValuePath' = IF InArray THEN Traversal!Front(ValuePath) ELSE ValuePath
  BY <1>2, <1>3, <1>5, <1>6 DEF Seen, Traversal!Front
<1> QED BY <1>1, <1>2, <1>7, <1>8 DEF Traversal!LeaveContainer

\* Nothing the traversal could see.
Unseen == UNCHANGED <<LiveRules, At, OpenKinds, ValuePath, ValueIsComplex, CallsTold>>

LEMMA ReportIsUnseen ==
    ASSUME RefInv, RefInv', ~Spoiled, Report
    PROVE  Unseen
<1>1. /\ expect = "report" /\ expect' = "match" /\ stack' = Marked(stack)
      /\ UNCHANGED <<below, nest, isComplex, table, told>>
  BY DEF Report
<1>2. below = 0 /\ Seen /\ stack \in Seq(StackElements)
  BY <1>1, WhereIs DEF InValue
<1>3. Seen'
  BY <1>1, <1>2, StaysClean DEF InValue
<1>4. IsStack(stack) /\ IsStack(stack')
  BY DEF RefInv, IInv, DocInv, TypeInv
<1>5. Len(stack') = Len(stack) /\ \A k \in 1..Len(stack) : stack'[k].key = stack[k].key
  BY <1>1, <1>4, MarkedIs
<1>6. \A k \in 1..Len(stack) : IsStep(stack'[k]) <=> IsStep(stack[k])
  <2> TAKE k \in 1..Len(stack)
  <2>1. k \in DOMAIN stack /\ stack[k] \in StackElements
    BY <1>2
  <2>2. stack'[k] = stack[k] \/ (stack[k].type = "FIELD" /\ stack'[k] = [stack[k] EXCEPT !.type = "FIELD_WITH_OBJECT"])
    BY <1>1, <2>1 DEF Marked
  <2>3. stack'[k].type = stack[k].type \/ (stack[k].type = "FIELD" /\ stack'[k].type = "FIELD_WITH_OBJECT")
    BY <2>1, <2>2 DEF StackElements
  <2> QED BY <2>3 DEF IsStep, FieldTypes
<1>7. PICK S : stack' \in Seq(S)
  BY <1>4 DEF IsStack
<1>8. KeysOf(PathOf(stack')) = KeysOf(PathOf(stack))
  BY <1>2, <1>5, <1>6, <1>7, SamePathKeys
<1> QED BY <1>1, <1>2, <1>3, <1>8 DEF Seen, Unseen, LiveRules

(* The marks of the matcher do not change the path. *)
LEMMA PathRests ==
    RefInv /\ below = 0 => KeysOf(PathOf(stack)) = KeysOf(PathOf(Resting))
<1> SUFFICES ASSUME RefInv, below = 0 PROVE KeysOf(PathOf(stack)) = KeysOf(PathOf(Resting))
  OBVIOUS
<1>1. CASE Idle
  BY <1>1 DEF Resting
<1>2. CASE ~Idle
  <2>1. CountInv /\ Resting = entry
    BY <1>2 DEF RefInv, Counting, IInv, IdleInv, Idle, Resting
  <2> QED BY <2>1, MarkedSteps, SamePathKeys
<1> QED BY <1>1, <1>2

LEMMA MatchingSeen ==
    ASSUME RefInv, RefInv', ~Spoiled, NextRule \/ RuleStep \/ RuleDone \/ AllRulesDone
    PROVE  /\ below = 0 /\ Seen /\ Seen' /\ expect = "match"
           /\ UNCHANGED <<LiveRules, OpenKinds, ValuePath, ValueIsComplex>>
<1>1. /\ expect = "match" /\ expect' \in {"match", "leave"} /\ UNCHANGED <<below, nest, table, isComplex>>
  BY StepOfMatch DEF NextRule, StartMatch, RuleStep, RuleDone, Matching, AllRulesDone, docVars, matchVars,
                     RefInv, IInv
<1>2. below = 0 /\ Seen
  BY CleanSeen DEF Spoiled, RefInv, IInv, DocInv, TypeInv
<1>3. Seen'
  BY <1>1, <1>2, StaysClean DEF InValue
<1>4. Resting' = Resting
  BY <1>2, MatchRests DEF RefInv, IInv
<1>5. (RefInv /\ below = 0 => KeysOf(PathOf(stack)) = KeysOf(PathOf(Resting)))'
  BY PathRests, PTL
<1>6. KeysOf(PathOf(stack')) = KeysOf(PathOf(Resting'))
  BY <1>1, <1>2, <1>5
<1>7. KeysOf(PathOf(stack')) = KeysOf(PathOf(stack))
  BY <1>2, <1>4, <1>6, PathRests
<1> QED BY <1>1, <1>2, <1>3, <1>7 DEF Seen, LiveRules

LEMMA MatchIsUnseen ==
    ASSUME RefInv, RefInv', ~Spoiled, NextRule \/ RuleStep
    PROVE  Unseen
<1>1. UNCHANGED <<told, expect>>
  BY DEF NextRule, RuleStep, docVars
<1> QED BY <1>1, MatchingSeen DEF Seen, Unseen

(* A rule is told a value as often as it can be laid over its path. *)
LEMMA RuleDoneMaps ==
    ASSUME RefInv, RefInv', ~Spoiled, RuleDone
    PROVE  Traversal!Tell
<1>1. /\ rules # <<>> /\ frames = <<>> /\ told' = Append(told, calls) /\ UNCHANGED expect
  BY DEF RuleDone, Matching
<1>2. /\ below = 0 /\ Seen /\ Seen' /\ expect = "match"
      /\ UNCHANGED <<LiveRules, OpenKinds, ValuePath, ValueIsComplex>>
  BY MatchingSeen
<1>3. /\ CountInv /\ Len(told) < Len(LiveRules) /\ rules = LiveRules[Len(told) + 1]
  BY <1>1, <1>2 DEF RefInv, Counting
<1>4. calls = Cardinality(Traversal!Layings(rules,
                 [i \in DOMAIN KeysOf(PathOf(stack)) |-> Traversal!Step(KeysOf(PathOf(stack))[i])], isComplex))
  BY <1>1, <1>3, CallsAreLayings
<1>5. At = "report" /\ At' = "report" /\ CallsTold = told /\ CallsTold' = told'
      /\ ValuePath = KeysOf(PathOf(stack)) /\ ValueIsComplex = isComplex
  BY <1>1, <1>2 DEF Seen
<1>6. calls = Cardinality(Traversal!Layings(LiveRules[Len(CallsTold) + 1],
                 [i \in DOMAIN ValuePath |-> Traversal!Step(ValuePath[i])], ValueIsComplex))
  BY <1>3, <1>4, <1>5
<1>7. CallsTold' = Append(CallsTold, Cardinality(Traversal!Layings(LiveRules[Len(CallsTold) + 1],
                 [i \in DOMAIN ValuePath |-> Traversal!Step(ValuePath[i])], ValueIsComplex)))
  BY <1>1, <1>5, <1>6, Zenon
<1>8. \A S : Traversal!Cardinality(S) = Cardinality(S)
  BY DEF Traversal!Cardinality, Cardinality
<1>9. CallsTold' = Append(CallsTold, Traversal!Cardinality(Traversal!Layings(LiveRules[Len(CallsTold) + 1],
                 [i \in DOMAIN ValuePath |-> Traversal!Step(ValuePath[i])], ValueIsComplex)))
  BY <1>7, <1>8, Zenon
<1>10. At = "report" /\ Len(CallsTold) < Len(LiveRules)
      /\ UNCHANGED <<LiveRules, At, OpenKinds, ValuePath, ValueIsComplex>>
  BY <1>2, <1>3, <1>5
<1> QED BY <1>9, <1>10, Zenon DEF Traversal!Tell

LEMMA AllRulesDoneMaps ==
    ASSUME RefInv, RefInv', ~Spoiled, AllRulesDone
    PROVE  Traversal!AllTold
<1>1. Len(told) = Len(LiveRules) /\ expect' = "leave" /\ UNCHANGED told
  BY DEF AllRulesDone
<1>2. /\ Seen /\ Seen' /\ expect = "match"
      /\ UNCHANGED <<LiveRules, OpenKinds, ValuePath, ValueIsComplex>>
  BY MatchingSeen
<1>3. At = "report" /\ At' = "leave" /\ CallsTold = told /\ UNCHANGED CallsTold
  BY <1>1, <1>2 DEF Seen
<1> QED BY <1>1, <1>2, <1>3 DEF Traversal!AllTold

LEMMA LeaveMaps ==
    ASSUME RefInv, RefInv', ~Spoiled, LeaveMember \/ LeaveElement \/ LeaveRoot
    PROVE  Traversal!LeaveValue
<1>1. /\ expect = "leave" /\ expect' \in {"next", "ended"} /\ told' = <<>>
      /\ UNCHANGED <<below, table, nest, isComplex>>
  BY DEF LeaveMember, LeaveElement, LeaveRoot
<1>2. /\ below = 0 /\ Seen /\ stack \in Seq(StackElements) /\ Len(stack) \in Nat \ {0}
      /\ (Traversal!InObj <=> InObject) /\ (Traversal!InArr <=> InArray)
      /\ ((OpenKinds = <<>>) <=> (nest = <<>>))
      /\ nest = <<>> => ~IsStep(TopElement)
      /\ InArray => IsStep(TopElement) /\ TopElement.type = "PARSED_INDEX"
      /\ HasField => IsStep(TopElement)
  BY <1>1, WhereIs DEF InValue
<1>3. Seen'
  BY <1>1, <1>2, StaysClean DEF InValue
<1>4. /\ At = "leave" /\ At' = expect' /\ CallsTold' = <<>>
      /\ UNCHANGED <<LiveRules, OpenKinds, ValueIsComplex>>
  BY <1>1, <1>2, <1>3 DEF Seen, LiveRules
<1>5. CASE LeaveMember
  <2>1. InObject /\ HasField /\ PopStack /\ expect' = "next"
    BY <1>1, <1>5 DEF LeaveMember, HasField
  <2>2. ValuePath' = Traversal!Front(ValuePath)
    BY <1>2, <1>3, <2>1, PopOnPath DEF Seen, Traversal!Front
  <2> QED BY <1>2, <1>4, <2>1, <2>2 DEF Traversal!LeaveValue
<1>6. CASE LeaveElement
  <2>1. InArray /\ expect' = "next" /\ TopElement.type = "PARSED_INDEX"
        /\ stack' = [stack EXCEPT ![Len(stack)] = [TopElement EXCEPT !.key = @ + 1]]
    BY <1>2, <1>6 DEF LeaveElement
  <2>2. IsStack(stack) /\ IsStack(stack')
    BY DEF RefInv, IInv, DocInv, TypeInv
  <2>3. PICK n : n = Len(stack)
    OBVIOUS
  <2>4. n \in DOMAIN stack /\ n \in 1..n /\ TopElement = stack[n]
    BY <1>2, <2>3 DEF TopElement
  <2>5. stack'[n] = [stack[n] EXCEPT !.key = @ + 1]
    BY <2>1, <2>3, <2>4
  <2>6. stack[n] \in StackElements
    BY <1>2, <2>4
  <2>7. stack'[n] = [type |-> stack[n].type, key |-> stack[n].key + 1]
    BY <2>5, <2>6 DEF StackElements
  <2>8. Len(stack') = n /\ \A i \in 1..n - 1 : stack'[i] = stack[i]
    BY <1>2, <2>1, <2>3
  <2>9. stack'[n].key = stack[n].key + 1 /\ IsStep(stack[n]) /\ IsStep(stack'[n])
    BY <1>2, <2>1, <2>4, <2>7 DEF IsStep
  <2>10. PICK S : stack' \in Seq(S)
    BY <2>2 DEF IsStack
  <2>11. KeysOf(PathOf(stack')) = [KeysOf(PathOf(stack)) EXCEPT ![Len(KeysOf(PathOf(stack)))] = @ + 1]
    <3>1. Len(stack) > 0
      BY <1>2
    <3> QED BY <1>2, <2>3, <2>8, <2>9, <2>10, <3>1, CountedPath
  <2>12. ValuePath' = [ValuePath EXCEPT ![Len(ValuePath)] = @ + 1]
    BY <1>2, <1>3, <2>11 DEF Seen
  <2> QED BY <1>2, <1>4, <2>1, <2>12 DEF Traversal!LeaveValue
<1>7. CASE LeaveRoot
  <2>1. nest = <<>> /\ PopStack /\ expect' = "ended"
    BY <1>7 DEF LeaveRoot
  <2>2. UNCHANGED ValuePath
    BY <1>2, <1>3, <2>1, PopOnPath DEF Seen
  <2> QED BY <1>2, <1>4, <2>1, <2>2 DEF Traversal!LeaveValue
<1> QED BY <1>5, <1>6, <1>7

LEMMA EndMaps ==
    ASSUME RefInv, ~Spoiled, Accept
    PROVE  Traversal!End
<1>1. expect = "ended" /\ expect' = "done" /\ UNCHANGED <<below, table, stack, isComplex, nest, told>>
  BY DEF Accept, matchVars
<1>2. below = 0
  BY DEF Spoiled, RefInv, IInv, DocInv, TypeInv
<1>3. Seen /\ Seen'
  BY <1>1, <1>2, CleanSeen, StaysClean
<1> QED BY <1>1, <1>3 DEF Seen, Traversal!End, LiveRules

(* Elements that are left make the request one of which nothing is promised. *)
LEMMA SpoilMaps ==
    ASSUME RefInv, ~Spoiled, [Next]_vars, Spoiled', expect \in {"value", "first", "key", "colon", "next", "leave"}
    PROVE  Traversal!Spoil
<1>1. At = expect
  BY CleanSeen DEF Seen
<1>2. At' = "spoiled" /\ OpenKinds' = <<>> /\ ValuePath' = <<>> /\ ValueIsComplex' = FALSE /\ CallsTold' = <<>>
  BY DEF At, OpenKinds, ValuePath, ValueIsComplex, CallsTold
<1>3. UNCHANGED LiveRules
  BY TableStays DEF RefInv
<1> QED BY <1>1, <1>2, <1>3 DEF Traversal!Spoil

LEMMA FailMaps ==
    ASSUME RefInv, ~Spoiled, Fail
    PROVE  Traversal!End \/ Traversal!Spoil
<1>1. /\ expect \in Waiting /\ expect' = "failed" /\ nest' = <<>>
      /\ UNCHANGED <<below, table, stack, isComplex, told>>
  BY DEF Fail, matchVars
<1>2. below = 0 /\ expect # "overflowed" /\ (Len(stack) = 0 => stack = <<>>)
  <2>1. below = 0
    BY DEF Spoiled, RefInv, IInv, DocInv, TypeInv
  <2>2. expect # "overflowed"
    BY DEF Spoiled, RefInv, LeftOver
  <2>3. IsStack(stack)
    BY DEF RefInv, IInv, DocInv, TypeInv
  <2>4. Len(stack) = 0 => stack = <<>>
    BY <2>3 DEF IsStack
  <2> QED BY <2>1, <2>2, <2>4
<1>3. CASE expect = "ended"
  <2>1. nest = <<>> /\ Len(stack) = 0
    BY <1>2, <1>3 DEF InValue, RefInv, IInv, DocInv, BalanceInv
  <2>2. stack = <<>>
    BY <1>2, <2>1
  <2>3. ~Spoiled'
    BY <1>1, <1>2, <2>2 DEF Spoiled
  <2>4. Seen /\ Seen'
    <3>1. (~Spoiled => Seen)'
      BY CleanSeen, PTL
    <3> QED BY <2>3, <3>1, CleanSeen
  <2> QED BY <1>1, <1>3, <2>1, <2>4 DEF Seen, Traversal!End, LiveRules
<1>4. CASE expect # "ended"
  <2>1. expect \in {"value", "first", "key", "colon", "next"} /\ expect \in InValue /\ expect # "match"
    BY <1>1, <1>2, <1>4 DEF Waiting, InValue
  <2>2. Len(stack) \in Nat \ {0}
    BY <2>1, WhereIs
  <2>3. stack # <<>>
    BY <2>2
  <2>4. Spoiled'
    BY <1>1, <2>3 DEF Spoiled
  <2>5. [Next]_vars
    BY DEF Next, Token
  <2> QED BY <2>1, <2>4, <2>5, SpoilMaps
<1> QED BY <1>3, <1>4

LEMMA OverflowMaps ==
    ASSUME RefInv, ~Spoiled, Overflow, expect \in Waiting \/ expect = "leave"
    PROVE  Traversal!Spoil
<1>1. expect # "match" /\ [Next]_vars
  BY DEF Waiting, Next, Token, Work
<1>2. expect \in InValue /\ stack # <<>>
  BY <1>1, OverflowLeaves DEF RefInv
<1>3. expect' = "overflowed" /\ stack' = stack
  BY DEF Overflow, matchVars
<1>4. Spoiled'
  BY <1>2, <1>3 DEF Spoiled
<1>5. expect \in {"value", "first", "key", "colon", "next", "leave"}
  BY <1>2 DEF InValue, Waiting
<1> QED BY <1>1, <1>4, <1>5, SpoilMaps

LEMMA AgainMaps ==
    ASSUME RefInv, ~Spoiled, ParseAgain
    PROVE  Traversal!Again
<1>1. /\ expect \in {"done", "failed"} /\ expect' = "start"
      /\ UNCHANGED <<below, table, stack, isComplex, nest, told>>
  BY DEF ParseAgain, matchVars
<1>2. below = 0 /\ stack = <<>>
  <2>1. below = 0 /\ IsStack(stack)
    BY DEF Spoiled, RefInv, IInv, DocInv, TypeInv
  <2>2. expect = "done" => Len(stack) = 0
    BY <2>1 DEF InValue, RefInv, IInv, DocInv, BalanceInv
  <2>3. expect = "done" => stack = <<>>
    BY <2>1, <2>2 DEF IsStack
  <2> QED BY <1>1, <2>1, <2>3 DEF Spoiled
<1>3. ~Spoiled'
  BY <1>1, <1>2 DEF Spoiled
<1>4. Seen /\ Seen'
  <2>1. (~Spoiled => Seen)'
    BY CleanSeen, PTL
  <2> QED BY <1>3, <2>1, CleanSeen
<1>5. At \in {"done", "rejected"} /\ At' = "value"
  BY <1>1, <1>4 DEF Seen
<1>6. UNCHANGED <<OpenKinds, ValuePath, ValueIsComplex, CallsTold, LiveRules>>
  BY <1>1, <1>4 DEF Seen, LiveRules
<1> QED BY <1>5, <1>6 DEF Traversal!Again

LEMMA StartIsUnseen ==
    ASSUME RefInv, ~Spoiled, StartRoot
    PROVE  Unseen
<1>1. /\ expect = "start" /\ expect' = "value" /\ Push("PARSED_ROOT", NoKey) /\ below' = Len(stack)
      /\ UNCHANGED <<table, isComplex, nest, told>>
  BY DEF StartRoot
<1>2. stack = <<>>
  BY <1>1 DEF Spoiled
<1>3. ~Spoiled'
  BY <1>1, <1>2 DEF Spoiled
<1>4. Seen /\ Seen'
  <2>1. (~Spoiled => Seen)'
    BY CleanSeen, PTL
  <2> QED BY <1>3, <2>1, CleanSeen
<1>5. KeysOf(PathOf(stack')) = KeysOf(PathOf(stack))
  <2>1. /\ "PARSED_ROOT" \in StackTypes /\ NoKey \in Keys
        /\ "PARSED_ROOT" \notin {"PARSED_INDEX", "RESOLVED_FIELD"} \cup FieldTypes
    BY DEF StackTypes, SettledTypes, Keys, FieldTypes
  <2>2. stack \in Seq(StackElements)
    BY <1>2
  <2> QED BY <1>1, <2>1, <2>2, PushOnPath
<1> QED BY <1>1, <1>4, <1>5 DEF Seen, Unseen, LiveRules

(* A step that changes nothing shows nothing. *)
LEMMA StutterIsUnseen ==
    ASSUME UNCHANGED vars
    PROVE  Unseen
<1>1. UNCHANGED <<stack, isComplex, table, expect, nest, told, below>>
  BY DEF vars, matchVars, docVars
<1>2. Spoiled' <=> Spoiled
  BY <1>1 DEF Spoiled
<1>3. UNCHANGED <<LiveRules, OpenKinds, ValuePath, ValueIsComplex, CallsTold>>
  BY <1>1, <1>2 DEF LiveRules, OpenKinds, ValuePath, ValueIsComplex, CallsTold
<1>4. UNCHANGED At
  BY <1>1, <1>2 DEF At
<1> QED BY <1>3, <1>4 DEF Unseen

(* Every step of the parser is one of the traversal, or none. *)
LEMMA StepImplements == RefInv /\ RefInv' /\ [Next]_vars => Traversal!Next \/ Unseen
<1> SUFFICES ASSUME RefInv, RefInv', [Next]_vars PROVE Traversal!Next \/ Unseen
  OBVIOUS
<1>1. CASE Spoiled
  BY <1>1, SpoiledStutters DEF Unseen, RefInv
<1>2. CASE ~Spoiled
  <2>1. CASE Scalar \/ OpenObject \/ OpenArray
    BY <1>2, <2>1, ScalarMaps, OpenMaps DEF Traversal!Next
  <2>2. CASE \E n \in Names : Key(n)
    BY <1>2, <2>2, KeyMaps DEF Traversal!Next
  <2>3. CASE Colon \/ Comma \/ Close
    BY <1>2, <2>3, PunctuationMaps, CloseMaps DEF Traversal!Next
  <2>4. CASE Report \/ NextRule \/ RuleStep
    BY <1>2, <2>4, ReportIsUnseen, MatchIsUnseen
  <2>5. CASE RuleDone \/ AllRulesDone
    BY <1>2, <2>5, RuleDoneMaps, AllRulesDoneMaps DEF Traversal!Next
  <2>6. CASE LeaveMember \/ LeaveElement \/ LeaveRoot
    BY <1>2, <2>6, LeaveMaps DEF Traversal!Next
  <2>7. CASE Accept \/ Fail
    BY <1>2, <2>7, EndMaps, FailMaps DEF Traversal!Next
  <2>8. CASE (expect \in Waiting \/ expect = "leave") /\ Overflow
    BY <1>2, <2>8, OverflowMaps DEF Traversal!Next
  <2>9. ~Restart
    BY <1>2 DEF Restart, Spoiled, RefInv, LeftOver
  <2>10. CASE ParseAgain
    BY <1>2, <2>10, AgainMaps DEF Traversal!Next
  <2>11. CASE StartRoot
    BY <1>2, <2>11, StartIsUnseen
  <2>12. CASE UNCHANGED vars
    BY <2>12, StutterIsUnseen
  <2> QED BY <2>1, <2>2, <2>3, <2>4, <2>5, <2>6, <2>7, <2>8, <2>9, <2>10, <2>11, <2>12
           DEF Next, Work, Token, Ended
<1> QED BY <1>1, <1>2

LEMMA InitImplements == Init => Traversal!Init
<1> SUFFICES ASSUME Init PROVE Traversal!Init
  OBVIOUS
<1>1. ~Spoiled /\ expect = "start" /\ nest = <<>> /\ stack = <<>> /\ isComplex = FALSE /\ told = <<>>
  BY DEF Init, Spoiled
<1>2. Seen
  BY <1>1, CleanSeen
<1>3. KindsOf(<<>>) = <<>>
  BY DEF KindsOf
<1>4. KeysOf(PathOf(stack)) = <<>>
  <2>1. stack \in Seq(StackElements) /\ Len(stack) = 0
    BY <1>1
  <2>2. DOMAIN KeysOf(PathOf(stack)) = 1..0
    <3>1. StepsTo(stack, 0) = 0
      BY StepsToNext
    <3> QED BY <2>1, <3>1, PathKeysAre
  <2> QED BY <2>2
<1> QED BY <1>1, <1>2, <1>3, <1>4 DEF Seen, Traversal!Init

(* parseJSON with registered rules (executeJsonPathCallbackWithValue, the  *)
(* grammar's actions and isJsonPathResolved together) keeps the promise of *)
(* JsonTraversal: each value, when it is complete, is told to the rules in *)
(* their order, each handler once for each way to lay its rule over the    *)
(* path of the value, as long as no rejected document left elements.       *)
THEOREM DocumentsImplementTraversal == Spec => ImplementsTraversal
<1>1. RefInv /\ RefInv' /\ [Next]_vars =>
        [Traversal!Next]_(<<LiveRules, At, OpenKinds, ValuePath, ValueIsComplex, CallsTold>>)
  BY StepImplements DEF Unseen
<1> QED BY <1>1, InitHasRef, NextKeepsRef, InitImplements, PTL DEF Spec, ImplementsTraversal, Traversal!Spec, Traversal!travVars
=============================================================================

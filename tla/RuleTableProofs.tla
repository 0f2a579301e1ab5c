-------------------------- MODULE RuleTableProofs --------------------------
(***************************************************************************)
(* Proof that the table of a request holds every rule that was accepted,   *)
(* whatever was registered before and after it and whatever failed.        *)
(*                                                                         *)
(* AcceptedAreRules is not inductive: End makes a rule of what the parser  *)
(* has pushed, and of what is due.  Growing says of these, at each place   *)
(* of the grammar, that they are a rule so far, and lie behind all that    *)
(* was accepted.                                                           *)
(***************************************************************************)
EXTENDS RuleTable, SequenceTheorems, TLAPS

Elems == [type : RuleTypes \cup HttpTypes, key : Keys]

(* A rule that a step of any kind may be added to. *)
Steady(r) == IsRule(r) /\ r[Len(r)].type # "RECURSIVE"

(* new: what has been pushed of the rule that is parsed. *)
Shape(new) ==
    /\ at = "dollar" => new = <<>> /\ due = <<>>
    /\ at = "path" => Steady(new \o due)
    /\ at \in {"dot", "dotdot", "bracket"} => Steady(new) /\ due = <<>>

Growing ==
    at # "idle" =>
        \E old \in Seq(Elems), new \in Seq(RuleElements) :
            /\ elements = old \o new /\ newRootPlace = Len(old) + 1
            /\ Shape(new)
            /\ \A k \in DOMAIN accepted : accepted[k] <= Len(old)

(* AcceptedAreRules of a table e, sizes s and places a. *)
Kept(e, s, a) ==
    \A k \in DOMAIN a :
        /\ a[k] \in DOMAIN e
        /\ s[a[k]] \in 1 .. (Len(e) - a[k] + 1)
        /\ IsRule(SubSeq(e, a[k], a[k] + s[a[k]] - 1))

TypeInv ==
    /\ elements \in Seq(Elems)
    /\ ruleSize \in Seq(Nat \cup {Unset}) /\ Len(ruleSize) = Len(elements)
    /\ at \in Places /\ recursive \in BOOLEAN
    /\ due \in Seq(RuleElements)
    /\ at = "idle" => due = <<>>
    /\ newRootPlace \in Nat
    /\ accepted \in Seq(Nat)

IInv == TypeInv /\ Growing /\ Kept(elements, ruleSize, accepted)

-----------------------------------------------------------------------------
(* Rules that grow. *)

IsRuleStep(e) ==
    e \in RuleElements /\ KeyFits(e) /\ e.type \notin {"ROOT", "RECURSIVE"}

LEMMA RecursiveIs ==
    Recursive \in RuleElements /\ KeyFits(Recursive) /\ Recursive.type = "RECURSIVE"
BY DEF Recursive, Step, RuleElements, RuleTypes, Keys, KeyFits, FieldTypes

LEMMA RootIsRule == Steady(<<Step("ROOT", NoKey)>>)
BY DEF Steady, IsRule, Step, RuleElements, RuleTypes, Keys, KeyFits, FieldTypes

LEMMA AddStep ==
    ASSUME NEW r, Steady(r), NEW e, IsRuleStep(e)
    PROVE  Steady(r \o <<e>>)
<1> DEFINE s == r \o <<e>>
<1>1. r \in Seq(RuleElements) /\ <<e>> \in Seq(RuleElements) /\ Len(r) \in Nat /\ Len(r) >= 1
  BY DEF Steady, IsRule, IsRuleStep
<1>2. s \in Seq(RuleElements) /\ Len(s) = Len(r) + 1 /\ DOMAIN s = 1 .. Len(r) + 1
      /\ \A i \in 1 .. Len(r) : s[i] = r[i]
      /\ s[Len(r) + 1] = e
  BY <1>1
<1> HIDE DEF s
<1>3. \A i \in DOMAIN r : /\ KeyFits(r[i]) /\ (r[i].type = "ROOT" <=> i = 1)
                          /\ (r[i].type = "RECURSIVE" /\ i < Len(r)) => r[i + 1].type # "RECURSIVE"
  BY DEF Steady, IsRule
<1>4. \A i \in DOMAIN s : /\ KeyFits(s[i]) /\ (s[i].type = "ROOT" <=> i = 1)
                          /\ (s[i].type = "RECURSIVE" /\ i < Len(s)) => s[i + 1].type # "RECURSIVE"
  <2> TAKE i \in DOMAIN s
  <2>1. CASE i = Len(r) + 1
    BY <2>1, <1>1, <1>2 DEF IsRuleStep
  <2>2. CASE i < Len(r)
    BY <2>2, <1>1, <1>2, <1>3
  <2>3. CASE i = Len(r)
    BY <2>3, <1>1, <1>2, <1>3 DEF IsRuleStep
  <2> QED BY <1>1, <1>2, <2>1, <2>2, <2>3
<1>5. s # <<>>
  BY <1>1, <1>2
<1>6. IsRule(s)
  BY <1>2, <1>4, <1>5 DEF IsRule
<1>7. s[Len(s)].type # "RECURSIVE"
  BY <1>1, <1>2 DEF IsRuleStep
<1> QED BY <1>6, <1>7 DEF Steady, s

LEMMA AddRecursive ==
    ASSUME NEW r, Steady(r)
    PROVE  IsRule(r \o <<Recursive>>)
<1> DEFINE s == r \o <<Recursive>>
<1>1. r \in Seq(RuleElements) /\ Len(r) \in Nat /\ Len(r) >= 1
  BY DEF Steady, IsRule
<1>2. s \in Seq(RuleElements) /\ Len(s) = Len(r) + 1 /\ DOMAIN s = 1 .. Len(r) + 1
      /\ \A i \in 1 .. Len(r) : s[i] = r[i]
      /\ s[Len(r) + 1] = Recursive
  BY <1>1, RecursiveIs
<1> HIDE DEF s
<1>3. \A i \in DOMAIN r : /\ KeyFits(r[i]) /\ (r[i].type = "ROOT" <=> i = 1)
                          /\ (r[i].type = "RECURSIVE" /\ i < Len(r)) => r[i + 1].type # "RECURSIVE"
  BY DEF Steady, IsRule
<1>4. \A i \in DOMAIN s : /\ KeyFits(s[i]) /\ (s[i].type = "ROOT" <=> i = 1)
                          /\ (s[i].type = "RECURSIVE" /\ i < Len(s)) => s[i + 1].type # "RECURSIVE"
  <2> TAKE i \in DOMAIN s
  <2>1. CASE i = Len(r) + 1
    BY <2>1, <1>1, <1>2, RecursiveIs
  <2>2. CASE i < Len(r)
    BY <2>2, <1>1, <1>2, <1>3
  <2>3. CASE i = Len(r)
    BY <2>3, <1>1, <1>2, <1>3 DEF Steady
  <2> QED BY <1>1, <1>2, <2>1, <2>2, <2>3
<1>5. s # <<>>
  BY <1>1, <1>2
<1>6. IsRule(s)
  BY <1>2, <1>4, <1>5 DEF IsRule
<1> QED BY <1>6 DEF s

LEMMA AddRecursiveStep ==
    ASSUME NEW r, Steady(r), NEW e, IsRuleStep(e)
    PROVE  Steady(r \o <<Recursive, e>>)
<1> DEFINE s == r \o <<Recursive, e>>
<1>1. r \in Seq(RuleElements) /\ Len(r) \in Nat /\ Len(r) >= 1 /\ e \in RuleElements
  BY DEF Steady, IsRule, IsRuleStep
<1>2. s \in Seq(RuleElements) /\ Len(s) = Len(r) + 2 /\ DOMAIN s = 1 .. Len(r) + 2
      /\ \A i \in 1 .. Len(r) : s[i] = r[i]
      /\ s[Len(r) + 1] = Recursive /\ s[Len(r) + 2] = e
  BY <1>1, RecursiveIs
<1> HIDE DEF s
<1>3. \A i \in DOMAIN r : /\ KeyFits(r[i]) /\ (r[i].type = "ROOT" <=> i = 1)
                          /\ (r[i].type = "RECURSIVE" /\ i < Len(r)) => r[i + 1].type # "RECURSIVE"
  BY DEF Steady, IsRule
<1>4. \A i \in DOMAIN s : /\ KeyFits(s[i]) /\ (s[i].type = "ROOT" <=> i = 1)
                          /\ (s[i].type = "RECURSIVE" /\ i < Len(s)) => s[i + 1].type # "RECURSIVE"
  <2> TAKE i \in DOMAIN s
  <2>1. CASE i = Len(r) + 1
    BY <2>1, <1>1, <1>2, RecursiveIs DEF IsRuleStep
  <2>2. CASE i < Len(r)
    BY <2>2, <1>1, <1>2, <1>3
  <2>3. CASE i = Len(r)
    BY <2>3, <1>1, <1>2, <1>3 DEF Steady
  <2>4. CASE i = Len(r) + 2
    BY <2>4, <1>1, <1>2 DEF IsRuleStep
  <2> QED BY <1>1, <1>2, <2>1, <2>2, <2>3, <2>4
<1>5. s # <<>>
  BY <1>1, <1>2
<1>6. IsRule(s)
  BY <1>2, <1>4, <1>5 DEF IsRule
<1>7. s[Len(s)].type # "RECURSIVE"
  BY <1>1, <1>2 DEF IsRuleStep
<1> QED BY <1>6, <1>7 DEF Steady, s

(* Elements behind the table change no rule of it. *)
LEMMA KeptByPush ==
    ASSUME NEW e \in Seq(Elems), NEW es \in Seq(Elems), NEW a \in Seq(Nat),
           NEW s, NEW t, Kept(e, s, a),
           \A k \in DOMAIN a : t[a[k]] = s[a[k]]
    PROVE  Kept(e \o es, t, a)
<1> SUFFICES ASSUME NEW k \in DOMAIN a
             PROVE  /\ a[k] \in DOMAIN (e \o es)
                    /\ t[a[k]] \in 1 .. (Len(e \o es) - a[k] + 1)
                    /\ IsRule(SubSeq(e \o es, a[k], a[k] + t[a[k]] - 1))
  BY DEF Kept
<1>1. /\ a[k] \in 1 .. Len(e) /\ s[a[k]] \in 1 .. (Len(e) - a[k] + 1)
      /\ IsRule(SubSeq(e, a[k], a[k] + s[a[k]] - 1))
  BY DEF Kept
<1>2. Len(e \o es) = Len(e) + Len(es) /\ DOMAIN (e \o es) = 1 .. Len(e) + Len(es)
      /\ Len(e) \in Nat /\ Len(es) \in Nat
  BY ConcatProperties
<1>3. a[k] + s[a[k]] - 1 \in 1 .. Len(e)
  BY <1>1, <1>2
<1>4. SubSeq(e \o es, a[k], a[k] + s[a[k]] - 1) = SubSeq(e, a[k], a[k] + s[a[k]] - 1)
  BY <1>1, <1>3, SubSeqOfConcat1
<1>5. t[a[k]] = s[a[k]]
  OBVIOUS
<1>6. t[a[k]] \in 1 .. (Len(e \o es) - a[k] + 1) /\ a[k] \in DOMAIN (e \o es)
  BY <1>1, <1>2, <1>5
<1> QED BY <1>1, <1>4, <1>5, <1>6

LEMMA Pushing ==
    ASSUME IInv, NEW es \in Seq(Elems), Push(es), UNCHANGED accepted
    PROVE  /\ elements' = elements \o es /\ elements' \in Seq(Elems)
           /\ ruleSize' \in Seq(Nat \cup {Unset}) /\ Len(ruleSize') = Len(elements')
           /\ Kept(elements', ruleSize', accepted')
<1> DEFINE us == [i \in DOMAIN es |-> Unset]
<1>1. elements' = elements \o es /\ ruleSize' = ruleSize \o us
  BY DEF Push
<1>2. elements \in Seq(Elems) /\ ruleSize \in Seq(Nat \cup {Unset}) /\ Len(ruleSize) = Len(elements)
      /\ accepted \in Seq(Nat) /\ Kept(elements, ruleSize, accepted)
  BY DEF IInv, TypeInv
<1>3. us \in Seq(Nat \cup {Unset}) /\ Len(us) = Len(es)
  OBVIOUS
<1> HIDE DEF us
<1>4. elements' \in Seq(Elems) /\ Len(elements') = Len(elements) + Len(es)
  BY <1>1, <1>2, ConcatProperties
<1>5. /\ ruleSize' \in Seq(Nat \cup {Unset}) /\ Len(ruleSize') = Len(ruleSize) + Len(us)
      /\ \A i \in 1 .. Len(ruleSize) : ruleSize'[i] = ruleSize[i]
  <2>1. /\ ruleSize \o us \in Seq(Nat \cup {Unset})
        /\ Len(ruleSize \o us) = Len(ruleSize) + Len(us)
        /\ \A i \in 1 .. Len(ruleSize) + Len(us) : (ruleSize \o us)[i] =
               IF i <= Len(ruleSize) THEN ruleSize[i] ELSE us[i - Len(ruleSize)]
    BY <1>2, <1>3, ConcatProperties
  <2>2. Len(ruleSize) \in Nat /\ Len(us) \in Nat
    BY <1>2, <1>3
  <2> QED BY <2>1, <2>2, <1>1
<1>6. \A k \in DOMAIN accepted : ruleSize'[accepted[k]] = ruleSize[accepted[k]]
  <2>1. \A k \in DOMAIN accepted : accepted[k] \in 1 .. Len(ruleSize)
    BY <1>2 DEF Kept
  <2> QED BY <2>1, <1>5
<1>7. Kept(elements', ruleSize', accepted')
  BY <1>1, <1>2, <1>6, KeptByPush
<1> QED BY <1>1, <1>2, <1>3, <1>4, <1>5, <1>7

LEMMA RuleElementsAreElems == \A es : es \in Seq(RuleElements) => es \in Seq(Elems)
<1>1. RuleElements \subseteq Elems
  BY DEF RuleElements, Elems
<1> QED BY <1>1

LEMMA NothingPushed ==
    ASSUME IInv, UNCHANGED tableVars
    PROVE  /\ elements' = elements /\ ruleSize' = ruleSize /\ accepted' = accepted
           /\ elements' \in Seq(Elems)
           /\ ruleSize' \in Seq(Nat \cup {Unset}) /\ Len(ruleSize') = Len(elements')
           /\ accepted' \in Seq(Nat)
           /\ Kept(elements', ruleSize', accepted')
BY DEF IInv, TypeInv, tableVars

-----------------------------------------------------------------------------
LEMMA InitInv == Init => IInv
<1> SUFFICES ASSUME Init PROVE IInv
  OBVIOUS
<1>1. /\ elements = <<>> /\ ruleSize = <<>> /\ accepted = <<>> /\ at = "idle"
      /\ recursive = FALSE /\ due = <<>> /\ newRootPlace = 0
  BY DEF Init
<1>2. /\ elements \in Seq(Elems) /\ ruleSize \in Seq(Nat \cup {Unset})
      /\ Len(ruleSize) = Len(elements)
      /\ due \in Seq(RuleElements) /\ accepted \in Seq(Nat) /\ DOMAIN accepted = {}
  BY <1>1
<1> QED BY <1>1, <1>2 DEF IInv, TypeInv, Growing, Kept, Places

LEMMA AppendHttpInv ==
    ASSUME IInv, NEW t \in HttpTypes, AppendHttp(t)
    PROVE  IInv'
<1>1. /\ at = "idle" /\ Push(<<Step(t, NoKey)>>)
      /\ UNCHANGED <<accepted, at, recursive, due, newRootPlace>>
  BY DEF AppendHttp, Idle, parseVars
<1>2. <<Step(t, NoKey)>> \in Seq(Elems)
  <2>1. Step(t, NoKey) \in Elems
    BY DEF Elems, Step, Keys
  <2> QED BY <2>1
<1>3. /\ elements' \in Seq(Elems)
      /\ ruleSize' \in Seq(Nat \cup {Unset}) /\ Len(ruleSize') = Len(elements')
      /\ Kept(elements', ruleSize', accepted')
  BY <1>1, <1>2, Pushing
<1>4. TypeInv'
  BY <1>1, <1>3 DEF IInv, TypeInv
<1>5. Growing'
  BY <1>1 DEF Growing
<1> QED BY <1>3, <1>4, <1>5 DEF IInv

LEMMA AppendJsonPathInv ==
    ASSUME IInv, AppendJsonPath
    PROVE  IInv'
<1>1. /\ at = "idle" /\ at' = "dollar" /\ newRootPlace' = Len(elements) + 1
      /\ UNCHANGED <<tableVars, recursive, due>>
  BY DEF AppendJsonPath, Idle
<1>2. due = <<>> /\ elements \in Seq(Elems) /\ Len(elements) \in Nat
  BY <1>1 DEF IInv, TypeInv
<1>3. TypeInv'
  BY <1>1, <1>2, NothingPushed DEF IInv, TypeInv, Places
<1>4. \A k \in DOMAIN accepted : accepted[k] <= Len(elements)
  BY <1>2 DEF IInv, Kept
<1>5. Growing'
  <2> SUFFICES \E old \in Seq(Elems), new \in Seq(RuleElements) :
                   /\ elements' = old \o new /\ newRootPlace' = Len(old) + 1
                   /\ Shape(new)'
                   /\ \A k \in DOMAIN accepted' : accepted'[k] <= Len(old)
    BY DEF Growing
  <2>1. elements' = elements \o <<>>
    BY <1>1, <1>2, ConcatEmptySeq DEF tableVars
  <2>2. Shape(<<>>)'
    BY <1>1, <1>2 DEF Shape
  <2>3. <<>> \in Seq(RuleElements)
    OBVIOUS
  <2>4. accepted' = accepted
    BY <1>1 DEF tableVars
  <2> QED BY <2>1, <2>2, <2>3, <2>4, <1>1, <1>2, <1>4
<1> QED BY <1>1, <1>3, <1>5, NothingPushed DEF IInv

LEMMA DollarInv ==
    ASSUME IInv, Dollar
    PROVE  IInv'
<1>1. /\ at = "dollar" /\ at' = "path" /\ due' = <<Step("ROOT", NoKey)>>
      /\ UNCHANGED <<tableVars, recursive, newRootPlace>>
  BY DEF Dollar
<1>2. due' \in Seq(RuleElements) /\ Steady(due')
  BY <1>1, RootIsRule DEF Steady, IsRule
<1>3. TypeInv'
  BY <1>1, <1>2, NothingPushed DEF IInv, TypeInv, Places
<1>4. Growing'
  <2>1. PICK old \in Seq(Elems), new \in Seq(RuleElements) :
            /\ elements = old \o new /\ newRootPlace = Len(old) + 1
            /\ Shape(new)
            /\ \A k \in DOMAIN accepted : accepted[k] <= Len(old)
    BY <1>1 DEF IInv, Growing
  <2>2. new \o due' = due'
    BY <2>1, <1>1, <1>2, ConcatEmptySeq DEF Shape
  <2>3. Shape(new)'
    BY <2>2, <1>1, <1>2 DEF Shape
  <2>4. elements' = elements /\ accepted' = accepted /\ newRootPlace' = newRootPlace
    BY <1>1 DEF tableVars
  <2> QED BY <2>1, <2>3, <2>4 DEF Growing
<1> QED BY <1>1, <1>3, <1>4, NothingPushed DEF IInv

(* The dot and the bracket push the step before them. *)
LEMMA PushDue ==
    ASSUME IInv, at = "path", Push(due), at' \in {"dot", "bracket"}, due' = <<>>,
           recursive' \in BOOLEAN, UNCHANGED <<accepted, newRootPlace>>
    PROVE  IInv'
<1>1. due \in Seq(RuleElements) /\ due \in Seq(Elems)
  BY RuleElementsAreElems DEF IInv, TypeInv
<1>2. /\ elements' = elements \o due /\ elements' \in Seq(Elems)
      /\ ruleSize' \in Seq(Nat \cup {Unset}) /\ Len(ruleSize') = Len(elements')
      /\ Kept(elements', ruleSize', accepted')
  BY <1>1, Pushing
<1>3. TypeInv'
  BY <1>2 DEF IInv, TypeInv, Places
<1>4. PICK old \in Seq(Elems), new \in Seq(RuleElements) :
          /\ elements = old \o new /\ newRootPlace = Len(old) + 1
          /\ Shape(new)
          /\ \A k \in DOMAIN accepted : accepted[k] <= Len(old)
  BY DEF IInv, Growing
<1>5. PICK all \in Seq(RuleElements) : all = new \o due
  BY <1>1, ConcatProperties
<1>6. elements' = old \o all
  <2>1. new \in Seq(Elems) /\ due \in Seq(Elems)
    BY <1>1, RuleElementsAreElems
  <2>2. (old \o new) \o due = old \o (new \o due)
    BY <2>1, ConcatAssociative
  <2> QED BY <2>2, <1>2, <1>4, <1>5
<1>7. Shape(all)'
  <2>1. Steady(all)
    BY <1>4, <1>5 DEF Shape
  <2> QED BY <2>1 DEF Shape
<1>8. Growing'
  BY <1>4, <1>5, <1>6, <1>7 DEF Growing
<1> QED BY <1>2, <1>3, <1>8 DEF IInv

(* From one place to another without a push. *)
LEMMA GoOn ==
    ASSUME IInv, at \in {"dot", "dotdot"}, at' \in {"dotdot", "bracket"}, due' = <<>>,
           recursive' \in BOOLEAN, UNCHANGED <<tableVars, newRootPlace>>
    PROVE  IInv'
<1>1. TypeInv'
  BY NothingPushed DEF IInv, TypeInv, Places
<1>2. PICK old \in Seq(Elems), new \in Seq(RuleElements) :
          /\ elements = old \o new /\ newRootPlace = Len(old) + 1
          /\ Shape(new)
          /\ \A k \in DOMAIN accepted : accepted[k] <= Len(old)
  BY DEF IInv, Growing
<1>3. Shape(new)'
  BY <1>2 DEF Shape
<1>4. elements' = elements /\ accepted' = accepted /\ newRootPlace' = newRootPlace
  BY DEF tableVars
<1>5. Growing'
  BY <1>2, <1>3, <1>4 DEF Growing
<1> QED BY <1>1, <1>5, NothingPushed DEF IInv

LEMMA DotInv ==
    ASSUME IInv, Dot
    PROVE  IInv'
<1>1. CASE /\ at = "path" /\ Push(due) /\ at' = "dot" /\ due' = <<>>
           /\ UNCHANGED <<accepted, recursive, newRootPlace>>
  BY <1>1, PushDue DEF IInv, TypeInv
<1>2. CASE /\ at = "dot" /\ at' = "dotdot"
           /\ UNCHANGED <<tableVars, recursive, due, newRootPlace>>
  <2>1. due' = <<>>
    BY <1>2 DEF IInv, Growing, Shape
  <2> QED BY <1>2, <2>1, GoOn DEF IInv, TypeInv
<1> QED BY <1>1, <1>2 DEF Dot

LEMMA BracketInv ==
    ASSUME IInv, Bracket
    PROVE  IInv'
<1>1. CASE at = "path" /\ Push(due) /\ recursive' = FALSE
  BY <1>1, PushDue DEF Bracket
<1>2. CASE at = "dotdot" /\ recursive' = TRUE /\ UNCHANGED <<elements, ruleSize>>
  BY <1>2, GoOn DEF Bracket, tableVars
<1> QED BY <1>1, <1>2 DEF Bracket

(* A step becomes due. *)
LEMMA StepInv ==
    ASSUME IInv, NEW step, IsRuleStep(step), at \in {"dot", "dotdot", "bracket"},
           due' = <<step>> \/ due' = <<Recursive, step>>,
           at' = "path", recursive' \in BOOLEAN, UNCHANGED <<tableVars, newRootPlace>>
    PROVE  IInv'
<1>1. due' \in Seq(RuleElements)
  <2>1. step \in RuleElements /\ Recursive \in RuleElements
    BY RecursiveIs DEF IsRuleStep
  <2>2. <<step>> \in Seq(RuleElements) /\ <<Recursive, step>> \in Seq(RuleElements)
    BY <2>1
  <2> QED BY <2>2
<1>2. TypeInv'
  BY <1>1, NothingPushed DEF IInv, TypeInv, Places
<1>3. PICK old \in Seq(Elems), new \in Seq(RuleElements) :
          /\ elements = old \o new /\ newRootPlace = Len(old) + 1
          /\ Shape(new)
          /\ \A k \in DOMAIN accepted : accepted[k] <= Len(old)
  BY DEF IInv, Growing
<1>4. Steady(new)
  BY <1>3 DEF Shape
<1>5. Steady(new \o due')
  BY <1>4, AddStep, AddRecursiveStep
<1>6. Shape(new)'
  BY <1>5 DEF Shape
<1>7. elements' = elements /\ accepted' = accepted /\ newRootPlace' = newRootPlace
  BY DEF tableVars
<1>8. Growing'
  BY <1>3, <1>6, <1>7 DEF Growing
<1> QED BY <1>2, <1>8, NothingPushed DEF IInv

LEMMA FailInv ==
    ASSUME IInv, Fail
    PROVE  IInv'
<1>1. /\ Push(Reduced) /\ at' = "idle" /\ recursive' = FALSE /\ due' = <<>> /\ newRootPlace' = 0
      /\ UNCHANGED accepted
  BY DEF Fail
<1>2. Reduced \in Seq(Elems)
  <2>1. <<Recursive>> \in Seq(RuleElements) /\ due \in Seq(RuleElements)
    BY RecursiveIs DEF IInv, TypeInv
  <2>2. Reduced \in {<<Recursive>>, due}
    BY DEF Reduced
  <2> QED BY <2>1, <2>2, RuleElementsAreElems
<1>3. /\ elements' \in Seq(Elems)
      /\ ruleSize' \in Seq(Nat \cup {Unset}) /\ Len(ruleSize') = Len(elements')
      /\ Kept(elements', ruleSize', accepted')
  BY <1>1, <1>2, Pushing
<1>4. TypeInv'
  <2>1. /\ due' \in Seq(RuleElements) /\ newRootPlace' \in Nat /\ recursive' \in BOOLEAN
        /\ at' \in Places
    <3>1. due' = <<>> /\ newRootPlace' = 0 /\ recursive' = FALSE /\ at' = "idle"
      BY <1>1
    <3>2. <<>> \in Seq(RuleElements)
      OBVIOUS
    <3>3. at' \in Places
      BY <3>1 DEF Places
    <3> QED BY <3>1, <3>2, <3>3
  <2>2. accepted' \in Seq(Nat)
    BY <1>1 DEF IInv, TypeInv
  <2> QED BY <1>1, <1>3, <2>1, <2>2 DEF TypeInv
<1>5. Growing'
  BY <1>1 DEF Growing
<1> QED BY <1>3, <1>4, <1>5 DEF IInv

(* What is due completes the rule, which lies at the end of the table. *)
LEMMA EndInv ==
    ASSUME IInv, End
    PROVE  IInv'
<1>1. /\ at \in {"path", "dot", "dotdot"} /\ elements' = elements \o Reduced
      /\ ruleSize' = [i \in DOMAIN elements' |->
                         IF i = newRootPlace THEN Len(elements') - newRootPlace + 1
                         ELSE IF i \in DOMAIN ruleSize THEN ruleSize[i] ELSE Unset]
      /\ accepted' = Append(accepted, newRootPlace)
      /\ at' = "idle" /\ due' = <<>> /\ newRootPlace' = 0 /\ recursive' = recursive
  BY DEF End, Accept
<1>2. /\ elements \in Seq(Elems) /\ accepted \in Seq(Nat) /\ newRootPlace \in Nat
      /\ ruleSize \in Seq(Nat \cup {Unset}) /\ Len(ruleSize) = Len(elements)
      /\ Kept(elements, ruleSize, accepted) /\ recursive \in BOOLEAN
  BY DEF IInv, TypeInv
<1>3. PICK old \in Seq(Elems), new \in Seq(RuleElements) :
          /\ elements = old \o new /\ newRootPlace = Len(old) + 1
          /\ Shape(new)
          /\ \A k \in DOMAIN accepted : accepted[k] <= Len(old)
  BY <1>1 DEF IInv, Growing
<1>4. Reduced \in Seq(RuleElements)
  <2>1. <<Recursive>> \in Seq(RuleElements) /\ due \in Seq(RuleElements)
    BY RecursiveIs DEF IInv, TypeInv
  <2> QED BY <2>1 DEF Reduced
<1>5. PICK rule \in Seq(RuleElements) : rule = new \o Reduced
  BY <1>4, ConcatProperties
<1>6. IsRule(rule) /\ Len(rule) \in Nat /\ Len(rule) >= 1
  <2> SUFFICES IsRule(rule)
    BY DEF IsRule
  <2>1. CASE at = "path"
    BY <2>1, <1>3, <1>5 DEF Shape, Reduced, Steady
  <2>2. CASE at = "dot"
    <3>1. Reduced = <<>> /\ Steady(new)
      BY <2>2, <1>3 DEF Shape, Reduced
    <3>2. rule = new
      BY <3>1, <1>3, <1>5, ConcatEmptySeq
    <3> QED BY <3>1, <3>2 DEF Steady
  <2>3. CASE at = "dotdot"
    <3>1. Reduced = <<Recursive>> /\ Steady(new)
      BY <2>3, <1>3 DEF Shape, Reduced
    <3> QED BY <3>1, <1>5, AddRecursive
  <2> QED BY <1>1, <2>1, <2>2, <2>3
<1>7. elements' = old \o rule
  BY SMTT(30), <1>1, <1>3, <1>4, <1>5, ConcatAssociative, RuleElementsAreElems
<1>8. /\ elements' \in Seq(Elems) /\ Len(elements') = Len(old) + Len(rule)
      /\ DOMAIN elements' = 1 .. Len(old) + Len(rule) /\ Len(old) \in Nat
  BY <1>7, <1>3, <1>5, ConcatProperties, RuleElementsAreElems
<1>9. Len(elements) = Len(old) + Len(new) /\ Len(rule) = Len(new) + Len(Reduced)
      /\ Len(new) \in Nat /\ Len(Reduced) \in Nat
  BY <1>3, <1>4, <1>5, ConcatProperties, RuleElementsAreElems
<1>10. /\ ruleSize' \in Seq(Nat \cup {Unset}) /\ Len(ruleSize') = Len(elements')
       /\ ruleSize'[newRootPlace] = Len(rule)
       /\ \A i \in 1 .. Len(old) : ruleSize'[i] = ruleSize[i]
  <2>1. DOMAIN ruleSize = 1 .. Len(old) + Len(new)
    BY <1>2, <1>9
  <2>2. Len(elements') - newRootPlace + 1 = Len(rule)
    BY <1>3, <1>6, <1>8
  <2>3. ruleSize' \in [1 .. Len(elements') -> Nat \cup {Unset}]
    BY <1>1, <1>2, <1>6, <1>8, <2>2
  <2>4. Len(elements') \in Nat
    BY <1>8
  <2>5. ruleSize' \in Seq(Nat \cup {Unset}) /\ Len(ruleSize') = Len(elements')
    BY <2>3, <2>4, LenProperties
  <2>6. newRootPlace \in DOMAIN elements'
    BY <1>3, <1>6, <1>8
  <2>7. ruleSize'[newRootPlace] = Len(rule)
    BY <1>1, <2>2, <2>6
  <2>8. ASSUME NEW i \in 1 .. Len(old) PROVE ruleSize'[i] = ruleSize[i]
    <3>1. i \in DOMAIN elements' /\ i # newRootPlace /\ i \in DOMAIN ruleSize
      BY <1>3, <1>6, <1>8, <1>9, <2>1
    <3> QED BY <3>1, <1>1
  <2> QED BY <2>5, <2>7, <2>8
<1>11. \A k \in DOMAIN accepted :
          /\ accepted[k] \in 1 .. Len(old) /\ accepted[k] \in DOMAIN elements
          /\ ruleSize'[accepted[k]] = ruleSize[accepted[k]]
  <2> TAKE k \in DOMAIN accepted
  <2>1. accepted[k] \in DOMAIN elements /\ accepted[k] <= Len(old) /\ accepted[k] \in 1 .. Len(elements)
    BY <1>2, <1>3 DEF Kept
  <2>2. accepted[k] \in 1 .. Len(old)
    BY <2>1, <1>8
  <2> QED BY <2>1, <2>2, <1>10
<1>12. Kept(elements', ruleSize', accepted)
  <2>1. Reduced \in Seq(Elems)
    BY <1>4, RuleElementsAreElems
  <2> QED BY <2>1, <1>1, <1>2, <1>11, KeptByPush
<1>13. SubSeq(elements', newRootPlace, newRootPlace + Len(rule) - 1) = rule
  <2>1. /\ newRootPlace \in Len(old) + 1 .. Len(old) + Len(rule)
        /\ newRootPlace + Len(rule) - 1 = Len(old) + Len(rule)
        /\ newRootPlace + Len(rule) - 1 \in Len(old) + 1 .. Len(old) + Len(rule)
        /\ newRootPlace - Len(old) = 1
        /\ newRootPlace + Len(rule) - 1 - Len(old) = Len(rule)
    BY <1>3, <1>6, <1>8
  <2>2. rule \in Seq(Elems) /\ old \in Seq(Elems)
    BY RuleElementsAreElems
  <2>3. SubSeq(old \o rule, newRootPlace, newRootPlace + Len(rule) - 1)
           = SubSeq(rule, newRootPlace - Len(old), newRootPlace + Len(rule) - 1 - Len(old))
    BY <2>1, <2>2, SubSeqOfConcat2
  <2>4. SubSeq(rule, 1, Len(rule)) = rule
    BY SubSeqFull
  <2> QED BY <2>1, <2>3, <2>4, <1>7
<1>14. Kept(elements', ruleSize', accepted')
  <2> SUFFICES ASSUME NEW k \in DOMAIN accepted'
               PROVE  /\ accepted'[k] \in DOMAIN elements'
                      /\ ruleSize'[accepted'[k]] \in 1 .. (Len(elements') - accepted'[k] + 1)
                      /\ IsRule(SubSeq(elements', accepted'[k], accepted'[k] + ruleSize'[accepted'[k]] - 1))
    BY DEF Kept
  <2>1. /\ DOMAIN accepted' = 1 .. Len(accepted) + 1 /\ Len(accepted) \in Nat
        /\ \A n \in DOMAIN accepted : accepted'[n] = accepted[n]
        /\ accepted'[Len(accepted) + 1] = newRootPlace
    BY <1>1, <1>2
  <2>2. CASE k \in DOMAIN accepted
    BY <2>1, <2>2, <1>12 DEF Kept
  <2>3. CASE k = Len(accepted) + 1
    <3>1. accepted'[k] = newRootPlace
      BY <2>1, <2>3
    <3>2. newRootPlace \in DOMAIN elements' /\ Len(rule) \in 1 .. (Len(elements') - newRootPlace + 1)
      BY <1>3, <1>6, <1>8
    <3> QED BY <3>1, <3>2, <1>6, <1>10, <1>13
  <2>4. DOMAIN accepted = 1 .. Len(accepted)
    BY <1>2
  <2> QED BY <2>1, <2>2, <2>3, <2>4
<1>15. TypeInv'
  <2>1. accepted' \in Seq(Nat)
    BY <1>1, <1>2
  <2> QED BY <2>1, <1>1, <1>2, <1>8, <1>10 DEF TypeInv, Places
<1>16. Growing'
  BY <1>1 DEF Growing
<1> QED BY <1>14, <1>15, <1>16 DEF IInv

LEMMA WalkInv ==
    ASSUME IInv, UNCHANGED <<tableVars, parseVars>>
    PROVE  IInv'
BY DEF IInv, TypeInv, Growing, Shape, Kept, tableVars, parseVars

-----------------------------------------------------------------------------
(* The invariant of the table, whatever is registered. *)
THEOREM InductiveInvariant == Spec => []IInv
<1>1. ASSUME IInv, [Next]_vars PROVE IInv'
  <2>1. ASSUME NEW t \in HttpTypes, AppendHttp(t) PROVE IInv'
    BY <1>1, <2>1, AppendHttpInv
  <2>2. CASE AppendJsonPath
    BY <1>1, <2>2, AppendJsonPathInv
  <2>3. CASE Dollar
    BY <1>1, <2>3, DollarInv
  <2>4. CASE Dot
    BY <1>1, <2>4, DotInv
  <2>5. CASE Bracket
    BY <1>1, <2>5, BracketInv
  <2>6. ASSUME NEW s \in Steps \cup {Step("ANY", NoKey)}, StepAfterDot(s) PROVE IInv'
    <3>1. IsRuleStep(s)
      BY DEF IsRuleStep, Steps, Step, RuleElements, RuleTypes, Keys, KeyFits, FieldTypes
    <3>2. /\ at \in {"dot", "dotdot"} /\ at' = "path" /\ recursive' = recursive
          /\ (due' = <<s>> \/ due' = <<Recursive, s>>) /\ UNCHANGED <<tableVars, newRootPlace>>
      BY <2>6 DEF StepAfterDot
    <3> QED BY <1>1, <3>1, <3>2, StepInv DEF IInv, TypeInv
  <2>7. ASSUME NEW s \in Steps \cup {Step("ANYINDEX", NoKey)} \cup {Step("INDEX", i) : i \in Indexes},
               StepInBracket(s)
        PROVE  IInv'
    <3>1. IsRuleStep(s)
      <4>1. Indexes \subseteq Nat
        BY RuleTableAssumption
      <4> QED BY <4>1 DEF IsRuleStep, Steps, Step, RuleElements, RuleTypes, Keys, KeyFits, FieldTypes
    <3>2. /\ at = "bracket" /\ at' = "path" /\ recursive' = FALSE
          /\ (due' = <<s>> \/ due' = <<Recursive, s>>) /\ UNCHANGED <<tableVars, newRootPlace>>
      BY <2>7 DEF StepInBracket
    <3> QED BY <1>1, <3>1, <3>2, StepInv
  <2>8. CASE End
    BY <1>1, <2>8, EndInv
  <2>9. CASE Fail
    BY <1>1, <2>9, FailInv
  <2>10. CASE StartWalk \/ Walk
    BY <1>1, <2>10, WalkInv DEF StartWalk, Walk, NextRoot, EndWalk
  <2>11. CASE UNCHANGED vars
    BY <1>1, <2>11, WalkInv DEF vars
  <2> QED BY <1>1, <2>1, <2>2, <2>3, <2>4, <2>5, <2>6, <2>7, <2>8, <2>9, <2>10, <2>11 DEF Next
<1> QED BY <1>1, InitInv, PTL DEF Spec

(* An accepted path is in the table as a rule, in one piece, whatever is   *)
(* registered later and however often a registration fails.                *)
THEOREM AcceptedStayRules == Spec => []AcceptedAreRules
<1>1. IInv => AcceptedAreRules
  BY DEF IInv, Kept, AcceptedAreRules, Block
<1> QED BY <1>1, InductiveInvariant, PTL

-----------------------------------------------------------------------------
(* What a walk relies on.  Up to the first HTTP callback every element is  *)
(* in the block of an accepted rule, or behind a root without a size; no   *)
(* walk runs while a path is parsed; and a walk stands where no block is   *)
(* cut in two, having visited the rules before this place.                 *)

Sized(n) == \E k \in DOMAIN accepted :
                accepted[k] <= n /\ n < accepted[k] + ruleSize[accepted[k]]

Unsized(n) == \E p \in 1..n : elements[p].type = "ROOT" /\ ruleSize[p] = Unset

Tiled == \A n \in DOMAIN elements : FreeTo(n) => Sized(n) \/ Unsized(n)

Unfinished ==
    at # "idle" => /\ current = 0
                   /\ \A n \in DOMAIN ruleSize : n >= newRootPlace => ruleSize[n] = Unset

Room == Len(elements) + Len(Reduced) <= MaxElements

AcceptedBelow(m) == {accepted[k] : k \in {j \in DOMAIN accepted : accepted[j] < m}}

WholeBlocks(m) ==
    \A k \in DOMAIN accepted : accepted[k] < m => accepted[k] + ruleSize[accepted[k]] <= m

Visiting ==
    current > 0 =>
        /\ visited \in Seq(Nat)
        /\ OnRoots => /\ current <= Len(elements) + 1
                      /\ Ascending(visited) /\ Len(visited) < current
                      /\ Visited = AcceptedBelow(current)
                      /\ WholeBlocks(current)
                      /\ SoundTo(current - 1)

WInv == /\ current \in Nat
        /\ Tiled /\ Unfinished /\ Room /\ Visiting

-----------------------------------------------------------------------------
(* The block of a rule: a root, and then steps that are none. *)
LEMMA BlockFacts ==
    ASSUME IInv, NEW k \in DOMAIN accepted
    PROVE  LET p == accepted[k]
           IN  /\ p \in 1..Len(elements) /\ p \in Nat /\ ruleSize[p] \in Nat
               /\ ruleSize[p] >= 1 /\ p + ruleSize[p] <= Len(elements) + 1
               /\ elements[p].type = "ROOT"
               /\ \A q \in p..(p + ruleSize[p] - 1) :
                      /\ elements[q].type \in RuleTypes
                      /\ elements[q].type = "ROOT" => q = p
<1> DEFINE p == accepted[k]
           l == ruleSize[p]
           b == SubSeq(elements, p, p + l - 1)
<1>1. elements \in Seq(Elems) /\ accepted \in Seq(Nat) /\ p \in Nat
  BY DEF IInv, TypeInv
<1>2. p \in DOMAIN elements /\ l \in 1..(Len(elements) - p + 1) /\ IsRule(b)
  BY DEF IInv, Kept
<1>3. p \in 1..Len(elements) /\ l \in Nat /\ l >= 1 /\ p + l <= Len(elements) + 1
      /\ Len(elements) \in Nat
  BY SMTT(30), <1>1, <1>2
<1> HIDE DEF p, l
<1>4. Len(b) = l /\ \A j \in 1..l : b[j] = elements[p + j - 1]
  <2>1. p + l - 1 \in Int /\ (p + l - 1) - p + 1 = l
    BY <1>3
  <2> QED BY <1>1, <1>3, <2>1
<1> HIDE DEF b
<1>5. b \in Seq(RuleElements) /\ \A j \in 1..l : b[j].type = "ROOT" <=> j = 1
  <2>1. b \in Seq(RuleElements) /\ DOMAIN b = 1..l
    BY <1>2, <1>4 DEF IsRule
  <2> QED BY <1>2, <2>1 DEF IsRule
<1>6. \A j \in 1..l : b[j].type \in RuleTypes
  <2>1. \A j \in 1..l : b[j] \in RuleElements
    BY <1>4, <1>5
  <2> QED BY <2>1 DEF RuleElements
<1>7. ASSUME NEW q \in p..(p + l - 1)
      PROVE  elements[q].type \in RuleTypes /\ (elements[q].type = "ROOT" <=> q = p)
  <2>1. PICK j \in 1..l : q = p + j - 1
    <3>1. q - p + 1 \in 1..l /\ q = p + (q - p + 1) - 1
      BY <1>3
    <3> QED BY <3>1
  <2>2. j = 1 <=> q = p
    BY <1>3, <2>1
  <2>3. elements[q] = b[j]
    BY <1>4, <2>1
  <2> QED BY <1>5, <1>6, <2>2, <2>3
<1>8. elements[p].type = "ROOT"
  <2>1. p \in p..(p + l - 1)
    BY <1>3
  <2> QED BY <1>7, <2>1
<1> QED BY <1>1, <1>3, <1>7, <1>8 DEF p, l

(* What the table holds up to place m stays as it is. *)
LEMMA OldTiled ==
    ASSUME IInv, Tiled, NEW m \in 0..Len(elements), m \in Nat,
           \A q \in 1..m : elements'[q] = elements[q] /\ ruleSize'[q] = ruleSize[q],
           \A k \in DOMAIN accepted : k \in DOMAIN accepted' /\ accepted'[k] = accepted[k],
           NEW n \in 1..m, FreeTo(n)'
    PROVE  Sized(n)' \/ Unsized(n)'
<1>1. elements \in Seq(Elems) /\ n \in DOMAIN elements /\ n \in Nat /\ n >= 1
  BY DEF IInv, TypeInv
<1>2. 1..n \subseteq 1..m
  BY <1>1
<1>3. FreeTo(n)
  BY <1>2 DEF FreeTo
<1>4. CASE Sized(n)
  <2>1. PICK k \in DOMAIN accepted :
            accepted[k] <= n /\ n < accepted[k] + ruleSize[accepted[k]]
    BY <1>4 DEF Sized
  <2>2. accepted[k] \in 1..m
    BY <1>1, <2>1, BlockFacts
  <2>3. Sized(n)'
    BY <2>1, <2>2 DEF Sized
  <2> QED BY <2>3
<1>5. CASE Unsized(n)
  <2>1. Unsized(n)'
    BY <1>2, <1>5 DEF Unsized
  <2> QED BY <2>1
<1> QED BY <1>1, <1>3, <1>4, <1>5 DEF Tiled

(* What is pushed while a path is parsed lies behind its root. *)
LEMMA PushTiled ==
    ASSUME IInv, WInv, at # "idle", Push(Reduced), UNCHANGED accepted
    PROVE  /\ Tiled'
           /\ \A n \in DOMAIN ruleSize' : n >= newRootPlace => ruleSize'[n] = Unset
           /\ Len(elements') <= MaxElements
<1> DEFINE us == [j \in DOMAIN Reduced |-> Unset]
<1>1. PICK old \in Seq(Elems), new \in Seq(RuleElements) :
          elements = old \o new /\ newRootPlace = Len(old) + 1 /\ Shape(new)
  BY DEF IInv, Growing
<1>2. Reduced \in Seq(RuleElements) /\ Reduced \in Seq(Elems)
  <2>1. <<Recursive>> \in Seq(RuleElements) /\ due \in Seq(RuleElements)
    BY RecursiveIs DEF IInv, TypeInv
  <2> QED BY <2>1, RuleElementsAreElems DEF Reduced
<1>3. PICK all \in Seq(RuleElements) : all = new \o Reduced
  BY <1>2, ConcatProperties
<1>4. elements' = elements \o Reduced /\ elements' = old \o all
  BY <1>1, <1>2, <1>3, ConcatAssociative, RuleElementsAreElems DEF Push
<1>5. new \in Seq(Elems) /\ all \in Seq(Elems) /\ elements \in Seq(Elems)
  BY RuleElementsAreElems DEF IInv, TypeInv
<1>6. /\ Len(old) \in Nat /\ Len(new) \in Nat /\ Len(all) \in Nat /\ Len(Reduced) \in Nat
      /\ Len(elements) = Len(old) + Len(new) /\ Len(all) = Len(new) + Len(Reduced)
      /\ Len(elements') = Len(old) + Len(all) /\ elements' \in Seq(Elems)
      /\ DOMAIN elements' = 1..(Len(old) + Len(all))
  BY <1>1, <1>2, <1>3, <1>4, <1>5, ConcatProperties
<1>7. \A q \in 1..Len(elements) : elements'[q] = elements[q]
  <2>1. \A q \in 1..(Len(elements) + Len(Reduced)) : (elements \o Reduced)[q] =
            IF q <= Len(elements) THEN elements[q] ELSE Reduced[q - Len(elements)]
    BY <1>2, <1>5, ConcatProperties
  <2>2. \A q \in 1..Len(elements) : q \in 1..(Len(elements) + Len(Reduced)) /\ q <= Len(elements)
    BY <1>6
  <2> QED BY <1>4, <2>1, <2>2
<1>8. /\ ruleSize \in Seq(Nat \cup {Unset}) /\ Len(ruleSize) = Len(elements)
      /\ DOMAIN ruleSize = 1..Len(elements)
  BY DEF IInv, TypeInv
<1>9. us \in Seq(Nat \cup {Unset}) /\ Len(us) = Len(Reduced) /\ \A j \in 1..Len(Reduced) : us[j] = Unset
  BY <1>2
<1> HIDE DEF us
<1>10. /\ DOMAIN ruleSize' = 1..(Len(elements) + Len(Reduced))
       /\ \A q \in 1..Len(elements) : ruleSize'[q] = ruleSize[q]
       /\ \A q \in 1..(Len(elements) + Len(Reduced)) : q > Len(elements) => ruleSize'[q] = Unset
  <2>1. ruleSize' = ruleSize \o us
    BY DEF Push, us
  <2>2. /\ Len(ruleSize \o us) = Len(elements) + Len(Reduced)
        /\ ruleSize \o us \in Seq(Nat \cup {Unset})
        /\ \A q \in 1..(Len(elements) + Len(Reduced)) : (ruleSize \o us)[q] =
               IF q <= Len(elements) THEN ruleSize[q] ELSE us[q - Len(elements)]
    <3>1. /\ ruleSize \o us \in Seq(Nat \cup {Unset})
          /\ Len(ruleSize \o us) = Len(ruleSize) + Len(us)
          /\ \A q \in 1..(Len(ruleSize) + Len(us)) : (ruleSize \o us)[q] =
                 IF q <= Len(ruleSize) THEN ruleSize[q] ELSE us[q - Len(ruleSize)]
      BY ZenonT(60), <1>8, <1>9, ConcatProperties
    <3> QED BY <1>8, <1>9, <3>1
  <2>3. \A q \in 1..(Len(elements) + Len(Reduced)) : q > Len(elements) =>
            q - Len(elements) \in 1..Len(Reduced)
    BY <1>6
  <2>4. \A q \in 1..Len(elements) : q \in 1..(Len(elements) + Len(Reduced)) /\ q <= Len(elements)
    BY <1>6
  <2>5. Len(elements) \in Nat
    BY <1>6
  <2>6. \A q \in 1..(Len(elements) + Len(Reduced)) : q > Len(elements) => ~(q <= Len(elements))
    BY <2>5
  <2> QED BY <1>9, <2>1, <2>2, <2>3, <2>4, <2>6
<1>11. \A n \in DOMAIN ruleSize' : n >= newRootPlace => ruleSize'[n] = Unset
  <2> SUFFICES ASSUME NEW n \in DOMAIN ruleSize', n >= newRootPlace PROVE ruleSize'[n] = Unset
    OBVIOUS
  <2>1. CASE n <= Len(elements)
    <3>1. n \in DOMAIN ruleSize /\ n \in 1..Len(elements)
      BY <1>6, <1>8, <1>10, <2>1
    <3> QED BY <1>10, <3>1 DEF WInv, Unfinished
  <2>2. CASE n > Len(elements)
    BY <1>10, <2>2
  <2> QED BY <1>6, <1>10, <2>1, <2>2
<1>12. ASSUME Len(Reduced) > 0 PROVE elements'[newRootPlace].type = "ROOT" /\ newRootPlace \in DOMAIN elements'
  <2>1. Len(all) > 0 /\ all[1].type = "ROOT"
    <3>1. CASE at = "path"
      <4>1. IsRule(all)
        BY <1>1, <1>3, <3>1 DEF Shape, Reduced, Steady
      <4>2. 1 \in DOMAIN all /\ Len(all) > 0
        BY <1>6, <1>12
      <4>3. all[1].type = "ROOT"
        BY <4>1, <4>2 DEF IsRule
      <4> QED BY <4>2, <4>3
    <3>2. CASE at = "dotdot"
      <4>1. IsRule(new) /\ 1 \in DOMAIN new
        BY <1>1, <3>2 DEF Shape, Steady, IsRule
      <4>2. new[1].type = "ROOT" /\ Len(new) >= 1
        BY <1>1, <4>1 DEF IsRule
      <4>3. all[1] = new[1]
        BY <1>2, <1>3, <1>6, <4>2, ConcatProperties
      <4> QED BY <1>6, <4>2, <4>3
    <3>3. CASE at \notin {"path", "dotdot"}
      <4>1. due = <<>> /\ Reduced = <<>>
        <5>1. at \in {"dollar", "dot", "bracket"}
          BY <3>3 DEF IInv, TypeInv, Places
        <5> QED BY <1>1, <5>1 DEF Shape, Reduced
      <4> QED BY <1>12, <4>1
    <3> QED BY <3>1, <3>2, <3>3
  <2>2. elements'[Len(old) + 1] = all[1]
    <3>1. Len(old) + 1 \in 1..(Len(old) + Len(all)) /\ ~(Len(old) + 1 <= Len(old)) /\ (Len(old) + 1) - Len(old) = 1
      BY <1>6, <2>1
    <3> QED BY <1>4, <1>5, <3>1, ConcatProperties
  <2> QED BY <1>1, <1>6, <2>1, <2>2
<1>13. Tiled'
  <2> SUFFICES ASSUME NEW n \in DOMAIN elements', FreeTo(n)' PROVE Sized(n)' \/ Unsized(n)'
    BY DEF Tiled
  <2>1. CASE n <= Len(elements)
    <3>1. n \in 1..Len(elements) /\ Len(elements) \in 0..Len(elements) /\ Len(elements) \in Nat
      BY <1>6, <2>1
    <3> QED BY <1>7, <1>10, <3>1, OldTiled DEF WInv
  <2>2. CASE n > Len(elements)
    <3>1. Len(Reduced) > 0 /\ n \in DOMAIN ruleSize'
      BY <1>6, <1>10, <2>2
    <3>2. newRootPlace \in 1..n
      BY <1>1, <1>6, <2>2
    <3>3. newRootPlace \in DOMAIN ruleSize'
      BY <1>6, <1>10, <1>12, <3>1
    <3>4. ruleSize'[newRootPlace] = Unset
      BY <1>1, <1>6, <1>11, <3>3
    <3>5. Unsized(n)'
      BY <1>12, <3>1, <3>2, <3>4 DEF Unsized
    <3> QED BY <3>5
  <2> QED BY <1>6, <2>1, <2>2
<1>14. Len(elements') <= MaxElements
  BY <1>6 DEF WInv, Room
<1> QED BY <1>11, <1>13, <1>14

(* The actions that leave the table alone. *)
LEMMA TableStays ==
    ASSUME IInv, WInv, UNCHANGED tableVars
    PROVE  /\ Tiled'
           /\ elements' = elements /\ ruleSize' = ruleSize /\ accepted' = accepted
BY DEF WInv, Tiled, FreeTo, Sized, Unsized, tableVars

LEMMA AppendHttpWalk ==
    ASSUME IInv, WInv, NEW t \in HttpTypes, AppendHttp(t)
    PROVE  WInv'
<1> DEFINE e == Step(t, NoKey)
<1>1. /\ at = "idle" /\ at' = at /\ current = 0 /\ current' = 0 /\ Push(<<e>>)
      /\ accepted' = accepted /\ due' = due /\ Fits(<<t>>)
  BY DEF AppendHttp, Idle, parseVars, walkVars
<1>2. e \in Elems /\ e.type = t
  BY DEF Elems, Step, Keys
<1> HIDE DEF e
<1>3. /\ elements \in Seq(Elems) /\ Len(elements) \in Nat /\ due = <<>>
      /\ ruleSize \in Seq(Nat \cup {Unset}) /\ Len(ruleSize) = Len(elements)
  BY <1>1 DEF IInv, TypeInv
<1>4. elements' = Append(elements, e) /\ ruleSize' = Append(ruleSize, Unset)
  <2>1. elements \o <<e>> = Append(elements, e)
    BY <1>2, <1>3, ConcatProperties, AppendProperties
  <2>2. [j \in DOMAIN <<e>> |-> Unset] = <<Unset>>
    OBVIOUS
  <2>3. ruleSize \o <<Unset>> = Append(ruleSize, Unset)
    BY <1>3
  <2> QED BY <1>1, <2>1, <2>2, <2>3 DEF Push
<1>5. /\ Len(elements') = Len(elements) + 1 /\ DOMAIN elements' = 1..(Len(elements) + 1)
      /\ elements'[Len(elements) + 1] = e
      /\ \A q \in 1..Len(elements) : elements'[q] = elements[q]
  BY <1>2, <1>3, <1>4
<1>6. \A q \in 1..Len(elements) : ruleSize'[q] = ruleSize[q]
  BY <1>3, <1>4
<1>7. Tiled'
  <2> SUFFICES ASSUME NEW n \in DOMAIN elements', FreeTo(n)' PROVE Sized(n)' \/ Unsized(n)'
    BY DEF Tiled
  <2>1. CASE n = Len(elements) + 1
    <3>1. n \in 1..n
      BY <1>3, <2>1
    <3>2. FALSE
      BY <1>2, <1>5, <2>1, <3>1 DEF FreeTo
    <3> QED BY <3>2
  <2>2. CASE n \in 1..Len(elements)
    <3>1. Len(elements) \in 0..Len(elements)
      BY <1>3
    <3> QED BY <1>1, <1>3, <1>5, <1>6, <2>2, <3>1, OldTiled DEF WInv
  <2> QED BY <1>3, <1>5, <2>1, <2>2
<1>8. Room'
  <2>1. Len(elements) + 1 <= MaxElements
    BY DEF Fits, AppendHttp
  <2> QED BY <1>1, <1>3, <1>5, <2>1 DEF Room, Reduced
<1> QED BY <1>1, <1>7, <1>8 DEF WInv, Unfinished, Visiting

(* The parser goes on with a path: what is due is pushed, or nothing is. *)
LEMMA ParsingWalk ==
    ASSUME IInv, WInv, Dollar \/ Dot \/ Bracket
    PROVE  WInv'
<1>1. /\ at # "idle" /\ current = 0 /\ current' = 0 /\ newRootPlace' = newRootPlace
      /\ accepted' = accepted
  BY DEF Dollar, Dot, Bracket, WInv, Unfinished, walkVars, tableVars
<1>2. ASSUME UNCHANGED tableVars, Len(elements) + Len(Reduced') <= MaxElements PROVE WInv'
  <2>1. Unfinished'
    BY <1>1, <1>2, TableStays DEF WInv, Unfinished
  <2> QED BY <1>1, <1>2, <2>1, TableStays DEF WInv, Room, Visiting
<1>3. ASSUME at = "path", Push(due), at' \in {"dot", "bracket"}, due' = <<>> PROVE WInv'
  <2>1. Reduced = due /\ Len(Reduced') = 0
    BY <1>3 DEF Reduced
  <2>2. /\ Tiled' /\ Len(elements') <= MaxElements
        /\ \A n \in DOMAIN ruleSize' : n >= newRootPlace => ruleSize'[n] = Unset
    BY <1>1, <1>3, <2>1, PushTiled
  <2>3. elements' \in Seq(Elems)
    <3>1. due \in Seq(Elems)
      BY RuleElementsAreElems DEF IInv, TypeInv
    <3> QED BY <1>1, <1>3, <3>1, Pushing
  <2>4. Room'
    BY <2>1, <2>2, <2>3 DEF Room
  <2>5. Unfinished'
    BY <1>1, <2>2 DEF Unfinished
  <2> QED BY <1>1, <2>2, <2>4, <2>5 DEF WInv, Visiting
<1>4. CASE Dollar
  <2>1. Len(elements) + Len(due') <= MaxElements /\ Reduced' = due' /\ UNCHANGED tableVars
    BY <1>4 DEF Dollar, Fits, Reduced
  <2> QED BY <1>2, <2>1
<1>5. CASE Dot
  <2>1. CASE at = "path" /\ Push(due) /\ at' = "dot" /\ due' = <<>>
    BY <1>3, <2>1
  <2>2. CASE at = "dot" /\ Fits(<<Recursive>>) /\ at' = "dotdot" /\ UNCHANGED tableVars
    <3>1. Reduced' = <<Recursive>> /\ Len(<<Recursive>>) = 1
      BY <2>2 DEF Reduced, Recursive
    <3>2. Len(elements) + Len(<<Recursive>>) <= MaxElements
      BY <2>2 DEF Fits
    <3> QED BY <1>2, <2>2, <3>1, <3>2
  <2> QED BY <1>5, <2>1, <2>2 DEF Dot
<1>6. CASE Bracket
  <2>1. CASE at = "path" /\ Push(due)
    BY <1>3, <1>6, <2>1 DEF Bracket
  <2>2. CASE at = "dotdot" /\ UNCHANGED <<elements, ruleSize>>
    <3>1. Reduced' = <<>> /\ UNCHANGED tableVars /\ Len(Reduced') = 0
      BY <1>1, <1>6, <2>2 DEF Bracket, Reduced, tableVars
    <3>2. Reduced = <<Recursive>> /\ Len(Reduced) = 1
      BY <2>2 DEF Reduced
    <3>3. Len(elements) + 1 <= MaxElements /\ MaxElements \in Nat /\ Len(elements) \in Nat
      BY <3>2, RuleTableAssumption DEF WInv, Room, IInv, TypeInv
    <3> QED BY <1>2, <3>1, <3>3
  <2> QED BY <1>6, <2>1, <2>2 DEF Bracket
<1> QED BY <1>4, <1>5, <1>6

LEMMA StepWalk ==
    ASSUME IInv, WInv, at \in {"dot", "dotdot", "bracket"}, at' = "path", Fits(due'),
           UNCHANGED <<tableVars, newRootPlace, walkVars>>
    PROVE  WInv'
<1>1. current = 0 /\ current' = 0
  BY DEF WInv, Unfinished, walkVars
<1>2. Unfinished'
  BY <1>1, TableStays DEF WInv, Unfinished
<1>3. Room'
  BY TableStays DEF Fits, Room, Reduced
<1> QED BY <1>1, <1>2, <1>3, TableStays DEF WInv, Visiting

LEMMA AppendJsonPathWalk ==
    ASSUME IInv, WInv, AppendJsonPath
    PROVE  WInv'
<1>1. /\ at = "idle" /\ current = 0 /\ current' = 0 /\ UNCHANGED tableVars
      /\ at' = "dollar" /\ newRootPlace' = Len(elements) + 1 /\ due' = due
  BY DEF AppendJsonPath, Idle, walkVars
<1>2. /\ elements \in Seq(Elems) /\ ruleSize \in Seq(Nat \cup {Unset})
      /\ Len(ruleSize) = Len(elements)
  BY DEF IInv, TypeInv
<1>3. \A n \in DOMAIN ruleSize : ~(n >= Len(elements) + 1)
  BY <1>2
<1>4. Unfinished'
  BY <1>1, <1>3, TableStays DEF Unfinished
<1>5. Room'
  BY <1>1, TableStays DEF WInv, Room, Reduced
<1> QED BY <1>1, <1>4, <1>5, TableStays DEF WInv, Visiting

LEMMA FailWalk ==
    ASSUME IInv, WInv, Fail
    PROVE  WInv'
<1>1. /\ at # "idle" /\ current = 0 /\ current' = 0 /\ accepted' = accepted
      /\ Push(Reduced) /\ at' = "idle" /\ due' = <<>>
  BY DEF Fail, WInv, Unfinished, walkVars
<1>2. Tiled' /\ Len(elements') <= MaxElements
  BY <1>1, PushTiled
<1>3. Room'
  <2>1. Reduced' = <<>> /\ elements' \in Seq(Elems)
    BY <1>1, FailInv DEF Reduced, IInv, TypeInv
  <2> QED BY <1>2, <2>1 DEF Room
<1> QED BY <1>1, <1>2, <1>3 DEF WInv, Unfinished, Visiting

LEMMA EndTiles ==
    ASSUME IInv, WInv, End
    PROVE  WInv'
<1>1. /\ at \in {"path", "dot", "dotdot"} /\ elements' = elements \o Reduced
      /\ ruleSize' = [j \in DOMAIN elements' |->
                         IF j = newRootPlace THEN Len(elements') - newRootPlace + 1
                         ELSE IF j \in DOMAIN ruleSize THEN ruleSize[j] ELSE Unset]
      /\ accepted' = Append(accepted, newRootPlace)
      /\ at' = "idle" /\ due' = <<>> /\ current = 0 /\ current' = 0
  BY DEF End, Accept, WInv, Unfinished, walkVars
<1>2. /\ elements \in Seq(Elems) /\ accepted \in Seq(Nat) /\ newRootPlace \in Nat
      /\ ruleSize \in Seq(Nat \cup {Unset}) /\ Len(ruleSize) = Len(elements)
      /\ DOMAIN ruleSize = 1..Len(elements) /\ Len(elements) \in Nat
  BY DEF IInv, TypeInv
<1>3. newRootPlace >= 1 /\ newRootPlace <= Len(elements) + 1
  <2>1. PICK old \in Seq(Elems), new \in Seq(RuleElements) :
            elements = old \o new /\ newRootPlace = Len(old) + 1
    BY <1>1 DEF IInv, Growing
  <2>2. Len(elements) = Len(old) + Len(new) /\ Len(old) \in Nat /\ Len(new) \in Nat
    BY <2>1, ConcatProperties, RuleElementsAreElems
  <2> QED BY <2>1, <2>2
<1>4. Reduced \in Seq(Elems)
  <2>1. <<Recursive>> \in Seq(RuleElements) /\ due \in Seq(RuleElements)
    BY RecursiveIs DEF IInv, TypeInv
  <2> QED BY <2>1, RuleElementsAreElems DEF Reduced
<1>5. /\ elements' \in Seq(Elems) /\ Len(elements') = Len(elements) + Len(Reduced)
      /\ DOMAIN elements' = 1..Len(elements') /\ Len(Reduced) \in Nat
      /\ \A q \in 1..Len(elements) : elements'[q] = elements[q]
  <2>1. \A q \in 1..(Len(elements) + Len(Reduced)) : (elements \o Reduced)[q] =
            IF q <= Len(elements) THEN elements[q] ELSE Reduced[q - Len(elements)]
    BY <1>2, <1>4, ConcatProperties
  <2>2. Len(Reduced) \in Nat
    BY <1>4
  <2>3. \A q \in 1..Len(elements) : q \in 1..(Len(elements) + Len(Reduced)) /\ q <= Len(elements)
    BY <1>2, <2>2
  <2>4. elements' \in Seq(Elems) /\ Len(elements') = Len(elements) + Len(Reduced)
    BY <1>1, <1>2, <1>4, ConcatProperties
  <2> QED BY <1>1, <2>1, <2>2, <2>3, <2>4
<1>6. /\ DOMAIN accepted' = 1..(Len(accepted) + 1) /\ Len(accepted) \in Nat
      /\ DOMAIN accepted = 1..Len(accepted)
      /\ \A k \in DOMAIN accepted : accepted'[k] = accepted[k]
      /\ accepted'[Len(accepted) + 1] = newRootPlace
  BY <1>1, <1>2
<1>7. Tiled'
  <2> SUFFICES ASSUME NEW n \in DOMAIN elements', FreeTo(n)' PROVE Sized(n)' \/ Unsized(n)'
    BY DEF Tiled
  <2>0. n \in Nat /\ n <= Len(elements')
    BY <1>5
  <2>1. CASE n < newRootPlace
    <3> DEFINE m == newRootPlace - 1
    <3>1. m \in 0..Len(elements) /\ m \in Nat /\ n \in 1..m
      BY <1>2, <1>3, <1>5, <2>1
    <3>2. \A q \in 1..m : q \in 1..Len(elements) /\ q \in 1..Len(elements') /\ q # newRootPlace
      BY <1>2, <1>3, <1>5
    <3>3. \A q \in 1..m : elements'[q] = elements[q] /\ ruleSize'[q] = ruleSize[q]
      BY <1>1, <1>2, <1>5, <3>2
    <3>4. \A k \in DOMAIN accepted : k \in DOMAIN accepted' /\ accepted'[k] = accepted[k]
      BY <1>6
    <3> HIDE DEF m
    <3> QED BY <3>1, <3>3, <3>4, OldTiled DEF WInv
  <2>2. CASE n >= newRootPlace
    <3>1. newRootPlace \in DOMAIN elements'
      BY <1>2, <1>3, <1>5, <2>0, <2>2
    <3>2. ruleSize'[newRootPlace] = Len(elements') - newRootPlace + 1
      BY <1>1, <3>1
    <3>3. n < newRootPlace + ruleSize'[newRootPlace]
      BY <1>2, <1>5, <2>0, <3>2
    <3>4. Len(accepted) + 1 \in DOMAIN accepted'
      BY <1>6
    <3>5. Sized(n)'
      BY <1>6, <2>2, <3>3, <3>4 DEF Sized
    <3> QED BY <3>5
  <2> QED BY <1>2, <2>0, <2>1, <2>2
<1>8. Room'
  <2>1. Reduced' = <<>> /\ Len(Reduced') = 0
    BY <1>1 DEF Reduced
  <2>2. Len(elements') <= MaxElements
    BY <1>5 DEF WInv, Room
  <2> QED BY <1>2, <1>5, <2>1, <2>2 DEF Room
<1> QED BY <1>1, <1>7, <1>8 DEF WInv, Unfinished, Visiting

-----------------------------------------------------------------------------
LEMMA StartWalkWalk ==
    ASSUME IInv, WInv, StartWalk
    PROVE  WInv'
<1>1. /\ at = "idle" /\ current = 0 /\ current' = 1 /\ visited' = <<>>
      /\ UNCHANGED tableVars /\ UNCHANGED parseVars
  BY DEF StartWalk, Idle
<1>2. Len(elements) \in Nat /\ accepted \in Seq(Nat)
  BY DEF IInv, TypeInv
<1>3. /\ visited' \in Seq(Nat) /\ Ascending(visited)' /\ Len(visited') = 0
      /\ Visited' = {}
  BY <1>1 DEF Ascending, Visited
<1>4. \A k \in DOMAIN accepted : ~(accepted[k] < 1)
  <2>1. \A k \in DOMAIN accepted : accepted[k] \in 1..Len(elements)
    BY BlockFacts
  <2> QED BY <1>2, <2>1
<1>5. (AcceptedBelow(current))' = {} /\ WholeBlocks(current)'
  BY <1>1, <1>4, TableStays DEF AcceptedBelow, WholeBlocks
<1>6. SoundTo(current - 1)'
  BY <1>1 DEF SoundTo, FreeTo
<1>7. Visiting'
  <2>1. current' <= Len(elements') + 1
    BY <1>1, <1>2, TableStays
  <2> QED BY <1>1, <1>3, <1>5, <1>6, <2>1 DEF Visiting
<1>8. Unfinished' /\ Room'
  BY <1>1, TableStays DEF WInv, Unfinished, Room, Reduced, parseVars
<1> QED BY <1>1, <1>7, <1>8, TableStays DEF WInv

(* Where no block is cut, an element before the first HTTP callback and    *)
(* the first root of a failed path is the root of an accepted rule.        *)
LEMMA AtAccepted ==
    ASSUME IInv, WInv, current > 0, OnRoots, current \in DOMAIN elements, SoundTo(current)
    PROVE  \E k \in DOMAIN accepted : accepted[k] = current
<1>1. WholeBlocks(current) /\ current \in Nat /\ elements \in Seq(Elems)
  BY DEF WInv, Visiting, IInv, TypeInv
<1>2. FreeTo(current) /\ ~Unsized(current)
  BY DEF SoundTo, Unsized
<1>3. PICK k \in DOMAIN accepted :
          accepted[k] <= current /\ current < accepted[k] + ruleSize[accepted[k]]
  BY <1>2 DEF WInv, Tiled, Sized
<1>4. accepted[k] \in Nat /\ ruleSize[accepted[k]] \in Nat
  BY BlockFacts
<1>5. ~(accepted[k] < current)
  BY <1>1, <1>3, <1>4 DEF WholeBlocks
<1> QED BY <1>1, <1>3, <1>4, <1>5

LEMMA NextRootWalk ==
    ASSUME IInv, WInv, NextRoot
    PROVE  WInv'
<1>1. /\ current > 0 /\ current \in DOMAIN elements /\ elements[current].type = "ROOT"
      /\ UNCHANGED tableVars /\ UNCHANGED parseVars
  BY DEF NextRoot, AtRoot
<1>2. /\ current \in Nat /\ elements \in Seq(Elems) /\ Len(elements) \in Nat /\ MaxElements \in Nat
      /\ accepted \in Seq(Nat) /\ ruleSize \in Seq(Nat \cup {Unset}) /\ current <= Len(elements)
  BY <1>1, RuleTableAssumption DEF WInv, IInv, TypeInv
<1>3. current' \in Nat
  <2>1. CASE ruleSize[current] = Unset
    BY <1>2, <2>1 DEF NextRoot
  <2>2. CASE ruleSize[current] # Unset
    <3>1. ruleSize[current] \in Nat
      BY <1>1, <1>2, <2>2 DEF IInv, TypeInv
    <3> QED BY <1>2, <2>2, <3>1 DEF NextRoot
  <2> QED BY <2>1, <2>2
<1>4. at = "idle" /\ at' = "idle"
  BY <1>1 DEF WInv, Unfinished, parseVars
<1>5. Unfinished' /\ Room'
  BY <1>1, <1>4, TableStays DEF WInv, Unfinished, Room, Reduced, parseVars
<1>6. ASSUME OnRoots' PROVE Visiting'
  <2>0. OnRoots
    <3>1. Visited \subseteq Visited'
      <4>1. visited \in Seq(Nat)
        BY <1>1 DEF WInv, Visiting
      <4>2. \A n \in DOMAIN visited : n \in DOMAIN visited' /\ visited'[n] = visited[n]
        BY <1>2, <4>1 DEF NextRoot
      <4> QED BY <4>2 DEF Visited
    <3> QED BY <1>1, <1>6, <3>1, TableStays DEF OnRoots
  <2>1. /\ visited \in Seq(Nat) /\ Ascending(visited) /\ Len(visited) < current
        /\ Visited = AcceptedBelow(current) /\ WholeBlocks(current)
        /\ SoundTo(current - 1)
    BY <1>1, <2>0 DEF WInv, Visiting
  <2>7. visited' = Append(visited, current)
    <3>1. Len(visited) < MaxElements
      <4>1. Len(elements) + Len(Reduced) <= MaxElements /\ Len(Reduced) \in Nat
        <5>1. Reduced = <<>>
          BY <1>4 DEF Reduced, IInv, TypeInv
        <5> QED BY <5>1 DEF WInv, Room
      <4>2. Len(visited) \in Nat
        BY <2>1
      <4> QED BY <1>2, <2>1, <4>1, <4>2
    <3> QED BY <3>1 DEF NextRoot
  <2>9. /\ visited' \in Seq(Nat) /\ Len(visited') = Len(visited) + 1 /\ Len(visited) \in Nat
        /\ DOMAIN visited' = 1..(Len(visited) + 1) /\ DOMAIN visited = 1..Len(visited)
        /\ visited'[Len(visited) + 1] = current
        /\ \A n \in DOMAIN visited : visited'[n] = visited[n]
    BY <1>2, <2>1, <2>7
  <2>21. ruleSize[current] # Unset
    <3>1. current \in Visited'
      <4>1. Len(visited) + 1 \in DOMAIN visited'
        BY <2>9
      <4> QED BY <2>9, <4>1 DEF Visited
    <3> QED BY <1>1, <1>6, <3>1, TableStays DEF OnRoots
  <2>2. SoundTo(current)
    <3>1. \A q \in 1..current : q \in 1..(current - 1) \/ q = current
      BY <1>2
    <3>2. "ROOT" \notin HttpTypes
      BY RuleTableAssumption DEF RuleTypes
    <3> QED BY <1>1, <2>1, <2>21, <3>1, <3>2 DEF SoundTo, FreeTo
  <2>3. PICK k \in DOMAIN accepted : accepted[k] = current
    BY <1>1, <2>0, <2>2, AtAccepted
  <2> DEFINE l == ruleSize[current]
  <2>4. /\ l \in Nat /\ l >= 1 /\ current + l <= Len(elements) + 1
        /\ \A q \in current..(current + l - 1) :
               elements[q].type \in RuleTypes /\ (elements[q].type = "ROOT" => q = current)
    BY <2>3, BlockFacts
  <2>6. current' = current + l
    BY <2>21 DEF NextRoot
  <2> HIDE DEF l
  <2>8. \A n \in DOMAIN visited : visited[n] < current
    <3>1. \A n \in DOMAIN visited : visited[n] \in AcceptedBelow(current)
      BY <2>1 DEF Visited
    <3> QED BY <3>1 DEF AcceptedBelow
  <2>10. Ascending(visited)'
    <3>1. ASSUME NEW m \in DOMAIN visited', NEW n \in DOMAIN visited', m < n
          PROVE  visited'[m] < visited'[n]
      <4>1. m \in DOMAIN visited /\ visited'[m] = visited[m]
        BY <2>9, <3>1
      <4>2. CASE n = Len(visited) + 1
        BY <2>8, <2>9, <4>1, <4>2
      <4>3. CASE n \in DOMAIN visited
        <5>1. visited'[n] = visited[n]
          BY <2>9, <4>3
        <5> QED BY <2>1, <3>1, <4>1, <4>3, <5>1 DEF Ascending
      <4> QED BY <2>9, <4>2, <4>3
    <3> QED BY <3>1 DEF Ascending
  <2>11. Visited' = Visited \cup {current}
    <3>1. \A n \in DOMAIN visited' : n \in DOMAIN visited \/ n = Len(visited) + 1
      BY <2>9
    <3>2. \A x : x \in Visited' => x \in Visited \cup {current}
      BY <2>9, <3>1 DEF Visited
    <3>3. \A n \in DOMAIN visited : n \in DOMAIN visited'
      BY <2>9
    <3>4. Len(visited) + 1 \in DOMAIN visited'
      BY <2>9
    <3>5. \A x : x \in Visited \cup {current} => x \in Visited'
      BY <2>9, <3>3, <3>4 DEF Visited
    <3> QED BY <3>2, <3>5
  <2>12. \A j \in DOMAIN accepted : accepted[j] < current + l => accepted[j] <= current
    <3>1. SUFFICES ASSUME NEW j \in DOMAIN accepted, accepted[j] < current + l, accepted[j] > current
                   PROVE  FALSE
      BY <1>2, BlockFacts
    <3>2. accepted[j] \in Nat /\ elements[accepted[j]].type = "ROOT"
      BY BlockFacts
    <3>3. accepted[j] \in current..(current + l - 1)
      BY <1>2, <2>4, <3>1, <3>2
    <3> QED BY <1>2, <2>4, <3>1, <3>2, <3>3
  <2>13. AcceptedBelow(current + l) = AcceptedBelow(current) \cup {current}
    <3>1. \A j \in DOMAIN accepted : accepted[j] \in Nat
      BY BlockFacts
    <3>2. \A j \in DOMAIN accepted : accepted[j] < current + l <=> accepted[j] < current \/ accepted[j] = current
      BY <1>2, <2>4, <2>12, <3>1
    <3> QED BY <2>3, <3>2 DEF AcceptedBelow
  <2>14. WholeBlocks(current + l)
    <3> SUFFICES ASSUME NEW j \in DOMAIN accepted, accepted[j] < current + l
                 PROVE  accepted[j] + ruleSize[accepted[j]] <= current + l
      BY DEF WholeBlocks
    <3>1. accepted[j] \in Nat /\ ruleSize[accepted[j]] \in Nat /\ accepted[j] <= current
      BY <2>12, BlockFacts
    <3>2. CASE accepted[j] < current
      <4>1. accepted[j] + ruleSize[accepted[j]] <= current
        BY <2>1, <3>2 DEF WholeBlocks
      <4> QED BY <1>2, <2>4, <3>1, <4>1
    <3>3. CASE accepted[j] = current
      BY <1>2, <2>4, <3>3 DEF l
    <3> QED BY <1>2, <3>1, <3>2, <3>3
  <2>15. SoundTo((current + l) - 1)
    <3>1. SUFFICES ASSUME NEW q \in 1..((current + l) - 1)
                   PROVE  /\ elements[q].type \notin HttpTypes
                          /\ elements[q].type = "ROOT" => ruleSize[q] # Unset
      BY DEF SoundTo, FreeTo
    <3>2. CASE q < current
      <4>1. q \in 1..(current - 1)
        BY <1>2, <2>4, <3>2
      <4> QED BY <2>1, <4>1 DEF SoundTo, FreeTo
    <3>3. CASE q >= current
      <4>1. q \in current..(current + l - 1)
        BY <1>2, <2>4, <3>3
      <4>2. elements[q].type \in RuleTypes /\ (elements[q].type = "ROOT" => q = current)
        BY <2>4, <4>1
      <4> QED BY <2>21, <4>2, RuleTableAssumption
    <3> QED BY <1>2, <2>4, <3>2, <3>3
  <2>16. Len(visited') < current'
    BY <1>2, <2>1, <2>4, <2>6, <2>9
  <2>17. PICK c : c = current + l
    OBVIOUS
  <2>18. /\ current' = c /\ c <= Len(elements) + 1 /\ WholeBlocks(c) /\ SoundTo(c - 1)
         /\ Visited' = AcceptedBelow(c)
    <3>1. WholeBlocks(c) /\ SoundTo(c - 1)
      <4>1. WholeBlocks(c)
        BY <2>14, <2>17
      <4>2. SoundTo(c - 1)
        BY <2>15, <2>17
      <4> QED BY <4>1, <4>2
    <3>2. Visited' = AcceptedBelow(c)
      BY <2>1, <2>11, <2>13, <2>17
    <3>3. current' = c /\ c <= Len(elements) + 1
      BY <2>4, <2>6, <2>17
    <3> QED BY <3>1, <3>2, <3>3
  <2>19. (WholeBlocks(c))' /\ (SoundTo(c - 1))' /\ (AcceptedBelow(c))' = AcceptedBelow(c)
    BY <1>1, <2>18, TableStays DEF WholeBlocks, SoundTo, FreeTo, AcceptedBelow
  <2>20. (WholeBlocks(current))' /\ (SoundTo(current - 1))' /\ (AcceptedBelow(current))' = AcceptedBelow(c)
    BY <2>18, <2>19 DEF WholeBlocks, SoundTo, FreeTo, AcceptedBelow
  <2> QED BY <1>1, <2>9, <2>10, <2>16, <2>18, <2>20, TableStays DEF Visiting
<1>7. Visiting'
  <2>1. visited' \in Seq(Nat)
    <3>1. visited \in Seq(Nat)
      BY <1>1 DEF WInv, Visiting
    <3> QED BY <1>2, <3>1 DEF NextRoot
  <2> QED BY <1>6, <2>1 DEF Visiting
<1> QED BY <1>1, <1>3, <1>5, <1>7, TableStays DEF WInv

LEMMA EndWalkWalk ==
    ASSUME IInv, WInv, EndWalk
    PROVE  WInv'
<1>1. current' = 0 /\ UNCHANGED tableVars /\ UNCHANGED parseVars
  BY DEF EndWalk
<1>2. Unfinished' /\ Room'
  BY <1>1, TableStays DEF WInv, Unfinished, Room, Reduced, parseVars
<1> QED BY <1>1, <1>2, TableStays DEF WInv, Visiting

LEMMA StuttersWalk ==
    ASSUME IInv, WInv, UNCHANGED vars
    PROVE  WInv'
<1>1. UNCHANGED tableVars /\ UNCHANGED parseVars /\ UNCHANGED <<current, visited>>
  BY DEF vars, walkVars
<1>2. Unfinished' /\ Room'
  BY <1>1, TableStays DEF WInv, Unfinished, Room, Reduced, parseVars
<1>3. Visiting'
  BY <1>1, TableStays DEF WInv, Visiting, OnRoots, Ascending, Visited, AcceptedBelow, WholeBlocks,
                                 SoundTo, FreeTo
<1> QED BY <1>1, <1>2, <1>3, TableStays DEF WInv

LEMMA InitWalk == Init => WInv
<1> SUFFICES ASSUME Init PROVE WInv
  OBVIOUS
<1>1. /\ elements = <<>> /\ at = "idle" /\ due = <<>> /\ current = 0
  BY DEF Init
<1>2. Len(elements) = 0 /\ Len(Reduced) = 0 /\ DOMAIN elements = {}
  BY <1>1 DEF Reduced
<1> QED BY <1>1, <1>2, RuleTableAssumption DEF WInv, Tiled, Unfinished, Room, Visiting

(* Until a walk ends or comes to the first root of a failed path, it hands *)
(* the matcher every rule that lies before that root and before the first  *)
(* HTTP callback, once and in order, and nothing else, whatever was        *)
(* registered and whatever of it failed.                                   *)
THEOREM WalksFindRules == Spec => WalkFindsRules
<1>1. ASSUME IInv, WInv, [Next]_vars PROVE WInv'
  <2>1. ASSUME NEW t \in HttpTypes, AppendHttp(t) PROVE WInv'
    BY <1>1, <2>1, AppendHttpWalk
  <2>2. CASE AppendJsonPath
    BY <1>1, <2>2, AppendJsonPathWalk
  <2>3. CASE Dollar \/ Dot \/ Bracket
    BY <1>1, <2>3, ParsingWalk
  <2>4. ASSUME NEW s, StepAfterDot(s) \/ StepInBracket(s) PROVE WInv'
    <3>1. /\ at \in {"dot", "dotdot", "bracket"} /\ at' = "path" /\ Fits(due')
          /\ UNCHANGED <<tableVars, newRootPlace, walkVars>>
      BY <2>4 DEF StepAfterDot, StepInBracket
    <3> QED BY <1>1, <3>1, StepWalk
  <2>5. CASE End
    BY <1>1, <2>5, EndTiles
  <2>6. CASE Fail
    BY <1>1, <2>6, FailWalk
  <2>7. CASE StartWalk
    BY <1>1, <2>7, StartWalkWalk
  <2>8. CASE NextRoot
    BY <1>1, <2>8, NextRootWalk
  <2>9. CASE EndWalk
    BY <1>1, <2>9, EndWalkWalk
  <2>10. CASE UNCHANGED vars
    BY <1>1, <2>10, StuttersWalk
  <2> QED BY <1>1, <2>1, <2>2, <2>3, <2>4, <2>5, <2>6, <2>7, <2>8, <2>9, <2>10 DEF Next, Walk
<1>2. Spec => []WInv
  BY <1>1, InitWalk, InductiveInvariant, PTL DEF Spec
<1>3. IInv /\ WInv /\ [Next]_vars =>
          [LosesTable /\ OnRoots => Ascending(visited) /\ Visited = Reachable]_vars
  <2> SUFFICES ASSUME IInv, WInv, LosesTable, OnRoots
               PROVE  Ascending(visited) /\ Visited = Reachable
    OBVIOUS
  <2>0. current > 0 /\ (~AtRoot \/ (AtRoot /\ ruleSize[current] = Unset))
    BY DEF LosesTable, EndWalk, NextRoot
  <2>1. /\ current \in Nat /\ current <= Len(elements) + 1
        /\ Ascending(visited) /\ Visited = AcceptedBelow(current) /\ SoundTo(current - 1)
        /\ elements \in Seq(Elems) /\ Len(elements) \in Nat
    BY <2>0 DEF WInv, Visiting, IInv, TypeInv
  <2>2. \A k \in DOMAIN accepted : accepted[k] \in 1..Len(elements) /\ elements[accepted[k]].type = "ROOT"
    BY BlockFacts
  <2>3. ASSUME NEW k \in DOMAIN accepted, accepted[k] < current PROVE SoundTo(accepted[k])
    <3>1. 1..accepted[k] \subseteq 1..(current - 1)
      BY <2>1, <2>2, <2>3
    <3> QED BY <2>1, <3>1 DEF SoundTo, FreeTo
  <2>4. ASSUME NEW k \in DOMAIN accepted, SoundTo(accepted[k]), ~(accepted[k] < current) PROVE FALSE
    <3>1. current \in 1..accepted[k] /\ current \in DOMAIN elements /\ 1..current \subseteq 1..accepted[k]
      BY <2>0, <2>1, <2>2, <2>4
    <3>2. SoundTo(current)
      BY <2>4, <3>1 DEF SoundTo, FreeTo
    <3>3. PICK j \in DOMAIN accepted : accepted[j] = current
      BY <2>0, <3>1, <3>2, AtAccepted
    <3>4. AtRoot /\ ruleSize[current] = Unset
      BY <2>0, <2>2, <3>1, <3>3 DEF AtRoot
    <3>5. current \in 1..current
      BY <2>0, <2>1
    <3> QED BY <3>2, <3>4, <3>5 DEF SoundTo, AtRoot
  <2>5. \A k \in DOMAIN accepted : accepted[k] < current <=> SoundTo(accepted[k])
    BY <2>3, <2>4
  <2>6. AcceptedBelow(current) = Reachable
    BY <2>5 DEF AcceptedBelow, Reachable
  <2> QED BY <2>1, <2>6
<1> QED BY <1>2, <1>3, InductiveInvariant, PTL DEF Spec, WalkFindsRules
=============================================================================

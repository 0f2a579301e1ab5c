-------------------------- MODULE HttpParserProofs --------------------------
(***************************************************************************)
(* Proofs about HttpParser, for every set of keys, every table of elements *)
(* and requests of every length.                                           *)
(***************************************************************************)
EXTENDS HttpParser, TLAPS

Events == [type : EventTypes, key : Keys \cup {NoKey}]

TypeInv ==
    /\ place \in Places /\ pos \in Nat /\ blankAt \in Nat
    /\ token \in [kind : Kinds \cup {"none", "end"}, key : Keys \cup {NoKey}]
    /\ key \in Keys \cup {NoKey}
    /\ events \in Seq(Events) /\ told \in Seq(Events) /\ i \in Nat
    /\ table \in Seq(Elements) /\ lastElement \in Nat
    /\ isParsed \in BOOLEAN /\ isParseFailed \in BOOLEAN /\ isSyntaxIncorrect \in BOOLEAN
    /\ reduced \in BOOLEAN /\ recovering \in BOOLEAN /\ pathIsEmpty \in BOOLEAN

Fits == token.kind \in Accepted(place)

(* Where the token at hand leads. *)
Heading == IF reduced /\ Fits THEN Accepts[place][token.kind] ELSE place

(* When a flag is set nothing is left to be told, and only the token that  *)
(* found the path empty is shifted still.                                  *)
StopInv ==
    /\ token # NoToken => reduced /\ result = "none"
    /\ token = NoToken => events = <<>>
    /\ events = <<>> => i = 0
    /\ reduced /\ token = NoToken => Stopped
    /\ recovering => Stopped
    /\ Stopped => events = <<>> /\ (Heading = "protocol" \/ (reduced /\ ~Fits))
    /\ \A n \in 1..Len(events) : events[n].type = "URI" =>
           n = Len(events) /\ (Heading = "protocol" \/ ~Fits)

(* The empty line. *)
BlankInv ==
    /\ blankAt > 0 <=> place = "blank"
    /\ isParsed => place = "blank"
    /\ place = "blank" =>
           /\ ~isParseFailed /\ ~isSyntaxIncorrect
           /\ token # NoToken => isParsed
           /\ IF isParsed THEN pos <= blankAt + 1 ELSE pos = blankAt
    /\ token.kind \in Kinds => pos > 0
    /\ OkIffComplete

(* The events that have been told and those that wait. *)
Waiting == IF i = 0 THEN events ELSE Tail(events)
Story   == told \o Waiting

(* The last event that can have been told when the parser comes to p.      *)
Top(p) == CASE p \in {"start", "method"}            -> 0
            [] p \in {"target", "path", "query"}    -> 1
            [] p \in {"ampersand", "key", "pair"}   -> 2
            [] p \in {"protocol", "version"}        -> 3
            [] OTHER                                -> 5

Late == {"protocol", "version", "lineEnd", "headers", "name", "colon", "field",
         "lastLineEnd", "blank"}

TellsUri(s) == \E n \in DOMAIN s : s[n].type = "URI"

Ordered(s) ==
    \A m, n \in DOMAIN s :
        /\ m < n => /\ Rank[s[m].type] <= Rank[s[n].type]
                    /\ s[m].type = s[n].type => s[m].type \in {"GET", "HEADER"}
        /\ s[n].type \in {"VERSION", "HEADER"} => \E k \in 1..n : s[k].type = "URI"

StoryInv ==
    /\ Ordered(Story)
    /\ \/ reduced /\ ~Fits
       \/ \A n \in DOMAIN Story : Rank[Story[n].type] <= Top(Heading)
    /\ Heading \in Late => isParseFailed \/ TellsUri(Story)

IInv == TypeInv /\ StopInv /\ BlankInv /\ StoryInv

-----------------------------------------------------------------------------
(* The grammar, as the provers need it: one transition at a time. *)
Edges == {<<"start", "word", "method">>, <<"method", "SP", "target">>,
          <<"target", "path", "path">>, <<"target", "emptyPath", "path">>,
          <<"path", "SP", "protocol">>, <<"path", "question", "query">>,
          <<"query", "key", "key">>, <<"query", "ampersand", "ampersand">>,
          <<"query", "SP", "protocol">>, <<"ampersand", "key", "key">>,
          <<"key", "value", "pair">>, <<"pair", "ampersand", "ampersand">>,
          <<"pair", "SP", "protocol">>, <<"protocol", "version", "version">>,
          <<"version", "CR", "lineEnd">>, <<"lineEnd", "LF", "headers">>,
          <<"headers", "word", "name">>, <<"headers", "CR", "lastLineEnd">>,
          <<"name", "colon", "colon">>, <<"colon", "value", "field">>,
          <<"colon", "CR", "lineEnd">>, <<"field", "CR", "lineEnd">>,
          <<"lastLineEnd", "LF", "blank">>}

LEMMA EdgesAreAll ==
    ASSUME NEW p \in Places, NEW k \in Accepted(p)
    PROVE  <<p, k, Accepts[p][k]>> \in Edges
<1>1. p # "blank" /\ p \in DOMAIN Accepts /\ k \in DOMAIN Accepts[p]
  BY DEF Places, Accepted
<1>2. CASE p \in {"start", "method", "target", "path"}
  BY <1>1, <1>2 DEF Accepts, Edges
<1>3. CASE p \in {"query", "ampersand", "key", "pair"}
  BY <1>1, <1>3 DEF Accepts, Edges
<1>4. CASE p \in {"protocol", "version", "lineEnd", "headers"}
  BY <1>1, <1>4 DEF Accepts, Edges
<1>5. CASE p \in {"name", "colon", "field", "lastLineEnd"}
  BY <1>1, <1>5 DEF Accepts, Edges
<1> QED BY <1>1, <1>2, <1>3, <1>4, <1>5 DEF Accepts

LEMMA EdgesAreAccepted ==
    ASSUME NEW e \in Edges
    PROVE  e[2] \in Accepted(e[1]) /\ Accepts[e[1]][e[2]] = e[3]
BY DEF Edges, Accepted, Accepts

LEMMA EdgeFacts ==
    ASSUME NEW p \in Places, NEW k \in Accepted(p)
    PROVE  LET q == Accepts[p][k]
           IN  /\ q \in Places /\ k \in Kinds
               /\ q = "blank" <=> p = "lastLineEnd"
               /\ Top(p) <= Top(q)
               /\ q = "protocol" \/ p # "blank"
<1>1. <<p, k, Accepts[p][k]>> \in Edges
  BY EdgesAreAll
<1>2. \A e \in Edges : /\ e[3] \in Places /\ e[2] \in Kinds
                       /\ e[3] = "blank" <=> e[1] = "lastLineEnd"
                       /\ Top(e[1]) <= Top(e[3])
  BY DEF Edges, Places, Accepts, Kinds, Top
<1>3. p # "blank"
  BY DEF Accepted
<1> QED BY <1>1, <1>2, <1>3

(* What may be told when a token comes to a place goes on with what has    *)
(* been told before: e is the place, r what it tells.                      *)
GoesOn(p, k, r) ==
    /\ r \in Seq(Events)
    /\ \A n \in 1..Len(r) :
        /\ r[n].type = "URI" => n = Len(r) /\ (k \in Accepted(p) => Accepts[p][k] = "protocol")
        /\ r[n].type \in {"VERSION", "HEADER"} => p \in Late
        /\ Rank[r[n].type] >= Top(p)
        /\ Rank[r[n].type] = Top(p) => r[n].type \in {"GET", "HEADER"}
        /\ k \in Accepted(p) => Rank[r[n].type] <= Top(Accepts[p][k])
    /\ \A m, n \in 1..Len(r) : m < n => Rank[r[m].type] < Rank[r[n].type]
    /\ k \in Accepted(p) /\ Accepts[p][k] \in Late /\ p \notin Late => TellsUri(r)
    /\ p \in {"protocol", "blank"} => r = <<>>

LEMMA EventIsEvent ==
    ASSUME NEW t \in EventTypes, NEW k \in Keys \cup {NoKey}
    PROVE  Event(t, k) \in Events /\ Event(t, k).type = t
BY DEF Event, Events

LEMMA ReductionsGoOn ==
    ASSUME NEW p \in Places, NEW k \in Kinds \cup {"end"}, key \in Keys \cup {NoKey}
    PROVE  GoesOn(p, k, Reductions(p, k))
<1> DEFINE r == Reductions(p, k)
           q == Accepts[p][k]
<1>1. k \in Accepted(p) => <<p, k, q>> \in Edges
  BY EdgesAreAll
<1>2. CASE r = <<>> /\ ~(k = "SP" /\ p \in {"path", "query", "pair"})
  <2>1. k \in Accepted(p) => ~(q \in Late /\ p \notin Late)
    BY <1>1, <1>2 DEF Edges, Late
  <2> QED BY <1>2, <2>1 DEF GoesOn
<1>3. ASSUME NEW t \in EventTypes, NEW x \in Keys \cup {NoKey}, r = <<Event(t, x)>>,
             <<p, t>> \in {<<"method", "METHOD">>, <<"path", "URI">>, <<"query", "URI">>,
                           <<"pair", "GET">>, <<"version", "VERSION">>,
                           <<"colon", "HEADER">>, <<"field", "HEADER">>},
             p = "path" => k # "question", p = "query" => k \notin {"key", "ampersand"},
             p = "pair" => k = "ampersand", p = "colon" => k # "value"
      PROVE  GoesOn(p, k, r)
  <2>1. r \in Seq(Events) /\ Len(r) = 1 /\ r[1].type = t
    BY <1>3, EventIsEvent
  <2>2. t = "URI" => (k \in Accepted(p) => q = "protocol")
    BY <1>1, <1>3 DEF Edges
  <2>3. t \in {"VERSION", "HEADER"} => p \in Late
    BY <1>3 DEF Late
  <2>4. Rank[t] >= Top(p) /\ (Rank[t] = Top(p) => t \in {"GET", "HEADER"})
    BY <1>3 DEF Rank, Top
  <2>5. k \in Accepted(p) => Rank[t] <= Top(q)
    BY <1>1, <1>3 DEF Edges, Rank, Top
  <2>6. k \in Accepted(p) /\ q \in Late /\ p \notin Late => TellsUri(r)
    <3>1. k \in Accepted(p) /\ q \in Late /\ p \notin Late => t = "URI"
      BY <1>1, <1>3 DEF Edges, Late
    <3> QED BY <2>1, <3>1 DEF TellsUri
  <2>7. p \notin {"protocol", "blank"}
    BY <1>3
  <2> HIDE DEF r, q
  <2> QED BY <2>1, <2>2, <2>3, <2>4, <2>5, <2>6, <2>7 DEF GoesOn, q, r
<1>4. CASE p = "pair" /\ k # "ampersand" /\ r = <<Event("GET", key), Event("URI", NoKey)>>
  <2>1. r \in Seq(Events) /\ Len(r) = 2 /\ r[1].type = "GET" /\ r[2].type = "URI"
    <3>1. Event("GET", key) \in Events /\ Event("GET", key).type = "GET"
      BY EventIsEvent DEF EventTypes
    <3>2. Event("URI", NoKey) \in Events /\ Event("URI", NoKey).type = "URI"
      BY EventIsEvent DEF EventTypes
    <3> HIDE DEF r
    <3> QED BY <1>4, <3>1, <3>2
  <2>2. k \in Accepted(p) => q = "protocol"
    BY <1>1, <1>4 DEF Edges
  <2>3. Rank["GET"] = 2 /\ Rank["URI"] = 3 /\ Top("pair") = 2 /\ Top("protocol") = 3
    BY DEF Rank, Top
  <2>4. TellsUri(r)
    BY <2>1 DEF TellsUri
  <2>5. \A n \in 1..Len(r) : /\ r[n].type = "URI" => n = Len(r)
                             /\ r[n].type \in {"GET", "URI"}
                             /\ r[n].type = "GET" \/ Rank[r[n].type] = 3
                             /\ Rank[r[n].type] \in {2, 3}
    BY <2>1, <2>3
  <2>6. \A m, n \in 1..Len(r) : m < n => Rank[r[m].type] < Rank[r[n].type]
    BY <2>1, <2>3
  <2>7. p \notin {"protocol", "blank"}
    BY <1>4
  <2> HIDE DEF r, q
  <2> QED BY <1>4, <2>1, <2>2, <2>3, <2>4, <2>5, <2>6, <2>7 DEF GoesOn, q, r
<1>5. CASE r = <<>>
  <2>1. ~(k = "SP" /\ p \in {"path", "query", "pair"})
    BY <1>5 DEF Reductions
  <2> QED BY <1>2, <1>5, <2>1
<1>6. CASE p \in {"method", "path", "query"} /\ r # <<>>
  <2>1. r = <<Event(IF p = "method" THEN "METHOD" ELSE "URI", NoKey)>>
    BY <1>6 DEF Reductions
  <2>4. p \in {"path", "query"} => r = <<Event("URI", NoKey)>>
    BY <1>6 DEF Reductions
  <2>5. p = "method" => r = <<Event("METHOD", NoKey)>>
    BY <1>6 DEF Reductions
  <2>2. p = "path" => k # "question"
    BY <1>6 DEF Reductions
  <2>3. p = "query" => k \notin {"key", "ampersand"}
    BY <1>6 DEF Reductions
  <2> HIDE DEF r
  <2> QED BY <1>3, <1>6, <2>1, <2>2, <2>3 DEF EventTypes, r
<1>7. CASE p \in {"version", "colon", "field"} /\ r # <<>>
  <2>1. r = IF p = "version" THEN <<Event("VERSION", NoKey)>> ELSE <<Event("HEADER", key)>>
    BY <1>7 DEF Reductions
  <2>2. p = "colon" => k # "value"
    BY <1>7 DEF Reductions
  <2> HIDE DEF r
  <2> QED BY <1>3, <1>7, <2>1, <2>2 DEF EventTypes, r
<1>8. CASE p = "pair"
  <2>1. r = IF k = "ampersand" THEN <<Event("GET", key)>>
            ELSE <<Event("GET", key), Event("URI", NoKey)>>
    BY <1>8 DEF Reductions
  <2> HIDE DEF r
  <2> QED BY <1>3, <1>4, <1>8, <2>1 DEF EventTypes, r
<1>9. r = <<>> \/ p \in {"method", "path", "query", "version", "colon", "field", "pair"}
  BY DEF Reductions
<1> QED BY <1>5, <1>6, <1>7, <1>8, <1>9

-----------------------------------------------------------------------------
(* Going on keeps the order, *)
LEMMA ExtendOrdered ==
    ASSUME NEW p \in Places, NEW k \in Kinds \cup {"end"},
           NEW s \in Seq(Events), NEW r, GoesOn(p, k, r),
           Ordered(s), p \in Late => TellsUri(s),
           \A n \in DOMAIN s : Rank[s[n].type] <= Top(p)
    PROVE  /\ Ordered(s \o r)
           /\ k \in Accepted(p) =>
                  /\ \A n \in DOMAIN (s \o r) : Rank[(s \o r)[n].type] <= Top(Accepts[p][k])
                  /\ Accepts[p][k] \in Late => TellsUri(s \o r)
<1> DEFINE t == s \o r
<1>1. r \in Seq(Events)
  BY DEF GoesOn
<1>2. /\ t \in Seq(Events) /\ Len(t) = Len(s) + Len(r) /\ DOMAIN t = 1..Len(t)
      /\ DOMAIN s = 1..Len(s) /\ DOMAIN r = 1..Len(r)
      /\ Len(s) \in Nat /\ Len(r) \in Nat
  BY <1>1
<1>3. /\ \A n \in 1..Len(s) : t[n] = s[n]
      /\ \A n \in 1..Len(t) : n > Len(s) => n - Len(s) \in 1..Len(r) /\ t[n] = r[n - Len(s)]
  BY <1>1
<1>4. \A e \in Events : Rank[e.type] \in 1..5 /\ (\A f \in Events : Rank[e.type] = Rank[f.type] => e.type = f.type)
  BY DEF Events, EventTypes, Rank
<1>5. Top(p) \in 0..5
  BY DEF Top
<1> HIDE DEF t
<1>6. \A n \in 1..Len(t) : t[n] \in Events
  BY <1>2
<1>7. \A n \in 1..Len(t) : \/ n <= Len(s) /\ Rank[t[n].type] <= Top(p)
                           \/ n > Len(s) /\ Rank[t[n].type] >= Top(p)
  <2> TAKE n \in 1..Len(t)
  <2>1. CASE n <= Len(s)
    <3>1. n \in DOMAIN s /\ t[n] = s[n]
      BY <1>2, <1>3, <2>1
    <3> QED BY <2>1, <3>1
  <2>2. CASE n > Len(s)
    <3>1. n - Len(s) \in 1..Len(r) /\ t[n] = r[n - Len(s)]
      BY <1>3, <2>2
    <3>2. \A m \in 1..Len(r) : Rank[r[m].type] >= Top(p)
      BY DEF GoesOn
    <3> QED BY <2>2, <3>1, <3>2
  <2>3. n \in Nat
    BY <1>2
  <2> QED BY <1>2, <2>1, <2>2, <2>3
<1>8. TellsUri(s) => TellsUri(t)
  BY <1>2, <1>3 DEF TellsUri
<1>9. ASSUME NEW m \in DOMAIN t, NEW n \in DOMAIN t, m < n
      PROVE  /\ Rank[t[m].type] <= Rank[t[n].type]
             /\ t[m].type = t[n].type => t[m].type \in {"GET", "HEADER"}
  <2>1. CASE n <= Len(s)
    <3>1. m \in DOMAIN s /\ n \in DOMAIN s /\ t[m] = s[m] /\ t[n] = s[n]
      BY <1>2, <1>3, <1>9, <2>1
    <3> QED BY <1>9, <3>1 DEF Ordered
  <2>2. CASE m <= Len(s) /\ n > Len(s)
    <3>1. Rank[t[m].type] <= Top(p) /\ Rank[t[n].type] >= Top(p)
      BY <1>2, <1>7, <2>2
    <3>2. Rank[t[n].type] = Top(p) => t[n].type \in {"GET", "HEADER"}
      <4>1. n - Len(s) \in 1..Len(r) /\ t[n] = r[n - Len(s)]
        BY <1>2, <1>3, <2>2
      <4> QED BY <4>1 DEF GoesOn
    <3>3. Rank[t[m].type] \in 1..5 /\ Rank[t[n].type] \in 1..5
      BY <1>2, <1>4, <1>6
    <3>4. t[m].type = t[n].type => Rank[t[n].type] = Top(p)
      BY <1>5, <3>1, <3>3
    <3> QED BY <1>5, <3>1, <3>2, <3>3, <3>4
  <2>3. CASE m > Len(s)
    <3>1. /\ m - Len(s) \in 1..Len(r) /\ n - Len(s) \in 1..Len(r) /\ m - Len(s) < n - Len(s)
          /\ t[m] = r[m - Len(s)] /\ t[n] = r[n - Len(s)]
      BY <1>2, <1>3, <1>9, <2>3
    <3>2. Rank[t[m].type] < Rank[t[n].type]
      BY <3>1 DEF GoesOn
    <3>3. Rank[t[m].type] \in 1..5 /\ Rank[t[n].type] \in 1..5
      BY <1>2, <1>4, <1>6
    <3>4. t[m].type # t[n].type
      BY <3>2, <3>3
    <3> QED BY <3>2, <3>3, <3>4
  <2> QED BY <1>2, <1>9, <2>1, <2>2, <2>3
<1>10. ASSUME NEW n \in DOMAIN t, t[n].type \in {"VERSION", "HEADER"}
       PROVE  \E j \in 1..n : t[j].type = "URI"
  <2>1. CASE n <= Len(s)
    <3>1. n \in DOMAIN s /\ t[n] = s[n]
      BY <1>2, <1>3, <2>1
    <3>2. PICK j \in 1..n : s[j].type = "URI"
      BY <1>10, <3>1 DEF Ordered
    <3>3. t[j] = s[j]
      BY <1>2, <1>3, <3>1, <3>2
    <3> QED BY <3>2, <3>3
  <2>2. CASE n > Len(s)
    <3>1. p \in Late
      BY <1>2, <1>3, <1>10, <2>2 DEF GoesOn
    <3>2. PICK j \in DOMAIN s : s[j].type = "URI"
      BY <3>1 DEF TellsUri
    <3>3. j \in 1..n /\ t[j] = s[j]
      BY <1>2, <1>3, <2>2, <3>2
    <3> QED BY <3>2, <3>3
  <2> QED BY <1>2, <2>1, <2>2
<1>11. ASSUME k \in Accepted(p)
       PROVE  /\ \A n \in DOMAIN t : Rank[t[n].type] <= Top(Accepts[p][k])
              /\ Accepts[p][k] \in Late => TellsUri(t)
  <2>1. Top(p) <= Top(Accepts[p][k]) /\ Top(Accepts[p][k]) \in 0..5
    BY <1>11, EdgeFacts DEF Top
  <2>2. ASSUME NEW n \in DOMAIN t PROVE Rank[t[n].type] <= Top(Accepts[p][k])
    <3>1. Rank[t[n].type] \in 1..5
      BY <1>2, <1>4, <1>6
    <3>2. CASE n <= Len(s)
      <4>1. Rank[t[n].type] <= Top(p)
        BY <1>2, <1>7, <3>2
      <4> QED BY <1>5, <2>1, <3>1, <4>1
    <3>3. CASE n > Len(s)
      BY <1>2, <1>3, <1>11, <3>3 DEF GoesOn
    <3> QED BY <1>2, <3>2, <3>3
  <2>3. ASSUME Accepts[p][k] \in Late, p \notin Late PROVE TellsUri(t)
    <3>1. TellsUri(r)
      BY <1>11, <2>3 DEF GoesOn
    <3>2. PICK j \in 1..Len(r) : r[j].type = "URI"
      BY <1>2, <3>1 DEF TellsUri
    <3>3. Len(s) + j \in 1..Len(t) /\ Len(s) + j > Len(s) /\ (Len(s) + j) - Len(s) = j
      BY <1>2, <3>2
    <3>4. t[Len(s) + j] = r[j]
      BY <1>3, <3>3
    <3> QED BY <1>2, <3>2, <3>3, <3>4 DEF TellsUri
  <2> QED BY <1>8, <2>2, <2>3
<1> QED BY <1>9, <1>10, <1>11 DEF Ordered, t

(* and so does stopping short. *)
LEMMA PrefixOrdered ==
    ASSUME NEW s \in Seq(Events), NEW r \in Seq(Events), Ordered(s \o r)
    PROVE  Ordered(s)
<1> DEFINE t == s \o r
<1>1. DOMAIN s \subseteq DOMAIN t /\ \A n \in DOMAIN s : s[n] = t[n] /\ 1..n \subseteq DOMAIN s
  OBVIOUS
<1>2. Ordered(t)
  OBVIOUS
<1> HIDE DEF t
<1> QED BY SMTT(30), <1>1, <1>2 DEF Ordered

-----------------------------------------------------------------------------
LEMMA InitEstablishes == ASSUME Init PROVE IInv
<1>1. TypeInv
  <2>1. <<>> \in Seq(Events) /\ "start" \in Places /\ NoToken \in [kind : Kinds \cup {"none", "end"}, key : Keys \cup {NoKey}]
    BY DEF Places, Accepts, NoToken
  <2> QED BY <2>1, HttpParserAssumption DEF Init, TypeInv
<1>2. StopInv
  BY DEF Init, StopInv, Stopped
<1>3. BlankInv
  BY DEF Init, BlankInv, OkIffComplete, NoToken, Kinds
<1>4. Story = <<>> /\ Heading = "start"
  BY DEF Init, Story, Waiting, Heading
<1>5. StoryInv
  BY <1>4 DEF StoryInv, Ordered, Late
<1> QED BY <1>1, <1>2, <1>3, <1>5 DEF IInv

(* A token comes; the flags hold it off, or nothing has been reduced yet.  *)
LEMMA LookPreserves ==
    ASSUME IInv, Between, NEW t \in Tokens \cup {EndOfInput}, Look(t),
           \/ ~Stopped /\ t \in Tokens /\ t.kind \in Accepted(place) \cup {"other"} /\ pos' = pos + 1
           \/ Stopped /\ t = EndOfInput /\ pos' = pos
    PROVE  IInv'
<1> USE DEF IInv
<1>1. /\ token = NoToken /\ result = "none" /\ events = <<>> /\ i = 0 /\ token' = t /\ reduced' = TRUE
      /\ UNCHANGED <<place, key, recovering, blankAt, i, told, isParseFailed, isSyntaxIncorrect, result>>
      /\ isParsed' = (isParsed \/ place = "blank")
      /\ events' = IF reduced THEN <<>> ELSE Reductions(place, t.kind)
  BY DEF Between, Look, StopInv
<1>2. /\ t.kind \in Kinds \cup {"end"} /\ t # NoToken
      /\ t \in [kind : Kinds \cup {"none", "end"}, key : Keys \cup {NoKey}]
      /\ t \in Tokens => t.kind \in Kinds
  BY DEF Tokens, EndOfInput, NoToken, NamedKinds, Kinds
<1>3. GoesOn(place, t.kind, Reductions(place, t.kind))
  BY <1>2, ReductionsGoOn DEF TypeInv
<1>4. "end" \notin Accepted(place) /\ "other" \notin Accepted(place) /\ Accepted("blank") = {}
  <2>1. \A e \in Edges : e[2] # "end" /\ e[2] # "other"
    BY DEF Edges
  <2> QED BY <2>1, EdgesAreAll DEF TypeInv, Accepted
<1>s. /\ Stopped => t.kind = "end" /\ pos' = pos
      /\ ~Stopped => t.kind \in Kinds /\ pos' = pos + 1
  BY <1>2 DEF EndOfInput
<1>5. Stopped => events' = <<>>
  <2>1. Stopped /\ ~reduced => Reductions(place, t.kind) = <<>>
    BY <1>3 DEF StopInv, Heading, GoesOn
  <2> QED BY <1>1, <2>1
<1>6. ~Stopped => ~reduced /\ Heading = place
  BY <1>1 DEF StopInv, Heading
<1>7. TypeInv'
  BY <1>1, <1>2, <1>3 DEF TypeInv, GoesOn, Look
<1>8. Fits' = (t.kind \in Accepted(place))
  BY <1>1 DEF Fits
<1>9. StopInv'
  <2>1. Stopped' => events' = <<>>
    BY <1>1, <1>3, <1>5 DEF Stopped, GoesOn
  <2>2. Stopped' => ~Fits'
    <3>1. Stopped' => Stopped \/ place = "blank"
      BY <1>1 DEF Stopped
    <3> QED BY <1>4, <1>8, <1>s, <3>1
  <2>3. ASSUME NEW n \in 1..Len(events'), events'[n].type = "URI"
        PROVE  n = Len(events') /\ (Heading' = "protocol" \/ ~Fits')
    <3>1. events' = Reductions(place, t.kind)
      BY <1>1, <2>3
    <3>2. n = Len(events') /\ (t.kind \in Accepted(place) => Accepts[place][t.kind] = "protocol")
      BY <1>3, <2>3, <3>1 DEF GoesOn
    <3> QED BY <1>1, <1>8, <3>2 DEF Heading
  <2> QED BY <1>1, <1>2, <2>1, <2>2, <2>3 DEF StopInv, Stopped
<1>10. BlankInv'
  <2>1. t.kind \in Kinds => pos' > 0
    BY <1>s DEF TypeInv, Kinds
  <2>2. ASSUME place = "blank"
        PROVE  /\ ~isParseFailed /\ ~isSyntaxIncorrect /\ isParsed' = TRUE
               /\ pos' <= blankAt + 1
    <3>1. ~isParseFailed /\ ~isSyntaxIncorrect /\ (IF isParsed THEN pos <= blankAt + 1 ELSE pos = blankAt)
      BY <2>2 DEF BlankInv
    <3>2. isParsed <=> Stopped
      BY <3>1 DEF Stopped
    <3>3. pos \in Nat /\ blankAt \in Nat /\ isParsed \in BOOLEAN
      BY DEF TypeInv
    <3>4. isParsed => pos' <= blankAt + 1
      BY <1>s, <3>1, <3>2
    <3>5. ~isParsed => pos' <= blankAt + 1
      BY <1>s, <3>1, <3>2, <3>3
    <3>6. isParsed' = TRUE
      BY <1>1, <2>2
    <3> QED BY <3>1, <3>3, <3>4, <3>5, <3>6
  <2>3. OkIffComplete'
    BY <1>1 DEF OkIffComplete
  <2>4. isParsed' => place = "blank"
    BY <1>1 DEF BlankInv
  <2> QED BY <1>1, <2>1, <2>2, <2>3, <2>4 DEF BlankInv
<1>11. StoryInv'
  <2>1. Story = told /\ Story' = told \o events'
    BY <1>1 DEF Story, Waiting, TypeInv
  <2>2. CASE Stopped
    <3>1. Story' = Story
      BY <1>5, <2>1, <2>2 DEF TypeInv
    <3>2. reduced' /\ ~Fits' /\ Heading' = place
      BY <1>1, <1>4, <1>8, <1>s, <2>2 DEF Heading
    <3>3. place \in Late => isParseFailed \/ TellsUri(Story)
      BY <2>2 DEF StoryInv, StopInv, Heading, Late
    <3> QED BY <1>1, <3>1, <3>2, <3>3 DEF StoryInv
  <2>3. CASE ~Stopped
    <3>1. events' = Reductions(place, t.kind)
      BY <1>1, <1>6, <2>3
    <3>2. /\ Ordered(told) /\ (place \in Late => TellsUri(told))
          /\ \A n \in DOMAIN told : Rank[told[n].type] <= Top(place)
      BY <1>6, <2>1, <2>3 DEF StoryInv, Stopped
    <3>3. /\ Ordered(told \o events')
          /\ t.kind \in Accepted(place) =>
                /\ \A n \in DOMAIN (told \o events') : Rank[(told \o events')[n].type] <= Top(Accepts[place][t.kind])
                /\ Accepts[place][t.kind] \in Late => TellsUri(told \o events')
      BY <1>2, <1>3, <3>1, <3>2, ExtendOrdered DEF TypeInv
    <3>4. /\ Fits' => Heading' = Accepts[place][t.kind]
          /\ ~Fits' => Heading' = place
      BY <1>1, <1>8 DEF Heading
    <3>5. place \in Late => TellsUri(told \o events')
      <4>1. SUFFICES ASSUME place \in Late PROVE TellsUri(told \o events')
        OBVIOUS
      <4>2. PICK n \in DOMAIN told : told[n].type = "URI"
        BY <3>2, <4>1 DEF TellsUri
      <4>3. n \in DOMAIN (told \o events') /\ (told \o events')[n] = told[n]
        BY <1>7, <1>1, <4>2 DEF TypeInv
      <4> QED BY <4>2, <4>3 DEF TellsUri
    <3> QED BY <1>1, <1>8, <2>1, <3>3, <3>4, <3>5 DEF StoryInv
  <2> QED BY <2>2, <2>3
<1> QED BY <1>7, <1>9, <1>10, <1>11

(* The handlers of an event are called: nothing is told but this event.    *)
LEMMA CallsPreserve ==
    ASSUME IInv, StartEvent \/ Handle \/ Skip \/ EndEvent
    PROVE  IInv'
<1> USE DEF IInv
<1>1. /\ events # <<>> /\ token # NoToken
      /\ UNCHANGED <<place, token, pos, key, pathIsEmpty, reduced, recovering, blankAt>>
      /\ UNCHANGED <<isParsed, isParseFailed, isSyntaxIncorrect, result>>
  BY DEF StartEvent, Handle, Skip, EndEvent, Reducing, lrVars, flags
<1>2. events[1] \in Events /\ Tail(events) \in Seq(Events) /\ Len(events) > 0
  BY <1>1 DEF TypeInv
<1>3. /\ told' \in Seq(Events) /\ events' \in Seq(Events) /\ i' \in Nat
      /\ events' = events \/ events' = Tail(events)
      /\ events' = <<>> => i' = 0
  <2>1. CASE StartEvent
    BY <1>1, <1>2, <2>1 DEF StartEvent, TypeInv
  <2>2. CASE Handle \/ Skip
    BY <1>1, <2>2 DEF Handle, Skip, TypeInv
  <2>3. CASE EndEvent
    BY <1>2, <2>3 DEF EndEvent, TypeInv
  <2> QED BY <2>1, <2>2, <2>3
<1>4. Story' = Story
  <2>1. CASE StartEvent
    <3>1. Story = told \o events /\ told' = Append(told, events[1]) /\ Story' = told' \o Tail(events)
      BY <2>1 DEF StartEvent, Story, Waiting
    <3>2. Append(told, events[1]) \o Tail(events) = told \o events
      BY <1>2 DEF TypeInv
    <3> QED BY <3>1, <3>2
  <2>2. CASE Handle \/ Skip
    <3>1. i # 0 /\ i' # 0 /\ UNCHANGED <<events, told>>
      BY <2>2 DEF Handle, Skip, TypeInv
    <3> QED BY <3>1 DEF Story, Waiting
  <2>3. CASE EndEvent
    <3>1. i # 0
      BY <2>3 DEF EndEvent, Last, TypeInv
    <3> QED BY <2>3, <3>1 DEF EndEvent, Story, Waiting
  <2> QED BY <2>1, <2>2, <2>3
<1>5. Heading' = Heading /\ Fits' = Fits /\ Stopped' = Stopped
  BY <1>1 DEF Heading, Fits, Stopped
<1>6. TypeInv'
  <2>1. Len(table) \in Nat /\ Append(table, events[1]) \in Seq(Elements)
    BY <1>2 DEF TypeInv, Events, Elements
  <2>2. table' \in Seq(Elements) /\ lastElement' \in Nat
    BY <2>1 DEF StartEvent, Handle, Skip, EndEvent, lrVars, TypeInv
  <2> QED BY <1>1, <1>3, <2>2 DEF TypeInv
<1>7. StopInv'
  <2>1. ~Stopped
    BY <1>1 DEF StopInv
  <2>2. ASSUME NEW n \in 1..Len(events'), events'[n].type = "URI"
        PROVE  n = Len(events') /\ (Heading = "protocol" \/ ~Fits)
    <3>1. CASE events' = events
      BY <2>2, <3>1 DEF StopInv
    <3>2. CASE events' = Tail(events)
      <4>1. n + 1 \in 1..Len(events) /\ events[n + 1] = events'[n] /\ Len(events') = Len(events) - 1
        BY <2>2, <3>2, <1>2 DEF TypeInv
      <4> QED BY <2>2, <4>1 DEF StopInv, TypeInv
    <3> QED BY <1>3, <3>1, <3>2
  <2> QED BY <1>1, <1>3, <1>5, <2>1, <2>2 DEF StopInv
<1>8. BlankInv'
  BY <1>1 DEF BlankInv, OkIffComplete
<1>9. StoryInv'
  BY <1>1, <1>4, <1>5 DEF StoryInv
<1> QED BY <1>6, <1>7, <1>8, <1>9

(* The empty path is the last event of its token. *)
LEMMA RefusalPreserves ==
    ASSUME IInv, RefusePath
    PROVE  IInv'
<1> USE DEF IInv
<1>1. /\ events # <<>> /\ token # NoToken /\ i = 0 /\ i' = 0 /\ told' = told
      /\ events[1].type = "URI" /\ isParseFailed' = TRUE /\ events' = Tail(events)
      /\ UNCHANGED <<place, token, pos, key, pathIsEmpty, reduced, recovering, blankAt>>
      /\ UNCHANGED <<isParsed, isSyntaxIncorrect, result, table, lastElement>>
  BY DEF RefusePath, Reducing, lrVars
<1>2. Len(events) = 1 /\ (Heading = "protocol" \/ ~Fits) /\ reduced
  <2>1. 1 \in 1..Len(events)
    BY <1>1 DEF TypeInv
  <2> QED BY <1>1, <2>1 DEF StopInv
<1>3. events' = <<>>
  BY <1>1, <1>2 DEF TypeInv
<1>4. Heading' = Heading /\ Fits' = Fits
  BY <1>1 DEF Heading, Fits
<1>5. TypeInv'
  BY <1>1, <1>3 DEF TypeInv
<1>6. StopInv'
  <2>1. Heading' = "protocol" \/ (reduced' /\ ~Fits')
    BY <1>1, <1>2, <1>4
  <2>2. Stopped'
    BY <1>1 DEF Stopped
  <2>3. Len(events') = 0
    BY <1>3
  <2>4. reduced' /\ result' = "none"
    BY <1>1, <1>2 DEF StopInv
  <2> QED BY <1>1, <1>3, <2>1, <2>2, <2>3, <2>4 DEF StopInv
<1>7. BlankInv'
  <2>1. place # "blank"
    BY <1>1 DEF StopInv, BlankInv, Stopped
  <2> QED BY <1>1, <2>1 DEF BlankInv, OkIffComplete
<1>8. StoryInv'
  <2>1. Story = told \o events /\ Story' = told
    <3>1. Story = told \o events /\ Story' = told \o <<>>
      BY <1>1, <1>3 DEF Story, Waiting
    <3> QED BY <3>1 DEF TypeInv
  <2>2. Ordered(told)
    BY <2>1, PrefixOrdered DEF StoryInv, TypeInv
  <2>3. \A n \in DOMAIN told : n \in DOMAIN (told \o events) /\ (told \o events)[n] = told[n]
    BY DEF TypeInv
  <2> QED BY <1>1, <1>4, <2>1, <2>2, <2>3 DEF StoryInv
<1> QED BY <1>5, <1>6, <1>7, <1>8

(* The token is taken, dropped, or it was the end. *)
LEMMA ShiftPreserves ==
    ASSUME IInv, Shift
    PROVE  IInv'
<1> USE DEF IInv
<1>1. /\ token # NoToken /\ events = <<>> /\ Fits /\ reduced /\ i = 0
      /\ place' = Accepts[place][token.kind] /\ reduced' = FALSE /\ token' = NoToken
      /\ blankAt' = IF place = "lastLineEnd" THEN pos ELSE blankAt
      /\ UNCHANGED <<table, pos, recovering, events, i, lastElement, told, isParsed>>
      /\ UNCHANGED <<isParseFailed, isSyntaxIncorrect, result>>
  BY DEF Shift, Settled, Fits, StopInv, eventVars, flags
<1>2. /\ place' \in Places /\ token.kind \in Kinds
      /\ place' = "blank" <=> place = "lastLineEnd"
      /\ place # "blank"
  <2>1. place \in Places /\ token.kind \in Accepted(place)
    BY <1>1 DEF Fits, TypeInv
  <2> QED BY <1>1, <2>1, EdgeFacts DEF Accepted
<1>3. Heading = place' /\ Heading' = place' /\ Stopped' = Stopped
  BY <1>1 DEF Heading, Stopped
<1>4. TypeInv'
  <2>1. NoToken \in [kind : Kinds \cup {"none", "end"}, key : Keys \cup {NoKey}]
    BY DEF NoToken
  <2>2. key' \in Keys \cup {NoKey} /\ pathIsEmpty' \in BOOLEAN
    BY DEF Shift, TypeInv
  <2> QED BY <1>1, <1>2, <2>1, <2>2 DEF TypeInv
<1>5. StopInv'
  BY <1>1, <1>3 DEF StopInv
<1>6. BlankInv'
  <2>1. pos > 0 /\ ~isParsed /\ blankAt = 0
    BY <1>2 DEF BlankInv, TypeInv
  <2>2. place' = "blank" => ~Stopped
    BY <1>1, <1>3 DEF StopInv
  <2>3. result = "none"
    BY <1>1 DEF StopInv
  <2>4. place' = "blank" <=> blankAt' > 0
    BY <1>1, <1>2, <2>1
  <2>5. OkIffComplete'
    BY <1>1, <2>3 DEF OkIffComplete
  <2> QED BY <1>1, <1>2, <2>1, <2>2, <2>4, <2>5 DEF BlankInv, Stopped, NoToken, Kinds
<1>7. StoryInv'
  <2>1. Story' = Story
    BY <1>1 DEF Story, Waiting
  <2> QED BY <1>1, <1>3, <2>1 DEF StoryInv
<1> QED BY <1>4, <1>5, <1>6, <1>7

LEMMA RejectPreserves ==
    ASSUME IInv, Reject
    PROVE  IInv'
<1> USE DEF IInv
<1>1. /\ token # NoToken /\ events = <<>> /\ token.kind = "other" /\ reduced /\ i = 0
      /\ token' = NoToken /\ result = "none"
      /\ isSyntaxIncorrect' = (isSyntaxIncorrect \/ (~recovering /\ ~isParsed))
      /\ recovering' = TRUE
      /\ UNCHANGED <<place, pos, key, pathIsEmpty, reduced, blankAt, events, i, told>>
      /\ UNCHANGED <<table, lastElement, isParsed, isParseFailed, result>>
  BY DEF Reject, Settled, StopInv, eventVars
<1>2. "other" \notin Accepted(place) /\ "none" \notin Accepted(place)
  <2>1. \A e \in Edges : e[2] # "other" /\ e[2] # "none"
    BY DEF Edges
  <2> QED BY <2>1, EdgesAreAll DEF TypeInv
<1>3. ~Fits /\ ~Fits' /\ Heading = place /\ Heading' = place
  BY <1>1, <1>2 DEF Fits, Heading, NoToken
<1>4. Stopped'
  BY <1>1 DEF StopInv, Stopped
<1>5. TypeInv'
  <2>1. NoToken \in [kind : Kinds \cup {"none", "end"}, key : Keys \cup {NoKey}]
    BY DEF NoToken
  <2> QED BY <1>1, <2>1 DEF TypeInv
<1>6. StopInv'
  BY <1>1, <1>3, <1>4 DEF StopInv
<1>7. BlankInv'
  <2>1. place = "blank" => isParsed
    BY <1>1 DEF BlankInv
  <2> QED BY <1>1, <2>1 DEF BlankInv, OkIffComplete, NoToken, Kinds
<1>8. StoryInv'
  <2>1. Story' = Story
    BY <1>1 DEF Story, Waiting
  <2> QED BY <1>1, <1>3, <2>1 DEF StoryInv
<1> QED BY <1>5, <1>6, <1>7, <1>8

LEMMA ReturnPreserves ==
    ASSUME IInv, Return
    PROVE  IInv'
<1> USE DEF IInv
<1> DEFINE wrong == place # "blank"
<1>1. /\ token # NoToken /\ events = <<>> /\ token = EndOfInput /\ reduced /\ i = 0
      /\ token' = NoToken
      /\ isParseFailed' = (isParseFailed \/ wrong)
      /\ isSyntaxIncorrect' = (isSyntaxIncorrect \/ (wrong /\ ~recovering /\ ~isParsed))
      /\ result' = Returned(isParseFailed', isSyntaxIncorrect')
      /\ UNCHANGED <<place, pos, key, pathIsEmpty, reduced, blankAt, events, i, told>>
      /\ UNCHANGED <<table, lastElement, isParsed, recovering>>
  BY DEF Return, Settled, StopInv, eventVars
<1>2. "end" \notin Accepted(place) /\ "none" \notin Accepted(place)
  <2>1. \A e \in Edges : e[2] # "end" /\ e[2] # "none"
    BY DEF Edges
  <2> QED BY <2>1, EdgesAreAll DEF TypeInv
<1>3. ~Fits /\ ~Fits' /\ Heading = place /\ Heading' = place
  BY <1>1, <1>2 DEF Fits, Heading, NoToken, EndOfInput
<1>4. Stopped'
  <2>1. place = "blank" => isParsed
    BY <1>1 DEF BlankInv
  <2> QED BY <1>1, <2>1 DEF Stopped
<1>5. TypeInv'
  <2>1. NoToken \in [kind : Kinds \cup {"none", "end"}, key : Keys \cup {NoKey}]
    BY DEF NoToken
  <2> QED BY <1>1, <2>1 DEF TypeInv
<1>6. StopInv'
  BY <1>1, <1>3, <1>4 DEF StopInv
<1>7. BlankInv'
  <2>1. place = "blank" => ~isParseFailed' /\ ~isSyntaxIncorrect'
    BY <1>1 DEF BlankInv
  <2>2. place # "blank" => isParseFailed'
    BY <1>1
  <2>3. OkIffComplete'
    BY <1>1, <2>1, <2>2 DEF OkIffComplete, Returned, BlankInv
  <2> QED BY <1>1, <2>1, <2>3 DEF BlankInv, NoToken, Kinds
<1>8. StoryInv'
  <2>1. Story' = Story
    BY <1>1 DEF Story, Waiting
  <2> QED BY <1>1, <1>3, <2>1 DEF StoryInv
<1> QED BY <1>5, <1>6, <1>7, <1>8

LEMMA StepPreserves == IInv /\ [Next]_vars => IInv'
<1> SUFFICES ASSUME IInv, [Next]_vars PROVE IInv'
  OBVIOUS
<1>1. ASSUME NEW t \in Tokens, ReadToken(t) PROVE IInv'
  BY <1>1, LookPreserves DEF ReadToken
<1>2. CASE ReadEnd
  BY <1>2, LookPreserves DEF ReadEnd
<1>3. CASE StartEvent \/ Handle \/ Skip \/ EndEvent
  BY <1>3, CallsPreserve
<1>4. CASE RefusePath
  BY <1>4, RefusalPreserves
<1>5. CASE Shift \/ Reject \/ Return
  BY <1>5, ShiftPreserves, RejectPreserves, ReturnPreserves
<1>6. CASE UNCHANGED vars
  BY <1>6 DEF vars, lrVars, eventVars, flags, IInv, TypeInv, StopInv, BlankInv, StoryInv,
              Stopped, Heading, Fits, Story, Waiting, OkIffComplete
<1> QED BY <1>1, <1>2, <1>3, <1>4, <1>5, <1>6 DEF Next, Work, Ended

-----------------------------------------------------------------------------
(* The invariant the theorems below rest on. *)
THEOREM InductiveInvariant == Spec => []IInv
<1> QED BY InitEstablishes, StepPreserves, PTL DEF Spec

(* Handlers are told of the method, the parameters, the path, the version  *)
(* and the headers in this order, and of nothing behind a path that was    *)
(* refused, whatever the request.                                          *)
THEOREM ToldInOrder == Spec => []EventsInOrder
<1>1. IInv => EventsInOrder
  <2> SUFFICES ASSUME IInv PROVE EventsInOrder
    OBVIOUS
  <2>1. Waiting \in Seq(Events) /\ told \in Seq(Events)
    <3>1. events = <<>> => i = 0
      BY DEF IInv, StopInv
    <3> QED BY <3>1 DEF IInv, TypeInv, Waiting
  <2>2. Ordered(told)
    BY <2>1, PrefixOrdered DEF IInv, StoryInv, Story
  <2> QED BY <2>2 DEF Ordered, EventsInOrder
<1> QED BY <1>1, InductiveInvariant, PTL

(* parse() returns LE_OK for the messages that are complete, no others.    *)
THEOREM OkMeansComplete == Spec => []OkIffComplete
<1>1. IInv => OkIffComplete
  BY DEF IInv, BlankInv
<1> QED BY <1>1, InductiveInvariant, PTL

(* The loop without a length reads one token past the message, no more.    *)
THEOREM StopsAtMessage == Spec => []ReadsOnePast
<1>1. IInv => ReadsOnePast
  BY DEF IInv, TypeInv, BlankInv, ReadsOnePast
<1> QED BY <1>1, InductiveInvariant, PTL

(* A handler is never called for a message already known to be wrong.      *)
THEOREM SilentAfterwards == Spec => NothingToldAfterwards
<1>1. IInv /\ [Next]_vars => [Stopped => told' = told]_vars
  <2> SUFFICES ASSUME IInv, Next, Stopped PROVE told' = told
    OBVIOUS
  <2>1. ~StartEvent
    BY DEF StartEvent, Reducing, IInv, StopInv
  <2>2. ASSUME NEW t \in Tokens, ReadToken(t) PROVE told' = told
    BY <2>2 DEF ReadToken, Look
  <2>3. CASE ReadEnd \/ RefusePath \/ Handle \/ Skip \/ EndEvent
    BY <2>3 DEF ReadEnd, Look, RefusePath, Handle, Skip, EndEvent
  <2>4. CASE Shift \/ Reject \/ Return
    BY <2>4 DEF Shift, Reject, Return, eventVars
  <2>5. CASE Ended
    BY <2>5 DEF Ended, vars, eventVars
  <2> QED BY <2>1, <2>2, <2>3, <2>4, <2>5 DEF Next, Work
<1> QED BY <1>1, InductiveInvariant, PTL DEF Spec, NothingToldAfterwards

-----------------------------------------------------------------------------
(* While an event calls its handlers the elements it looks at stay what    *)
(* they were when it came: those before the i-th that match are called.    *)
CallsInv ==
    /\ found \in Seq(Elements) /\ called \in Seq(Nat)
    /\ i > 0 =>
           /\ Len(found) = lastElement /\ lastElement <= Len(table) /\ i <= lastElement + 1
           /\ \A n \in 1..lastElement : table[n] = found[n]
           /\ told # <<>> /\ told[Len(told)] = events[1]
           /\ Ascending(called)
           /\ CalledElements = {n \in 1..(i - 1) : found[n] = events[1]}

LEMMA MatchesIsSame ==
    ASSUME NEW e \in Elements, events[1] \in Events
    PROVE  Matches(e) <=> e = events[1]
BY DEF Matches, Elements, Events

LEMMA AppendCall ==
    ASSUME NEW s \in Seq(Nat), NEW k \in Nat, Ascending(s), \A n \in DOMAIN s : s[n] < k
    PROVE  LET t == Append(s, k)
           IN  /\ t \in Seq(Nat) /\ Ascending(t)
               /\ {t[n] : n \in DOMAIN t} = {s[n] : n \in DOMAIN s} \cup {k}
<1> DEFINE t == Append(s, k)
<1>1. /\ t \in Seq(Nat) /\ Len(t) = Len(s) + 1 /\ Len(s) \in Nat
      /\ DOMAIN t = 1..(Len(s) + 1) /\ DOMAIN s = 1..Len(s)
      /\ t[Len(s) + 1] = k /\ \A n \in 1..Len(s) : t[n] = s[n]
  OBVIOUS
<1> HIDE DEF t
<1>2. Ascending(t)
  <2>1. ASSUME NEW m \in DOMAIN t, NEW n \in DOMAIN t, m < n PROVE t[m] < t[n]
    <3>1. m \in DOMAIN s /\ t[m] = s[m]
      BY <1>1, <2>1
    <3>2. CASE n = Len(s) + 1
      BY <1>1, <3>1, <3>2
    <3>3. CASE n \in DOMAIN s
      <4>1. t[n] = s[n]
        BY <1>1, <3>3
      <4> QED BY <2>1, <3>1, <3>3, <4>1 DEF Ascending
    <3> QED BY <1>1, <3>2, <3>3
  <2> QED BY <2>1 DEF Ascending
<1>3. \A n \in DOMAIN t : n \in DOMAIN s \/ n = Len(s) + 1
  BY <1>1
<1>4. {t[n] : n \in DOMAIN t} = {s[n] : n \in DOMAIN s} \cup {k}
  <2>1. \A x : x \in {t[n] : n \in DOMAIN t} => x \in {s[n] : n \in DOMAIN s} \cup {k}
    BY <1>1, <1>3
  <2>2. \A n \in DOMAIN s : n \in DOMAIN t /\ t[n] = s[n]
    BY <1>1
  <2>3. Len(s) + 1 \in DOMAIN t
    BY <1>1
  <2> QED BY <1>1, <2>1, <2>2, <2>3
<1> QED BY <1>1, <1>2, <1>4 DEF t

LEMMA CallsStart ==
    ASSUME IInv, CallsInv, StartEvent
    PROVE  CallsInv'
<1>1. /\ i' = 1 /\ lastElement' = Len(table) /\ table' = table /\ found' = table
      /\ told' = Append(told, events[1]) /\ called' = <<>> /\ events' = events
      /\ table \in Seq(Elements) /\ told \in Seq(Events) /\ events[1] \in Events
  BY DEF StartEvent, Reducing, IInv, TypeInv
<1>2. told' # <<>> /\ told'[Len(told')] = events[1] /\ Len(table) \in Nat
  BY <1>1
<1>3. Ascending(called') /\ CalledElements' = {} /\ called' \in Seq(Nat)
  BY <1>1 DEF Ascending, CalledElements
<1> QED BY <1>1, <1>2, <1>3 DEF CallsInv

LEMMA CallsHandle ==
    ASSUME IInv, CallsInv, Handle
    PROVE  CallsInv'
<1>1. /\ i \in 1..lastElement /\ Matches(table[i]) /\ events # <<>> /\ i \in Nat /\ i > 0
      /\ called' = Append(called, i) /\ i' = i + 1 /\ lastElement \in Nat
      /\ table' = table \/ table' = Append(table, events[1])
      /\ UNCHANGED <<events, lastElement, told, found>>
      /\ table \in Seq(Elements) /\ told \in Seq(Events) /\ events \in Seq(Events)
  BY DEF Handle, Reducing, Last, IInv, TypeInv
<1>2. /\ Len(found) = lastElement /\ lastElement <= Len(table) /\ found \in Seq(Elements)
      /\ \A n \in 1..lastElement : table[n] = found[n]
      /\ told # <<>> /\ told[Len(told)] = events[1]
      /\ Ascending(called) /\ called \in Seq(Nat)
      /\ CalledElements = {n \in 1..(i - 1) : found[n] = events[1]}
  BY <1>1 DEF CallsInv
<1>3. lastElement <= Len(table') /\ \A n \in 1..lastElement : table'[n] = found[n]
  <2>1. CASE table' = table
    BY <1>1, <1>2, <2>1
  <2>2. CASE table' = Append(table, events[1])
    <3>1. Len(table) \in Nat /\ Len(table') = Len(table) + 1
      BY <1>1, <2>2
    <3>3. \A n \in 1..lastElement : n \in 1..Len(table)
      BY <1>1, <1>2, <3>1
    <3>2. \A n \in 1..Len(table) : table'[n] = table[n]
      BY <1>1, <2>2
    <3>4. lastElement \in Nat
      BY <1>1
    <3>5. lastElement <= Len(table')
      BY <1>2, <3>1, <3>4
    <3> QED BY <1>2, <3>2, <3>3, <3>5
  <2> QED BY <1>1, <2>1, <2>2
<1>4. \A n \in DOMAIN called : called[n] < i
  <2>1. \A n \in DOMAIN called : called[n] \in CalledElements
    BY DEF CalledElements
  <2> QED BY <1>1, <1>2, <2>1
<1>5. Ascending(called') /\ called' \in Seq(Nat) /\ CalledElements' = CalledElements \cup {i}
  <2>1. LET t == Append(called, i)
        IN  /\ t \in Seq(Nat) /\ Ascending(t)
            /\ {t[n] : n \in DOMAIN t} = {called[n] : n \in DOMAIN called} \cup {i}
    BY <1>1, <1>2, <1>4, AppendCall
  <2> QED BY <1>1, <2>1 DEF CalledElements
<1>6. found[i] = events[1]
  <2>1. events[1] \in Events /\ found[i] \in Elements /\ table[i] = found[i]
    BY <1>1, <1>2
  <2> QED BY <1>1, <2>1, MatchesIsSame
<1>7. CalledElements' = {n \in 1..(i' - 1) : found[n] = events[1]}
  <2>1. \A n \in 1..(i' - 1) : n \in 1..(i - 1) \/ n = i
    BY <1>1
  <2>2. i \in 1..(i' - 1) /\ 1..(i - 1) \subseteq 1..(i' - 1)
    BY <1>1
  <2> QED BY <1>2, <1>5, <1>6, <2>1, <2>2
<1> QED BY <1>1, <1>2, <1>3, <1>5, <1>7 DEF CallsInv

LEMMA CallsSkip ==
    ASSUME IInv, CallsInv, Skip
    PROVE  CallsInv'
<1>1. /\ i \in 1..lastElement /\ ~Matches(table[i]) /\ events # <<>> /\ i \in Nat /\ i > 0
      /\ i' = i + 1 /\ lastElement \in Nat
      /\ UNCHANGED <<table, events, lastElement, told, called, found>>
      /\ events \in Seq(Events)
  BY DEF Skip, Reducing, Last, IInv, TypeInv
<1>2. /\ Len(found) = lastElement /\ lastElement <= Len(table) /\ found \in Seq(Elements)
      /\ \A n \in 1..lastElement : table[n] = found[n]
      /\ told # <<>> /\ told[Len(told)] = events[1]
      /\ Ascending(called) /\ called \in Seq(Nat)
      /\ CalledElements = {n \in 1..(i - 1) : found[n] = events[1]}
  BY <1>1 DEF CallsInv
<1>3. found[i] # events[1]
  <2>1. events[1] \in Events /\ found[i] \in Elements /\ table[i] = found[i]
    BY <1>1, <1>2
  <2> QED BY <1>1, <2>1, MatchesIsSame
<1>4. CalledElements' = {n \in 1..(i' - 1) : found[n] = events[1]}
  <2>1. \A n \in 1..(i' - 1) : n \in 1..(i - 1) \/ n = i
    BY <1>1
  <2>2. 1..(i - 1) \subseteq 1..(i' - 1)
    BY <1>1
  <2>3. CalledElements' = CalledElements
    BY <1>1 DEF CalledElements
  <2> QED BY <1>2, <1>3, <2>1, <2>2, <2>3
<1>5. Ascending(called') /\ called' \in Seq(Nat)
  BY <1>1, <1>2
<1> QED BY <1>1, <1>2, <1>4, <1>5 DEF CallsInv

LEMMA CallsStepPreserves == IInv /\ CallsInv /\ [Next]_vars => CallsInv'
<1> SUFFICES ASSUME IInv, CallsInv, [Next]_vars PROVE CallsInv'
  OBVIOUS
<1>1. ASSUME i' = 0, UNCHANGED <<found, called>> PROVE CallsInv'
  BY <1>1 DEF CallsInv
<1>2. ASSUME NEW t, Between, Look(t) PROVE CallsInv'
  <2>1. i = 0
    BY <1>2 DEF Between, IInv, StopInv
  <2> QED BY <1>1, <1>2, <2>1 DEF Look
<1>3. CASE StartEvent \/ Handle \/ Skip
  BY <1>3, CallsStart, CallsHandle, CallsSkip
<1>4. CASE RefusePath \/ EndEvent
  BY <1>1, <1>4 DEF RefusePath, EndEvent
<1>5. CASE Shift \/ Reject \/ Return
  <2>1. i = 0
    BY <1>5 DEF Shift, Reject, Return, Settled, IInv, StopInv
  <2> QED BY <1>1, <1>5, <2>1 DEF Shift, Reject, Return, eventVars
<1>6. CASE UNCHANGED vars
  BY <1>6 DEF vars, eventVars, CallsInv, CalledElements
<1> QED BY <1>2, <1>3, <1>4, <1>5, <1>6 DEF Next, Work, Ended, ReadToken, ReadEnd

(* A handler may register another while it serves a request: every event   *)
(* still calls each handler it found once, in the order of registration,   *)
(* and no other, whatever the request and whatever is added meanwhile.     *)
THEOREM CalledAsFound == Spec => CalledOnce
<1>1. Init => CallsInv
  BY DEF Init, CallsInv
<1>2. Spec => []CallsInv
  BY <1>1, CallsStepPreserves, InductiveInvariant, PTL DEF Spec
<1>3. IInv /\ CallsInv /\ [Next]_vars =>
          [EndEvent => Ascending(called) /\ CalledElements = OwedElements]_vars
  <2> SUFFICES ASSUME IInv, CallsInv, EndEvent
               PROVE  Ascending(called) /\ CalledElements = OwedElements
    OBVIOUS
  <2>1. i > lastElement /\ i \in Nat /\ lastElement \in Nat /\ i > 0
    BY DEF EndEvent, Last, IInv, TypeInv
  <2>2. i - 1 = lastElement /\ Len(found) = lastElement /\ found \in Seq(Elements)
    BY <2>1 DEF CallsInv
  <2>3. DOMAIN found = 1..(i - 1)
    BY <2>2
  <2> QED BY <2>1, <2>3 DEF CallsInv, OwedElements
<1> QED BY <1>2, <1>3, InductiveInvariant, PTL DEF Spec, CalledOnce
=============================================================================

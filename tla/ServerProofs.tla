---------------------------- MODULE ServerProofs ----------------------------
(***************************************************************************)
(* Proofs about Server, for every set of clients and descriptors.          *)
(***************************************************************************)
EXTENDS Server, WellFoundedInduction, TLAPS

Steps == {"start", "accept", "read", "handle", "parse", "close", "ended"}

TypeInv ==
    /\ pc \in Steps
    /\ fds \in [Fds -> Owners]
    /\ backlog \in Seq(Clients)
    /\ phase \in [Clients -> {"away", "queued", "accepted", "closed"}]
    /\ wire \in [Clients -> {"open", "shut", "reset"}]
    /\ message \in [Clients -> Messages]
    /\ sent \in [Clients -> 0..Size] /\ read \in [Clients -> Nat]
    /\ buffer \in [1..Size -> Words \cup {"junk"}]
    /\ pos \in 1..Size /\ isGet \in BOOLEAN
    /\ answered \in [Clients -> Nat] /\ whole \subseteq Clients

Serving == pc \in {"read", "handle", "parse"}

(* Whose each descriptor is. *)
FdsInv ==
    /\ pc = "start" => \A f \in Fds : fds[f] = "free"
    /\ Serving => readerfd \in Fds /\ Peer \in Clients
    /\ pc = "close" => readerfd \in Fds /\ Peer \in Clients \cup {"free"}
    /\ \A f \in Fds : fds[f] \in Clients => f = readerfd /\ pc \notin {"start", "accept"}

(* Who waits, waits once and has not been looked at. *)
QueueInv ==
    /\ \A i \in 1..Len(backlog) : phase[backlog[i]] = "queued"
    /\ \A i, j \in 1..Len(backlog) : backlog[i] = backlog[j] => i = j
    /\ \A c \in Clients : phase[c] \in {"away", "queued"} =>
           answered[c] = 0 /\ read[c] = 0 /\ c \notin whole

Due(m) == IF m = <<"GET", "/hello.xhtml", "blank">> THEN 1 ELSE 0

(* What has been parsed of the message of the client that is served. *)
ServeInv ==
    /\ Serving \/ (pc = "close" /\ Peer \in Clients) => phase[Peer] = "accepted"
    /\ pc = "read" => answered[Peer] = 0 /\ read[Peer] = 0 /\ Peer \notin whole
    /\ pc \in {"handle", "parse"} /\ Peer \in whole => buffer = message[Peer]
    /\ pc = "handle" => answered[Peer] = 0
    /\ pc = "parse" =>
           /\ elementsFd = readerfd
           /\ pos = 1 => ~isGet
           /\ pos = 2 => isGet = (buffer[1] = "GET")
           /\ pos \in {1, 2} => answered[Peer] = 0
           /\ pos = 3 => \/ wire[Peer] = "reset"
                         \/ answered[Peer] = IF buffer[1] = "GET" /\ buffer[2] = "/hello.xhtml"
                                             THEN 1 ELSE 0

DueInv ==
    \A c \in whole :
        (phase[c] = "closed" \/ (pc = "close" /\ Peer = c)) =>
            wire[c] = "reset" \/ answered[c] = Due(message[c])

IInv == TypeInv /\ FdsInv /\ QueueInv /\ ServeInv /\ DueInv

-----------------------------------------------------------------------------
(* A set of natural numbers has a least element. *)
LEMMA LeastExists ==
    ASSUME NEW S, S \subseteq Nat, S # {}
    PROVE  \E x \in S : \A y \in S : x <= y
<1>1. PICK Less : IsWellFoundedOn(Less, Nat) /\ \A x, y \in Nat : <<y, x>> \in Less <=> y < x
  <2>1. \A x, y \in Nat : <<y, x>> \in OpToRel(<, Nat) <=> y < x
    BY DEF OpToRel
  <2> QED BY <2>1, NatLessThanWellFounded, Zenon
<1>2. PICK x \in S : \A y \in S : ~ (<<y, x>> \in Less)
  BY <1>1, WFMin
<1>3. ASSUME NEW y \in S PROVE x <= y
  <2>1. x \in Nat /\ y \in Nat
    OBVIOUS
  <2>2. ~(y < x)
    BY <1>1, <1>2, <2>1
  <2> QED BY <2>1, <2>2
<1> QED BY <1>3

(* The kernel can give the lowest of the free descriptors. *)
LEMMA LowestIsFree == Free # {} => Lowest \in Free
<1>1. Free \subseteq Nat
  <2>1. Free \subseteq Fds
    BY DEF Free
  <2> QED BY <2>1, ServerAssumption
<1> QED BY <1>1, LeastExists DEF Lowest

(* A message is its three words. *)
LEMMA MessageWords ==
    ASSUME NEW m \in Messages
    PROVE  /\ m \in Seq(Words) /\ Len(m) = 3
           /\ m[1] \in Methods /\ m[2] \in Paths /\ m[3] = "blank"
           /\ m = [k \in 1..Size |-> m[k]]
           /\ Due(m) = IF m[1] = "GET" /\ m[2] = "/hello.xhtml" THEN 1 ELSE 0
<1>1. PICK x \in Methods, y \in Paths : m = <<x, y, "blank">>
  BY ServerAssumption
<1>2. m \in Seq(Words) /\ Len(m) = 3
  BY <1>1 DEF Words
<1>3. m[1] = x /\ m[2] = y /\ m[3] = "blank"
  BY <1>1
<1>4. m = [k \in 1..Size |-> m[k]]
  BY <1>2 DEF Size
<1>5. Due(m) = IF m[1] = "GET" /\ m[2] = "/hello.xhtml" THEN 1 ELSE 0
  BY <1>1 DEF Due
<1> QED BY <1>1, <1>2, <1>3, <1>4, <1>5

-----------------------------------------------------------------------------
LEMMA InitEstablishes == Init => IInv
<1> SUFFICES ASSUME Init PROVE IInv
  OBVIOUS
<1>1. TypeInv
  <2>1. <<>> \in Seq(Clients)
    OBVIOUS
  <2>2. /\ fds \in [Fds -> Owners] /\ buffer \in [1..Size -> Words \cup {"junk"}]
        /\ phase \in [Clients -> {"away", "queued", "accepted", "closed"}]
        /\ wire \in [Clients -> {"open", "shut", "reset"}]
    BY DEF Init, Owners
  <2>3. /\ sent \in [Clients -> 0..Size] /\ read \in [Clients -> Nat]
        /\ answered \in [Clients -> Nat] /\ pos \in 1..Size
    BY DEF Init, Size
  <2> QED BY <2>1, <2>2, <2>3 DEF Init, TypeInv, Steps
<1>2. FdsInv
  BY ServerAssumption DEF Init, FdsInv, Serving, Owners
<1>3. QueueInv /\ ServeInv /\ DueInv
  BY DEF Init, QueueInv, ServeInv, DueInv, Serving
<1> QED BY <1>1, <1>2, <1>3 DEF IInv

LEMMA StepPreserves == IInv /\ [Next]_vars => IInv'
<1> SUFFICES ASSUME IInv, [Next]_vars PROVE IInv'
  OBVIOUS
<1> USE DEF IInv
<1>1. ASSUME Listen PROVE IInv'
  <2>1. TypeInv'
    BY <1>1 DEF Listen, TypeInv, clientVars, Steps, Owners
  <2>2. FdsInv'
    BY <1>1, ServerAssumption DEF Listen, FdsInv, Serving
  <2>3. QueueInv'
    BY <1>1 DEF Listen, QueueInv
  <2>4. ServeInv'
    BY <1>1 DEF Listen, ServeInv, Serving
  <2>5. DueInv'
    BY <1>1 DEF Listen, DueInv, clientVars
  <2> QED BY <2>1, <2>2, <2>3, <2>4, <2>5
<1>2. ASSUME ListenFails PROVE IInv'
  <2>1. TypeInv'
    BY <1>2 DEF ListenFails, TypeInv, clientVars, Steps, Owners
  <2>2. FdsInv'
    BY <1>2, ServerAssumption DEF ListenFails, FdsInv, TypeInv, Serving
  <2>3. QueueInv'
    BY <1>2 DEF ListenFails, QueueInv
  <2>4. ServeInv'
    BY <1>2 DEF ListenFails, ServeInv, Serving
  <2>5. DueInv'
    BY <1>2 DEF ListenFails, DueInv, clientVars
  <2> QED BY <2>1, <2>2, <2>3, <2>4, <2>5
<1>3. ASSUME AcceptFails PROVE IInv'
  <2>1. TypeInv'
    BY <1>3 DEF AcceptFails, TypeInv, serverVars, clientVars, Steps
  <2>2. FdsInv'
    BY <1>3 DEF AcceptFails, FdsInv, serverVars, Serving
  <2>3. QueueInv'
    BY <1>3 DEF AcceptFails, QueueInv, serverVars
  <2>4. ServeInv'
    BY <1>3 DEF AcceptFails, ServeInv, Serving
  <2>5. DueInv'
    BY <1>3 DEF AcceptFails, DueInv, serverVars, clientVars
  <2> QED BY <2>1, <2>2, <2>3, <2>4, <2>5
<1>4. ASSUME Accept PROVE IInv'
  <2>1. TypeInv'
    BY <1>4, LowestIsFree DEF Accept, TypeInv, clientVars, Steps, Owners, Free
  <2>2. FdsInv'
    BY <1>4, LowestIsFree DEF Accept, FdsInv, TypeInv, Peer, Free
  <2>3. QueueInv'
    <3>1. /\ Len(backlog') = Len(backlog) - 1
          /\ \A k \in 1..Len(backlog') : backlog'[k] = backlog[k + 1] /\ k + 1 \in 1..Len(backlog)
      BY <1>4 DEF Accept, TypeInv
    <3>2. 1 \in 1..Len(backlog) /\ Head(backlog) = backlog[1] /\ backlog[1] \in Clients
      BY <1>4 DEF Accept, TypeInv
    <3>3. \A k \in 1..Len(backlog') : backlog'[k] \in Clients /\ backlog'[k] # Head(backlog)
      <4> TAKE k \in 1..Len(backlog')
      <4>1. k + 1 \in 1..Len(backlog) /\ k + 1 # 1 /\ backlog'[k] = backlog[k + 1]
        BY <3>1
      <4>2. backlog[k + 1] \in Clients
        BY <4>1 DEF TypeInv
      <4> QED BY <4>1, <4>2, <3>2 DEF QueueInv
    <3>4. \A k \in 1..Len(backlog') : phase'[backlog'[k]] = "queued"
      BY <1>4, <3>1, <3>3 DEF Accept, QueueInv, TypeInv
    <3>5. \A k, l \in 1..Len(backlog') : backlog'[k] = backlog'[l] => k = l
      <4> TAKE k, l \in 1..Len(backlog')
      <4> HAVE backlog'[k] = backlog'[l]
      <4>1. k + 1 = l + 1
        BY <3>1 DEF QueueInv
      <4> QED BY <4>1
    <3>6. \A c \in Clients : phase'[c] \in {"away", "queued"} =>
              answered'[c] = 0 /\ read'[c] = 0 /\ c \notin whole'
      BY <1>4 DEF Accept, QueueInv, TypeInv
    <3> QED BY <3>4, <3>5, <3>6 DEF QueueInv
  <2>4. ServeInv'
    BY <1>4, LowestIsFree DEF Accept, ServeInv, TypeInv, Peer, QueueInv, Free
  <2>5. DueInv'
    BY <1>4, LowestIsFree DEF Accept, DueInv, clientVars
  <2> QED BY <2>1, <2>2, <2>3, <2>4, <2>5
<1>5. ASSUME Read PROVE IInv'
  <2> PICK n \in 1..(sent[Peer] - read[Peer]) :
            /\ buffer' = [k \in 1..Size |-> IF k <= n THEN message[Peer][read[Peer] + k] ELSE buffer[k]]
            /\ read' = [read EXCEPT ![Peer] = @ + n]
            /\ whole' = IF n = Size THEN whole \cup {Peer} ELSE whole
    BY <1>5 DEF Read
  <2>p. /\ pc = "read" /\ pc' = "handle" /\ Peer \in Clients /\ readerfd \in Fds
        /\ read[Peer] = 0 /\ n \in 1..Size /\ message[Peer] \in Messages
        /\ UNCHANGED <<fds, readerfd, pos, elementsFd, isGet, answered, backlog, phase, clientVars>>
    <3>1. pc = "read" /\ pc' = "handle" /\ Peer \in Clients /\ readerfd \in Fds /\ read[Peer] = 0
      BY <1>5 DEF Read, FdsInv, ServeInv, Serving
    <3>2. message[Peer] \in Messages /\ sent[Peer] \in 0..Size
      BY <3>1 DEF TypeInv
    <3>3. n \in 1..Size
      BY <3>1, <3>2 DEF Size
    <3> QED BY <1>5, <3>1, <3>2, <3>3 DEF Read
  <2>1. TypeInv'
    <3>1. \A k \in 1..Size : k <= n => message[Peer][read[Peer] + k] \in Words
      BY <2>p, MessageWords DEF Size
    <3>2. buffer' \in [1..Size -> Words \cup {"junk"}]
      BY <3>1 DEF TypeInv
    <3>3. read' \in [Clients -> Nat] /\ whole' \subseteq Clients
      BY <2>p DEF TypeInv, Size
    <3> QED BY <2>p, <3>2, <3>3 DEF TypeInv, clientVars, Steps
  <2>2. FdsInv'
    BY <1>5 DEF Read, FdsInv, Serving, Peer
  <2>3. QueueInv'
    BY <1>5 DEF Read, QueueInv, ServeInv, Serving
  <2>4. ServeInv'
    <3>1. n = Size => buffer' = message[Peer]
      BY <2>p, MessageWords DEF Size
    <3>2. n # Size => Peer \notin whole'
      BY <2>p DEF ServeInv
    <3> QED BY <2>p, <3>1, <3>2 DEF ServeInv, Serving, Peer, TypeInv, clientVars
  <2>5. DueInv'
    BY <1>5 DEF Read, DueInv, clientVars, Serving, ServeInv
  <2> QED BY <2>1, <2>2, <2>3, <2>4, <2>5
<1>6. ASSUME ReadEof PROVE IInv'
  <2>1. TypeInv'
    BY <1>6 DEF ReadEof, TypeInv, clientVars, Steps, Owners, Closed
  <2>2. FdsInv'
    BY <1>6 DEF ReadEof, FdsInv, Serving, Peer, Closed
  <2>3. QueueInv'
    <3>1. Peer \in Clients /\ phase[Peer] = "accepted"
      BY <1>6 DEF ReadEof, FdsInv, ServeInv, Serving
    <3>2. \A c \in Clients : phase'[c] = IF c = Peer THEN "closed" ELSE phase[c]
      BY <1>6 DEF ReadEof, TypeInv
    <3>3. \A i \in 1..Len(backlog) : backlog[i] \in Clients
      BY DEF TypeInv
    <3>4. UNCHANGED <<backlog, read, answered, whole>>
      BY <1>6 DEF ReadEof
    <3> QED BY <3>1, <3>2, <3>3, <3>4 DEF QueueInv
  <2>4. ServeInv'
    BY <1>6, ServerAssumption DEF ReadEof, ServeInv, TypeInv, FdsInv, Serving, Peer, Closed
  <2>5. DueInv'
    BY <1>6, ServerAssumption DEF ReadEof, DueInv, TypeInv, clientVars, Peer, ServeInv, Closed
  <2> QED BY <2>1, <2>2, <2>3, <2>4, <2>5
<1>7. ASSUME ReadFails PROVE IInv'
  <2>1. TypeInv'
    BY <1>7 DEF ReadFails, TypeInv, serverVars, clientVars, Steps
  <2>2. FdsInv'
    BY <1>7 DEF ReadFails, FdsInv, serverVars, Serving, Peer
  <2>3. QueueInv'
    BY <1>7 DEF ReadFails, QueueInv, serverVars
  <2>4. ServeInv'
    BY <1>7 DEF ReadFails, ServeInv, serverVars, Serving, Peer
  <2>5. DueInv'
    BY <1>7 DEF ReadFails, DueInv, serverVars, clientVars
  <2> QED BY <2>1, <2>2, <2>3, <2>4, <2>5
<1>8. ASSUME Handle PROVE IInv'
  <2>1. TypeInv'
    <3>1. fds' \in [Fds -> Owners]
      BY <1>8 DEF Handle, TypeInv, Owners
    <3>2. isGet' = FALSE /\ pos' = 1 /\ pc' = "parse"
      BY <1>8 DEF Handle
    <3>4. 1 \in 1..Size /\ "parse" \in Steps
      BY DEF Size, Steps
    <3>3. UNCHANGED <<buffer, answered, whole, backlog, phase, read, wire, message, sent>>
      BY <1>8 DEF Handle, clientVars
    <3> QED BY <3>1, <3>2, <3>3, <3>4 DEF TypeInv
  <2>2. FdsInv'
    BY <1>8, LowestIsFree, ServerAssumption DEF Handle, FdsInv, TypeInv, Serving, Peer, Free
  <2>3. QueueInv'
    <3>1. UNCHANGED <<backlog, phase, read, answered, whole>>
      BY <1>8 DEF Handle
    <3> QED BY <3>1 DEF QueueInv
  <2>4. ServeInv'
    <3>1. fds'[readerfd] = Peer /\ Peer \in Clients
      BY <1>8, LowestIsFree, ServerAssumption DEF Handle, FdsInv, Serving, Peer, Free, TypeInv
    <3> QED BY <1>8, <3>1 DEF Handle, ServeInv, Serving, Peer, clientVars
  <2>5. DueInv'
    BY <1>8, LowestIsFree DEF Handle, DueInv, clientVars
  <2> QED BY <2>1, <2>2, <2>3, <2>4, <2>5
<1>9. ASSUME ParseMethod PROVE IInv'
  <2>1. TypeInv'
    <3>1. isGet' \in BOOLEAN
      BY <1>9 DEF ParseMethod, TypeInv
    <3>2. pos' \in 1..Size /\ pc' \in Steps
      BY <1>9 DEF ParseMethod, Size, Steps
    <3>3. UNCHANGED <<fds, buffer, answered, whole, backlog, phase, read, wire, message, sent>>
      BY <1>9 DEF ParseMethod, clientVars
    <3> QED BY <3>1, <3>2, <3>3 DEF TypeInv
  <2>2. FdsInv'
    BY <1>9 DEF ParseMethod, FdsInv, Serving, Peer
  <2>3. QueueInv'
    BY <1>9 DEF ParseMethod, QueueInv
  <2>4. ServeInv'
    BY <1>9 DEF ParseMethod, ServeInv, clientVars, Serving, Peer
  <2>5. DueInv'
    BY <1>9 DEF ParseMethod, DueInv, clientVars
  <2> QED BY <2>1, <2>2, <2>3, <2>4, <2>5
<1>10. ASSUME ParsePath PROVE IInv'
  <2>p. pc = "parse" /\ pos = 2 /\ pos' = 3 /\ readerfd \in Fds /\ Peer \in Clients /\ elementsFd = readerfd
    BY <1>10 DEF ParsePath, FdsInv, ServeInv, Serving
  <2>a. answered' = answered \/ answered' = [answered EXCEPT ![Peer] = @ + 1]
    BY <1>10, <2>p DEF ParsePath, Write, Peer
  <2>1. TypeInv'
    <3>1. answered' \in [Clients -> Nat]
      <4>1. answered[Peer] + 1 \in Nat
        BY <2>p DEF TypeInv
      <4> QED BY <2>a, <4>1 DEF TypeInv
    <3>2. pc' \in Steps
      BY <1>10 DEF ParsePath, Steps
    <3> QED BY <1>10, <2>p, <3>1, <3>2 DEF ParsePath, TypeInv, Size, clientVars
  <2>2. FdsInv'
    BY <1>10 DEF ParsePath, FdsInv, Serving, Peer
  <2>3. QueueInv'
    BY <1>10 DEF ParsePath, QueueInv, TypeInv, ServeInv, Serving, Peer, Write
  <2>4. ServeInv'
    <3>1. answered[Peer] = 0 /\ isGet = (buffer[1] = "GET")
      BY <2>p DEF ServeInv
    <3>2. \/ wire[Peer] = "reset"
          \/ answered'[Peer] = IF buffer[1] = "GET" /\ buffer[2] = "/hello.xhtml" THEN 1 ELSE 0
      <4>1. Asked <=> buffer[1] = "GET" /\ buffer[2] = "/hello.xhtml"
        BY <3>1 DEF Asked
      <4>2. Asked => wire[Peer] = "reset" \/ answered'[Peer] = 1
        BY <1>10, <2>p, <3>1 DEF ParsePath, Write, Peer, TypeInv
      <4>3. ~Asked => answered'[Peer] = 0
        BY <1>10, <3>1 DEF ParsePath
      <4> QED BY <4>1, <4>2, <4>3
    <3>3. UNCHANGED <<fds, readerfd, buffer, elementsFd, whole, phase, message, wire>>
      BY <1>10 DEF ParsePath, clientVars
    <3>4. pc' = "parse" \/ pc' = "ended"
      BY <1>10 DEF ParsePath
    <3> QED BY <2>p, <3>2, <3>3, <3>4 DEF ServeInv, Serving, Peer
  <2>5. DueInv'
    BY <1>10 DEF ParsePath, DueInv, TypeInv, clientVars, Serving, Peer, ServeInv, Write
  <2> QED BY <2>1, <2>2, <2>3, <2>4, <2>5
<1>11. ASSUME ParseEnd PROVE IInv'
  <2>1. TypeInv'
    BY <1>11 DEF ParseEnd, TypeInv, serverVars, clientVars, Steps
  <2>2. FdsInv'
    BY <1>11 DEF ParseEnd, FdsInv, serverVars, Serving, Peer
  <2>3. QueueInv'
    BY <1>11 DEF ParseEnd, QueueInv, serverVars
  <2>4. ServeInv'
    BY <1>11 DEF ParseEnd, ServeInv, serverVars, Serving, Peer
  <2>5. DueInv'
    <3>1. Peer \in Clients /\ (Peer \in whole => buffer = message[Peer])
      BY <1>11 DEF ParseEnd, FdsInv, ServeInv, Serving
    <3>2. Peer \in whole => wire[Peer] = "reset" \/ answered[Peer] = Due(message[Peer])
      <4>1. message[Peer] \in Messages
        BY <3>1 DEF TypeInv
      <4>2. Due(message[Peer]) = IF message[Peer][1] = "GET" /\ message[Peer][2] = "/hello.xhtml" THEN 1 ELSE 0
        BY <4>1, MessageWords
      <4>3. \/ wire[Peer] = "reset"
            \/ answered[Peer] = IF buffer[1] = "GET" /\ buffer[2] = "/hello.xhtml" THEN 1 ELSE 0
        BY <1>11 DEF ParseEnd, ServeInv
      <4> QED BY <3>1, <4>2, <4>3
    <3>3. UNCHANGED <<fds, readerfd, answered, whole, phase, message, wire>>
      BY <1>11 DEF ParseEnd, serverVars, clientVars
    <3> QED BY <1>11, <3>2, <3>3 DEF ParseEnd, DueInv, Peer
  <2> QED BY <2>1, <2>2, <2>3, <2>4, <2>5
<1>12. ASSUME ParseFails PROVE IInv'
  <2>1. TypeInv'
    BY <1>12 DEF ParseFails, TypeInv, clientVars, Steps, Owners, Closed
  <2>2. FdsInv'
    BY <1>12 DEF ParseFails, FdsInv, Serving, Peer, Closed
  <2>3. QueueInv'
    BY <1>12 DEF ParseFails, QueueInv, ServeInv, Serving
  <2>4. ServeInv'
    BY <1>12, ServerAssumption DEF ParseFails, ServeInv, TypeInv, FdsInv, Serving, Peer, Closed
  <2>5. DueInv'
    BY <1>12, ServerAssumption DEF ParseFails, DueInv, TypeInv, clientVars, Peer, ServeInv, Closed, Unfit
  <2> QED BY <2>1, <2>2, <2>3, <2>4, <2>5
<1>13. ASSUME Close PROVE IInv'
  <2>1. TypeInv'
    BY <1>13 DEF Close, TypeInv, clientVars, Steps, Owners, Closed
  <2>2. FdsInv'
    BY <1>13, ServerAssumption DEF Close, FdsInv, TypeInv, Serving, Closed
  <2>3. QueueInv'
    <3>1. \A c \in Clients : fds[readerfd] = c => phase[c] # "queued"
      BY <1>13 DEF Close, ServeInv, FdsInv, Peer
    <3> QED BY <1>13, <3>1 DEF Close, QueueInv, TypeInv, clientVars
  <2>4. ServeInv'
    BY <1>13 DEF Close, ServeInv, Serving
  <2>5. DueInv'
    BY <1>13 DEF Close, DueInv, TypeInv, clientVars, Peer
  <2> QED BY <2>1, <2>2, <2>3, <2>4, <2>5
<1>14. ASSUME Client PROVE IInv'
  <2>c. PICK c \in Clients : Connect(c) \/ Send(c) \/ Shut(c) \/ Reset(c)
    BY <1>14 DEF Client
  <2>1. CASE Connect(c)
    <3>1. TypeInv'
      <4>1. backlog' \in Seq(Clients)
        BY <2>1 DEF Connect, TypeInv
      <4>2. phase' \in [Clients -> {"away", "queued", "accepted", "closed"}]
        BY <2>1 DEF Connect, TypeInv
      <4>3. UNCHANGED <<pc, fds, buffer, pos, isGet, answered, whole, read, wire, message, sent>>
        BY <2>1 DEF Connect, serverVars, clientVars
      <4> QED BY <4>1, <4>2, <4>3 DEF TypeInv
    <3>2. FdsInv'
      BY <2>1 DEF Connect, FdsInv, Serving, Peer, serverVars
    <3>3. QueueInv'
      <4>1. /\ Len(backlog') = Len(backlog) + 1 /\ backlog'[Len(backlog) + 1] = c
            /\ \A k \in 1..Len(backlog) : backlog'[k] = backlog[k] /\ backlog[k] \in Clients
        BY <2>1 DEF Connect, TypeInv
      <4>2. \A k \in 1..Len(backlog) : backlog[k] # c
        BY <2>1 DEF Connect, QueueInv
      <4>3. \A k \in 1..Len(backlog') : k \in 1..Len(backlog) \/ k = Len(backlog) + 1
        BY <4>1 DEF TypeInv
      <4>4. \A k \in 1..Len(backlog') : phase'[backlog'[k]] = "queued"
        BY SMTT(30), <2>1, <4>1, <4>2, <4>3 DEF Connect, QueueInv, TypeInv
      <4>5. \A k, l \in 1..Len(backlog') : backlog'[k] = backlog'[l] => k = l
        BY <4>1, <4>2, <4>3 DEF QueueInv
      <4> QED BY <2>1, <4>4, <4>5 DEF Connect, QueueInv, TypeInv, serverVars
    <3>4. ServeInv'
      BY <2>1 DEF Connect, ServeInv, Serving, Peer, serverVars, clientVars
    <3>5. DueInv'
      BY <2>1 DEF Connect, DueInv, Peer, serverVars, clientVars
    <3> QED BY <3>1, <3>2, <3>3, <3>4, <3>5
  <2>2. CASE Send(c)
    <3>1. TypeInv'
      <4>1. sent' \in [Clients -> 0..Size]
        <5>1. sent[c] + 1 \in 0..Size
          <6>1. sent[c] \in 0..Size /\ sent[c] < Size
            BY <2>2 DEF Send, TypeInv
          <6> QED BY <6>1 DEF Size
        <5> QED BY <2>2, <5>1 DEF Send, TypeInv
      <4>2. UNCHANGED <<pc, serverVars, backlog, phase, read, wire, message>>
        BY <2>2 DEF Send
      <4> QED BY <4>1, <4>2 DEF TypeInv, serverVars
    <3> QED BY <2>2, <3>1 DEF Send, FdsInv, QueueInv, ServeInv, DueInv, Serving, Peer, serverVars
  <2>3. CASE Shut(c) \/ Reset(c)
    <3>1. TypeInv'
      BY <2>3 DEF Shut, Reset, TypeInv, serverVars
    <3>2. FdsInv' /\ QueueInv'
      BY <2>3 DEF Shut, Reset, FdsInv, QueueInv, Serving, Peer, serverVars
    <3>3. \A d \in Clients : wire[d] = "reset" => wire'[d] = "reset"
      BY <2>3 DEF Shut, Reset, TypeInv
    <3>4. UNCHANGED <<pc, serverVars, phase, read, message>>
      BY <2>3 DEF Shut, Reset
    <3>5. ServeInv'
      BY <3>3, <3>4 DEF ServeInv, FdsInv, Serving, Peer, serverVars
    <3>6. DueInv'
      BY <3>3, <3>4 DEF DueInv, Peer, TypeInv, serverVars
    <3> QED BY <3>1, <3>2, <3>5, <3>6
  <2> QED BY <2>c, <2>1, <2>2, <2>3
<1>15. ASSUME Ended \/ UNCHANGED vars PROVE IInv'
  <2>1. UNCHANGED vars
    BY <1>15 DEF Ended
  <2> QED BY <2>1 DEF vars, serverVars, clientVars, TypeInv, FdsInv, QueueInv, ServeInv, DueInv, Serving, Peer
<1> QED BY <1>1, <1>2, <1>3, <1>4, <1>5, <1>6, <1>7, <1>8, <1>9, <1>10, <1>11, <1>12, <1>13,
           <1>14, <1>15 DEF Next, Serve

-----------------------------------------------------------------------------
(* The invariant the theorems below rest on. *)
THEOREM InductiveInvariant == Spec => []IInv
<1>1. Init => IInv
  BY InitEstablishes
<1>2. IInv /\ [Next]_vars => IInv'
  BY StepPreserves
<1> QED BY <1>1, <1>2, PTL DEF Spec

(* runServer: one connection is open at a time, and none while it waits    *)
(* for the next, whichever of its paths manageConnection takes.            *)
THEOREM NoDescriptorLeaks == Spec => []NothingLeaks
<1>1. IInv => NothingLeaks
  BY DEF IInv, FdsInv, NothingLeaks
<1> QED BY <1>1, InductiveInvariant, PTL

(* The second close of a descriptor hits neither a file a handler opened   *)
(* nor the socket that listens.                                            *)
THEOREM ForeignDescriptorsStay == Spec => ClosesOnlyItsOwn
<1> DEFINE Stay == \A f \in Fds : fds[f] \in {"file", "listener"} => fds'[f] = fds[f]
<1>1. IInv /\ [Next]_vars => [Stay]_vars
  <2> SUFFICES ASSUME IInv, Next PROVE Stay
    BY DEF Stay
  <2> USE DEF IInv
  <2>1. CASE Listen \/ ListenFails
    BY <2>1 DEF Listen, ListenFails, FdsInv
  <2>2. CASE Accept
    BY <2>2, LowestIsFree DEF Accept, Free, TypeInv
  <2>3. CASE Handle
    BY <2>3, LowestIsFree DEF Handle, Free, TypeInv
  <2>4. CASE ReadEof \/ ParseFails
    BY <2>4, ServerAssumption DEF ReadEof, ParseFails, Closed, FdsInv, Serving, Peer, TypeInv
  <2>5. CASE Close
    BY <2>5, ServerAssumption DEF Close, Closed, FdsInv, Peer, TypeInv
  <2>6. CASE Client
    BY <2>6 DEF Client, Connect, Send, Shut, Reset, serverVars
  <2>7. CASE AcceptFails \/ Read \/ ReadFails \/ ParseMethod \/ ParsePath \/ ParseEnd \/ Ended
    BY <2>7 DEF AcceptFails, Read, ReadFails, ParseMethod, ParsePath, ParseEnd, Ended, vars, serverVars
  <2> QED BY <2>1, <2>2, <2>3, <2>4, <2>5, <2>6, <2>7 DEF Next, Serve
<1> QED BY <1>1, InductiveInvariant, PTL DEF Spec, ClosesOnlyItsOwn

(* A message that came with one read is answered as it asks, once, however *)
(* many clients have been served before, and whatever they left.           *)
THEOREM WholeMessagesAnswered == Spec => []AnswersAsAsked
<1>1. IInv => AnswersAsAsked
  BY DEF IInv, DueInv, Due, AnswersAsAsked
<1> QED BY <1>1, InductiveInvariant, PTL
=============================================================================

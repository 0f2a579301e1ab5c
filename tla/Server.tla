------------------------------- MODULE Server -------------------------------
(***************************************************************************)
(* net/socket.c, runServer and manageConnection, with the handler and the  *)
(* two callbacks of demoPage/hello.c.                                      *)
(*                                                                         *)
(* One thread serves one connection at a time.  The request is a local     *)
(* variable that initHttpRequest sets up but for its buffer, so the buffer *)
(* holds what the connection before left there.  A request is read with    *)
(* one read(); the parser does not know how much that brought.             *)
(*                                                                         *)
(* A message is three words: a method, a path, and the rest up to the      *)
(* empty line.  The kernel hands out the lowest descriptor that is free;   *)
(* reading may bring any part of what has been sent.                       *)
(***************************************************************************)
EXTENDS Integers, Sequences, FiniteSets

CONSTANTS
    Clients,
    Messages,      \* what clients mean to send
    Fds,           \* numbers of descriptors the process can have
    NoFd

VARIABLES
    pc,            \* where the server is
    fds,           \* what each descriptor is: the listening socket, the
                   \* socket of a client, a file, or free
    readerfd,
    backlog,       \* clients that have connected and are not accepted yet
    phase,         \* of each client
    wire,          \* the client's half: "open", "shut" after FIN, "reset"
    message,       \* what the client means to send
    sent, read,    \* words of it sent, and read by the server
    buffer,        \* request.privateBuffer
    pos,           \* of the parser in it
    elementsFd, isGet,   \* parsedElements of the demo page
    answered,      \* history: responses written to each client
    whole          \* history: clients whose message came with one read

serverVars == <<fds, readerfd, buffer, pos, elementsFd, isGet, answered, whole>>
clientVars == <<wire, message, sent>>
vars == <<pc, serverVars, backlog, phase, read, clientVars>>

Methods == {"GET", "POST"}
Paths   == {"/hello.xhtml", "/"}
Words   == Methods \cup Paths \cup {"blank"}
Size    == 3

ASSUME ServerAssumption ==
    /\ Fds \subseteq Nat /\ IsFiniteSet(Fds) /\ NoFd \notin Nat
    /\ Clients \cap {"listener", "file", "free"} = {}
    /\ Messages \subseteq {<<m, p, "blank">> : m \in Methods, p \in Paths}

Owners == Clients \cup {"listener", "file", "free"}

Free == {f \in Fds : fds[f] = "free"}

(* POSIX: the lowest number that is free. *)
Lowest == CHOOSE f \in Free : \A g \in Free : f <= g

Closed(f) == [fds EXCEPT ![f] = "free"]

-----------------------------------------------------------------------------
(* socket, bind and listen: 67-86. *)
Listen ==
    /\ pc = "start"
    /\ fds' = [fds EXCEPT ![Lowest] = "listener"]
    /\ pc' = "accept"
    /\ UNCHANGED <<readerfd, buffer, pos, elementsFd, isGet, answered, whole>>
    /\ UNCHANGED <<backlog, phase, read, clientVars>>

(* SE_SOCKET_ERROR; or SE_BIND_ERROR or SE_LISTEN_ERROR, the socket open.  *)
ListenFails ==
    /\ pc = "start"
    /\ pc' = "ended"
    /\ fds' \in {fds, [fds EXCEPT ![Lowest] = "listener"]}
    /\ UNCHANGED <<readerfd, buffer, pos, elementsFd, isGet, answered, whole>>
    /\ UNCHANGED <<backlog, phase, read, clientVars>>

(* Without a free descriptor accept fails. *)
Accept ==
    /\ pc = "accept" /\ backlog # <<>> /\ Free # {}
    /\ readerfd' = Lowest
    /\ fds' = [fds EXCEPT ![Lowest] = Head(backlog)]
    /\ phase' = [phase EXCEPT ![Head(backlog)] = "accepted"]
    /\ backlog' = Tail(backlog)
    /\ pc' = "read"
    /\ UNCHANGED <<buffer, pos, elementsFd, isGet, answered, whole, read, clientVars>>

(* SE_ACCEPT_ERROR: any failure of accept ends the server. *)
AcceptFails ==
    /\ pc = "accept"
    /\ pc' = "ended"
    /\ UNCHANGED <<serverVars, backlog, phase, read, clientVars>>

-----------------------------------------------------------------------------
(* manageConnection *)
Peer == fds[readerfd]

(* What came before a reset may still be read. *)
Read ==
    /\ pc = "read"
    /\ \E n \in 1..(sent[Peer] - read[Peer]) :
        /\ buffer' = [k \in 1..Size |-> IF k <= n THEN message[Peer][read[Peer] + k] ELSE buffer[k]]
        /\ read' = [read EXCEPT ![Peer] = @ + n]
        /\ whole' = IF n = Size THEN whole \cup {Peer} ELSE whole
    /\ pc' = "handle"
    /\ UNCHANGED <<fds, readerfd, pos, elementsFd, isGet, answered, backlog, phase, clientVars>>

AtEof == wire[Peer] = "shut" /\ sent[Peer] = read[Peer]

\* Mistake: reading is tried again, as after EINTR.
ReadEofAgain == pc = "read" /\ AtEof /\ UNCHANGED vars

(* read() returned 0: close, and again in runServer. *)
ReadEof ==
    /\ pc = "read" /\ AtEof
    /\ fds' = Closed(readerfd)
    /\ phase' = [phase EXCEPT ![Peer] = "closed"]
    /\ pc' = "close"
    /\ UNCHANGED <<readerfd, buffer, pos, elementsFd, isGet, answered, whole>>
    /\ UNCHANGED <<backlog, read, clientVars>>

\* Mistake: the connection is closed, but what follows is not left out.
ReadFailsCloses ==
    /\ pc = "read" /\ wire[Peer] = "reset"
    /\ fds' = Closed(readerfd)
    /\ phase' = [phase EXCEPT ![Peer] = "closed"]
    /\ pc' = "handle"
    /\ UNCHANGED <<readerfd, buffer, pos, elementsFd, isGet, answered, whole>>
    /\ UNCHANGED <<backlog, read, clientVars>>

(* read() returned -1, which is not 0: the old buffer is parsed.           *)
ReadFails ==
    /\ pc = "read" /\ wire[Peer] = "reset"
    /\ pc' = "handle"
    /\ UNCHANGED <<serverVars, backlog, phase, read, clientVars>>

\* Mistake: the flag of the connection before is kept.
HandleKeepingFlag ==
    /\ pc = "handle"
    /\ elementsFd' = readerfd /\ UNCHANGED isGet
    /\ UNCHANGED fds
    /\ pos' = 1 /\ pc' = "parse"
    /\ UNCHANGED <<readerfd, buffer, answered, whole, backlog, phase, read, clientVars>>

(* page of hello.c.  Another program's handler may open a file and keep it.*)
Handle ==
    /\ pc = "handle"
    /\ elementsFd' = readerfd /\ isGet' = FALSE
    /\ \/ UNCHANGED fds
       \/ Free # {} /\ (\A f \in Fds : fds[f] # "file")
          /\ fds' = [fds EXCEPT ![Lowest] = "file"]
    /\ pos' = 1 /\ pc' = "parse"
    /\ UNCHANGED <<readerfd, buffer, answered, whole, backlog, phase, read, clientVars>>

-----------------------------------------------------------------------------
(* parseHTTP on the buffer, and the callbacks it calls. *)
ParseMethod ==
    /\ pc = "parse" /\ pos = 1 /\ buffer[1] \in Methods
    /\ isGet' = (isGet \/ buffer[1] = "GET")
    /\ pos' = 2
    /\ UNCHANGED <<pc, fds, readerfd, buffer, elementsFd, answered, whole>>
    /\ UNCHANGED <<backlog, phase, read, clientVars>>

Asked == isGet /\ buffer[2] = "/hello.xhtml"

Write(f) ==
    IF fds[f] \in Clients
    THEN answered' = [answered EXCEPT ![fds[f]] = @ + 1]
    ELSE UNCHANGED answered

ParsePath ==
    /\ pc = "parse" /\ pos = 2 /\ buffer[2] \in Paths
    /\ pos' = 3
    /\ \/ ~Asked /\ UNCHANGED <<pc, answered>>
       \/ Asked /\ wire[Peer] # "reset" /\ Write(elementsFd) /\ UNCHANGED pc
       \* the write fails, its result is not looked at
       \/ Asked /\ wire[Peer] = "reset" /\ UNCHANGED <<pc, answered>>
       \* or raises SIGPIPE, and nobody has asked for that signal
       \/ Asked /\ wire[Peer] = "reset" /\ pc' = "ended" /\ UNCHANGED answered
    /\ UNCHANGED <<fds, readerfd, buffer, elementsFd, isGet, whole>>
    /\ UNCHANGED <<backlog, phase, read, clientVars>>

(* LE_OK: runServer closes the connection. *)
ParseEnd ==
    /\ pc = "parse" /\ pos = 3 /\ buffer[3] = "blank"
    /\ pc' = "close"
    /\ UNCHANGED <<serverVars, backlog, phase, read, clientVars>>

Unfit ==
    \/ pos = 1 /\ buffer[1] \notin Methods
    \/ pos = 2 /\ buffer[2] \notin Paths
    \/ pos = 3 /\ buffer[3] # "blank"

(* Any other result: manageConnection closes it, and runServer again.      *)
ParseFails ==
    /\ pc = "parse" /\ Unfit
    /\ fds' = Closed(readerfd)
    /\ phase' = [phase EXCEPT ![Peer] = "closed"]
    /\ pc' = "close"
    /\ UNCHANGED <<readerfd, buffer, pos, elementsFd, isGet, answered, whole>>
    /\ UNCHANGED <<backlog, read, clientVars>>

\* Mistake: left to manageConnection, which does not close after LE_OK.
CloseNot ==
    /\ pc = "close" /\ pc' = "accept"
    /\ UNCHANGED <<serverVars, backlog, phase, read, clientVars>>

Close ==
    /\ pc = "close"
    /\ fds' = Closed(readerfd)
    /\ phase' = [c \in Clients |-> IF fds[readerfd] = c THEN "closed" ELSE phase[c]]
    /\ pc' = "accept"
    /\ UNCHANGED <<readerfd, buffer, pos, elementsFd, isGet, answered, whole>>
    /\ UNCHANGED <<backlog, read, clientVars>>

-----------------------------------------------------------------------------
(* The clients, and the kernel between. *)
Connect(c) ==
    /\ pc \notin {"start", "ended"} /\ phase[c] = "away"
    /\ phase' = [phase EXCEPT ![c] = "queued"]
    /\ backlog' = Append(backlog, c)
    /\ UNCHANGED <<pc, serverVars, read, clientVars>>

Send(c) ==
    /\ phase[c] \in {"queued", "accepted"} /\ wire[c] = "open" /\ sent[c] < Size
    /\ sent' = [sent EXCEPT ![c] = @ + 1]
    /\ UNCHANGED <<pc, serverVars, backlog, phase, read, wire, message>>

Shut(c) ==
    /\ phase[c] \in {"queued", "accepted"} /\ wire[c] = "open"
    /\ wire' = [wire EXCEPT ![c] = "shut"]
    /\ UNCHANGED <<pc, serverVars, backlog, phase, read, message, sent>>

Reset(c) ==
    /\ phase[c] \in {"queued", "accepted"} /\ wire[c] # "reset"
    /\ wire' = [wire EXCEPT ![c] = "reset"]
    /\ UNCHANGED <<pc, serverVars, backlog, phase, read, message, sent>>

-----------------------------------------------------------------------------
Init ==
    /\ pc = "start"
    /\ fds = [f \in Fds |-> "free"] /\ readerfd = NoFd
    /\ backlog = <<>>
    /\ phase = [c \in Clients |-> "away"]
    /\ wire = [c \in Clients |-> "open"]
    /\ message \in [Clients -> Messages]
    /\ sent = [c \in Clients |-> 0] /\ read = [c \in Clients |-> 0]
    /\ buffer = [k \in 1..Size |-> "junk"]
    /\ pos = 1 /\ elementsFd = NoFd /\ isGet = FALSE
    /\ answered = [c \in Clients |-> 0] /\ whole = {}

Serve ==
    \/ Accept \/ Read \/ ReadEof \/ ReadFails \/ Handle
    \/ ParseMethod \/ ParsePath \/ ParseEnd \/ ParseFails \/ Close

Client == \E c \in Clients : Connect(c) \/ Send(c) \/ Shut(c) \/ Reset(c)

Ended == pc = "ended" /\ UNCHANGED vars

Next == Listen \/ ListenFails \/ AcceptFails \/ Serve \/ Client \/ Ended

(* The thread runs while it is not blocked; of clients nothing is known.   *)
Spec == Init /\ [][Next]_vars /\ WF_vars(Serve)

-----------------------------------------------------------------------------

(* Every accepted connection is closed on every path before the next is    *)
(* accepted; so at most one is open, and descriptors do not run out.       *)
NothingLeaks ==
    /\ \A f, g \in Fds : fds[f] \in Clients /\ fds[g] \in Clients => f = g
    /\ pc = "accept" => \A f \in Fds : fds[f] \notin Clients

(* manageConnection closes the descriptor on its error paths and runServer *)
(* closes it once more.  The second close never hits what was opened since *)
(* under the same number.                                                  *)
ClosesOnlyItsOwn ==
    [][\A f \in Fds : fds[f] \in {"file", "listener"} => fds'[f] = fds[f]]_vars

(* A client whose message came with one read gets the answer to it, once,  *)
(* whatever was served before and is still in the buffer or in the page's  *)
(* global.  (One whose message came in parts may get the answer to a       *)
(* message completed by what an earlier client left there.)                *)
AnswersAsAsked ==
    \A c \in whole :
        phase[c] = "closed" /\ wire[c] # "reset" =>
            answered[c] = IF message[c] = <<"GET", "/hello.xhtml", "blank">> THEN 1 ELSE 0

(* While the server lives, and accepted clients do not stay silent, each   *)
(* client that waits to be accepted is served and closed.                  *)
EachIsServed ==
    (/\ [](pc # "ended")
     /\ \A d \in Clients : (phase[d] = "accepted") ~> (sent[d] > 0 \/ wire[d] # "open"))
        => \A c \in Clients : (phase[c] = "queued") ~> (phase[c] = "closed")
=============================================================================

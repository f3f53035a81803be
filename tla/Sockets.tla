------------------------------ MODULE Sockets ------------------------------
(***************************************************************************)
(* What AppServer sees of TCP: the process's descriptors, the connections  *)
(* of its clients and the answers of poll, accept, recv and send. The      *)
(* kernel and the clients are not in the repository; they are modelled     *)
(* from how lib_socket.lua and lib_tcp.lua use them and how AppServer.lua  *)
(* tells their results apart.                                              *)
(*                                                                         *)
(* A client is one connection: a client that connects again is another     *)
(* element of Client. A request fits one recv and an answer one send.      *)
(***************************************************************************)
EXTENDS Integers, FiniteSets

CONSTANTS
    Client,          \* connections that may be made
    Fd,              \* descriptors the process may be given
    ListenFd,        \* the listening socket's descriptor
    Free, Listener,  \* what a descriptor stands for when it is no connection
    MaxRequests,     \* bound: requests of each connection
    MaxOutstanding,  \* requests a client sends ahead of their answers
    SendBuffer,      \* unread answers that fill a connection's send buffer
    Aborting,        \* clients that may abort their connections
    NonBlocking,     \* accepted sockets inherit O_NONBLOCK of the listener
    LowestFd         \* accept gives the lowest free descriptor (POSIX), or any

ASSUME SocketAssumption ==
    /\ Fd \subseteq Nat \ {0} /\ IsFiniteSet(Fd)
    /\ ListenFd \in Fd
    /\ Free # Listener
    /\ {Free, Listener} \cap Client = {}
    /\ MaxRequests \in [Client -> Nat]
    /\ MaxOutstanding \in Nat \ {0}
    /\ SendBuffer \in Nat \ {0}
    /\ Aborting \subseteq Client
    /\ NonBlocking \in BOOLEAN
    /\ LowestFd \in BOOLEAN

VARIABLES
    owner,     \* Fd -> what the descriptor is open on
    conn,      \* Client -> "new", "queued" (not accepted), "open", "closed"
    peer,      \* Client -> "up", "fin" (client closed), "rst" (reset)
    unread,    \* Client -> requests in the server's receive buffer
    asked,     \* Client -> requests sent
    sent,      \* Client -> answers the server sent
    received   \* Client -> answers the client read

clientVars == <<asked, received>>
sockVars == <<owner, conn, peer, unread, asked, sent, received>>

SocketsInit ==
    /\ owner = [fd \in Fd |-> IF fd = ListenFd THEN Listener ELSE Free]
    /\ conn = [c \in Client |-> "new"]
    /\ peer = [c \in Client |-> "up"]
    /\ unread = [c \in Client |-> 0]
    /\ asked = [c \in Client |-> 0]
    /\ sent = [c \in Client |-> 0]
    /\ received = [c \in Client |-> 0]

SocketsTypeOK ==
    /\ owner \in [Fd -> Client \cup {Free, Listener}]
    /\ conn \in [Client -> {"new", "queued", "open", "closed"}]
    /\ peer \in [Client -> {"up", "fin", "rst"}]
    /\ unread \in [Client -> Nat]
    /\ asked \in [Client -> Nat]
    /\ sent \in [Client -> Nat]
    /\ received \in [Client -> Nat]

OpenFds == {fd \in Fd : owner[fd] # Free}
Queued == {c \in Client : conn[c] = "queued"}
Reachable(c) == conn[c] \in {"queued", "open"}

\* There is an answer for the client that it has not read.
HasAnswer(c) == received[c] < sent[c]

-----------------------------------------------------------------------------
(* The clients *)

Connect(c) ==
    /\ conn[c] = "new"
    /\ owner[ListenFd] = Listener
    /\ conn' = [conn EXCEPT ![c] = "queued"]
    /\ UNCHANGED <<owner, peer, unread, asked, sent, received>>

\* A request may be sent before the server has accepted the connection.
Request(c) ==
    /\ Reachable(c)
    /\ peer[c] = "up"
    /\ asked[c] < MaxRequests[c]
    /\ asked[c] < received[c] + MaxOutstanding
    /\ asked' = [asked EXCEPT ![c] = @ + 1]
    /\ unread' = [unread EXCEPT ![c] = @ + 1]
    /\ UNCHANGED <<owner, conn, peer, sent, received>>

\* What a client reads after the server closed no longer matters to it.
Receive(c) ==
    /\ conn[c] = "open"
    /\ HasAnswer(c)
    /\ peer[c] # "rst"
    /\ received' = [received EXCEPT ![c] = @ + 1]
    /\ UNCHANGED <<owner, conn, peer, unread, asked, sent>>

\* A connection is reset: what the server has not read is gone.
Lost(c) ==
    /\ peer' = [peer EXCEPT ![c] = "rst"]
    /\ unread' = [unread EXCEPT ![c] = 0]
    /\ UNCHANGED <<owner, conn, asked, sent, received>>

\* The client closes: what it sent before is still delivered, but with an
\* unread answer in its receive buffer close resets the connection. The
\* answer may also still be on its way.
Finish(c) ==
    /\ Reachable(c)
    /\ peer[c] = "up"
    /\ \/ HasAnswer(c) /\ Lost(c)
       \/ /\ peer' = [peer EXCEPT ![c] = "fin"]
          /\ UNCHANGED <<owner, conn, unread, asked, sent, received>>

\* The stack of a client that has closed answers what it is still sent with
\* a reset, which arrives when it arrives.
ResetArrives(c) ==
    /\ Reachable(c)
    /\ peer[c] = "fin"
    /\ HasAnswer(c)
    /\ Lost(c)

\* The client aborts its connection.
Reset(c) ==
    /\ c \in Aborting
    /\ Reachable(c)
    /\ peer[c] # "rst"
    /\ Lost(c)

ClientStep == \E c \in Client :
    \/ Connect(c) \/ Request(c) \/ Receive(c)
    \/ Finish(c) \/ ResetArrives(c) \/ Reset(c)

-----------------------------------------------------------------------------
(* The system calls *)

\* The events poll reports for an entry. Stacks differ on a connection the
\* client has left: an orderly close comes with or without POLLHUP, a reset
\* with POLLHUP, or as an error with or without POLLIN; hup and mute are the
\* connections for which the stack chooses so.
Revents(entry, hup, mute) ==
    LET o == owner[entry.fd]
        in(b) == IF b THEN {"POLLIN"} \cap entry.events ELSE {}
    IN  CASE o = Free -> {"POLLNVAL"}
          [] o = Listener -> in(Queued # {})
          [] o \in Client /\ peer[o] = "up" -> in(unread[o] > 0)
          [] o \in Client /\ peer[o] = "fin" ->
                in(TRUE) \cup (IF o \in hup THEN {"POLLHUP"} ELSE {})
          [] OTHER ->
                in(o \notin mute)
                  \cup (IF o \in hup THEN {"POLLHUP"} ELSE {"POLLERR"})

Left == {c \in Client : conn[c] = "open" /\ peer[c] # "up"}

\* accept has this descriptor for this one of the queued connections.
CanAccept(fd, c) ==
    /\ conn[c] = "queued"
    /\ owner[fd] = Free
    /\ LowestFd => \A other \in Fd : owner[other] = Free => fd <= other

AcceptGives(fd, c) ==
    /\ CanAccept(fd, c)
    /\ owner' = [owner EXCEPT ![fd] = c]
    /\ conn' = [conn EXCEPT ![c] = "open"]
    /\ UNCHANGED <<peer, unread, asked, sent, received>>

\* accept fails: nothing is queued, or no descriptor is left.
AcceptFails ==
    /\ Queued = {} \/ \A fd \in Fd : owner[fd] # Free
    /\ UNCHANGED sockVars

\* accept fails on a connection that was reset while queued (ECONNABORTED).
AcceptAborts(c) ==
    /\ conn[c] = "queued"
    /\ peer[c] = "rst"
    /\ conn' = [conn EXCEPT ![c] = "closed"]
    /\ UNCHANGED <<owner, peer, unread, asked, sent, received>>

\* recv takes everything that has arrived.
RecvData(c) ==
    /\ peer[c] # "rst"
    /\ unread[c] > 0
    /\ unread' = [unread EXCEPT ![c] = 0]
    /\ UNCHANGED <<owner, conn, peer, asked, sent, received>>

\* recv returns 0 at the end of the stream, and fails on a connection that
\* was reset. On one that has nothing to read it fails or it blocks: the
\* code sets O_NONBLOCK on the listening socket only.
RecvNothing(c) ==
    /\ peer[c] = "rst" \/ (unread[c] = 0 /\ (peer[c] = "fin" \/ NonBlocking))
    /\ UNCHANGED <<peer, unread, asked, sent, received>>

CanSend(c) == peer[c] # "rst" /\ sent[c] < received[c] + SendBuffer

SendData(c) ==
    /\ CanSend(c)
    /\ sent' = [sent EXCEPT ![c] = @ + 1]
    /\ UNCHANGED <<peer, unread, asked, received>>

\* send fails on a connection that was reset. On one whose buffer is full
\* it fails or it blocks, as recv.
SendError(c) ==
    /\ peer[c] = "rst" \/ (~CanSend(c) /\ NonBlocking)
    /\ UNCHANGED <<peer, unread, asked, sent, received>>

\* close of a set of descriptors; of those that are not open it does nothing.
\* Connections still queued on a listening socket go with it.
CloseFds(S) ==
    LET gone(c) == \/ \E fd \in S : owner[fd] = c
                   \/ conn[c] = "queued" /\ \E fd \in S : owner[fd] = Listener
    IN  /\ owner' = [fd \in Fd |-> IF fd \in S THEN Free ELSE owner[fd]]
        /\ conn' = [c \in Client |-> IF gone(c) THEN "closed" ELSE conn[c]]

=============================================================================

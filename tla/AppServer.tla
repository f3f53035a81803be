----------------------------- MODULE AppServer -----------------------------
(***************************************************************************)
(* AppServer.lua on top of lib_poll.lua and lib_tcp.lua: one thread that   *)
(* polls, runs the callback of every descriptor with an event, and polls   *)
(* again. The server's steps end at its system calls, so that the clients  *)
(* act between a poll and the recv it led to, a recv and its send.         *)
(*                                                                         *)
(* Neither descriptor asks for POLLOUT (AppServer.lua:52), so out_callback *)
(* is never called and is left out. pollInCount is kept up to              *)
(* profilierEndCount + 1, which is all its one reader compares it with;    *)
(* the other statistics are left out.                                      *)
(***************************************************************************)
EXTENDS LibPoll, Sockets

CONSTANTS
    closeConnection,    \* argument 4 > 0: close after the answer
    useProfilier,       \* the loop ends after profilierEndCount (debug level < 0)
    profilierEndCount,
    Interrupts          \* whether poll may fail (a signal: EINTR)

ASSUME ServerAssumption ==
    /\ closeConnection \in BOOLEAN
    /\ useProfilier \in BOOLEAN
    /\ profilierEndCount \in Nat
    /\ Interrupts \in BOOLEAN

VARIABLES
    pc,            \* where the server is
    pos,           \* poll.poll's loop: index of the entry it is at (its i - 1)
    bound,         \* and nfds when the loop started, which ends it
    ret,           \* what poll returned
    pollInCount,
    snap           \* history: the entries as poll returned them

serverVars == <<pc, pos, bound, ret, pollInCount, snap>>
vars == <<tableVars, sockVars, serverVars>>

client_events == {"POLLIN"}
listen_events == {"POLLIN"}
Events == {"POLLIN", "POLLHUP", "POLLNVAL", "POLLERR"}

Scanning == pc \in {"scan", "accept", "recv", "send"}

\* The descriptor whose callback runs.
sock == fds[pos].fd

Init ==
    /\ SocketsInit
    /\ TableWith(ListenFd, listen_events)
    /\ pc = "poll"
    /\ pos = 0 /\ bound = 0 /\ ret = 0
    /\ pollInCount = 0
    /\ snap = [j \in {} |-> Fresh]

-----------------------------------------------------------------------------

\* error() is not caught: the process ends, and the kernel closes all it had.
Die ==
    /\ pc' = "dead"
    /\ CloseFds(Fd)
    /\ UNCHANGED <<pos, bound, ret, pollInCount, snap>>

\* close(sock): out of the table, then closed, and on with the caller. A
\* descriptor that is not in the table ends the process instead.
close(fd, onward) ==
    IF fd_arr_index(fd) >= 0
    THEN remove_fd(fd) /\ CloseFds({fd}) /\ onward
    ELSE remove_fd_missing(fd) /\ Die

NextEntry ==
    /\ pc' = "scan"
    /\ pos' = pos + 1
    /\ UNCHANGED <<bound, ret, snap>>

countPollIn ==
    pollInCount' = IF pollInCount > profilierEndCount THEN pollInCount
                   ELSE pollInCount + 1

\* until useProfilier and pollInCount > profilierEndCount
NextPoll ==
    pc' = IF useProfilier /\ pollInCount > profilierEndCount
          THEN "stop" ELSE "poll"

-----------------------------------------------------------------------------
(* poll.poll and the main loop *)

\* The kernel fills in revents of the first nfds entries. 0 is a timeout.
Poll ==
    /\ pc = "poll"
    /\ \E hup \in SUBSET Left, mute \in SUBSET Left :
         fds' = [j \in DOMAIN fds |->
                   IF j \in Live
                   THEN [fds[j] EXCEPT !.revents = Revents(fds[j], hup, mute)]
                   ELSE fds[j]]
    /\ ret' = Cardinality({j \in Live : fds'[j].revents # {}})
    /\ IF ret' = 0
       THEN NextPoll /\ UNCHANGED <<pos, bound, snap>>
       ELSE /\ pc' = "scan"
            /\ pos' = 0
            /\ bound' = nfds
            /\ snap' = [j \in Live |-> fds'[j]]
    /\ UNCHANGED <<nfds, fdsListSize, fdAddCount, fdRemoveCount, pollInCount>>
    /\ UNCHANGED sockVars

\* poll fails: socket.cleanup closes fds[0].fd and raises an error.
PollFails ==
    /\ pc = "poll"
    /\ Interrupts
    /\ Die
    /\ UNCHANGED <<tableVars, peer, unread, asked, sent, received>>

AtEntry == pc = "scan" /\ pos < bound
HasEvent(e) == e \in fds[pos].revents

ScanIdle ==
    /\ AtEntry
    /\ fds[pos].revents = {}
    /\ NextEntry
    /\ UNCHANGED <<tableVars, sockVars, pollInCount>>

\* served is never counted, so the loop does not end before its bound. Its
\* variables end with it.
ScanEnd ==
    /\ pc = "scan"
    /\ pos = bound
    /\ NextPoll
    /\ pos' = 0 /\ bound' = 0 /\ ret' = 0 /\ snap' = [j \in {} |-> Fresh]
    /\ UNCHANGED <<tableVars, sockVars, pollInCount>>

\* The loop looks at the same index again, where the moved entry is now.
Hangup_mutant ==
    /\ AtEntry
    /\ HasEvent("POLLHUP") \/ (HasEvent("POLLERR") /\ ~HasEvent("POLLIN"))
    /\ close(sock, UNCHANGED serverVars)
    /\ UNCHANGED <<peer, unread, asked, sent, received>>

\* close_callback, and error_callback when there is nothing to read either.
Hangup ==
    /\ AtEntry
    /\ \/ HasEvent("POLLHUP")
       \/ /\ ~HasEvent("POLLIN")
          /\ HasEvent("POLLNVAL") \/ HasEvent("POLLERR")
    /\ close(sock, NextEntry /\ UNCHANGED pollInCount)
    /\ UNCHANGED <<peer, unread, asked, sent, received>>

\* in_callback: the listening socket accepts, any other is answered.
Readable ==
    /\ AtEntry
    /\ HasEvent("POLLIN") /\ ~HasEvent("POLLHUP")
    /\ pc' = IF sock = ListenFd THEN "accept" ELSE "recv"
    /\ UNCHANGED <<tableVars, sockVars, pos, bound, ret, pollInCount, snap>>

-----------------------------------------------------------------------------
(* in_callback *)

\* The client's descriptor is watched for nothing.
Accept_mutant ==
    /\ pc = "accept"
    /\ \E fd \in Fd, c \in Client : AcceptGives(fd, c) /\ add_fd(fd, {})
    /\ UNCHANGED serverVars

Accept ==
    /\ pc = "accept"
    /\ \E fd \in Fd, c \in Client :
         AcceptGives(fd, c) /\ add_fd(fd, client_events)
    /\ UNCHANGED serverVars

\* The table is full and has no more memory: add_fd raises an error.
AcceptDies ==
    /\ pc = "accept"
    /\ \E fd \in Fd, c \in Client : CanAccept(fd, c) /\ add_fd_fails(fd)
    /\ Die
    /\ UNCHANGED <<peer, unread, asked, sent, received>>

\* accept's failure takes the listening socket out of the table.
AcceptEnd_mutant ==
    /\ pc = "accept"
    /\ remove_fd(sock)
    /\ AcceptFails
    /\ NextEntry
    /\ countPollIn

AcceptEnd ==
    /\ pc = "accept"
    /\ UNCHANGED tableVars
    /\ AcceptFails \/ \E c \in Client : AcceptAborts(c)
    /\ NextEntry
    /\ countPollIn

\* The end of the stream is answered, too.
Recv_mutant ==
    /\ pc = "recv"
    /\ \E c \in Client :
         /\ owner[sock] = c /\ peer[c] # "rst"
         /\ unread' = [unread EXCEPT ![c] = 0]
    /\ pc' = "send"
    /\ UNCHANGED <<tableVars, pos, bound, ret, pollInCount, snap>>
    /\ UNCHANGED <<owner, conn, peer, asked, sent, received>>

\* answer: recv returned data
Recv ==
    /\ pc = "recv"
    /\ \E c \in Client : owner[sock] = c /\ RecvData(c)
    /\ pc' = "send"
    /\ UNCHANGED <<tableVars, pos, bound, ret, pollInCount, snap>>

\* Only an error closes, not the end of the stream.
RecvClose_mutant ==
    /\ pc = "recv"
    /\ \A c \in Client : owner[sock] = c => RecvNothing(c)
    /\ UNCHANGED <<peer, unread, asked, sent, received>>
    /\ IF \E c \in Client : owner[sock] = c /\ peer[c] = "fin"
       THEN NextEntry /\ countPollIn /\ UNCHANGED <<tableVars, owner, conn>>
       ELSE close(sock, NextEntry /\ countPollIn)

\* answer: recv returned 0 or an error
RecvClose ==
    /\ pc = "recv"
    /\ \A c \in Client : owner[sock] = c => RecvNothing(c)
    /\ UNCHANGED <<peer, unread, asked, sent, received>>
    /\ close(sock, NextEntry /\ countPollIn)

\* The connection is closed when it was to be kept.
Send_mutant ==
    /\ pc = "send"
    /\ \E c \in Client : owner[sock] = c /\ SendData(c)
    /\ IF ~closeConnection
       THEN close(sock, NextEntry /\ countPollIn)
       ELSE /\ UNCHANGED <<tableVars, owner, conn>>
            /\ NextEntry /\ countPollIn

\* answer: the content is sent. Between send and close nothing is read.
Send ==
    /\ pc = "send"
    /\ \E c \in Client : owner[sock] = c /\ SendData(c)
    /\ IF closeConnection
       THEN close(sock, NextEntry /\ countPollIn)
       ELSE /\ UNCHANGED <<tableVars, owner, conn>>
            /\ NextEntry /\ countPollIn

\* answer: send fails; socket.cleanup closes the socket and raises an error.
SendFails ==
    /\ pc = "send"
    /\ \A c \in Client : owner[sock] = c => SendError(c)
    /\ Die
    /\ UNCHANGED <<tableVars, peer, unread, asked, sent, received>>

-----------------------------------------------------------------------------
(* After the loop *)

CloseListener ==
    /\ pc = "stop"
    /\ close(ListenFd, pc' = "drain"
                       /\ UNCHANGED <<pos, bound, ret, pollInCount, snap>>)
    /\ UNCHANGED <<peer, unread, asked, sent, received>>

\* The loop over the entries starts at 1.
RemoveAll_mutant ==
    /\ pc = "drain"
    /\ CloseFds({fds[j].fd : j \in Live \ {0}})
    /\ clear_all
    /\ pc' = "done"
    /\ UNCHANGED <<pos, bound, ret, pollInCount, snap>>
    /\ UNCHANGED <<peer, unread, asked, sent, received>>

RemoveAll ==
    /\ pc = "drain"
    /\ IF nfds > 0
       THEN CloseFds(Watched) /\ clear_all
       ELSE UNCHANGED <<tableVars, owner, conn>>
    /\ pc' = "done"
    /\ UNCHANGED <<pos, bound, ret, pollInCount, snap>>
    /\ UNCHANGED <<peer, unread, asked, sent, received>>

Server ==
    \/ Poll \/ PollFails \/ ScanIdle \/ ScanEnd \/ Hangup \/ Readable
    \/ Accept \/ AcceptDies \/ AcceptEnd \/ Recv \/ RecvClose \/ Send \/ SendFails
    \/ CloseListener \/ RemoveAll

Clients == ClientStep /\ UNCHANGED <<tableVars, serverVars>>

\* The process has ended and the clients may have nothing left to do.
Ended == pc \in {"dead", "done"} /\ UNCHANGED vars

Next == Server \/ Clients \/ Ended

Spec == Init /\ [][Next]_vars

\* The server process is scheduled; the clients owe nothing.
FairSpec == Spec /\ WF_vars(Server)

-----------------------------------------------------------------------------
(* Properties *)

Entry == [fd : Fd \cup {-1}, events : SUBSET {"POLLIN"}, revents : SUBSET Events]

TypeOK ==
    /\ SocketsTypeOK
    /\ fdsListSize \in Nat
    /\ pc # "dead" => fds \in [0 .. fdsListSize - 1 -> Entry]
    /\ nfds \in Nat /\ fdAddCount \in Nat /\ fdRemoveCount \in Nat
    /\ pc \in {"poll", "scan", "accept", "recv", "send", "stop", "drain",
              "done", "dead"}
    /\ pos \in Nat /\ bound \in Nat /\ ret \in Nat
    /\ pollInCount \in Nat
    /\ snap \in [0 .. bound - 1 -> Entry]

Running == pc \notin {"drain", "done", "dead"}

\* The table watches exactly the sockets the server has open: none is leaked
\* by a callback, none is watched after it was closed, through any order of
\* accepts and of closes in the middle and at the end of the table; and the
\* two counters that AppServer prints at its end tell how many are open.
TableIsOpenSockets ==
    pc # "dead" =>
        /\ Watched = OpenFds
        /\ fdAddCount - fdRemoveCount = Cardinality(OpenFds)

\* Every write of the table stays inside the allocated memory, also the one
\* of add_fd that does not look (a descriptor twice in the table), and the
\* loop of poll.poll reads only what was allocated. However many connections
\* come and go, that is not more than the descriptors and one growth need.
PollTableSafe ==
    /\ nfds <= fdsListSize
    /\ bound <= fdsListSize
    /\ fdsListSize < Cardinality(Fd) + fdsListAddCount
    /\ \A j, k \in Live : fds[j].fd = fds[k].fd => j = k

\* While poll.poll goes through the table the callbacks add and remove
\* entries, yet every entry still ahead is the one poll returned: the same
\* descriptor with its own events, still open on the same table. So each
\* event is dispatched once, to the descriptor it was reported for.
EventsStayWithTheirFd ==
    Scanning =>
        \A j \in pos .. bound - 1 : /\ fds[j] = snap[j]
                                    /\ fds[j].fd \in Watched

\* What the callback of the entry may still do: the accept loop goes on for
\* as long as it is given descriptors.
FreeFds == {fd \in Fd : owner[fd] = Free}
StepsAtEntry ==
    CASE pc = "scan" -> Cardinality(FreeFds) + 3
      [] pc = "accept" -> Cardinality(FreeFds) + 1
      [] pc = "recv" -> 2
      [] pc = "send" -> 1

\* The loop stays at an entry, but not for ever, whatever clients do.
StaysAtEntry ==
    /\ Scanning' /\ pos' = pos
    /\ StepsAtEntry' \in Nat
    /\ \/ StepsAtEntry' < StepsAtEntry
       \/ StepsAtEntry' = StepsAtEntry /\ UNCHANGED <<tableVars, serverVars>>

\* The loop leaves no event behind and stays at none: it goes from an entry
\* to the next, to its bound, and when it leaves an entry for which poll
\* reported an event the client has its answer or its connection is closed.
EventsAreServed ==
    [][Scanning =>
          \/ StaysAtEntry
          \/ ~Scanning' /\ pos = bound
          \/ pc' = "dead"
          \/ /\ Scanning' /\ pos < bound /\ pos' = pos + 1
             /\ \A c \in Client :
                   owner[snap[pos].fd] = c /\ snap[pos].revents # {} =>
                       sent'[c] = sent[c] + 1 \/ conn'[c] = "closed"]_vars

\* Between recv and send the server has one answer in hand.
Answering(c) == pc = "send" /\ owner[sock] = c
InFlight(c) == IF Answering(c) THEN 1 ELSE 0

\* No client gets more answers than it sent requests, and one that waits for
\* each answer gets one for each request: at rest, what was asked and not
\* thrown away by a reset has been answered.
OneAnswerEach ==
    \A c \in Client :
        /\ sent[c] <= asked[c]
        /\ (/\ MaxOutstanding = 1
            /\ conn[c] = "open" /\ peer[c] # "rst" /\ unread[c] = 0
            /\ ~Answering(c))
           => sent[c] = asked[c]

\* The reset may be the client's own doing.
MayHaveAborted(c) == c \in Aborting /\ peer[c] = "rst"
SendsAhead(c) == asked[c] > received[c] + 1

\* A client that waits for each answer before it asks again and that does not
\* abort, though it may close at any time, cannot stop the one thread that
\* all clients share: the recv on its descriptor never finds it silent, and
\* the send never meets a full buffer or a reset, with which it would block
\* or end the process. What the other clients do makes no difference, nor
\* whether the sockets block.
PoliteClientsCannotStopIt ==
    \A c \in Client :
        /\ pc = "recv" /\ owner[sock] = c => unread[c] > 0 \/ peer[c] # "up"
        /\ Answering(c) => CanSend(c) \/ SendsAhead(c) \/ MayHaveAborted(c)

\* The errors that end the process are those of poll, of a realloc for a
\* full table and of send: remove_fd's "Fd was not found", which any of the
\* callbacks that close could raise, is never reached.
ErrorsAreKnown ==
    [][pc # "dead" /\ pc' = "dead" =>
          /\ UNCHANGED fdRemoveCount
          /\ \/ pc = "poll" /\ Interrupts
             \/ pc = "accept" /\ ReallocFails /\ nfds = fdsListSize
             \/ pc = "send" /\ (\E c \in Client : owner[sock] = c /\ ~CanSend(c))]_vars

\* The server does not close on a client that is still there, except after
\* an answer when it was told to, or when it ends: an event is still good
\* when its callback comes to the recv.
NoSpuriousClose ==
    [][\A c \in Client :
         conn[c] = "open" /\ conn'[c] = "closed" =>
            \/ peer[c] # "up"
            \/ closeConnection /\ sent'[c] = sent[c] + 1
            \/ pc' \in {"dead", "done"}]_vars

\* The entries of the loop whose callbacks have not begun.
Ahead == (IF pc = "scan" THEN pos ELSE pos + 1) .. bound - 1

\* There is something to accept, to read, or to notice.
Ready(fd) ==
    \/ owner[fd] = Listener /\ Queued # {}
    \/ \E c \in Client : owner[fd] = c /\ (unread[c] > 0 \/ peer[c] # "up")

Phase ==
    IF pc = "poll" THEN "wait" ELSE IF Scanning THEN "round" ELSE "over"
ReadyFds == {fd \in Fd : Ready(fd)}
Todo ==
    IF Scanning THEN {fds[j].fd : j \in {k \in Ahead : fds[k].revents # {}}}
    ELSE {}
Now == IF pc \in {"accept", "recv", "send"} THEN {sock} ELSE {}

Loop == INSTANCE EventLoop WITH
          phase <- Phase, watched <- Watched, ready <- ReadyFds,
          todo <- Todo, now <- Now

\* The loop over the table is the loop of EventLoop: poll finds all that have
\* something to do, whatever was moved, added or removed before, each of
\* them has its callback once before the next poll, and no callback touches
\* the watch of another descriptor.
DispatchesEvents == Loop!Spec

\* The conversation as the two ends see it: a client that left has left,
\* although the server has still to notice and may send another answer.
Talk(c) ==
    IF conn[c] = "new" THEN "away"
    ELSE IF peer[c] # "up" THEN "left"
    ELSE IF conn[c] = "closed" THEN "dropped"
    ELSE "here"

\* The requests a client has not lost and not got an answer for: unread, or
\* read and about to be answered.
Owed(c) == IF Talk(c) = "here" THEN unread[c] + InFlight(c) ELSE 0

Service == INSTANCE RequestService WITH
             talk <- [c \in Client |-> Talk(c)],
             owed <- [c \in Client |-> Owed(c)],
             up <- pc \notin {"stop", "drain", "done", "dead"}

\* Clients are served as RequestService says, whatever others do to the
\* table: no request is answered twice or forgotten once it was read, those
\* that were read together get one answer, no answer goes to a client that
\* did not ask, and no client that is there is dropped.
ServesRequests == Service!Spec

\* Every request that waits on an accepted connection is read.
RequestsAreRead ==
    \A c \in Client : (conn[c] = "open" /\ unread[c] > 0)
                      ~> (unread[c] = 0 \/ conn[c] = "closed")

\* A connection its client has left is closed and its descriptor given back.
LeftIsClosed ==
    \A c \in Client : (conn[c] = "open" /\ peer[c] # "up") ~> conn[c] = "closed"

\* A client that connects is accepted, unless every descriptor is held by a
\* client that is there: those of clients that left are given out again.
HeldByOthers ==
    \A fd \in Fd \ {ListenFd} : \E c \in Client : owner[fd] = c /\ peer[c] = "up"
ConnectsAreAccepted ==
    \A c \in Client : conn[c] = "queued" ~> (conn[c] # "queued" \/ HeldByOthers)

\* The end of the program leaves no socket and no connection open, whatever
\* was open when the loop ended.
ShutdownClosesAll ==
    pc = "done" => OpenFds = {} /\ \A c \in Client : ~Reachable(c)

\* The comment of poll.poll: "loop all events, break loop as soon as
\* possible", that is once every event poll counted has been served.
BreaksWhenServed ==
    AtEntry => Cardinality({j \in 0 .. pos - 1 : snap[j].revents # {}}) < ret

\* The statistics printed at the end count the connections that were served.
StatsCountServed ==
    pc = "done" => fdAddCount > Cardinality({c \in Client : sent[c] > 0})
=============================================================================

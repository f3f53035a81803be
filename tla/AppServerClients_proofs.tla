---------------------- MODULE AppServerClients_proofs ----------------------
(***************************************************************************)
(* Theorems about what the clients of the server get, on top of those of   *)
(* AppServer_proofs about its table.                                       *)
(***************************************************************************)
EXTENDS AppServer_proofs

-----------------------------------------------------------------------------
(* The invariant *)

\* The events that are still to be dispatched have not gone stale: there is
\* something to read, or the client has left.
StillGood(revents, c) ==
    /\ revents # {} => unread[c] > 0 \/ peer[c] # "up"
    /\ revents \subseteq {"POLLIN"} \/ peer[c] # "up"

EventInv ==
    /\ Scanning =>
          \A j \in Ahead, c \in Client :
              owner[fds[j].fd] = c => StillGood(fds[j].revents, c)
    /\ pc = "recv" =>
          \A c \in Client : owner[sock] = c => unread[c] > 0 \/ peer[c] # "up"

\* Where the requests of a client are: answered, in the server's hands, or
\* still to be read. A client that waits for its answers has one under way.
AnswerInv ==
    \A c \in Client :
        /\ received[c] <= sent[c]
        /\ sent[c] + unread[c] + InFlight(c) <= asked[c]
        /\ asked[c] <= received[c] + MaxOutstanding
        /\ conn[c] = "new" => asked[c] = 0 /\ peer[c] = "up"
        /\ MaxOutstanding = 1 /\ conn[c] # "closed" /\ peer[c] # "rst"
              => asked[c] = sent[c] + unread[c] + InFlight(c)

\* A connection is reset by a client that aborts, or over an answer that its
\* client has not read.
ReachInv ==
    \A c \in Client \ Aborting : peer[c] = "rst" => received[c] < sent[c]

CInv == IInv /\ EventInv /\ AnswerInv /\ ReachInv

-----------------------------------------------------------------------------
(* The parts that steps have in common *)

\* The types of what is counted, in the two states of a step.
LEMMA Counts ==
    ASSUME IInv
    PROVE  /\ \A c \in Client : /\ received[c] \in Nat /\ sent[c] \in Nat
                                /\ asked[c] \in Nat /\ unread[c] \in Nat
                                /\ peer[c] \in {"up", "fin", "rst"}
                                /\ conn[c] \in {"new", "queued", "open", "closed"}
                                /\ InFlight(c) \in {0, 1}
           /\ MaxOutstanding \in Nat \ {0}
           /\ pos \in Nat /\ bound \in Nat /\ nfds \in Nat
BY SocketAssumption DEF IInv, Types, TypeOK, SocketsTypeOK, InFlight

\* A callback that is not the listening socket's runs for a client.
LEMMA SockIsClient ==
    ASSUME IInv, Scanning, pos < bound, sock # ListenFd
    PROVE  owner[sock] \in Client /\ conn[owner[sock]] = "open" /\ sock \in Fd
<1>1. sock \in Watched /\ sock \in Fd
  BY EntryIsBehind
<1>2. owner[sock] # Free
  BY <1>1, InvFacts DEF OpenFds, Scanning
<1>3. owner[sock] \in Client
  BY <1>1, <1>2, InvFacts DEF SocketsTypeOK, SocketInv
<1> QED BY <1>1, <1>3, InvFacts DEF SocketInv

\* Only the client of the callback changes its connection.
LEMMA CloseEntry ==
    ASSUME IInv, Scanning, pos < bound, sock # ListenFd,
           remove_fd(sock), CloseFds({sock}), NextEntry
    PROVE  /\ pc' = "scan" /\ pos' = pos + 1 /\ bound' = bound
           /\ conn'[owner[sock]] = "closed"
           /\ \A c \in Client \ {owner[sock]} : conn'[c] = conn[c]
           /\ \A j \in pos + 1 .. bound - 1 :
                 /\ fds'[j] = fds[j]
                 /\ owner'[fds[j].fd] = owner[fds[j].fd]
                 /\ owner[fds[j].fd] # owner[sock]
<1>1. pc' = "scan" /\ pos' = pos + 1 /\ bound' = bound
  BY DEF NextEntry
<1>2. owner[sock] \in Client /\ conn[owner[sock]] = "open" /\ sock \in Fd
  BY SockIsClient
<1>3. owner[sock] # Listener
  BY <1>2, SocketAssumption
<1>4. /\ owner' = [fd \in Fd |-> IF fd = sock THEN Free ELSE owner[fd]]
      /\ \A c \in Client : conn'[c] = IF owner[sock] = c THEN "closed" ELSE conn[c]
  BY <1>2, <1>3 DEF CloseFds
<1>5. ASSUME NEW j \in pos + 1 .. bound - 1
      PROVE  /\ fds'[j] = fds[j]
             /\ owner'[fds[j].fd] = owner[fds[j].fd]
             /\ owner[fds[j].fd] # owner[sock]
  <2>1. j \in pos .. bound - 1 /\ j \in 0 .. fdsListSize - 1
        /\ j \in Int /\ pos \in Int /\ j > pos
    BY Counts DEF IInv, TableInv, Types, TypeOK
  <2>2. fds[j].fd \in Watched /\ fds[j].fd # sock
    BY <2>1, EntryIsBehind DEF IInv, LoopInv
  <2>3. fds[j].fd \in Fd
    BY <2>2, InvFacts DEF Scanning
  <2>4. j # fd_arr_index(sock)
    <3>1. fd_arr_index(sock) \in Live /\ fd_arr_index(sock) <= pos
      BY EntryIsBehind
    <3> QED BY <2>1, <3>1 DEF Live
  <2>5. fds'[j] = fds[j]
    <3>1. /\ sock \in Watched /\ Distinct /\ -1 \in Descriptors
          /\ TableTypes(Descriptors, Requested, Returned)
      BY InvFacts, EntryIsBehind DEF Scanning
    <3> QED BY <2>1, <2>4, <3>1, RemoveFd
  <2>6. owner[fds[j].fd] # owner[sock]
    BY <1>2, <2>2, <2>3, InvFacts DEF SocketInv
  <2> QED BY <1>4, <2>2, <2>3, <2>5, <2>6
<1> QED BY <1>1, <1>2, <1>4, <1>5

\* Events stay fresh while entries stay what they are and nobody reads.
LEMMA EventsKept ==
    ASSUME EventInv, Scanning,
           \A j \in Ahead' : /\ j \in Ahead
                             /\ fds'[j] = fds[j]
                             /\ owner'[fds[j].fd] = owner[fds[j].fd],
           \A j \in Ahead', c \in Client : owner[fds[j].fd] = c =>
               /\ peer[c] # "up" => peer'[c] # "up"
               /\ unread[c] > 0 => unread'[c] > 0 \/ peer'[c] # "up"
    PROVE  \A j \in Ahead', c \in Client :
               owner'[fds'[j].fd] = c => StillGood(fds[j].revents, c)'
BY DEF EventInv, StillGood

\* A step that leaves the conversations alone.
LEMMA AnswersKept ==
    ASSUME CInv, UNCHANGED <<peer, unread, asked, sent, received>>,
           \A c \in Client :
               /\ conn'[c] = "new" => conn[c] = "new"
               /\ conn'[c] # "closed"
                     => conn[c] # "closed" /\ (Answering(c) => Answering(c)')
               /\ Answering(c)' => Answering(c)
    PROVE  AnswerInv' /\ ReachInv'
<1>1. ReachInv'
  BY DEF CInv, ReachInv
<1>2. ASSUME NEW c \in Client
      PROVE  /\ received'[c] <= sent'[c]
             /\ sent'[c] + unread'[c] + InFlight(c)' <= asked'[c]
             /\ asked'[c] <= received'[c] + MaxOutstanding
             /\ conn'[c] = "new" => asked'[c] = 0 /\ peer'[c] = "up"
             /\ MaxOutstanding = 1 /\ conn'[c] # "closed" /\ peer'[c] # "rst"
                   => asked'[c] = sent'[c] + unread'[c] + InFlight(c)'
  <2>1. /\ InFlight(c)' <= InFlight(c) /\ InFlight(c)' \in {0, 1}
        /\ conn'[c] # "closed" => InFlight(c)' = InFlight(c)
    BY DEF InFlight
  <2>2. /\ received[c] <= sent[c]
        /\ sent[c] + unread[c] + InFlight(c) <= asked[c]
        /\ asked[c] <= received[c] + MaxOutstanding
        /\ conn[c] = "new" => asked[c] = 0 /\ peer[c] = "up"
        /\ MaxOutstanding = 1 /\ conn[c] # "closed" /\ peer[c] # "rst"
              => asked[c] = sent[c] + unread[c] + InFlight(c)
    BY DEF CInv, AnswerInv
  <2> QED BY <2>1, <2>2, Counts DEF CInv
<1> QED BY <1>1, <1>2 DEF AnswerInv

\* The first state.
LEMMA InitClients == Init => CInv
<1> SUFFICES ASSUME Init PROVE CInv
  OBVIOUS
<1>1. IInv
  BY InitInv
<1>2. EventInv /\ ReachInv
  BY DEF Init, SocketsInit, EventInv, ReachInv, Scanning
<1>3. AnswerInv
  BY <1>1, Counts DEF Init, SocketsInit, AnswerInv, InFlight, Answering
<1> QED BY <1>1, <1>2, <1>3 DEF CInv

\* A step that ends the process.
LEMMA DieClients ==
    ASSUME CInv, IInv', Die, UNCHANGED <<peer, unread, asked, sent, received>>
    PROVE  CInv'
<1> USE SocketAssumption
<1>1. pc' = "dead" /\ CloseFds(Fd)
  BY DEF Die
<1>2. EventInv'
  BY <1>1 DEF EventInv, Scanning
<1>3. ASSUME NEW c \in Client
      PROVE  /\ conn'[c] = "new" => conn[c] = "new"
             /\ conn'[c] # "closed" => conn[c] # "closed" /\ ~Answering(c)
             /\ ~Answering(c)'
  <2>1. Answering(c) => conn[c] = "open"
    BY SockIsClient DEF CInv, IInv, LoopInv, Scanning, Answering
  <2>2. conn[c] = "open" => \E fd \in Fd : owner[fd] = c
    BY InvFacts DEF CInv, SocketInv
  <2>3. conn'[c] = IF \/ \E fd \in Fd : owner[fd] = c
                      \/ conn[c] = "queued" /\ \E fd \in Fd : owner[fd] = Listener
                   THEN "closed" ELSE conn[c]
    BY <1>1 DEF CloseFds
  <2> QED BY <1>1, <2>1, <2>2, <2>3 DEF Answering
<1> QED BY <1>2, <1>3, AnswersKept DEF CInv

-----------------------------------------------------------------------------
(* The server's steps *)

\* What poll returns is true when it returns.
LEMMA PollClients == ASSUME CInv, IInv', Poll PROVE CInv'
<1>1. /\ pc = "poll" /\ nfds \in Nat /\ nfds <= fdsListSize
      /\ Watched = OpenFds /\ Watched \subseteq Fd
      /\ fdsListSize \in Nat /\ fds \in [0 .. fdsListSize - 1 -> Entry]
      /\ UNCHANGED sockVars /\ pc' # "send" /\ pc' # "recv"
  BY InvFacts DEF Poll, NextPoll, CInv, IInv, Types, TypeOK
<1>2. AnswerInv' /\ ReachInv'
  <2>1. \A c \in Client : ~Answering(c) /\ ~Answering(c)'
    BY <1>1 DEF Answering
  <2> QED BY <1>1, <2>1, AnswersKept DEF sockVars
<1>3. PICK hup \in SUBSET Left, mute \in SUBSET Left :
        fds' = [j \in DOMAIN fds |->
                  IF j \in Live
                  THEN [fds[j] EXCEPT !.revents = Revents(fds[j], hup, mute)]
                  ELSE fds[j]]
  BY DEF Poll
<1>4. ASSUME Scanning', NEW j \in Ahead', NEW c \in Client, owner[fds'[j].fd] = c
      PROVE  StillGood(fds'[j].revents, c)
  <2>1. /\ ret' # 0 /\ pc' = "scan" /\ pos' = 0 /\ bound' = nfds
    BY <1>4 DEF Poll, NextPoll, Scanning
  <2>2. j \in Live /\ j \in 0 .. fdsListSize - 1
    BY <1>1, <2>1 DEF Ahead, Live
  <2>3. fds[j] \in Entry /\ fds'[j] = [fds[j] EXCEPT !.revents = Revents(fds[j], hup, mute)]
    BY <1>1, <1>3, <2>2
  <2>4. fds'[j].fd = fds[j].fd /\ fds'[j].revents = Revents(fds[j], hup, mute)
    BY <2>3 DEF Entry
  <2>5. owner[fds[j].fd] = c /\ c # Free /\ c # Listener
    BY <1>4, <2>4, SocketAssumption
  <2> DEFINE in(b) == IF b THEN {"POLLIN"} \cap fds[j].events ELSE {}
  <2>6. CASE peer[c] = "up"
    <3>1. Revents(fds[j], hup, mute) = in(unread[c] > 0)
      BY <2>5, <2>6 DEF Revents
    <3> QED BY <2>4, <2>6, <3>1 DEF StillGood
  <2>7. CASE peer[c] # "up"
    BY <2>7 DEF StillGood
  <2> QED BY <2>6, <2>7
<1>5. EventInv'
  BY <1>1, <1>4 DEF EventInv, StillGood, sockVars
<1> QED BY <1>2, <1>5 DEF CInv

\* A callback that closes its client's descriptor.
LEMMA CloseClients ==
    ASSUME CInv, IInv', Scanning, pos < bound, sock # ListenFd,
           remove_fd(sock), CloseFds({sock}), NextEntry,
           UNCHANGED <<peer, unread, asked, sent, received>>
    PROVE  CInv'
<1>1. IInv
  BY DEF CInv
<1>2. /\ pc' = "scan" /\ pos' = pos + 1 /\ bound' = bound
      /\ conn'[owner[sock]] = "closed"
      /\ \A c \in Client \ {owner[sock]} : conn'[c] = conn[c]
      /\ \A j \in pos + 1 .. bound - 1 :
            /\ fds'[j] = fds[j]
            /\ owner'[fds[j].fd] = owner[fds[j].fd]
  BY <1>1, CloseEntry
<1>3. AnswerInv' /\ ReachInv'
  BY <1>2, AnswersKept DEF Answering
<1>4. Ahead' = pos + 1 .. bound - 1 /\ Ahead' \subseteq Ahead
  BY <1>1, <1>2, Counts DEF Ahead
<1>5. EventInv'
  BY <1>2, <1>4, EventsKept DEF CInv, EventInv
<1> QED BY <1>3, <1>5 DEF CInv

\* A step of the loop that leaves table, descriptors and conversations alone.
LEMMA StepClients ==
    ASSUME CInv, IInv', Scanning, Scanning', pc # "send", pc' # "send",
           UNCHANGED <<tableVars, owner, peer, unread, asked, sent, received, bound>>,
           \A c \in Client : conn'[c] = conn[c] \/ conn'[c] = "closed",
           Ahead' \subseteq Ahead,
           pc' = "recv" => AtEntry /\ fds[pos].revents # {} /\ pos' = pos
    PROVE  CInv'
<1>1. AnswerInv' /\ ReachInv'
  BY AnswersKept DEF Answering
<1>2. Scanning' => \A j \in Ahead', c \in Client :
          owner'[fds'[j].fd] = c => StillGood(fds[j].revents, c)'
  BY EventsKept DEF CInv, tableVars
<1>3. pc' = "recv" =>
        \A c \in Client : owner'[sock'] = c => unread'[c] > 0 \/ peer'[c] # "up"
  <2> SUFFICES ASSUME pc' = "recv", NEW c \in Client, owner[sock] = c
               PROVE  unread[c] > 0 \/ peer[c] # "up"
    BY DEF sock, tableVars
  <2>1. pos \in Ahead
    BY Counts DEF AtEntry, Ahead, CInv
  <2> QED BY <2>1 DEF CInv, EventInv, StillGood, sock
<1> QED BY <1>1, <1>2, <1>3 DEF CInv, EventInv

\* An event that is not dispatched, or is to be.
LEMMA ScanClients ==
    ASSUME CInv, IInv', ScanIdle \/ Readable
    PROVE  CInv'
<1>1. /\ pc = "scan" /\ pos < bound /\ AtEntry
      /\ UNCHANGED <<tableVars, owner, conn, peer, unread, asked, sent, received, bound>>
      /\ \/ pc' = "scan" /\ pos' = pos + 1
         \/ /\ pc' \in {"accept", "recv"} /\ pos' = pos
            /\ fds[pos].revents # {}
  BY DEF ScanIdle, Readable, AtEntry, NextEntry, HasEvent, sockVars
<1>2. Ahead' \subseteq Ahead
  BY <1>1, Counts DEF Ahead, CInv
<1> QED BY <1>1, <1>2, StepClients DEF Scanning

\* The loop over the entries ends.
LEMMA ScanEndClients == ASSUME CInv, IInv', ScanEnd PROVE CInv'
<1>1. pc' \in {"stop", "poll"} /\ pc = "scan" /\ UNCHANGED sockVars
  BY DEF ScanEnd, NextPoll
<1>2. AnswerInv' /\ ReachInv'
  BY <1>1, AnswersKept DEF Answering, sockVars
<1> QED BY <1>1, <1>2 DEF CInv, EventInv, Scanning

\* accept fails.
LEMMA AcceptEndClients == ASSUME CInv, IInv', AcceptEnd PROVE CInv'
<1>1. /\ pc = "accept" /\ pc' = "scan" /\ pos' = pos + 1
      /\ UNCHANGED <<tableVars, owner, peer, unread, asked, sent, received, bound>>
      /\ \A c \in Client : conn'[c] = conn[c] \/ conn'[c] = "closed"
  BY DEF AcceptEnd, NextEntry, AcceptFails, AcceptAborts, sockVars, CInv, IInv, Types,
         TypeOK, SocketsTypeOK
<1>2. Ahead' \subseteq Ahead
  BY <1>1, Counts DEF Ahead, CInv
<1> QED BY <1>1, <1>2, StepClients DEF Scanning

\* A new client gets a descriptor that no entry ahead of the loop has.
LEMMA AcceptClients == ASSUME CInv, IInv', Accept PROVE CInv'
<1> USE SocketAssumption
<1>1. PICK fd \in Fd, c \in Client : AcceptGives(fd, c) /\ add_fd(fd, client_events)
  BY DEF Accept
<1>2. /\ pc = "accept" /\ pc' = pc /\ UNCHANGED serverVars /\ IInv
      /\ conn[c] = "queued" /\ owner[fd] = Free
      /\ owner' = [owner EXCEPT ![fd] = c]
      /\ conn' = [conn EXCEPT ![c] = "open"]
      /\ UNCHANGED <<peer, unread, asked, sent, received>>
  BY <1>1 DEF Accept, serverVars, CInv, AcceptGives, CanAccept
<1>3. SocketsTypeOK
  BY <1>2 DEF IInv, Types, TypeOK
<1>4. AnswerInv' /\ ReachInv'
  <2>1. \A d \in Client : /\ conn'[d] = "new" => conn[d] = "new"
                          /\ conn'[d] # "closed" => conn[d] # "closed"
    BY <1>2, <1>3 DEF SocketsTypeOK
  <2> QED BY <1>2, <2>1, AnswersKept DEF Answering
<1>5. ASSUME NEW j \in Ahead'
      PROVE  /\ j \in Ahead /\ fds'[j] = fds[j]
             /\ owner'[fds[j].fd] = owner[fds[j].fd]
  <2>1. /\ j \in Ahead /\ j \in pos .. bound - 1 /\ j \in pos' .. bound' - 1
    BY <1>2, Counts DEF Ahead, serverVars
  <2>2. Scanning /\ Scanning' /\ snap' = snap
    BY <1>2 DEF Scanning, serverVars
  <2>3. fds[j] = snap[j] /\ fds[j].fd \in Watched /\ fds'[j] = snap[j]
    BY <1>2, <2>1, <2>2 DEF IInv, LoopInv
  <2>4. fds[j].fd # fd /\ fds[j].fd \in Fd
    BY <1>2, <2>2, <2>3, InvFacts DEF OpenFds, Scanning
  <2> QED BY <1>2, <1>3, <2>1, <2>3, <2>4 DEF SocketsTypeOK
<1>6. EventInv'
  BY <1>2, <1>5, EventsKept DEF CInv, EventInv, Scanning
<1> QED BY <1>4, <1>6 DEF CInv

\* A connection that gives no data is closed.
LEMMA RecvCloseClients == ASSUME CInv, IInv', RecvClose PROVE CInv'
<1>1. /\ Scanning /\ pos < bound /\ sock # ListenFd /\ IInv
      /\ close(sock, NextEntry /\ countPollIn)
      /\ UNCHANGED <<peer, unread, asked, sent, received>>
  BY DEF RecvClose, Scanning, CInv, IInv, LoopInv
<1>2. remove_fd(sock) /\ CloseFds({sock}) /\ NextEntry
  BY <1>1, CloseFinds
<1> QED BY <1>1, <1>2, CloseClients

\* So is one that poll reports as left.
LEMMA HangupClients == ASSUME CInv, IInv', Hangup PROVE CInv'
<1>1. /\ pc = "scan" /\ Scanning /\ pos < bound /\ AtEntry /\ IInv
      /\ close(sock, NextEntry /\ UNCHANGED pollInCount)
      /\ UNCHANGED <<peer, unread, asked, sent, received>>
  BY DEF Hangup, AtEntry, Scanning, CInv
<1>2. sock # ListenFd
  BY <1>1, ListenerOnlyReads DEF Hangup, HasEvent
<1>3. remove_fd(sock) /\ CloseFds({sock}) /\ NextEntry
  BY <1>1, CloseFinds
<1> QED BY <1>1, <1>2, <1>3, CloseClients

\* recv takes what there is of one client.
LEMMA RecvClients == ASSUME CInv, IInv', Recv PROVE CInv'
<1>1. PICK c \in Client : owner[sock] = c /\ RecvData(c)
  BY DEF Recv
<1>2. /\ pc = "recv" /\ pc' = "send" /\ Scanning /\ Scanning'
      /\ pos < bound /\ sock # ListenFd /\ IInv
      /\ UNCHANGED <<tableVars, pos, bound, snap>>
      /\ peer[c] # "rst" /\ unread[c] > 0
      /\ unread' = [unread EXCEPT ![c] = 0]
      /\ UNCHANGED <<owner, conn, peer, asked, sent, received>>
  BY <1>1 DEF Recv, RecvData, Scanning, CInv, IInv, LoopInv
<1>3. SocketsTypeOK /\ SocketInv
  BY <1>2, InvFacts
<1>4. \A d \in Client : /\ ~Answering(d)
                        /\ Answering(d)' <=> d = c
  BY <1>1, <1>2 DEF Answering, sock, tableVars
<1>5. ReachInv'
  BY <1>2 DEF CInv, ReachInv
<1>6. AnswerInv'
  <2>1. ASSUME NEW d \in Client
        PROVE  /\ received'[d] <= sent'[d]
               /\ sent'[d] + unread'[d] + InFlight(d)' <= asked'[d]
               /\ asked'[d] <= received'[d] + MaxOutstanding
               /\ conn'[d] = "new" => asked'[d] = 0 /\ peer'[d] = "up"
               /\ MaxOutstanding = 1 /\ conn'[d] # "closed" /\ peer'[d] # "rst"
                     => asked'[d] = sent'[d] + unread'[d] + InFlight(d)'
    <3>1. /\ InFlight(d) = 0 /\ InFlight(d)' = IF d = c THEN 1 ELSE 0
          /\ unread'[d] = IF d = c THEN 0 ELSE unread[d]
      BY <1>2, <1>3, <1>4 DEF InFlight, SocketsTypeOK
    <3>2. /\ received[d] <= sent[d]
          /\ sent[d] + unread[d] + InFlight(d) <= asked[d]
          /\ asked[d] <= received[d] + MaxOutstanding
          /\ conn[d] = "new" => asked[d] = 0 /\ peer[d] = "up"
          /\ MaxOutstanding = 1 /\ conn[d] # "closed" /\ peer[d] # "rst"
                => asked[d] = sent[d] + unread[d] + InFlight(d)
      BY DEF CInv, AnswerInv
    <3> QED BY <1>2, <3>1, <3>2, Counts
  <2> QED BY <2>1 DEF AnswerInv
<1>7. EventInv'
  <2>1. Ahead' = Ahead
    BY <1>2 DEF Ahead
  <2>2. ASSUME NEW j \in Ahead PROVE owner[fds[j].fd] # c
    <3>1. /\ j \in pos + 1 .. bound - 1 /\ j \in pos .. bound - 1
      BY <1>2, Counts DEF Ahead
    <3>2. fds[j].fd \in Watched /\ fds[j].fd # sock
      BY <1>2, <3>1, EntryIsBehind DEF IInv, LoopInv
    <3>3. fds[j].fd \in Fd /\ sock \in Fd
      BY <1>2, <3>2, InvFacts, EntryIsBehind
    <3> QED BY <1>1, <1>3, <3>2, <3>3 DEF SocketInv
  <2>3. \A j \in Ahead', d \in Client : owner[fds[j].fd] = d =>
            unread'[d] = unread[d]
    BY <1>2, <1>3, <2>1, <2>2 DEF SocketsTypeOK
  <2> QED BY <1>2, <2>1, <2>3, EventsKept DEF CInv, EventInv, tableVars
<1> QED BY <1>5, <1>6, <1>7 DEF CInv

\* The answer that was under way is sent.
LEMMA SendClients == ASSUME CInv, IInv', Send PROVE CInv'
<1>1. PICK c \in Client : owner[sock] = c /\ SendData(c)
  BY DEF Send
<1>2. /\ pc = "send" /\ Scanning /\ pos < bound /\ sock # ListenFd /\ IInv
      /\ sent' = [sent EXCEPT ![c] = @ + 1]
      /\ UNCHANGED <<peer, unread, asked, received>>
  BY <1>1 DEF Send, SendData, Scanning, CInv, IInv, LoopInv
<1>3. SocketsTypeOK /\ SocketInv
  BY <1>2, InvFacts
<1>4. /\ pc' = "scan" /\ pos' = pos + 1 /\ bound' = bound
      /\ \A d \in Client : conn'[d] = conn[d] \/ (d = c /\ conn'[d] = "closed")
      /\ \A j \in pos + 1 .. bound - 1 :
            /\ fds'[j] = fds[j]
            /\ owner'[fds[j].fd] = owner[fds[j].fd]
  <2>1. CASE closeConnection
    <3>1. close(sock, NextEntry /\ countPollIn)
      BY <2>1 DEF Send
    <3>2. remove_fd(sock) /\ CloseFds({sock}) /\ NextEntry
      BY <1>2, <3>1, CloseFinds
    <3> QED BY <1>1, <1>2, <3>2, CloseEntry
  <2>2. CASE ~closeConnection
    BY <2>2 DEF Send, NextEntry, tableVars
  <2> QED BY <2>1, <2>2
<1>5. \A d \in Client : /\ Answering(d) <=> d = c
                        /\ ~Answering(d)'
  BY <1>1, <1>2, <1>4 DEF Answering
<1>6. ReachInv'
  <2> SUFFICES ASSUME NEW d \in Client \ Aborting, peer[d] = "rst"
               PROVE  received[d] < sent'[d]
    BY <1>2 DEF ReachInv
  <2>1. received[d] < sent[d]
    BY DEF CInv, ReachInv
  <2>2. sent'[d] = sent[d] \/ sent'[d] = sent[d] + 1
    BY <1>2, <1>3 DEF SocketsTypeOK
  <2>3. received[d] \in Nat /\ sent[d] \in Nat
    BY <1>2, Counts
  <2> QED BY <2>1, <2>2, <2>3
<1>7. AnswerInv'
  <2>1. ASSUME NEW d \in Client
        PROVE  /\ received'[d] <= sent'[d]
               /\ sent'[d] + unread'[d] + InFlight(d)' <= asked'[d]
               /\ asked'[d] <= received'[d] + MaxOutstanding
               /\ conn'[d] = "new" => asked'[d] = 0 /\ peer'[d] = "up"
               /\ MaxOutstanding = 1 /\ conn'[d] # "closed" /\ peer'[d] # "rst"
                     => asked'[d] = sent'[d] + unread'[d] + InFlight(d)'
    <3>1. /\ InFlight(d) = (IF d = c THEN 1 ELSE 0) /\ InFlight(d)' = 0
          /\ sent'[d] = IF d = c THEN sent[d] + 1 ELSE sent[d]
          /\ asked'[d] = asked[d] /\ received'[d] = received[d]
          /\ conn'[d] = conn[d] \/ conn'[d] = "closed"
          /\ d = c => conn[d] = "open"
      BY <1>1, <1>2, <1>3, <1>4, <1>5, SockIsClient DEF InFlight, SocketsTypeOK
    <3>2. /\ received[d] <= sent[d]
          /\ sent[d] + unread[d] + InFlight(d) <= asked[d]
          /\ asked[d] <= received[d] + MaxOutstanding
          /\ conn[d] = "new" => asked[d] = 0 /\ peer[d] = "up"
          /\ MaxOutstanding = 1 /\ conn[d] # "closed" /\ peer[d] # "rst"
                => asked[d] = sent[d] + unread[d] + InFlight(d)
      BY DEF CInv, AnswerInv
    <3>3. peer'[d] = peer[d] /\ unread'[d] = unread[d]
      BY <1>2
    <3>4. /\ received[d] \in Nat /\ sent[d] \in Nat
          /\ asked[d] \in Nat /\ unread[d] \in Nat /\ MaxOutstanding \in Nat
      BY <1>2, Counts
    <3>5. CASE d = c
      BY <3>1, <3>2, <3>3, <3>4, <3>5
    <3>6. CASE d # c
      <4>1. peer'[d] = peer[d] /\ unread'[d] = unread[d] /\ sent'[d] = sent[d]
        BY <3>1, <3>3, <3>6
      <4> QED BY <3>1, <3>2, <3>4, <3>6, <4>1
    <3> QED BY <3>5, <3>6
  <2> QED BY <2>1 DEF AnswerInv
<1>8. EventInv'
  <2>1. Ahead' = pos + 1 .. bound - 1 /\ Ahead = pos + 1 .. bound - 1
    BY <1>2, <1>4, Counts DEF Ahead
  <2>2. \A d \in Client : /\ peer[d] # "up" => peer'[d] # "up"
                          /\ unread[d] > 0 => unread'[d] > 0 \/ peer'[d] # "up"
    BY <1>2
  <2> QED BY <1>2, <1>4, <2>1, <2>2, EventsKept DEF CInv, EventInv
<1> QED BY <1>6, <1>7, <1>8 DEF CInv

\* The steps after the loop.
LEMMA StopClients ==
    ASSUME CInv, IInv', CloseListener \/ RemoveAll
    PROVE  CInv'
<1> USE SocketAssumption
<1>1. IInv /\ SocketsTypeOK
  BY InvFacts DEF CInv
<1>2. /\ pc # "send" /\ pc' \in {"drain", "done", "dead"}
      /\ UNCHANGED <<peer, unread, asked, sent, received>>
  BY DEF CloseListener, RemoveAll, close, Die
<1>3. \/ \E S \in SUBSET Fd : CloseFds(S)
      \/ UNCHANGED conn
  <2>1. CASE CloseListener
    BY <2>1 DEF CloseListener, close, Die
  <2>2. CASE RemoveAll
    BY <1>1, <2>2, InvFacts DEF RemoveAll
  <2> QED BY <2>1, <2>2
<1>4. \A c \in Client : conn'[c] = conn[c] \/ conn'[c] = "closed"
  BY <1>3 DEF CloseFds
<1>5. AnswerInv' /\ ReachInv'
  BY <1>2, <1>4, AnswersKept DEF Answering
<1> QED BY <1>2, <1>5 DEF CInv, EventInv, Scanning

-----------------------------------------------------------------------------
(* The clients' steps *)

\* A client adds to what it asked, takes from what it was sent, or leaves.
LEMMA ClientsClients == ASSUME CInv, IInv', Clients PROVE CInv'
<1>1. PICK c \in Client :
        Connect(c) \/ Request(c) \/ Receive(c) \/ Closes(c) \/ Breaks(c)
  BY ClientActs
<1>2. /\ IInv /\ SocketsTypeOK
      /\ UNCHANGED <<tableVars, serverVars, owner, sent>>
  BY <1>1, ClientActs, InvFacts DEF CInv, Connect, Request, Receive, Closes, Breaks, Lost
<1>3. /\ \A d \in Client : Answering(d)' <=> Answering(d)
      /\ Ahead' = Ahead /\ Scanning' = Scanning /\ sock' = sock
  BY <1>2 DEF Answering, Ahead, Scanning, sock, tableVars, serverVars
<1>4. ASSUME NEW d \in Client
      PROVE  /\ peer[d] # "up" => peer'[d] # "up"
             /\ unread[d] > 0 => unread'[d] > 0 \/ peer'[d] # "up"
             /\ d \notin Aborting /\ peer'[d] = "rst" => received'[d] < sent'[d]
             /\ received'[d] <= sent'[d]
             /\ sent'[d] + unread'[d] + InFlight(d)' <= asked'[d]
             /\ asked'[d] <= received'[d] + MaxOutstanding
             /\ conn'[d] = "new" => asked'[d] = 0 /\ peer'[d] = "up"
             /\ MaxOutstanding = 1 /\ conn'[d] # "closed" /\ peer'[d] # "rst"
                   => asked'[d] = sent'[d] + unread'[d] + InFlight(d)'
  <2>1. InFlight(d)' = InFlight(d) /\ InFlight(d) \in {0, 1}
    BY <1>3 DEF InFlight
  <2>2. /\ received[d] <= sent[d]
        /\ sent[d] + unread[d] + InFlight(d) <= asked[d]
        /\ asked[d] <= received[d] + MaxOutstanding
        /\ conn[d] = "new" => asked[d] = 0 /\ peer[d] = "up"
        /\ MaxOutstanding = 1 /\ conn[d] # "closed" /\ peer[d] # "rst"
              => asked[d] = sent[d] + unread[d] + InFlight(d)
        /\ d \notin Aborting /\ peer[d] = "rst" => received[d] < sent[d]
    BY DEF CInv, AnswerInv, ReachInv
  <2>3. /\ received[d] \in Nat /\ sent[d] \in Nat
        /\ asked[d] \in Nat /\ unread[d] \in Nat /\ MaxOutstanding \in Nat \ {0}
    BY <1>2, Counts
  <2> USE <1>2, <2>1, <2>2, <2>3 DEF SocketsTypeOK, Reachable, HasAnswer
  <2>4. CASE Connect(c)
    BY <2>4 DEF Connect
  <2>5. CASE Request(c)
    BY <2>5 DEF Request
  <2>6. CASE Receive(c)
    BY <2>6 DEF Receive
  <2>7. CASE Closes(c)
    BY <2>7 DEF Closes
  <2>8. CASE Breaks(c)
    BY <2>8 DEF Breaks, Lost
  <2> QED BY <1>1, <2>4, <2>5, <2>6, <2>7, <2>8
<1>5. AnswerInv' /\ ReachInv'
  BY <1>3, <1>4 DEF AnswerInv, ReachInv, CInv
<1>6. EventInv'
  <2>1. Scanning' => \A j \in Ahead', d \in Client :
            owner'[fds'[j].fd] = d => StillGood(fds[j].revents, d)'
    BY <1>2, <1>3, <1>4, EventsKept DEF CInv, tableVars
  <2>2. pc' = "recv" =>
          \A d \in Client : owner'[sock'] = d => unread'[d] > 0 \/ peer'[d] # "up"
    BY <1>2, <1>3, <1>4 DEF CInv, EventInv, serverVars
  <2> QED BY <2>1, <2>2 DEF EventInv
<1> QED BY <1>5, <1>6 DEF CInv

\* Every step keeps the invariant.
LEMMA NextClients == ASSUME CInv, [Next]_vars PROVE CInv'
<1>1. IInv /\ IInv'
  BY NextInv DEF CInv
<1>2. CASE PollFails \/ AcceptDies \/ SendFails
  BY <1>1, <1>2, DieClients DEF PollFails, AcceptDies, SendFails
<1>3. CASE UNCHANGED vars
  <2>1. UNCHANGED <<tableVars, sockVars, serverVars>>
    BY <1>3 DEF vars
  <2>2. EventInv'
    BY <2>1 DEF CInv, EventInv, Scanning, Ahead, sock, StillGood, tableVars, sockVars,
                serverVars
  <2>3. AnswerInv' /\ ReachInv'
    BY <2>1, AnswersKept DEF Answering, sock, tableVars, sockVars, serverVars
  <2> QED BY <1>1, <2>2, <2>3 DEF CInv
<1>4. CASE Server
  BY <1>1, <1>2, <1>4, PollClients, ScanClients, ScanEndClients, HangupClients,
     AcceptClients, AcceptEndClients, RecvClients, RecvCloseClients, SendClients,
     StopClients DEF Server
<1> QED BY <1>1, <1>3, <1>4, ClientsClients DEF Next, Ended

\* The invariant holds in every state.
LEMMA ClientsInvariance == Spec => []CInv
<1>1. Init => CInv
  BY InitClients
<1>2. CInv /\ [Next]_vars => CInv'
  BY NextClients
<1> QED BY <1>1, <1>2, PTL DEF Spec

-----------------------------------------------------------------------------
(* What the steps do to connections *)

\* The event that led to a close told the truth: the client had left.
LEMMA HangupIsDeserved ==
    ASSUME CInv, Hangup, NEW c \in Client, owner[sock] = c
    PROVE  peer[c] # "up"
<1>1. pc = "scan" /\ pos < bound /\ pos \in Ahead /\ Scanning
  BY Counts DEF Hangup, AtEntry, CInv, Ahead, Scanning
<1>2. ~(fds[pos].revents \subseteq {"POLLIN"})
  BY DEF Hangup, HasEvent
<1> QED BY <1>1, <1>2 DEF CInv, EventInv, StillGood, sock

\* So had one whose recv gives no data.
LEMMA RecvCloseIsDeserved ==
    ASSUME CInv, RecvClose, NEW c \in Client, owner[sock] = c
    PROVE  peer[c] # "up"
BY DEF RecvClose, RecvNothing, CInv, EventInv

\* A close in the loop is the close of the callback's client.
LEMMA LoopClose ==
    ASSUME CInv, Hangup \/ RecvClose, NEW c \in Client
    PROVE  /\ conn'[c] = conn[c] \/ (conn'[c] = "closed" /\ peer[c] # "up")
           /\ conn[c] = "new" => conn'[c] = "new"
           /\ pc' = "scan"
<1>1. /\ Scanning /\ pos < bound /\ sock # ListenFd /\ IInv
      /\ \E other \in {owner[sock]} : other = owner[sock]
  <2>1. CASE Hangup
    BY <2>1, ListenerOnlyReads DEF Hangup, HasEvent, AtEntry, Scanning, CInv
  <2>2. CASE RecvClose
    BY <2>2 DEF RecvClose, Scanning, CInv, IInv, LoopInv
  <2> QED BY <2>1, <2>2
<1>2. remove_fd(sock) /\ CloseFds({sock}) /\ NextEntry
  BY <1>1, CloseFinds DEF Hangup, RecvClose
<1>3. owner[sock] \in Client /\ conn[owner[sock]] = "open"
  BY <1>1, SockIsClient
<1>4. peer[owner[sock]] # "up"
  BY <1>3, HangupIsDeserved, RecvCloseIsDeserved
<1> QED BY <1>1, <1>2, <1>3, <1>4, CloseEntry

\* An answer goes to one client, which is left if the program was told to.
LEMMA SendEffect ==
    ASSUME CInv, Send, NEW c \in Client, owner[sock] = c
    PROVE  /\ conn[c] = "open" /\ pc = "send" /\ pc' = "scan"
           /\ Answering(c)
           /\ sent' = [sent EXCEPT ![c] = @ + 1]
           /\ UNCHANGED <<asked, received>>
           /\ UNCHANGED <<peer, unread>> /\ peer[c] # "rst"
           /\ \A d \in Client \ {c} : conn'[d] = conn[d]
           /\ conn'[c] = IF closeConnection THEN "closed" ELSE "open"
<1>1. SendData(c)
  BY DEF Send
<1>2. /\ pc = "send" /\ Scanning /\ pos < bound /\ sock # ListenFd /\ IInv
  BY DEF Send, Scanning, CInv, IInv, LoopInv
<1>3. conn[c] = "open" /\ SocketsTypeOK
  BY <1>2, SockIsClient, InvFacts
<1>4. CASE closeConnection
  <2>1. close(sock, NextEntry /\ countPollIn)
    BY <1>4 DEF Send
  <2>2. remove_fd(sock) /\ CloseFds({sock}) /\ NextEntry
    BY <1>2, <2>1, CloseFinds
  <2>3. conn'[c] = "closed" /\ pc' = "scan" /\ \A d \in Client \ {c} : conn'[d] = conn[d]
    BY <1>2, <2>2, CloseEntry
  <2> QED BY <1>1, <1>2, <1>3, <1>4, <2>3 DEF SendData, CanSend, SocketsTypeOK, Answering
<1>5. CASE ~closeConnection
  <2>1. UNCHANGED conn /\ pc' = "scan"
    BY <1>5 DEF Send, NextEntry
  <2> QED BY <1>1, <1>2, <1>3, <1>5, <2>1 DEF SendData, CanSend, SocketsTypeOK, Answering
<1> QED BY <1>4, <1>5

\* The steps that end the program close what they close; no client is new
\* after it came.
LEMMA EndEffect ==
    ASSUME CInv, PollFails \/ AcceptDies \/ SendFails \/ CloseListener \/ RemoveAll,
           NEW c \in Client
    PROVE  /\ conn'[c] = conn[c] \/ conn'[c] = "closed"
           /\ conn[c] = "new" => conn'[c] = "new"
           /\ UNCHANGED <<peer, asked, sent>>
           /\ pc' \in {"drain", "done", "dead"}
           /\ conn[c] = "open" /\ conn'[c] = "closed" => pc' \in {"done", "dead"}
           /\ conn'[c] # "closed" => unread'[c] = unread[c] /\ InFlight(c)' = InFlight(c)
<1> USE SocketAssumption
<1>1. IInv /\ SocketsTypeOK /\ SocketInv
  BY InvFacts DEF CInv
<1>2. \A fd \in Fd : owner[fd] = c => conn[c] = "open"
  BY <1>1 DEF SocketInv
<1>3. \A S \in SUBSET Fd : CloseFds(S) =>
         /\ conn'[c] = conn[c] \/ (conn'[c] = "closed" /\ conn[c] # "new")
         /\ conn[c] = "open" /\ conn'[c] = "closed" => \E fd \in S : owner[fd] = c
  BY <1>2 DEF CloseFds
<1>4. UNCHANGED <<peer, unread, asked, sent>> /\ pc' # "send"
  BY DEF PollFails, AcceptDies, SendFails, CloseListener, RemoveAll, close, Die
<1>5. conn'[c] # "closed" => InFlight(c)' = InFlight(c)
  <2>1. CASE ~Answering(c)
    BY <1>4, <2>1 DEF Answering, InFlight
  <2>2. CASE Answering(c)
    <3>1. SendFails
      BY <2>2 DEF Answering, PollFails, AcceptDies, CloseListener, RemoveAll
    <3>2. sock \in Fd /\ owner[sock] = c
      BY <1>1, <2>2, <3>1, SockIsClient DEF Answering, Scanning, IInv, LoopInv
    <3> QED BY <3>1, <3>2 DEF SendFails, Die, CloseFds
  <2> QED BY <2>1, <2>2
<1>6. CASE PollFails \/ AcceptDies \/ SendFails
  BY <1>3, <1>4, <1>5, <1>6 DEF PollFails, AcceptDies, SendFails, Die
<1>7. CASE CloseListener
  <2>1. owner[ListenFd] = Listener
    BY <1>1, <1>7 DEF CloseListener, IInv, ListenInv
  <2> QED BY <1>3, <1>4, <1>5, <1>7, <2>1 DEF CloseListener, close, Die
<1>8. CASE RemoveAll
  BY <1>1, <1>3, <1>4, <1>5, <1>8, InvFacts DEF RemoveAll
<1> QED BY <1>6, <1>7, <1>8

\* The other steps of the server close at most a connection that was reset.
LEMMA QuietEffect ==
    ASSUME CInv, NEW c \in Client,
           \/ Poll \/ ScanIdle \/ ScanEnd \/ Readable \/ Accept \/ AcceptEnd \/ Recv
           \/ Ended \/ UNCHANGED vars
    PROVE  /\ \/ conn'[c] = conn[c]
              \/ conn[c] = "queued" /\ conn'[c] = "open"
              \/ conn[c] = "queued" /\ conn'[c] = "closed" /\ peer[c] # "up"
           /\ UNCHANGED <<peer, asked, sent>>
           /\ ~Recv => unread'[c] = unread[c] /\ InFlight(c)' = InFlight(c)
<1>1. SocketsTypeOK
  BY InvFacts DEF CInv
<1>2. CASE Accept
  BY <1>1, <1>2 DEF Accept, AcceptGives, CanAccept, SocketsTypeOK, InFlight, Answering, serverVars
<1>3. CASE AcceptEnd
  BY <1>1, <1>3 DEF AcceptEnd, AcceptFails, AcceptAborts, sockVars, SocketsTypeOK,
                    NextEntry, InFlight, Answering
<1>4. CASE Recv
  BY <1>4 DEF Recv, RecvData
<1>5. CASE Poll \/ ScanIdle \/ ScanEnd \/ Readable
  BY <1>5 DEF Poll, ScanIdle, ScanEnd, Readable, AtEntry, NextEntry, NextPoll, sockVars,
              InFlight, Answering
<1>6. CASE Ended \/ UNCHANGED vars
  BY <1>6 DEF Ended, vars, sockVars, tableVars, serverVars, InFlight, Answering, sock
<1> QED BY <1>2, <1>3, <1>4, <1>5, <1>6

-----------------------------------------------------------------------------
(* The theorems *)

\* No client has more answers than requests, and one that waits for its
\* answers has one for each.
THEOREM AnswersMatchRequests == Spec => []OneAnswerEach
<1>1. CInv => OneAnswerEach
  <2> SUFFICES ASSUME CInv, NEW c \in Client
               PROVE  /\ sent[c] <= asked[c]
                      /\ (/\ MaxOutstanding = 1
                          /\ conn[c] = "open" /\ peer[c] # "rst" /\ unread[c] = 0
                          /\ ~Answering(c))
                         => sent[c] = asked[c]
    BY DEF OneAnswerEach
  <2>1. /\ sent[c] \in Nat /\ asked[c] \in Nat /\ unread[c] \in Nat
        /\ InFlight(c) \in {0, 1}
    BY Counts DEF CInv
  <2>2. /\ sent[c] + unread[c] + InFlight(c) <= asked[c]
        /\ MaxOutstanding = 1 /\ conn[c] # "closed" /\ peer[c] # "rst"
              => asked[c] = sent[c] + unread[c] + InFlight(c)
    BY DEF CInv, AnswerInv
  <2>3. ~Answering(c) => InFlight(c) = 0
    BY DEF InFlight
  <2> QED BY <2>1, <2>2, <2>3
<1> QED BY <1>1, ClientsInvariance, PTL

\* What the server may close in a step.
LEMMA ClosesWithReason ==
    ASSUME CInv, [Next]_vars, NEW c \in Client, conn[c] = "open", conn'[c] = "closed"
    PROVE  \/ peer[c] # "up"
           \/ closeConnection /\ sent'[c] = sent[c] + 1
           \/ pc' \in {"dead", "done"}
<1>1. CASE Hangup \/ RecvClose
  BY <1>1, LoopClose
<1>2. CASE Send
  <2>1. PICK d \in Client : owner[sock] = d
    BY <1>2 DEF Send
  <2>2. SocketsTypeOK
    BY InvFacts DEF CInv
  <2> QED BY <1>2, <2>1, <2>2, SendEffect DEF SocketsTypeOK
<1>3. CASE PollFails \/ AcceptDies \/ SendFails \/ CloseListener \/ RemoveAll
  BY <1>3, EndEffect
<1>4. CASE \/ Poll \/ ScanIdle \/ ScanEnd \/ Readable \/ Accept \/ AcceptEnd \/ Recv
           \/ Ended \/ UNCHANGED vars
  BY <1>4, QuietEffect
<1>5. CASE Clients
  <2>1. SocketsTypeOK
    BY InvFacts DEF CInv
  <2> QED BY <1>5, <2>1, ClientActs DEF Connect, Request, Receive, Closes, Breaks, Lost,
             SocketsTypeOK
<1> QED BY <1>1, <1>2, <1>3, <1>4, <1>5 DEF Next, Server

\* The server does not close on a client that is still there.
THEOREM LiveClientsAreKept == Spec => NoSpuriousClose
<1>1. CInv /\ [Next]_vars
        => [\A c \in Client :
              conn[c] = "open" /\ conn'[c] = "closed" =>
                 \/ peer[c] # "up"
                 \/ closeConnection /\ sent'[c] = sent[c] + 1
                 \/ pc' \in {"dead", "done"}]_vars
  BY ClosesWithReason
<1> QED BY <1>1, ClientsInvariance, PTL DEF Spec, NoSpuriousClose

\* The loop leaves an entry for the next, with the client of an event served
\* or its connection closed.
GoesOn ==
    /\ Scanning' /\ pos < bound /\ pos' = pos + 1
    /\ \A c \in Client :
          owner[snap[pos].fd] = c /\ snap[pos].revents # {} =>
              sent'[c] = sent[c] + 1 \/ conn'[c] = "closed"

\* The entry the loop is at is the one poll returned.
LEMMA EntryIsSnap ==
    ASSUME IInv, Scanning, pos < bound
    PROVE  fds[pos] = snap[pos]
<1>1. pos \in pos .. bound - 1
  BY Counts
<1> QED BY <1>1 DEF IInv, LoopInv

\* What becomes of the entry in the steps that leave it.
LEMMA EntryIsServed ==
    ASSUME CInv, ScanIdle \/ AcceptEnd \/ Hangup \/ RecvClose \/ Send
    PROVE  GoesOn
<1>1. IInv /\ Scanning /\ pos < bound
  BY DEF CInv, IInv, LoopInv, ScanIdle, AcceptEnd, Hangup, RecvClose, Send, AtEntry,
         Scanning
<1>2. fds[pos] = snap[pos]
  BY <1>1, EntryIsSnap
<1>3. CASE ScanIdle
  BY <1>1, <1>2, <1>3 DEF ScanIdle, NextEntry, GoesOn, Scanning
<1>4. CASE AcceptEnd
  <2>1. sock = ListenFd /\ owner[sock] = Listener /\ NextEntry
    BY <1>1, <1>4 DEF AcceptEnd, IInv, LoopInv, ListenInv
  <2>2. owner[snap[pos].fd] = Listener
    BY <1>2, <2>1 DEF sock
  <2> QED BY <1>1, <2>1, <2>2, SocketAssumption DEF NextEntry, GoesOn, Scanning
<1>5. CASE Hangup \/ RecvClose
  <2>1. sock # ListenFd
    BY <1>1, <1>5, ListenerOnlyReads DEF Hangup, HasEvent, RecvClose, IInv, LoopInv
  <2>2. remove_fd(sock) /\ CloseFds({sock}) /\ NextEntry
    BY <1>1, <1>5, CloseFinds DEF Hangup, RecvClose
  <2>3. conn'[owner[sock]] = "closed"
    BY <1>1, <2>1, <2>2, CloseEntry
  <2> QED BY <1>1, <1>2, <2>2, <2>3 DEF NextEntry, GoesOn, Scanning, sock
<1>6. CASE Send
  <2>1. PICK c \in Client : owner[sock] = c
    BY <1>6 DEF Send
  <2>2. sent'[c] = sent[c] + 1
    BY <1>1, <1>6, <2>1, SendEffect, InvFacts DEF SocketsTypeOK
  <2>3. NextEntry
    BY <1>1, <1>6, CloseFinds DEF Send
  <2> QED BY <1>1, <1>2, <2>1, <2>2, <2>3 DEF NextEntry, GoesOn, Scanning, sock
<1> QED BY <1>3, <1>4, <1>5, <1>6

\* What the callback may still do is a number, and less with every step of it.
LEMMA StaysShort ==
    ASSUME CInv, [Next]_vars, Scanning,
           Readable \/ Accept \/ Recv \/ Clients \/ Ended \/ UNCHANGED vars
    PROVE  StaysAtEntry
<1> USE SocketAssumption
<1>1. /\ IsFiniteSet(FreeFds) /\ FreeFds \in SUBSET Fd
      /\ Cardinality(FreeFds) \in Nat
      /\ IInv /\ SocketsTypeOK
  <2>1. FreeFds \in SUBSET Fd
    BY DEF FreeFds
  <2> QED BY <2>1, FS_Subset, FS_CardinalityType, InvFacts DEF CInv
<1>2. CASE Readable
  <2>1. /\ pc = "scan" /\ pc' \in {"accept", "recv"} /\ pos' = pos
        /\ FreeFds' = FreeFds
    BY <1>2 DEF Readable, AtEntry, FreeFds, sockVars
  <2>2. /\ StepsAtEntry = Cardinality(FreeFds) + 3
        /\ StepsAtEntry' \in {Cardinality(FreeFds) + 1, 2}
    BY <2>1 DEF StepsAtEntry
  <2> QED BY <1>1, <2>1, <2>2 DEF StaysAtEntry, Scanning
<1>3. CASE Accept
  <2>1. PICK fd \in Fd, c \in Client : AcceptGives(fd, c)
    BY <1>3 DEF Accept
  <2>2. /\ pc = "accept" /\ pc' = "accept" /\ pos' = pos
        /\ fd \in FreeFds /\ FreeFds' = FreeFds \ {fd}
    BY <1>1, <1>3, <2>1 DEF Accept, AcceptGives, CanAccept, FreeFds, serverVars, SocketsTypeOK
  <2>3. /\ Cardinality(FreeFds') = Cardinality(FreeFds) - 1
        /\ Cardinality(FreeFds') \in Nat
    BY <1>1, <2>2, FS_RemoveElement, FS_CardinalityType
  <2>4. /\ StepsAtEntry = Cardinality(FreeFds) + 1
        /\ StepsAtEntry' = Cardinality(FreeFds') + 1
    BY <2>2 DEF StepsAtEntry
  <2> QED BY <1>1, <2>2, <2>3, <2>4 DEF StaysAtEntry, Scanning
<1>4. CASE Recv
  <2>1. pc = "recv" /\ pc' = "send" /\ pos' = pos
    BY <1>4 DEF Recv
  <2>2. StepsAtEntry = 2 /\ StepsAtEntry' = 1
    BY <2>1 DEF StepsAtEntry
  <2> QED BY <2>1, <2>2 DEF StaysAtEntry, Scanning
<1>5. CASE Clients \/ Ended \/ UNCHANGED vars
  <2>1. UNCHANGED <<tableVars, serverVars, owner>>
    BY <1>5, ClientActs DEF Connect, Request, Receive, Closes, Breaks, Lost, Ended,
                            vars, sockVars
  <2>2. pc' = pc /\ pos' = pos /\ FreeFds' = FreeFds
    BY <2>1 DEF serverVars, FreeFds
  <2>3. StepsAtEntry' = StepsAtEntry
    BY <2>2 DEF StepsAtEntry
  <2>4. StepsAtEntry \in Nat
    <3>1. pc \in {"scan", "accept", "recv", "send"}
      BY DEF Scanning
    <3>2. StepsAtEntry \in {Cardinality(FreeFds) + 3, Cardinality(FreeFds) + 1, 2, 1}
      BY <3>1 DEF StepsAtEntry
    <3> QED BY <1>1, <3>2
  <2> QED BY <2>1, <2>2, <2>3, <2>4 DEF StaysAtEntry, Scanning
<1> QED BY <1>2, <1>3, <1>4, <1>5

\* The loop of poll.poll serves every event that poll reported, and stays at
\* none of them.
THEOREM EveryEventIsServed == Spec => EventsAreServed
<1> DEFINE Served == \/ StaysAtEntry
                     \/ ~Scanning' /\ pos = bound
                     \/ pc' = "dead"
                     \/ GoesOn
<1>1. ASSUME CInv, [Next]_vars, Scanning PROVE Served
  <2>1. CASE ScanIdle \/ AcceptEnd \/ Hangup \/ RecvClose \/ Send
    BY <1>1, <2>1, EntryIsServed
  <2>2. CASE Readable \/ Accept \/ Recv \/ Clients \/ Ended \/ UNCHANGED vars
    BY <1>1, <2>2, StaysShort
  <2>3. CASE ScanEnd
    BY <2>3 DEF ScanEnd, NextPoll, Scanning
  <2>4. CASE PollFails \/ AcceptDies \/ SendFails
    BY <2>4 DEF PollFails, AcceptDies, SendFails, Die
  <2>5. ~Poll /\ ~CloseListener /\ ~RemoveAll
    BY <1>1 DEF Poll, CloseListener, RemoveAll, Scanning
  <2> QED BY <1>1, <2>1, <2>2, <2>3, <2>4, <2>5 DEF Next, Server
<1>2. CInv /\ [Next]_vars
        => [Scanning =>
              \/ StaysAtEntry
              \/ ~Scanning' /\ pos = bound
              \/ pc' = "dead"
              \/ /\ Scanning' /\ pos < bound /\ pos' = pos + 1
                 /\ \A c \in Client :
                       owner[snap[pos].fd] = c /\ snap[pos].revents # {} =>
                           sent'[c] = sent[c] + 1 \/ conn'[c] = "closed"]_vars
  BY <1>1 DEF GoesOn
<1> QED BY <1>2, ClientsInvariance, PTL DEF Spec, EventsAreServed

\* A client that waits for its answers has read all but the one in hand, so
\* its buffer has room for that, and nothing of its own can have reset it.
LEMMA PoliteIsSent ==
    ASSUME CInv, NEW c \in Client, Answering(c), ~SendsAhead(c), ~MayHaveAborted(c)
    PROVE  CanSend(c)
<1>1. /\ received[c] \in Nat /\ sent[c] \in Nat /\ asked[c] \in Nat
      /\ unread[c] \in Nat
  BY Counts DEF CInv
<1>2. received[c] <= sent[c] /\ sent[c] + unread[c] + 1 <= asked[c]
  BY DEF CInv, AnswerInv, InFlight
<1>3. sent[c] = received[c]
  <2>1. asked[c] <= received[c] + 1
    BY <1>1 DEF SendsAhead
  <2> QED BY <1>1, <1>2, <2>1
<1>4. peer[c] # "rst"
  BY <1>1, <1>3 DEF CInv, ReachInv, MayHaveAborted
<1> QED BY <1>1, <1>3, <1>4, SocketAssumption DEF CanSend

\* Clients that wait for each answer and do not abort can neither end the
\* server nor let it wait, whenever they close and however many others there
\* are, that send ahead, abort and fill their buffers.
THEOREM PoliteClientsAreHarmless == Spec => []PoliteClientsCannotStopIt
<1>1. CInv => PoliteClientsCannotStopIt
  BY PoliteIsSent DEF CInv, EventInv, PoliteClientsCannotStopIt
<1> QED BY <1>1, ClientsInvariance, PTL

-----------------------------------------------------------------------------
(* The server serves *)

IsUp == pc \notin {"stop", "drain", "done", "dead"}
Talks == [c \in Client |-> Talk(c)]
Debts == [c \in Client |-> Owed(c)]

\* Nobody has come yet.
LEMMA ServiceInit == Init => Service!Init
BY DEF Init, SocketsInit, Service!Init, Talk, Owed

\* A step in which nobody speaks: conversations stay, or end with the server.
LEMMA NobodySpeaks ==
    ASSUME \A c \in Client : \/ Talk(c)' = Talk(c) /\ Owed(c)' = Owed(c)
                             \/ Talk(c)' = "dropped" /\ Talk(c) = "here",
           IsUp' => IsUp /\ \A c \in Client : Talk(c)' = Talk(c)
    PROVE  [Service!Next]_(Service!vars)
<1>1. CASE IsUp'
  <2>1. \A c \in Client : Talk(c)' = Talk(c) /\ Owed(c)' = Owed(c)
    BY <1>1
  <2> QED BY <1>1, <2>1 DEF Service!vars, IsUp
<1>2. CASE ~IsUp'
  <2> DEFINE S == {c \in Client : Talk(c)' # Talk(c)}
  <2>1. S \in SUBSET {c \in Client : Talks[c] = "here"}
    BY DEF Talks
  <2>2. Talks' = [c \in Client |-> IF c \in S THEN "dropped" ELSE Talks[c]]
    BY DEF Talks
  <2>3. Debts' = [c \in Client |-> IF c \in S THEN 0 ELSE Debts[c]]
    BY DEF Debts, Owed
  <2>4. Service!End
    BY <1>2, <2>1, <2>2, <2>3 DEF Service!End, Service!Here, Service!Drop, IsUp, Talks, Debts
  <2> QED BY <2>4 DEF Service!Next
<1> QED BY <1>1, <1>2

\* A step that concerns one client.
LEMMA OneSpeaks ==
    ASSUME NEW c \in Client,
           \A d \in Client \ {c} : Talk(d)' = Talk(d) /\ Owed(d)' = Owed(d)
    PROVE  /\ Talks' = [Talks EXCEPT ![c] = Talk(c)'] /\ Talks[c] = Talk(c)
           /\ Debts' = [Debts EXCEPT ![c] = Owed(c)'] /\ Debts[c] = Owed(c)
           /\ Talk(c)' = Talk(c) => UNCHANGED Talks
           /\ Owed(c)' = Owed(c) => UNCHANGED Debts
           /\ Talk(c)' = "dropped" /\ Owed(c)' = 0 =>
                 /\ Talks' = [d \in Client |-> IF d \in {c} THEN "dropped" ELSE Talks[d]]
                 /\ Debts' = [d \in Client |-> IF d \in {c} THEN 0 ELSE Debts[d]]
BY DEF Talks, Debts

\* What is owed is bounded by what may be outstanding.
LEMMA DebtIsBounded ==
    ASSUME CInv, NEW c \in Client
    PROVE  /\ Owed(c) \in Nat
           /\ unread[c] + InFlight(c) <= asked[c] - received[c]
<1>1. /\ received[c] <= sent[c]
      /\ sent[c] + unread[c] + InFlight(c) <= asked[c]
  BY DEF CInv, AnswerInv
<1> QED BY <1>1, Counts DEF CInv, Owed

\* A step of a client is one it may take.
LEMMA ClientServed ==
    ASSUME CInv, Clients
    PROVE  [Service!Next]_(Service!vars)
<1>1. PICK c \in Client :
        Connect(c) \/ Request(c) \/ Receive(c) \/ Closes(c) \/ Breaks(c)
  BY ClientActs
<1>2. /\ SocketsTypeOK /\ IInv
      /\ UNCHANGED <<tableVars, serverVars, owner, sent>> /\ IsUp' = IsUp
  BY <1>1, ClientActs, InvFacts
     DEF CInv, Connect, Request, Receive, Closes, Breaks, Lost, serverVars, IsUp
<1>3. /\ conn[c] = "new" => unread[c] = 0 /\ InFlight(c) = 0 /\ peer[c] = "up"
      /\ unread[c] + InFlight(c) <= asked[c] - received[c]
      /\ received[c] \in Nat /\ asked[c] \in Nat /\ unread[c] \in Nat
      /\ InFlight(c) \in {0, 1} /\ MaxOutstanding \in Nat
  <2>1. /\ conn[c] = "new" => asked[c] = 0 /\ peer[c] = "up"
        /\ sent[c] + unread[c] + InFlight(c) <= asked[c]
    BY DEF CInv, AnswerInv
  <2> QED BY <1>2, <2>1, Counts, DebtIsBounded
<1>4. \A d \in Client : InFlight(d)' = InFlight(d)
  BY <1>2 DEF InFlight, Answering, sock, tableVars, serverVars
<1>5. \/ Talk(c)' = Talk(c) /\ Owed(c)' = Owed(c)
      \/ Talk(c) = "away" /\ Talk(c)' = "here" /\ Owed(c)' = Owed(c)
      \/ /\ Talk(c) = "here" /\ Talk(c)' = "here"
         /\ Owed(c) < MaxOutstanding /\ Owed(c)' = Owed(c) + 1
      \/ Talk(c) = "here" /\ Talk(c)' = "left" /\ Owed(c)' = 0
  <2> USE <1>2, <1>3, <1>4 DEF SocketsTypeOK, Talk, Owed, Reachable
  <2>1. CASE Connect(c)
    BY <2>1 DEF Connect
  <2>2. CASE Request(c)
    BY <2>2 DEF Request
  <2>3. CASE Receive(c)
    BY <2>3 DEF Receive
  <2>4. CASE Closes(c)
    BY <2>4 DEF Closes
  <2>5. CASE Breaks(c)
    BY <2>5 DEF Breaks, Lost
  <2> QED BY <1>1, <2>1, <2>2, <2>3, <2>4, <2>5
<1>6. \A d \in Client \ {c} : Talk(d)' = Talk(d) /\ Owed(d)' = Owed(d)
  BY <1>1, <1>2, <1>4
     DEF Connect, Request, Receive, Closes, Breaks, Lost, SocketsTypeOK, Talk, Owed
<1>7. /\ Talks' = [Talks EXCEPT ![c] = Talk(c)'] /\ Talks[c] = Talk(c)
      /\ Debts' = [Debts EXCEPT ![c] = Owed(c)'] /\ Debts[c] = Owed(c)
      /\ Talk(c)' = Talk(c) => UNCHANGED Talks
      /\ Owed(c)' = Owed(c) => UNCHANGED Debts
  BY <1>6, OneSpeaks
<1>8. \/ Service!Come(c) \/ Service!Ask(c) \/ Service!Leave(c)
      \/ UNCHANGED <<Talks, Debts>> /\ IsUp' = IsUp
  BY <1>2, <1>5, <1>7
     DEF Service!Come, Service!Ask, Service!Leave, Service!Here, Service!Owe, Talks, Debts,
         IsUp
<1> QED BY <1>8 DEF Service!Next, Service!vars, Talks, Debts, IsUp

\* What has arrived from a client is taken for one request.
LEMMA RecvServed ==
    ASSUME CInv, Recv
    PROVE  [Service!Next]_(Service!vars)
<1>1. PICK c \in Client : owner[sock] = c /\ RecvData(c)
  BY DEF Recv
<1>2. /\ pc = "recv" /\ pc' = "send" /\ IInv /\ SocketsTypeOK /\ IsUp /\ IsUp'
      /\ sock' = sock /\ unread[c] > 0 /\ unread[c] \in Nat
      /\ unread' = [unread EXCEPT ![c] = 0]
      /\ UNCHANGED <<owner, conn, peer, asked, sent, received>>
  BY <1>1, InvFacts DEF Recv, RecvData, CInv, IsUp, sock, tableVars, SocketsTypeOK
<1>3. \A d \in Client : InFlight(d) = 0 /\ InFlight(d)' = IF d = c THEN 1 ELSE 0
  BY <1>1, <1>2 DEF InFlight, Answering
<1>4. \A d \in Client : Talk(d)' = Talk(d)
  BY <1>2 DEF Talk
<1>5. \A d \in Client \ {c} : Owed(d)' = Owed(d)
  BY <1>2, <1>3, <1>4 DEF Owed, SocketsTypeOK
<1>6. \/ Owed(c)' = Owed(c)
      \/ Talk(c) = "here" /\ Owed(c) > 1 /\ Owed(c)' = 1
  BY <1>2, <1>3, <1>4 DEF Owed, SocketsTypeOK
<1>7. /\ Debts' = [Debts EXCEPT ![c] = Owed(c)'] /\ Debts[c] = Owed(c)
      /\ Talks[c] = Talk(c) /\ UNCHANGED Talks
      /\ Owed(c)' = Owed(c) => UNCHANGED Debts
  BY <1>4, <1>5, OneSpeaks
<1>8. Service!Merge(c) \/ UNCHANGED <<Talks, Debts>>
  BY <1>2, <1>6, <1>7 DEF Service!Merge, Service!Here, Service!Owe, Talks, Debts, IsUp
<1> QED BY <1>2, <1>8 DEF Service!Next, Service!vars, Talks, Debts, IsUp

\* An answer goes to a client that asked, or to one that has left.
LEMMA AnswerServed ==
    ASSUME CInv, Send
    PROVE  [Service!Next]_(Service!vars)
<1>1. PICK c \in Client : owner[sock] = c
  BY DEF Send
<1>2. /\ conn[c] = "open" /\ pc = "send" /\ pc' = "scan"
      /\ Answering(c)
      /\ UNCHANGED <<peer, unread>>
      /\ \A d \in Client \ {c} : conn'[d] = conn[d]
      /\ conn'[c] = IF closeConnection THEN "closed" ELSE "open"
  BY <1>1, SendEffect
<1>3. SocketsTypeOK /\ IInv /\ IsUp /\ IsUp' /\ unread[c] \in Nat
  BY <1>2, InvFacts DEF CInv, IsUp, SocketsTypeOK
<1>4. \A d \in Client : InFlight(d) = (IF d = c THEN 1 ELSE 0) /\ InFlight(d)' = 0
  BY <1>1, <1>2 DEF InFlight, Answering
<1>5. \A d \in Client \ {c} : Talk(d)' = Talk(d) /\ Owed(d)' = Owed(d)
  BY <1>2, <1>4 DEF Talk, Owed
<1>6. /\ Talks' = [Talks EXCEPT ![c] = Talk(c)'] /\ Talks[c] = Talk(c)
      /\ Debts' = [Debts EXCEPT ![c] = Owed(c)'] /\ Debts[c] = Owed(c)
      /\ Talk(c)' = Talk(c) => UNCHANGED Talks
      /\ Owed(c)' = Owed(c) => UNCHANGED Debts
      /\ Talk(c)' = "dropped" /\ Owed(c)' = 0 =>
            /\ Talks' = [d \in Client |-> IF d \in {c} THEN "dropped" ELSE Talks[d]]
            /\ Debts' = [d \in Client |-> IF d \in {c} THEN 0 ELSE Debts[d]]
  BY <1>5, OneSpeaks
<1>7. CASE peer[c] = "up"
  <2>1. /\ Talk(c) = "here" /\ Owed(c) = unread[c] + 1
        /\ Talk(c)' = IF closeConnection THEN "dropped" ELSE "here"
        /\ Owed(c)' = IF closeConnection THEN 0 ELSE unread[c]
    BY <1>2, <1>3, <1>4, <1>7 DEF Talk, Owed
  <2>2. Owed(c) > 0 /\ Owed(c) - 1 = unread[c]
    BY <1>3, <2>1
  <2>3. Service!Answer(c)
    BY <1>3, <1>6, <2>1, <2>2
       DEF Service!Answer, Service!Here, Service!Owe, Service!Drop, Talks, Debts, IsUp
  <2> QED BY <2>3 DEF Service!Next
<1>8. CASE peer[c] # "up"
  <2>1. Talk(c) = "left" /\ Talk(c)' = "left" /\ Owed(c) = 0 /\ Owed(c)' = 0
    BY <1>2, <1>8 DEF Talk, Owed
  <2> QED BY <1>3, <1>6, <2>1 DEF Service!vars, Talks, Debts, IsUp
<1> QED BY <1>7, <1>8

\* Each step of the server and its clients is a step of the service or none.
LEMMA ServiceNext ==
    ASSUME CInv, [Next]_vars
    PROVE  [Service!Next]_(Service!vars)
<1>1. CASE Hangup \/ RecvClose
  <2>1. /\ UNCHANGED <<peer, unread>> /\ (Hangup \/ RecvClose)
        /\ pc # "send"
    BY <1>1 DEF Hangup, AtEntry, RecvClose
  <2>2. ASSUME NEW c \in Client PROVE Talk(c)' = Talk(c) /\ Owed(c)' = Owed(c)
    <3>1. Talk(c)' = Talk(c) /\ pc' = "scan"
      BY <2>1, LoopClose DEF Talk
    <3> QED BY <2>1, <3>1 DEF Owed, InFlight, Answering
  <2>3. IsUp
    BY <1>1 DEF IsUp, Hangup, AtEntry, RecvClose
  <2> QED BY <2>2, <2>3, NobodySpeaks
<1>2. CASE PollFails \/ AcceptDies \/ SendFails \/ CloseListener \/ RemoveAll
  <2>1. \A c \in Client : \/ Talk(c)' = Talk(c) /\ Owed(c)' = Owed(c)
                          \/ Talk(c)' = "dropped" /\ Talk(c) = "here"
    BY <1>2, EndEffect DEF Talk, Owed
  <2>2. ~IsUp'
    BY <1>2 DEF PollFails, AcceptDies, SendFails, CloseListener, RemoveAll, close, Die,
                IsUp
  <2> QED BY <2>1, <2>2, NobodySpeaks
<1>3. CASE \/ Poll \/ ScanIdle \/ ScanEnd \/ Readable \/ Accept \/ AcceptEnd
           \/ Ended \/ UNCHANGED vars
  <2>1. ~Recv
    BY <1>3 DEF Recv, Poll, ScanIdle, ScanEnd, Readable, Accept, AcceptEnd, Ended, vars,
                AtEntry, serverVars
  <2>2. \A c \in Client : Talk(c)' = Talk(c) /\ Owed(c)' = Owed(c)
    BY <1>3, <2>1, QuietEffect DEF Talk, Owed
  <2>3. IsUp' => IsUp
    BY <1>3 DEF Poll, ScanIdle, ScanEnd, Readable, Accept, AcceptEnd, Ended, vars,
                serverVars, AtEntry, IsUp
  <2> QED BY <2>2, <2>3, NobodySpeaks
<1> QED BY <1>1, <1>2, <1>3, ClientServed, RecvServed, AnswerServed DEF Next, Server

\* To its clients the server is the service of RequestService, however many
\* requests they send ahead.
THEOREM ServerServes == Spec => ServesRequests
<1>1. Init => Service!Init
  BY ServiceInit
<1>2. CInv /\ [Next]_vars => [Service!Next]_(Service!vars)
  BY ServiceNext
<1> QED BY <1>1, <1>2, ClientsInvariance, PTL DEF Spec, ServesRequests, Service!Spec
=============================================================================

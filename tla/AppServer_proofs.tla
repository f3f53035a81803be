-------------------------- MODULE AppServer_proofs --------------------------
(***************************************************************************)
(* Theorems about the server for any number of clients and descriptors,    *)
(* any growth of the table, and every setting of the program.              *)
(***************************************************************************)
EXTENDS AppServer, LibPoll_proofs, FiniteSetTheorems

-----------------------------------------------------------------------------
(* The invariant *)

Types == TypeOK /\ nfds <= fdsListSize

\* Each connection that is open has one descriptor, and there is one
\* listening socket; what waits to be accepted waits on it.
SocketInv ==
    /\ \A fd \in Fd : owner[fd] = Listener => fd = ListenFd
    /\ \A fd \in Fd : owner[fd] \in Client =>
          /\ conn[owner[fd]] = "open"
          /\ \A other \in Fd : owner[other] = owner[fd] => other = fd
    /\ \A c \in Client : conn[c] = "open" => \E fd \in Fd : owner[fd] = c
    /\ \A c \in Client : conn[c] = "queued" => owner[ListenFd] = Listener

\* The listening socket is in the table's first entry until the loop ends,
\* then it is closed, and at the end the table is empty.
ListenInv ==
    /\ pc \in {"poll", "scan", "accept", "recv", "send", "stop"} =>
          nfds >= 1 /\ fds[0].fd = ListenFd /\ owner[ListenFd] = Listener
    /\ pc \in {"drain", "done"} => owner[ListenFd] # Listener
    /\ pc = "done" => nfds = 0

WatchedAreOpen == pc # "dead" => Watched = OpenFds
CountersTellEntries == pc # "dead" => fdAddCount - fdRemoveCount = nfds
TableInv ==
    /\ Distinct
    /\ bound <= fdsListSize
    /\ pc \in {"poll", "stop", "drain", "done"} => bound = 0
    /\ WatchedAreOpen
    /\ CountersTellEntries

\* The loop is inside its bound; no entry was removed before the first one
\* was looked at; the entries ahead are as poll left them.
LoopInv ==
    Scanning =>
        /\ pos <= bound
        /\ pc # "scan" => pos < bound
        /\ pos = 0 => nfds >= bound
        /\ pc = "accept" => sock = ListenFd
        /\ pc \in {"recv", "send"} => sock # ListenFd
        /\ \A j \in pos .. bound - 1 : /\ fds[j] = snap[j]
                                       /\ fds[j].fd \in Watched

\* The entries poll filled in are those of different descriptors, the first
\* that of the listening socket, which can only be readable.
SnapInv ==
    Scanning =>
        /\ bound >= 1
        /\ snap[0].fd = ListenFd
        /\ snap[0].revents \subseteq {"POLLIN"}
        /\ \A j, k \in 0 .. bound - 1 : snap[j].fd = snap[k].fd => j = k

IInv == Types /\ SocketInv /\ ListenInv /\ TableInv /\ LoopInv /\ SnapInv

-----------------------------------------------------------------------------
(* The parts that steps have in common *)

Descriptors == Fd \cup {-1}
Requested == SUBSET {"POLLIN"}
Returned == SUBSET Events

LEMMA TypesAreTableTypes ==
    TypeOK /\ pc # "dead"
      => (nfds <= fdsListSize <=> TableTypes(Descriptors, Requested, Returned))
BY DEF TypeOK, TableTypes, Entry, Descriptors, Requested, Returned

\* Closing descriptors frees them and them only.
LEMMA CloseFdsSockets ==
    ASSUME SocketsTypeOK, SocketInv, NEW S \in SUBSET Fd, CloseFds(S)
    PROVE  /\ owner' \in [Fd -> Client \cup {Free, Listener}]
           /\ conn' \in [Client -> {"new", "queued", "open", "closed"}]
           /\ SocketInv'
           /\ OpenFds' = OpenFds \ S
           /\ \A fd \in Fd \ S : owner'[fd] = owner[fd]
<1> USE SocketAssumption
<1> DEFINE gone(c) == \/ \E fd \in S : owner[fd] = c
                      \/ conn[c] = "queued" /\ \E fd \in S : owner[fd] = Listener
<1>1. /\ owner' = [fd \in Fd |-> IF fd \in S THEN Free ELSE owner[fd]]
      /\ conn' = [c \in Client |-> IF gone(c) THEN "closed" ELSE conn[c]]
  BY DEF CloseFds
<1>2. /\ owner' \in [Fd -> Client \cup {Free, Listener}]
      /\ conn' \in [Client -> {"new", "queued", "open", "closed"}]
  BY <1>1 DEF SocketsTypeOK
<1>3. OpenFds' = OpenFds \ S
  BY <1>1 DEF OpenFds
<1>4. ASSUME NEW fd \in Fd
      PROVE  /\ owner'[fd] = Listener => fd = ListenFd
             /\ owner'[fd] \in Client =>
                  /\ conn'[owner'[fd]] = "open"
                  /\ \A other \in Fd : owner'[other] = owner'[fd] => other = fd
  BY <1>1 DEF SocketInv
<1>5. ASSUME NEW c \in Client, conn'[c] = "open"
      PROVE  \E fd \in Fd : owner'[fd] = c
  <2>1. conn[c] = "open" /\ ~gone(c)
    BY <1>1, <1>5
  <2>2. PICK fd \in Fd : owner[fd] = c
    BY <2>1 DEF SocketInv
  <2> QED BY <1>1, <2>1, <2>2
<1>6. ASSUME NEW c \in Client, conn'[c] = "queued"
      PROVE  owner'[ListenFd] = Listener
  BY <1>1, <1>6 DEF SocketInv
<1>7. SocketInv'
  BY <1>4, <1>5, <1>6 DEF SocketInv
<1> QED BY <1>1, <1>2, <1>3, <1>7

\* What poll reports are events; on the listening socket only POLLIN.
LEMMA ReventsAreEvents ==
    ASSUME SocketsTypeOK, NEW entry \in Entry, entry.fd \in Fd,
           NEW hup, NEW mute
    PROVE  /\ Revents(entry, hup, mute) \in Returned
           /\ owner[entry.fd] = Listener
                => Revents(entry, hup, mute) \subseteq {"POLLIN"}
<1> USE SocketAssumption DEF Returned, Events
<1> DEFINE o == owner[entry.fd]
           in(b) == IF b THEN {"POLLIN"} \cap entry.events ELSE {}
<1>1. o \in Client \cup {Free, Listener}
  BY DEF SocketsTypeOK
<1>2. \A b : in(b) \subseteq {"POLLIN"}
  OBVIOUS
<1>3. CASE o = Free
  BY <1>3 DEF Revents
<1>4. CASE o = Listener
  <2>1. Revents(entry, hup, mute) = in(Queued # {})
    BY <1>4 DEF Revents
  <2> QED BY <1>2, <2>1
<1>5. CASE o \in Client /\ peer[o] = "up"
  <2>1. Revents(entry, hup, mute) = in(unread[o] > 0)
    BY <1>5 DEF Revents
  <2> QED BY <1>2, <1>5, <2>1
<1>6. CASE o \in Client /\ peer[o] = "fin"
  <2>1. Revents(entry, hup, mute)
          = in(TRUE) \cup (IF o \in hup THEN {"POLLHUP"} ELSE {})
    BY <1>6 DEF Revents
  <2> QED BY <1>2, <1>6, <2>1
<1>7. CASE o \in Client /\ peer[o] \notin {"up", "fin"}
  <2>1. Revents(entry, hup, mute)
          = in(o \notin mute)
              \cup (IF o \in hup THEN {"POLLHUP"} ELSE {"POLLERR"})
    BY <1>7 DEF Revents
  <2> QED BY <1>2, <1>7, <2>1
<1> QED BY <1>1, <1>3, <1>4, <1>5, <1>6, <1>7

\* What the lemmas about the table and the sockets need of the invariant.
LEMMA InvFacts ==
    ASSUME IInv
    PROVE  /\ SocketsTypeOK /\ SocketInv
           /\ Distinct
           /\ pc # "dead" =>
                 /\ TableTypes(Descriptors, Requested, Returned)
                 /\ Watched = OpenFds /\ Watched \subseteq Fd
                 /\ \A j \in Live : j \in DOMAIN fds
                 /\ DOMAIN fds = 0 .. fdsListSize - 1
           /\ -1 \in Descriptors /\ {} \in Requested /\ {} \in Returned
           /\ Fd \subseteq Descriptors
<1>1. TypeOK /\ nfds <= fdsListSize
  BY DEF IInv, Types
<1>2. pc # "dead" => TableTypes(Descriptors, Requested, Returned)
  BY <1>1, TypesAreTableTypes
<1>3. \A j \in Live : j \in 0 .. fdsListSize - 1
  BY <1>1 DEF TypeOK, Live
<1>4. OpenFds \subseteq Fd
  BY DEF OpenFds
<1> QED
  BY <1>1, <1>2, <1>3, <1>4
     DEF IInv, TypeOK, TableInv, WatchedAreOpen, Descriptors, Requested, Returned

\* The first state.
LEMMA InitInv == Init => IInv
<1> SUFFICES ASSUME Init PROVE IInv
  OBVIOUS
<1> USE SocketAssumption, ServerAssumption, TableAssumption
<1>1. SocketsTypeOK /\ SocketInv /\ OpenFds = {ListenFd}
  BY DEF Init, SocketsInit, SocketsTypeOK, SocketInv, OpenFds
<1>2. /\ fds \in [0 .. fdsListSize - 1 -> Entry]
      /\ fds[0].fd = ListenFd
      /\ nfds = 1 /\ fdsListSize \in Nat /\ fdsListSize >= 1
      /\ fdAddCount = 1 /\ fdRemoveCount = 0
  <2> DEFINE first == [fd |-> ListenFd, events |-> listen_events, revents |-> {}]
  <2>1. first \in Entry /\ Fresh \in Entry
    BY DEF Entry, Fresh, listen_events
  <2>2. /\ fds = [j \in 0 .. fdsListAddCount - 1 |-> IF j = 0 THEN first ELSE Fresh]
        /\ nfds = 1 /\ fdsListSize = fdsListAddCount
        /\ fdAddCount = 1 /\ fdRemoveCount = 0
    BY DEF Init, TableWith
  <2> HIDE DEF first
  <2>3. first.fd = ListenFd
    BY DEF first
  <2> QED BY <2>1, <2>2, <2>3
<1>3. Live = {0}
  BY <1>2 DEF Live
<1>4. Distinct /\ Watched = {ListenFd}
  BY <1>2, <1>3 DEF Distinct, Watched
<1>5. snap \in [0 .. bound - 1 -> Entry] /\ bound = 0
  BY DEF Init
<1>6. Types
  BY <1>1, <1>2, <1>5 DEF Init, Types, TypeOK
<1>7. ListenInv
  BY <1>2 DEF Init, ListenInv, SocketsInit
<1>8. TableInv
  BY <1>1, <1>2, <1>4, <1>5 DEF TableInv, WatchedAreOpen, CountersTellEntries
<1>9. LoopInv /\ SnapInv
  BY DEF Init, LoopInv, SnapInv, Scanning
<1> QED BY <1>1, <1>6, <1>7, <1>8, <1>9 DEF IInv

\* A step that ends the process, which may have been about to let the table
\* grow.
LEMMA DieInv ==
    ASSUME IInv, Die, UNCHANGED <<peer, unread, asked, sent, received>>,
           UNCHANGED <<fds, nfds, fdRemoveCount>>,
           fdAddCount' \in Nat, fdsListSize' \in Nat, fdsListSize' >= fdsListSize
    PROVE  IInv'
<1>1. /\ owner' \in [Fd -> Client \cup {Free, Listener}]
      /\ conn' \in [Client -> {"new", "queued", "open", "closed"}]
      /\ SocketInv'
  BY InvFacts, CloseFdsSockets DEF Die
<1>2. SocketsTypeOK'
  BY <1>1, InvFacts DEF SocketsTypeOK
<1>3. Types'
  BY <1>2 DEF Die, IInv, Types, TypeOK
<1>4. TableInv'
  <2>1. Distinct'
    BY InvFacts DEF Distinct, Live
  <2>2. bound' <= fdsListSize'
    BY DEF Die, IInv, TableInv, Types, TypeOK
  <2> QED BY <2>1, <2>2 DEF Die, TableInv, WatchedAreOpen, CountersTellEntries
<1>5. ListenInv' /\ LoopInv' /\ SnapInv'
  BY DEF Die, ListenInv, LoopInv, SnapInv, Scanning
<1> QED BY <1>1, <1>3, <1>4, <1>5 DEF IInv

\* What a client does, or what its stack does for it when an answer meets a
\* connection that it has closed.
Closes(c) ==
    /\ Reachable(c) /\ peer[c] = "up"
    /\ peer' = [peer EXCEPT ![c] = "fin"]
    /\ UNCHANGED <<owner, conn, unread, asked, sent, received>>
Breaks(c) ==
    /\ Reachable(c) /\ peer[c] # "rst"
    /\ HasAnswer(c) \/ c \in Aborting
    /\ Lost(c)

LEMMA ClientActs ==
    ASSUME Clients
    PROVE  /\ UNCHANGED <<tableVars, serverVars>>
           /\ \E c \in Client : Connect(c) \/ Request(c) \/ Receive(c)
                              \/ Closes(c) \/ Breaks(c)
BY DEF Clients, ClientStep, Finish, ResetArrives, Reset, Closes, Breaks

\* A step of the clients.
LEMMA ClientsInv ==
    ASSUME IInv, Clients
    PROVE  IInv'
<1> USE SocketAssumption
<1>1. SocketsTypeOK' /\ SocketInv' /\ owner' = owner
  <2>1. PICK c \in Client :
          Connect(c) \/ Request(c) \/ Receive(c) \/ Closes(c) \/ Breaks(c)
    BY ClientActs
  <2> USE InvFacts DEF SocketsTypeOK, SocketInv
  <2>2. CASE Connect(c)
    BY <2>2 DEF Connect
  <2>3. CASE Request(c)
    BY <2>3 DEF Request
  <2>4. CASE Receive(c)
    BY <2>4 DEF Receive
  <2>5. CASE Closes(c)
    BY <2>5 DEF Closes
  <2>6. CASE Breaks(c)
    BY <2>6 DEF Breaks, Lost
  <2> QED BY <2>1, <2>2, <2>3, <2>4, <2>5, <2>6
<1>2. UNCHANGED <<tableVars, serverVars>>
  BY DEF Clients
<1>3. Distinct' /\ Watched' = Watched /\ OpenFds' = OpenFds
  BY <1>1, <1>2, InvFacts, TableStays DEF OpenFds
<1>4. Types'
  BY <1>1, <1>2 DEF IInv, Types, TypeOK, tableVars, serverVars
<1>5. ListenInv'
  BY <1>1, <1>2 DEF IInv, ListenInv, tableVars, serverVars
<1>6. TableInv'
  BY <1>2, <1>3 DEF IInv, TableInv, WatchedAreOpen, CountersTellEntries,
                    tableVars, serverVars
<1>7. LoopInv'
  BY <1>2, <1>3 DEF IInv, LoopInv, Scanning, sock, tableVars, serverVars
<1>8. SnapInv'
  BY <1>2 DEF IInv, SnapInv, Scanning, tableVars, serverVars
<1> QED BY <1>1, <1>4, <1>5, <1>6, <1>7, <1>8 DEF IInv

\* A step inside the loop that leaves the table and the descriptors alone.
LEMMA SameTableInv ==
    ASSUME IInv, Scanning, UNCHANGED tableVars,
           SocketsTypeOK', SocketInv', owner' = owner,
           UNCHANGED <<bound, ret, snap>>, pollInCount' \in Nat,
           \/ pc' = "scan" /\ pos < bound /\ pos' = pos + 1
           \/ /\ pos < bound /\ pos' = pos
              /\ pc' \in {"accept", "recv", "send"}
              /\ pc' = "accept" <=> sock = ListenFd
    PROVE  IInv'
<1>1. /\ Distinct' /\ Watched' = Watched /\ OpenFds' = OpenFds
      /\ pos \in Nat /\ bound \in Nat
  BY InvFacts, TableStays DEF OpenFds, IInv, Types, TypeOK
<1>2. Types'
  <2>1. TypeOK /\ pc # "dead" /\ pos' \in Nat
    BY <1>1 DEF IInv, Types, Scanning
  <2> QED BY <2>1 DEF IInv, Types, TypeOK, tableVars
<1>3. ListenInv'
  BY DEF IInv, ListenInv, Scanning, tableVars
<1>4. TableInv'
  BY <1>1 DEF IInv, TableInv, WatchedAreOpen, CountersTellEntries, Scanning, tableVars
<1>5. LoopInv'
  <2>1. \A j \in pos' .. bound - 1 : j \in pos .. bound - 1
    BY <1>1
  <2> QED BY <1>1, <2>1 DEF IInv, LoopInv, Scanning, sock, tableVars
<1>6. SnapInv'
  BY DEF IInv, SnapInv, Scanning
<1> QED BY <1>2, <1>3, <1>4, <1>5, <1>6 DEF IInv

\* The entry of a descriptor whose callback runs is the loop's own or, when
\* the entry was moved, one before it.
LEMMA EntryIsBehind ==
    ASSUME IInv, Scanning, pos < bound
    PROVE  /\ sock \in Watched /\ sock \in Fd
           /\ fd_arr_index(sock) \in Live
           /\ fds[fd_arr_index(sock)].fd = sock
           /\ fd_arr_index(sock) >= 0
           /\ fd_arr_index(sock) <= pos
           /\ \A j \in pos + 1 .. bound - 1 : fds[j].fd # sock
<1>0. Distinct /\ Watched \subseteq Fd
  BY InvFacts DEF Scanning
<1>1. /\ pos \in Nat /\ bound \in Nat /\ nfds \in Nat
      /\ pos \in pos .. bound - 1
  BY DEF IInv, Types, TypeOK
<1>2. sock \in Watched
  BY <1>1 DEF IInv, LoopInv, sock
<1>3. /\ fd_arr_index(sock) \in Live
      /\ fds[fd_arr_index(sock)].fd = sock
      /\ fd_arr_index(sock) >= 0
  BY <1>0, <1>1, <1>2, SearchFinds
<1>4. fd_arr_index(sock) <= pos
  <2>1. CASE pos \in Live
    <3>1. fd_arr_index(sock) = pos
      BY <1>0, <1>3, <2>1 DEF Distinct, sock
    <3> QED BY <1>1, <3>1
  <2>2. CASE pos \notin Live
    <3> DEFINE idx == fd_arr_index(sock)
    <3>1. idx \in Live
      BY <1>3
    <3> HIDE DEF idx
    <3>2. idx <= pos
      BY <1>1, <2>2, <3>1 DEF Live
    <3> QED BY <3>2 DEF idx
  <2> QED BY <2>1, <2>2
<1>5. ASSUME NEW j \in pos + 1 .. bound - 1
      PROVE  fds[j].fd # sock
  <2>1. /\ j \in pos .. bound - 1 /\ j # pos
        /\ j \in 0 .. bound - 1 /\ pos \in 0 .. bound - 1
    BY <1>1
  <2>2. fds[j] = snap[j] /\ fds[pos] = snap[pos]
    BY <1>1, <2>1 DEF IInv, LoopInv
  <2>3. snap[j].fd # snap[pos].fd
    BY <2>1 DEF IInv, SnapInv
  <2> QED BY <2>2, <2>3 DEF sock
<1>6. sock \in Fd
  BY <1>0, <1>2
<1> QED BY <1>2, <1>3, <1>4, <1>5, <1>6

\* A callback that closes its client's descriptor.
LEMMA CloseEntryInv ==
    ASSUME IInv, Scanning, pos < bound, sock # ListenFd,
           remove_fd(sock), CloseFds({sock}), NextEntry, pollInCount' \in Nat,
           peer' \in [Client -> {"up", "fin", "rst"}],
           unread' \in [Client -> Nat], asked' \in [Client -> Nat],
           sent' \in [Client -> Nat], received' \in [Client -> Nat]
    PROVE  IInv'
<1> DEFINE idx == fd_arr_index(sock)
<1>1. /\ pos \in Nat /\ bound \in Nat /\ pos' = pos + 1 /\ pc' = "scan"
      /\ UNCHANGED <<bound, ret, snap>> /\ pc # "dead"
  BY DEF IInv, Types, TypeOK, NextEntry, Scanning
<1>2. /\ TableTypes(Descriptors, Requested, Returned)'
      /\ Distinct'
      /\ Watched' = Watched \ {sock}
      /\ nfds >= 1 /\ nfds' = nfds - 1
      /\ \A j \in 0 .. fdsListSize - 1 : j # idx => fds'[j] = fds[j]
      /\ fdsListSize' = fdsListSize
      /\ fdAddCount' = fdAddCount
      /\ fdRemoveCount' = fdRemoveCount + 1
  BY <1>1, InvFacts, EntryIsBehind, RemoveFd
<1>3. /\ owner' \in [Fd -> Client \cup {Free, Listener}]
      /\ conn' \in [Client -> {"new", "queued", "open", "closed"}]
      /\ SocketInv'
      /\ OpenFds' = OpenFds \ {sock}
      /\ \A fd \in Fd \ {sock} : owner'[fd] = owner[fd]
  <2>1. {sock} \in SUBSET Fd
    BY EntryIsBehind
  <2> QED BY <2>1, InvFacts, CloseFdsSockets
<1>4. idx \in Live /\ fds[idx].fd = sock /\ idx <= pos
  BY EntryIsBehind
<1> HIDE DEF idx
<1>5. bound <= fdsListSize /\ fdsListSize \in Nat /\ nfds \in Nat /\ nfds <= fdsListSize
  BY DEF IInv, TableInv, Types, TypeOK
<1>6. Types'
  <2>1. SocketsTypeOK'
    BY <1>3 DEF SocketsTypeOK
  <2>2. fds' \in [0 .. fdsListSize' - 1 -> Entry] /\ nfds' <= fdsListSize'
    BY <1>2 DEF TableTypes, Entry, Descriptors, Requested, Returned
  <2> QED BY <1>1, <1>2, <2>1, <2>2 DEF IInv, Types, TypeOK, TableTypes
<1>7. ListenInv'
  <2>1. nfds >= 1 /\ fds[0].fd = ListenFd /\ owner[ListenFd] = Listener
    BY DEF IInv, ListenInv, Scanning
  <2>2. idx # 0 /\ idx >= 1 /\ nfds >= 2
    BY <1>4, <1>5, <2>1 DEF Live
  <2>3. fds'[0] = fds[0]
    BY <1>2, <1>5, <2>1, <2>2
  <2>4. owner'[ListenFd] = Listener
    BY <1>3, <2>1, SocketAssumption
  <2>5. nfds' >= 1
    BY <1>2, <1>5, <2>2
  <2> QED BY <1>1, <2>1, <2>3, <2>4, <2>5 DEF ListenInv
<1>8. TableInv'
  <2>1. Watched = OpenFds /\ fdAddCount - fdRemoveCount = nfds
    BY <1>1 DEF IInv, TableInv, WatchedAreOpen, CountersTellEntries
  <2>2. fdAddCount' - fdRemoveCount' = nfds'
    BY <1>2, <1>5, <2>1 DEF IInv, Types, TypeOK
  <2> QED BY <1>1, <1>2, <1>3, <1>5, <2>1, <2>2
          DEF TableInv, WatchedAreOpen, CountersTellEntries
<1>9. LoopInv'
  <2>1. ASSUME NEW j \in pos' .. bound' - 1
        PROVE  fds'[j] = snap'[j] /\ fds'[j].fd \in Watched'
    <3>1. /\ j \in pos .. bound - 1 /\ j \in pos + 1 .. bound - 1
          /\ j \in 0 .. fdsListSize - 1
      BY <1>1, <1>5
    <3>2. j # idx
      BY <1>1, <1>4, <3>1 DEF Live
    <3>3. fds'[j] = fds[j] /\ fds[j] = snap[j] /\ fds[j].fd \in Watched
      BY <1>2, <3>1, <3>2 DEF IInv, LoopInv
    <3>4. fds[j].fd # sock
      BY <3>1, EntryIsBehind
    <3> QED BY <1>1, <1>2, <3>3, <3>4
  <2> QED BY <1>1, <2>1 DEF LoopInv
<1>10. SnapInv'
  BY <1>1 DEF IInv, SnapInv, Scanning
<1> QED BY <1>3, <1>6, <1>7, <1>8, <1>9, <1>10 DEF IInv

-----------------------------------------------------------------------------
(* poll *)

\* poll fills in the events of the table as it is, and the loop starts.
LEMMA PollInv == ASSUME IInv, Poll PROVE IInv'
<1> USE SocketAssumption, ServerAssumption
<1>1. /\ pc = "poll" /\ bound = 0 /\ nfds \in Nat /\ nfds <= fdsListSize
      /\ Watched = OpenFds /\ Watched \subseteq Fd
      /\ fdsListSize \in Nat /\ fds \in [0 .. fdsListSize - 1 -> Entry]
      /\ nfds >= 1 /\ fds[0].fd = ListenFd /\ owner[ListenFd] = Listener
  BY InvFacts DEF Poll, IInv, TableInv, ListenInv, Types, TypeOK
<1>2. PICK hup \in SUBSET Left, mute \in SUBSET Left :
        fds' = [j \in DOMAIN fds |->
                  IF j \in Live
                  THEN [fds[j] EXCEPT !.revents = Revents(fds[j], hup, mute)]
                  ELSE fds[j]]
  BY DEF Poll
<1>3. ASSUME NEW j \in Live
      PROVE  /\ j \in DOMAIN fds /\ j \in 0 .. fdsListSize - 1
             /\ fds[j] \in Entry /\ fds[j].fd \in Fd
             /\ Revents(fds[j], hup, mute) \in SUBSET Events
             /\ owner[fds[j].fd] = Listener
                  => Revents(fds[j], hup, mute) \subseteq {"POLLIN"}
  <2>1. j \in 0 .. fdsListSize - 1 /\ fds[j].fd \in Watched
    BY <1>1 DEF Live, Watched
  <2>2. fds[j] \in Entry /\ fds[j].fd \in Fd
    BY <1>1, <2>1
  <2> QED BY <1>1, <2>1, <2>2, InvFacts, ReventsAreEvents DEF Returned
<1>4. /\ \A j \in Live : /\ fds'[j] = [fds[j] EXCEPT !.revents = Revents(fds[j], hup, mute)]
                         /\ fds'[j] \in Entry
                         /\ fds'[j].fd = fds[j].fd
                         /\ fds'[j].revents = Revents(fds[j], hup, mute)
      /\ fds' \in [0 .. fdsListSize - 1 -> Entry]
  <2>1. ASSUME NEW j \in Live
        PROVE  /\ fds'[j] = [fds[j] EXCEPT !.revents = Revents(fds[j], hup, mute)]
               /\ fds'[j] \in Entry
               /\ fds'[j].fd = fds[j].fd
               /\ fds'[j].revents = Revents(fds[j], hup, mute)
    <3>1. fds'[j] = [fds[j] EXCEPT !.revents = Revents(fds[j], hup, mute)]
      BY <1>2, <1>3
    <3> QED BY <1>3, <3>1 DEF Entry
  <2>2. ASSUME NEW j \in 0 .. fdsListSize - 1
        PROVE  fds'[j] \in Entry
    BY <1>1, <1>2, <2>1
  <2>3. fds' = [j \in 0 .. fdsListSize - 1 |-> fds'[j]]
    BY <1>1, <1>2
  <2> QED BY <2>1, <2>2, <2>3
<1>5. /\ UNCHANGED <<nfds, fdsListSize, fdAddCount, fdRemoveCount, pollInCount>>
      /\ UNCHANGED sockVars /\ Live' = Live
  BY DEF Poll, Live
<1>6. Watched' = Watched /\ Distinct' /\ OpenFds' = OpenFds
  <2>1. Distinct'
    <3> SUFFICES ASSUME NEW j \in Live, NEW k \in Live, fds'[j].fd = fds'[k].fd
                 PROVE  j = k
      BY <1>5 DEF Distinct
    <3>1. fds[j].fd = fds[k].fd
      BY <1>4
    <3> QED BY <3>1, InvFacts DEF Distinct
  <2>2. Watched' = Watched
    <3>1. \A j \in Live : fds'[j].fd = fds[j].fd
      BY <1>4
    <3>2. Live' = Live
      BY <1>5
    <3> QED BY <3>1, <3>2 DEF Watched
  <2>3. OpenFds' = OpenFds
    BY <1>5 DEF OpenFds, sockVars
  <2> QED BY <2>1, <2>2, <2>3
<1>7. SocketsTypeOK' /\ SocketInv'
  BY <1>5, InvFacts DEF SocketsTypeOK, SocketInv, sockVars
<1>8. ret' \in Nat
  <2>1. ret' = Cardinality({j \in Live : fds'[j].revents # {}})
    BY DEF Poll
  <2>2. IsFiniteSet({j \in Live : fds'[j].revents # {}})
    <3>1. IsFiniteSet(0 .. nfds - 1)
      BY <1>1, FS_Interval
    <3>2. {j \in Live : fds'[j].revents # {}} \subseteq 0 .. nfds - 1
      BY DEF Live
    <3> QED BY <3>1, <3>2, FS_Subset
  <2> QED BY <2>1, <2>2, FS_CardinalityType
<1>11. nfds' >= 1 /\ fds'[0].fd = ListenFd /\ owner'[ListenFd] = Listener
  <2>1. 0 \in Live
    BY <1>1 DEF Live
  <2> QED BY <1>1, <1>4, <1>5, <2>1 DEF sockVars
<1>9. CASE ret' = 0
  <2>1. pc' \in {"stop", "poll"} /\ UNCHANGED <<pos, bound, snap>>
    BY <1>9 DEF Poll, NextPoll
  <2>2. Types'
    BY <1>4, <1>5, <1>7, <1>8, <2>1 DEF IInv, Types, TypeOK
  <2>3. ListenInv'
    BY <1>11, <2>1 DEF ListenInv
  <2>4. TableInv'
    BY <1>1, <1>5, <1>6, <2>1 DEF IInv, TableInv, WatchedAreOpen, CountersTellEntries
  <2>5. LoopInv' /\ SnapInv'
    BY <2>1 DEF LoopInv, SnapInv, Scanning
  <2> QED BY <1>7, <2>2, <2>3, <2>4, <2>5 DEF IInv
<1>10. CASE ret' # 0
  <2>1. /\ pc' = "scan" /\ pos' = 0 /\ bound' = nfds
        /\ snap' = [j \in Live |-> fds'[j]]
    BY <1>10 DEF Poll
  <2>2. Types'
    <3>1. snap' \in [0 .. bound' - 1 -> Entry]
      BY <1>4, <2>1 DEF Live
    <3> QED BY <1>1, <1>4, <1>5, <1>7, <1>8, <2>1, <3>1 DEF IInv, Types, TypeOK
  <2>3. ListenInv'
    BY <1>11, <2>1 DEF ListenInv
  <2>4. TableInv'
    BY <1>1, <1>5, <1>6, <2>1 DEF IInv, TableInv, WatchedAreOpen, CountersTellEntries
  <2>5. LoopInv'
    <3>1. \A j \in pos' .. bound' - 1 : j \in Live
      BY <1>1, <2>1 DEF Live
    <3>2. \A j \in pos' .. bound' - 1 : fds'[j] = snap'[j] /\ fds'[j].fd \in Watched'
      BY <1>4, <1>6, <2>1, <3>1 DEF Watched
    <3>3. nfds' >= bound' /\ pos' <= bound'
      BY <1>1, <1>5, <2>1
    <3> QED BY <2>1, <3>2, <3>3 DEF LoopInv
  <2>6. SnapInv'
    <3>1. 0 \in Live
      BY <1>1 DEF Live
    <3>2. snap'[0].revents = Revents(fds[0], hup, mute)
      BY <1>4, <2>1, <3>1
    <3>3. snap'[0].revents \subseteq {"POLLIN"}
      BY <1>1, <1>3, <3>1, <3>2
    <3>4. snap'[0].fd = ListenFd
      BY <1>1, <1>4, <2>1, <3>1
    <3>5. \A j, k \in 0 .. bound' - 1 : snap'[j].fd = snap'[k].fd => j = k
      BY <1>5, <1>6, <2>1 DEF Distinct, Live
    <3> QED BY <1>1, <2>1, <3>3, <3>4, <3>5 DEF SnapInv
  <2> QED BY <1>7, <2>2, <2>3, <2>4, <2>5, <2>6 DEF IInv
<1> QED BY <1>9, <1>10

\* The end of the loop over the entries.
LEMMA ScanEndInv == ASSUME IInv, ScanEnd PROVE IInv'
<1>1. /\ pc = "scan" /\ pc' \in {"stop", "poll"}
      /\ pos' = 0 /\ bound' = 0 /\ ret' = 0
      /\ snap' = [j \in {} |-> Fresh]
      /\ UNCHANGED <<tableVars, sockVars, pollInCount>>
  BY DEF ScanEnd, NextPoll
<1>2. Distinct' /\ Watched' = Watched /\ OpenFds' = OpenFds
  BY <1>1, InvFacts, TableStays DEF OpenFds, sockVars
<1>3. SocketsTypeOK' /\ SocketInv'
  BY <1>1, InvFacts DEF SocketsTypeOK, SocketInv, sockVars
<1>4. Types'
  <2>1. snap' \in [0 .. bound' - 1 -> Entry]
    BY <1>1
  <2> QED BY <1>1, <1>3, <2>1 DEF IInv, Types, TypeOK, tableVars
<1>5. ListenInv'
  BY <1>1 DEF IInv, ListenInv, tableVars, sockVars
<1>6. TableInv'
  BY <1>1, <1>2 DEF IInv, TableInv, WatchedAreOpen, CountersTellEntries, Types,
                    TypeOK, tableVars
<1>7. LoopInv' /\ SnapInv'
  BY <1>1 DEF LoopInv, SnapInv, Scanning
<1> QED BY <1>3, <1>4, <1>5, <1>6, <1>7 DEF IInv

-----------------------------------------------------------------------------
(* The callbacks *)

\* A new client gets a descriptor of its own, and an entry behind the bound.
LEMMA AcceptInv == ASSUME IInv, Accept PROVE IInv'
<1> USE SocketAssumption
<1>1. PICK fd \in Fd, c \in Client : AcceptGives(fd, c) /\ add_fd(fd, client_events)
  BY DEF Accept
<1>2. /\ pc = "accept" /\ pc' = pc /\ pos < bound /\ sock = ListenFd
      /\ UNCHANGED serverVars
      /\ Watched = OpenFds
      /\ bound \in Nat /\ pos \in Nat /\ nfds \in Nat /\ fdsListSize \in Nat
      /\ bound <= fdsListSize
  BY DEF Accept, serverVars, IInv, LoopInv, Scanning, TableInv, WatchedAreOpen,
         Types, TypeOK
<1>3. /\ TableTypes(Descriptors, Requested, Returned)'
      /\ Distinct'
      /\ Watched' = Watched \cup {fd}
      /\ nfds' = nfds + 1
      /\ \A j \in Live : fds'[j] = fds[j]
      /\ fdsListSize' >= fdsListSize
      /\ fdAddCount' = fdAddCount + 1
      /\ fdRemoveCount' = fdRemoveCount
  <2>1. fd \in Descriptors \ Watched
    BY <1>1, <1>2, InvFacts DEF AcceptGives, CanAccept, OpenFds
  <2>2. client_events \in Requested
    BY DEF client_events, Requested
  <2>3. TableTypes(Descriptors, Requested, Returned)
    BY <1>2, InvFacts
  <2> QED BY <1>1, <2>1, <2>2, <2>3, InvFacts, AddFd
<1>4. SocketsTypeOK' /\ SocketInv' /\ OpenFds' = OpenFds \cup {fd}
      /\ \A other \in Fd \ {fd} : owner'[other] = owner[other]
  <2> USE InvFacts DEF SocketsTypeOK
  <2>1. /\ owner[fd] = Free /\ conn[c] = "queued"
        /\ owner' = [owner EXCEPT ![fd] = c]
        /\ conn' = [conn EXCEPT ![c] = "open"]
        /\ UNCHANGED <<peer, unread, asked, sent, received>>
    BY <1>1 DEF AcceptGives, CanAccept
  <2>2. SocketsTypeOK'
    BY <2>1
  <2>3. OpenFds' = OpenFds \cup {fd}
    BY <2>1 DEF OpenFds
  <2>4. \A other \in Fd : owner[other] # c
    BY <2>1 DEF SocketInv
  <2>5. ASSUME NEW gd \in Fd
        PROVE  /\ owner'[gd] = Listener => gd = ListenFd
               /\ owner'[gd] \in Client =>
                    /\ conn'[owner'[gd]] = "open"
                    /\ \A other \in Fd : owner'[other] = owner'[gd] => other = gd
    BY <2>1, <2>4 DEF SocketInv
  <2>6. ASSUME NEW d \in Client, conn'[d] = "open"
        PROVE  \E gd \in Fd : owner'[gd] = d
    <3>1. CASE d = c
      BY <2>1, <3>1
    <3>2. CASE d # c
      <4>1. PICK gd \in Fd : owner[gd] = d
        BY <2>1, <2>6, <3>2 DEF SocketInv
      <4> QED BY <2>1, <4>1
    <3> QED BY <3>1, <3>2
  <2>7. ASSUME NEW d \in Client, conn'[d] = "queued"
        PROVE  owner'[ListenFd] = Listener
    BY <2>1, <2>7 DEF SocketInv
  <2>8. SocketInv'
    BY <2>5, <2>6, <2>7 DEF SocketInv
  <2> QED BY <2>1, <2>2, <2>3, <2>8
<1>5. Types'
  <2>1. fds' \in [0 .. fdsListSize' - 1 -> Entry] /\ nfds' <= fdsListSize'
    BY <1>3 DEF TableTypes, Entry, Descriptors, Requested, Returned
  <2> QED BY <1>2, <1>3, <1>4, <2>1 DEF IInv, Types, TypeOK, TableTypes, serverVars
<1>6. ListenInv'
  <2>1. nfds >= 1 /\ fds[0].fd = ListenFd /\ owner[ListenFd] = Listener
    BY <1>2 DEF IInv, ListenInv
  <2>2. 0 \in Live
    BY <1>2, <2>1 DEF Live
  <2>3. ListenFd # fd
    BY <1>1, <2>1 DEF AcceptGives, CanAccept
  <2>4. nfds' >= 1
    BY <1>2, <1>3
  <2>5. fds'[0].fd = ListenFd
    BY <1>3, <2>1, <2>2
  <2>6. owner'[ListenFd] = Listener
    BY <1>4, <2>1, <2>3
  <2> QED BY <1>2, <2>4, <2>5, <2>6 DEF ListenInv
<1>7. TableInv'
  <2>1. fdAddCount' - fdRemoveCount' = nfds'
    BY <1>2, <1>3 DEF IInv, TableInv, CountersTellEntries, Types, TypeOK
  <2>2. bound' <= fdsListSize'
    BY <1>2, <1>3 DEF TableTypes, serverVars
  <2> QED BY <1>2, <1>3, <1>4, <2>1, <2>2
          DEF TableInv, WatchedAreOpen, CountersTellEntries, serverVars
<1>8. /\ LoopInv' /\ SnapInv'
  <2>1. pos = 0 /\ nfds >= bound
    <3>1. /\ 0 \in 0 .. bound - 1 /\ pos \in 0 .. bound - 1 /\ pos \in pos .. bound - 1
      BY <1>2
    <3>2. snap[0].fd = ListenFd /\ snap[pos].fd = ListenFd
      BY <1>2, <3>1 DEF IInv, LoopInv, SnapInv, Scanning, sock
    <3>3. pos = 0
      BY <1>2, <3>1, <3>2 DEF IInv, SnapInv, Scanning
    <3> QED BY <1>2, <3>3 DEF IInv, LoopInv, Scanning
  <2>2. \A j \in pos .. bound - 1 : fds'[j] = snap[j] /\ fds'[j].fd \in Watched'
    <3>1. \A j \in pos .. bound - 1 : j \in Live
      BY <1>2, <2>1 DEF Live
    <3>2. \A j \in pos .. bound - 1 : fds[j] = snap[j] /\ fds[j].fd \in Watched
      BY <1>2 DEF IInv, LoopInv, Scanning
    <3> QED BY <1>3, <3>1, <3>2
  <2>3. sock' = ListenFd
    <3>1. pos \in Live
      BY <1>2, <2>1 DEF Live
    <3> QED BY <1>2, <1>3, <3>1 DEF sock, serverVars
  <2>4. LoopInv'
    BY <1>2, <1>3, <2>1, <2>2, <2>3 DEF LoopInv, serverVars
  <2>5. SnapInv'
    BY <1>2 DEF IInv, SnapInv, Scanning, serverVars
  <2> QED BY <2>4, <2>5
<1> QED BY <1>4, <1>5, <1>6, <1>7, <1>8 DEF IInv

\* realloc fails: what was counted and recorded is no more than for a client
\* that gets its entry.
LEMMA AcceptDiesInv == ASSUME IInv, AcceptDies PROVE IInv'
<1>1. PICK fd \in Fd : add_fd_fails(fd)
  BY DEF AcceptDies
<1>2. /\ UNCHANGED <<fds, nfds, fdRemoveCount>>
      /\ fdAddCount' \in Nat /\ fdsListSize' \in Nat /\ fdsListSize' >= fdsListSize
  BY <1>1, TableAssumption DEF add_fd_fails, IInv, Types, TypeOK
<1> QED BY <1>2, DieInv DEF AcceptDies

\* The event of the entry the loop is at is an event of its descriptor.
LEMMA ListenerOnlyReads ==
    ASSUME IInv, AtEntry, sock = ListenFd
    PROVE  fds[pos].revents \subseteq {"POLLIN"}
<1>1. /\ pos \in Nat /\ bound \in Nat /\ pos < bound /\ Scanning
      /\ pos \in pos .. bound - 1 /\ pos \in 0 .. bound - 1 /\ 0 \in 0 .. bound - 1
  BY DEF IInv, Types, TypeOK, AtEntry, Scanning
<1>2. fds[pos] = snap[pos]
  BY <1>1 DEF IInv, LoopInv
<1>3. pos = 0
  BY <1>1, <1>2 DEF IInv, SnapInv, sock
<1> QED BY <1>1, <1>2, <1>3 DEF IInv, SnapInv

\* A call of close in the loop finds its descriptor.
LEMMA CloseFinds ==
    ASSUME IInv, Scanning, pos < bound, NEW ACTION onward, close(sock, onward)
    PROVE  remove_fd(sock) /\ CloseFds({sock}) /\ onward
BY EntryIsBehind DEF close

\* The step of each callback keeps the invariant.
LEMMA HangupInv == ASSUME IInv, Hangup PROVE IInv'
<1>1. /\ pc = "scan" /\ Scanning /\ pos < bound /\ AtEntry
      /\ close(sock, NextEntry /\ UNCHANGED pollInCount)
      /\ UNCHANGED <<peer, unread, asked, sent, received>>
  BY DEF Hangup, AtEntry, Scanning
<1>2. sock # ListenFd
  BY <1>1, ListenerOnlyReads DEF Hangup, HasEvent
<1>3. remove_fd(sock) /\ CloseFds({sock}) /\ NextEntry /\ UNCHANGED pollInCount
  BY <1>1, CloseFinds
<1>4. SocketsTypeOK /\ pollInCount' \in Nat
  BY <1>3 DEF IInv, Types, TypeOK
<1> QED BY <1>1, <1>2, <1>3, <1>4, CloseEntryInv DEF SocketsTypeOK

\* The loop calls a callback and looks at the same entry.
LEMMA ReadableInv == ASSUME IInv, Readable PROVE IInv'
<1>1. /\ pc = "scan" /\ Scanning /\ pos < bound
      /\ pc' = IF sock = ListenFd THEN "accept" ELSE "recv"
      /\ UNCHANGED <<tableVars, sockVars, pos, bound, ret, pollInCount, snap>>
  BY DEF Readable, AtEntry, Scanning
<1>2. SocketsTypeOK' /\ SocketInv' /\ owner' = owner /\ pollInCount' \in Nat
  BY <1>1, InvFacts DEF SocketsTypeOK, SocketInv, sockVars, IInv, Types, TypeOK
<1> QED BY <1>1, <1>2, SameTableInv

\* The loop goes on to the next entry.
LEMMA ScanIdleInv == ASSUME IInv, ScanIdle PROVE IInv'
<1>1. /\ Scanning /\ pos < bound /\ NextEntry
      /\ UNCHANGED <<tableVars, sockVars, pollInCount>>
  BY DEF ScanIdle, AtEntry, Scanning
<1>2. SocketsTypeOK' /\ SocketInv' /\ owner' = owner /\ pollInCount' \in Nat
  BY <1>1, InvFacts DEF SocketsTypeOK, SocketInv, sockVars, IInv, Types, TypeOK
<1> QED BY <1>1, <1>2, SameTableInv DEF NextEntry

\* The count of the calls stays a number.
LEMMA CountIsNumber ==
    ASSUME pollInCount \in Nat, countPollIn PROVE pollInCount' \in Nat
BY DEF countPollIn

\* A failed accept changes nothing the server keeps.
LEMMA AcceptEndInv == ASSUME IInv, AcceptEnd PROVE IInv'
<1>1. /\ Scanning /\ pos < bound /\ NextEntry /\ UNCHANGED tableVars /\ countPollIn
      /\ AcceptFails \/ \E c \in Client : AcceptAborts(c)
      /\ pollInCount \in Nat
  BY DEF AcceptEnd, Scanning, IInv, LoopInv, Types, TypeOK
<1>2. SocketsTypeOK' /\ SocketInv' /\ owner' = owner
  <2> USE InvFacts DEF SocketsTypeOK, SocketInv
  <2>1. CASE AcceptFails
    BY <2>1 DEF AcceptFails, sockVars
  <2>2. CASE \E c \in Client : AcceptAborts(c)
    BY <2>2 DEF AcceptAborts
  <2> QED BY <1>1, <2>1, <2>2
<1> QED BY <1>1, <1>2, SameTableInv, CountIsNumber DEF NextEntry

\* What recv returns is to be answered.
LEMMA RecvInv == ASSUME IInv, Recv PROVE IInv'
<1>1. /\ Scanning /\ pos < bound /\ sock # ListenFd /\ pc' = "send" /\ pc = "recv"
      /\ UNCHANGED <<tableVars, pos, bound, ret, pollInCount, snap>>
      /\ \E c \in Client : RecvData(c)
  BY DEF Recv, Scanning, IInv, LoopInv
<1>2. SocketsTypeOK' /\ SocketInv' /\ owner' = owner /\ pollInCount' \in Nat
  BY <1>1, InvFacts DEF SocketsTypeOK, SocketInv, RecvData, IInv, Types, TypeOK
<1> QED BY <1>1, <1>2, SameTableInv

\* A connection that gives no data is closed.
LEMMA RecvCloseInv == ASSUME IInv, RecvClose PROVE IInv'
<1>1. /\ Scanning /\ pos < bound /\ sock # ListenFd
      /\ close(sock, NextEntry /\ countPollIn)
      /\ UNCHANGED <<peer, unread, asked, sent, received>>
  BY DEF RecvClose, Scanning, IInv, LoopInv
<1>2. remove_fd(sock) /\ CloseFds({sock}) /\ NextEntry /\ countPollIn
  BY <1>1, CloseFinds
<1>3. SocketsTypeOK /\ pollInCount' \in Nat
  BY <1>2, CountIsNumber DEF IInv, Types, TypeOK
<1> QED BY <1>1, <1>2, <1>3, CloseEntryInv DEF SocketsTypeOK

\* An answer is sent, and the connection closed if the program was told to.
LEMMA SendInv == ASSUME IInv, Send PROVE IInv'
<1>1. /\ Scanning /\ pos < bound /\ sock # ListenFd
      /\ pollInCount \in Nat
  BY DEF Send, Scanning, IInv, LoopInv, Types, TypeOK
<1>2. /\ peer' \in [Client -> {"up", "fin", "rst"}]
      /\ unread' \in [Client -> Nat] /\ asked' \in [Client -> Nat]
      /\ sent' \in [Client -> Nat] /\ received' \in [Client -> Nat]
  <2> USE InvFacts DEF SocketsTypeOK
  <2>1. PICK c \in Client : SendData(c)
    BY DEF Send
  <2> QED BY <2>1 DEF SendData
<1>3. CASE closeConnection
  <2>1. remove_fd(sock) /\ CloseFds({sock}) /\ NextEntry /\ countPollIn
    <3>1. close(sock, NextEntry /\ countPollIn)
      BY <1>3 DEF Send
    <3> QED BY <1>1, <3>1, CloseFinds
  <2> QED BY <1>1, <1>2, <2>1, CloseEntryInv, CountIsNumber
<1>4. CASE ~closeConnection
  <2>1. UNCHANGED <<tableVars, owner, conn>> /\ NextEntry /\ countPollIn
    BY <1>4 DEF Send
  <2>2. SocketsTypeOK' /\ SocketInv' /\ owner' = owner
    BY <1>2, <2>1, InvFacts DEF SocketsTypeOK, SocketInv
  <2> QED BY <1>1, <2>1, <2>2, SameTableInv, CountIsNumber DEF NextEntry
<1> QED BY <1>3, <1>4

-----------------------------------------------------------------------------
(* After the loop *)

\* The listening socket is taken out of the table and closed.
LEMMA CloseListenerInv == ASSUME IInv, CloseListener PROVE IInv'
<1> USE SocketAssumption
<1>1. /\ pc = "stop" /\ nfds >= 1 /\ fds[0].fd = ListenFd
      /\ owner[ListenFd] = Listener
      /\ nfds \in Nat /\ bound = 0
      /\ close(ListenFd, pc' = "drain"
                         /\ UNCHANGED <<pos, bound, ret, pollInCount, snap>>)
      /\ UNCHANGED <<peer, unread, asked, sent, received>>
  BY DEF CloseListener, IInv, ListenInv, TableInv, Types, TypeOK
<1>2. ListenFd \in Watched
  BY <1>1 DEF Watched, Live
<1>3. fd_arr_index(ListenFd) >= 0
  BY <1>1, <1>2, InvFacts, SearchFinds
<1>4. /\ remove_fd(ListenFd) /\ CloseFds({ListenFd}) /\ pc' = "drain"
      /\ UNCHANGED <<pos, bound, ret, pollInCount, snap>>
  BY <1>1, <1>3 DEF close
<1>5. /\ TableTypes(Descriptors, Requested, Returned)'
      /\ Distinct' /\ Watched' = Watched \ {ListenFd}
      /\ nfds' = nfds - 1 /\ fdsListSize' = fdsListSize
      /\ fdAddCount' = fdAddCount /\ fdRemoveCount' = fdRemoveCount + 1
  <2>1. TableTypes(Descriptors, Requested, Returned)
    BY <1>1, InvFacts
  <2> QED BY <1>2, <1>4, <2>1, InvFacts, RemoveFd
<1>6. /\ owner' \in [Fd -> Client \cup {Free, Listener}]
      /\ conn' \in [Client -> {"new", "queued", "open", "closed"}]
      /\ SocketInv'
      /\ OpenFds' = OpenFds \ {ListenFd}
  <2>1. {ListenFd} \in SUBSET Fd
    OBVIOUS
  <2> QED BY <1>4, <2>1, InvFacts, CloseFdsSockets
<1>7. owner'[ListenFd] = Free
  BY <1>4 DEF CloseFds
<1>8. Types'
  <2>1. SocketsTypeOK'
    BY <1>1, <1>6, InvFacts DEF SocketsTypeOK
  <2>2. fds' \in [0 .. fdsListSize' - 1 -> Entry] /\ nfds' <= fdsListSize'
    BY <1>5 DEF TableTypes, Entry, Descriptors, Requested, Returned
  <2> QED BY <1>4, <1>5, <2>1, <2>2 DEF IInv, Types, TypeOK, TableTypes
<1>9. ListenInv'
  BY <1>4, <1>7 DEF ListenInv
<1>10. TableInv'
  <2>1. /\ Watched = OpenFds /\ fdAddCount - fdRemoveCount = nfds
        /\ fdAddCount \in Nat /\ fdRemoveCount \in Nat /\ fdsListSize \in Nat
    BY <1>1 DEF IInv, TableInv, WatchedAreOpen, CountersTellEntries, Types, TypeOK
  <2>2. fdAddCount' - fdRemoveCount' = nfds'
    BY <1>1, <1>5, <2>1
  <2> QED BY <1>1, <1>4, <1>5, <1>6, <2>1, <2>2
          DEF TableInv, WatchedAreOpen, CountersTellEntries
<1>11. LoopInv' /\ SnapInv'
  BY <1>4 DEF LoopInv, SnapInv, Scanning
<1> QED BY <1>6, <1>8, <1>9, <1>10, <1>11 DEF IInv

\* Every descriptor left in the table is closed, and the table freed.
LEMMA RemoveAllInv == ASSUME IInv, RemoveAll PROVE IInv'
<1>1. /\ pc = "drain" /\ pc' = "done" /\ bound = 0 /\ nfds \in Nat
      /\ owner[ListenFd] # Listener
      /\ Watched = OpenFds /\ Watched \subseteq Fd
      /\ fdAddCount - fdRemoveCount = nfds
      /\ UNCHANGED <<pos, bound, ret, pollInCount, snap>>
      /\ UNCHANGED <<peer, unread, asked, sent, received>>
  BY InvFacts DEF RemoveAll, IInv, ListenInv, TableInv, CountersTellEntries, Types, TypeOK
<1>2. CASE nfds > 0
  <2>1. CloseFds(Watched) /\ clear_all
    BY <1>2 DEF RemoveAll
  <2>2. /\ TableTypes(Descriptors, Requested, Returned)'
        /\ Distinct' /\ Watched' = {}
        /\ nfds' = 0 /\ fdAddCount' = 0 /\ fdRemoveCount' = 0
    BY <2>1, ClearAll
  <2>3. /\ owner' \in [Fd -> Client \cup {Free, Listener}]
        /\ conn' \in [Client -> {"new", "queued", "open", "closed"}]
        /\ SocketInv'
        /\ OpenFds' = OpenFds \ Watched
    BY <1>1, <2>1, InvFacts, CloseFdsSockets
  <2>4. Types'
    <3>1. SocketsTypeOK'
      BY <1>1, <2>3, InvFacts DEF SocketsTypeOK
    <3>2. fds' \in [0 .. fdsListSize' - 1 -> Entry] /\ nfds' <= fdsListSize'
      BY <2>2 DEF TableTypes, Entry, Descriptors, Requested, Returned
    <3> QED BY <1>1, <2>2, <3>1, <3>2 DEF IInv, Types, TypeOK, TableTypes
  <2>5. ListenInv'
    <3>1. owner'[ListenFd] # Listener
      BY <1>1, <2>1, SocketAssumption DEF CloseFds
    <3> QED BY <1>1, <2>2, <3>1 DEF ListenInv
  <2>6. TableInv'
    <3>1. bound' <= fdsListSize'
      BY <1>1, <2>2 DEF TableTypes
    <3> QED BY <1>1, <2>2, <2>3, <3>1
            DEF TableInv, WatchedAreOpen, CountersTellEntries
  <2>7. LoopInv' /\ SnapInv'
    BY <1>1 DEF LoopInv, SnapInv, Scanning
  <2> QED BY <2>3, <2>4, <2>5, <2>6, <2>7 DEF IInv
<1>3. CASE nfds = 0
  <2>1. UNCHANGED <<tableVars, owner, conn>>
    BY <1>3 DEF RemoveAll
  <2>2. Distinct' /\ Watched' = Watched /\ OpenFds' = OpenFds
    BY <2>1, InvFacts, TableStays DEF OpenFds
  <2>3. SocketsTypeOK' /\ SocketInv'
    BY <1>1, <2>1, InvFacts DEF SocketsTypeOK, SocketInv
  <2>4. Types'
    BY <1>1, <2>1, <2>3 DEF IInv, Types, TypeOK, tableVars
  <2>5. ListenInv'
    BY <1>1, <1>3, <2>1 DEF ListenInv, tableVars
  <2>6. TableInv'
    BY <1>1, <2>1, <2>2
       DEF IInv, TableInv, WatchedAreOpen, CountersTellEntries, tableVars
  <2>7. LoopInv' /\ SnapInv'
    BY <1>1 DEF LoopInv, SnapInv, Scanning
  <2> QED BY <2>3, <2>4, <2>5, <2>6, <2>7 DEF IInv
<1> QED BY <1>1, <1>2, <1>3

\* Every step keeps the invariant.
LEMMA NextInv == ASSUME IInv, [Next]_vars PROVE IInv'
<1>0. fdAddCount \in Nat /\ fdsListSize \in Nat /\ fdsListSize >= fdsListSize
  BY DEF IInv, Types, TypeOK
<1>1. CASE PollFails
  BY <1>0, <1>1, DieInv DEF PollFails, tableVars
<1>2. CASE SendFails
  BY <1>0, <1>2, DieInv DEF SendFails, tableVars
<1>3. CASE UNCHANGED vars
  <2>1. UNCHANGED <<tableVars, sockVars, serverVars>>
    BY <1>3 DEF vars
  <2>2. Distinct' /\ Watched' = Watched /\ OpenFds' = OpenFds
    BY <2>1, InvFacts, TableStays DEF OpenFds, sockVars
  <2>3. SocketsTypeOK' /\ SocketInv'
    BY <2>1, InvFacts DEF SocketsTypeOK, SocketInv, sockVars
  <2>4. Types' /\ ListenInv' /\ SnapInv'
    BY <2>1, <2>3 DEF IInv, Types, TypeOK, ListenInv, SnapInv, Scanning,
                      tableVars, serverVars, sockVars
  <2>5. TableInv' /\ LoopInv'
    BY <2>1, <2>2 DEF IInv, TableInv, WatchedAreOpen, CountersTellEntries,
                      LoopInv, Scanning, sock, tableVars, serverVars
  <2> QED BY <2>3, <2>4, <2>5 DEF IInv
<1>4. CASE Server
  BY <1>1, <1>2, <1>4, PollInv, ScanIdleInv, ScanEndInv, HangupInv, ReadableInv,
     AcceptInv, AcceptDiesInv, AcceptEndInv, RecvInv, RecvCloseInv, SendInv, CloseListenerInv,
     RemoveAllInv DEF Server
<1> QED BY <1>3, <1>4, ClientsInv DEF Next, Ended

\* The invariant holds in every state.
LEMMA Invariance == Spec => []IInv
<1>1. Init => IInv
  BY InitInv
<1>2. IInv /\ [Next]_vars => IInv'
  BY NextInv
<1> QED BY <1>1, <1>2, PTL DEF Spec

-----------------------------------------------------------------------------
(* The theorems *)

\* Every variable keeps its type.
THEOREM TypeCorrect == Spec => []TypeOK
<1>1. IInv => TypeOK
  BY DEF IInv, Types
<1> QED BY <1>1, Invariance, PTL

\* The table has an entry for each socket that is open.
LEMMA EntriesAreSockets ==
    ASSUME IInv, pc # "dead"
    PROVE  /\ nfds = Cardinality(OpenFds)
           /\ IsFiniteSet(OpenFds) /\ OpenFds \subseteq Fd
<1> DEFINE entry == [j \in Live |-> fds[j].fd]
<1>1. /\ nfds \in Nat /\ Watched = OpenFds /\ OpenFds \subseteq Fd
      /\ \A j, k \in Live : fds[j].fd = fds[k].fd => j = k
  BY InvFacts DEF IInv, Types, TypeOK, Distinct
<1>2. entry \in Bijection(Live, OpenFds)
  BY <1>1 DEF Watched, Bijection, Injection, Surjection, IsInjective
<1>3. IsFiniteSet(Live) /\ Cardinality(Live) = nfds
  BY <1>1, FS_Interval DEF Live
<1>4. IsFiniteSet(OpenFds) /\ Cardinality(OpenFds) = Cardinality(Live)
  <2>1. ExistsBijection(Live, OpenFds)
    BY <1>2 DEF ExistsBijection
  <2> QED BY <1>3, <2>1, FS_Bijection
<1> QED BY <1>1, <1>3, <1>4

\* The table watches exactly the sockets the server has open, and its
\* counters tell how many they are.
THEOREM WatchesWhatIsOpen == Spec => []TableIsOpenSockets
<1>1. IInv => TableIsOpenSockets
  BY EntriesAreSockets
     DEF IInv, TableInv, WatchedAreOpen, CountersTellEntries, TableIsOpenSockets
<1> QED BY <1>1, Invariance, PTL

\* The table is never a whole growth larger than the descriptors need.
SizeInv == fdsListSize < Cardinality(Fd) + fdsListAddCount

\* Only a new entry makes the table grow, and only when it is full.
LEMMA SizeNext ==
    ASSUME IInv, SizeInv, [Next]_vars
    PROVE  SizeInv'
<1> USE SocketAssumption, TableAssumption
<1>1. /\ fdsListSize \in Nat /\ nfds \in Nat /\ nfds <= fdsListSize
      /\ Cardinality(Fd) \in Nat
  BY FS_CardinalityType DEF IInv, Types, TypeOK
<1>2. CASE Accept \/ AcceptDies
  <2>1. PICK fd \in Fd, c \in Client :
          CanAccept(fd, c) /\ (add_fd(fd, client_events) \/ add_fd_fails(fd))
    BY <1>2 DEF Accept, AcceptDies, AcceptGives
  <2>2. fdsListSize' = IF MustGrow(fd) THEN fdsListSize + fdsListAddCount
                       ELSE fdsListSize
    BY <2>1 DEF add_fd, add_fd_fails
  <2>3. nfds + 1 <= Cardinality(Fd)
    <3>1. pc # "dead" /\ fd \notin OpenFds
      BY <1>2, <2>1 DEF Accept, AcceptDies, CanAccept, OpenFds
    <3>2. /\ nfds = Cardinality(OpenFds)
          /\ IsFiniteSet(OpenFds) /\ OpenFds \cup {fd} \in SUBSET Fd
      BY <3>1, EntriesAreSockets
    <3>3. Cardinality(OpenFds \cup {fd}) = nfds + 1
      BY <3>1, <3>2, FS_AddElement
    <3> QED BY <3>2, <3>3, FS_Subset
  <2> QED BY <1>1, <2>2, <2>3 DEF MustGrow, SizeInv
<1>3. CASE RemoveAll
  <2>1. fdsListSize' = fdsListSize \/ fdsListSize' = 0
    BY <1>3 DEF RemoveAll, clear_all, tableVars
  <2> QED BY <1>1, <2>1 DEF SizeInv
<1>4. CASE ~Accept /\ ~AcceptDies /\ ~RemoveAll
  <2>1. fdsListSize' = fdsListSize
    BY <1>4 DEF Next, Server, Poll, PollFails, ScanIdle, ScanEnd, Hangup, Readable,
       AcceptEnd, Recv, RecvClose, Send, SendFails, CloseListener, Clients, Ended, vars,
       close, remove_fd, remove_fd_missing, tableVars
  <2> QED BY <2>1 DEF SizeInv
<1> QED BY <1>2, <1>3, <1>4

\* No operation and no loop leaves the memory of the table, and that memory
\* is bounded by the descriptors, whatever number of connections there were.
THEOREM TableMemoryIsSafe == Spec => []PollTableSafe
<1>1. Init => SizeInv
  <2>1. {ListenFd} \in SUBSET Fd /\ Cardinality({ListenFd}) = 1
    BY SocketAssumption, FS_Singleton
  <2>2. Cardinality(Fd) \in Nat /\ Cardinality(Fd) >= 1
    BY <2>1, SocketAssumption, FS_CardinalityType, FS_Subset
  <2> QED BY <2>2, TableAssumption DEF Init, TableWith, SizeInv
<1>2. IInv /\ SizeInv /\ [Next]_vars => SizeInv'
  BY SizeNext
<1>3. IInv /\ SizeInv => PollTableSafe
  BY DEF IInv, Types, TableInv, PollTableSafe, Distinct, SizeInv
<1> QED BY <1>1, <1>2, <1>3, Invariance, PTL DEF Spec

\* The events poll returned are dispatched to the descriptors they are of,
\* although the callbacks change the table under the loop.
THEOREM DispatchIsRight == Spec => []EventsStayWithTheirFd
<1>1. IInv => EventsStayWithTheirFd
  BY DEF IInv, LoopInv, EventsStayWithTheirFd
<1> QED BY <1>1, Invariance, PTL

\* At the end of the program no socket and no connection is open.
THEOREM EndClosesAll == Spec => []ShutdownClosesAll
<1>1. IInv => ShutdownClosesAll
  <2> SUFFICES ASSUME IInv, pc = "done"
               PROVE  OpenFds = {} /\ \A c \in Client : ~Reachable(c)
    BY DEF ShutdownClosesAll
  <2>1. nfds = 0 /\ owner[ListenFd] # Listener /\ Watched = OpenFds
    BY InvFacts DEF IInv, ListenInv
  <2>2. OpenFds = {}
    BY <2>1 DEF Watched, Live
  <2>3. \A c \in Client : conn[c] # "open"
    BY <2>2, SocketAssumption DEF IInv, SocketInv, OpenFds
  <2>4. \A c \in Client : conn[c] # "queued"
    BY <2>1 DEF IInv, SocketInv
  <2> QED BY <2>2, <2>3, <2>4 DEF Reachable
<1> QED BY <1>1, Invariance, PTL

\* The errors that may come, each where its system call is.
Errors ==
    \/ pc = "poll" /\ Interrupts
    \/ pc = "accept" /\ ReallocFails /\ nfds = fdsListSize
    \/ pc = "send" /\ (\E c \in Client : owner[sock] = c /\ ~CanSend(c))

\* send fails on a connection, which is reset or full.
LEMMA SendFailsOnClient ==
    ASSUME IInv, SendFails
    PROVE  \E c \in Client : owner[sock] = c /\ ~CanSend(c)
<1>1. pc = "send" /\ Scanning /\ pos < bound /\ sock # ListenFd
  BY DEF SendFails, Scanning, IInv, LoopInv
<1>2. sock \in Watched /\ sock \in Fd /\ pc # "dead"
  BY <1>1, EntryIsBehind
<1>3. owner[sock] \in Client
  BY <1>1, <1>2, InvFacts DEF SocketsTypeOK, SocketInv, OpenFds
<1>4. SendError(owner[sock])
  BY <1>3 DEF SendFails
<1> QED BY <1>3, <1>4 DEF SendError, CanSend

\* A descriptor that close is called with is in the table.
LEMMA CloseDoesNotKill ==
    ASSUME IInv, [Next]_vars, pc # "dead", pc' = "dead"
    PROVE  UNCHANGED fdRemoveCount /\ Errors
<1>1. CASE PollFails \/ SendFails
  BY <1>1, SendFailsOnClient DEF PollFails, SendFails, tableVars, Errors
<1>11. CASE AcceptDies
  <2>1. PICK fd \in Fd : add_fd_fails(fd)
    BY <1>11 DEF AcceptDies
  <2>2. ReallocFails /\ nfds >= fdsListSize /\ UNCHANGED fdRemoveCount
    BY <2>1 DEF add_fd_fails, MustGrow
  <2>3. nfds = fdsListSize /\ pc = "accept"
    BY <1>11, <2>2 DEF AcceptDies, IInv, Types, TypeOK
  <2> QED BY <2>2, <2>3 DEF Errors
<1>2. ASSUME pc \in {"scan", "recv", "send"}, pos < bound,
             NEW ACTION onward, close(sock, onward)
      PROVE  onward
  BY <1>2, CloseFinds DEF Scanning
<1>3. pos < bound \/ pc \notin {"recv", "send"}
  BY DEF IInv, LoopInv, Scanning
<1>4. ~Hangup
  BY <1>2 DEF Hangup, AtEntry, NextEntry
<1>5. ~RecvClose
  BY <1>2, <1>3 DEF RecvClose, NextEntry
<1>6. ~Send
  BY <1>2, <1>3 DEF Send, NextEntry
<1>7. ~CloseListener
  <2> SUFFICES ASSUME CloseListener PROVE FALSE
    OBVIOUS
  <2>1. nfds >= 1 /\ fds[0].fd = ListenFd /\ nfds \in Nat
    BY DEF CloseListener, IInv, ListenInv, Types, TypeOK
  <2>2. ListenFd \in Watched
    BY <2>1 DEF Watched, Live
  <2>3. fd_arr_index(ListenFd) >= 0
    BY <2>1, <2>2, InvFacts, SearchFinds
  <2> QED BY <2>3 DEF CloseListener, close
<1>8. ~(Poll \/ ScanIdle \/ ScanEnd \/ Readable)
  BY DEF Poll, NextPoll, ScanIdle, ScanEnd, Readable, NextEntry
<1>9. ~(Accept \/ AcceptEnd \/ Recv \/ RemoveAll)
  BY DEF Accept, AcceptEnd, NextEntry, Recv, RemoveAll, serverVars
<1>10. ~(Clients \/ Ended \/ UNCHANGED vars)
  BY DEF Clients, Ended, vars, serverVars
<1> QED
  BY <1>1, <1>4, <1>5, <1>6, <1>7, <1>8, <1>9, <1>10, <1>11 DEF Next, Server

\* The errors that end the process are a failing poll, a realloc that fails
\* when the table is full, and a send to a connection that is reset or full:
\* "Fd was not found" is never raised.
THEOREM OnlyKnownErrors == Spec => ErrorsAreKnown
<1>1. IInv /\ [Next]_vars
        => [pc # "dead" /\ pc' = "dead" =>
              /\ UNCHANGED fdRemoveCount
              /\ \/ pc = "poll" /\ Interrupts
                 \/ pc = "accept" /\ ReallocFails /\ nfds = fdsListSize
                 \/ pc = "send" /\ (\E c \in Client : owner[sock] = c /\ ~CanSend(c))]_vars
  BY CloseDoesNotKill DEF Errors
<1> QED BY <1>1, Invariance, PTL DEF Spec, ErrorsAreKnown
=============================================================================

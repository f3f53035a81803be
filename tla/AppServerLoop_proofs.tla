------------------------ MODULE AppServerLoop_proofs ------------------------
(***************************************************************************)
(* The loop over the table of descriptors is the loop of EventLoop, which  *)
(* knows of no table and no order: a refinement, step by step, on top of   *)
(* the invariants of AppServer_proofs and AppServerClients_proofs.         *)
(***************************************************************************)
EXTENDS AppServerClients_proofs

-----------------------------------------------------------------------------
(* The invariant *)

\* Every entry is watched for what in_callback handles.
AsksInv == \A j \in Live : fds[j].events = {"POLLIN"}

\* The process that has ended has nothing open.
DeadInv == pc = "dead" => OpenFds = {}

LInv == CInv /\ AsksInv /\ DeadInv

LEMMA AsksNext ==
    ASSUME IInv, AsksInv, [Next]_vars
    PROVE  AsksInv'
<1>1. CASE UNCHANGED tableVars
  BY <1>1 DEF AsksInv, Live, tableVars
<1>2. ASSUME NEW fd \in Watched, remove_fd(fd), pc # "dead"
      PROVE  AsksInv'
  <2>1. /\ Distinct /\ -1 \in Descriptors
        /\ TableTypes(Descriptors, Requested, Returned)
    BY <1>2, InvFacts
  <2>2. \A j \in Live' : \E k \in Live : fds'[j].events = fds[k].events
    BY <1>2, <2>1, RemoveFd
  <2> QED BY <2>2 DEF AsksInv
<1>3. CASE Poll
  <2>1. /\ nfds' = nfds /\ nfds \in Nat /\ nfds <= fdsListSize
        /\ fdsListSize \in Nat /\ fds \in [0 .. fdsListSize - 1 -> Entry]
    BY <1>3 DEF Poll, IInv, Types, TypeOK
  <2>2. PICK hup \in SUBSET Left, mute \in SUBSET Left :
          fds' = [j \in DOMAIN fds |->
                    IF j \in Live
                    THEN [fds[j] EXCEPT !.revents = Revents(fds[j], hup, mute)]
                    ELSE fds[j]]
    BY <1>3 DEF Poll
  <2>3. \A j \in Live : j \in DOMAIN fds /\ fds[j] \in Entry
    BY <2>1 DEF Live
  <2>4. \A j \in Live : fds'[j].events = fds[j].events
    BY <2>2, <2>3 DEF Entry
  <2> QED BY <2>1, <2>4 DEF AsksInv, Live
<1>4. CASE Accept
  <2>1. PICK fd \in Fd, c \in Client : AcceptGives(fd, c) /\ add_fd(fd, client_events)
    BY <1>4 DEF Accept
  <2>2. fd \in Descriptors \ Watched
    BY <1>4, <2>1, InvFacts DEF Accept, AcceptGives, CanAccept, OpenFds, Scanning
  <2>3. client_events \in Requested /\ client_events = {"POLLIN"}
    BY DEF client_events, Requested
  <2>4. /\ nfds' = nfds + 1 /\ nfds \in Nat
        /\ \A j \in Live : fds'[j] = fds[j]
        /\ fds'[nfds].events = {"POLLIN"}
    <3>1. /\ TableTypes(Descriptors, Requested, Returned) /\ Distinct
          /\ -1 \in Descriptors /\ {} \in Requested /\ {} \in Returned
      BY <1>4, InvFacts DEF Accept
    <3> QED BY <2>1, <2>2, <2>3, <3>1, AddFd DEF TableTypes
  <2>5. Live' = Live \cup {nfds}
    BY <2>4 DEF Live
  <2> QED BY <2>4, <2>5 DEF AsksInv
<1>5. CASE Hangup \/ RecvClose \/ Send
  <2>1. Scanning /\ pos < bound
    BY <1>5 DEF Hangup, AtEntry, RecvClose, Send, Scanning, IInv, LoopInv
  <2>2. remove_fd(sock) \/ UNCHANGED tableVars
    BY <1>5, <2>1, CloseFinds DEF Hangup, RecvClose, Send
  <2>3. sock \in Watched /\ pc # "dead"
    BY <2>1, EntryIsBehind DEF Scanning
  <2> QED BY <1>1, <1>2, <2>2, <2>3
<1>6. CASE CloseListener
  <2>1. ListenFd \in Watched
    BY <1>6 DEF CloseListener, IInv, ListenInv, Types, TypeOK, Watched, Live
  <2>2. remove_fd(ListenFd)
    BY <1>6, <2>1, InvFacts, SearchFinds DEF CloseListener, close, IInv, Types, TypeOK
  <2> QED BY <1>2, <1>6, <2>1, <2>2 DEF CloseListener
<1>7. CASE RemoveAll
  <2>1. CASE clear_all
    BY <2>1 DEF clear_all, AsksInv, Live
  <2>2. CASE UNCHANGED tableVars
    BY <1>1, <2>2
  <2> QED BY <1>7, <2>1, <2>2 DEF RemoveAll
<1>8. CASE \/ PollFails \/ ScanIdle \/ ScanEnd \/ Readable \/ AcceptEnd \/ Recv
           \/ SendFails \/ Clients \/ Ended \/ UNCHANGED vars
  BY <1>1, <1>8 DEF PollFails, ScanIdle, ScanEnd, Readable, AcceptEnd, Recv,
     SendFails, Clients, Ended, vars
<1>9. CASE AcceptDies
  BY <1>9 DEF AcceptDies, add_fd_fails, AsksInv, Live
<1> QED BY <1>3, <1>4, <1>5, <1>6, <1>7, <1>8, <1>9 DEF Next, Server

LEMMA DeadNext ==
    ASSUME DeadInv, [Next]_vars
    PROVE  DeadInv'
<1>1. CASE Die
  BY <1>1 DEF Die, CloseFds, OpenFds, DeadInv
<1>2. CASE Server /\ ~Die
  BY <1>2 DEF Server, DeadInv, Poll, NextPoll, PollFails, ScanIdle, ScanEnd, Hangup,
     Readable, Accept, AcceptDies, AcceptEnd, Recv, RecvClose, Send, SendFails,
     CloseListener, RemoveAll, close, NextEntry, serverVars
<1>3. CASE Clients \/ Ended \/ UNCHANGED vars
  BY <1>3, ClientActs DEF Connect, Request, Receive, Closes, Breaks, Lost, Ended,
     vars, sockVars, serverVars, DeadInv, OpenFds
<1> QED BY <1>1, <1>2, <1>3 DEF Next

LEMMA LoopInvariance == Spec => []LInv
<1>1. Init => AsksInv /\ DeadInv
  <2> SUFFICES ASSUME Init PROVE AsksInv /\ DeadInv
    OBVIOUS
  <2>1. /\ fds = [j \in 0 .. fdsListAddCount - 1 |->
                    IF j = 0 THEN [fd |-> ListenFd, events |-> {"POLLIN"}, revents |-> {}]
                    ELSE Fresh]
        /\ nfds = 1 /\ pc = "poll"
    BY DEF Init, TableWith, listen_events
  <2>2. Live = {0} /\ 0 \in 0 .. fdsListAddCount - 1
    BY <2>1, TableAssumption DEF Live
  <2>3. fds[0] = [fd |-> ListenFd, events |-> {"POLLIN"}, revents |-> {}]
    BY <2>1, <2>2
  <2> QED BY <2>1, <2>2, <2>3 DEF AsksInv, DeadInv
<1>2. CInv /\ AsksInv /\ DeadInv /\ [Next]_vars => AsksInv' /\ DeadInv'
  BY AsksNext, DeadNext DEF CInv
<1>3. CInv /\ AsksInv /\ DeadInv => LInv
  BY DEF LInv
<1> QED BY <1>1, <1>2, <1>3, ClientsInvariance, PTL DEF Spec

-----------------------------------------------------------------------------
(* What the loop has to do *)

\* What is ready is watched.
LEMMA ReadyIsWatched ==
    ASSUME LInv
    PROVE  ReadyFds \subseteq Watched
<1>1. ReadyFds \subseteq OpenFds
  BY SocketAssumption DEF ReadyFds, Ready, OpenFds
<1> QED BY <1>1, InvFacts DEF LInv, CInv, DeadInv

\* poll reports an event on a descriptor if and only if it has one.
LEMMA ReventsTellReady ==
    ASSUME LInv, NEW j \in Live, pc # "dead", NEW hup, NEW mute
    PROVE  Revents(fds[j], hup, mute) # {} <=> Ready(fds[j].fd)
<1> USE SocketAssumption
<1> DEFINE fd == fds[j].fd
           o == owner[fd]
           in(b) == IF b THEN {"POLLIN"} \cap fds[j].events ELSE {}
<1>1. fds[j].events = {"POLLIN"} /\ fd \in OpenFds
  BY InvFacts DEF LInv, CInv, AsksInv, Watched
<1>2. o \in Client \cup {Listener}
  BY <1>1, InvFacts DEF LInv, CInv, OpenFds, SocketsTypeOK
<1>3. \A b \in BOOLEAN : in(b) # {} <=> b
  BY <1>1
<1>4. CASE o = Listener
  <2>1. Revents(fds[j], hup, mute) = in(Queued # {})
    BY <1>4 DEF Revents
  <2>2. Ready(fd) <=> Queued # {}
    BY <1>4 DEF Ready
  <2> QED BY <1>3, <2>1, <2>2
<1>5. CASE o \in Client /\ peer[o] = "up"
  <2>1. Revents(fds[j], hup, mute) = in(unread[o] > 0)
    BY <1>5 DEF Revents
  <2>2. Ready(fd) <=> unread[o] > 0
    BY <1>5 DEF Ready
  <2> QED BY <1>3, <2>1, <2>2
<1>6. CASE o \in Client /\ peer[o] # "up"
  <2>1. Ready(fd)
    BY <1>6 DEF Ready
  <2>2. CASE peer[o] = "fin"
    <3>1. Revents(fds[j], hup, mute)
            = in(TRUE) \cup (IF o \in hup THEN {"POLLHUP"} ELSE {})
      BY <1>6, <2>2 DEF Revents
    <3> QED BY <1>3, <2>1, <3>1
  <2>3. CASE peer[o] # "fin"
    <3>1. Revents(fds[j], hup, mute)
            = in(o \notin mute)
                \cup (IF o \in hup THEN {"POLLHUP"} ELSE {"POLLERR"})
      BY <1>6, <2>3 DEF Revents
    <3> QED BY <2>1, <3>1
  <2> QED BY <2>2, <2>3
<1> QED BY <1>2, <1>4, <1>5, <1>6

\* The descriptors of the entries after the one the loop is at.
After == {fds[j].fd : j \in {k \in pos + 1 .. bound - 1 : fds[k].revents # {}}}

\* The entry the loop is at is to do until its callback begins.
LEMMA TodoIsAfter ==
    ASSUME IInv, Scanning, pos < bound
    PROVE  /\ sock \notin After
           /\ pc = "scan" =>
                Todo = IF fds[pos].revents # {} THEN After \cup {sock} ELSE After
           /\ pc # "scan" => Todo = After
<1>1. pos \in Nat /\ bound \in Nat
  BY Counts
<1>2. sock \notin After
  BY EntryIsBehind DEF After
<1>3. pos .. bound - 1 = {pos} \cup (pos + 1 .. bound - 1)
  BY <1>1
<1>4. CASE pc = "scan"
  <2>1. Todo = {fds[j].fd : j \in {k \in pos .. bound - 1 : fds[k].revents # {}}}
    BY <1>4 DEF Todo, Ahead
  <2>2. CASE fds[pos].revents # {}
    <3>1. {k \in pos .. bound - 1 : fds[k].revents # {}}
            = {pos} \cup {k \in pos + 1 .. bound - 1 : fds[k].revents # {}}
      BY <1>3, <2>2
    <3> QED BY <1>2, <1>4, <2>1, <2>2, <3>1 DEF After, sock
  <2>3. CASE fds[pos].revents = {}
    <3>1. {k \in pos .. bound - 1 : fds[k].revents # {}}
            = {k \in pos + 1 .. bound - 1 : fds[k].revents # {}}
      BY <1>3, <2>3
    <3> QED BY <1>2, <1>4, <2>1, <2>3, <3>1 DEF After
  <2> QED BY <2>2, <2>3
<1>5. CASE pc # "scan"
  <2>1. Ahead = pos + 1 .. bound - 1
    BY <1>5 DEF Ahead
  <2> QED BY <1>2, <1>5, <2>1 DEF Todo, After
<1> QED BY <1>2, <1>4, <1>5

\* What is to do after a step that goes on to the next entry.
LEMMA TodoNext ==
    ASSUME IInv, Scanning, pos < bound, pc' = "scan", pos' = pos + 1, bound' = bound,
           \A j \in pos + 1 .. bound - 1 : fds'[j] = fds[j]
    PROVE  Todo' = After
BY DEF Todo, Ahead, After, Scanning

\* What is to do after a step of the callback that stays at the entry.
LEMMA TodoStays ==
    ASSUME IInv, Scanning, pos < bound, pc' \in {"accept", "recv", "send"},
           pos' = pos, bound' = bound,
           \A j \in pos + 1 .. bound - 1 : fds'[j] = fds[j]
    PROVE  Todo' = After
BY DEF Todo, Ahead, After, Scanning

-----------------------------------------------------------------------------
(* The steps *)

\* poll finds what is ready, and nothing else.
LEMMA PollWaits == ASSUME LInv, Poll PROVE Loop!Wait
<1>1. /\ pc = "poll" /\ nfds \in Nat /\ nfds <= fdsListSize
      /\ Watched = OpenFds /\ Watched \subseteq Fd /\ IInv
      /\ fdsListSize \in Nat /\ fds \in [0 .. fdsListSize - 1 -> Entry]
      /\ nfds' = nfds /\ Live' = Live /\ ~Scanning
  BY InvFacts DEF Poll, LInv, CInv, IInv, Types, TypeOK, Live, Scanning
<1>2. PICK hup \in SUBSET Left, mute \in SUBSET Left :
        fds' = [j \in DOMAIN fds |->
                  IF j \in Live
                  THEN [fds[j] EXCEPT !.revents = Revents(fds[j], hup, mute)]
                  ELSE fds[j]]
  BY DEF Poll
<1>3. ASSUME NEW j \in Live
      PROVE  /\ fds'[j].fd = fds[j].fd /\ fds[j].fd \in Fd
             /\ fds'[j].revents # {} <=> Ready(fds[j].fd)
  <2>1. j \in DOMAIN fds /\ fds[j] \in Entry /\ fds[j].fd \in Watched
    BY <1>1 DEF Live, Watched
  <2>2. fds'[j] = [fds[j] EXCEPT !.revents = Revents(fds[j], hup, mute)]
    BY <1>2, <2>1
  <2>3. fds'[j].fd = fds[j].fd /\ fds'[j].revents = Revents(fds[j], hup, mute)
    BY <2>1, <2>2 DEF Entry
  <2>4. Revents(fds[j], hup, mute) # {} <=> Ready(fds[j].fd)
    BY <1>1, ReventsTellReady
  <2> QED BY <1>1, <2>1, <2>3, <2>4
<1> DEFINE found == {j \in Live : fds'[j].revents # {}}
<1>4. ReadyFds = {fds'[j].fd : j \in found}
  <2>1. \A j \in found : fds'[j].fd \in ReadyFds
    BY <1>3 DEF ReadyFds
  <2>2. ASSUME NEW fd \in ReadyFds PROVE \E j \in found : fds'[j].fd = fd
    <3>1. PICK j \in Live : fds[j].fd = fd
      BY ReadyIsWatched DEF Watched
    <3> QED BY <1>3, <3>1 DEF ReadyFds
  <2> QED BY <2>1, <2>2
<1>5. Watched' = Watched /\ Now = {}
  BY <1>1, <1>3 DEF Watched, Now
<1>6. IsFiniteSet(found) /\ ret' = Cardinality(found)
  <2>1. IsFiniteSet(Live) /\ found \in SUBSET Live
    BY <1>1, FS_Interval DEF Live
  <2> QED BY <2>1, FS_Subset DEF Poll
<1>7. CASE ret' = 0
  <2>1. ReadyFds = {}
    BY <1>4, <1>6, <1>7, FS_EmptySet
  <2>2. pc' \in {"stop", "poll"}
    BY <1>7 DEF Poll, NextPoll
  <2>3. Todo' = {} /\ Now' = {} /\ Phase = "wait" /\ Phase' \in {"wait", "over"}
    BY <1>1, <2>2 DEF Todo, Now, Phase, Scanning
  <2> QED BY <1>5, <2>1, <2>3 DEF Loop!Wait
<1>8. CASE ret' # 0
  <2>1. ReadyFds # {}
    BY <1>4, <1>6, <1>8, FS_EmptySet
  <2>2. pc' = "scan" /\ pos' = 0 /\ bound' = nfds
    BY <1>8 DEF Poll
  <2>3. Ahead' = Live
    BY <2>2 DEF Ahead, Live
  <2>4. Todo' = {fds'[j].fd : j \in found}
    BY <2>2, <2>3 DEF Todo, Scanning
  <2>5. Now' = {} /\ Phase = "wait" /\ Phase' = "round"
    BY <1>1, <2>2 DEF Now, Phase, Scanning
  <2> QED BY <1>4, <1>5, <2>1, <2>4, <2>5 DEF Loop!Wait
<1> QED BY <1>7, <1>8

\* Steps of the loop from an entry to the next, and to its end.
LEMMA ScanLoops ==
    ASSUME LInv, ScanIdle \/ ScanEnd
    PROVE  Loop!Others \/ Loop!Turn
<1>1. /\ pc = "scan" /\ Scanning /\ UNCHANGED tableVars /\ IInv
      /\ Watched' = Watched /\ Now = {} /\ Phase = "round"
  BY DEF ScanIdle, ScanEnd, AtEntry, Scanning, tableVars, Watched, Live, Now, Phase,
         LInv, CInv
<1>2. CASE ScanIdle
  <2>1. /\ pc' = "scan" /\ pos' = pos + 1 /\ bound' = bound /\ pos < bound
        /\ fds[pos].revents = {} /\ fds' = fds
    BY <1>2 DEF ScanIdle, AtEntry, NextEntry, tableVars
  <2>2. Todo' = Todo
    BY <1>1, <2>1, TodoIsAfter, TodoNext
  <2>3. Now' = {} /\ Phase' = "round"
    BY <2>1 DEF Now, Phase, Scanning
  <2> QED BY <1>1, <2>2, <2>3 DEF Loop!Others
<1>3. CASE ScanEnd
  <2>1. pos = bound /\ pc' \in {"stop", "poll"} /\ pos \in Nat
    BY <1>1, <1>3, Counts DEF ScanEnd, NextPoll
  <2>2. Todo = {}
    <3>1. pos .. bound - 1 = {}
      BY <2>1
    <3> QED BY <1>1, <3>1 DEF Todo, Ahead
  <2>3. Todo' = {} /\ Now' = {} /\ Phase' \in {"wait", "over"}
    BY <2>1 DEF Todo, Now, Phase, Scanning
  <2> QED BY <1>1, <2>2, <2>3 DEF Loop!Turn, Loop!Idle
<1> QED BY <1>2, <1>3

\* A callback begins with what is to do.
LEMMA ReadableBegins == ASSUME LInv, Readable PROVE \E fd \in Fd : Loop!Begin(fd)
<1>1. /\ pc = "scan" /\ Scanning /\ pos < bound /\ fds[pos].revents # {} /\ IInv
      /\ pc' \in {"accept", "recv"} /\ pos' = pos /\ bound' = bound
      /\ fds' = fds /\ nfds' = nfds
  BY DEF Readable, AtEntry, HasEvent, Scanning, tableVars, LInv, CInv
<1>2. /\ sock \notin After /\ Todo = After \cup {sock} /\ sock \in Fd
      /\ Todo' = After
  BY <1>1, TodoIsAfter, TodoStays, EntryIsBehind
<1>3. /\ Now = {} /\ Now' = {sock} /\ Phase = "round" /\ Phase' = "round"
      /\ Watched' = Watched
  BY <1>1 DEF Now, Phase, Scanning, sock, Watched, Live
<1>4. Loop!Begin(sock)
  BY <1>2, <1>3 DEF Loop!Begin, Loop!Idle
<1> QED BY <1>2, <1>4

\* The connection of a client that has left is closed with its entry.
LEMMA HangupDiscards == ASSUME LInv, Hangup PROVE \E fd \in Fd : Loop!Discard(fd)
<1>1. /\ pc = "scan" /\ Scanning /\ pos < bound /\ fds[pos].revents # {} /\ IInv
      /\ AtEntry
  BY DEF Hangup, AtEntry, HasEvent, Scanning, LInv, CInv
<1>2. sock # ListenFd
  BY <1>1, ListenerOnlyReads DEF Hangup, HasEvent
<1>3. remove_fd(sock) /\ CloseFds({sock}) /\ NextEntry
  BY <1>1, CloseFinds DEF Hangup
<1>4. /\ pc' = "scan" /\ pos' = pos + 1 /\ bound' = bound
      /\ \A j \in pos + 1 .. bound - 1 : fds'[j] = fds[j]
  BY <1>1, <1>2, <1>3, CloseEntry
<1>5. Watched' = Watched \ {sock}
  BY <1>1, <1>3, InvFacts, EntryIsBehind, RemoveFd
<1>6. /\ sock \notin After /\ Todo = After \cup {sock} /\ sock \in Fd
      /\ Todo' = After
  BY <1>1, <1>4, TodoIsAfter, TodoNext, EntryIsBehind
<1>7. Now = {} /\ Now' = {} /\ Phase = "round" /\ Phase' = "round"
  BY <1>1, <1>4 DEF Now, Phase, Scanning
<1>8. Loop!Discard(sock)
  BY <1>2, <1>5, <1>6, <1>7 DEF Loop!Discard, Loop!Idle
<1> QED BY <1>6, <1>8

\* Only the listening socket's callback starts a watch.
LEMMA AcceptWatches ==
    ASSUME LInv, IInv', Accept
    PROVE  \E fd \in Fd : Loop!Watch(fd)
<1>1. PICK fd \in Fd, c \in Client : AcceptGives(fd, c) /\ add_fd(fd, client_events)
  BY DEF Accept
<1>2. /\ pc = "accept" /\ pc' = pc /\ UNCHANGED serverVars /\ IInv
      /\ Scanning /\ Scanning' /\ pos < bound /\ sock = ListenFd
      /\ fd \in Descriptors \ Watched
  BY <1>1, InvFacts DEF Accept, AcceptGives, CanAccept, OpenFds, serverVars, Scanning,
                        LInv, CInv, IInv, LoopInv
<1>3. Watched' = Watched \cup {fd}
  <2>1. client_events \in Requested
    BY DEF client_events, Requested
  <2> QED BY <1>1, <1>2, <2>1, InvFacts, AddFd
<1>4. \A j \in pos .. bound - 1 : fds'[j] = fds[j]
  BY <1>2 DEF IInv, LoopInv, serverVars
<1>5. /\ \A j \in pos + 1 .. bound - 1 : fds'[j] = fds[j]
      /\ fds'[pos] = fds[pos]
  <2>1. /\ \A j \in pos + 1 .. bound - 1 : j \in pos .. bound - 1
        /\ pos \in pos .. bound - 1
    BY <1>2, Counts
  <2> QED BY <1>4, <2>1
<1>6. Todo' = Todo
  BY <1>2, <1>5, TodoIsAfter, TodoStays DEF serverVars
<1>7. Now = {ListenFd} /\ Now' = Now /\ Phase' = Phase
  BY <1>2, <1>5 DEF Now, Phase, Scanning, sock, serverVars
<1>8. Loop!Watch(fd)
  BY <1>2, <1>3, <1>6, <1>7 DEF Loop!Watch
<1> QED BY <1>8

\* A callback ends, and takes away at most the watch of its own descriptor.
LEMMA CallbackFinishes ==
    ASSUME LInv, AcceptEnd \/ RecvClose \/ Send
    PROVE  \E fd \in Fd : Loop!Finish(fd)
<1>1. /\ Scanning /\ pos < bound /\ pc \in {"accept", "recv", "send"} /\ IInv
      /\ pc = "accept" <=> sock = ListenFd
  BY DEF AcceptEnd, RecvClose, Send, Scanning, LInv, CInv, IInv, LoopInv
<1>2. \/ UNCHANGED tableVars /\ NextEntry
      \/ sock # ListenFd /\ remove_fd(sock) /\ CloseFds({sock}) /\ NextEntry
  BY <1>1, CloseFinds DEF AcceptEnd, RecvClose, Send
<1>3. /\ pc' = "scan" /\ pos' = pos + 1 /\ bound' = bound
      /\ \A j \in pos + 1 .. bound - 1 : fds'[j] = fds[j]
  <2>1. CASE UNCHANGED tableVars /\ NextEntry
    BY <2>1 DEF NextEntry, tableVars
  <2>2. CASE sock # ListenFd /\ remove_fd(sock) /\ CloseFds({sock}) /\ NextEntry
    BY <1>1, <2>2, CloseEntry
  <2> QED BY <1>2, <2>1, <2>2
<1>4. \/ Watched' = Watched
      \/ sock # ListenFd /\ Watched' = Watched \ {sock}
  <2>1. CASE UNCHANGED tableVars
    BY <2>1 DEF tableVars, Watched, Live
  <2>2. CASE sock # ListenFd /\ remove_fd(sock)
    BY <1>1, <2>2, InvFacts, EntryIsBehind, RemoveFd
  <2> QED BY <1>2, <2>1, <2>2
<1>5. Todo' = Todo /\ sock \in Fd
  BY <1>1, <1>3, TodoIsAfter, TodoNext, EntryIsBehind
<1>6. Now = {sock} /\ Now' = {} /\ Phase = "round" /\ Phase' = "round"
  BY <1>1, <1>3 DEF Now, Phase, Scanning
<1>7. Loop!Finish(sock)
  BY <1>4, <1>5, <1>6 DEF Loop!Finish
<1> QED BY <1>5, <1>7

\* Between its system calls a callback goes on with its own descriptor.
LEMMA RecvGoesOn == ASSUME LInv, Recv PROVE Loop!Others
<1>1. /\ Scanning /\ pos < bound /\ pc = "recv" /\ pc' = "send" /\ IInv
      /\ pos' = pos /\ bound' = bound /\ fds' = fds /\ nfds' = nfds
  BY DEF Recv, Scanning, LInv, CInv, IInv, LoopInv, tableVars
<1>2. Todo' = Todo
  BY <1>1, TodoIsAfter, TodoStays
<1>3. Now' = Now /\ Phase' = Phase /\ Watched' = Watched
  BY <1>1 DEF Now, Phase, Scanning, sock, Watched, Live
<1> QED BY <1>2, <1>3 DEF Loop!Others

\* An error ends the loop.
LEMMA FailureAborts ==
    ASSUME PollFails \/ AcceptDies \/ SendFails
    PROVE  Loop!Abort
<1>1. /\ pc \in {"poll", "accept", "send"} /\ pc' = "dead"
      /\ UNCHANGED <<fds, nfds>>
  BY DEF PollFails, AcceptDies, SendFails, Die, add_fd_fails, tableVars
<1>2. Watched' = Watched
  BY <1>1 DEF Watched, Live
<1>3. /\ Phase = "wait" \/ Now # {}
      /\ Phase' = "over" /\ Todo' = {} /\ Now' = {}
  BY <1>1 DEF Phase, Now, Todo, Scanning
<1> QED BY <1>2, <1>3 DEF Loop!Abort

\* After the loop watches only end.
LEMMA EndCloses == ASSUME LInv, CloseListener \/ RemoveAll PROVE Loop!Close
<1>1. pc \in {"stop", "drain"} /\ pc' \in {"drain", "done", "dead"} /\ IInv
  BY DEF CloseListener, RemoveAll, close, Die, LInv, CInv
<1>2. /\ Phase = "over" /\ Phase' = "over"
      /\ Todo' = Todo /\ Now' = Now
  BY <1>1 DEF Phase, Todo, Now, Scanning
<1>3. Watched' \subseteq Watched
  <2>1. CASE CloseListener
    <3>1. ListenFd \in Watched
      BY <1>1, <2>1 DEF CloseListener, IInv, ListenInv, Types, TypeOK, Watched, Live
    <3>2. remove_fd(ListenFd)
      BY <1>1, <2>1, <3>1, InvFacts, SearchFinds
         DEF CloseListener, close, IInv, Types, TypeOK
    <3> QED BY <1>1, <3>1, <3>2, InvFacts, RemoveFd
  <2>2. CASE RemoveAll
    <3>1. CASE clear_all
      BY <3>1, ClearAll
    <3>2. CASE UNCHANGED tableVars
      BY <3>2 DEF tableVars, Watched, Live
    <3> QED BY <2>2, <3>1, <3>2 DEF RemoveAll
  <2> QED BY <2>1, <2>2
<1> QED BY <1>2, <1>3 DEF Loop!Close

\* The clients change what is ready, and nothing else.
LEMMA ClientsAreOthers == ASSUME Clients \/ Ended \/ UNCHANGED vars PROVE Loop!Others
<1>1. UNCHANGED <<tableVars, serverVars>>
  BY DEF Clients, Ended, vars
<1>2. Phase' = Phase /\ Watched' = Watched /\ Todo' = Todo /\ Now' = Now
  BY <1>1 DEF tableVars, serverVars, Phase, Watched, Live, Todo, Ahead, Now, sock, Scanning
<1> QED BY <1>2 DEF Loop!Others

\* Each step of the server and its clients is a step of the loop.
LEMMA LoopNext ==
    ASSUME LInv, LInv', [Next]_vars
    PROVE  Loop!Next
<1>1. ReadyFds' \in SUBSET Watched'
  <2>1. (LInv => ReadyFds \subseteq Watched)'
    BY ReadyIsWatched, PTL
  <2> QED BY <2>1
<1>2. IInv'
  BY DEF LInv, CInv
<1>3. \/ Loop!Wait \/ Loop!Turn \/ Loop!Abort \/ Loop!Close \/ Loop!Others
      \/ \E fd \in Fd : \/ Loop!Begin(fd) \/ Loop!Watch(fd)
                        \/ Loop!Finish(fd) \/ Loop!Discard(fd)
  <2>1. CASE Poll
    BY <2>1, PollWaits
  <2>2. CASE ScanIdle \/ ScanEnd
    BY <2>2, ScanLoops
  <2>3. CASE Readable \/ Hangup
    BY <2>3, ReadableBegins, HangupDiscards
  <2>4. CASE Accept
    BY <1>2, <2>4, AcceptWatches
  <2>5. CASE AcceptEnd \/ RecvClose \/ Send
    BY <2>5, CallbackFinishes
  <2>6. CASE Recv
    BY <2>6, RecvGoesOn
  <2>7. CASE PollFails \/ AcceptDies \/ SendFails
    BY <2>7, FailureAborts
  <2>8. CASE CloseListener \/ RemoveAll
    BY <2>8, EndCloses
  <2>9. CASE Clients \/ Ended \/ UNCHANGED vars
    BY <2>9, ClientsAreOthers
  <2> QED BY <2>1, <2>2, <2>3, <2>4, <2>5, <2>6, <2>7, <2>8, <2>9 DEF Next, Server
<1> QED BY <1>1, <1>3 DEF Loop!Next

\* The loop starts with nothing to do.
LEMMA LoopInit == ASSUME Init PROVE Loop!Init
<1>1. /\ pc = "poll" /\ Watched = {ListenFd}
  <2>1. /\ fds = [j \in 0 .. fdsListAddCount - 1 |->
                    IF j = 0 THEN [fd |-> ListenFd, events |-> {"POLLIN"}, revents |-> {}]
                    ELSE Fresh]
        /\ nfds = 1 /\ pc = "poll"
    BY DEF Init, TableWith, listen_events
  <2>2. Live = {0} /\ 0 \in 0 .. fdsListAddCount - 1
    BY <2>1, TableAssumption DEF Live
  <2>3. fds[0] = [fd |-> ListenFd, events |-> {"POLLIN"}, revents |-> {}]
    BY <2>1, <2>2
  <2> QED BY <2>1, <2>2, <2>3 DEF Watched
<1>2. ReadyFds = {}
  BY SocketAssumption DEF Init, SocketsInit, ReadyFds, Ready, Queued
<1>3. Phase = "wait" /\ Todo = {} /\ Now = {}
  BY <1>1 DEF Phase, Todo, Now, Scanning
<1> QED BY <1>1, <1>2, <1>3 DEF Loop!Init

-----------------------------------------------------------------------------
(* The theorem *)

\* The loop of poll.poll is the loop of EventLoop: all that were ready when
\* poll returned have their callbacks, once each, and nothing else has.
THEOREM EventsAreDispatched == Spec => DispatchesEvents
<1>1. Init => Loop!Init
  BY LoopInit
<1>2. LInv /\ LInv' /\ [Next]_vars => [Loop!Next]_(Loop!vars)
  BY LoopNext
<1> QED BY <1>1, <1>2, LoopInvariance, PTL DEF Spec, DispatchesEvents, Loop!Spec
=============================================================================

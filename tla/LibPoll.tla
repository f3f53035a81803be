------------------------------ MODULE LibPoll ------------------------------
(***************************************************************************)
(* lib_poll.lua: the table of watched descriptors, a C array of struct     *)
(* pollfd that is grown with realloc and kept dense by moving its last     *)
(* entry into the hole a removal leaves.                                   *)
(*                                                                         *)
(* This module has the table's state and operations; the loop that calls   *)
(* the callbacks (poll.poll) is in AppServer, where its callers are.       *)
(* Indices are the array's own, from 0.                                    *)
(*                                                                         *)
(* A definition whose name ends in _mutant is the next one with a mistake  *)
(* that a change of the code could make; nothing uses it, and the runs     *)
(* fail when it takes the place of the right one (see the README).         *)
(***************************************************************************)
EXTENDS Integers

CONSTANTS
    fdsListAddCount,   \* entries the array grows by (10 in the code)
    ReallocFails       \* whether realloc may return nil

ASSUME TableAssumption ==
    /\ fdsListAddCount \in Nat \ {0}
    /\ ReallocFails \in BOOLEAN

VARIABLES
    fds,            \* the array: index -> [fd, events, revents]
    nfds,           \* entries in use, fds[0] .. fds[nfds - 1]
    fdsListSize,    \* entries allocated
    fdAddCount,     \* calls of add_fd
    fdRemoveCount   \* calls of remove_fd

tableVars == <<fds, nfds, fdsListSize, fdAddCount, fdRemoveCount>>

\* What a slot holds before anything was stored in it: memory from realloc.
\* No operation reads such a slot, which PollTableSafe shows.
Fresh == [fd |-> -1, events |-> {}, revents |-> {}]

Live == 0 .. nfds - 1
Watched == {fds[j].fd : j \in Live}

-----------------------------------------------------------------------------

\* The search starts one entry too low.
fd_arr_index_mutant(fd) ==
    IF \E j \in Live : j < nfds - 1 /\ fds[j].fd = fd
    THEN CHOOSE j \in Live : j < nfds - 1 /\ fds[j].fd = fd
    ELSE -1

\* Searches from the end, so it finds the last entry of the descriptor.
fd_arr_index(fd) ==
    IF \E j \in Live : fds[j].fd = fd
    THEN CHOOSE j \in Live : /\ fds[j].fd = fd
                             /\ \A k \in Live : k > j => fds[k].fd # fd
    ELSE -1

\* One entry less than the table's size is allocated.
expand_fds_mutant(countFds) ==
    [j \in 0 .. countFds - 2 |-> IF j \in DOMAIN fds THEN fds[j] ELSE Fresh]

\* realloc keeps what the array held. Where it fails, see add_fd_fails.
expand_fds(countFds) ==
    [j \in 0 .. countFds - 1 |-> IF j \in DOMAIN fds THEN fds[j] ELSE Fresh]

\* The array grows an entry too late.
add_fd_mutant(fd, events) ==
    LET size == IF nfds > fdsListSize THEN fdsListSize + fdsListAddCount
                ELSE fdsListSize
    IN  /\ fds' = [j \in DOMAIN expand_fds(size) |->
                     IF j = nfds THEN [Fresh EXCEPT !.fd = fd, !.events = events]
                     ELSE expand_fds(size)[j]]
        /\ fdsListSize' = size
        /\ nfds' = nfds + 1
        /\ fdAddCount' = fdAddCount + 1
        /\ UNCHANGED fdRemoveCount

MustGrow(fd) == fd_arr_index(fd) < 0 /\ nfds >= fdsListSize

\* A descriptor that is already in the table is appended once more, and
\* then without a look at the space left. revents keeps its old content.
add_fd(fd, events) ==
    LET size == IF MustGrow(fd) THEN fdsListSize + fdsListAddCount
                ELSE fdsListSize
    IN  /\ fds' = [expand_fds(size) EXCEPT ![nfds].fd = fd,
                                           ![nfds].events = events]
        /\ fdsListSize' = size
        /\ nfds' = nfds + 1
        /\ fdAddCount' = fdAddCount + 1
        /\ UNCHANGED fdRemoveCount

\* expand_fds raises an error when realloc gives nil. The call has been
\* counted by then, and the size, which is not yet the array's, recorded.
add_fd_fails(fd) ==
    /\ ReallocFails
    /\ MustGrow(fd)
    /\ fdsListSize' = fdsListSize + fdsListAddCount
    /\ fdAddCount' = fdAddCount + 1
    /\ UNCHANGED <<fds, nfds, fdRemoveCount>>

\* The last entry is dropped, not moved.
remove_fd_drops_last_mutant(fd) ==
    /\ fds' = [fds EXCEPT ![nfds - 1].fd = -1]
    /\ nfds' = nfds - 1
    /\ fdRemoveCount' = fdRemoveCount + 1
    /\ UNCHANGED <<fdsListSize, fdAddCount>>

\* The entries after the removed one are shifted down.
remove_fd_shifts_mutant(fd) ==
    /\ fds' = [j \in DOMAIN fds |->
                 IF j >= fd_arr_index(fd) /\ j < nfds - 1 THEN fds[j + 1] ELSE fds[j]]
    /\ nfds' = nfds - 1
    /\ fdRemoveCount' = fdRemoveCount + 1
    /\ UNCHANGED <<fdsListSize, fdAddCount>>

\* remove_fd of a descriptor in the table. The last entry's fd and events
\* are copied over the removed ones; its revents are not, and its own slot,
\* now past the end, is left as it was.
remove_fd(fd) ==
    LET idx == fd_arr_index(fd)
        last == nfds - 1
    IN  /\ fds' = IF idx # last
                  THEN [fds EXCEPT ![idx].fd = fds[last].fd,
                                   ![idx].events = fds[last].events]
                  ELSE [fds EXCEPT ![idx].fd = -1]
        /\ nfds' = last
        /\ fdRemoveCount' = fdRemoveCount + 1
        /\ UNCHANGED <<fdsListSize, fdAddCount>>

\* remove_fd of a descriptor that is not in the table raises an error after
\* it has counted the call.
remove_fd_missing(fd) ==
    /\ fd_arr_index(fd) < 0
    /\ fdRemoveCount' = fdRemoveCount + 1
    /\ UNCHANGED <<fds, nfds, fdsListSize, fdAddCount>>

clear_all ==
    /\ fds' = [j \in {} |-> Fresh]
    /\ nfds' = 0
    /\ fdsListSize' = 0
    /\ fdAddCount' = 0
    /\ fdRemoveCount' = 0

-----------------------------------------------------------------------------

\* The table after the first add_fd on a cleared one.
TableWith(fd, events) ==
    /\ fds = [j \in 0 .. fdsListAddCount - 1 |->
                IF j = 0 THEN [fd |-> fd, events |-> events, revents |-> {}]
                ELSE Fresh]
    /\ nfds = 1
    /\ fdsListSize = fdsListAddCount
    /\ fdAddCount = 1
    /\ fdRemoveCount = 0

=============================================================================

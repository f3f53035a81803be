----------------------------- MODULE EventLoop -----------------------------
(***************************************************************************)
(* What poll.poll promises to the callbacks, without a table, an order or  *)
(* events that have kinds: it waits until a descriptor is ready, then runs *)
(* the callback of each descriptor that was, once, and waits again. A      *)
(* callback may stop the watch of its own descriptor and of no other, and  *)
(* only the listening socket's may start one.                              *)
(***************************************************************************)
CONSTANTS
    Fd,
    ListenFd    \* the descriptor whose callback accepts

VARIABLES
    phase,      \* "wait", "round" or "over"
    watched,    \* descriptors that are watched
    ready,      \* those of them with something to do; it changes at any time
    todo,       \* those that were found ready and have not had their callback
    now         \* the one whose callback runs, if there is one

vars == <<phase, watched, ready, todo, now>>

Init ==
    /\ phase = "wait"
    /\ watched = {ListenFd}
    /\ ready = {} /\ todo = {} /\ now = {}

\* All that are ready are found, and no other.
Wait ==
    /\ phase = "wait"
    /\ todo' = ready
    /\ phase' \in (IF ready = {} THEN {"wait", "over"} ELSE {"round"})
    /\ UNCHANGED <<watched, now>>

Idle == phase = "round" /\ now = {}

Begin(fd) ==
    /\ Idle
    /\ fd \in todo
    /\ todo' = todo \ {fd}
    /\ now' = {fd}
    /\ UNCHANGED <<phase, watched>>

Watch(fd) ==
    /\ now = {ListenFd}
    /\ fd \notin watched
    /\ watched' = watched \cup {fd}
    /\ UNCHANGED <<phase, todo, now>>

Finish(fd) ==
    /\ now = {fd}
    /\ now' = {}
    /\ \/ UNCHANGED watched
       \/ fd # ListenFd /\ watched' = watched \ {fd}
    /\ UNCHANGED <<phase, todo>>

\* The callback of a descriptor whose other end has hung up: it is closed.
Discard(fd) ==
    /\ Idle
    /\ fd \in todo \ {ListenFd}
    /\ todo' = todo \ {fd}
    /\ watched' = watched \ {fd}
    /\ UNCHANGED <<phase, now>>

\* A round is over when there is nothing left to do in it.
Turn ==
    /\ Idle
    /\ todo = {}
    /\ phase' \in {"wait", "over"}
    /\ UNCHANGED <<watched, todo, now>>

\* poll or a callback raises an error.
Abort ==
    /\ phase = "wait" \/ now # {}
    /\ phase' = "over" /\ todo' = {} /\ now' = {}
    /\ UNCHANGED watched

Close ==
    /\ phase = "over"
    /\ watched' \in SUBSET watched
    /\ UNCHANGED <<phase, todo, now>>

Others == UNCHANGED <<phase, watched, todo, now>>

Next ==
    /\ ready' \in SUBSET watched'
    /\ \/ Wait \/ Turn \/ Abort \/ Close \/ Others
       \/ \E fd \in Fd : Begin(fd) \/ Watch(fd) \/ Finish(fd) \/ Discard(fd)

Spec == Init /\ [][Next]_vars
=============================================================================

------------------------------ MODULE PingPong ------------------------------
(***************************************************************************)
(* What AppSharedMemory promises to its two processes, without segments,   *)
(* status bytes or copies: one message at a time travels, whole, from the  *)
(* server to the client and, as the same message, back.                    *)
(***************************************************************************)
CONSTANTS
    Message,
    Returned(_, _)   \* what the client may return for what it caught

VARIABLES
    at,    \* "server", "toClient", "client" or "toServer"
    ball   \* the message last seen there

vars == <<at, ball>>

Init ==
    /\ at = "server"
    /\ ball \in Message

Serve ==
    /\ at = "server"
    /\ at' = "toClient"
    /\ ball' \in Message

ClientCatches ==
    /\ at = "toClient"
    /\ at' = "client"
    /\ UNCHANGED ball

Return ==
    /\ at = "client"
    /\ at' = "toServer"
    /\ ball' \in Message
    /\ Returned(ball, ball')

ServerCatches ==
    /\ at = "toServer"
    /\ at' = "server"
    /\ UNCHANGED ball

Next == Serve \/ ClientCatches \/ Return \/ ServerCatches

Spec == Init /\ [][Next]_vars
=============================================================================

--------------------------- MODULE RequestService ---------------------------
(***************************************************************************)
(* What AppServer promises to its clients, without descriptors, events or  *)
(* buffers. A client that has connected sends requests, a limited number   *)
(* of them ahead of their answers, and may leave at any time. The server   *)
(* answers each request once, but those that it finds together with one    *)
(* answer. It drops a client that is there only with an answer, if it was  *)
(* told to, or when it ends.                                               *)
(***************************************************************************)
EXTENDS Naturals

CONSTANTS
    Client,
    MaxOutstanding,   \* requests a client sends ahead of their answers
    closeConnection   \* an answer ends the connection

VARIABLES
    talk,    \* Client -> "away", "here", "left" (the client left) or
             \*   "dropped" (the server did)
    owed,    \* Client -> answers the server owes it
    up       \* the server has not begun to end

vars == <<talk, owed, up>>

Init ==
    /\ talk = [c \in Client |-> "away"]
    /\ owed = [c \in Client |-> 0]
    /\ up = TRUE

Here == {c \in Client : talk[c] = "here"}

Owe(c, n) == owed' = [owed EXCEPT ![c] = n]

\* Who is gone is owed nothing.
Drop(S) ==
    /\ talk' = [c \in Client |-> IF c \in S THEN "dropped" ELSE talk[c]]
    /\ owed' = [c \in Client |-> IF c \in S THEN 0 ELSE owed[c]]

Come(c) ==
    /\ talk[c] = "away"
    /\ talk' = [talk EXCEPT ![c] = "here"]
    /\ UNCHANGED <<owed, up>>

Ask(c) ==
    /\ c \in Here
    /\ owed[c] < MaxOutstanding
    /\ Owe(c, owed[c] + 1)
    /\ UNCHANGED <<talk, up>>

\* The requests that have arrived are taken for one.
Merge(c) ==
    /\ up
    /\ c \in Here
    /\ owed[c] > 1
    /\ Owe(c, 1)
    /\ UNCHANGED <<talk, up>>

Answer(c) ==
    /\ up
    /\ c \in Here
    /\ owed[c] > 0
    /\ IF closeConnection
       THEN Drop({c})
       ELSE Owe(c, owed[c] - 1) /\ UNCHANGED talk
    /\ UNCHANGED up

Leave(c) ==
    /\ c \in Here
    /\ talk' = [talk EXCEPT ![c] = "left"]
    /\ Owe(c, 0)
    /\ UNCHANGED up

\* The server ends, and in one or more steps drops the clients it had.
End ==
    /\ up' = FALSE
    /\ \E S \in SUBSET Here : Drop(S)

Next ==
    \/ End
    \/ \E c \in Client : Come(c) \/ Ask(c) \/ Merge(c) \/ Answer(c) \/ Leave(c)

Spec == Init /\ [][Next]_vars
=============================================================================

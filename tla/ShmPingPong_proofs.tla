------------------------ MODULE ShmPingPong_proofs ------------------------
(***************************************************************************)
(* Theorems about ShmPingPong for every StatusCount from 3, every number   *)
(* of loops and every way to cut the data into parts.                      *)
(***************************************************************************)
EXTENDS ShmPingPong, FiniteSetTheorems, TLAPS

-----------------------------------------------------------------------------
(* Types *)

\* Only the client's last answer is prepared past LoopCount.
LoopBound ==
    /\ loop["server"] <= LoopCount
    /\ \A p \in Proc : pc[p] \in {"hello", "helloWait", "sleep"} => loop[p] = 1
    /\ \A p \in Proc : pc[p] \notin {"sendWait", "copyOut", "done"}
                         => loop[p] <= LoopCount

TInv == TypeOK /\ LoopBound

\* numStringLength finds a limit for every number the server may write, so
\* what send_data_set writes over a number is a number.
LEMMA OverwriteIsNumber ==
    ASSUME NEW l \in 1 .. LoopCount, NEW old \in Int
    PROVE  overwrite(old, l) \in Int
<1> USE ShmAssumption
<1> DEFINE Fits(n) == l < Powers[n]
           Least(n) == Fits(n) /\ \A m \in 1 .. 9 : Fits(m) => n <= m
<1>1. Fits(9)
  OBVIOUS
<1>2. \E n \in 1 .. 9 : Least(n)
  <2> HIDE DEF Fits
  <2>1. CASE Fits(1)
    BY <2>1
  <2>2. CASE ~Fits(1) /\ Fits(2)
    BY <2>2
  <2>3. CASE ~Fits(1) /\ ~Fits(2) /\ Fits(3)
    BY <2>3
  <2>4. CASE ~Fits(1) /\ ~Fits(2) /\ ~Fits(3) /\ Fits(4)
    BY <2>4
  <2>5. CASE ~Fits(1) /\ ~Fits(2) /\ ~Fits(3) /\ ~Fits(4)
    <3>1. CASE Fits(5)
      BY <2>5, <3>1
    <3>2. CASE ~Fits(5) /\ Fits(6)
      BY <2>5, <3>2
    <3>3. CASE ~Fits(5) /\ ~Fits(6) /\ Fits(7)
      BY <2>5, <3>3
    <3>4. CASE ~Fits(5) /\ ~Fits(6) /\ ~Fits(7) /\ Fits(8)
      BY <2>5, <3>4
    <3>5. CASE ~Fits(5) /\ ~Fits(6) /\ ~Fits(7) /\ ~Fits(8)
      BY <2>5, <3>5, <1>1
    <3> QED BY <3>1, <3>2, <3>3, <3>4, <3>5
  <2> QED BY <2>1, <2>2, <2>3, <2>4, <2>5
<1>3. numStringLength(l) \in 1 .. 9
  BY <1>2 DEF numStringLength
<1>4. Powers[numStringLength(l)] \in Nat \ {0}
  BY <1>3
<1> QED BY <1>4 DEF overwrite

\* What PrepareSend leaves behind.
LEMMA PrepareSendTypes ==
    ASSUME TInv, NEW p \in Proc, NEW l \in 1 .. LoopCount + 1,
           p = "server" => l <= LoopCount,
           PrepareSend(p, l)
    PROVE  /\ sendData' \in [Proc -> Message]
           /\ echoing' \in BOOLEAN
           /\ pc' = [pc EXCEPT ![p] = "sendWait"]
<1>1. sendData' \in [Proc -> Message]
  <2>1. CASE p = "server" /\ useSetData
    <3>1. \A i \in Part : overwrite(sendData["server"][i], l) \in Int
      BY <2>1, OverwriteIsNumber, ShmAssumption DEF TInv, TypeOK, Message, Proc
    <3> QED BY <2>1, <3>1 DEF PrepareSend, send_data_set, TInv, TypeOK, Message, Proc
  <2> QED BY <2>1 DEF PrepareSend, TInv, TypeOK
<1> QED BY <1>1 DEF PrepareSend, goto, TInv, TypeOK

-----------------------------------------------------------------------------
(* The loop control of a process, summed up *)

\* Process p goes on to its next send or read, or ends; it changes nothing
\* that decides what its peer sends.
Moves(p) ==
    /\ \E l \in {"sendWait", "readWait", "done"}, n \in 1 .. LoopCount + 1 :
         /\ pc' = [pc EXCEPT ![p] = l]
         /\ loop' = [loop EXCEPT ![p] = n]
         /\ p = "server" \/ l = "readWait" => n <= LoopCount
    /\ bigloop' \in [Proc -> 1 .. BigLoops]
    /\ sendData' \in [Proc -> Message]
    /\ echoing' \in BOOLEAN
    /\ sendData'[Peer(p)] = sendData[Peer(p)]
    /\ p = "server" => echoing' = echoing

LEMMA PrepareSendMoves ==
    ASSUME TInv, NEW p \in Proc, NEW l \in 1 .. LoopCount + 1,
           p = "server" => l <= LoopCount,
           PrepareSend(p, l),
           loop' = [loop EXCEPT ![p] = l],
           bigloop' \in [Proc -> 1 .. BigLoops]
    PROVE  Moves(p)
<1>1. /\ sendData' \in [Proc -> Message]
      /\ echoing' \in BOOLEAN
      /\ pc' = [pc EXCEPT ![p] = "sendWait"]
  BY PrepareSendTypes
<1>2. sendData'[Peer(p)] = sendData[Peer(p)]
  BY DEF PrepareSend, send_data_set, Peer, Proc, TInv, TypeOK
<1>3. p = "server" => echoing' = echoing
  BY DEF PrepareSend, TInv, TypeOK
<1> QED BY <1>1, <1>2, <1>3 DEF Moves

LEMMA StartLoopMoves ==
    ASSUME TInv, NEW p \in Proc,
           StartLoop(p),
           loop' = [loop EXCEPT ![p] = 1],
           bigloop' \in [Proc -> 1 .. BigLoops]
    PROVE  Moves(p)
<1>1. 1 \in 1 .. LoopCount + 1 /\ 1 <= LoopCount
  BY ShmAssumption
<1>2. CASE p = "server"
  BY <1>1, <1>2, PrepareSendMoves DEF StartLoop
<1>3. CASE p # "server"
  BY <1>1, <1>3 DEF StartLoop, goto, Moves, TInv, TypeOK
<1> QED BY <1>2, <1>3

LEMMA EndOfLoopMoves ==
    ASSUME TInv, NEW p \in Proc, EndOfLoop(p)
    PROVE  Moves(p)
<1>1. CASE bigloop[p] < BigLoops
  <2>1. bigloop' \in [Proc -> 1 .. BigLoops]
    BY <1>1, ShmAssumption DEF EndOfLoop, TInv, TypeOK
  <2> QED BY <1>1, <2>1, StartLoopMoves DEF EndOfLoop
<1>2. CASE ~(bigloop[p] < BigLoops)
  <2>1. loop' = [loop EXCEPT ![p] = loop[p]]
    BY <1>2 DEF EndOfLoop, loopVars, TInv, TypeOK
  <2>2. loop[p] \in 1 .. LoopCount + 1 /\ (p = "server" => loop[p] <= LoopCount)
    BY DEF TInv, TypeOK, LoopBound
  <2> QED BY <1>2, <2>1, <2>2 DEF EndOfLoop, goto, loopVars, Moves, TInv, TypeOK
<1> QED BY <1>1, <1>2

LEMMA AfterSendMoves ==
    ASSUME TInv, NEW p \in Proc, AfterSend(p)
    PROVE  Moves(p)
<1>1. CASE loop[p] > LoopCount
  BY <1>1, EndOfLoopMoves DEF AfterSend
<1>2. CASE ~(loop[p] > LoopCount)
  <2>1. loop' = [loop EXCEPT ![p] = loop[p]]
    BY <1>2 DEF AfterSend, loopVars, TInv, TypeOK
  <2>2. loop[p] \in 1 .. LoopCount + 1 /\ loop[p] <= LoopCount
    BY <1>2, ShmAssumption DEF TInv, TypeOK
  <2> QED BY <1>2, <2>1, <2>2 DEF AfterSend, goto, loopVars, Moves, TInv, TypeOK
<1> QED BY <1>1, <1>2

LEMMA AfterReadMoves ==
    ASSUME TInv, NEW p \in Proc, pc[p] = "copyIn", AfterRead(p)
    PROVE  Moves(p)
<1>1. loop[p] \in 1 .. LoopCount
  BY DEF TInv, TypeOK, LoopBound
<1>2. CASE loop[p] < LoopCount \/ p = "client"
  <2>1. loop[p] + 1 \in 1 .. LoopCount + 1
    BY <1>1, ShmAssumption
  <2>2. p = "server" => loop[p] + 1 <= LoopCount
    BY <1>1, <1>2, ShmAssumption
  <2>3. bigloop' \in [Proc -> 1 .. BigLoops]
    BY <1>2 DEF AfterRead, SetLoop, TInv, TypeOK
  <2> QED BY <1>2, <2>1, <2>2, <2>3, PrepareSendMoves DEF AfterRead, SetLoop
<1>3. CASE ~(loop[p] < LoopCount \/ p = "client")
  BY <1>3, EndOfLoopMoves DEF AfterRead
<1> QED BY <1>2, <1>3

-----------------------------------------------------------------------------
(* Type correctness *)

LEMMA SuccIsStatus == \A i \in Status : Succ(i) \in Status
BY ShmAssumption DEF Status, Succ

\* What Moves gives of the invariant.
LEMMA MovesTypes ==
    ASSUME TInv, NEW p \in Proc, Moves(p)
    PROVE  /\ pc' \in [Proc -> {"hello", "helloWait", "sleep", "sendWait",
                               "copyOut", "readWait", "copyIn", "done"}]
           /\ loop' \in [Proc -> 1 .. LoopCount + 1]
           /\ bigloop' \in [Proc -> 1 .. BigLoops]
           /\ sendData' \in [Proc -> Message]
           /\ echoing' \in BOOLEAN
           /\ LoopBound'
<1>1. PICK l \in {"sendWait", "readWait", "done"}, n \in 1 .. LoopCount + 1 :
         /\ pc' = [pc EXCEPT ![p] = l]
         /\ loop' = [loop EXCEPT ![p] = n]
         /\ p = "server" \/ l = "readWait" => n <= LoopCount
  BY DEF Moves
<1>2. LoopBound'
  BY <1>1 DEF TInv, TypeOK, LoopBound, Proc
<1> QED BY <1>1, <1>2 DEF Moves, TInv, TypeOK

LEMMA TypeInit == Init => TInv
<1> SUFFICES ASSUME Init PROVE TInv
  OBVIOUS
<1>1. TypeOK
  <2>1. \A n \in Int : Whole(n) \in Message
    BY DEF Whole, Message
  <2>2. {0, NotRead, FromClient, NoData} \subseteq Int
    BY DEF NotRead, FromClient, NoData
  <2>3. /\ data \in [Proc -> Message]
        /\ sendData \in [Proc -> Message]
        /\ readData \in [Proc -> Message]
    BY <2>1, <2>2 DEF Init
  <2>4. buffer \in [Proc -> [Part -> Int \cup {NoStore}]]
    BY DEF Init, Empty
  <2>5. 0 \in Status /\ 1 \in 1 .. LoopCount + 1 /\ 1 \in 1 .. BigLoops
    BY ShmAssumption DEF Status
  <2>6. /\ status \in [Proc -> Status \cup {Hello, Zero}]
        /\ idx \in [Proc -> Status]
        /\ copied \in [Proc -> SUBSET Part]
        /\ loop \in [Proc -> 1 .. LoopCount + 1]
        /\ bigloop \in [Proc -> 1 .. BigLoops]
    BY <2>5 DEF Init
  <2>7. /\ pc \in [Proc -> {"hello", "helloWait", "sleep", "sendWait",
                           "copyOut", "readWait", "copyIn", "done"}]
        /\ echoing \in BOOLEAN
    BY DEF Init
  <2> QED BY <2>3, <2>4, <2>6, <2>7 DEF TypeOK
<1>2. LoopBound
  BY ShmAssumption DEF Init, LoopBound, Proc
<1> QED BY <1>1, <1>2 DEF TInv

LEMMA TypeNext == TInv /\ [Next]_vars => TInv'
<1> SUFFICES ASSUME TInv, [Next]_vars PROVE TInv'
  OBVIOUS
<1> USE DEF TInv
<1>1. ASSUME NEW p \in Proc, SayHello(p) PROVE TInv'
  BY <1>1 DEF SayHello, statusOutSet, goto, loopVars, TypeOK, LoopBound
<1>2. ASSUME NEW p \in Proc, SeeHello(p) PROVE TInv'
  BY <1>2 DEF SeeHello, goto, loopVars, memVars, TypeOK, LoopBound
<1>3. ASSUME NEW p \in Proc, WakeUp(p) PROVE TInv'
  <2>1. loop' = [loop EXCEPT ![p] = 1] /\ bigloop' \in [Proc -> 1 .. BigLoops]
    BY <1>3 DEF WakeUp, LoopBound, TypeOK
  <2>2. Moves(p)
    BY <1>3, <2>1, StartLoopMoves DEF WakeUp
  <2>3. 0 \in Status
    BY ShmAssumption DEF Status
  <2> QED BY <1>3, <2>2, <2>3, MovesTypes DEF WakeUp, statusOutSet, TypeOK
<1>4. ASSUME NEW p \in Proc, SendWait(p) PROVE TInv'
  BY <1>4, SuccIsStatus DEF SendWait, goto, loopVars, memVars, TypeOK, LoopBound
<1>5. ASSUME NEW p \in Proc, NEW i \in Part, CopyOut(p, i) PROVE TInv'
  <2>1. Source(p)[i] \in Int
    BY DEF Source, TypeOK, Message
  <2> QED BY <1>5, <2>1 DEF CopyOut, loopVars, TypeOK, LoopBound
<1>6. ASSUME NEW p \in Proc, Publish(p) PROVE TInv'
  <2>1. Moves(p)
    BY <1>6, AfterSendMoves DEF Publish
  <2> QED BY <1>6, <2>1, MovesTypes DEF Publish, statusOutSet, TypeOK
<1>7. ASSUME NEW p \in Proc, NEW i \in Part, Drain(p, i) PROVE TInv'
  <2>1. buffer[p][i] \in Int
    BY <1>7 DEF Drain, TypeOK
  <2> QED BY <1>7, <2>1 DEF Drain, loopVars, TypeOK, LoopBound, Message
<1>8. ASSUME NEW p \in Proc, ReadWait(p) PROVE TInv'
  BY <1>8, SuccIsStatus DEF ReadWait, goto, loopVars, memVars, TypeOK, LoopBound
<1>9. ASSUME NEW p \in Proc, NEW i \in Part, CopyIn(p, i) PROVE TInv'
  <2>1. data[Peer(p)][i] \in Int
    BY DEF TypeOK, Message, Peer, Proc
  <2> QED BY <1>9, <2>1 DEF CopyIn, loopVars, memVars, TypeOK, LoopBound, Message
<1>10. ASSUME NEW p \in Proc, Acknowledge(p) PROVE TInv'
  <2>1. Moves(p)
    BY <1>10, AfterReadMoves DEF Acknowledge
  <2> QED BY <1>10, <2>1, MovesTypes DEF Acknowledge, statusOutSet, TypeOK
<1>11. CASE UNCHANGED vars
  BY <1>11 DEF vars, memVars, loopVars, TypeOK, LoopBound
<1> QED
  BY <1>1, <1>2, <1>3, <1>4, <1>5, <1>6, <1>7, <1>8, <1>9, <1>10, <1>11
  DEF Next, Step, Memory, Terminated

\* Every variable keeps its type.
THEOREM TypeCorrect == Spec => []TypeOK
<1>1. Spec => []TInv
  BY TypeInit, TypeNext, PTL DEF Spec
<1>2. TInv => TypeOK
  BY DEF TInv
<1> QED BY <1>1, <1>2, PTL

-----------------------------------------------------------------------------
(* The turns *)

\* Before both processes are in their loops.
Handshake ==
    /\ \A p \in Proc : idx[p] = 0 /\ copied[p] = {}
    /\ pc["server"] \in {"hello", "helloWait", "sleep", "sendWait"}
    /\ pc["client"] \in {"hello", "helloWait", "sleep", "readWait"}
    /\ \A p \in Proc :
         status[p] = IF pc[p] = "hello" THEN Zero
                     ELSE IF pc[p] \in {"helloWait", "sleep"} THEN Hello ELSE 0

\* From then on one process, o, waits (or has ended), and its status is the
\* index it is at; the other, h, has the turn, or will have it when it looks
\* at the status.
Idle(o) == Waiting(o) /\ idx[o] = status[o] /\ copied[o] = {}

HasTurn(h, o) ==
    \/ Idle(h) /\ status[o] = Succ(idx[h])
    \/ pc[h] = "copyIn" /\ idx[h] = idx[o] /\ Succ(status[h]) = idx[h]
    \/ /\ pc[h] \in {"sendWait", "done"} /\ copied[h] = {}
       /\ idx[h] = idx[o] /\ status[h] = idx[h]
    \/ pc[h] = "copyOut" /\ idx[h] = Succ(idx[o]) /\ status[h] = idx[o]

Exchange == \E h \in Proc : Idle(Peer(h)) /\ HasTurn(h, Peer(h))

Turns == Handshake \/ Exchange

\* What the index is counted modulo is large enough that a process does not
\* take its peer's last status but one for the next.
LEMMA SuccFacts ==
    ASSUME NEW i \in Status
    PROVE  Succ(i) \in Status /\ Succ(i) # i /\ Succ(Succ(i)) # i
BY ShmAssumption DEF Status, Succ

LEMMA Peers ==
    \A p \in Proc : Peer(p) \in Proc /\ Peer(p) # p /\ Peer(Peer(p)) = p
                    /\ \A q \in Proc : q = p \/ q = Peer(p)
BY DEF Peer, Proc

LEMMA TurnsInit == Init => Turns
BY DEF Init, Turns, Handshake, Proc

\* One step of a handshake: the last of them begins the exchange with the
\* server's turn.
LEMMA HandshakeStep ==
    ASSUME TInv, Handshake, NEW p \in Proc,
           Step(p) \/ Memory(p)
    PROVE  Turns'
<1> USE DEF Handshake, Proc, Peer
<1>0. 0 \in Status /\ Succ(0) # 0 /\ Hello \notin Status /\ Zero \notin Status
      /\ Hello # Zero /\ Succ(0) \in Status
  BY ShmAssumption, SuccFacts DEF Status
<1>1. CASE SayHello(p)
  BY <1>1 DEF SayHello, statusOutSet, goto, TInv, TypeOK, Turns
<1>2. CASE SeeHello(p)
  BY <1>2 DEF SeeHello, goto, memVars, TInv, TypeOK, Turns
<1>3. CASE WakeUp(p)
  BY <1>3 DEF WakeUp, StartLoop, PrepareSend, statusOutSet, goto, TInv, TypeOK, Turns
<1>4. CASE SendWait(p)
  <2>1. /\ p = "server"
        /\ status["client"] = 0 /\ pc["client"] = "readWait"
    BY <1>0, <1>4 DEF SendWait, inStatus
  <2>2. Idle("client")'
    BY <1>4, <2>1 DEF SendWait, goto, memVars, TInv, TypeOK, Idle, Waiting
  <2>3. HasTurn("server", "client")'
    BY <1>4, <2>1 DEF SendWait, goto, memVars, TInv, TypeOK, HasTurn
  <2> QED BY <2>2, <2>3 DEF Turns, Exchange
<1>5. CASE ReadWait(p)
  BY <1>0, <1>5 DEF ReadWait, inStatus
<1>6. CASE Publish(p) \/ Acknowledge(p) \/ \E i \in Part : CopyOut(p, i) \/ CopyIn(p, i)
  BY <1>6 DEF Publish, Acknowledge, CopyOut, CopyIn
<1>7. CASE Memory(p)
  BY <1>7 DEF Memory, Drain, Turns
<1> QED BY <1>1, <1>2, <1>3, <1>4, <1>5, <1>6, <1>7 DEF Step

\* A process that has sent goes on to read, or ends; it sets up no message.
LEMMA AfterSendGoes ==
    ASSUME TInv, NEW p \in Proc, AfterSend(p)
    PROVE  /\ UNCHANGED <<sendData, echoing>>
           /\ \E l \in {"readWait", "done"} : pc' = [pc EXCEPT ![p] = l]
<1>1. CASE loop[p] > LoopCount
  <2>1. p = "client"
    BY <1>1, ShmAssumption DEF TInv, TypeOK, LoopBound, Proc
  <2> QED BY <1>1, <2>1 DEF AfterSend, EndOfLoop, StartLoop, goto, loopVars
<1>2. CASE ~(loop[p] > LoopCount)
  BY <1>2 DEF AfterSend, goto, loopVars
<1> QED BY <1>1, <1>2

\* A process that has read goes on to send, or ends.
LEMMA AfterReadGoes ==
    ASSUME NEW p \in Proc, AfterRead(p)
    PROVE  \E l \in {"sendWait", "done"} : pc' = [pc EXCEPT ![p] = l]
<1>1. p = "server" \/ p = "client"
  BY DEF Proc
<1> QED BY <1>1 DEF AfterRead, EndOfLoop, StartLoop, PrepareSend, goto

\* The process that waits is not let through before it is its turn.
LEMMA WaiterWaits ==
    ASSUME TInv, NEW h \in Proc, Idle(Peer(h)), HasTurn(h, Peer(h))
    PROVE  status[h] # Succ(idx[Peer(h)])
<1> DEFINE o == Peer(h)
<1>1. /\ o \in Proc /\ idx[h] \in Status /\ idx[o] \in Status
      /\ idx[o] = status[o]
  BY Peers DEF TInv, TypeOK, Idle
<1>2. CASE Idle(h) /\ status[o] = Succ(idx[h])
  BY <1>1, <1>2, SuccFacts DEF Idle
<1>3. CASE idx[h] = idx[o] /\ Succ(status[h]) = idx[h]
  <2>1. ASSUME status[h] = Succ(idx[o]) PROVE FALSE
    BY <1>1, <1>3, <2>1, SuccFacts
  <2> QED BY <2>1
<1>4. CASE status[h] = idx[o]
  BY <1>1, <1>4, SuccFacts
<1> QED BY <1>2, <1>3, <1>4 DEF HasTurn

LEMMA ExchangeStep ==
    ASSUME TInv, Exchange, NEW p \in Proc,
           Step(p) \/ Memory(p)
    PROVE  Exchange'
<1>1. PICK h \in Proc : Idle(Peer(h)) /\ HasTurn(h, Peer(h))
  BY DEF Exchange
<1> DEFINE o == Peer(h)
<1>2. /\ o \in Proc /\ o # h /\ Peer(o) = h
      /\ idx[h] \in Status /\ idx[o] \in Status
  BY Peers DEF TInv, TypeOK
<1>3. pc[o] \in {"readWait", "done"}
  BY <1>1 DEF Idle, Waiting
<1>4. CASE Memory(p)
  BY <1>1, <1>4 DEF Memory, Drain, Exchange, Idle, HasTurn, Waiting
<1>5. CASE Step(p) /\ p = o
  <2>1. status[h] # Succ(idx[o])
    BY <1>1, WaiterWaits
  <2> QED
    BY <1>2, <1>3, <1>5, <2>1
    DEF Step, SayHello, SeeHello, WakeUp, SendWait, Publish, ReadWait,
        Acknowledge, CopyOut, CopyIn, inStatus
<1>6. CASE Step(p) /\ p = h
  <2>1. pc[h] \in {"readWait", "done", "copyIn", "sendWait", "copyOut"}
    BY <1>1 DEF HasTurn, Idle, Waiting
  <2>2. CASE ReadWait(h)
    <3>1. Idle(h) /\ status[o] = Succ(idx[h])
      BY <1>1, <2>2 DEF ReadWait, HasTurn
    <3>2. Idle(o)'
      BY <1>1, <1>2, <2>2 DEF ReadWait, goto, memVars, Idle, Waiting, TInv, TypeOK
    <3>3. HasTurn(h, o)'
      BY <1>1, <1>2, <2>2, <3>1
      DEF ReadWait, goto, memVars, Idle, HasTurn, TInv, TypeOK
    <3> QED BY <3>2, <3>3 DEF Exchange
  <2>3. ASSUME NEW i \in Part, CopyIn(h, i) PROVE Exchange'
    <3>1. Idle(o)'
      BY <1>1, <1>2, <2>3 DEF CopyIn, memVars, Idle, Waiting, TInv, TypeOK
    <3>2. HasTurn(h, o)'
      BY <1>1, <1>2, <2>3 DEF CopyIn, memVars, Idle, Waiting, HasTurn, TInv, TypeOK
    <3> QED BY <3>1, <3>2 DEF Exchange
  <2>4. CASE Acknowledge(h)
    <3>1. PICK l \in {"sendWait", "done"} : pc' = [pc EXCEPT ![h] = l]
      BY <2>4, AfterReadGoes DEF Acknowledge
    <3>2. Idle(o)'
      BY <1>1, <1>2, <2>4, <3>1
      DEF Acknowledge, statusOutSet, Idle, Waiting, TInv, TypeOK
    <3>3. HasTurn(h, o)'
      BY <1>1, <1>2, <2>4, <3>1
      DEF Acknowledge, statusOutSet, Idle, Waiting, HasTurn, TInv, TypeOK
    <3> QED BY <3>2, <3>3 DEF Exchange
  <2>5. CASE SendWait(h)
    <3>1. Idle(o)'
      BY <1>1, <1>2, <2>5 DEF SendWait, goto, memVars, Idle, Waiting, TInv, TypeOK
    <3>2. HasTurn(h, o)'
      BY <1>1, <1>2, <2>5
      DEF SendWait, goto, memVars, Idle, Waiting, HasTurn, TInv, TypeOK
    <3> QED BY <3>1, <3>2 DEF Exchange
  <2>6. ASSUME NEW i \in Part, CopyOut(h, i) PROVE Exchange'
    <3>1. Idle(o)'
      BY <1>1, <1>2, <2>6 DEF CopyOut, Idle, Waiting, TInv, TypeOK
    <3>2. HasTurn(h, o)'
      BY <1>1, <1>2, <2>6 DEF CopyOut, Idle, Waiting, HasTurn, TInv, TypeOK
    <3> QED BY <3>1, <3>2 DEF Exchange
  <2>7. CASE Publish(h)
    <3>1. PICK l \in {"readWait", "done"} : pc' = [pc EXCEPT ![h] = l]
      BY <2>7, AfterSendGoes DEF Publish
    <3>2. Idle(h)'
      BY <1>2, <2>7, <3>1 DEF Publish, statusOutSet, Idle, Waiting, TInv, TypeOK
    <3>3. HasTurn(o, h)'
      BY <1>1, <1>2, <2>7, <3>1
      DEF Publish, statusOutSet, Idle, Waiting, HasTurn, TInv, TypeOK
    <3> QED BY <1>2, <3>2, <3>3 DEF Exchange
  <2> QED
    BY <1>6, <2>1, <2>2, <2>3, <2>4, <2>5, <2>6, <2>7
    DEF Step, SayHello, SeeHello, WakeUp
<1> QED BY <1>4, <1>5, <1>6, Peers

LEMMA TurnsInvariant == Spec => []Turns
<1>1. TInv /\ Turns /\ [Next]_vars => Turns'
  <2> SUFFICES ASSUME TInv, Turns, [Next]_vars PROVE Turns'
    OBVIOUS
  <2>1. CASE UNCHANGED vars
    BY <2>1
    DEF vars, memVars, loopVars, Turns, Handshake, Exchange, Idle, HasTurn, Waiting
  <2>2. ASSUME NEW p \in Proc, Step(p) \/ Memory(p) PROVE Turns'
    BY <2>2, HandshakeStep, ExchangeStep DEF Turns
  <2> QED BY <2>1, <2>2 DEF Next, Terminated
<1> QED BY <1>1, TypeInit, TypeNext, TurnsInit, PTL DEF Spec

\* One process at a time copies to or from the segments, whatever the order
\* in which stores become visible and however long the handshake's sleep.
THEOREM TurnsAreTaken == Spec => []OneAtATime
<1>1. Turns => OneAtATime
  BY Peers DEF Turns, Handshake, Exchange, Idle, Waiting, OneAtATime, Proc
<1> QED BY <1>1, TurnsInvariant, PTL

-----------------------------------------------------------------------------
(* The data *)

\* The message of p is in its segment for its peer: the peer copies it, or
\* will.
Offered(p) ==
    \/ pc[Peer(p)] = "copyIn"
    \/ Waiting(p) /\ Waiting(Peer(p)) /\ status[p] = Succ(idx[Peer(p)])

Stored(p, i) ==
    \/ buffer[p][i] = Source(p)[i]
    \/ buffer[p][i] = NoStore /\ data[p][i] = Source(p)[i]

DataInv ==
    \A p \in Proc :
        /\ pc[p] # "copyOut" => buffer[p] = Empty
        /\ pc[p] = "copyOut" => \A i \in Part :
             IF i \in copied[p] THEN Stored(p, i) ELSE buffer[p][i] = NoStore
        /\ Offered(p) => data[p] = Source(p)
        /\ pc[p] = "copyIn" =>
             \A i \in copied[p] : readData[p][i] = data[Peer(p)][i]

DInv == TInv /\ Turns /\ DataInv

\* What the turns say of each program counter, without naming the holder.
LEMMA TurnFacts ==
    ASSUME TInv, Turns, NEW p \in Proc
    PROVE  /\ pc[p] \in {"copyIn", "copyOut"} => Idle(Peer(p))
           /\ pc[p] \in {"sendWait", "hello", "helloWait", "sleep"} => copied[p] = {}
           /\ pc[p] \in {"copyIn", "copyOut"} => pc[Peer(p)] \notin {"copyIn", "copyOut"}
           /\ pc[p] = "copyIn" => idx[p] = idx[Peer(p)]
           /\ pc[p] = "copyOut" => idx[p] = Succ(idx[Peer(p)])
           /\ pc[p] = "readWait" => copied[p] = {}
           /\ (pc[p] = "readWait" /\ status[Peer(p)] = Succ(idx[p]))
                => Idle(Peer(p)) /\ Idle(p)
<1>1. CASE Handshake
  <2>1. 0 \in Status /\ Succ(0) # 0 /\ Succ(0) # Hello /\ Succ(0) # Zero
    BY ShmAssumption, SuccFacts DEF Status
  <2> QED BY <1>1, <2>1, Peers DEF Handshake, Proc
<1>2. CASE Exchange
  <2>1. PICK h \in Proc : Idle(Peer(h)) /\ HasTurn(h, Peer(h))
    BY <1>2 DEF Exchange
  <2>2. status[h] # Succ(idx[Peer(h)])
    BY <2>1, WaiterWaits
  <2>3. CASE p = h
    BY <2>1, <2>3, Peers DEF Idle, HasTurn, Waiting
  <2>4. CASE p = Peer(h)
    BY <2>1, <2>2, <2>4, Peers DEF Idle, Waiting
  <2> QED BY <2>3, <2>4, Peers
<1> QED BY <1>1, <1>2 DEF Turns

LEMMA OneHolds ==
    ASSUME Turns, NEW p \in Proc, Holding(p)
    PROVE  ~Holding(Peer(p)) /\ (pc[Peer(p)] # "hello" /\ pc[Peer(p)] # "helloWait"
             /\ pc[Peer(p)] # "sleep" => Waiting(Peer(p)))
BY Peers DEF Turns, Handshake, Exchange, Idle, HasTurn, Waiting, Holding, Proc, Peer

LEMMA DataInit == Init => DataInv
BY Peers DEF Init, DataInv, Offered, Waiting

\* When the status is set, all of the message is in the segment.
LEMMA PublishedIsWhole ==
    ASSUME Ordered, DInv, NEW p \in Proc, Publish(p)
    PROVE  buffer[p] = Empty /\ data[p] = Source(p)
<1> USE DEF DInv
<1>1. buffer[p] = Empty /\ copied[p] = Part /\ pc[p] = "copyOut"
  BY DEF Publish
<1>2. \A i \in Part : data[p][i] = Source(p)[i]
  <2>1. \A i \in Part : Source(p)[i] # NoStore
    BY ShmAssumption DEF Source, TInv, TypeOK, Message
  <2> QED BY <1>1, <2>1 DEF DataInv, Stored, Empty
<1>3. data[p] \in Message /\ Source(p) \in Message
  BY DEF Source, TInv, TypeOK
<1> QED BY <1>1, <1>2, <1>3 DEF Message

LEMMA DataNext ==
    ASSUME Ordered, DInv, [Next]_vars
    PROVE  DataInv'
<1> USE DEF DInv
<1>0. \A p \in Proc : /\ idx[p] \in Status /\ Succ(idx[p]) # idx[p]
                      /\ Succ(Succ(idx[p])) # idx[p]
  BY SuccFacts DEF TInv, TypeOK
<1>1. ASSUME NEW p \in Proc, SayHello(p) \/ SeeHello(p) PROVE DataInv'
  <2>1. Handshake
    BY <1>1 DEF SayHello, SeeHello, Turns, Exchange, Idle, HasTurn, Waiting, Peer, Proc
  <2> QED
    BY <1>1, <2>1, Peers
    DEF SayHello, SeeHello, goto, statusOutSet, memVars, loopVars, Handshake,
        DataInv, Offered, Waiting, Source, TInv, TypeOK, Peer, Proc
<1>2. ASSUME NEW p \in Proc, WakeUp(p) PROVE DataInv'
  <2>1. Handshake
    BY <1>2 DEF WakeUp, Turns, Exchange, Idle, HasTurn, Waiting, Peer, Proc
  <2>2. pc' = [pc EXCEPT ![p] = IF p = "server" THEN "sendWait" ELSE "readWait"]
    BY <1>2 DEF WakeUp, StartLoop, PrepareSend, goto, Proc
  <2> QED
    BY <1>2, <2>1, <2>2, Peers
    DEF WakeUp, Handshake, DataInv, Offered, Waiting, TInv, TypeOK, Peer, Proc
<1>3. ASSUME NEW p \in Proc, SendWait(p) PROVE DataInv'
  <2>1. copied[p] = {} /\ buffer[p] = Empty
    BY <1>3, TurnFacts DEF SendWait, DataInv
  <2> QED
    BY <1>3, <2>1, Peers
    DEF SendWait, goto, memVars, loopVars, DataInv, Offered, Stored, Source,
        Waiting, Empty, TInv, TypeOK
<1>4. ASSUME NEW p \in Proc, NEW i \in Part, CopyOut(p, i) PROVE DataInv'
  <2> USE DEF CopyOut, TInv, TypeOK
  <2>1. \A q \in Proc : Source(q)' = Source(q) /\ Offered(q)' = Offered(q)
    BY <1>4 DEF Source, loopVars, Offered, Waiting
  <2>2. \A j \in copied[p]' : Stored(p, j)'
    BY <1>4, <2>1 DEF DataInv, Stored
  <2> QED BY <1>4, <2>1, <2>2, Peers DEF DataInv, Stored
<1>5. ASSUME NEW p \in Proc, Publish(p) PROVE DataInv'
  <2>1. PICK l \in {"readWait", "done"} : pc' = [pc EXCEPT ![p] = l]
    BY <1>5, AfterSendGoes DEF Publish
  <2>2. \A q \in Proc : Source(q)' = Source(q)
    BY <1>5, AfterSendGoes DEF Publish, Source
  <2>3. buffer[p] = Empty /\ data[p] = Source(p)
    BY <1>5, PublishedIsWhole
  <2>4. Idle(Peer(p)) /\ idx[p] = Succ(idx[Peer(p)])
    BY <1>5, TurnFacts DEF Publish
  <2>5. ~Offered(Peer(p))'
    BY <1>0, <1>5, <2>1, <2>4, Peers
    DEF Publish, statusOutSet, Offered, Idle, TInv, TypeOK
  <2> QED
    BY <1>5, <2>1, <2>2, <2>3, <2>4, <2>5, Peers
    DEF Publish, DataInv, Idle, Waiting, TInv, TypeOK
<1>6. ASSUME NEW p \in Proc, NEW i \in Part, Drain(p, i) PROVE DataInv'
  <2> USE DEF Drain, TInv, TypeOK, Message
  <2>1. pc[p] = "copyOut" /\ Idle(Peer(p))
    <3>1. pc[p] = "copyOut"
      BY <1>6 DEF DataInv, Empty
    <3> QED BY <3>1, TurnFacts
  <2>2. ~Offered(p) /\ \A q \in Proc : Source(q)' = Source(q) /\ Offered(q)' = Offered(q)
    BY <1>6, <2>1 DEF Offered, Source, loopVars, Idle, Waiting
  <2>3. \A j \in Part : IF j \in copied[p] THEN Stored(p, j)'
                      ELSE buffer'[p][j] = NoStore
    BY <1>6, <2>1, <2>2 DEF DataInv, Stored
  <2> QED BY <1>6, <2>1, <2>2, <2>3, Peers DEF DataInv, Stored, Idle, Waiting
<1>7. ASSUME NEW p \in Proc, ReadWait(p) PROVE DataInv'
  <2>1. Idle(p) /\ Idle(Peer(p)) /\ status[Peer(p)] = Succ(idx[p])
    BY <1>7, TurnFacts DEF ReadWait, inStatus
  <2>2. Offered(Peer(p)) /\ copied[p] = {}
    BY <2>1, Peers DEF Offered, Idle
  <2>3. \A q \in Proc : Source(q)' = Source(q)
    BY <1>7 DEF ReadWait, Source, loopVars
  <2>4. ~Offered(p)'
    BY <1>7, <2>1, Peers
    DEF ReadWait, goto, Offered, Idle, Waiting, TInv, TypeOK
  <2> QED
    BY <1>7, <2>1, <2>2, <2>3, <2>4, Peers
    DEF ReadWait, goto, memVars, DataInv, Idle, Waiting, TInv, TypeOK
<1>8. ASSUME NEW p \in Proc, NEW i \in Part, CopyIn(p, i) PROVE DataInv'
  <2> USE DEF CopyIn, TInv, TypeOK
  <2>1. Idle(Peer(p))
    BY <1>8, TurnFacts
  <2>2. ~Offered(p) /\ \A q \in Proc : Offered(q)' = Offered(q)
    BY <1>8, <2>1 DEF Offered, memVars, Idle, Waiting
  <2>3. Source(Peer(p))' = Source(Peer(p))
    BY <1>8, Peers DEF Source, loopVars
  <2> QED
    BY <1>8, <2>1, <2>2, <2>3, Peers DEF DataInv, memVars, Idle, Waiting, Message
<1>9. ASSUME NEW p \in Proc, Acknowledge(p) PROVE DataInv'
  <2>1. PICK l \in {"sendWait", "done"} : pc' = [pc EXCEPT ![p] = l]
    BY <1>9, AfterReadGoes DEF Acknowledge
  <2>2. Idle(Peer(p)) /\ idx[p] = idx[Peer(p)]
    BY <1>9, TurnFacts DEF Acknowledge
  <2>3. \A q \in Proc : ~Offered(q)'
    BY <1>0, <1>9, <2>1, <2>2, Peers
    DEF Acknowledge, statusOutSet, Offered, Idle, Waiting, TInv, TypeOK
  <2> QED
    BY <1>9, <2>1, <2>2, <2>3, Peers
    DEF Acknowledge, DataInv, Idle, Waiting, TInv, TypeOK
<1>10. CASE UNCHANGED vars
  BY <1>10 DEF vars, memVars, loopVars, DataInv, Offered, Stored, Source, Waiting
<1> QED
  BY <1>1, <1>2, <1>3, <1>4, <1>5, <1>6, <1>7, <1>8, <1>9, <1>10
  DEF Next, Step, Memory, Terminated

LEMMA DataInvariant ==
    ASSUME Ordered
    PROVE  Spec => []DInv
<1>1. Init => DInv
  BY TypeInit, TurnsInit, DataInit DEF DInv
<1>2. DInv /\ [Next]_vars => DInv'
  <2> SUFFICES ASSUME DInv, [Next]_vars PROVE DInv'
    OBVIOUS
  <2>1. TInv'
    BY TypeNext DEF DInv
  <2>2. Turns'
    <3>1. CASE UNCHANGED vars
      BY <3>1
      DEF DInv, vars, memVars, loopVars, Turns, Handshake, Exchange, Idle,
          HasTurn, Waiting
    <3>2. ASSUME NEW p \in Proc, Step(p) \/ Memory(p) PROVE Turns'
      BY <3>2, HandshakeStep, ExchangeStep DEF DInv, Turns
    <3> QED BY <3>1, <3>2 DEF Next, Terminated
  <2>3. DataInv'
    BY DataNext
  <2> QED BY <2>1, <2>2, <2>3 DEF DInv
<1> QED BY <1>1, <1>2, PTL DEF Spec

\* A process never writes the segment the other copies from: the statuses,
\* counted modulo StatusCount, are enough to keep the two apart.
THEOREM SegmentsAreNotRaced ==
    ASSUME Ordered
    PROVE  Spec => []NoWriteWhileRead
<1>1. DInv => NoWriteWhileRead
  <2> SUFFICES ASSUME DInv, NEW p \in Proc, pc[p] = "copyIn"
               PROVE  pc[Peer(p)] # "copyOut" /\ buffer[Peer(p)] = Empty
    BY DEF NoWriteWhileRead
  <2>1. pc[Peer(p)] # "copyOut"
    BY TurnFacts DEF DInv
  <2> QED BY <2>1, Peers DEF DInv, DataInv
<1> QED BY <1>1, DataInvariant, PTL

\* What a process acknowledges is the message its peer sent, all of it.
THEOREM MessagesAreReadWhole ==
    ASSUME Ordered
    PROVE  Spec => []ReadsWholeMessage
<1>1. DInv => ReadsWholeMessage
  <2> SUFFICES ASSUME DInv, NEW p \in Proc,
                      pc[p] = "copyIn", copied[p] = Part
               PROVE  readData[p] = Source(Peer(p))
    BY DEF ReadsWholeMessage
  <2>1. Offered(Peer(p))
    BY Peers DEF Offered
  <2>2. data[Peer(p)] = Source(Peer(p))
    BY <2>1, Peers DEF DInv, DataInv
  <2>3. \A i \in Part : readData[p][i] = data[Peer(p)][i]
    BY DEF DInv, DataInv
  <2>4. readData[p] \in Message /\ data[Peer(p)] \in Message
    BY Peers DEF DInv, TInv, TypeOK
  <2>5. readData[p] = data[Peer(p)]
    BY <2>3, <2>4 DEF Message
  <2> QED BY <2>2, <2>5
<1> QED BY <1>1, DataInvariant, PTL

-----------------------------------------------------------------------------
(* Refinement *)

\* The client sends what it read whenever the data is to change, and the
\* server ends after its last read, with nothing under way.
GameInv ==
    /\ DInv
    /\ (pc["client"] \in {"sendWait", "copyOut"} /\ useSetData) => echoing
    /\ pc["server"] = "done" =>
         /\ Waiting("client")
         /\ status["server"] = idx["server"] /\ idx["server"] = idx["client"]

\* The client's data is its readData as soon as it is told to change it.
LEMMA EchoKept ==
    ASSUME TInv, NEW p \in Proc, Moves(p), useSetData,
           AfterSend(p) \/ AfterRead(p) \/ StartLoop(p),
           pc["client"] \in {"sendWait", "copyOut"} => echoing,
           pc'["client"] \in {"sendWait", "copyOut"}
    PROVE  echoing'
<1>1. CASE p = "server"
  BY <1>1 DEF Moves, TInv, TypeOK
<1>2. CASE p = "client"
  BY <1>2
  DEF AfterSend, AfterRead, EndOfLoop, StartLoop, PrepareSend, goto, loopVars,
      TInv, TypeOK
<1> QED BY <1>1, <1>2 DEF Proc

LEMMA GameInvInvariant ==
    ASSUME Ordered
    PROVE  Spec => []GameInv
<1>1. Init /\ DInv => GameInv
  BY DEF Init, GameInv, Proc
<1>2. GameInv /\ DInv' /\ [Next]_vars => GameInv'
  <2> SUFFICES ASSUME GameInv, DInv', [Next]_vars PROVE GameInv'
    OBVIOUS
  <2> USE DEF GameInv, DInv
  <2>0. "server" \in Proc /\ "client" \in Proc /\ Peer("server") = "client"
        /\ Peer("client") = "server"
    BY DEF Proc, Peer
  <2>1. ASSUME NEW p \in Proc,
               SayHello(p) \/ SeeHello(p) \/ SendWait(p) \/ ReadWait(p)
        PROVE  GameInv'
    BY <2>0, <2>1, TurnFacts, SuccFacts
    DEF SayHello, SeeHello, SendWait, ReadWait, goto, statusOutSet, inStatus,
        memVars, loopVars, Waiting, TInv, TypeOK, Proc
  <2>2. ASSUME NEW p \in Proc, WakeUp(p) PROVE GameInv'
    <3>1. pc' = [pc EXCEPT ![p] = IF p = "server" THEN "sendWait" ELSE "readWait"]
      BY <2>2 DEF WakeUp, StartLoop, PrepareSend, goto, Proc
    <3>2. pc["server"] # "done" /\ pc["client"] \notin {"sendWait", "copyOut"}
      BY <2>2 DEF WakeUp, Turns, Handshake, Exchange, Idle, HasTurn, Waiting, Peer, Proc
    <3> QED BY <2>0, <3>1, <3>2 DEF TInv, TypeOK
  <2>3. ASSUME NEW p \in Proc, NEW i \in Part,
               CopyOut(p, i) \/ CopyIn(p, i) \/ Drain(p, i)
        PROVE  GameInv'
    BY <2>3 DEF CopyOut, CopyIn, Drain, memVars, loopVars, Waiting
  <2>4. ASSUME NEW p \in Proc, Publish(p) PROVE GameInv'
    <3>1. PICK l \in {"readWait", "done"} : pc' = [pc EXCEPT ![p] = l]
      BY <2>4, AfterSendGoes DEF Publish
    <3>2. UNCHANGED <<sendData, echoing>> /\ pc[p] = "copyOut"
      BY <2>4, AfterSendGoes DEF Publish
    <3>3. pc'["server"] # "done"
      <4>1. CASE p = "server"
        <5>1. ~(loop[p] > LoopCount)
          BY <4>1, ShmAssumption DEF TInv, TypeOK, LoopBound, Proc
        <5> QED BY <2>4, <4>1, <5>1 DEF Publish, AfterSend, goto, TInv, TypeOK
      <4>2. CASE p = "client"
        BY <2>0, <3>1, <3>2, <4>2 DEF Waiting, TInv, TypeOK
      <4> QED BY <4>1, <4>2 DEF Proc
    <3> QED BY <2>0, <3>1, <3>2, <3>3 DEF TInv, TypeOK
  <2>5. ASSUME NEW p \in Proc, Acknowledge(p) PROVE GameInv'
    <3>1. PICK l \in {"sendWait", "done"} : pc' = [pc EXCEPT ![p] = l]
      BY <2>5, AfterReadGoes DEF Acknowledge
    <3>2. Idle(Peer(p)) /\ idx[p] = idx[Peer(p)]
      BY <2>5, TurnFacts DEF Acknowledge
    <3>3. Moves(p)
      BY <2>5, AfterReadMoves DEF Acknowledge
    <3>4. (pc'["client"] \in {"sendWait", "copyOut"} /\ useSetData) => echoing'
      BY <2>5, <3>3, EchoKept DEF Acknowledge
    <3>5. pc'["server"] = "done" =>
            /\ Waiting("client")'
            /\ status'["server"] = idx'["server"] /\ idx'["server"] = idx'["client"]
      <4>1. CASE p = "server"
        BY <2>0, <2>5, <3>1, <3>2, <4>1
        DEF Acknowledge, statusOutSet, Idle, Waiting, TInv, TypeOK
      <4>2. CASE p = "client"
        BY <2>0, <2>5, <3>1, <3>2, <4>2
        DEF Acknowledge, Waiting, TInv, TypeOK
      <4> QED BY <4>1, <4>2 DEF Proc
    <3> QED BY <3>4, <3>5
  <2>6. CASE UNCHANGED vars
    BY <2>6 DEF vars, memVars, loopVars, Waiting
  <2> QED
    BY <2>1, <2>2, <2>3, <2>4, <2>5, <2>6 DEF Next, Step, Memory, Terminated
<1>3. Spec => []DInv
  BY DataInvariant
<1> QED BY <1>1, <1>2, <1>3, PTL DEF Spec

\* Every step is a step of the game or none.
LEMMA GameNext ==
    ASSUME Ordered, GameInv, GameInv', [Next]_vars
    PROVE  [Game!Next]_(Game!vars)
<1> USE DEF GameInv, DInv
<1>0. "server" \in Proc /\ "client" \in Proc /\ Peer("server") = "client"
      /\ Peer("client") = "server" /\ \A p \in Proc : p = "server" \/ p = "client"
  BY DEF Proc, Peer
<1>20. \A p \in Proc : data[p] \in Message /\ data'[p] \in Message
  BY DEF TInv, TypeOK
<1>21. \A p \in Proc : /\ idx[p] \in Status /\ Succ(idx[p]) # idx[p]
                       /\ Succ(Succ(idx[p])) # idx[p]
  BY SuccFacts DEF TInv, TypeOK
<1>1. ASSUME NEW p \in Proc, SayHello(p) \/ SeeHello(p) \/ WakeUp(p)
      PROVE  at' = at /\ ball' = ball
  <2>1. Handshake
    BY <1>1 DEF SayHello, SeeHello, WakeUp, Turns, Exchange, Idle, HasTurn, Waiting, Peer, Proc
  <2>2. at = "server" /\ pc["server"] # "copyIn"
    BY <2>1 DEF Handshake, at, Waiting, Holding
  <2>3. /\ pc'["server"] \in {"hello", "helloWait", "sleep", "sendWait"}
        /\ pc'["client"] \in {"hello", "helloWait", "sleep", "readWait"}
    BY <1>0, <1>1, <2>1
    DEF SayHello, SeeHello, WakeUp, StartLoop, PrepareSend, goto, Handshake, TInv, TypeOK
  <2>4. at' = "server"
    BY <2>3 DEF at, Waiting, Holding
  <2> QED
    BY <1>1, <2>2, <2>3, <2>4
    DEF SayHello, SeeHello, WakeUp, memVars, ball, Held
<1>2. ASSUME NEW p \in Proc, SendWait(p) PROVE at' = at /\ ball' = ball
  <2>1. ~Holding(Peer(p))
    BY <1>2, OneHolds DEF SendWait, Holding
  <2>2. at = p /\ at' = p
    BY <1>0, <1>2, <2>1 DEF SendWait, goto, at, Holding, Waiting, TInv, TypeOK
  <2> QED
    BY <1>0, <1>2, <2>2 DEF SendWait, goto, memVars, ball, Held, TInv, TypeOK
<1>3. ASSUME NEW p \in Proc, NEW i \in Part, CopyOut(p, i) \/ Drain(p, i)
      PROVE  at' = at /\ ball' = ball
  <2>1. pc[p] = "copyOut"
    BY <1>3 DEF CopyOut, Drain, DataInv, Empty
  <2>2. ~Holding(Peer(p))
    BY <2>1, OneHolds DEF Holding
  <2>3. at = p /\ at' = p
    BY <1>0, <1>3, <2>1, <2>2 DEF CopyOut, Drain, at, Holding, Waiting
  <2> QED BY <1>0, <1>3, <2>1, <2>3 DEF CopyOut, Drain, ball, Held
<1>4. ASSUME NEW p \in Proc, NEW i \in Part, CopyIn(p, i)
      PROVE  at' = at /\ ball' = ball
  <2>1. ~Holding(Peer(p))
    BY <1>4, OneHolds DEF CopyIn, Holding
  <2>2. at = p /\ at' = p
    BY <1>0, <1>4, <2>1 DEF CopyIn, memVars, at, Holding, Waiting
  <2> QED BY <1>0, <1>4, <2>2 DEF CopyIn, memVars, ball, Held
\* The server lets go of the ball.
<1>5. ASSUME Publish("server")
      PROVE  at = "server" /\ at' = "toClient" /\ ball' = data'["server"]
  <2>1. PICK l \in {"readWait", "done"} : pc' = [pc EXCEPT !["server"] = l]
    BY <1>0, <1>5, AfterSendGoes DEF Publish
  <2>2. Idle("client") /\ idx["server"] = Succ(idx["client"])
    BY <1>0, <1>5, TurnFacts DEF Publish
  <2>3. pc'["server"] # "done"
    <3>1. ~(loop["server"] > LoopCount)
      BY <1>0, ShmAssumption DEF TInv, TypeOK, LoopBound
    <3> QED BY <1>0, <1>5, <3>1 DEF Publish, AfterSend, goto, TInv, TypeOK
  <2>4. at = "server"
    BY <1>5, <2>2 DEF Publish, at, Idle, Waiting, Holding
  <2>5. at' = "toClient"
    BY <1>0, <1>5, <2>1, <2>2, <2>3
    DEF Publish, statusOutSet, at, Idle, Waiting, Holding, TInv, TypeOK
  <2> QED BY <2>4, <2>5 DEF ball
\* The client lets go of it.
<1>6. ASSUME Publish("client")
      PROVE  /\ at = "client" /\ at' = "toServer" /\ ball' = data'["client"]
             /\ Returned(ball, ball')
  <2>1. PICK l \in {"readWait", "done"} : pc' = [pc EXCEPT !["client"] = l]
    BY <1>0, <1>6, AfterSendGoes DEF Publish
  <2>2. Idle("server") /\ idx["client"] = Succ(idx["server"])
    BY <1>0, <1>6, TurnFacts DEF Publish
  <2>3. pc["server"] # "done"
    BY <1>6 DEF Publish, Waiting
  <2>4. at = "client"
    BY <1>6 DEF Publish, at, Holding
  <2>5. status["server"] # Succ(idx["client"])
    BY <1>0, <1>21, <2>2 DEF Idle
  <2>6. at' = "toServer"
    BY <1>0, <1>6, <2>1, <2>2, <2>3, <2>5
    DEF Publish, statusOutSet, at, Idle, Waiting, Holding, TInv, TypeOK
  <2>7. ball' = data'["client"] /\ ball = readData["client"]
    BY <1>6, <2>4, <2>6 DEF Publish, ball, Held
  <2>8. data'["client"] = Source("client")
    BY <1>0, <1>6, PublishedIsWhole DEF Publish
  <2>9. useSetData => Source("client") = readData["client"]
    BY <1>6 DEF Publish, Source
  <2> QED BY <2>4, <2>6, <2>7, <2>8, <2>9 DEF Returned
\* A process catches what its peer let go.
<1>7. ASSUME ReadWait("server")
      PROVE  at = "toServer" /\ at' = "server" /\ ball' = ball
  <2>1. Idle("client") /\ Idle("server") /\ status["client"] = Succ(idx["server"])
    BY <1>0, <1>7, TurnFacts DEF ReadWait, inStatus
  <2>2. status["server"] # Succ(idx["client"])
    BY <1>0, <1>21, <2>1 DEF Idle
  <2>3. at = "toServer"
    BY <1>7, <2>1, <2>2 DEF ReadWait, at, Idle, Waiting, Holding
  <2>4. at' = "server"
    BY <1>0, <1>7, <2>1 DEF ReadWait, goto, at, Idle, Waiting, Holding, TInv, TypeOK
  <2>5. ball' = data'["client"]
    BY <1>0, <1>7, <2>4 DEF ReadWait, goto, ball, Held, TInv, TypeOK
  <2> QED BY <1>7, <2>3, <2>4, <2>5 DEF ReadWait, memVars, ball
<1>8. ASSUME ReadWait("client")
      PROVE  at = "toClient" /\ at' = "client" /\ ball' = ball
  <2>1. Idle("client") /\ Idle("server") /\ status["server"] = Succ(idx["client"])
    BY <1>0, <1>8, TurnFacts DEF ReadWait, inStatus
  <2>2. pc["server"] # "done"
    BY <1>0, <1>21, <2>1
  <2>3. at = "toClient"
    BY <1>8, <2>1, <2>2 DEF at, Idle, Waiting, Holding
  <2>4. at' = "client"
    BY <1>0, <1>8 DEF ReadWait, goto, at, Holding, TInv, TypeOK
  <2>5. ball' = data'["server"]
    BY <1>0, <1>8, <2>4 DEF ReadWait, goto, ball, Held, TInv, TypeOK
  <2> QED BY <1>8, <2>3, <2>4, <2>5 DEF ReadWait, memVars, ball
<1>9. ASSUME NEW p \in Proc, Acknowledge(p) PROVE at' = at /\ ball' = ball
  <2>1. PICK l \in {"sendWait", "done"} :
          pc' = [pc EXCEPT ![p] = l] /\ (p = "client" => l = "sendWait")
    BY <1>0, <1>9, AfterReadGoes DEF Acknowledge, AfterRead, PrepareSend, goto, TInv, TypeOK
  <2>2. ~Holding(Peer(p))
    BY <1>9, OneHolds DEF Acknowledge, Holding
  <2>3. at = p /\ at' = p
    BY <1>0, <1>9, <2>1, <2>2 DEF Acknowledge, at, Holding, Waiting, TInv, TypeOK
  <2>4. ball = data[Peer(p)] /\ ball' = readData[p]
    BY <1>0, <1>9, <2>1, <2>3 DEF Acknowledge, ball, Held, TInv, TypeOK
  <2>5. readData[p] = data[Peer(p)]
    <3>1. \A i \in Part : readData[p][i] = data[Peer(p)][i]
      BY <1>9 DEF Acknowledge, DataInv
    <3>2. readData[p] \in Message /\ data[Peer(p)] \in Message
      BY Peers DEF TInv, TypeOK
    <3> QED BY <3>1, <3>2 DEF Message
  <2> QED BY <2>3, <2>4, <2>5
<1>10. CASE UNCHANGED vars
  BY <1>10 DEF vars, memVars, loopVars, at, ball, Held, Holding, Waiting, Game!vars
<1>11. ASSUME NEW p \in Proc, Publish(p) PROVE Game!Next
  BY <1>0, <1>5, <1>6, <1>11, <1>20 DEF Game!Next, Game!Serve, Game!Return
<1>12. ASSUME NEW p \in Proc, ReadWait(p) PROVE Game!Next
  BY <1>0, <1>7, <1>8, <1>12 DEF Game!Next, Game!ClientCatches, Game!ServerCatches
<1> QED
  BY <1>1, <1>2, <1>3, <1>4, <1>9, <1>10, <1>11, <1>12
  DEF Next, Step, Memory, Terminated, Game!vars

\* What the two processes do with segments, statuses and copies is the game
\* of one message that goes to the client whole and, when the data changes,
\* comes back as it was.
THEOREM Refinement ==
    ASSUME Ordered
    PROVE  Spec => PlaysPingPong
<1>1. Init => Game!Init
  <2> SUFFICES ASSUME Init PROVE Game!Init
    OBVIOUS
  <2>1. at = "server"
    BY DEF Init, at, Holding, Waiting, Proc
  <2>2. ball = Whole(NotRead)
    BY <2>1 DEF Init, ball, Held, Proc
  <2> QED BY <2>1, <2>2 DEF Game!Init, Whole, NotRead, Message
<1>2. GameInv /\ GameInv' /\ [Next]_vars => [Game!Next]_(Game!vars)
  BY GameNext
<1> QED BY <1>1, <1>2, GameInvInvariant, PTL DEF Spec, PlaysPingPong, Game!Spec

-----------------------------------------------------------------------------
(* The loops *)

\* The client is an iteration ahead from when it took the server's message
\* until the server took its answer.
Late ==
    \/ pc["client"] \in {"sendWait", "copyOut"}
    \/ pc["server"] = "copyIn"
    \/ /\ Waiting("server") /\ Waiting("client")
       /\ status["server"] # Succ(idx["client"])

StepInv == Round("client") = Round("server") + IF Late THEN 1 ELSE 0

\* The iteration a process is in is its own affair.
LEMMA PeersLoops ==
    ASSUME TInv, NEW p \in Proc,
           AfterSend(p) \/ (pc[p] = "copyIn" /\ AfterRead(p))
    PROVE  loop'[Peer(p)] = loop[Peer(p)] /\ bigloop'[Peer(p)] = bigloop[Peer(p)]
<1>1. bigloop'[Peer(p)] = bigloop[Peer(p)]
  BY Peers
  DEF AfterSend, AfterRead, EndOfLoop, SetLoop, loopVars, TInv, TypeOK
<1>2. loop'[Peer(p)] = loop[Peer(p)]
  BY Peers, AfterSendMoves, AfterReadMoves DEF Moves, TInv, TypeOK
<1> QED BY <1>1, <1>2

LEMMA PeersRound ==
    ASSUME TInv, NEW p \in Proc,
           AfterSend(p) \/ (pc[p] = "copyIn" /\ AfterRead(p))
    PROVE  Round(Peer(p))' = Round(Peer(p))
BY PeersLoops DEF Round

\* The first iteration of a big loop follows the last of the one before.
LEMMA NextBigLoop ==
    ASSUME NEW b \in Nat
    PROVE  (b + 1 - 1) * LoopCount + 1 = (b - 1) * LoopCount + LoopCount + 1
BY ShmAssumption

\* The client's answer to the last message ends its big loop late.
LEMMA RoundAfterSend ==
    ASSUME TInv, NEW p \in Proc, AfterSend(p)
    PROVE  Round(p)' = Round(p)
<1>0. loop[p] \in 1 .. LoopCount + 1 /\ bigloop[p] \in 1 .. BigLoops
  BY DEF TInv, TypeOK
<1>1. CASE loop[p] > LoopCount /\ bigloop[p] < BigLoops
  <2>1. loop'[p] = 1 /\ bigloop'[p] = bigloop[p] + 1
    BY <1>1 DEF AfterSend, EndOfLoop, TInv, TypeOK
  <2>2. loop[p] = LoopCount + 1
    BY <1>0, <1>1, ShmAssumption
  <2> QED BY <1>0, <2>1, <2>2, NextBigLoop, ShmAssumption DEF Round
<1>2. CASE ~(loop[p] > LoopCount /\ bigloop[p] < BigLoops)
  BY <1>2 DEF AfterSend, EndOfLoop, loopVars, Round
<1> QED BY <1>1, <1>2

LEMMA RoundAfterRead ==
    ASSUME TInv, NEW p \in Proc, pc[p] = "copyIn", AfterRead(p)
    PROVE  IF pc'[p] = "done" THEN p = "server" /\ Round(p)' = Round(p)
           ELSE pc'[p] = "sendWait" /\ Round(p)' = Round(p) + 1
<1>0. /\ loop[p] \in 1 .. LoopCount /\ bigloop[p] \in 1 .. BigLoops
      /\ p = "server" \/ p = "client"
  BY DEF TInv, TypeOK, LoopBound, Proc
<1>1. CASE loop[p] < LoopCount \/ p = "client"
  <2>1. /\ loop'[p] = loop[p] + 1 /\ bigloop'[p] = bigloop[p]
        /\ pc'[p] = "sendWait"
    BY <1>1 DEF AfterRead, SetLoop, PrepareSend, goto, TInv, TypeOK
  <2>2. Round(p) \in Int
    BY <1>0, ShmAssumption DEF Round
  <2> QED BY <1>0, <2>1, <2>2, ShmAssumption DEF Round
<1>2. CASE ~(loop[p] < LoopCount \/ p = "client") /\ bigloop[p] < BigLoops
  <2>1. /\ loop'[p] = 1 /\ bigloop'[p] = bigloop[p] + 1
        /\ pc'[p] = "sendWait"
    BY <1>0, <1>2
    DEF AfterRead, EndOfLoop, StartLoop, PrepareSend, goto, TInv, TypeOK
  <2>2. loop[p] = LoopCount
    BY <1>0, <1>2, ShmAssumption
  <2> QED BY <1>0, <2>1, <2>2, NextBigLoop, ShmAssumption DEF Round
<1>3. CASE ~(loop[p] < LoopCount \/ p = "client") /\ ~(bigloop[p] < BigLoops)
  BY <1>0, <1>3 DEF AfterRead, EndOfLoop, goto, loopVars, Round, TInv, TypeOK
<1> QED BY <1>1, <1>2, <1>3

\* A step that leaves the loops alone.
LEMMA SameRounds ==
    ASSUME StepInv, UNCHANGED <<loop, bigloop>>, Late' <=> Late
    PROVE  StepInv'
BY DEF StepInv, Round

LEMMA StepNext ==
    ASSUME TInv, Turns, StepInv, [Next]_vars
    PROVE  StepInv'
<1>0. /\ "server" \in Proc /\ "client" \in Proc
      /\ Peer("server") = "client" /\ Peer("client") = "server"
      /\ \A p \in Proc : p = "server" \/ p = "client"
  BY DEF Proc, Peer
<1>00. \A p \in Proc : /\ idx[p] \in Status /\ Succ(idx[p]) # idx[p]
                       /\ Succ(Succ(idx[p])) # idx[p]
  BY SuccFacts DEF TInv, TypeOK
<1>01. \A p \in Proc : Round(p) \in Int
  BY ShmAssumption DEF Round, TInv, TypeOK
<1>1. ASSUME NEW p \in Proc, SayHello(p) \/ SeeHello(p) \/ WakeUp(p)
      PROVE  StepInv'
  <2>1. Handshake
    BY <1>1
    DEF SayHello, SeeHello, WakeUp, Turns, Exchange, Idle, HasTurn, Waiting,
        Peer, Proc
  <2>2. /\ pc'["server"] \in {"hello", "helloWait", "sleep", "sendWait"}
        /\ pc'["client"] \in {"hello", "helloWait", "sleep", "readWait"}
    BY <1>0, <1>1, <2>1
    DEF SayHello, SeeHello, WakeUp, StartLoop, PrepareSend, goto, Handshake,
        TInv, TypeOK
  <2>3. ~Late /\ ~Late'
    BY <2>1, <2>2 DEF Handshake, Late, Waiting
  <2>4. UNCHANGED <<loop, bigloop>>
    BY <1>1 DEF SayHello, SeeHello, WakeUp, loopVars
  <2> QED BY <2>3, <2>4, SameRounds
<1>2. ASSUME NEW p \in Proc, SendWait(p) PROVE StepInv'
  <2>1. ~Holding(Peer(p))
    BY <1>2, OneHolds DEF SendWait, Holding
  <2>2. (Late <=> p = "client") /\ (Late' <=> p = "client")
    BY <1>0, <1>2, <2>1 DEF SendWait, goto, Late, Holding, Waiting, TInv, TypeOK
  <2>3. UNCHANGED <<loop, bigloop>>
    BY <1>2 DEF SendWait, loopVars
  <2> QED BY <2>2, <2>3, SameRounds
<1>3. ASSUME NEW p \in Proc, NEW i \in Part,
             CopyOut(p, i) \/ CopyIn(p, i) \/ Drain(p, i)
      PROVE  StepInv'
  BY <1>3, SameRounds
  DEF CopyOut, CopyIn, Drain, memVars, loopVars, Late, Waiting
\* The client has not taken the server's message when it is sent, and is
\* ahead when it has sent its answer.
<1>4. ASSUME NEW p \in Proc, Publish(p) PROVE StepInv'
  <2>1. /\ Idle(Peer(p)) /\ idx[p] = Succ(idx[Peer(p)])
    BY <1>4, TurnFacts DEF Publish
  <2>2. PICK l \in {"readWait", "done"} : pc' = [pc EXCEPT ![p] = l]
    BY <1>4, AfterSendGoes DEF Publish
  <2>3. Late <=> p = "client"
    BY <1>0, <1>4, <2>1 DEF Publish, Late, Idle, Waiting
  <2>4. Late' <=> p = "client"
    <3>1. CASE p = "server"
      BY <1>0, <1>4, <2>1, <2>2, <3>1
      DEF Publish, statusOutSet, Late, Idle, Waiting, TInv, TypeOK
    <3>2. CASE p = "client"
      <4>1. status["server"] # Succ(idx["client"])
        BY <1>0, <1>00, <2>1, <3>2 DEF Idle
      <4> QED BY <1>0, <1>4, <2>1, <2>2, <3>2, <4>1
              DEF Publish, statusOutSet, Late, Idle, Waiting, TInv, TypeOK
    <3> QED BY <1>0, <3>1, <3>2
  <2>5. Round(p)' = Round(p) /\ Round(Peer(p))' = Round(Peer(p))
    BY <1>4, RoundAfterSend, PeersRound DEF Publish
  <2>6. Round("client")' = Round("client") /\ Round("server")' = Round("server")
    BY <1>0, <2>5
  <2> QED BY <2>3, <2>4, <2>6 DEF StepInv
<1>5. ASSUME NEW p \in Proc, ReadWait(p) PROVE StepInv'
  <2>1. Idle(p) /\ Idle(Peer(p)) /\ status[Peer(p)] = Succ(idx[p])
    BY <1>5, TurnFacts DEF ReadWait, inStatus
  <2>2. Late <=> p = "server"
    <3>1. CASE p = "server"
      <4>1. status["server"] # Succ(idx["client"])
        BY <1>0, <1>00, <2>1, <3>1 DEF Idle
      <4> QED BY <1>0, <2>1, <3>1, <4>1 DEF Late, Idle
    <3>2. CASE p = "client"
      BY <1>0, <2>1, <3>2 DEF Late, Idle, Waiting
    <3> QED BY <1>0, <3>1, <3>2
  <2>3. Late' <=> p = "server"
    BY <1>0, <1>5, <2>1 DEF ReadWait, goto, Late, Idle, Waiting, TInv, TypeOK
  <2>4. UNCHANGED <<loop, bigloop>>
    BY <1>5 DEF ReadWait, loopVars
  <2> QED BY <2>2, <2>3, <2>4, SameRounds
\* The client goes ahead, or the server comes after; at the end it does not.
<1>6. ASSUME NEW p \in Proc, Acknowledge(p) PROVE StepInv'
  <2>1. Idle(Peer(p)) /\ idx[p] = idx[Peer(p)] /\ pc[p] = "copyIn"
    BY <1>6, TurnFacts DEF Acknowledge
  <2>2. Late <=> p = "server"
    BY <1>0, <2>1 DEF Late, Idle, Waiting
  <2>3. /\ IF pc'[p] = "done" THEN p = "server" /\ Round(p)' = Round(p)
           ELSE pc'[p] = "sendWait" /\ Round(p)' = Round(p) + 1
        /\ Round(Peer(p))' = Round(Peer(p))
    BY <1>6, <2>1, RoundAfterRead, PeersRound DEF Acknowledge
  <2>4. PICK l \in {"sendWait", "done"} : pc' = [pc EXCEPT ![p] = l]
    BY <1>6, AfterReadGoes DEF Acknowledge
  <2>5. CASE p = "client"
    <3>1. pc'["client"] = "sendWait" /\ Late'
      BY <2>3, <2>4, <2>5 DEF Late, TInv, TypeOK
    <3> QED BY <1>0, <1>01, <2>2, <2>3, <2>5, <3>1 DEF StepInv
  <2>6. CASE p = "server" /\ l = "sendWait"
    <3>1. pc'["server"] = "sendWait" /\ pc'["client"] = pc["client"]
      BY <1>0, <2>4, <2>6 DEF TInv, TypeOK
    <3>2. ~Late'
      BY <1>0, <2>1, <2>6, <3>1 DEF Late, Idle, Waiting
    <3> QED BY <1>0, <1>01, <2>2, <2>3, <2>6, <3>1, <3>2 DEF StepInv
  <2>7. CASE p = "server" /\ l = "done"
    <3>1. pc'["server"] = "done" /\ pc'["client"] = pc["client"]
      BY <1>0, <2>4, <2>7 DEF TInv, TypeOK
    <3>2. status'["server"] = idx["client"] /\ idx' = idx
      BY <1>0, <1>6, <2>1, <2>7 DEF Acknowledge, statusOutSet, TInv, TypeOK
    <3>3. Late'
      BY <1>0, <1>00, <2>1, <2>7, <3>1, <3>2 DEF Late, Idle, Waiting
    <3> QED BY <1>0, <1>01, <2>2, <2>3, <2>7, <3>1, <3>3 DEF StepInv
  <2> QED BY <1>0, <2>4, <2>5, <2>6, <2>7
<1>7. CASE UNCHANGED vars
  BY <1>7, SameRounds DEF vars, memVars, loopVars, Late, Waiting
<1> QED
  BY <1>1, <1>2, <1>3, <1>4, <1>5, <1>6, <1>7
  DEF Next, Step, Memory, Terminated

\* The two processes count their iterations apart and never drift: the
\* client is in the server's iteration or in its answer to it, for every
\* number of loops, whatever the sleep and the order of stores.
THEOREM TheyStayInStep == Spec => []InStep
<1>1. Init => StepInv
  BY ShmAssumption DEF Init, StepInv, Late, Waiting, Round, Proc
<1>2. TInv /\ StepInv => InStep
  <2> SUFFICES ASSUME TInv, StepInv PROVE InStep
    OBVIOUS
  <2>1. Round("server") \in Int
    BY ShmAssumption DEF Round, TInv, TypeOK, Proc
  <2> QED BY <2>1 DEF StepInv, InStep
<1>3. TInv /\ Turns /\ StepInv /\ [Next]_vars => StepInv'
  BY StepNext
<1>4. Spec => []TInv
  BY TypeInit, TypeNext, PTL DEF Spec
<1> QED BY <1>1, <1>2, <1>3, <1>4, TurnsInvariant, PTL DEF Spec
-----------------------------------------------------------------------------
(* The end of the loops *)

\* A process that has ended was in its last iteration. The server's end
\* acknowledged the client's last answer; the client's end sent it.
EndInv ==
    /\ \A p \in Proc : pc[p] = "done" =>
         /\ bigloop[p] = BigLoops
         /\ loop[p] = IF p = "server" THEN LoopCount ELSE LoopCount + 1
    /\ pc["server"] = "done" =>
         /\ Waiting("client")
         /\ status["server"] = idx["server"] /\ idx["server"] = idx["client"]
    /\ pc["client"] = "done" =>
         /\ idx["client"] = status["client"]
         /\ pc["server"] = "readWait" => status["client"] = Succ(idx["server"])

\* With a sleep that covers the other's delay, none is left in helloWait.
Met ==
    SleepCovers =>
        \A p \in Proc : pc[p] \notin {"hello", "helloWait", "sleep"}
            => pc[Peer(p)] \notin {"hello", "helloWait"}

EInv == TInv /\ Turns /\ StepInv /\ EndInv /\ Met

\* The number of the iteration, from the two counters and back.
LEMMA RoundBounds ==
    ASSUME TInv, NEW p \in Proc
    PROVE  /\ Round(p) \in 1 .. TotalRounds + 1
           /\ loop[p] <= LoopCount => Round(p) <= TotalRounds
<1> DEFINE b == bigloop[p]
           l == loop[p]
<1>1. /\ b \in 1 .. BigLoops /\ l \in 1 .. LoopCount + 1
      /\ LoopCount \in Nat \ {0} /\ BigLoops \in Nat \ {0}
  BY ShmAssumption DEF TInv, TypeOK
<1>2. TotalRounds = (b - 1) * LoopCount + LoopCount + (BigLoops - b) * LoopCount
  BY <1>1 DEF TotalRounds
<1>3. (b - 1) * LoopCount \in Nat /\ (BigLoops - b) * LoopCount \in Nat
  BY <1>1
<1> HIDE DEF b, l
<1>4. Round(p) = (b - 1) * LoopCount + l
  BY DEF Round, b, l
<1> QED BY <1>1, <1>2, <1>3, <1>4 DEF l

\* The counters after the last iteration, from its number.
LEMMA LastRound ==
    ASSUME TInv, NEW p \in Proc, bigloop[p] = BigLoops
    PROVE  Round(p) = TotalRounds - LoopCount + loop[p]
BY ShmAssumption DEF Round, TotalRounds, TInv, TypeOK

\* How a process that sends or reads comes to its end.
LEMMA HowItEnds ==
    ASSUME TInv, NEW p \in Proc, pc[p] # "done",
           AfterSend(p) \/ (pc[p] = "copyIn" /\ AfterRead(p)),
           pc'[p] = "done"
    PROVE  /\ bigloop'[p] = BigLoops
           /\ loop'[p] = IF p = "server" THEN LoopCount ELSE LoopCount + 1
           /\ p = "client" => AfterSend(p)
           /\ p = "server" => ~AfterSend(p)
<1>0. /\ loop[p] \in 1 .. LoopCount + 1 /\ bigloop[p] \in 1 .. BigLoops
      /\ p = "server" => loop[p] <= LoopCount
      /\ p \in {"server", "client"}
      /\ LoopCount \in Nat \ {0} /\ BigLoops \in Nat \ {0}
  BY ShmAssumption DEF TInv, TypeOK, LoopBound, Proc
<1>1. CASE AfterSend(p)
  <2>1. loop[p] > LoopCount /\ EndOfLoop(p)
    BY <1>1 DEF AfterSend, goto, TInv, TypeOK
  <2>2. p = "client" /\ loop[p] = LoopCount + 1
    BY <1>0, <2>1
  <2>3. ~(bigloop[p] < BigLoops)
    BY <2>1, <2>2 DEF EndOfLoop, StartLoop, goto, TInv, TypeOK
  <2> QED BY <1>0, <1>1, <2>1, <2>2, <2>3 DEF EndOfLoop, loopVars
<1>2. CASE pc[p] = "copyIn" /\ AfterRead(p) /\ ~AfterSend(p)
  <2>1. p = "server" /\ loop[p] = LoopCount /\ EndOfLoop(p)
    BY <1>0, <1>2 DEF AfterRead, PrepareSend, goto, TInv, TypeOK
  <2>2. ~(bigloop[p] < BigLoops)
    BY <2>1 DEF EndOfLoop, StartLoop, PrepareSend, goto, TInv, TypeOK
  <2> QED BY <1>0, <1>2, <2>1, <2>2 DEF EndOfLoop, loopVars
<1> QED BY <1>1, <1>2

LEMMA MetNext ==
    ASSUME TInv, Turns, Met, [Next]_vars
    PROVE  Met'
<1>1. ASSUME NEW p \in Proc, SayHello(p) \/ SeeHello(p) PROVE Met'
  BY <1>1, Peers DEF SayHello, SeeHello, goto, Met, TInv, TypeOK
<1>2. ASSUME NEW p \in Proc, WakeUp(p) PROVE Met'
  <2>1. pc' = [pc EXCEPT ![p] = IF p = "server" THEN "sendWait" ELSE "readWait"]
    BY <1>2 DEF WakeUp, StartLoop, PrepareSend, goto, Proc
  <2> QED BY <1>2, <2>1, Peers DEF WakeUp, Met, TInv, TypeOK
<1>3. ASSUME NEW p \in Proc, SendWait(p) \/ ReadWait(p) PROVE Met'
  <2>1. PICK l \in {"copyOut", "copyIn"} : pc' = [pc EXCEPT ![p] = l]
    BY <1>3 DEF SendWait, ReadWait, goto
  <2>2. pc[p] \in {"sendWait", "readWait"}
    BY <1>3 DEF SendWait, ReadWait
  <2> QED BY <2>1, <2>2, Peers DEF Met, TInv, TypeOK
<1>4. ASSUME NEW p \in Proc, Publish(p) PROVE Met'
  <2>1. PICK l \in {"readWait", "done"} : pc' = [pc EXCEPT ![p] = l]
    BY <1>4, AfterSendGoes DEF Publish
  <2> QED BY <1>4, <2>1, Peers DEF Publish, Met, TInv, TypeOK
<1>5. ASSUME NEW p \in Proc, Acknowledge(p) PROVE Met'
  <2>1. PICK l \in {"sendWait", "done"} : pc' = [pc EXCEPT ![p] = l]
    BY <1>5, AfterReadGoes DEF Acknowledge
  <2> QED BY <1>5, <2>1, Peers DEF Acknowledge, Met, TInv, TypeOK
<1>6. ASSUME NEW p \in Proc, NEW i \in Part,
             CopyOut(p, i) \/ CopyIn(p, i) \/ Drain(p, i)
      PROVE  Met'
  BY <1>6 DEF CopyOut, CopyIn, Drain, Met
<1>7. CASE UNCHANGED vars
  BY <1>7 DEF vars, Met
<1> QED
  BY <1>1, <1>2, <1>3, <1>4, <1>5, <1>6, <1>7
  DEF Next, Step, Memory, Terminated

LEMMA EndNext ==
    ASSUME TInv, Turns, StepInv, EndInv, [Next]_vars
    PROVE  EndInv'
<1>0. /\ "server" \in Proc /\ "client" \in Proc
      /\ Peer("server") = "client" /\ Peer("client") = "server"
      /\ \A p \in Proc : p = "server" \/ p = "client"
  BY DEF Proc, Peer
<1>00. \A p \in Proc : /\ idx[p] \in Status /\ Succ(idx[p]) # idx[p]
                       /\ Succ(Succ(idx[p])) # idx[p]
  BY SuccFacts DEF TInv, TypeOK
<1>1. ASSUME NEW p \in Proc, SayHello(p) \/ SeeHello(p) PROVE EndInv'
  <2>1. Handshake
    BY <1>1 DEF SayHello, SeeHello, Turns, Exchange, Idle, HasTurn, Waiting, Peer, Proc
  <2>2. \A q \in Proc : pc'[q] # "done"
    BY <1>0, <1>1, <2>1 DEF SayHello, SeeHello, goto, Handshake, TInv, TypeOK
  <2> QED BY <1>0, <2>2 DEF EndInv
<1>2. ASSUME NEW p \in Proc, WakeUp(p) PROVE EndInv'
  <2>1. Handshake
    BY <1>2 DEF WakeUp, Turns, Exchange, Idle, HasTurn, Waiting, Peer, Proc
  <2>2. pc' = [pc EXCEPT ![p] = IF p = "server" THEN "sendWait" ELSE "readWait"]
    BY <1>2 DEF WakeUp, StartLoop, PrepareSend, goto, Proc
  <2>3. \A q \in Proc : pc'[q] # "done"
    BY <1>0, <2>1, <2>2 DEF Handshake, TInv, TypeOK
  <2> QED BY <1>0, <2>3 DEF EndInv
\* Nobody sends to a process that has ended.
<1>3. ASSUME NEW p \in Proc, SendWait(p) PROVE EndInv'
  <2>1. p = "client" => pc["server"] # "done"
    BY <1>0, <1>3 DEF SendWait, EndInv, Waiting
  <2> QED
    BY <1>0, <1>3, <2>1
    DEF SendWait, goto, memVars, loopVars, EndInv, Waiting, TInv, TypeOK
<1>4. ASSUME NEW p \in Proc, ReadWait(p) PROVE EndInv'
  <2>1. p = "client" => pc["server"] # "done"
    BY <1>0, <1>00, <1>4 DEF ReadWait, inStatus, EndInv
  <2> QED
    BY <1>0, <1>4, <2>1
    DEF ReadWait, goto, memVars, loopVars, EndInv, Waiting, TInv, TypeOK
<1>5. ASSUME NEW p \in Proc, NEW i \in Part,
             CopyOut(p, i) \/ CopyIn(p, i) \/ Drain(p, i)
      PROVE  EndInv'
  BY <1>5 DEF CopyOut, CopyIn, Drain, memVars, loopVars, EndInv, Waiting
<1>6. ASSUME NEW p \in Proc, Publish(p) PROVE EndInv'
  <2>1. PICK l \in {"readWait", "done"} : pc' = [pc EXCEPT ![p] = l]
    BY <1>6, AfterSendGoes DEF Publish
  <2>2. /\ Idle(Peer(p)) /\ idx[p] = Succ(idx[Peer(p)]) /\ pc[p] = "copyOut"
    BY <1>6, TurnFacts DEF Publish
  <2>3. /\ loop'[Peer(p)] = loop[Peer(p)] /\ bigloop'[Peer(p)] = bigloop[Peer(p)]
        /\ pc'[Peer(p)] = pc[Peer(p)]
    BY <1>6, <2>1, PeersLoops, Peers DEF Publish, TInv, TypeOK
  <2>4. pc'[p] = "done" =>
          /\ bigloop'[p] = BigLoops
          /\ loop'[p] = IF p = "server" THEN LoopCount ELSE LoopCount + 1
          /\ p = "client"
    BY <1>0, <1>6, <2>2, HowItEnds DEF Publish
  <2>5. CASE p = "server"
    \* The client is in the iteration of the message it has yet to take.
    <3>1. pc["client"] # "done"
      <4>1. SUFFICES ASSUME pc["client"] = "done" PROVE FALSE
        OBVIOUS
      <4>2. Round("client") = TotalRounds + 1
        BY <1>0, <4>1, LastRound, RoundBounds, ShmAssumption DEF EndInv, TotalRounds
      <4>3. ~Late
        BY <1>0, <2>2, <2>5, <4>1 DEF Late, Waiting
      <4>4. Round("server") <= TotalRounds /\ Round("server") \in Int
        BY <1>0, RoundBounds DEF TInv, LoopBound
      <4> QED BY <4>2, <4>3, <4>4, ShmAssumption DEF StepInv, TotalRounds
    <3> QED
      BY <1>0, <1>6, <2>1, <2>3, <2>4, <2>5, <3>1
      DEF Publish, EndInv, Waiting, TInv, TypeOK
  <2>6. CASE p = "client"
    <3>1. pc["server"] # "done"
      BY <2>2, <2>6 DEF EndInv, Waiting
    <3> QED
      BY <1>0, <1>6, <2>1, <2>2, <2>3, <2>4, <2>6, <3>1
      DEF Publish, statusOutSet, EndInv, Waiting, TInv, TypeOK
  <2> QED BY <1>0, <2>5, <2>6
<1>7. ASSUME NEW p \in Proc, Acknowledge(p) PROVE EndInv'
  <2>1. PICK l \in {"sendWait", "done"} : pc' = [pc EXCEPT ![p] = l]
    BY <1>7, AfterReadGoes DEF Acknowledge
  <2>2. Idle(Peer(p)) /\ idx[p] = idx[Peer(p)] /\ pc[p] = "copyIn"
    BY <1>7, TurnFacts DEF Acknowledge
  <2>3. /\ loop'[Peer(p)] = loop[Peer(p)] /\ bigloop'[Peer(p)] = bigloop[Peer(p)]
        /\ pc'[Peer(p)] = pc[Peer(p)]
    BY <1>7, <2>1, <2>2, PeersLoops, Peers DEF Acknowledge, TInv, TypeOK
  <2>4. pc'[p] = "done" =>
          /\ bigloop'[p] = BigLoops
          /\ loop'[p] = IF p = "server" THEN LoopCount ELSE LoopCount + 1
    BY <1>0, <1>7, <2>2, HowItEnds DEF Acknowledge
  <2>5. p = "client" => pc'[p] # "done"
    BY <1>7, <2>2, RoundAfterRead DEF Acknowledge
  <2>6. CASE p = "server"
    BY <1>0, <1>7, <2>1, <2>2, <2>3, <2>4, <2>6
    DEF Acknowledge, statusOutSet, EndInv, Idle, Waiting, TInv, TypeOK
  <2>7. CASE p = "client"
    <3>1. pc["server"] # "done"
      BY <2>2, <2>7 DEF EndInv, Waiting
    <3> QED
      BY <1>0, <1>7, <2>1, <2>3, <2>5, <2>7, <3>1
      DEF Acknowledge, EndInv, TInv, TypeOK
  <2> QED BY <1>0, <2>6, <2>7
<1>8. CASE UNCHANGED vars
  BY <1>8 DEF vars, memVars, loopVars, EndInv, Waiting
<1> QED
  BY <1>1, <1>2, <1>3, <1>4, <1>5, <1>6, <1>7, <1>8
  DEF Next, Step, Memory, Terminated

LEMMA EInvariant == Spec => []EInv
<1>1. Init => EInv
  <2>1. Init => StepInv
    BY ShmAssumption DEF Init, StepInv, Late, Waiting, Round, Proc
  <2>2. Init => EndInv /\ Met
    BY DEF Init, EndInv, Met, Proc
  <2> QED BY <2>1, <2>2, TypeInit, TurnsInit DEF EInv
<1>2. TInv /\ Turns /\ StepInv /\ EndInv /\ Met /\ [Next]_vars => StepInv'
  BY StepNext
<1>3. TInv /\ Turns /\ StepInv /\ EndInv /\ Met /\ [Next]_vars => EndInv'
  BY EndNext
<1>4. TInv /\ Turns /\ StepInv /\ EndInv /\ Met /\ [Next]_vars => Met'
  BY MetNext
<1>5. Init => TInv /\ Turns /\ StepInv /\ EndInv /\ Met
  BY <1>1 DEF EInv
<1>6. Spec => []TInv
  BY TypeInit, TypeNext, PTL DEF Spec
<1>7. Spec => [](TInv /\ Turns /\ StepInv /\ EndInv /\ Met)
  BY <1>2, <1>3, <1>4, <1>5, <1>6, TurnsInvariant, PTL DEF Spec
<1> QED BY <1>7, PTL DEF EInv

\* The two cannot wait for each other during the handshake, unless one
\* missed the other's Hello.
LEMMA HandshakeGoesOn ==
    ASSUME TInv, Handshake, Met
    PROVE  \/ \E p \in Proc : CanStep(p)
           \/ ~SleepCovers /\ \E p \in Proc : MissedHello(p)
<1> USE DEF Proc, Peer
<1>1. CASE \E p \in Proc : pc[p] = "hello"
  BY <1>1 DEF CanStep
<1>2. CASE (\A p \in Proc : pc[p] # "hello") /\ \E p \in Proc : pc[p] = "sleep"
  <2>1. PICK p \in Proc : pc[p] = "sleep"
    BY <1>2
  <2>2. CASE pc[Peer(p)] = "helloWait"
    <3>1. inStatus(Peer(p)) = Hello
      BY <2>1, Peers DEF inStatus, Handshake
    <3> QED BY <2>2, <3>1, Peers DEF CanStep
  <2>3. CASE pc[Peer(p)] # "helloWait"
    BY <1>2, <2>1, <2>3, Peers DEF CanStep
  <2> QED BY <2>2, <2>3
<1>3. CASE \A p \in Proc : pc[p] = "helloWait"
  <2>1. CanStep("server")
    BY <1>3 DEF CanStep, inStatus, Handshake
  <2> QED BY <2>1
<1>4. CASE pc["server"] = "sendWait" /\ pc["client"] = "readWait"
  <2>1. CanStep("server")
    BY <1>4 DEF CanStep, inStatus, Handshake
  <2> QED BY <2>1
<1>5. CASE \E p \in Proc : MissedHello(p)
  BY <1>5, Peers DEF MissedHello, Met
<1> QED
  BY <1>1, <1>2, <1>3, <1>4, <1>5 DEF Handshake, MissedHello

\* Whoever has the turn can use it, until both have ended.
LEMMA ExchangeGoesOn ==
    ASSUME TInv, Exchange, StepInv, EndInv
    PROVE  Finished \/ \E p \in Proc : CanStep(p) \/ CanDrain(p)
<1>0. /\ "server" \in Proc /\ "client" \in Proc
      /\ Peer("server") = "client" /\ Peer("client") = "server"
      /\ \A p \in Proc : p = "server" \/ p = "client"
  BY DEF Proc, Peer
<1>00. \A p \in Proc : idx[p] \in Status /\ Succ(idx[p]) # idx[p]
  BY SuccFacts DEF TInv, TypeOK
<1>1. PICK h \in Proc : Idle(Peer(h)) /\ HasTurn(h, Peer(h))
  BY DEF Exchange
<1>2. status[h] # Succ(idx[Peer(h)])
  BY <1>1, WaiterWaits
<1>3. CASE pc[h] = "readWait"
  <2>1. status[Peer(h)] = Succ(idx[h])
    BY <1>1, <1>3 DEF HasTurn
  <2> QED BY <1>3, <2>1 DEF CanStep, inStatus
<1>4. CASE pc[h] = "copyIn"
  BY <1>4 DEF CanStep
<1>5. CASE pc[h] = "sendWait"
  <2>1. status[Peer(h)] = idx[h]
    BY <1>1, <1>5 DEF HasTurn, Idle, Waiting
  <2> QED BY <1>5, <2>1 DEF CanStep, inStatus
<1>6. CASE pc[h] = "copyOut"
  BY <1>6 DEF CanStep, CanDrain
\* One that has ended holds the turn only when both have.
<1>7. CASE pc[h] = "done"
  <2>1. ~(h = "client" /\ status["server"] = Succ(idx["client"]))
    <3>1. SUFFICES ASSUME h = "client", status["server"] = Succ(idx["client"])
                   PROVE  FALSE
      OBVIOUS
    <3>2. ~Late
      BY <1>0, <1>1, <1>7, <3>1 DEF Late, Idle, Waiting
    <3>3. Round("client") = TotalRounds + 1
      BY <1>0, <1>7, <3>1, LastRound, RoundBounds, ShmAssumption DEF EndInv, TotalRounds
    <3>4. Round("server") <= TotalRounds /\ Round("server") \in Int
      BY <1>0, RoundBounds DEF TInv, LoopBound
    <3> QED BY <3>2, <3>3, <3>4, ShmAssumption DEF StepInv, TotalRounds
  <2>2. ~(h = "server" /\ status["client"] = Succ(idx["server"]))
    BY <1>0, <1>00, <1>1, <1>7 DEF EndInv, Idle
  <2>3. pc[Peer(h)] = "done"
    <3>1. CASE h = "client"
      BY <1>0, <1>1, <1>2, <1>7, <3>1 DEF EndInv, Idle, Waiting
    <3>2. CASE h = "server"
      <4>1. SUFFICES ASSUME pc["client"] = "readWait" PROVE FALSE
        BY <1>0, <1>1, <3>2 DEF Idle, Waiting
      <4>2. Late
        BY <1>0, <1>00, <1>7, <3>2, <4>1 DEF Late, Waiting, EndInv
      <4>3. Round("server") = TotalRounds
        BY <1>0, <1>7, <3>2, LastRound, ShmAssumption DEF EndInv, TotalRounds
      <4>4. Round("client") <= TotalRounds /\ Round("client") \in Int
        BY <1>0, <4>1, RoundBounds DEF TInv, LoopBound
      <4> QED BY <4>2, <4>3, <4>4, ShmAssumption DEF StepInv, TotalRounds
    <3> QED BY <1>0, <3>1, <3>2
  <2> QED BY <1>0, <1>7, <2>3 DEF Finished, CanDrain
<1> QED
  BY <1>1, <1>3, <1>4, <1>5, <1>6, <1>7 DEF HasTurn, Idle, Waiting

\* The exchange cannot come to a standstill: from every state one of the two
\* can go on or a store become visible, until both have ended; a sleep that
\* does not cover the other's delay may only leave one in its handshake.
THEOREM NoStandstill == Spec => []OnlyMissedHelloBlocks
<1>1. EInv => OnlyMissedHelloBlocks
  <2> SUFFICES ASSUME EInv PROVE OnlyMissedHelloBlocks
    OBVIOUS
  <2>1. CASE Handshake
    BY <2>1, HandshakeGoesOn DEF EInv, OnlyMissedHelloBlocks
  <2>2. CASE Exchange
    BY <2>2, ExchangeGoesOn DEF EInv, OnlyMissedHelloBlocks
  <2> QED BY <2>1, <2>2 DEF EInv, Turns
<1> QED BY <1>1, EInvariant, PTL

-----------------------------------------------------------------------------
(* What is left to do *)

LEMMA PartCards ==
    /\ Cardinality(Part) \in Nat
    /\ \A S \in SUBSET Part : /\ Cardinality(Part \ S) \in Nat
                              /\ Cardinality(Part \ S) <= Cardinality(Part)
    /\ Cardinality(Part \ {}) = Cardinality(Part)
    /\ Cardinality(Part \ Part) = 0
    /\ \A S \in SUBSET Part : \A i \in Part \ S :
         Cardinality(Part \ (S \cup {i})) = Cardinality(Part \ S) - 1
<1>0. IsFiniteSet(Part)
  BY ShmAssumption
<1>1. Cardinality(Part) \in Nat
  BY <1>0, FS_CardinalityType
<1>2. ASSUME NEW S \in SUBSET Part
      PROVE  /\ IsFiniteSet(Part \ S) /\ Cardinality(Part \ S) \in Nat
             /\ Cardinality(Part \ S) <= Cardinality(Part)
  <2>1. Part \ S \in SUBSET Part
    OBVIOUS
  <2>2. IsFiniteSet(Part \ S) /\ Cardinality(Part \ S) <= Cardinality(Part)
    BY <1>0, <2>1, FS_Subset
  <2> QED BY <2>2, FS_CardinalityType
<1>3. Part \ {} = Part /\ Part \ Part = {}
  OBVIOUS
<1>4. ASSUME NEW S \in SUBSET Part, NEW i \in Part \ S
      PROVE  Cardinality(Part \ (S \cup {i})) = Cardinality(Part \ S) - 1
  <2>1. Part \ (S \cup {i}) = (Part \ S) \ {i}
    OBVIOUS
  <2>2. IsFiniteSet(Part \ S) /\ i \in Part \ S
    BY <1>2
  <2> QED BY <2>1, <2>2, FS_RemoveElement
<1> QED BY <1>1, <1>2, <1>3, <1>4, FS_EmptySet

\* A store adds no more than one to what is buffered; one that becomes
\* visible is no longer counted.
LEMMA BufferCards ==
    ASSUME NEW b, NEW c, NEW i \in Part,
           \A j \in Part \ {i} : c[j] = b[j]
    PROVE  LET n == Cardinality({j \in Part : b[j] # NoStore})
               m == Cardinality({j \in Part : c[j] # NoStore})
           IN  /\ n \in Nat /\ m \in Nat /\ m <= n + 1
               /\ (b[i] # NoStore /\ c[i] = NoStore) => m = n - 1
<1> DEFINE B == {j \in Part : b[j] # NoStore}
           C == {j \in Part : c[j] # NoStore}
<1>1. IsFiniteSet(B) /\ IsFiniteSet(C)
  <2>1. B \in SUBSET Part /\ C \in SUBSET Part /\ IsFiniteSet(Part)
    BY ShmAssumption
  <2> HIDE DEF B, C
  <2> QED BY <2>1, FS_Subset
<1>2. Cardinality(B) \in Nat /\ Cardinality(C) \in Nat
  BY <1>1, FS_CardinalityType
<1>3. IsFiniteSet(B \cup {i}) /\ Cardinality(B \cup {i}) <= Cardinality(B) + 1
  <2> HIDE DEF B
  <2>1. /\ IsFiniteSet(B \cup {i})
        /\ Cardinality(B \cup {i}) = IF i \in B THEN Cardinality(B)
                                    ELSE Cardinality(B) + 1
    BY <1>1, FS_AddElement
  <2> QED BY <1>2, <2>1
<1>4. C \in SUBSET (B \cup {i})
  OBVIOUS
<1>5. Cardinality(C) <= Cardinality(B) + 1
  <2> HIDE DEF B, C
  <2>1. Cardinality(C) <= Cardinality(B \cup {i}) /\ Cardinality(B \cup {i}) \in Nat
    BY <1>3, <1>4, FS_Subset, FS_CardinalityType
  <2> QED BY <1>2, <1>3, <2>1
<1>6. ASSUME b[i] # NoStore, c[i] = NoStore
      PROVE  Cardinality(C) = Cardinality(B) - 1
  <2>1. C = B \ {i} /\ i \in B
    BY <1>6
  <2> HIDE DEF B, C
  <2> QED BY <1>1, <2>1, FS_RemoveElement
<1> QED BY <1>2, <1>5, <1>6

LEMMA BufferedIsNat ==
    ASSUME NEW p \in Proc
    PROVE  Buffered(p) \in Nat
<1>1. {i \in Part : buffer[p][i] # NoStore} \in SUBSET Part /\ IsFiniteSet(Part)
  BY ShmAssumption
<1>2. IsFiniteSet({i \in Part : buffer[p][i] # NoStore})
  BY <1>1, FS_Subset
<1> QED BY <1>2, FS_CardinalityType DEF Buffered

\* One iteration more is one iteration less before the process.
LEMMA RoundCosts ==
    ASSUME NEW r \in Int
    PROVE  /\ RoundCost \in Nat
           /\ (TotalRounds + 1 - r) * RoundCost
                = (TotalRounds + 1 - (r + 1)) * RoundCost + RoundCost
           /\ r <= TotalRounds + 1 => (TotalRounds + 1 - r) * RoundCost \in Nat
<1>1. TotalRounds \in Nat
  BY ShmAssumption DEF TotalRounds
<1>2. RoundCost \in Nat
  BY PartCards DEF RoundCost
<1> DEFINE k == TotalRounds - r
<1>3. k \in Int /\ TotalRounds + 1 - r = k + 1 /\ TotalRounds + 1 - (r + 1) = k
  BY <1>1
<1> HIDE DEF k
<1>4. (k + 1) * RoundCost = k * RoundCost + RoundCost
  BY <1>2, <1>3
<1>5. r <= TotalRounds + 1 => k + 1 \in Nat
  BY <1>1, <1>3
<1>6. k + 1 \in Nat => (k + 1) * RoundCost \in Nat
  BY <1>2
<1> QED BY <1>2, <1>3, <1>4, <1>5, <1>6

LEMMA StepsInRoundIsNat ==
    ASSUME TInv, NEW p \in Proc, pc[p] # "done"
    PROVE  StepsInRound(p) \in Nat \ {0}
<1>1. Cardinality(Part \ copied[p]) \in Nat /\ Cardinality(Part) \in Nat
  BY PartCards DEF TInv, TypeOK
<1>2. pc[p] \in {"hello", "helloWait", "sleep", "sendWait", "copyOut",
                "readWait", "copyIn"}
  BY DEF TInv, TypeOK
<1> QED BY <1>1, <1>2 DEF StepsInRound, RoundCost

LEMMA StepsLeftIsNat ==
    ASSUME TInv, NEW p \in Proc
    PROVE  StepsLeft(p) \in Nat
<1>1. Round(p) \in Int /\ Round(p) <= TotalRounds + 1
  BY RoundBounds
<1>2. (TotalRounds + 1 - Round(p)) * RoundCost \in Nat
  BY <1>1, RoundCosts
<1>3. CASE pc[p] # "done"
  <2>1. StepsInRound(p) \in Nat
    BY <1>3, StepsInRoundIsNat
  <2> QED BY <1>2, <2>1 DEF StepsLeft
<1>4. CASE pc[p] = "done"
  BY <1>4 DEF StepsLeft
<1> QED BY <1>3, <1>4

\* A step within an iteration counts as the steps in it do.
LEMMA SameRoundCounts ==
    ASSUME TInv, TInv', NEW p \in Proc, NEW d \in Int,
           Round(p)' = Round(p), pc[p] # "done",
           pc'[p] # "done" => StepsInRound(p)' < StepsInRound(p) - d,
           pc'[p] = "done" => d < StepsInRound(p)
    PROVE  StepsLeft(p)' < StepsLeft(p) - d
<1> DEFINE a == (TotalRounds + 1 - Round(p)) * RoundCost
<1>1. a \in Nat /\ a' = a
  <2>1. Round(p) \in Int /\ Round(p) <= TotalRounds + 1
    BY RoundBounds
  <2> QED BY <2>1, RoundCosts
<1> HIDE DEF a
<1>2. StepsLeft(p) = a + StepsInRound(p) /\ StepsInRound(p) \in Nat
  BY StepsInRoundIsNat DEF StepsLeft, a
<1>3. CASE pc'[p] # "done"
  <2>1. StepsInRound(p)' \in Nat
    <3>1. Cardinality(Part \ copied'[p]) \in Nat /\ Cardinality(Part) \in Nat
      BY PartCards DEF TInv, TypeOK
    <3>2. pc'[p] \in {"hello", "helloWait", "sleep", "sendWait", "copyOut",
                     "readWait", "copyIn"}
      BY <1>3 DEF TInv, TypeOK
    <3> QED BY <3>1, <3>2 DEF StepsInRound, RoundCost
  <2>2. StepsLeft(p)' = a + StepsInRound(p)'
    BY <1>1, <1>3 DEF StepsLeft, a
  <2> QED BY <1>1, <1>2, <1>3, <2>1, <2>2
<1>4. CASE pc'[p] = "done"
  <2>1. StepsLeft(p)' = 0
    BY <1>4 DEF StepsLeft
  <2> QED BY <1>1, <1>2, <1>4, <2>1
<1> QED BY <1>3, <1>4

\* What a process does is not counted for the other.
LEMMA PeersSteps ==
    ASSUME NEW p \in Proc, pc'[Peer(p)] = pc[Peer(p)],
           copied'[Peer(p)] = copied[Peer(p)], Round(Peer(p))' = Round(Peer(p))
    PROVE  StepsLeft(Peer(p))' = StepsLeft(Peer(p))
BY DEF StepsLeft, StepsInRound

\* The counts are numbers, before and after a step.
LEMMA CountsAreNat ==
    TInv => \A p \in Proc : /\ StepsLeft(p) \in Nat /\ Buffered(p) \in Nat
                            /\ pc[p] # "done" => StepsInRound(p) \in Nat \ {0}
BY StepsLeftIsNat, BufferedIsNat, StepsInRoundIsNat

LEMMA CountsStayNat ==
    (TInv => \A p \in Proc : /\ StepsLeft(p) \in Nat /\ Buffered(p) \in Nat
                             /\ pc[p] # "done" => StepsInRound(p) \in Nat \ {0})'
BY CountsAreNat, PTL

\* A step of a process is one less for it, also when it buffers a store; one
\* of the memory is one less in the buffer. Nothing is added for the other.
LEMMA StepCounts ==
    ASSUME TInv, TInv', Turns, NEW p \in Proc, Step(p) \/ Memory(p)
    PROVE  /\ StepsLeft(p)' + Buffered(p)' < StepsLeft(p) + Buffered(p)
           /\ StepsLeft(Peer(p))' = StepsLeft(Peer(p))
           /\ Buffered(Peer(p))' = Buffered(Peer(p))
<1>0. /\ Peer(p) \in Proc /\ Peer(p) # p
      /\ StepsLeft(p) \in Int /\ Buffered(p) \in Int
      /\ StepsLeft(p)' \in Int /\ Buffered(p)' \in Int
      /\ Round(p) \in Int /\ Cardinality(Part) \in Nat
      /\ copied[p] \in SUBSET Part
  BY Peers, CountsAreNat, CountsStayNat, RoundBounds, PartCards DEF TInv, TypeOK
\* It is enough that a step that buffers nothing counts in its iteration.
<1>1. ASSUME UNCHANGED <<buffer, loop, bigloop, copied>>,
             NEW l \in {"helloWait", "sleep", "sendWait", "readWait", "copyIn", "copyOut"},
             pc' = [pc EXCEPT ![p] = l], pc[p] # "done",
             StepsInRound(p)' < StepsInRound(p)
      PROVE  /\ StepsLeft(p)' + Buffered(p)' < StepsLeft(p) + Buffered(p)
             /\ StepsLeft(Peer(p))' = StepsLeft(Peer(p))
             /\ Buffered(Peer(p))' = Buffered(Peer(p))
  <2>1. Round(p)' = Round(p) /\ Round(Peer(p))' = Round(Peer(p))
    BY <1>1 DEF Round
  <2>2. StepsInRound(p) \in Int
    BY <1>1, StepsInRoundIsNat
  <2>3. StepsInRound(p)' < StepsInRound(p) - 0 /\ pc'[p] # "done"
    BY <1>0, <1>1, <2>2 DEF TInv, TypeOK
  <2>4. StepsLeft(p)' < StepsLeft(p) - 0
    BY <1>1, <2>1, <2>3, SameRoundCounts
  <2>5. StepsLeft(Peer(p))' = StepsLeft(Peer(p))
    <3>1. pc'[Peer(p)] = pc[Peer(p)] /\ copied'[Peer(p)] = copied[Peer(p)]
      BY <1>0, <1>1 DEF TInv, TypeOK
    <3> QED BY <2>1, <3>1, PeersSteps
  <2>6. Buffered(p)' = Buffered(p) /\ Buffered(Peer(p))' = Buffered(Peer(p))
    BY <1>1 DEF Buffered
  <2>7. StepsLeft(p)' < StepsLeft(p)
    BY <1>0, <2>4
  <2> QED BY <1>0, <2>5, <2>6, <2>7
<1>2. CASE SayHello(p) \/ SeeHello(p)
  <2>1. PICK l \in {"helloWait", "sleep"} : pc' = [pc EXCEPT ![p] = l]
    BY <1>2 DEF SayHello, SeeHello, goto
  <2>2. StepsInRound(p)' < StepsInRound(p) /\ pc[p] # "done"
    BY <1>0, <1>2 DEF SayHello, SeeHello, goto, StepsInRound, RoundCost, TInv, TypeOK
  <2>3. UNCHANGED <<buffer, loop, bigloop, copied>>
    BY <1>2 DEF SayHello, SeeHello, memVars, loopVars
  <2> QED BY <1>1, <2>1, <2>2, <2>3
<1>3. CASE WakeUp(p)
  <2>1. PICK l \in {"sendWait", "readWait"} : pc' = [pc EXCEPT ![p] = l]
    BY <1>3 DEF WakeUp, StartLoop, PrepareSend, goto
  <2>2. StepsInRound(p)' < StepsInRound(p) /\ pc[p] # "done"
    BY <1>0, <1>3, <2>1 DEF WakeUp, StepsInRound, RoundCost, TInv, TypeOK
  <2>3. UNCHANGED <<buffer, loop, bigloop, copied>>
    BY <1>3 DEF WakeUp
  <2> QED BY <1>1, <2>1, <2>2, <2>3
<1>4. CASE SendWait(p) \/ ReadWait(p)
  <2>1. copied[p] = {} /\ Cardinality(Part \ {}) = Cardinality(Part)
    BY <1>4, TurnFacts, PartCards DEF SendWait, ReadWait
  <2>2. PICK l \in {"copyOut", "copyIn"} : pc' = [pc EXCEPT ![p] = l]
    BY <1>4 DEF SendWait, ReadWait, goto
  <2>3. StepsInRound(p)' < StepsInRound(p) /\ pc[p] # "done"
    <3>1. Part \ copied'[p] = Part \ {}
      BY <1>4, <2>1 DEF SendWait, ReadWait
    <3>2. CASE SendWait(p)
      <4>1. pc[p] = "sendWait" /\ pc'[p] = "copyOut"
        BY <1>0, <3>2 DEF SendWait, goto, TInv, TypeOK
      <4>2. /\ StepsInRound(p) = 3 * Cardinality(Part) + 4
            /\ StepsInRound(p)' = 2 * Cardinality(Part) + Cardinality(Part) + 3
        BY <2>1, <3>1, <4>1 DEF StepsInRound, RoundCost
      <4> QED BY <1>0, <4>1, <4>2
    <3>3. CASE ReadWait(p)
      <4>1. pc[p] = "readWait" /\ pc'[p] = "copyIn"
        BY <1>0, <3>3 DEF ReadWait, goto, TInv, TypeOK
      <4>2. /\ StepsInRound(p) = Cardinality(Part) + 2
            /\ StepsInRound(p)' = Cardinality(Part) + 1
        BY <2>1, <3>1, <4>1 DEF StepsInRound
      <4> QED BY <1>0, <4>1, <4>2
    <3> QED BY <1>4, <3>2, <3>3
  <2>4. UNCHANGED <<buffer, loop, bigloop, copied>>
    BY <1>4 DEF SendWait, ReadWait, memVars, loopVars
  <2> QED BY <1>1, <2>2, <2>3, <2>4
<1>5. ASSUME NEW i \in Part, CopyOut(p, i) \/ CopyIn(p, i)
      PROVE  /\ StepsLeft(p)' + Buffered(p)' < StepsLeft(p) + Buffered(p)
             /\ StepsLeft(Peer(p))' = StepsLeft(Peer(p))
             /\ Buffered(Peer(p))' = Buffered(Peer(p))
  <2>1. /\ Cardinality(Part \ (copied[p] \cup {i})) = Cardinality(Part \ copied[p]) - 1
        /\ Cardinality(Part \ copied[p]) \in Nat
    BY <1>0, <1>5, PartCards DEF CopyOut, CopyIn
  <2>2. /\ pc' = pc /\ copied' = [copied EXCEPT ![p] = @ \cup {i}]
        /\ loop' = loop /\ bigloop' = bigloop /\ pc[p] \in {"copyOut", "copyIn"}
    BY <1>5 DEF CopyOut, CopyIn, loopVars
  <2>3. Round(p)' = Round(p) /\ Round(Peer(p))' = Round(Peer(p))
    BY <2>2 DEF Round
  <2>4. StepsLeft(Peer(p))' = StepsLeft(Peer(p))
    <3>1. pc'[Peer(p)] = pc[Peer(p)] /\ copied'[Peer(p)] = copied[Peer(p)]
      BY <1>0, <2>2 DEF TInv, TypeOK
    <3> QED BY <2>3, <3>1, PeersSteps
  <2>5. CASE CopyOut(p, i)
    <3>1. StepsInRound(p)' < StepsInRound(p) - 1 /\ pc[p] # "done" /\ pc'[p] # "done"
      BY <1>0, <2>1, <2>2, <2>5 DEF CopyOut, StepsInRound, TInv, TypeOK
    <3>2. StepsLeft(p)' < StepsLeft(p) - 1
      BY <2>3, <3>1, SameRoundCounts
    <3>3. buffer' = [buffer EXCEPT ![p][i] = Source(p)[i]]
      BY <2>5 DEF CopyOut
    <3>4. \A j \in Part \ {i} : buffer'[p][j] = buffer[p][j]
      BY <3>3 DEF TInv, TypeOK
    <3>5. Buffered(p)' \in Nat /\ Buffered(p)' <= Buffered(p) + 1
      BY <3>4, BufferCards DEF Buffered
    <3>6. Buffered(Peer(p))' = Buffered(Peer(p))
      BY <1>0, <3>3 DEF Buffered, TInv, TypeOK
    <3> QED BY <1>0, <2>4, <3>2, <3>5, <3>6
  <2>6. CASE CopyIn(p, i)
    <3>1. StepsInRound(p)' < StepsInRound(p) - 0 /\ pc[p] # "done" /\ pc'[p] # "done"
      BY <1>0, <2>1, <2>2, <2>6 DEF CopyIn, StepsInRound, TInv, TypeOK
    <3>2. StepsLeft(p)' < StepsLeft(p) - 0
      BY <2>3, <3>1, SameRoundCounts
    <3>3. Buffered(p)' = Buffered(p) /\ Buffered(Peer(p))' = Buffered(Peer(p))
      BY <2>6 DEF CopyIn, memVars, Buffered
    <3> QED BY <1>0, <2>4, <3>2, <3>3
  <2> QED BY <1>5, <2>5, <2>6
<1>6. CASE Publish(p)
  <2>1. PICK l \in {"readWait", "done"} : pc' = [pc EXCEPT ![p] = l]
    BY <1>6, AfterSendGoes DEF Publish
  <2>2. /\ pc[p] = "copyOut" /\ copied[p] = Part /\ UNCHANGED buffer
        /\ copied' = [copied EXCEPT ![p] = {}]
    BY <1>6 DEF Publish
  <2>3. Round(p)' = Round(p) /\ Round(Peer(p))' = Round(Peer(p))
    BY <1>6, RoundAfterSend, PeersRound DEF Publish
  <2>4. StepsInRound(p) = Cardinality(Part) + 3
    <3>1. Cardinality(Part \ copied[p]) = 0
      BY <2>2, PartCards
    <3>2. StepsInRound(p) = 2 * 0 + Cardinality(Part) + 3
      BY <2>2, <3>1 DEF StepsInRound
    <3> QED BY <1>0, <3>2
  <2>5. pc'[p] # "done" => StepsInRound(p)' < StepsInRound(p) - 0
    <3>1. pc'[p] # "done" => pc'[p] = "readWait"
      BY <1>0, <2>1 DEF TInv, TypeOK
    <3>2. pc'[p] # "done" => StepsInRound(p)' = Cardinality(Part) + 2
      BY <3>1 DEF StepsInRound
    <3> QED BY <1>0, <2>4, <3>2
  <2>6. pc[p] # "done" /\ (pc'[p] = "done" => 0 < StepsInRound(p))
    BY <1>0, <2>2, <2>4
  <2>7. StepsLeft(p)' < StepsLeft(p) - 0
    BY <2>3, <2>5, <2>6, SameRoundCounts
  <2>8. StepsLeft(Peer(p))' = StepsLeft(Peer(p))
    <3>1. pc'[Peer(p)] = pc[Peer(p)] /\ copied'[Peer(p)] = copied[Peer(p)]
      BY <1>0, <2>1, <2>2 DEF TInv, TypeOK
    <3> QED BY <2>3, <3>1, PeersSteps
  <2>9. Buffered(p)' = Buffered(p) /\ Buffered(Peer(p))' = Buffered(Peer(p))
    BY <2>2 DEF Buffered
  <2> QED BY <1>0, <2>7, <2>8, <2>9
\* The next iteration is paid for by the one that is over.
<1>7. CASE Acknowledge(p)
  <2>1. PICK l \in {"sendWait", "done"} : pc' = [pc EXCEPT ![p] = l]
    BY <1>7, AfterReadGoes DEF Acknowledge
  <2>2. /\ pc[p] = "copyIn" /\ copied[p] = Part /\ UNCHANGED buffer
        /\ copied' = [copied EXCEPT ![p] = {}]
    BY <1>7 DEF Acknowledge
  <2>3. /\ Round(p)' = IF pc'[p] = "done" THEN Round(p) ELSE Round(p) + 1
        /\ Round(Peer(p))' = Round(Peer(p))
    BY <1>7, <2>2, RoundAfterRead, PeersRound DEF Acknowledge
  <2>4. StepsInRound(p) = 1
    BY <1>0, <2>2, PartCards DEF StepsInRound
  <2>5. StepsLeft(p)' < StepsLeft(p)
    <3>1. CASE pc'[p] = "done"
      <4>1. StepsLeft(p)' < StepsLeft(p) - 0
        BY <2>2, <2>3, <2>4, <3>1, SameRoundCounts
      <4> QED BY <1>0, <4>1
    <3>2. CASE pc'[p] # "done"
      <4>1. pc'[p] = "sendWait" /\ Round(p)' = Round(p) + 1
        BY <2>1, <2>3, <3>2 DEF TInv, TypeOK
      <4>2. StepsInRound(p)' = RoundCost
        BY <4>1 DEF StepsInRound
      <4> DEFINE a == (TotalRounds + 1 - (Round(p) + 1)) * RoundCost
      <4>3. StepsLeft(p)' = a + RoundCost
        BY <4>1, <4>2 DEF StepsLeft
      <4>4. StepsLeft(p) = (a + RoundCost) + 1
        BY <1>0, <2>2, <2>4, RoundCosts DEF StepsLeft
      <4> HIDE DEF a
      <4> QED BY <1>0, <4>3, <4>4
    <3> QED BY <3>1, <3>2
  <2>6. StepsLeft(Peer(p))' = StepsLeft(Peer(p))
    <3>1. pc'[Peer(p)] = pc[Peer(p)] /\ copied'[Peer(p)] = copied[Peer(p)]
      BY <1>0, <2>1, <2>2 DEF TInv, TypeOK
    <3> QED BY <2>3, <3>1, PeersSteps
  <2>7. Buffered(p)' = Buffered(p) /\ Buffered(Peer(p))' = Buffered(Peer(p))
    BY <2>2 DEF Buffered
  <2> QED BY <1>0, <2>5, <2>6, <2>7
<1>8. ASSUME NEW i \in Part, Drain(p, i)
      PROVE  /\ StepsLeft(p)' + Buffered(p)' < StepsLeft(p) + Buffered(p)
             /\ StepsLeft(Peer(p))' = StepsLeft(Peer(p))
             /\ Buffered(Peer(p))' = Buffered(Peer(p))
  <2>1. StepsLeft(p)' = StepsLeft(p) /\ StepsLeft(Peer(p))' = StepsLeft(Peer(p))
    BY <1>8 DEF Drain, loopVars, StepsLeft, StepsInRound, Round
  <2>2. /\ buffer' = [buffer EXCEPT ![p][i] = NoStore] /\ buffer[p][i] # NoStore
    BY <1>8 DEF Drain
  <2>3. /\ \A j \in Part \ {i} : buffer'[p][j] = buffer[p][j]
        /\ buffer'[p][i] = NoStore /\ buffer'[Peer(p)] = buffer[Peer(p)]
    BY <1>0, <2>2 DEF TInv, TypeOK
  <2>4. Buffered(p)' = Buffered(p) - 1
    <3> DEFINE b == buffer[p]
               c == buffer'[p]
    <3>1. b[i] # NoStore /\ c[i] = NoStore /\ \A j \in Part \ {i} : c[j] = b[j]
      BY <2>2, <2>3
    <3> HIDE DEF b, c
    <3>2. Cardinality({j \in Part : c[j] # NoStore})
            = Cardinality({j \in Part : b[j] # NoStore}) - 1
      BY <3>1, BufferCards
    <3> QED BY <3>2 DEF Buffered, b, c
  <2>5. Buffered(Peer(p))' = Buffered(Peer(p))
    BY <2>3 DEF Buffered
  <2> QED BY <1>0, <2>1, <2>4, <2>5
<1> QED
  BY <1>2, <1>3, <1>4, <1>5, <1>6, <1>7, <1>8 DEF Step, Memory

\* The exchange takes no more steps than it has before it at first, for
\* every number of loops and of parts, whatever the sleep and the order of
\* stores; with NoStandstill, it stops only where both have ended (or, where
\* the sleep does not cover, in the handshake).
THEOREM NoStepIsWasted == Spec => EveryStepCounts
<1>1. TInv /\ TInv' /\ Turns /\ [Next]_vars
        => [Remaining' \in Nat /\ Remaining' < Remaining]_vars
  <2> SUFFICES ASSUME TInv, TInv', Turns, Next
               PROVE  vars' = vars \/ (Remaining' \in Nat /\ Remaining' < Remaining)
    OBVIOUS
  <2>1. CASE Terminated
    BY <2>1 DEF Terminated
  <2>2. ASSUME NEW p \in Proc, Step(p) \/ Memory(p)
        PROVE  Remaining' \in Nat /\ Remaining' < Remaining
    <3>1. /\ StepsLeft(p)' + Buffered(p)' < StepsLeft(p) + Buffered(p)
          /\ StepsLeft(Peer(p))' = StepsLeft(Peer(p))
          /\ Buffered(Peer(p))' = Buffered(Peer(p))
      BY <2>2, StepCounts
    <3>2. \A q \in Proc : /\ StepsLeft(q) \in Nat /\ Buffered(q) \in Nat
                          /\ StepsLeft(q)' \in Nat /\ Buffered(q)' \in Nat
      BY CountsAreNat, CountsStayNat
    <3>3. /\ "server" \in Proc /\ "client" \in Proc
          /\ Peer("server") = "client" /\ Peer("client") = "server"
          /\ p = "server" \/ p = "client"
      BY DEF Proc, Peer
    <3> QED BY <3>1, <3>2, <3>3 DEF Remaining
  <2> QED BY <2>1, <2>2 DEF Next
<1>2. Spec => []TInv
  BY TypeInit, TypeNext, PTL DEF Spec
<1> QED BY <1>1, <1>2, TurnsInvariant, PTL DEF Spec, EveryStepCounts
=============================================================================

---------------------------- MODULE ShmPingPong ----------------------------
(***************************************************************************)
(* AppSharedMemory.lua over lib_shared_memory.lua, from the handshake to   *)
(* the end of the loops: two processes, each with a segment that it writes *)
(* and the other reads, a status byte followed by the data. The status     *)
(* counts modulo StatusCount (base64char: 64); a process writes its data,  *)
(* sets its status, and spins until it reads the one it waits for.         *)
(*                                                                         *)
(* A copy to or from a segment is a step for each of its parts, in any     *)
(* order. A store goes to the process's store buffer and becomes visible   *)
(* later. With Ordered the status becomes visible after the data, as on    *)
(* x86; without, as on processors that keep no such order (the barrier in  *)
(* mmapStatusOutSet is commented out), the data may come after it. No load *)
(* passes a store to any effect under Ordered: a process that waits reads  *)
(* only the other's segment.                                               *)
(***************************************************************************)
EXTENDS Integers, FiniteSets

CONSTANTS
    StatusCount,   \* values of the status index (64)
    LoopCount,     \* argument 5
    BigLoops,      \* argument 4
    Part,          \* parts of the data that are copied separately
    Powers,        \* numStringLength's limits: 10, 100, ... (1 to 9 digits)
    Hello, Zero,   \* status '@' and status 0, both apart from the indices
    NoStore,       \* an empty place of the store buffer
    useSetData,    \* argument 2: change the data in every loop
    Ordered,       \* stores become visible in program order
    SleepCovers    \* the sleep of the handshake is longer than any delay of
                   \* the other process between its own Hello and its look

ASSUME ShmAssumption ==
    /\ StatusCount \in Nat /\ StatusCount >= 3
    /\ LoopCount \in Nat \ {0}
    /\ BigLoops \in Nat \ {0}
    /\ IsFiniteSet(Part)
    /\ Powers \in [1 .. 9 -> Nat \ {0}]
    /\ \A n \in 1 .. 8 : Powers[n] < Powers[n + 1]
    /\ LoopCount < Powers[9]
    /\ Hello # Zero
    /\ {Hello, Zero} \cap (0 .. StatusCount - 1) = {}
    /\ NoStore \notin Int
    /\ useSetData \in BOOLEAN
    /\ Ordered \in BOOLEAN
    /\ SleepCovers \in BOOLEAN

VARIABLES
    status,    \* Proc -> status byte of the segment the process writes
    data,      \* Proc -> the data of that segment, by part
    buffer,    \* Proc -> stores to the data that are not yet visible
    pc,        \* Proc -> where the process is
    idx,       \* Proc -> statusIdx
    copied,    \* Proc -> parts of the copy it is at that are done
    loop,      \* Proc -> loop; LoopCount + 1 is the client's last send
    bigloop,   \* Proc -> bigloop
    sendData,  \* Proc -> sendData_c, by part
    readData,  \* Proc -> readData_c, by part
    echoing    \* the client's sendData_c has become its readData_c

memVars == <<status, data, buffer>>
loopVars == <<loop, bigloop, sendData, echoing>>
vars == <<memVars, pc, idx, copied, loopVars, readData>>

Proc == {"server", "client"}
Peer(p) == IF p = "server" THEN "client" ELSE "server"
Status == 0 .. StatusCount - 1

\* A message is known by its number. sendData starts as "srv-000" and
\* "cli-000", readData as "--- not read yet ---", a segment as zeroes.
Whole(n) == [i \in Part |-> n]
NotRead == -1
FromClient == -2
NoData == -3
Empty == [i \in Part |-> NoStore]

\* The index wraps one too late.
Succ_mutant(i) == IF i + 1 > StatusCount THEN 0 ELSE i + 1

\* statusIdxAdd
Succ(i) == IF i + 1 > StatusCount - 1 THEN 0 ELSE i + 1

Init ==
    /\ status = [p \in Proc |-> Zero]
    /\ data = [p \in Proc |-> Whole(NoData)]
    /\ buffer = [p \in Proc |-> Empty]
    /\ pc = [p \in Proc |-> "hello"]
    /\ idx = [p \in Proc |-> 0]
    /\ copied = [p \in Proc |-> {}]
    /\ loop = [p \in Proc |-> 1]
    /\ bigloop = [p \in Proc |-> 1]
    /\ sendData = [p \in Proc |-> IF p = "server" THEN Whole(0)
                                  ELSE Whole(FromClient)]
    /\ readData = [p \in Proc |-> Whole(NotRead)]
    /\ echoing = FALSE

goto(p, l) == pc' = [pc EXCEPT ![p] = l]
statusOutSet(p, s) == status' = [status EXCEPT ![p] = s]
inStatus(p) == status[Peer(p)]

-----------------------------------------------------------------------------
(* send_data_set and the loops *)

numStringLength(l) ==
    CHOOSE n \in 1 .. 9 : /\ l < Powers[n]
                          /\ \A m \in 1 .. 9 : l < Powers[m] => n <= m

\* Only the digits the number has are written, over the last ones.
overwrite(old, l) ==
    LET unit == Powers[numStringLength(l)]
    IN  (old \div unit) * unit + l

send_data_set(l) ==
    sendData' = [sendData EXCEPT !["server"] =
                    [i \in Part |-> overwrite(sendData["server"][i], l)]]

\* What send_data copies: sendData_c, for the client perhaps its readData_c.
Source(p) == IF p = "client" /\ echoing THEN readData[p] ELSE sendData[p]

\* The client's sendData becomes its readData only for its last answer.
PrepareSend_mutant(p, l) ==
    /\ IF p = "server" /\ useSetData
       THEN send_data_set(l)
       ELSE UNCHANGED sendData
    /\ echoing' = (echoing \/ (p = "client" /\ l > LoopCount))
    /\ goto(p, "sendWait")

\* The part of an iteration before send_data(l).
PrepareSend(p, l) ==
    /\ IF p = "server" /\ useSetData
       THEN send_data_set(l)
       ELSE UNCHANGED sendData
    /\ echoing' = (echoing \/ (p = "client" /\ (useSetData \/ l > LoopCount)))
    /\ goto(p, "sendWait")

\* The server sends in every iteration; the client from the second on.
StartLoop(p) ==
    IF p = "server" THEN PrepareSend(p, 1)
    ELSE goto(p, "readWait") /\ UNCHANGED <<sendData, echoing>>

SetLoop(p, l) == loop' = [loop EXCEPT ![p] = l] /\ UNCHANGED bigloop

\* bigloop is not counted.
EndOfLoop_mutant(p) ==
    IF bigloop[p] < BigLoops
    THEN SetLoop(p, 1) /\ StartLoop(p)
    ELSE goto(p, "done") /\ UNCHANGED loopVars

EndOfLoop(p) ==
    IF bigloop[p] < BigLoops
    THEN /\ bigloop' = [bigloop EXCEPT ![p] = @ + 1]
         /\ loop' = [loop EXCEPT ![p] = 1]
         /\ StartLoop(p)
    ELSE /\ goto(p, "done")
         /\ UNCHANGED loopVars

\* The last iteration ends with the send.
AfterSend_mutant(p) ==
    IF loop[p] >= LoopCount
    THEN EndOfLoop(p)
    ELSE goto(p, "readWait") /\ UNCHANGED loopVars

\* After send_data: the reply is read, or the client's last answer was sent.
AfterSend(p) ==
    IF loop[p] > LoopCount
    THEN EndOfLoop(p)
    ELSE goto(p, "readWait") /\ UNCHANGED loopVars

\* The client does not answer the last message.
AfterRead_mutant(p) ==
    IF loop[p] < LoopCount
    THEN SetLoop(p, loop[p] + 1) /\ PrepareSend(p, loop[p] + 1)
    ELSE EndOfLoop(p)

\* After read_data: the next iteration, or the client's answer to the last.
AfterRead(p) ==
    IF loop[p] < LoopCount \/ p = "client"
    THEN SetLoop(p, loop[p] + 1) /\ PrepareSend(p, loop[p] + 1)
    ELSE EndOfLoop(p)

-----------------------------------------------------------------------------
(* The handshake *)

SayHello(p) ==
    /\ pc[p] = "hello"
    /\ statusOutSet(p, Hello)
    /\ goto(p, "helloWait")
    /\ UNCHANGED <<data, buffer, idx, copied, loopVars, readData>>

SeeHello(p) ==
    /\ pc[p] = "helloWait"
    /\ inStatus(p) = Hello
    /\ goto(p, "sleep")
    /\ UNCHANGED <<memVars, idx, copied, loopVars, readData>>

WakeUp(p) ==
    /\ pc[p] = "sleep"
    /\ SleepCovers => pc[Peer(p)] \notin {"hello", "helloWait"}
    /\ statusOutSet(p, 0)
    /\ StartLoop(p)
    /\ UNCHANGED <<data, buffer, idx, copied, loop, bigloop, readData>>

-----------------------------------------------------------------------------
(* send_data: wait, copy, set the status *)

\* The status is set before the copy.
SendWait_mutant(p) ==
    /\ pc[p] = "sendWait"
    /\ inStatus(p) = idx[p]
    /\ idx' = [idx EXCEPT ![p] = Succ(@)]
    /\ statusOutSet(p, Succ(idx[p]))
    /\ goto(p, "copyOut")
    /\ UNCHANGED <<data, buffer, copied, loopVars, readData>>

SendWait(p) ==
    /\ pc[p] = "sendWait"
    /\ inStatus(p) = idx[p]
    /\ idx' = [idx EXCEPT ![p] = Succ(@)]
    /\ goto(p, "copyOut")
    /\ UNCHANGED <<memVars, copied, loopVars, readData>>

CopyOut(p, i) ==
    /\ pc[p] = "copyOut"
    /\ i \notin copied[p]
    /\ buffer' = [buffer EXCEPT ![p][i] = Source(p)[i]]
    /\ copied' = [copied EXCEPT ![p] = @ \cup {i}]
    /\ UNCHANGED <<status, data, pc, idx, loopVars, readData>>

Publish(p) ==
    /\ pc[p] = "copyOut"
    /\ copied[p] = Part
    /\ Ordered => buffer[p] = Empty
    /\ statusOutSet(p, idx[p])
    /\ copied' = [copied EXCEPT ![p] = {}]
    /\ AfterSend(p)
    /\ UNCHANGED <<data, buffer, idx, readData>>

\* A store becomes visible.
Drain(p, i) ==
    /\ buffer[p][i] # NoStore
    /\ data' = [data EXCEPT ![p][i] = buffer[p][i]]
    /\ buffer' = [buffer EXCEPT ![p][i] = NoStore]
    /\ UNCHANGED <<status, pc, idx, copied, loopVars, readData>>

-----------------------------------------------------------------------------
(* read_data: wait, copy, set the status *)

\* The wait comes before statusIdxAdd.
ReadWait_mutant(p) ==
    /\ pc[p] = "readWait"
    /\ inStatus(p) = idx[p]
    /\ idx' = [idx EXCEPT ![p] = Succ(@)]
    /\ goto(p, "copyIn")
    /\ UNCHANGED <<memVars, copied, loopVars, readData>>

ReadWait(p) ==
    /\ pc[p] = "readWait"
    /\ inStatus(p) = Succ(idx[p])
    /\ idx' = [idx EXCEPT ![p] = Succ(@)]
    /\ goto(p, "copyIn")
    /\ UNCHANGED <<memVars, copied, loopVars, readData>>

CopyIn(p, i) ==
    /\ pc[p] = "copyIn"
    /\ i \notin copied[p]
    /\ readData' = [readData EXCEPT ![p][i] = data[Peer(p)][i]]
    /\ copied' = [copied EXCEPT ![p] = @ \cup {i}]
    /\ UNCHANGED <<memVars, pc, idx, loopVars>>

Acknowledge(p) ==
    /\ pc[p] = "copyIn"
    /\ copied[p] = Part
    /\ statusOutSet(p, idx[p])
    /\ copied' = [copied EXCEPT ![p] = {}]
    /\ AfterRead(p)
    /\ UNCHANGED <<data, buffer, idx, readData>>

-----------------------------------------------------------------------------

Step(p) ==
    \/ SayHello(p) \/ SeeHello(p) \/ WakeUp(p)
    \/ SendWait(p) \/ Publish(p)
    \/ ReadWait(p) \/ Acknowledge(p)
    \/ \E i \in Part : CopyOut(p, i) \/ CopyIn(p, i)

Memory(p) == \E i \in Part : Drain(p, i)

Finished == \A p \in Proc : pc[p] = "done" /\ buffer[p] = Empty
Terminated == Finished /\ UNCHANGED vars

Next == (\E p \in Proc : Step(p) \/ Memory(p)) \/ Terminated

Spec == Init /\ [][Next]_vars

\* Both processes run, the spinning one yields (util.yield), and a store
\* does not stay in its buffer for ever.
FairSpec == Spec /\ \A p \in Proc : WF_vars(Step(p)) /\ WF_vars(Memory(p))

-----------------------------------------------------------------------------
(* Properties *)

Message == [Part -> Int]

TypeOK ==
    /\ status \in [Proc -> Status \cup {Hello, Zero}]
    /\ data \in [Proc -> Message]
    /\ buffer \in [Proc -> [Part -> Int \cup {NoStore}]]
    /\ pc \in [Proc -> {"hello", "helloWait", "sleep", "sendWait", "copyOut",
                       "readWait", "copyIn", "done"}]
    /\ idx \in [Proc -> Status]
    /\ copied \in [Proc -> SUBSET Part]
    /\ loop \in [Proc -> 1 .. LoopCount + 1]
    /\ bigloop \in [Proc -> 1 .. BigLoops]
    /\ sendData \in [Proc -> Message]
    /\ readData \in [Proc -> Message]
    /\ echoing \in BOOLEAN

\* A segment is not written while the other process copies from it, although
\* nothing but the two status bytes keeps them apart.
NoWriteWhileRead ==
    \A p \in Proc : pc[p] = "copyIn" =>
        pc[Peer(p)] # "copyOut" /\ (Ordered => buffer[Peer(p)] = Empty)

\* What a process has copied when it acknowledges is the other's message,
\* all of it, and none of an earlier one.
ReadsWholeMessage ==
    \A p \in Proc : (pc[p] = "copyIn" /\ copied[p] = Part) =>
        readData[p] = Source(Peer(p))

\* The status, of which only the index modulo StatusCount is seen, lets one
\* process at a time copy or prepare a message, once the handshake is done.
OneAtATime ==
    \A p \in Proc : pc[p] \in {"copyOut", "copyIn"} =>
        pc[Peer(p)] \in {"readWait", "done"}

\* The two count their iterations apart, but never drift: the client is in
\* the server's iteration, or already in its answer to it.
Round(p) == (bigloop[p] - 1) * LoopCount + loop[p]
InStep == Round("client") \in Round("server") .. Round("server") + 1

\* What lets a process go on: nothing, the peer's status, or in the sleep of
\* the handshake the time the peer needs; a barrier waits for the stores.
CanStep(p) ==
    \/ pc[p] \in {"hello", "copyIn"}
    \/ pc[p] = "helloWait" /\ inStatus(p) = Hello
    \/ pc[p] = "sleep" /\ (SleepCovers => pc[Peer(p)] \notin {"hello", "helloWait"})
    \/ pc[p] = "sendWait" /\ inStatus(p) = idx[p]
    \/ pc[p] = "copyOut" /\ (Ordered /\ copied[p] = Part => buffer[p] = Empty)
    \/ pc[p] = "readWait" /\ inStatus(p) = Succ(idx[p])

CanDrain(p) == buffer[p] # Empty

MissedHello(p) ==
    pc[p] = "helloWait" /\ pc[Peer(p)] \in {"sendWait", "readWait"}

\* The exchange cannot come to a standstill where both wait. Only a process
\* that missed the other's Hello, because that one's sleep was too short,
\* waits for ever, and the other then for it.
OnlyMissedHelloBlocks ==
    \/ Finished
    \/ \E p \in Proc : CanStep(p) \/ CanDrain(p)
    \/ ~SleepCovers /\ \E p \in Proc : MissedHello(p)

\* What a process has before it, in steps: each of the TotalRounds and the
\* client's last answer costs it no more than RoundCost.
TotalRounds == LoopCount * BigLoops
RoundCost == 3 * Cardinality(Part) + 4

StepsInRound(p) ==
    CASE pc[p] = "hello" -> RoundCost + 3
      [] pc[p] = "helloWait" -> RoundCost + 2
      [] pc[p] = "sleep" -> RoundCost + 1
      [] pc[p] = "sendWait" -> RoundCost
      [] pc[p] = "copyOut" -> 2 * Cardinality(Part \ copied[p]) + Cardinality(Part) + 3
      [] pc[p] = "readWait" -> Cardinality(Part) + 2
      [] pc[p] = "copyIn" -> Cardinality(Part \ copied[p]) + 1

StepsLeft(p) ==
    IF pc[p] = "done" THEN 0
    ELSE (TotalRounds + 1 - Round(p)) * RoundCost + StepsInRound(p)

Buffered(p) == Cardinality({i \in Part : buffer[p][i] # NoStore})

Remaining == StepsLeft("server") + StepsLeft("client")
             + Buffered("server") + Buffered("client")

\* Every step of either process or of the memory brings the end nearer, so
\* the exchange takes no more steps than the two have before them at first:
\* it cannot go round for ever, as it could where a status is taken twice.
EveryStepCounts ==
    [][Remaining' \in Nat /\ Remaining' < Remaining]_vars

\* Both processes come to the end of their loops.
BothFinish == <>Finished

\* AppSharedMemory's own words, "change data in every loop: TRUE".
DataChangesEveryLoop ==
    [][pc["server"] # "sendWait" /\ pc'["server"] = "sendWait" /\ useSetData
         => sendData'["server"] # sendData["server"]]_vars

-----------------------------------------------------------------------------
(* The abstract game *)

Waiting(p) == pc[p] \in {"readWait", "done"}
Holding(p) == pc[p] \in {"sendWait", "copyOut", "copyIn"}

at ==
    IF Holding("client") THEN "client"
    ELSE IF Waiting("server") /\ Waiting("client") /\ pc["server"] # "done"
         THEN IF status["server"] = Succ(idx["client"]) THEN "toClient"
              ELSE "toServer"
         ELSE "server"

Held(p) == IF pc[p] = "copyIn" THEN data[Peer(p)] ELSE readData[p]

ball ==
    CASE at = "server" -> Held("server")
      [] at = "toClient" -> data["server"]
      [] at = "client" -> Held("client")
      [] at = "toServer" -> data["client"]

\* With useSetData the client returns what it was sent.
Returned(caught, back) == useSetData => back = caught

Game == INSTANCE PingPong WITH at <- at, ball <- ball

\* The status bytes, copies and buffers come to a game of one ball.
PlaysPingPong == Game!Spec

\* Every message the server sends comes back.
SentComesBack == (at = "toClient") ~> (at = "server")
=============================================================================

# Luajit-Tcp-Server: verification project

TLA+ models of the two programs of this repository that have a life of their
own, the TCP server (`AppServer.lua`) and the shared memory exchange
(`AppSharedMemory.lua`), of the libraries they stand on, of the day arithmetic
of `lib_date_time.lua`, and theorems about them. TLC checks small instances,
TLAPS proves what is said to hold for every value of the constants.

The programs are written in Lua. The C headers under `c_include`, which make up
most of the repository's bytes, are declarations copied from operating systems
for `ffi`; they hold no behaviour and nothing is modelled from them.

## The system

The repository is a set of LuaJIT programs and libraries over C functions that
are called through `ffi`. There are no threads inside a program except in
`TestThread.lua`; concurrency comes from the kernel and the clients (TCP) and
from the second process (shared memory).

| Component | State | Operations | What makes it correct |
|---|---|---|---|
| TCP server, `AppServer.lua` | counters, buffers; one thread | main loop, in/close/error callbacks, accept loop, `answer`, `close` | every request is answered once, no descriptor is leaked or closed for a live client, and a client that behaves can neither block nor end it |
| Poll table, `lib_poll.lua` | C array of `pollfd`, `nfds`, `fdsListSize`, counters | `add_fd`, `remove_fd`, `remove_all`, `poll` | the table is what is open; events go to the descriptor they were reported for although callbacks rearrange the array; no access outside the array |
| Socket wrappers, `lib_tcp.lua`, `lib_socket.lua` | none | `listen`, `accept`, `recv`, `send`, `close`, `cleanup` | errors are told apart as the callers do |
| Shared memory exchange, `AppSharedMemory.lua` | `statusIdx`, `sendData_c`, `readData_c`, loops; two processes | handshake, `send_data`, `read_data`, loops | a message is read whole, never while it is written; the two stay in step and both end |
| Shared memory library, `lib_shared_memory.lua` | mapped segments, file descriptors, names | create, connect, disconnect, destroy, `mmapOutWrite`, `mmapInRead`, status waits | a segment is created once and found by its peer; copies stay inside; status after data |
| Threads, `lib_thread.lua` | Lua states, threads | create, exit, join, delete | a state is not deleted while its thread runs |
| Signals, `lib_signal.lua` | blocked set | `signalHandlerSet`, `signalWait`, `signalSend` | a signal sent is a signal taken, unless one is pending |
| Dates, `lib_date_time.lua` | none | conversions | conversions are inverse to each other |
| Utilities, `lib_util.lua` | none | clocks, sleep, formatting, `numStringLength` | digits match the number |
| kqueue, HTTP, FFI generator, FFI declarations, tests, vendored code | | | see PROJECT.json |

**How they interact.** `AppServer` registers callbacks with `lib_poll`; the
loop in `poll.poll` walks over the array while the callbacks add entries at its
end (accept) and move the last entry into holes (close). The server's socket
calls are answered by the kernel, where clients act at any time. The two
processes of `AppSharedMemory` share two segments, each written by one process
and read by the other: a status byte, then the data. There is no lock; a
process spins until it reads the status it waits for.

**What is hard.** Events that are dispatched from an array that changes under
the loop; descriptors that are closed and given out again; clients that act
between a poll and the `recv` it led to; uncaught errors; the status byte that
counts modulo 64 and is the only thing that keeps the two copies apart; the
order in which stores become visible; a handshake that rests on a sleep. The
list, line by line, is "hazards" in PROJECT.json.

## Modules

| Module | Models | Notes |
|---|---|---|
| `RequestService` | nothing in the code: what the server promises to its clients, who may send ahead | per client where the conversation is (`talk`) and how many requests are still to be answered (`owed`), and whether the server is up |
| `EventLoop` | nothing in the code: what `poll.poll` promises to the callbacks | the descriptors that are watched, those that are ready, those still to be called in this round, and the one whose callback runs |
| `LibPoll` | the table of `lib_poll.lua` | `fds`, `nfds`, `fdsListSize`, `fdAddCount`, `fdRemoveCount` have the code's names; `add_fd` and `remove_fd` are actions on them. A removal leaves the old `revents` and the old last slot behind, as the code does |
| `Sockets` | the kernel and the clients, from how the code uses them | `owner` (descriptor table), `conn`, `peer`, and counts of requests and answers per connection |
| `AppServer` | `AppServer.lua` and the loop of `poll.poll`, over the two above | one action per stretch of code between two system calls: `Poll`, `Readable`/`Hangup` (the dispatch), `Accept`, `AcceptEnd`, `Recv`, `RecvClose`, `Send`, ...; refines `RequestService` and `EventLoop` |
| `LibPoll_proofs` | lemmas: what each operation does to the table | |
| `AppServer_proofs`, `AppServerClients_proofs`, `AppServerLoop_proofs` | theorems about the server: its table and sockets; its clients, and the service; the event loop | the second and third extend the first |
| `PingPong` | nothing in the code: what the exchange promises | two variables: where the ball is, and which message it is |
| `ShmPingPong` | `AppSharedMemory.lua` from the handshake to the end of the loops, over `mmap*` of `lib_shared_memory.lua` | statuses, segments, store buffers, and per process its counter, index, loops and buffers; refines `PingPong` |
| `ShmPingPong_proofs` | theorems about `ShmPingPong` | |
| `ShmSegments` | the program around that exchange: the life of the segments and their names over starts, crashes and restarts | the exchange is that of `loopCount` = 1: the handshake, one message and its answer |
| `ShmSegments_proofs` | theorems about `ShmSegments` | |
| `Calendar` | nothing in the code: the Gregorian calendar and the ISO week | |
| `DateTime` | the whole days of `lib_date_time.lua`, and a walk from day to day | refines `Calendar` |
| `DateTime_proofs` | theorems about `DateTime` | |
| `MCAppServer`, `MCShmPingPong`, `MCShmSegments`, `MCDateTime` | instances for TLC | constants and symmetry only |

Operators whose name ends in `_mutant` are wrong variants of the definition
that follows them (a forgotten move, an off-by-one, a swapped order). No
specification uses them. Each checked property is shown to be violated when one
of them takes the place of its original, so no property holds by the shape of
the model. The pairs are "mutants" in PROJECT.json.

### AppServer

The server is a sequence of steps `pc = poll -> scan -> accept | recv -> send`.
`pos` is the index of the loop in `poll.poll` (its `i - 1`), `bound` the `nfds`
Lua evaluated when the loop began. Between two steps clients may connect, send,
read, close or abort. An `error()` is caught nowhere: `Die` ends the process and
the kernel closes what it had open. There are three of them: a `poll` that fails
(`PollFails`), a `realloc` that fails when `accept` fills the table
(`AcceptDies`), and a `send` that fails (`SendFails`). `snap` is a history
variable, the entries as poll returned them.

A connection ends in one of two ways. After an orderly close (`Finish`, "fin")
the server still reads what was sent. A reset ("rst") throws it away; it comes
from a client that aborts (`Reset`, of the clients in `Aborting`), from a `close`
over an answer that was not read (`Finish` again), or later, at any time, from
the stack of a client that had closed before an answer reached it
(`ResetArrives`): also between the server's next `recv` and its `send`.

`lib_tcp.listen` makes the listening socket non-blocking (lib_tcp.lua:75), and
`accept` (lib_tcp.lua:122-155) does nothing to the socket it gives. Where that
inherits the flag (OS X, Windows) a `recv` with nothing to read and a `send` to
a full buffer fail; elsewhere they block. `NonBlocking` says which: without it
neither has a step, so a server that blocks stands still in the model, too.

Abstractions: a request fits one `recv`, an answer one `send`; a request is a
number; buffers are counts (`SendBuffer` unread answers fill a connection). What
`poll` reports on a connection that its client has left differs between systems:
`hup` and `mute` in `Revents` choose freely (POLLIN, POLLIN with POLLHUP,
POLLHUP or POLLERR alone). `accept` may give any free descriptor, or the lowest
(`LowestFd`). Descriptor 0 is taken to be in use (standard input). `out_callback`
is never called, since no event mask has POLLOUT. The set-up in `tcp.listen` is
the initial state; when it fails the program ends before it does anything.
`poll` with a timeout is a poll that may return 0 at any time with nothing
ready: time itself is not modelled.

The abstract service: `Talk(c)` is the conversation as its two ends see it,
"away" before the client connects, "here" while both are there, "left" once the
client has left (the server may still answer or have to notice) and "dropped"
when the server closed first; `Owed(c)` counts the requests of a client that is
here and has no answer to them, unread or in the server's hands; `up` is true
until the server leaves its loop or dies. Descriptors, events, the table and the
order in which it is walked are hidden. A client asks, up to `MaxOutstanding`
ahead of its answers; requests that are read together become one, since `answer`
sends once per `recv`; an answer takes one from what is owed; and a drop comes
only with an answer when `closeConnection` is set, or when the server ends.

The abstract event loop has no table, no positions and no kinds of events. It
waits until descriptors are ready, and in a round runs the callback of each
descriptor that was ready when the round began, once and in any order; then it
waits again. A callback may end the watch of its own descriptor, only that of
the listening socket may begin one, and a descriptor whose other end has hung
up is closed instead. `watched` is `Watched` and `ready` what
`poll` would report now; `todo` are the descriptors of the entries ahead of the
loop (`pos` to `bound - 1`) that `poll` reported an event for, and `now` is the
descriptor whose callback runs. That the mapping holds is the claim that walking
an array that changes under the walk neither leaves out an event nor delivers
one twice or to a descriptor that was given out again.

### ShmPingPong

A step is a wait that ends, one part of a copy, a status store, or one store
that becomes visible. `Part` cuts the data into parts that are copied in any
order. Each process has a store buffer for its data. With `Ordered` the status
becomes visible only after the data that was stored before it (x86: total store
order); without it data stores may be seen after the status. Stores to the
status are visible at once, so that a delay of the status is a delay of the
step. `SleepCovers` says that the sleep of the handshake is long enough:
`connectSleepMs + 200` is there "so that another process can catch us"
(AppSharedMemory.lua:248).

A message is a number. `sendData_c` starts as "srv-000" (0); `send_data_set`
writes the digits of `loop` over the last digits of what is there, which is
`overwrite`, and `numStringLength` is the code's table of limits (`Powers`).
`sendData_c = readData_c` is an alias, not a copy: from then on `Source` is the
process's read buffer (`echoing`). `useReply` is always true in the code
(`arg[3] == "r" or true`). The error returns of `mmapOutWrite` and `mmapInRead`
cannot happen with these calls: the position is 0 and the length, that of
"srv-" and a number, is far below the segment's. The README's words on this
program have the roles the other way round ("Client sends a message to server
and waits for an answer. Server copies read message to send buffer",
src/README.md:69): in the code the server begins and the client returns what it
read.

The abstract game: `at` is derived from the program counters and the one status
that is visible, `ball` from the segment or buffer the message is in.

### ShmSegments

A process is `<<role, n>>`, the n-th start of the server or the client; it is
also the identity of the segment it creates. `name` is what `shm_open` would
find, `status` the status byte, `seen` the segment a process has mapped. A
mapping outlives its name, as in the kernel. `faults` is a history variable:
properties that hold only while nothing went wrong say so with it ("crash",
"twice": a program started while it was running, "early": started while the
partner of the previous run was still to unlink names, "unsized": a segment
opened before its creator gave it a size, "shortage": a creator that got no
memory).

| Action | Code |
|---|---|
| `Create` | `shm_open` with `O_CREAT` and `O_EXCL` |
| `Refused` | its failure: `shared_memory_clear` unlinks the name that was in the way, whosever it is by now, and the program exits |
| `Truncate` | `ftruncate`, `mmap`, `ffi.fill`; the fill writes zeroes over zeroes that nobody else writes |
| `TruncateFails` | `ftruncate` or the creator's `mmap` fails: `shared_memory_clear` unlinks the name, and the program exits. Who has opened the segment in the meantime keeps it |
| `Connect` | `mmapInConnect`, retried until the name is there |
| `Map`, `MapUnsized` | its `mmap`; before the peer's `ftruncate` it fails (OS X) and unlinks the peer's name, or succeeds (Linux), and the first access is `AccessFault` |
| `SetHello`, `AwaitHello`, `SetReady` | the handshake; the sleep before `SetReady` is longer than the peer takes to look, once it has shown its Hello |
| `Serve`, `Read`, `Answer`, `ReadAnswer` | one message and its answer: each `send_data` and `read_data` with the status it waits for and the one it sets |
| `Disconnect` | the reader unlinks the writer's name |
| `Destroy` | and, 500 ms later, its own |
| `Crash` | the process is killed; its name and segment stay |

The program is taken to be run as root (AppSharedMemory.lua:32 demands it of
Linux): for other users the mode 755, which is decimal, gives no right to read.
File descriptors, sizes and addresses are left out (see the hazard at
lib_shared_memory.lua:248). The connecting side's `mmap` fails in the model only
on a segment without a size: for lack of memory only creators fail.

What holds without faults is stronger than what holds with them, and the
properties say which. After a crash a handshake need not be mutual: a client
sets 0 and is killed while the server sleeps, the next client is refused and
removes the name, and a third one connects to the Hello that the sleeping server
still shows, while the server serves the 0 of the first. After a start that was
too early, a name can be unlinked under a process that nobody has met.

### DateTime

A date is a day number, and `num` walks from 1 January of `FirstYear` one
`daysAdd(num, 1)` at a time, as `toSecondsFromDayEnd` does. `WalksTheCalendar`
is a refinement: year, month and day are `numToDate(num)`, the day of the year
is a difference of two `dateToNum`, and the weekday `num % 7`. The other
properties are about every day reached: `dateToNum` undoes `numToDate` (which is
`daysAdd` of no days), `daysAdd` and `ymdAdd` are right although they hand
`dateToNum` days and months that do not exist, and `numToWeek` is the ISO week.

Only whole days are modelled. The time of day is the fraction of a double:
`toTime` (lib_date_time.lua:175) cuts fractions `timeToNum` cannot represent, so
that 00:00:11 comes back as 00:00:10. That takes IEEE arithmetic, which TLC's
integers of 32 bits cannot do; it is listed as a hazard without a property.

## Runs

| Run | Bounds | Shows |
|---|---|---|
| `server_core` | 3 connections, 4 descriptors, array of 2 growing by 2, 1 request each, aborts, failing `poll` and `realloc` (1.9 million states) | types; the table is exactly the open sockets; array accesses stay inside; each event goes to its descriptor, and is served before the loop goes on; it stays at no entry for ever; the counters tell how many sockets are open; the array is never a whole growth larger than the descriptors need; the errors that end the process are those of `poll`, `realloc` and `send`, and `remove_fd`'s is never reached |
| `server_stop` | the same with `closeConnection` and a loop that ends after 2 input events (230 thousand states) | nothing is left open at the end; the refinement of `EventLoop`, with callbacks that close their own descriptor |
| `server_polite` | 3 clients that wait for their answers, 1 or 2 requests each, one that may abort; sockets that block; 2 descriptors for the three, given in any order (630 thousand states) | one answer for each request; who does not abort can neither block nor end the server; no live client is closed; the refinement of `RequestService` |
| `server_live` | a client that sends 2 requests ahead of a send buffer of 1 and may abort, and two that come and go; 2 descriptors for the three; fair server (230 thousand states) | requests are read and left connections closed although descriptors run short; waiting clients are accepted unless every descriptor is held by a client that is there; the two cannot block or end the server whatever the third does; the refinement of `RequestService` with requests that are read together |
| `server_served` (violation) | as above, small | the loop does not "break as soon as possible" |
| `server_stats` (violation) | a loop that ends | the statistics are those of a cleared table |
| `shm_core` | 3 statuses, 3 iterations, 2 big loops, 2 parts, `Ordered`, `SleepCovers`, fair | types; the refinement of `PingPong`; no race on a segment; whole messages; the two stay in step; both end; each message comes back |
| `shm_hurry` | the same, with neither assumption and without `useSetData` | one process at a time copies; only a missed Hello leads to a standstill; every step lowers a measure |
| `shm_weak` (violation) | not `Ordered` | a message is acknowledged that was not read whole |
| `shm_digits` (violation) | 11 iterations, 2 big loops | the "changing" data does not change |
| `shm_segments` | 3 starts of the server, 2 of the client, at most 3 processes at a time, one of which may be killed anywhere or get no memory for its segment; fair (230 thousand states) | handshakes are mutual; refused starts have deaths that explain them; names are found until they were met; two that start afresh, and two that are connected, are never both stuck; every step lowers a measure; under fairness the first connect and the others finish |
| `date_walk` | every day from 1900 to 2299 (146,098 states) | the refinement of `Calendar`; conversions, sums and weeks |

**Why the bounds are enough.** The faults the server properties are about need
an entry at the event loop's position, one behind it that is moved, and one
ahead: three connections besides the listening socket, and a table that must
grow with three entries in it, or cannot. (With two connections a `remove_fd`
that shifts the entries is not noticed; with three it is.) A second request
shows what a connection keeps from the first: it is what a reset that is under
way since the first answer can hit. Two descriptors for three clients make one
wait for what another gives back. In the exchange the status matters only
through equality with an index, its successor and that one's successor, so 3 is
the smallest count that can work and the hardest; that it suffices for every
larger one is proved. Two parts give every order of a torn copy; 3 iterations
give a first, a middle and a last one, and 2 big loops the passage between them.
Three starts of the server are a run that crashed, the one that is refused for
it and one that finds the way free; two clients make one that met the earlier
server and one that did not. Four hundred years are the calendar's period, after
which everything repeats, 20871 whole weeks later.

`CHECK_DEADLOCK FALSE` is set in `shm_hurry`, where the two processes really may
wait for each other for ever (what may lead there is the property
`OnlyMissedHelloBlocks`), in `shm_segments`, where a process waits for ever for
a partner that was killed or is never started and all may be over, and in
`date_walk`, which ends with its last year. Elsewhere TLC checks that nothing
stops before its end: `Ended` and `Terminated` are the stuttering steps of a
program that is over.

**Fairness.** `AppServer`: weak fairness of the server's next step. It is one
thread that the operating system schedules, and its steps do not wait for a
client: `poll` has a timeout, the listening socket is non-blocking, and so are
the accepted ones where they inherit that (`NonBlocking`, as in `server_live`),
which is on OS X and Windows; on Linux `AppServer` does not work
(src/README.md:154), and `accept` would give it sockets that block. There too
the server only blocks on a client that sends ahead and does not read:
`PoliteClientsCannotStopIt` says that the others' `recv` and `send` never wait.
The clients have no fairness: they may stop at any time. `ShmPingPong`: weak
fairness of each process (both run; the one that spins calls `yield`) and of
each store buffer (a store becomes visible in the end). `ShmSegments`: weak
fairness of each process that runs; nobody has to start one, and nothing has to
crash.

## Findings

1. `served` is never counted, so the loop in `poll.poll` does not "break ... as
   soon as possible" (lib_poll.lua:299, 307). Harmless but for the time it
   takes.
2. The statistics at the end of `AppServer` are printed after `remove_all` has
   zeroed them (AppServer.lua:291-298) when connections were open.
3. There is no barrier between the data and the status
   (lib_shared_memory.lua:508, 556-561). On x86 this works, as `shm_core` and
   the theorems show; on the ARM machines README.md:108 has in mind it does not.
4. "change data in every loop: TRUE" is not true from the second big loop on
   when `loopCount` ends in 1 (11, 21, ...): the 1 of the new big loop is written
   over the last digit of the number the old one ended with, and the message is
   the one before (AppSharedMemory.lua:171-176).

What holds only under an assumption, without a claim in the code to the
contrary: `OneAnswerEach` gives one answer for each request only to clients that
wait for their answers, because `answer` sends once per `recv` (others get no
more than they asked for). The server can be ended through an uncaught error by
a client that aborts, or that sends its requests ahead of the answers and then
leaves or does not read (`send`), by a signal (`poll`) and by a lack of memory
(`realloc`). A client that does none of this cannot
(`PoliteClientsCannotStopIt`), although it may leave with an answer under way:
it has then no request left for which a second `send` would be made.

## Proofs

Every safety property that a passing run checks is also a theorem, for every
value of the constants that the named assumptions allow.

### The server

`ServerAssumption`, `SocketAssumption` and `TableAssumption`: any clients, any
finite set of descriptors (a process has a limit; 0 is in use), any step in
which the table grows, any number of requests of each client, sent any number
ahead of the answers, any clients that abort, sockets that block or do not, with
or without interrupts, a `realloc` that fails, `closeConnection` and an end of
the loop.

| Theorem (`AppServer_proofs`) | States |
|---|---|
| `TypeCorrect` | `Spec => []TypeOK` |
| `WatchesWhatIsOpen` | `Spec => []TableIsOpenSockets` |
| `TableMemoryIsSafe` | `Spec => []PollTableSafe` |
| `DispatchIsRight` | `Spec => []EventsStayWithTheirFd` |
| `EndClosesAll` | `Spec => []ShutdownClosesAll` |
| `OnlyKnownErrors` | `Spec => ErrorsAreKnown` |

| Theorem (`AppServerClients_proofs`) | States |
|---|---|
| `AnswersMatchRequests` | `Spec => []OneAnswerEach` |
| `EveryEventIsServed` | `Spec => EventsAreServed` |
| `LiveClientsAreKept` | `Spec => NoSpuriousClose` |
| `PoliteClientsAreHarmless` | `Spec => []PoliteClientsCannotStopIt` |
| `ServerServes` | `Spec => ServesRequests` |

| Theorem (`AppServerLoop_proofs`) | States |
|---|---|
| `EventsAreDispatched` | `Spec => DispatchesEvents` |

The argument. `LibPoll_proofs` says of each operation what it does to the
entries: `SearchFinds` (a linear search finds what is there and nothing else),
`AddFd` (an entry appended, memory grown before it is written), `RemoveFd` (the
last entry moved into the hole, all others in place). Over these the inductive
invariant `IInv` has six parts. `SocketInv`: an open connection has one
descriptor. `ListenInv`: the listening socket is entry 0 until the loop ends.
`TableInv`: live entries have different descriptors, which are the open ones,
and the counters' difference is their number. `LoopInv` is what dispatching
rests on: **the entries from `pos` on are as poll left them**. A callback closes
only the descriptor of the entry the loop is at; that descriptor's entry is at
`pos` or, when the entry at `pos` is an old one behind the shortened array,
before it (`EntryIsBehind`), so the hole that the last entry fills is not ahead.
And only entry 0, the listening socket, accepts, before anything was closed
(`pos = 0 => nfds >= bound`), so what is appended is behind `bound`.
`SnapInv` says what poll may have reported.

`CInv` adds what the clients see. `EventInv`: events that are still to be
dispatched are not stale, which follows from the entries' staying in place and
from a client's being read only at its own entry. `AnswerInv`: the requests of a
client are answered, in the server's hands (`InFlight`) or unread, and of a
client that waits, all of them are accounted for. `ReachInv`: the connection of
a client that does not abort is reset only over an answer it has not read. From
the two follows what `PoliteClientsAreHarmless` says of `send` (`PoliteIsSent`):
an answer in hand belongs to a request that has none; if the client has not sent
ahead it has read all the answers to the others, so nothing fills its buffer and
nothing of it can have caused a reset. For `recv`, `EventInv` says that there is
something to read or the client has left. `EventsAreServed` completes
`EventsStayWithTheirFd`: as the entry at `pos` is the one poll returned
(`EntryIsSnap`), the step that leaves it is that of its own callback, which ends
with an answer or a close (`EntryIsServed`). The refinement goes step by step: a
step moves one client along (`ClientServed`, `RecvServed`, `AnswerServed`),
changes nothing they see (`NobodySpeaks`), or ends the service; `RecvServed` is
where several requests become one, and `DebtIsBounded` keeps what is owed in the
service's bound.

Two bounds rest on a bijection between entries and open sockets
(`EntriesAreSockets`), which is also why the counters tell how many are open:
the array grows only when it is full, so however many connections come and go it
has less than one growth of room beyond the number of descriptors (`SizeInv`).
And the loop stays at an entry only as long as a natural number allows that
counts what the entry's callback has left to do (`StaysShort`): while connections
are accepted, descriptors that are free.

The refinement of `EventLoop` takes two more invariants. `AsksInv`: each entry
is watched for POLLIN, through all that is added and moved, so what `poll`
reports is what is ready and nothing is left out. `DeadInv`: a process that has
ended has nothing open. The steps map as follows: `Poll` to `Wait`, `Readable`
to `Begin`, `Accept` to `Watch`, `AcceptEnd`, `RecvClose` and `Send` to
`Finish`, `Hangup` to `Discard`, the end of the scan to `Turn`, a failure of
`poll`, `realloc` or `send` to `Abort`, the removal of all entries at the end to
`Close`, and what clients do to a change of what is ready. An entry without an
event is passed by a stutter. The step that matters is `Finish` with a close:
`remove_fd` fills the hole at or before `pos` from the end of the array, and
that the entries ahead, and with them `todo`, are the same afterwards is
`LoopInv`.

`EventsAreServed` and `DispatchesEvents` are the safety halves of
`RequestsAreRead`, `LeftIsClosed` and `ConnectsAreAccepted`: what was ready when
a round began is dealt with before the round ends, and no entry holds the round
up. What is left to TLC is that a fair server goes on from one round to the next.

### The exchange

For every `StatusCount >= 3`, `LoopCount`, `BigLoops` and set of parts
(`ShmAssumption`; the code has 64 statuses and numbers of up to 9 digits):

| Theorem (`ShmPingPong_proofs`) | Assumes | States |
|---|---|---|
| `TypeCorrect` | - | `Spec => []TypeOK` |
| `TurnsAreTaken` | - | `Spec => []OneAtATime` |
| `TheyStayInStep` | - | `Spec => []InStep` |
| `SegmentsAreNotRaced` | `Ordered` | `Spec => []NoWriteWhileRead` |
| `MessagesAreReadWhole` | `Ordered` | `Spec => []ReadsWholeMessage` |
| `Refinement` | `Ordered` | `Spec => PlaysPingPong` |
| `NoStandstill` | - | `Spec => []OnlyMissedHelloBlocks` |
| `NoStepIsWasted` | - | `Spec => EveryStepCounts` |

None of them assumes `SleepCovers`; in `OnlyMissedHelloBlocks` it is part of the
property.

The argument. `TypeOK` is not inductive: that the server never starts an
iteration past `LoopCount` (`LoopBound`) is needed for the bound on `loop` and
for the numbers it writes to have a length (`OverwriteIsNumber`). `OneAtATime`
rests on `Turns`: either the handshake is not over, and then both indices are 0
and every status says where its process is; or one process is idle, with its
status equal to its index, and the other is at one of four places relative to it
(`HasTurn`). From `Turns` the waiter cannot pass its wait before the other sets
its status (`WaiterWaits`), which needs only that `Succ` has no cycle of length
1 or 2 (`SuccFacts`): that is where `StatusCount >= 3` is used. `InStep` is not
inductive either: `StepInv` says exactly when the client is one iteration ahead
(`Late`), and the answer outside the inner loop is iteration `LoopCount + 1`,
which is the first of the next big loop (`NextBigLoop`). `DataInv` says
what is in the segments and buffers: stores are under way only while their
process copies, and a message that is offered is whole in its segment; it needs
`Ordered` in the step that sets the status. `GameInv` adds what ties the end of
the loops and the client's alias to the game, and `GameNext` maps each step to a
step of the game or to none.

The last two are what the prover can say of `BothFinish`. Until both have ended
some process can step or some store can drain, and each such step lowers
`Remaining`, a natural number: so no behaviour goes on for ever, and none stops
before the end unless a Hello was missed. Only the passage from there to
`<>Finished`, which needs fairness, is TLC's. `NoStandstill` speaks of what the
code waits for at each place (`CanStep`, `CanDrain`), as the prover has no
`ENABLED`. The measure
counts rounds, then places in a round, then parts still to copy and stores still
to drain, and needs the parts to be finitely many (`ShmAssumption`), as bytes
are.

### The segments

For any number of starts, crashes and creations that fail (`StartsAssumption`,
`NoneAssumption`):

| Theorem (`ShmSegments_proofs`) | States |
|---|---|
| `SegmentTypes` | `Spec => []TypeOK` |
| `HandshakesAreMutual` | `Spec => []HandshakeIsMutual` |
| `NamesAreFound` | `Spec => []FindableUntilMet` |
| `RefusalsAreExplained` | `Spec => []RefusalsHaveDeaths` |
| `PartnersAreNotStuck` | `Spec => []PartnersGoOn` |
| `StartersAreNotStuck` | `Spec => []StartersGoOn` |
| `NoStepIsWasted` | `Spec => EveryStepCounts` |

`SegInv` has a part for each kind of luck. Without a crash, a lack of memory and
a double start (`Clean`), one process of each role runs, names are those of
running processes, and links are mutual because a process that disconnects takes
the name of its partner along (`OneEach`, `Links`). Without any fault nothing
that was seen is lost (`NotLost`). `DeathInv` holds through crashes and
creations that fail, which take their name away: a dead process whose name is
left, or a refused start that has yet to remove it, is one death that no failed
start has used up.

`PartnersAreNotStuck` and `StartersAreNotStuck` are the safety halves of
`PartnersFinish` and `BothConnect`. Their invariant `WaitInv` says who waits for
whom: the status byte of a process tells where it is (`StatusFits`), two
partners are at places that follow each other (`InPhase`), and what one has seen
the other show stays shown until it has answered. `PhaseGoesOn` reads off that
of two in phase one can step. That a process is not left waiting for a partner
that has ended is part of it: its last status outlives it in the segment.

`NoStepIsWasted` is the other half of termination. A program only goes forward,
except that a connect which found a segment without a size unlinks its name and
starts anew, so a count of the steps ahead does not do. `Remaining` also counts,
twice, who may yet meet whom (`MayMeet`: a process of the other role that is not
started, has its name, or has just been found). The step back adds one step
ahead and takes a meeting away for good, since whoever was found without a size
has started and has now lost its name (`MeetStep`); every other step takes a
step ahead and adds no meeting. With the two theorems before it no process tries
for ever and two partners do not stop: what is left to TLC is the passage to `~>`
under fairness.

### The days

For any first year (`DateTimeAssumption`), over the integers:

| Theorem (`DateTime_proofs`) | States |
|---|---|
| `CalendarIsWalked` | `Spec => WalksTheCalendar` |
| `DatesComeBack` | `Spec => []NumbersComeBack` |
| `DaysAreAddedAlways` | `Spec => []DaysAreAdded` |
| `MonthsCarryAlways` | `Spec => []MonthsCarry` |
| `WeeksAreRight` | `Spec => []WeeksAreIso` |

`MonthsCarry` is about every day of a month and every number of years and
months, dates past the end of the month included: `DaysCountOn` says that
`dateToNum` counts on from the first (31 April is 1 May).

Years are counted from March, so that the leap day is the last one
(`MarchDate`), and the divisions of `numToDate` are undone one by one: the
century, the year in it, the month (`CenturyFound`, `YearFound`, `MonthFound`).
The week is that of the day's Thursday (`WeekOfThursday`). The divisions of
`numToWeek`, by 400, 100, 4 and 1 years, would take the last day of a cycle for
a first, but that day is never a Thursday (`FoursTaken`). Lua's numbers are
doubles: the theorems are about the code as long as these hold the products and
quotients well enough for `math.floor`, which is so far beyond any date in use.

### Only model-checked

Liveness, which rests on fairness and is out of the prover's reach:
`RequestsAreRead`, `LeftIsClosed`, `ConnectsAreAccepted`, `BothFinish`,
`SentComesBack`, `BothConnect`, `PartnersFinish`. Their safety halves are proved,
as said above.

## Not modelled

- Threads (`lib_thread.lua`, `TestThread.lua`): one test deletes two Lua states
  after a sleep; whether the threads have ended is a matter of clock time, with
  no synchronisation whose control could be checked.
- Signals (`lib_signal.lua`): three one-line functions over `pthread_sigmask`,
  `sigwait` and `kill`, tried by one test and given up by README.md:194.
- The time of day and the texts of `lib_date_time.lua` (floating point,
  formatting); `timeParse`, which is in another language's idiom and cannot run.
- In the socket wrappers, name resolution, socket options and the Windows
  branches: calls of the operating system without control of their own.
- In the shared memory library, the Windows branch, the coroutine variants and
  writing by append, which no program calls, and file descriptors.
- `lib_util.lua` but for `numStringLength`: formatting, clocks and helpers
  without state.
- `lib_http.lua` (unfinished, requires modules that are not there) and
  `lib_kqueue.lua` (used by a test only); the FFI generator and declarations,
  the C headers, tests, timing programs and vendored code.

## Plan

Done: the server with its table and sockets, the service it implements and the
theorems about both; the exchange, the game it implements and its theorems; the
life of the segments with crashes and restarts; the days.

Left, in this order:

1. The time of day in exact arithmetic: numbers as multiples of 2^-k in a module
   over the integers, so that which times of a day survive `toTime` can be
   proved rather than counted.
2. `ShmSegments` with the whole exchange of `ShmPingPong` in the place of its
   single loop: the composition of the two, which now meet in the handshake.
3. A lack of memory on the connecting side, where `mmap` fails on a segment that
   has a size and its name is unlinked under the creator: each such failure
   multiplies the states of `shm_segments`.

---------------------------- MODULE ShmSegments ----------------------------
(***************************************************************************)
(* The life of the two shared memory segments of AppSharedMemory.lua, over *)
(* lib_shared_memory.lua: the program is started, creates its own segment, *)
(* connects to the other's, plays, disconnects and destroys, and is        *)
(* started again, possibly after it crashed, possibly too early.           *)
(*                                                                         *)
(* A process is known by its role and by the number of its start, and the  *)
(* segment it creates by the process. A name is what shm_open finds: it is *)
(* the role's, and stays when its process does not unlink it; a mapping    *)
(* stays good when the name is gone. The exchange is that of loopCount = 1 *)
(* (argument 5): the handshake, one message and its answer. ShmPingPong    *)
(* models longer ones.                                                     *)
(***************************************************************************)
EXTENDS Integers, FiniteSets

CONSTANTS
    ServerStarts,   \* how often each program is started
    ClientStarts,
    MaxFailures,    \* bound: processes that are killed or get no memory
    MaxRunning,     \* bound: processes that run at a time
    None            \* a name that is not there

ASSUME StartsAssumption ==
    /\ ServerStarts \in Nat \ {0}
    /\ ClientStarts \in Nat \ {0}
    /\ MaxFailures \in Nat
    /\ MaxRunning \in Nat \ {0}

Role == {"server", "client"}
Server == {"server"} \X (1 .. ServerStarts)
Client == {"client"} \X (1 .. ClientStarts)
Proc == Server \cup Client
RoleOf(p) == p[1]
Other(r) == IF r = "server" THEN "client" ELSE "server"

ASSUME NoneAssumption == None \notin Proc

VARIABLES
    name,     \* Role -> the process whose segment has the role's name
    status,   \* Proc -> status byte of its segment, Absent before it has one
    pc,       \* Proc -> where the process is
    seen,     \* Proc -> whose segment it connected to last
    faults    \* history: what went wrong so far

vars == <<name, status, pc, seen, faults>>

\* A segment that was not made; one that has no size yet; zeroes; '@'. The
\* indices follow: 0 is 'A'.
Absent == -4
Unsized == -3
Zero == -2
Hello == -1

Out == {"new", "failed", "unmade", "ended", "dead"}
Running(p) == pc[p] \notin Out

At(p, l) == pc[p] = l

\* Mapped to the segment of the other process, which is then seen[p].
Connected(p) ==
    pc[p] \in {"hello", "await", "sleep", "first", "reply", "last", "disconnect"}

Init ==
    /\ name = [r \in Role |-> None]
    /\ status = [p \in Proc |-> Absent]
    /\ pc = [p \in Proc |-> "new"]
    /\ seen = [p \in Proc |-> None]
    /\ faults = {}

goto(p, l) == pc' = [pc EXCEPT ![p] = l]
statusOutSet(p, s) == status' = [status EXCEPT ![p] = s]
inStatus(p) == status[seen[p]]

shm_unlink(r) == name' = [name EXCEPT ![r] = None]

MayFail == Cardinality({p \in Proc : pc[p] \in {"unmade", "dead"}}) < MaxFailures

-----------------------------------------------------------------------------
(* mmapOutCreate *)

\* What may be wrong with a start: one of the same role is still running;
\* the partner of an earlier one is, and has names to unlink.
StartFaults(p) ==
    {f \in {"twice", "early"} : \E q \in Proc :
        \/ f = "twice" /\ RoleOf(q) = RoleOf(p) /\ Running(q)
        \/ f = "early" /\ RoleOf(q) # RoleOf(p) /\ (Connected(q) \/ At(q, "destroy"))}

\* "delete client send buffer" (commented out in the code): the server
\* begins by removing the client's name.
Create_mutant(p) ==
    /\ At(p, "new")
    /\ \A n \in 1 .. p[2] - 1 : ~At(<<p[1], n>>, "new")
    /\ Cardinality({q \in Proc : Running(q)}) < MaxRunning
    /\ faults' = faults \cup StartFaults(p)
    /\ IF name[RoleOf(p)] = None
       THEN /\ name' = [r \in Role |-> IF r = RoleOf(p) THEN p
                                       ELSE IF RoleOf(p) = "server" THEN None
                                       ELSE name[r]]
            /\ statusOutSet(p, Unsized)
            /\ goto(p, "truncate")
       ELSE goto(p, "refused") /\ UNCHANGED <<name, status>>
    /\ UNCHANGED seen

\* shm_open with O_CREAT and O_EXCL
Create(p) ==
    /\ At(p, "new")
    /\ \A n \in 1 .. p[2] - 1 : ~At(<<p[1], n>>, "new")
    /\ Cardinality({q \in Proc : Running(q)}) < MaxRunning
    /\ faults' = faults \cup StartFaults(p)
    /\ IF name[RoleOf(p)] = None
       THEN /\ name' = [name EXCEPT ![RoleOf(p)] = p]
            /\ statusOutSet(p, Unsized)
            /\ goto(p, "truncate")
       ELSE goto(p, "refused") /\ UNCHANGED <<name, status>>
    /\ UNCHANGED seen

\* The process exits without shared_memory_clear.
Refused_mutant(p) ==
    /\ At(p, "refused")
    /\ goto(p, "failed")
    /\ UNCHANGED <<name, status, seen, faults>>

\* shared_memory_clear unlinks the name that was in the way, whosever it is
\* by now, and the program exits.
Refused(p) ==
    /\ At(p, "refused")
    /\ shm_unlink(RoleOf(p))
    /\ goto(p, "failed")
    /\ UNCHANGED <<status, seen, faults>>

\* The segment starts with Hello in it.
Truncate_mutant(p) ==
    /\ At(p, "truncate")
    /\ statusOutSet(p, Hello)
    /\ goto(p, "connect")
    /\ UNCHANGED <<name, seen, faults>>

\* ftruncate makes the segment, of zeroes; filling it with zeroes again
\* changes nothing, as only this process writes it.
Truncate(p) ==
    /\ At(p, "truncate")
    /\ statusOutSet(p, Zero)
    /\ goto(p, "connect")
    /\ UNCHANGED <<name, seen, faults>>

\* ftruncate fails, or mmap after it: shared_memory_clear unlinks the name and
\* the program exits. Who has opened the segment before keeps it.
TruncateFails(p) ==
    /\ At(p, "truncate")
    /\ MayFail
    /\ UNCHANGED status \/ statusOutSet(p, Zero)
    /\ shm_unlink(RoleOf(p))
    /\ goto(p, "unmade")
    /\ faults' = faults \cup {"shortage"}
    /\ UNCHANGED seen

-----------------------------------------------------------------------------
(* mmapInConnect, repeated until it succeeds *)

\* The names are swapped: a process connects to its own segment.
Connect_mutant(p) ==
    /\ At(p, "connect")
    /\ name[RoleOf(p)] # None
    /\ seen' = [seen EXCEPT ![p] = name[RoleOf(p)]]
    /\ goto(p, "map")
    /\ UNCHANGED <<name, status, faults>>

\* shm_open; without a name it sleeps and tries again.
Connect(p) ==
    /\ At(p, "connect")
    /\ name[Other(RoleOf(p))] # None
    /\ seen' = [seen EXCEPT ![p] = name[Other(RoleOf(p))]]
    /\ goto(p, "map")
    /\ UNCHANGED <<name, status, faults>>

Map(p) ==
    /\ At(p, "map")
    /\ inStatus(p) # Unsized
    /\ goto(p, "hello")
    /\ UNCHANGED <<name, status, seen, faults>>

\* It tries again although the other's name is still there.
MapUnsized_mutant(p) ==
    /\ At(p, "map")
    /\ inStatus(p) = Unsized
    /\ faults' = faults \cup {"unsized"}
    /\ goto(p, "connect") \/ goto(p, "hello")
    /\ UNCHANGED <<name, status, seen>>

\* Between the other's shm_open and its ftruncate there is nothing to map:
\* mmap fails (OS X), shared_memory_clear unlinks the other's name and the
\* process tries again; or mmap succeeds (Linux).
MapUnsized(p) ==
    /\ At(p, "map")
    /\ inStatus(p) = Unsized
    /\ faults' = faults \cup {"unsized"}
    /\ \/ shm_unlink(Other(RoleOf(p))) /\ goto(p, "connect")
       \/ goto(p, "hello") /\ UNCHANGED name
    /\ UNCHANGED <<status, seen>>

-----------------------------------------------------------------------------
(* The handshake and an exchange of one loop *)

SetHello(p) ==
    /\ At(p, "hello")
    /\ statusOutSet(p, Hello)
    /\ goto(p, "await")
    /\ UNCHANGED <<name, seen, faults>>

\* mmapStatusInWait
AwaitHello(p) ==
    /\ At(p, "await")
    /\ inStatus(p) = Hello
    /\ goto(p, "sleep")
    /\ UNCHANGED <<name, status, seen, faults>>

\* The first access to memory that was mapped without having a size.
AccessFault(p) ==
    /\ At(p, "await")
    /\ inStatus(p) = Unsized
    /\ goto(p, "dead")
    /\ faults' = faults \cup {"crash"}
    /\ UNCHANGED <<name, status, seen>>

\* The sleep is left out.
SetReady_mutant(p) ==
    /\ At(p, "sleep")
    /\ statusOutSet(p, 0)
    /\ goto(p, "first")
    /\ UNCHANGED <<name, seen, faults>>

\* The sleep is longer than the process whose Hello was seen takes to look.
SetReady(p) ==
    /\ At(p, "sleep")
    /\ ~(At(seen[p], "await") /\ seen[seen[p]] = p)
    /\ statusOutSet(p, 0)
    /\ goto(p, "first")
    /\ UNCHANGED <<name, seen, faults>>

\* send_data of the server
Serve(p) ==
    /\ At(p, "first") /\ RoleOf(p) = "server"
    /\ inStatus(p) = 0
    /\ statusOutSet(p, 1)
    /\ goto(p, "last")
    /\ UNCHANGED <<name, seen, faults>>

\* read_data of the client
Read(p) ==
    /\ At(p, "first") /\ RoleOf(p) = "client"
    /\ inStatus(p) = 1
    /\ statusOutSet(p, 1)
    /\ goto(p, "reply")
    /\ UNCHANGED <<name, seen, faults>>

\* The client leaves without its last answer.
Answer_mutant(p) ==
    /\ At(p, "reply")
    /\ inStatus(p) = 1
    /\ goto(p, "disconnect")
    /\ UNCHANGED <<name, status, seen, faults>>

\* send_data of the client, "after loop answer last call to server"
Answer(p) ==
    /\ At(p, "reply")
    /\ inStatus(p) = 1
    /\ statusOutSet(p, 2)
    /\ goto(p, "disconnect")
    /\ UNCHANGED <<name, seen, faults>>

\* read_data of the server
ReadAnswer(p) ==
    /\ At(p, "last")
    /\ inStatus(p) = 2
    /\ statusOutSet(p, 2)
    /\ goto(p, "disconnect")
    /\ UNCHANGED <<name, seen, faults>>

-----------------------------------------------------------------------------
(* The end *)

\* mmapInDisconnect: the reader unlinks the writer's name.
Disconnect(p) ==
    /\ At(p, "disconnect")
    /\ shm_unlink(Other(RoleOf(p)))
    /\ goto(p, "destroy")
    /\ UNCHANGED <<status, seen, faults>>

\* mmapOutDestroy, 500 ms later
Destroy(p) ==
    /\ At(p, "destroy")
    /\ shm_unlink(RoleOf(p))
    /\ goto(p, "ended")
    /\ UNCHANGED <<status, seen, faults>>

\* The process is killed, wherever it is; its name and its segment stay.
Crash(p) ==
    /\ Running(p)
    /\ MayFail
    /\ goto(p, "dead")
    /\ faults' = faults \cup {"crash"}
    /\ UNCHANGED <<name, status, seen>>

Step(p) ==
    \/ Refused(p) \/ Truncate(p) \/ TruncateFails(p)
    \/ Connect(p) \/ Map(p) \/ MapUnsized(p)
    \/ SetHello(p) \/ AwaitHello(p) \/ AccessFault(p) \/ SetReady(p)
    \/ Serve(p) \/ Read(p) \/ Answer(p) \/ ReadAnswer(p)
    \/ Disconnect(p) \/ Destroy(p)

Next == \E p \in Proc : Create(p) \/ Step(p) \/ Crash(p)

Spec == Init /\ [][Next]_vars

\* A process that runs goes on; nobody has to start one.
FairSpec == Spec /\ \A p \in Proc : WF_vars(Step(p))

-----------------------------------------------------------------------------
(* Properties *)

TypeOK ==
    /\ name \in [Role -> Proc \cup {None}]
    /\ \A r \in Role : name[r] # None => RoleOf(name[r]) = r
    /\ status \in [Proc -> Absent .. 2]
    /\ pc \in [Proc -> Out \cup {"refused", "truncate", "connect", "map", "hello",
                                 "await", "sleep", "first", "reply", "last",
                                 "disconnect", "destroy"}]
    /\ seen \in [Proc -> Proc \cup {None}]
    /\ \A p \in Proc : seen[p] # None => RoleOf(seen[p]) # RoleOf(p)
    /\ faults \subseteq {"crash", "twice", "early", "unsized", "shortage"}

Early(p) == pc[p] \in {"truncate", "connect", "map"}
HandshakeOver(p) ==
    pc[p] \in {"sleep", "first", "reply", "last", "disconnect", "destroy", "ended"}
Finished(p) == pc[p] \in {"disconnect", "destroy", "ended"}
Partners(p, q) == seen[p] = q /\ seen[q] = p

\* Nobody comes out of the handshake with a segment its writer left behind,
\* or with a process that is not connected to it in turn, unless a process
\* crashed or had no memory, or a program was started twice.
HandshakeIsMutual ==
    faults \cap {"crash", "twice", "shortage"} = {} =>
        \A p \in Proc : HandshakeOver(p) => Partners(p, seen[p])

\* A start is refused only for a process that died before, and each refusal
\* removes what was in the way: there are never more of them than deaths. A
\* start that had no memory leaves nothing that is in the way of others.
RefusalsHaveDeaths ==
    "twice" \notin faults =>
        \A r \in Role :
            Cardinality({p \in Proc : RoleOf(p) = r /\ At(p, "failed")})
              <= Cardinality({p \in Proc : RoleOf(p) = r /\ At(p, "dead")})

\* Until somebody has connected to it a process can be found by its name,
\* through all that the ends of earlier processes unlink.
FindableUntilMet ==
    faults = {} =>
        \A p \in Proc :
            Running(p) /\ (\A q \in Proc : seen[q] # p) => name[RoleOf(p)] = p

\* What the process waits for, if it waits at all, is there.
CanStep(p) ==
    \/ pc[p] \in {"refused", "truncate", "map", "hello", "disconnect", "destroy"}
    \/ At(p, "connect") /\ name[Other(RoleOf(p))] # None
    \/ At(p, "await") /\ inStatus(p) \in {Hello, Unsized}
    \/ At(p, "sleep") /\ ~(At(seen[p], "await") /\ seen[seen[p]] = p)
    \/ At(p, "first") /\ inStatus(p) = (IF RoleOf(p) = "server" THEN 0 ELSE 1)
    \/ At(p, "reply") /\ inStatus(p) = 1
    \/ At(p, "last") /\ inStatus(p) = 2

\* Has a mapping of the other's segment, or had one until it was through.
Joined(p) == Connected(p) \/ At(p, "destroy") \/ At(p, "ended")

\* Two processes that are connected to each other never wait for each other,
\* and neither is left waiting for one that has ended, whatever happened to
\* others of their roles before or meanwhile.
PartnersGoOn ==
    \A p \in Server, q \in Client :
        Partners(p, q) /\ Joined(p) /\ Joined(q) =>
            (At(p, "ended") /\ At(q, "ended")) \/ CanStep(p) \/ CanStep(q)

\* As long as nothing went wrong a server and a client that run, connected or
\* on their way to it, are never both stuck: neither by the names that the
\* ends of earlier processes unlink nor by what those left in their segments.
StartersGoOn ==
    faults = {} =>
        \A p \in Server, q \in Client :
            Running(p) /\ Running(q) => CanStep(p) \/ CanStep(q)

\* The steps a process has before it when it is not thrown back, and the
\* segments that may yet throw it back from "map" to "connect".
Ahead(p) ==
    CASE At(p, "new") -> 12
      [] At(p, "truncate") -> 11
      [] At(p, "connect") -> 10
      [] At(p, "map") -> 9
      [] At(p, "hello") -> 8
      [] At(p, "await") -> 7
      [] At(p, "sleep") -> 6
      [] At(p, "first") -> 5
      [] At(p, "reply") \/ At(p, "last") -> 4
      [] At(p, "disconnect") -> 3
      [] At(p, "destroy") -> 2
      [] At(p, "refused") -> 1
      [] OTHER -> 0

MayMeet(p, q) ==
    /\ RoleOf(q) # RoleOf(p)
    /\ At(q, "new") \/ name[RoleOf(q)] = q \/ (At(p, "map") /\ seen[p] = q)

StepsAhead == UNION {{p} \X (1 .. Ahead(p)) : p \in Proc}
Meetings == {m \in Proc \X Proc : MayMeet(m[1], m[2])}
Remaining == Cardinality(StepsAhead) + 2 * Cardinality(Meetings)

\* Nobody tries for ever: through crashes, refusals and segments that had no
\* size when they were found, each step of a process brings all nearer to
\* the end, although a connect that fails starts anew and takes away what
\* others are looking for.
EveryStepCounts ==
    [][Remaining' \in Nat /\ Remaining' < Remaining]_vars

\* AppSharedMemory.lua:135, "both client and server will connect": so they
\* do if neither looks at a segment that has no size yet.
BothConnect ==
    \A p \in Server, q \in Client :
        (Early(p) /\ Early(q) /\ faults = {})
          ~> (Partners(p, q) \/ faults # {})

\* Two processes that are connected to each other both finish unless one is
\* killed, whatever names others have left or removed meanwhile.
PartnersFinish ==
    \A p \in Server, q \in Client :
        (Connected(p) /\ Connected(q) /\ Partners(p, q))
          ~> ((At(p, "ended") /\ At(q, "ended")) \/ At(p, "dead") \/ At(q, "dead"))
=============================================================================

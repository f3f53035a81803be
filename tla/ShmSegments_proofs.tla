------------------------- MODULE ShmSegments_proofs -------------------------
(***************************************************************************)
(* Theorems about the life of the segments, for any number of starts of    *)
(* each program.                                                           *)
(***************************************************************************)
EXTENDS ShmSegments, FiniteSetTheorems, TLAPS

-----------------------------------------------------------------------------
(* The invariant *)

Clean == faults \cap {"crash", "twice", "shortage"} = {}

\* Has found the other's segment and not lost it again; has shown its Hello.
Linked(p) == pc[p] \in {"map", "hello", "await", "sleep", "first", "reply", "last",
                        "disconnect", "destroy", "ended"}
PastHello(p) == pc[p] \in {"await", "sleep", "first", "reply", "last", "disconnect",
                           "destroy", "ended"}

\* One process of each role runs at a time; a name is that of a running one,
\* so no start was refused; a Hello is that of a process that is waiting for
\* one, or sleeps because it saw one.
OneEach ==
    /\ \A p, q \in Proc :
          RoleOf(p) = RoleOf(q) /\ Running(p) /\ Running(q) => p = q
    /\ \A p \in Proc : pc[p] \notin {"refused", "failed", "unmade", "dead"}
    /\ \A r \in Role : name[r] # None => Running(name[r])
    /\ \A p \in Proc : status[p] = Hello => pc[p] \in {"await", "sleep"}

\* A process is linked to one that was started; two that are linked are
\* linked to each other, because what disconnects takes the name along; and
\* whoever is out of the handshake was seen by its partner.
Links ==
    /\ \A p \in Proc : Linked(p) => seen[p] \in Proc /\ pc[seen[p]] # "new"
    /\ \A p \in Proc :
          pc[p] \in {"destroy", "ended"} => name[Other(RoleOf(p))] # seen[p]
    /\ \A p \in Proc : Linked(p) /\ Linked(seen[p]) => seen[seen[p]] = p
    /\ \A p \in Proc : HandshakeOver(p) => PastHello(seen[p])

\* Without any fault: what was seen was never lost; what runs is linked to
\* what runs; and whoever nobody has seen has its name.
NotLost ==
    /\ \A p \in Proc : seen[p] # None => Linked(p)
    /\ \A p, q \in Proc :
          RoleOf(p) # RoleOf(q) /\ Running(p) /\ Running(q) /\ Linked(q)
            => seen[q] = p
    /\ \A p \in Proc :
          Running(p) /\ (\A q \in Proc : seen[q] # p) => name[RoleOf(p)] = p

SegInv ==
    /\ TypeOK
    /\ Clean => OneEach /\ Links
    /\ faults = {} => NotLost
-----------------------------------------------------------------------------
(* Types *)

\* There are two roles, each the other of the other.
LEMMA Roles ==
    /\ \A p \in Proc : RoleOf(p) \in Role /\ Other(RoleOf(p)) \in Role
    /\ \A r \in Role : Other(r) \in Role /\ Other(r) # r /\ Other(Other(r)) = r
    /\ \A r, t \in Role : r # t => t = Other(r)
    /\ None \notin Proc
BY NoneAssumption DEF Proc, Server, Client, RoleOf, Role, Other

\* Steps that leave the names and the links alone, and those of a process
\* that is killed.
Quiet(p) == \/ Truncate(p) \/ Map(p) \/ SetHello(p) \/ AwaitHello(p) \/ SetReady(p)
            \/ Serve(p) \/ Read(p) \/ Answer(p) \/ ReadAnswer(p)
Dies(p) == AccessFault(p) \/ Crash(p)

\* The steps, by what they do to names and links.
LEMMA NextSteps ==
    ASSUME [Next]_vars
    PROVE  \/ \E p \in Proc : \/ Create(p) \/ Refused(p) \/ Quiet(p) \/ Connect(p)
                              \/ MapUnsized(p) \/ Disconnect(p) \/ Destroy(p)
                              \/ TruncateFails(p) \/ Dies(p)
           \/ UNCHANGED vars
BY DEF Next, Step, Quiet, Dies

\* The first state.
LEMMA InitSegInv == Init => SegInv
<1> SUFFICES ASSUME Init PROVE SegInv
  OBVIOUS
<1> USE Roles DEF Init
<1>1. TypeOK
  BY DEF TypeOK, Absent, Out
<1>2. OneEach /\ Links /\ NotLost
  BY DEF OneEach, Links, NotLost, Running, Out, Linked, HandshakeOver, Absent, Hello
<1> QED BY <1>1, <1>2 DEF SegInv

\* Types are kept.
LEMMA TypeStep == ASSUME TypeOK, [Next]_vars PROVE TypeOK'
<1> USE Roles DEF TypeOK, Absent, Unsized, Zero, Hello, Out, goto, statusOutSet, shm_unlink
<1>1. ASSUME NEW p \in Proc, Create(p) PROVE TypeOK'
  <2>1. faults' \subseteq {"crash", "twice", "early", "unsized", "shortage"}
    BY <1>1 DEF Create, StartFaults
  <2>2. CASE name[RoleOf(p)] = None
    <3>1. /\ name' = [name EXCEPT ![RoleOf(p)] = p]
          /\ status' = [status EXCEPT ![p] = Unsized]
          /\ pc' = [pc EXCEPT ![p] = "truncate"]
          /\ seen' = seen
      BY <1>1, <2>2 DEF Create
    <3> QED BY <2>1, <3>1
  <2>3. CASE name[RoleOf(p)] # None
    BY <1>1, <2>1, <2>3 DEF Create
  <2> QED BY <2>2, <2>3
<1>2. ASSUME NEW p \in Proc, Refused(p) \/ Disconnect(p) \/ Destroy(p) PROVE TypeOK'
  BY <1>2 DEF Refused, Disconnect, Destroy
<1>3. ASSUME NEW p \in Proc, Quiet(p) PROVE TypeOK'
  <2>1. CASE Truncate(p)
    BY <2>1 DEF Truncate
  <2>2. CASE Map(p) \/ AwaitHello(p)
    BY <2>2 DEF Map, AwaitHello
  <2>3. CASE SetHello(p)
    BY <2>3 DEF SetHello
  <2>4. CASE SetReady(p)
    BY <2>4 DEF SetReady
  <2>5. CASE Serve(p)
    BY <2>5 DEF Serve
  <2>6. CASE Read(p)
    BY <2>6 DEF Read
  <2>7. CASE Answer(p)
    BY <2>7 DEF Answer
  <2>8. CASE ReadAnswer(p)
    BY <2>8 DEF ReadAnswer
  <2> QED BY <1>3, <2>1, <2>2, <2>3, <2>4, <2>5, <2>6, <2>7, <2>8 DEF Quiet
<1>4. ASSUME NEW p \in Proc, Connect(p) PROVE TypeOK'
  BY <1>4 DEF Connect
<1>5. ASSUME NEW p \in Proc, MapUnsized(p) PROVE TypeOK'
  BY <1>5 DEF MapUnsized
<1>6. ASSUME NEW p \in Proc, Dies(p) PROVE TypeOK'
  BY <1>6 DEF Dies, AccessFault, Crash
<1>7. ASSUME NEW p \in Proc, TruncateFails(p) PROVE TypeOK'
  BY <1>7 DEF TruncateFails
<1>8. CASE UNCHANGED vars
  BY <1>8 DEF vars
<1> QED BY <1>1, <1>2, <1>3, <1>4, <1>5, <1>6, <1>7, <1>8, NextSteps

-----------------------------------------------------------------------------
(* Starts *)

\* A start that is clean finds its name free, and nothing of its role running.
LEMMA CreateClean ==
    ASSUME SegInv, NEW p \in Proc, Create(p), Clean'
    PROVE  /\ Clean /\ OneEach /\ Links
           /\ pc[p] = "new" /\ name[RoleOf(p)] = None
           /\ \A q \in Proc : RoleOf(q) = RoleOf(p) => ~Running(q)
           /\ pc' = [pc EXCEPT ![p] = "truncate"]
           /\ name' = [name EXCEPT ![RoleOf(p)] = p]
           /\ status' = [status EXCEPT ![p] = Unsized]
           /\ seen' = seen
<1>1. pc[p] = "new" /\ faults' = faults \cup StartFaults(p) /\ seen' = seen
  BY DEF Create, At
<1>2. Clean /\ "twice" \notin StartFaults(p)
  BY <1>1 DEF Clean
<1>3. \A q \in Proc : RoleOf(q) = RoleOf(p) => ~Running(q)
  BY <1>2 DEF StartFaults
<1>4. OneEach /\ Links
  BY <1>2 DEF SegInv
<1>5. name[RoleOf(p)] = None
  <2> SUFFICES ASSUME name[RoleOf(p)] # None PROVE FALSE
    OBVIOUS
  <2>1. /\ name[RoleOf(p)] \in Proc
        /\ RoleOf(name[RoleOf(p)]) = RoleOf(p)
        /\ Running(name[RoleOf(p)])
    BY <1>4, Roles DEF SegInv, TypeOK, OneEach
  <2> QED BY <1>3, <2>1
<1> QED BY <1>1, <1>2, <1>3, <1>4, <1>5 DEF Create, goto, statusOutSet

\* Creating a segment keeps the invariant.
LEMMA CreateStep ==
    ASSUME SegInv, NEW p \in Proc, Create(p)
    PROVE  /\ Clean' => OneEach' /\ Links'
           /\ faults' = {} => NotLost'
<1> USE Roles
<1>1. CASE Clean'
  <2>1. /\ Clean /\ OneEach /\ Links
        /\ pc[p] = "new" /\ name[RoleOf(p)] = None
        /\ \A q \in Proc : RoleOf(q) = RoleOf(p) => ~Running(q)
        /\ pc' = [pc EXCEPT ![p] = "truncate"]
        /\ name' = [name EXCEPT ![RoleOf(p)] = p]
        /\ status' = [status EXCEPT ![p] = Unsized]
        /\ seen' = seen
    BY <1>1, CreateClean
  <2>2. TypeOK
    BY DEF SegInv
  <2>3. OneEach'
    BY <2>1, <2>2 DEF OneEach, Running, Out, TypeOK, Unsized, Hello
  <2>4. Links'
    <3>1. \A q \in Proc : Linked(q)' <=> Linked(q)
      BY <2>1, <2>2 DEF Linked, TypeOK
    <3>2. \A q \in Proc : Linked(q) => seen[q] # p
      BY <2>1 DEF Links
    <3> QED BY <2>1, <2>2, <3>1, <3>2 DEF Links, TypeOK, Linked, HandshakeOver, PastHello
  <2>5. faults' = {} => NotLost'
    <3> SUFFICES ASSUME faults' = {} PROVE NotLost'
      OBVIOUS
    <3>1. faults = {} /\ StartFaults(p) = {}
      BY DEF Create
    <3>2. NotLost
      BY <3>1 DEF SegInv
    <3>3. \A q \in Proc : RoleOf(q) # RoleOf(p) => ~Connected(q) /\ pc[q] # "destroy"
      BY <3>1 DEF StartFaults, At
    <3>4. ASSUME NEW q \in Proc, RoleOf(q) # RoleOf(p), Running(q) PROVE ~Linked(q)
      <4> SUFFICES ASSUME Linked(q) PROVE FALSE
        OBVIOUS
      <4> DEFINE o == seen[q]
      <4>1. pc[q] = "map"
        BY <3>3, <3>4 DEF Linked, Connected, Running, Out
      <4>2. o \in Proc /\ pc[o] # "new" /\ RoleOf(o) = RoleOf(p)
        BY <2>1, <2>2, <3>4 DEF Links, TypeOK
      <4>3. pc[o] = "ended"
        BY <2>1, <2>2, <4>2 DEF Running, Out, OneEach, TypeOK
      <4>4. Linked(o) /\ HandshakeOver(o)
        BY <4>3 DEF Linked, HandshakeOver
      <4>5. seen[o] = q
        BY <2>1, <4>4 DEF Links
      <4>6. PastHello(q)
        BY <2>1, <4>2, <4>4, <4>5 DEF Links
      <4> QED BY <4>1, <4>6 DEF PastHello
    <3>5. ~Linked(p) /\ (\A q \in Proc : Linked(q)' <=> Linked(q))
      BY <2>1, <2>2 DEF Linked, TypeOK
    <3>6. \A q \in Proc : q # p => (Running(q)' <=> Running(q))
      BY <2>1, <2>2 DEF Running, TypeOK
    <3> QED BY <2>1, <2>2, <3>2, <3>4, <3>5, <3>6 DEF NotLost, TypeOK
  <2> QED BY <2>3, <2>4, <2>5
<1>2. CASE ~Clean'
  BY <1>2 DEF Clean
<1> QED BY <1>1, <1>2

-----------------------------------------------------------------------------
(* The other steps *)

\* A step that leaves the names and the links alone keeps the invariant: a
\* process only comes out of the handshake when its partner has shown Hello.
LEMMA QuietStep ==
    ASSUME SegInv, NEW p \in Proc, Quiet(p)
    PROVE  /\ Clean' => OneEach' /\ Links'
           /\ faults' = {} => NotLost'
<1> USE Roles
<1> DEFINE l == pc'[p]
<1>1. /\ UNCHANGED <<name, seen, faults>>
      /\ pc' = [pc EXCEPT ![p] = l]
      /\ \A q \in Proc : q # p => status'[q] = status[q]
  BY DEF Quiet, Truncate, Map, SetHello, AwaitHello, SetReady, Serve, Read, Answer,
         ReadAnswer, goto, statusOutSet, SegInv, TypeOK
<1>2. /\ Running(p) /\ l \notin Out /\ l \notin {"refused", "destroy"}
      /\ pc[p] # "destroy"
      /\ Linked(p)' <=> Linked(p)
      /\ PastHello(p) => PastHello(p)'
      /\ Clean /\ status'[p] = Hello => l \in {"await", "sleep"}
      /\ HandshakeOver(p)' => HandshakeOver(p) \/ (pc[p] = "await" /\ inStatus(p) = Hello)
  <2> USE DEF goto, statusOutSet, At, Running, Out, Linked, PastHello, HandshakeOver,
              SegInv, TypeOK, Hello, Zero
  <2>1. CASE Truncate(p)
    BY <2>1 DEF Truncate
  <2>2. CASE Map(p)
    BY <2>2 DEF Map, OneEach
  <2>3. CASE SetHello(p)
    BY <2>3 DEF SetHello
  <2>4. CASE AwaitHello(p)
    BY <2>4 DEF AwaitHello
  <2>5. CASE SetReady(p)
    BY <2>5 DEF SetReady
  <2>6. CASE Serve(p)
    BY <2>6 DEF Serve
  <2>7. CASE Read(p) \/ Answer(p)
    BY <2>7 DEF Read, Answer
  <2>8. CASE ReadAnswer(p)
    BY <2>8 DEF ReadAnswer, OneEach
  <2> QED BY <2>1, <2>2, <2>3, <2>4, <2>5, <2>6, <2>7, <2>8 DEF Quiet
<1>3. TypeOK
  BY DEF SegInv
<1>4. \A q \in Proc : Linked(q)' <=> Linked(q)
  BY <1>1, <1>2, <1>3 DEF Linked, TypeOK
<1>5. \A q \in Proc : Running(q)' <=> Running(q)
  BY <1>1, <1>2, <1>3 DEF Running, TypeOK
<1>6. ASSUME Clean' PROVE OneEach' /\ Links'
  <2>1. Clean /\ OneEach /\ Links
    BY <1>1, <1>6 DEF Clean, SegInv
  <2>2. OneEach'
    <3>1. \A q \in Proc : pc'[q] \notin {"refused", "failed", "unmade", "dead"}
      BY <1>1, <1>2, <1>3, <2>1 DEF OneEach, Out, TypeOK
    <3>2. \A q \in Proc : status'[q] = Hello => pc'[q] \in {"await", "sleep"}
      BY <1>1, <1>2, <1>3, <2>1 DEF OneEach, TypeOK
    <3>3. \A r \in Role : name'[r] # None => Running(name[r])'
      BY <1>1, <1>3, <1>5, <2>1 DEF OneEach, TypeOK
    <3> QED BY <1>5, <2>1, <3>1, <3>2, <3>3 DEF OneEach
  <2>3. Links'
    <3>1. \A q \in Proc : pc[q] # "new" => pc'[q] # "new"
      BY <1>1, <1>2, <1>3 DEF Out, TypeOK
    <3>2. \A q \in Proc : PastHello(q) => PastHello(q)'
      BY <1>1, <1>2, <1>3 DEF PastHello, TypeOK
    <3>3. ASSUME NEW q \in Proc, HandshakeOver(q)' PROVE PastHello(seen[q])'
      <4>1. Linked(q) /\ seen[q] \in Proc
        BY <1>4, <2>1, <3>3 DEF HandshakeOver, Linked, Links
      <4>2. CASE HandshakeOver(q)
        BY <1>1, <2>1, <3>2, <4>1, <4>2 DEF Links, PastHello
      <4>3. CASE ~HandshakeOver(q)
        <5>1. q = p /\ status[seen[p]] = Hello
          BY <1>1, <1>2, <1>3, <3>3, <4>3 DEF HandshakeOver, inStatus, TypeOK
        <5>2. PastHello(seen[q])
          BY <2>1, <4>1, <5>1 DEF OneEach, PastHello
        <5> QED BY <1>1, <3>2, <4>1, <5>2 DEF PastHello
      <4> QED BY <4>2, <4>3
    <3>4. \A q \in Proc : pc'[q] \in {"destroy", "ended"} => pc[q] \in {"destroy", "ended"}
      BY <1>1, <1>2, <1>3 DEF Out, TypeOK
    <3>5. \A q \in Proc : Linked(q)' => seen'[q] \in Proc /\ pc'[seen'[q]] # "new"
      BY <1>1, <1>4, <2>1, <3>1 DEF Links
    <3>6. \A q \in Proc : Linked(q)' /\ Linked(seen[q])' => seen'[seen'[q]] = q
      BY <1>1, <1>4, <2>1 DEF Links
    <3> QED BY <1>1, <2>1, <3>3, <3>4, <3>5, <3>6 DEF Links
  <2> QED BY <2>2, <2>3
<1>7. ASSUME faults' = {} PROVE NotLost'
  BY <1>1, <1>4, <1>5, <1>7 DEF SegInv, NotLost
<1> QED BY <1>6, <1>7

\* A process that finds a name gets a link to a running process, which is
\* linked to it or to none.
LEMMA ConnectStep ==
    ASSUME SegInv, NEW p \in Proc, Connect(p)
    PROVE  /\ Clean' => OneEach' /\ Links'
           /\ faults' = {} => NotLost'
<1> USE Roles
<1> DEFINE q == name[Other(RoleOf(p))]
<1>1. /\ UNCHANGED <<name, status, faults>>
      /\ pc[p] = "connect" /\ pc' = [pc EXCEPT ![p] = "map"]
      /\ seen' = [seen EXCEPT ![p] = q]
      /\ q # None
  BY DEF Connect, At, goto
<1>2. TypeOK /\ q \in Proc /\ RoleOf(q) # RoleOf(p) /\ RoleOf(q) = Other(RoleOf(p))
  BY <1>1 DEF SegInv, TypeOK
<1> HIDE DEF q
<1>3. /\ Running(p) /\ ~Linked(p) /\ Linked(p)'
      /\ \A o \in Proc : Running(o)' <=> Running(o)
      /\ \A o \in Proc : o # p => (Linked(o)' <=> Linked(o))
  BY <1>1, <1>2 DEF Running, Out, Linked, TypeOK
<1>4. seen'[p] = q /\ \A o \in Proc : o # p => seen'[o] = seen[o]
  BY <1>1, <1>2 DEF TypeOK
<1>5. ASSUME Clean' PROVE OneEach' /\ Links'
  <2>1. Clean /\ OneEach /\ Links
    BY <1>1, <1>5 DEF Clean, SegInv
  <2>2. OneEach'
    <3>1. \A r \in Role : name'[r] # None => Running(name[r])'
      BY <1>1, <1>2, <1>3, <2>1 DEF OneEach, TypeOK
    <3>2. \A o \in Proc : /\ pc'[o] \notin {"refused", "failed", "unmade", "dead"}
                          /\ status'[o] = Hello => pc'[o] \in {"await", "sleep"}
      BY <1>1, <1>2, <2>1 DEF OneEach, TypeOK
    <3> QED BY <1>3, <2>1, <3>1, <3>2 DEF OneEach
  <2>3. Running(q)
    BY <1>1, <1>2, <2>1 DEF OneEach, q
  <2>4. ASSUME Linked(q) PROVE seen[q] = p
    <3> DEFINE o == seen[q]
    <3>1. o \in Proc /\ pc[o] # "new" /\ RoleOf(o) = RoleOf(p)
      BY <1>2, <2>1, <2>4 DEF Links, TypeOK
    <3>2. CASE Running(o)
      BY <1>3, <2>1, <3>1, <3>2 DEF OneEach
    <3>3. CASE ~Running(o)
      <4>1. pc[o] = "ended"
        BY <1>2, <2>1, <3>1, <3>3 DEF Running, Out, OneEach, TypeOK
      <4>2. Linked(o)
        BY <4>1 DEF Linked
      <4>3. seen[o] = q
        BY <1>2, <2>1, <2>4, <3>1, <4>2 DEF Links
      <4>4. name[Other(RoleOf(o))] # q
        BY <2>1, <3>1, <4>1, <4>3 DEF Links
      <4> QED BY <3>1, <4>4 DEF q
    <3> QED BY <3>2, <3>3
  <2>5. ASSUME NEW o \in Proc, Linked(o), seen[o] = p PROVE o = q
    <3>1. RoleOf(o) = RoleOf(q)
      BY <1>2, <2>5 DEF TypeOK
    <3>2. ~HandshakeOver(o)
      BY <1>1, <2>1, <2>5 DEF Links, PastHello
    <3>3. Running(o)
      BY <2>5, <3>2 DEF Running, Out, Linked, HandshakeOver
    <3> QED BY <1>2, <2>1, <2>3, <2>5, <3>1, <3>3 DEF OneEach
  <2>6. Links'
    <3>1. \A o \in Proc : pc'[o] # "new" <=> pc[o] # "new"
      BY <1>1, <1>2 DEF TypeOK
    <3>2. ASSUME NEW o \in Proc, Linked(o)'
          PROVE  seen'[o] \in Proc /\ pc'[seen'[o]] # "new"
      BY <1>2, <1>3, <1>4, <2>1, <2>3, <3>1, <3>2 DEF Links, Running, Out
    <3>3. ASSUME NEW o \in Proc, pc'[o] \in {"destroy", "ended"}
          PROVE  name'[Other(RoleOf(o))] # seen'[o]
      BY <1>1, <1>2, <1>4, <2>1, <3>3 DEF Links, TypeOK
    <3>4. ASSUME NEW o \in Proc, Linked(o)', Linked(seen[o])'
          PROVE  seen'[seen'[o]] = o
      <4>1. CASE o = p
        <5>1. q # p /\ seen'[o] = q
          BY <1>2, <1>4, <4>1
        <5> QED BY <1>2, <1>3, <1>4, <2>4, <3>4, <4>1, <5>1
      <4>2. CASE o # p /\ seen[o] = p
        BY <1>3, <1>4, <2>5, <3>4, <4>2
      <4>3. CASE o # p /\ seen[o] # p
        BY <1>3, <1>4, <2>1, <3>4, <4>3 DEF Links
      <4> QED BY <4>1, <4>2, <4>3
    <3>5. ASSUME NEW o \in Proc, HandshakeOver(o)' PROVE PastHello(seen[o])'
      <4>1. o # p /\ HandshakeOver(o) /\ Linked(o)
        BY <1>1, <1>2, <3>5 DEF HandshakeOver, Linked, TypeOK
      <4>2. PastHello(seen[o]) /\ seen[o] \in Proc
        BY <2>1, <4>1 DEF Links
      <4>3. seen[o] # p
        BY <1>1, <4>2 DEF PastHello
      <4> QED BY <1>1, <1>2, <1>4, <4>1, <4>2, <4>3 DEF PastHello, TypeOK
    <3> QED BY <3>2, <3>3, <3>4, <3>5 DEF Links
  <2> QED BY <2>2, <2>6
<1>6. ASSUME faults' = {} PROVE NotLost'
  <2>1. faults = {} /\ Clean /\ OneEach /\ Links /\ NotLost
    BY <1>1, <1>6 DEF Clean, SegInv
  <2>2. Running(q)
    BY <1>1, <1>2, <2>1 DEF OneEach, q
  <2>3. seen[p] = None
    BY <1>3, <2>1 DEF NotLost
  <2>4. \A o \in Proc : seen'[o] # None => Linked(o)'
    BY <1>3, <1>4, <2>1 DEF NotLost
  <2>5. ASSUME NEW o \in Proc, NEW u \in Proc, RoleOf(o) # RoleOf(u),
               Running(o)', Running(u)', Linked(u)'
        PROVE  seen'[u] = o
    <3>1. CASE u = p
      BY <1>2, <1>3, <1>4, <2>1, <2>2, <2>5, <3>1 DEF OneEach
    <3>2. CASE u # p
      BY <1>3, <1>4, <2>1, <2>5, <3>2 DEF NotLost
    <3> QED BY <3>1, <3>2
  <2>6. ASSUME NEW o \in Proc, Running(o)', \A u \in Proc : seen'[u] # o
        PROVE  name'[RoleOf(o)] = o
    <3>1. \A u \in Proc : seen[u] # o
      BY <1>4, <2>3, <2>6
    <3> QED BY <1>1, <1>3, <2>1, <2>6, <3>1 DEF NotLost
  <2> QED BY <2>4, <2>5, <2>6 DEF NotLost
<1> QED BY <1>5, <1>6

\* Nothing was refused when nothing crashed and nothing was started twice.
LEMMA RefusedStep ==
    ASSUME SegInv, NEW p \in Proc, Refused(p)
    PROVE  ~Clean' /\ faults' # {}
<1>1. pc[p] = "refused" /\ faults' = faults
  BY DEF Refused, At
<1>2. ~Clean
  BY <1>1 DEF SegInv, OneEach
<1> QED BY <1>1, <1>2 DEF Clean

\* A killed process is a fault, as is one that gets no memory.
LEMMA DiesStep ==
    ASSUME NEW p \in Proc, TruncateFails(p) \/ Dies(p)
    PROVE  ~Clean' /\ faults' # {}
BY DEF TruncateFails, Dies, AccessFault, Crash, Clean

\* mmap of a segment without a size: the link is lost with the name, or kept.
LEMMA MapUnsizedStep ==
    ASSUME SegInv, NEW p \in Proc, MapUnsized(p)
    PROVE  /\ Clean' => OneEach' /\ Links'
           /\ faults' # {}
<1> USE Roles
<1>1. /\ pc[p] = "map" /\ UNCHANGED <<status, seen>>
      /\ faults' = faults \cup {"unsized"}
      /\ \/ /\ name' = [name EXCEPT ![Other(RoleOf(p))] = None]
            /\ pc' = [pc EXCEPT ![p] = "connect"]
         \/ UNCHANGED name /\ pc' = [pc EXCEPT ![p] = "hello"]
  BY DEF MapUnsized, At, goto, shm_unlink
<1>2. TypeOK
  BY DEF SegInv
<1>3. /\ \A o \in Proc : Running(o)' <=> Running(o)
      /\ \A o \in Proc : Linked(o)' => Linked(o)
      /\ \A r \in Role : name'[r] # None => name'[r] = name[r]
  BY <1>1, <1>2 DEF Running, Out, Linked, TypeOK
<1>4. ASSUME Clean' PROVE OneEach' /\ Links'
  <2>1. Clean /\ OneEach /\ Links
    BY <1>1, <1>4 DEF Clean, SegInv
  <2>2. OneEach'
    <3>1. \A r \in Role : name'[r] # None => Running(name[r])'
      <4> SUFFICES ASSUME NEW r \in Role, name'[r] # None PROVE Running(name[r])'
        OBVIOUS
      <4>1. name'[r] = name[r] /\ name[r] \in Proc /\ Running(name[r])
        BY <1>2, <1>3, <2>1 DEF OneEach, TypeOK
      <4> QED BY <1>3, <4>1 DEF Running
    <3>2. \A o \in Proc : /\ pc'[o] \notin {"refused", "failed", "unmade", "dead"}
                          /\ status'[o] = Hello => pc'[o] \in {"await", "sleep"}
      BY <1>1, <1>2, <2>1 DEF OneEach, TypeOK
    <3> QED BY <1>3, <2>1, <3>1, <3>2 DEF OneEach
  <2>3. Links'
    <3>1. \A o \in Proc : pc[o] # "new" => pc'[o] # "new"
      BY <1>1, <1>2 DEF TypeOK
    <3>2. \A o \in Proc : Linked(o)' => seen'[o] \in Proc /\ pc'[seen'[o]] # "new"
      BY <1>1, <1>3, <2>1, <3>1 DEF Links
    <3>3. ASSUME NEW o \in Proc, pc'[o] \in {"destroy", "ended"}
          PROVE  name'[Other(RoleOf(o))] # seen'[o]
      <4>1. pc[o] \in {"destroy", "ended"}
        BY <1>1, <1>2, <3>3 DEF TypeOK
      <4>2. name[Other(RoleOf(o))] # seen[o] /\ seen[o] \in Proc
        BY <2>1, <4>1 DEF Links, Linked
      <4> QED BY <1>1, <1>3, <4>2
    <3>4. \A o \in Proc : Linked(o)' /\ Linked(seen[o])' => seen'[seen'[o]] = o
      <4> SUFFICES ASSUME NEW o \in Proc, Linked(o)', Linked(seen[o])'
                   PROVE  seen[seen[o]] = o
        BY <1>1
      <4>1. Linked(o) /\ seen[o] \in Proc
        BY <1>3, <2>1 DEF Links
      <4>2. Linked(seen[o])
        BY <1>1, <1>3, <4>1 DEF Linked
      <4> QED BY <2>1, <4>1, <4>2 DEF Links
    <3>5. ASSUME NEW o \in Proc, HandshakeOver(o)' PROVE PastHello(seen[o])'
      <4>1. HandshakeOver(o) /\ Linked(o)
        BY <1>1, <1>2, <3>5 DEF HandshakeOver, Linked, TypeOK
      <4>2. PastHello(seen[o]) /\ seen[o] \in Proc
        BY <2>1, <4>1 DEF Links
      <4>3. seen[o] # p
        BY <1>1, <4>2 DEF PastHello
      <4> QED BY <1>1, <1>2, <4>2, <4>3 DEF PastHello, TypeOK
    <3> QED BY <3>2, <3>3, <3>4, <3>5 DEF Links
  <2> QED BY <2>2, <2>3
<1> QED BY <1>1, <1>4

\* The end of a process: it takes its partner's name along, then its own.
LEMMA EndStep ==
    ASSUME SegInv, NEW p \in Proc, Disconnect(p) \/ Destroy(p)
    PROVE  /\ Clean' => OneEach' /\ Links'
           /\ faults' = {} => NotLost'
<1> USE Roles
<1>1. /\ UNCHANGED <<status, seen, faults>>
      /\ \/ /\ pc[p] = "disconnect" /\ pc' = [pc EXCEPT ![p] = "destroy"]
            /\ name' = [name EXCEPT ![Other(RoleOf(p))] = None]
         \/ /\ pc[p] = "destroy" /\ pc' = [pc EXCEPT ![p] = "ended"]
            /\ name' = [name EXCEPT ![RoleOf(p)] = None]
  BY DEF Disconnect, Destroy, At, goto, shm_unlink
<1>2. TypeOK
  BY DEF SegInv
<1>3. /\ \A o \in Proc : Running(o)' => Running(o)
      /\ \A o \in Proc : Linked(o)' <=> Linked(o)
      /\ \A r \in Role : name'[r] # None => name'[r] = name[r]
      /\ Running(p) /\ Linked(p)
  BY <1>1, <1>2 DEF Running, Out, Linked, TypeOK
<1>4. ASSUME Clean' PROVE OneEach' /\ Links'
  <2>1. Clean /\ OneEach /\ Links
    BY <1>1, <1>4 DEF Clean, SegInv
  <2>2. OneEach'
    <3>1. \A r \in Role : name'[r] # None => Running(name[r])'
      <4> SUFFICES ASSUME NEW r \in Role, name'[r] # None PROVE Running(name[r])'
        OBVIOUS
      <4>1. name'[r] = name[r] /\ name[r] \in Proc /\ Running(name[r]) /\ RoleOf(name[r]) = r
        BY <1>2, <1>3, <2>1 DEF OneEach, TypeOK
      <4>2. CASE pc[p] = "disconnect"
        BY <1>1, <1>2, <4>1, <4>2 DEF Running, Out, TypeOK
      <4>3. CASE pc[p] = "destroy"
        <5>1. name'[RoleOf(p)] = None
          BY <1>1, <1>2, <4>3 DEF TypeOK
        <5>2. name[r] # p
          BY <4>1, <5>1
        <5> QED BY <1>1, <1>2, <4>1, <4>3, <5>2 DEF Running, Out, TypeOK
      <4> QED BY <1>1, <4>2, <4>3
    <3>2. \A o \in Proc : /\ pc'[o] \notin {"refused", "failed", "unmade", "dead"}
                          /\ status'[o] = Hello => pc'[o] \in {"await", "sleep"}
      BY <1>1, <1>2, <2>1 DEF OneEach, TypeOK
    <3> QED BY <1>3, <2>1, <3>1, <3>2 DEF OneEach
  <2>3. Links'
    <3>1. \A o \in Proc : /\ pc[o] # "new" => pc'[o] # "new"
                          /\ PastHello(o) => PastHello(o)'
      BY <1>1, <1>2 DEF TypeOK, PastHello
    <3>2. \A o \in Proc : Linked(o)' => seen'[o] \in Proc /\ pc'[seen'[o]] # "new"
      BY <1>1, <1>3, <2>1, <3>1 DEF Links
    <3>3. ASSUME NEW o \in Proc, pc'[o] \in {"destroy", "ended"}
          PROVE  name'[Other(RoleOf(o))] # seen'[o]
      <4>1. seen[o] \in Proc
        BY <1>3, <2>1, <3>3 DEF Links, Linked
      <4>2. CASE pc[o] \in {"destroy", "ended"}
        BY <1>1, <1>3, <2>1, <4>1, <4>2 DEF Links
      <4>3. CASE pc[o] \notin {"destroy", "ended"}
        <5>1. o = p /\ name'[Other(RoleOf(p))] = None
          BY <1>1, <1>2, <3>3, <4>3 DEF TypeOK
        <5> QED BY <1>1, <4>1, <5>1
      <4> QED BY <4>2, <4>3
    <3>4. \A o \in Proc : Linked(o)' /\ Linked(seen[o])' => seen'[seen'[o]] = o
      <4> SUFFICES ASSUME NEW o \in Proc, Linked(o)', Linked(seen[o])'
                   PROVE  seen[seen[o]] = o
        BY <1>1
      <4>1. Linked(o) /\ seen[o] \in Proc
        BY <1>3, <2>1 DEF Links
      <4>2. Linked(seen[o])
        BY <1>1, <1>3, <4>1 DEF Linked
      <4> QED BY <2>1, <4>1, <4>2 DEF Links
    <3>5. ASSUME NEW o \in Proc, HandshakeOver(o)' PROVE PastHello(seen[o])'
      <4>1. HandshakeOver(o) /\ Linked(o)
        BY <1>1, <1>2, <3>5 DEF HandshakeOver, Linked, TypeOK
      <4>2. PastHello(seen[o]) /\ seen[o] \in Proc
        BY <2>1, <4>1 DEF Links
      <4> QED BY <1>1, <3>1, <4>2 DEF PastHello
    <3> QED BY <3>2, <3>3, <3>4, <3>5 DEF Links
  <2> QED BY <2>2, <2>3
<1>5. ASSUME faults' = {} PROVE NotLost'
  <2>1. Clean /\ OneEach /\ NotLost
    BY <1>1, <1>5 DEF Clean, SegInv
  <2>2. ASSUME NEW o \in Proc, Running(o)', \A u \in Proc : seen'[u] # o
        PROVE  name'[RoleOf(o)] = o
    <3>1. Running(o) /\ (\A u \in Proc : seen[u] # o) /\ name[RoleOf(o)] = o
      BY <1>1, <1>3, <2>1, <2>2 DEF NotLost
    <3>2. CASE pc[p] = "disconnect"
      <4>1. RoleOf(o) = RoleOf(p)
        BY <1>3, <2>1, <3>1 DEF NotLost
      <4> QED BY <1>1, <1>2, <3>1, <3>2, <4>1 DEF TypeOK
    <3>3. CASE pc[p] = "destroy"
      <4>1. o # p
        BY <1>1, <1>2, <2>2, <3>3 DEF Running, Out, TypeOK
      <4>2. RoleOf(o) # RoleOf(p)
        BY <1>3, <2>1, <3>1, <4>1 DEF OneEach
      <4> QED BY <1>1, <1>2, <3>1, <3>3, <4>2 DEF TypeOK
    <3> QED BY <1>1, <3>2, <3>3
  <2> QED BY <1>1, <1>3, <2>1, <2>2 DEF NotLost
<1> QED BY <1>4, <1>5

-----------------------------------------------------------------------------
(* The theorems *)

\* Every step keeps the invariant.
LEMMA NextSegInv == ASSUME SegInv, [Next]_vars PROVE SegInv'
<1>1. TypeOK'
  BY TypeStep DEF SegInv
<1>2. CASE UNCHANGED vars
  BY <1>1, <1>2 DEF vars, SegInv, Clean, OneEach, Links, NotLost, Running, Linked,
                    HandshakeOver, PastHello
<1>3. CASE \E p \in Proc : \/ Create(p) \/ Refused(p) \/ Quiet(p) \/ Connect(p)
                           \/ MapUnsized(p) \/ Disconnect(p) \/ Destroy(p)
                           \/ TruncateFails(p) \/ Dies(p)
  <2>1. (Clean' => OneEach' /\ Links') /\ (faults' = {} => NotLost')
    BY <1>3, CreateStep, RefusedStep, QuietStep, ConnectStep, MapUnsizedStep, EndStep,
       DiesStep
  <2> QED BY <1>1, <2>1 DEF SegInv
<1> QED BY <1>2, <1>3, NextSteps

\* The invariant holds in every state.
LEMMA SegInvariance == Spec => []SegInv
<1> QED BY InitSegInv, NextSegInv, PTL DEF Spec

\* Every variable keeps its type.
THEOREM SegmentTypes == Spec => []TypeOK
<1>1. SegInv => TypeOK
  BY DEF SegInv
<1> QED BY <1>1, SegInvariance, PTL

\* Two programs that come out of the handshake are connected to each other,
\* however often they have been started before, unless one crashed, got no
\* memory or was started twice.
THEOREM HandshakesAreMutual == Spec => []HandshakeIsMutual
<1>1. SegInv => HandshakeIsMutual
  <2> SUFFICES ASSUME SegInv, Clean, NEW p \in Proc, HandshakeOver(p)
               PROVE  Partners(p, seen[p])
    BY DEF HandshakeIsMutual, Clean
  <2>1. Linked(p) /\ PastHello(seen[p])
    BY DEF SegInv, Links, HandshakeOver, Linked
  <2>2. Linked(seen[p])
    BY <2>1 DEF PastHello, Linked
  <2> QED BY <2>1, <2>2 DEF SegInv, Links, Partners
<1> QED BY <1>1, SegInvariance, PTL

\* The ends of earlier processes do not take away the name of one that is
\* still to be found.
THEOREM NamesAreFound == Spec => []FindableUntilMet
<1>1. SegInv => FindableUntilMet
  BY DEF SegInv, FindableUntilMet, NotLost
<1> QED BY <1>1, SegInvariance, PTL

-----------------------------------------------------------------------------
(* Refused starts *)

Failed(r) == {p \in Proc : RoleOf(p) = r /\ At(p, "failed")}
Dead(r) == {p \in Proc : RoleOf(p) = r /\ At(p, "dead")}

\* A start has been refused, or the next one will be.
Refusing(r) ==
    \/ \E p \in Proc : RoleOf(p) = r /\ At(p, "refused")
    \/ name[r] # None /\ At(name[r], "dead")

\* While no program is started twice: a name is that of a running process or
\* of a dead one, and a death accounts for one refused start.
DeathInv ==
    "twice" \notin faults =>
        /\ \A p, q \in Proc :
              RoleOf(p) = RoleOf(q) /\ Running(p) /\ Running(q) => p = q
        /\ \A r \in Role : name[r] # None =>
              pc[name[r]] \notin {"new", "refused", "failed", "unmade", "ended"}
        /\ \A r \in Role :
              Cardinality(Failed(r)) + (IF Refusing(r) THEN 1 ELSE 0)
                <= Cardinality(Dead(r))

LEMMA FiniteProcs ==
    /\ IsFiniteSet(Proc)
    /\ \A r \in Role : IsFiniteSet(Failed(r)) /\ IsFiniteSet(Dead(r))
    /\ \A r \in Role : Cardinality(Failed(r)) \in Nat /\ Cardinality(Dead(r)) \in Nat
<1>1. IsFiniteSet({"server"}) /\ IsFiniteSet({"client"})
  BY FS_Singleton
<1>2. IsFiniteSet(1 .. ServerStarts) /\ IsFiniteSet(1 .. ClientStarts)
  BY FS_Interval, StartsAssumption
<1>3. IsFiniteSet(Server) /\ IsFiniteSet(Client)
  BY <1>1, <1>2, FS_Product DEF Server, Client
<1>4. IsFiniteSet(Proc)
  BY <1>3, FS_Union DEF Proc
<1>5. \A r \in Role : IsFiniteSet(Failed(r)) /\ IsFiniteSet(Dead(r))
  BY <1>4, FS_Subset DEF Failed, Dead
<1> QED BY <1>4, <1>5, FS_CardinalityType

\* A step that makes no process fail or die and refuses none.
LEMMA SameDeaths ==
    ASSUME DeathInv, NEW r \in Role, "twice" \notin faults,
           Failed(r)' = Failed(r), Dead(r)' = Dead(r), Refusing(r)' => Refusing(r)
    PROVE  Cardinality(Failed(r))' + (IF Refusing(r)' THEN 1 ELSE 0)
             <= Cardinality(Dead(r))'
<1>1. Cardinality(Failed(r)) + (IF Refusing(r) THEN 1 ELSE 0) <= Cardinality(Dead(r))
  BY DEF DeathInv
<1>2. Cardinality(Failed(r))' = Cardinality(Failed(r))
      /\ Cardinality(Dead(r))' = Cardinality(Dead(r))
  OBVIOUS
<1> QED BY <1>1, <1>2, FiniteProcs

LEMMA DeathNext ==
    ASSUME TypeOK, DeathInv, [Next]_vars
    PROVE  DeathInv'
<1> USE Roles
<1> SUFFICES ASSUME "twice" \notin faults'
             PROVE  DeathInv'
  BY DEF DeathInv
<1>1. ASSUME NEW p \in Proc, Create(p) PROVE DeathInv'
  <2>1. /\ pc[p] = "new" /\ faults' = faults \cup StartFaults(p)
        /\ pc' = [pc EXCEPT ![p] = IF name[RoleOf(p)] = None THEN "truncate" ELSE "refused"]
        /\ name' = [name EXCEPT ![RoleOf(p)] =
                       IF name[RoleOf(p)] = None THEN p ELSE name[RoleOf(p)]]
    BY <1>1 DEF Create, At, goto, TypeOK
  <2>2. /\ "twice" \notin faults
        /\ \A q \in Proc : RoleOf(q) = RoleOf(p) => ~Running(q)
    BY <2>1 DEF StartFaults
  <2>3. \A q, o \in Proc :
           RoleOf(q) = RoleOf(o) /\ Running(q)' /\ Running(o)' => q = o
    BY <2>1, <2>2 DEF DeathInv, Running, TypeOK
  <2>4. \A r \in Role : name'[r] # None =>
           pc'[name'[r]] \notin {"new", "refused", "failed", "unmade", "ended"}
    BY <2>1, <2>2 DEF DeathInv, TypeOK
  <2>5. ASSUME NEW r \in Role
        PROVE  Failed(r)' = Failed(r) /\ Dead(r)' = Dead(r)
    BY <2>1 DEF Failed, Dead, At, TypeOK
  <2>6. ASSUME NEW r \in Role, Refusing(r)' PROVE Refusing(r)
    <3>1. CASE r = RoleOf(p) /\ name[r] = None
      BY <2>1, <2>2, <2>6, <3>1 DEF Refusing, At, Running, Out, TypeOK
    <3>2. CASE r = RoleOf(p) /\ name[r] # None
      <4>1. /\ name[r] \in Proc /\ RoleOf(name[r]) = r
            /\ pc[name[r]] \notin {"new", "refused", "failed", "unmade", "ended"}
        BY <2>2, <3>2 DEF DeathInv, TypeOK
      <4>2. pc[name[r]] = "dead"
        BY <2>2, <3>2, <4>1 DEF Running, Out
      <4> QED BY <3>2, <4>2 DEF Refusing, At
    <3>3. CASE r # RoleOf(p)
      BY <2>1, <2>6, <3>3 DEF Refusing, At, TypeOK
    <3> QED BY <3>1, <3>2, <3>3
  <2> QED BY <2>2, <2>3, <2>4, <2>5, <2>6, SameDeaths DEF DeathInv
\* The name of a process that is refused cannot be a running one's, and it
\* is gone when the process has failed.
<1>2. ASSUME NEW p \in Proc, Refused(p) PROVE DeathInv'
  <2>1. /\ pc[p] = "refused" /\ "twice" \notin faults
        /\ pc' = [pc EXCEPT ![p] = "failed"]
        /\ name' = [name EXCEPT ![RoleOf(p)] = None]
    BY <1>2 DEF Refused, At, goto, shm_unlink
  <2>2. \A q, o \in Proc :
           RoleOf(q) = RoleOf(o) /\ Running(q)' /\ Running(o)' => q = o
    BY <2>1 DEF DeathInv, Running, Out, TypeOK
  <2>3. \A r \in Role : name'[r] # None =>
           pc'[name'[r]] \notin {"new", "refused", "failed", "unmade", "ended"}
    BY <2>1 DEF DeathInv, TypeOK
  <2>4. ASSUME NEW r \in Role, r # RoleOf(p)
        PROVE  Cardinality(Failed(r))' + (IF Refusing(r)' THEN 1 ELSE 0)
                 <= Cardinality(Dead(r))'
    <3>1. Failed(r)' = Failed(r) /\ Dead(r)' = Dead(r)
      BY <2>1, <2>4 DEF Failed, Dead, At, TypeOK
    <3>2. Refusing(r)' => Refusing(r)
      BY <2>1, <2>4 DEF Refusing, At, TypeOK
    <3> QED BY <2>1, <3>1, <3>2, SameDeaths
  <2>5. ASSUME NEW r \in Role, r = RoleOf(p)
        PROVE  Cardinality(Failed(r))' + (IF Refusing(r)' THEN 1 ELSE 0)
                 <= Cardinality(Dead(r))'
    <3>1. Cardinality(Failed(r)) + 1 <= Cardinality(Dead(r))
      BY <2>1, <2>5 DEF DeathInv, Refusing, At
    <3>2. Failed(r)' = Failed(r) \cup {p} /\ Dead(r)' = Dead(r)
      BY <2>1, <2>5 DEF Failed, Dead, At, TypeOK
    <3>3. Cardinality(Failed(r) \cup {p}) = Cardinality(Failed(r)) + 1
      <4>1. p \notin Failed(r)
        BY <2>1 DEF Failed, At
      <4> QED BY <4>1, FiniteProcs, FS_AddElement
    <3>4. ~Refusing(r)'
      <4>1. \A q \in Proc : RoleOf(q) = r => pc'[q] # "refused"
        BY <2>1, <2>5 DEF DeathInv, Running, Out, TypeOK
      <4> QED BY <2>1, <2>5, <4>1 DEF Refusing, At, TypeOK
    <3>5. Cardinality(Failed(r))' = Cardinality(Failed(r)) + 1
          /\ Cardinality(Dead(r))' = Cardinality(Dead(r))
      BY <3>2, <3>3
    <3> QED BY <3>1, <3>4, <3>5, FiniteProcs
  <2> QED BY <2>1, <2>2, <2>3, <2>4, <2>5 DEF DeathInv
<1>3. ASSUME NEW p \in Proc,
             \/ Quiet(p) \/ Connect(p) \/ MapUnsized(p) \/ TruncateFails(p)
             \/ Disconnect(p) \/ Destroy(p)
      PROVE  DeathInv'
  <2>1. /\ "twice" \notin faults /\ Running(p) /\ pc[p] # "refused"
        /\ \E l \in {"unmade", "connect", "map", "hello", "await", "sleep", "first",
                     "reply", "last", "disconnect", "destroy", "ended"} :
              /\ pc' = [pc EXCEPT ![p] = l]
              /\ l \in {"unmade", "ended"} => name'[RoleOf(p)] = None
        /\ \A r \in Role : name'[r] # None => name'[r] = name[r]
    <3> USE DEF At, Running, Out, goto, shm_unlink, TypeOK
    <3>1. CASE Quiet(p)
      BY <3>1 DEF Quiet, Truncate, Map, SetHello, AwaitHello, SetReady, Serve, Read, Answer,
                  ReadAnswer
    <3>2. CASE Connect(p)
      BY <3>2 DEF Connect
    <3>3. CASE MapUnsized(p)
      BY <3>3 DEF MapUnsized
    <3>4. CASE Disconnect(p)
      BY <3>4 DEF Disconnect
    <3>5. CASE Destroy(p)
      BY <3>5 DEF Destroy
    <3>6. CASE TruncateFails(p)
      BY <3>6 DEF TruncateFails
    <3> QED BY <1>3, <3>1, <3>2, <3>3, <3>4, <3>5, <3>6
  <2>2. PICK l \in {"unmade", "connect", "map", "hello", "await", "sleep", "first",
                    "reply", "last", "disconnect", "destroy", "ended"} :
              /\ pc' = [pc EXCEPT ![p] = l]
              /\ l \in {"unmade", "ended"} => name'[RoleOf(p)] = None
    BY <2>1
  <2>3. \A q, o \in Proc :
           RoleOf(q) = RoleOf(o) /\ Running(q)' /\ Running(o)' => q = o
    BY <2>1, <2>2 DEF DeathInv, Running, Out, TypeOK
  <2>4. ASSUME NEW r \in Role, name'[r] # None
        PROVE  pc'[name'[r]] \notin {"new", "refused", "failed", "unmade", "ended"}
    <3>1. /\ name'[r] = name[r] /\ name[r] \in Proc /\ RoleOf(name[r]) = r
          /\ pc[name[r]] \notin {"new", "refused", "failed", "unmade", "ended"}
      BY <2>1, <2>4 DEF DeathInv, TypeOK
    <3> QED BY <2>2, <2>4, <3>1 DEF TypeOK
  <2>5. ASSUME NEW r \in Role
        PROVE  Cardinality(Failed(r))' + (IF Refusing(r)' THEN 1 ELSE 0)
                 <= Cardinality(Dead(r))'
    <3>1. Failed(r)' = Failed(r) /\ Dead(r)' = Dead(r)
      BY <2>1, <2>2 DEF Failed, Dead, At, Running, Out, TypeOK
    <3>2. Refusing(r)' => Refusing(r)
      BY <2>1, <2>2 DEF Refusing, At, TypeOK
    <3> QED BY <2>1, <3>1, <3>2, SameDeaths
  <2> QED BY <2>1, <2>3, <2>4, <2>5 DEF DeathInv
\* A death may refuse a start.
<1>4. ASSUME NEW p \in Proc, Dies(p) PROVE DeathInv'
  <2>1. /\ Running(p) /\ "twice" \notin faults
        /\ pc' = [pc EXCEPT ![p] = "dead"] /\ name' = name
    BY <1>4 DEF Dies, AccessFault, Crash, At, Running, Out, goto
  <2>2. \A q, o \in Proc :
           RoleOf(q) = RoleOf(o) /\ Running(q)' /\ Running(o)' => q = o
    BY <2>1 DEF DeathInv, Running, Out, TypeOK
  <2>3. \A r \in Role : name'[r] # None =>
           pc'[name'[r]] \notin {"new", "refused", "failed", "unmade", "ended"}
    BY <2>1 DEF DeathInv, TypeOK
  <2>4. ASSUME NEW r \in Role, r # RoleOf(p)
        PROVE  Cardinality(Failed(r))' + (IF Refusing(r)' THEN 1 ELSE 0)
                 <= Cardinality(Dead(r))'
    <3>1. Failed(r)' = Failed(r) /\ Dead(r)' = Dead(r)
      BY <2>1, <2>4 DEF Failed, Dead, At, TypeOK
    <3>2. Refusing(r)' => Refusing(r)
      BY <2>1, <2>4 DEF Refusing, At, TypeOK
    <3> QED BY <2>1, <3>1, <3>2, SameDeaths
  <2>5. ASSUME NEW r \in Role, r = RoleOf(p)
        PROVE  Cardinality(Failed(r))' + (IF Refusing(r)' THEN 1 ELSE 0)
                 <= Cardinality(Dead(r))'
    <3>1. Cardinality(Failed(r)) <= Cardinality(Dead(r))
      BY <2>1, FiniteProcs DEF DeathInv
    <3>2. Failed(r)' = Failed(r) /\ Dead(r)' = Dead(r) \cup {p}
      BY <2>1, <2>5 DEF Failed, Dead, At, Running, Out, TypeOK
    <3>3. Cardinality(Dead(r) \cup {p}) = Cardinality(Dead(r)) + 1
      <4>1. p \notin Dead(r)
        BY <2>1 DEF Dead, At, Running, Out
      <4> QED BY <4>1, FiniteProcs, FS_AddElement
    <3>4. Cardinality(Failed(r))' = Cardinality(Failed(r))
          /\ Cardinality(Dead(r))' = Cardinality(Dead(r)) + 1
      BY <3>2, <3>3
    <3> QED BY <3>1, <3>4, FiniteProcs
  <2> QED BY <2>1, <2>2, <2>3, <2>4, <2>5 DEF DeathInv
<1>5. CASE UNCHANGED vars
  <2>1. pc' = pc /\ name' = name /\ faults' = faults
    BY <1>5 DEF vars
  <2>2. \A r \in Role : /\ Failed(r)' = Failed(r) /\ Dead(r)' = Dead(r)
                        /\ Refusing(r)' <=> Refusing(r)
    BY <2>1 DEF Failed, Dead, Refusing, At
  <2>3. \A p \in Proc : Running(p)' <=> Running(p)
    BY <2>1 DEF Running
  <2>4. \A r \in Role :
           Cardinality(Failed(r))' + (IF Refusing(r)' THEN 1 ELSE 0)
             <= Cardinality(Dead(r))'
    BY <2>1, <2>2, SameDeaths
  <2>5. \A p, q \in Proc :
           RoleOf(p) = RoleOf(q) /\ Running(p)' /\ Running(q)' => p = q
    BY <2>1, <2>3 DEF DeathInv
  <2>6. \A r \in Role : name'[r] # None =>
           pc'[name'[r]] \notin {"new", "refused", "failed", "unmade", "ended"}
    BY <2>1 DEF DeathInv
  <2> QED BY <2>4, <2>5, <2>6 DEF DeathInv
<1>6. CASE \E p \in Proc : \/ Create(p) \/ Refused(p) \/ Quiet(p) \/ Connect(p)
                           \/ MapUnsized(p) \/ Disconnect(p) \/ Destroy(p)
                           \/ TruncateFails(p) \/ Dies(p)
  BY <1>1, <1>2, <1>3, <1>4, <1>6
<1> QED BY <1>5, <1>6, NextSteps

\* However many start and are killed, a refused start has a death of its own
\* that explains it: each removes the name that was in its way.
THEOREM RefusalsAreExplained == Spec => []RefusalsHaveDeaths
<1>1. Init => DeathInv
  <2> SUFFICES ASSUME Init PROVE DeathInv
    OBVIOUS
  <2>1. \A r \in Role : Failed(r) = {} /\ Dead(r) = {} /\ ~Refusing(r)
    BY DEF Init, Failed, Dead, Refusing, At
  <2>2. \A r \in Role : Cardinality(Failed(r)) = 0 /\ Cardinality(Dead(r)) = 0
    BY <2>1, FS_EmptySet
  <2> QED BY <2>1, <2>2 DEF Init, DeathInv, Running, Out
<1>2. DeathInv => RefusalsHaveDeaths
  <2> SUFFICES ASSUME DeathInv, "twice" \notin faults, NEW r \in Role
               PROVE  Cardinality(Failed(r)) <= Cardinality(Dead(r))
    BY DEF RefusalsHaveDeaths, Failed, Dead
  <2> QED BY FiniteProcs DEF DeathInv
<1>3. Spec => []TypeOK
  BY SegmentTypes
<1> QED BY <1>1, <1>2, <1>3, DeathNext, PTL DEF Spec

-----------------------------------------------------------------------------
(* Who waits for whom *)

\* The status byte tells where its process is, unless that was killed.
StatusFits(p) ==
    /\ pc[p] \in {"new", "refused", "failed"} => status[p] = Absent
    /\ pc[p] = "truncate" => status[p] = Unsized
    /\ pc[p] \in {"connect", "map", "hello"} => status[p] = Zero
    /\ pc[p] \in {"await", "sleep"} => status[p] = Hello
    /\ pc[p] = "first" => status[p] = 0
    /\ pc[p] = "last" => status[p] = 1 /\ RoleOf(p) = "server"
    /\ pc[p] = "reply" => status[p] = 1 /\ RoleOf(p) = "client"
    /\ pc[p] \in {"disconnect", "destroy", "ended"} => status[p] = 2

\* Where a server and its client may be at the same time.
InPhase(s, c) ==
    \/ s \in {"hello", "await"} /\ c \in {"hello", "await"}
    \/ s = "await" /\ c = "sleep"
    \/ s = "sleep" /\ c \in {"await", "sleep", "first"}
    \/ s = "first" /\ c \in {"sleep", "first"}
    \/ s = "last" /\ c \in {"first", "reply", "disconnect", "destroy", "ended"}
    \/ /\ s \in {"disconnect", "destroy", "ended"}
       /\ c \in {"disconnect", "destroy", "ended"}

\* What a process saw in the handshake stays shown, by whomever; what two
\* processes do that are connected to each other depends on the other only.
WaitInv ==
    /\ \A p \in Proc : StatusFits(p)
    /\ \A p \in Proc : Linked(p) => seen[p] \in Proc
    /\ \A p \in Proc : HandshakeOver(p) => status[seen[p]] >= Hello
    /\ \A p \in Server, q \in Client :
          Partners(p, q) /\ Joined(p) /\ Joined(q) => InPhase(pc[p], pc[q])

Acts(p) == Create(p) \/ Step(p) \/ Crash(p)

\* Servers and clients are different processes.
LEMMA Sides ==
    /\ \A p \in Server : p \in Proc /\ RoleOf(p) = "server"
    /\ \A q \in Client : q \in Proc /\ RoleOf(q) = "client"
    /\ \A p \in Proc : p \in Server \/ p \in Client
    /\ \A p \in Proc : RoleOf(p) = "server" \/ RoleOf(p) = "client"
    /\ \A p \in Proc : (RoleOf(p) = "server" <=> p \in Server)
    /\ \A p \in Proc : (RoleOf(p) = "client" <=> p \in Client)
    /\ Other("server") = "client" /\ Other("client") = "server"
BY DEF Proc, Server, Client, RoleOf, Other

\* A process changes nothing of another but a name.
LEMMA OthersStay ==
    ASSUME TypeOK, NEW p \in Proc, Acts(p)
    PROVE  \A q \in Proc \ {p} :
              pc'[q] = pc[q] /\ status'[q] = status[q] /\ seen'[q] = seen[q]
BY DEF Acts, Step, Create, Crash, Refused, Truncate, TruncateFails, Connect, Map,
       MapUnsized, SetHello, AwaitHello, AccessFault, SetReady, Serve, Read, Answer,
       ReadAnswer, Disconnect, Destroy, goto, statusOutSet, TypeOK

\* The way of a process through its program: the steps before it is connected,
\* with what they do to its status, and those after.
LEMMA Ways ==
    ASSUME TypeOK, NEW p \in Proc, Acts(p)
    PROVE  \/ pc[p] = "new" /\ pc'[p] = "truncate" /\ status'[p] = Unsized
           \/ pc[p] = "new" /\ pc'[p] = "refused" /\ status'[p] = status[p]
           \/ pc[p] = "refused" /\ pc'[p] = "failed" /\ status'[p] = status[p]
           \/ pc[p] = "truncate" /\ pc'[p] = "connect" /\ status'[p] = Zero
           \/ pc[p] = "truncate" /\ pc'[p] = "unmade" /\ status'[p] \in {status[p], Zero}
           \/ /\ pc[p] = "connect" /\ pc'[p] = "map" /\ status'[p] = status[p]
              /\ seen'[p] \in Proc
           \/ pc[p] = "map" /\ pc'[p] = "connect" /\ status'[p] = status[p]
           \/ pc'[p] = "dead" /\ status'[p] = status[p]
           \/ /\ seen'[p] = seen[p]
              /\ \/ pc[p] = "map" /\ pc'[p] = "hello" /\ status'[p] = status[p]
                 \/ pc[p] = "hello" /\ pc'[p] = "await" /\ status'[p] = Hello
                 \/ /\ pc[p] = "await" /\ pc'[p] = "sleep" /\ status'[p] = status[p]
                    /\ status[seen[p]] = Hello
                 \/ /\ pc[p] = "sleep" /\ pc'[p] = "first" /\ status'[p] = 0
                    /\ ~(pc[seen[p]] = "await" /\ seen[seen[p]] = p)
                 \/ /\ pc[p] = "first" /\ pc'[p] = "last" /\ status'[p] = 1
                    /\ RoleOf(p) = "server" /\ status[seen[p]] = 0
                 \/ /\ pc[p] = "first" /\ pc'[p] = "reply" /\ status'[p] = 1
                    /\ RoleOf(p) = "client" /\ status[seen[p]] = 1
                 \/ /\ pc[p] = "reply" /\ pc'[p] = "disconnect" /\ status'[p] = 2
                    /\ status[seen[p]] = 1
                 \/ /\ pc[p] = "last" /\ pc'[p] = "disconnect" /\ status'[p] = 2
                    /\ status[seen[p]] = 2
                 \/ pc[p] = "disconnect" /\ pc'[p] = "destroy" /\ status'[p] = status[p]
                 \/ pc[p] = "destroy" /\ pc'[p] = "ended" /\ status'[p] = status[p]
<1> USE Roles DEF goto, statusOutSet, At, inStatus, TypeOK
<1>1. CASE Create(p)
  BY <1>1 DEF Create
<1>2. CASE Refused(p) \/ Truncate(p) \/ TruncateFails(p)
  BY <1>2 DEF Refused, Truncate, TruncateFails
<1>3. CASE Connect(p)
  BY <1>3 DEF Connect
<1>4. CASE Map(p) \/ MapUnsized(p)
  BY <1>4 DEF Map, MapUnsized
<1>5. CASE SetHello(p) \/ AwaitHello(p)
  BY <1>5 DEF SetHello, AwaitHello
<1>6. CASE AccessFault(p) \/ Crash(p)
  BY <1>6 DEF AccessFault, Crash
<1>7. CASE SetReady(p)
  BY <1>7 DEF SetReady
<1>8. CASE Serve(p) \/ Read(p) \/ Answer(p) \/ ReadAnswer(p)
  BY <1>8 DEF Serve, Read, Answer, ReadAnswer
<1>9. CASE Disconnect(p) \/ Destroy(p)
  BY <1>9 DEF Disconnect, Destroy
<1> QED BY <1>1, <1>2, <1>3, <1>4, <1>5, <1>6, <1>7, <1>8, <1>9 DEF Acts, Step

\* What the steps after the connection have in common.
LEMMA JoinedStep ==
    ASSUME TypeOK, WaitInv, NEW p \in Proc, Acts(p), Joined(p)'
    PROVE  /\ \A q \in Proc : seen'[q] = seen[q]
           /\ \A q \in Proc \ {p} : pc'[q] = pc[q] /\ status'[q] = status[q]
           /\ \/ pc[p] = "map" /\ pc'[p] = "hello" /\ status[p] = Zero
              \/ /\ Joined(p)
                 /\ \/ pc[p] = "hello" /\ pc'[p] = "await"
                    \/ pc[p] = "await" /\ pc'[p] = "sleep" /\ status[seen[p]] = Hello
                    \/ /\ pc[p] = "sleep" /\ pc'[p] = "first"
                       /\ ~(pc[seen[p]] = "await" /\ seen[seen[p]] = p)
                    \/ /\ pc[p] = "first" /\ pc'[p] = "last"
                       /\ RoleOf(p) = "server" /\ status[seen[p]] = 0
                    \/ /\ pc[p] = "first" /\ pc'[p] = "reply"
                       /\ RoleOf(p) = "client" /\ status[seen[p]] = 1
                    \/ pc[p] = "reply" /\ pc'[p] = "disconnect" /\ status[seen[p]] = 1
                    \/ pc[p] = "last" /\ pc'[p] = "disconnect" /\ status[seen[p]] = 2
                    \/ pc[p] = "disconnect" /\ pc'[p] = "destroy"
                    \/ pc[p] = "destroy" /\ pc'[p] = "ended"
<1>1. StatusFits(p)
  BY DEF WaitInv
<1>2. pc'[p] \in {"hello", "await", "sleep", "first", "reply", "last", "disconnect",
                  "destroy", "ended"}
  BY DEF Joined, Connected, At
<1>3. \A q \in Proc \ {p} :
         pc'[q] = pc[q] /\ status'[q] = status[q] /\ seen'[q] = seen[q]
  BY OthersStay
<1>4. seen'[p] = seen[p]
  BY <1>2, Ways
<1>5. \/ pc[p] = "map" /\ pc'[p] = "hello" /\ status[p] = Zero
      \/ /\ Joined(p)
         /\ \/ pc[p] = "hello" /\ pc'[p] = "await"
            \/ pc[p] = "await" /\ pc'[p] = "sleep" /\ status[seen[p]] = Hello
            \/ /\ pc[p] = "sleep" /\ pc'[p] = "first"
               /\ ~(pc[seen[p]] = "await" /\ seen[seen[p]] = p)
            \/ /\ pc[p] = "first" /\ pc'[p] = "last"
               /\ RoleOf(p) = "server" /\ status[seen[p]] = 0
            \/ /\ pc[p] = "first" /\ pc'[p] = "reply"
               /\ RoleOf(p) = "client" /\ status[seen[p]] = 1
            \/ pc[p] = "reply" /\ pc'[p] = "disconnect" /\ status[seen[p]] = 1
            \/ pc[p] = "last" /\ pc'[p] = "disconnect" /\ status[seen[p]] = 2
            \/ pc[p] = "disconnect" /\ pc'[p] = "destroy"
            \/ pc[p] = "destroy" /\ pc'[p] = "ended"
  BY <1>1, <1>2, Ways DEF StatusFits, Joined, Connected, At
<1> QED BY <1>3, <1>4, <1>5

\* The status goes on telling where its process is.
LEMMA StatusStep ==
    ASSUME TypeOK, WaitInv, NEW p \in Proc, Acts(p), NEW q \in Proc
    PROVE  /\ StatusFits(q)'
           /\ status[q] >= Hello => status'[q] >= Hello
<1>1. StatusFits(q)
  BY DEF WaitInv
<1>2. CASE q # p
  BY <1>1, <1>2, OthersStay DEF StatusFits
<1>3. CASE q = p
  BY <1>1, <1>3, Ways, Sides DEF StatusFits, Absent, Unsized, Zero, Hello
<1> QED BY <1>2, <1>3

\* A process that has seen another's Hello saw it of one that still shows it,
\* or more.
LEMMA SawStep ==
    ASSUME TypeOK, WaitInv, NEW p \in Proc, Acts(p), NEW q \in Proc
    PROVE  /\ Linked(q)' => seen'[q] \in Proc
           /\ HandshakeOver(q)' => status'[seen'[q]] >= Hello
<1>1. /\ Linked(q) => seen[q] \in Proc
      /\ HandshakeOver(q) => status[seen[q]] >= Hello
      /\ \A o \in Proc : status[o] >= Hello => status'[o] >= Hello
  BY StatusStep DEF WaitInv
<1>2. CASE q # p
  BY <1>1, <1>2, OthersStay DEF Linked, HandshakeOver
<1>3. CASE q = p
  <2>1. \/ seen'[q] \in Proc /\ ~HandshakeOver(q)'
        \/ ~Linked(q)' /\ ~HandshakeOver(q)'
        \/ Linked(q) /\ seen'[q] = seen[q] /\ ~HandshakeOver(q)'
        \/ Linked(q) /\ seen'[q] = seen[q] /\ status[seen[q]] = Hello
        \/ Linked(q) /\ seen'[q] = seen[q] /\ HandshakeOver(q)
    BY <1>3, Ways DEF Linked, HandshakeOver
  <2> QED BY <1>1, <2>1 DEF Hello
<1> QED BY <1>2, <1>3

\* Two that are connected to each other stay in phase: each step of one has
\* looked at what the other shows.
LEMMA PhaseStep ==
    ASSUME TypeOK, WaitInv, NEW o \in Proc, Acts(o),
           NEW p \in Server, NEW q \in Client,
           Partners(p, q)', Joined(p)', Joined(q)'
    PROVE  InPhase(pc'[p], pc'[q])
<1>1. /\ p \in Proc /\ q \in Proc /\ p # q
      /\ RoleOf(p) = "server" /\ RoleOf(q) = "client"
  BY Sides
<1>2. StatusFits(p) /\ StatusFits(q)
  BY <1>1 DEF WaitInv
<1>3. /\ Partners(p, q) /\ Joined(p) /\ Joined(q) => InPhase(pc[p], pc[q])
      /\ HandshakeOver(p) => status[seen[p]] >= Hello
      /\ HandshakeOver(q) => status[seen[q]] >= Hello
  BY <1>1 DEF WaitInv
<1> USE DEF StatusFits, Joined, Connected, At, HandshakeOver, InPhase, Hello, Zero
<1>4. CASE o # p /\ o # q
  <2>1. Partners(p, q) /\ Joined(p) /\ Joined(q) /\ pc'[p] = pc[p] /\ pc'[q] = pc[q]
    BY <1>1, <1>4, OthersStay DEF Partners
  <2> QED BY <1>3, <2>1
<1>5. CASE o = p
  <2>1. /\ seen'[p] = seen[p] /\ seen'[q] = seen[q] /\ pc'[q] = pc[q]
        /\ \/ pc[p] = "map" /\ pc'[p] = "hello" /\ status[p] = Zero
           \/ /\ Joined(p)
              /\ \/ pc[p] = "hello" /\ pc'[p] = "await"
                 \/ pc[p] = "await" /\ pc'[p] = "sleep" /\ status[seen[p]] = Hello
                 \/ /\ pc[p] = "sleep" /\ pc'[p] = "first"
                    /\ ~(pc[seen[p]] = "await" /\ seen[seen[p]] = p)
                 \/ pc[p] = "first" /\ pc'[p] = "last" /\ status[seen[p]] = 0
                 \/ pc[p] = "last" /\ pc'[p] = "disconnect" /\ status[seen[p]] = 2
                 \/ pc[p] = "disconnect" /\ pc'[p] = "destroy"
                 \/ pc[p] = "destroy" /\ pc'[p] = "ended"
    BY <1>1, <1>2, <1>5, JoinedStep
  <2>2. Partners(p, q) /\ Joined(q)
    BY <2>1 DEF Partners
  <2>3. seen[p] = q /\ seen[q] = p
    BY <2>2 DEF Partners
  <2> QED BY <1>1, <1>2, <1>3, <2>1, <2>2, <2>3
<1>6. CASE o = q
  <2>1. /\ seen'[p] = seen[p] /\ seen'[q] = seen[q] /\ pc'[p] = pc[p]
        /\ \/ pc[q] = "map" /\ pc'[q] = "hello" /\ status[q] = Zero
           \/ /\ Joined(q)
              /\ \/ pc[q] = "hello" /\ pc'[q] = "await"
                 \/ pc[q] = "await" /\ pc'[q] = "sleep" /\ status[seen[q]] = Hello
                 \/ /\ pc[q] = "sleep" /\ pc'[q] = "first"
                    /\ ~(pc[seen[q]] = "await" /\ seen[seen[q]] = q)
                 \/ pc[q] = "first" /\ pc'[q] = "reply" /\ status[seen[q]] = 1
                 \/ pc[q] = "reply" /\ pc'[q] = "disconnect" /\ status[seen[q]] = 1
                 \/ pc[q] = "last" /\ pc'[q] = "disconnect" /\ status[seen[q]] = 2
                 \/ pc[q] = "disconnect" /\ pc'[q] = "destroy"
                 \/ pc[q] = "destroy" /\ pc'[q] = "ended"
    BY <1>1, <1>6, JoinedStep
  <2>2. Partners(p, q) /\ Joined(p)
    BY <2>1 DEF Partners
  <2>3. seen[p] = q /\ seen[q] = p
    BY <2>2 DEF Partners
  <2> QED BY <1>1, <1>2, <1>3, <2>1, <2>2, <2>3
<1> QED BY <1>4, <1>5, <1>6

\* Every step keeps the invariant.
LEMMA WaitNext == ASSUME TypeOK, WaitInv, [Next]_vars PROVE WaitInv'
<1>1. CASE \E o \in Proc : Acts(o)
  <2>1. PICK o \in Proc : Acts(o)
    BY <1>1
  <2>2. \A p \in Proc : StatusFits(p)'
    BY <2>1, StatusStep
  <2>3. \A p \in Proc : /\ Linked(p)' => seen'[p] \in Proc
                        /\ HandshakeOver(p)' => status'[seen'[p]] >= Hello
    BY <2>1, SawStep
  <2>4. \A p \in Server, q \in Client :
           Partners(p, q)' /\ Joined(p)' /\ Joined(q)' => InPhase(pc'[p], pc'[q])
    BY <2>1, PhaseStep
  <2> QED BY <2>2, <2>3, <2>4 DEF WaitInv
<1>2. CASE UNCHANGED vars
  BY <1>2 DEF vars, WaitInv, StatusFits, Linked, HandshakeOver, Partners, Joined,
              Connected, At
<1> QED BY <1>1, <1>2 DEF Next, Acts

\* The invariant holds in every state.
LEMMA WaitInvariance == Spec => []WaitInv
<1>1. Init => WaitInv
  BY Sides DEF Init, WaitInv, StatusFits, Linked, HandshakeOver, Joined, Connected, At
<1>2. TypeOK /\ WaitInv /\ [Next]_vars => WaitInv'
  BY WaitNext
<1> QED BY <1>1, <1>2, SegmentTypes, PTL DEF Spec

\* In every phase one of the two has what it waits for.
LEMMA PhaseGoesOn ==
    ASSUME TypeOK, WaitInv, NEW p \in Server, NEW q \in Client,
           Partners(p, q), Joined(p), Joined(q)
    PROVE  (At(p, "ended") /\ At(q, "ended")) \/ CanStep(p) \/ CanStep(q)
<1>1. /\ p \in Proc /\ q \in Proc
      /\ RoleOf(p) = "server" /\ RoleOf(q) = "client"
      /\ seen[p] = q /\ seen[q] = p
  BY Sides DEF Partners
<1>2. StatusFits(p) /\ StatusFits(q) /\ InPhase(pc[p], pc[q])
  BY <1>1 DEF WaitInv
<1> QED BY <1>1, <1>2 DEF StatusFits, InPhase, CanStep, At, inStatus

\* Two that are connected to each other are never both stuck, through all
\* that happens to others.
THEOREM PartnersAreNotStuck == Spec => []PartnersGoOn
<1>1. TypeOK /\ WaitInv => PartnersGoOn
  BY PhaseGoesOn DEF PartnersGoOn
<1> QED BY <1>1, WaitInvariance, SegmentTypes, PTL

\* Of two that run without any fault and are not connected to each other one
\* is on its way.
LEMMA StarterGoesOn ==
    ASSUME SegInv, WaitInv, faults = {},
           NEW p \in Proc, NEW q \in Proc, RoleOf(p) # RoleOf(q),
           Running(p), Running(q), ~Linked(p), ~CanStep(p)
    PROVE  CanStep(q)
<1> USE Roles
<1>1. TypeOK /\ OneEach /\ Links /\ NotLost
  BY DEF SegInv, Clean
<1>2. At(p, "connect") /\ name[RoleOf(q)] = None
  BY <1>1 DEF TypeOK, Running, Out, Linked, CanStep, At
<1>3. PICK o \in Proc : seen[o] = q
  BY <1>1, <1>2 DEF NotLost
<1>4. o # p /\ Linked(o) /\ RoleOf(o) = RoleOf(p)
  BY <1>1, <1>3, Sides DEF NotLost, TypeOK
<1>5. pc[o] = "ended"
  BY <1>1, <1>4 DEF OneEach, TypeOK, Running, Out, Linked
<1>6. PastHello(q) /\ Linked(q)
  BY <1>1, <1>3, <1>5 DEF Links, HandshakeOver, PastHello, Linked
<1>7. seen[q] = o
  BY <1>1, <1>3, <1>4, <1>6 DEF Links
<1>8. seen[q] = p
  BY <1>1, <1>6 DEF NotLost
<1> QED BY <1>4, <1>7, <1>8

\* Without any fault a server and a client that run are never both stuck.
THEOREM StartersAreNotStuck == Spec => []StartersGoOn
<1>1. SegInv /\ WaitInv => StartersGoOn
  <2> SUFFICES ASSUME SegInv, WaitInv, faults = {}, NEW p \in Server, NEW q \in Client,
                      Running(p), Running(q), ~CanStep(p), ~CanStep(q)
               PROVE  FALSE
    BY DEF StartersGoOn
  <2>1. p \in Proc /\ q \in Proc /\ RoleOf(p) # RoleOf(q)
    BY Sides
  <2>2. Linked(p) /\ Linked(q)
    BY <2>1, StarterGoesOn
  <2>3. TypeOK /\ Partners(p, q)
    BY <2>1, <2>2 DEF SegInv, NotLost, Partners
  <2>4. Joined(p) /\ Joined(q)
    BY <2>2 DEF Linked, Joined, Connected, At, CanStep
  <2>5. ~At(p, "ended")
    BY DEF Running, Out, At
  <2> QED BY <2>3, <2>4, <2>5, PhaseGoesOn
<1> QED BY <1>1, SegInvariance, WaitInvariance, PTL

-----------------------------------------------------------------------------
(* Every step counts *)

\* What a process still has before it, place by place.
LEMMA AheadOf ==
    ASSUME TypeOK, NEW p \in Proc
    PROVE  /\ Ahead(p) \in 0 .. 12
           /\ Running(p) => Ahead(p) > 0
           /\ pc[p] = "new" => Ahead(p) = 12
BY DEF TypeOK, Ahead, At, Running, Out

\* A step leaves its process nearer to its end, or it is the connect that
\* found a segment without a size: that one is back at 10.
LEMMA AheadStep ==
    ASSUME TypeOK, NEW p \in Proc, Acts(p)
    PROVE  /\ Ahead(p) > 0
           /\ \A q \in Proc \ {p} : Ahead(q)' = Ahead(q)
           /\ \/ Ahead(p)' < Ahead(p)
              \/ pc[p] = "map" /\ pc'[p] = "connect" /\ Ahead(p) = 9 /\ Ahead(p)' = 10
<1>1. \A q \in Proc \ {p} : Ahead(q)' = Ahead(q)
  BY OthersStay DEF Ahead, At
<1>2. CASE pc'[p] = "dead"
  <2>1. Running(p)
    BY <1>2, Roles DEF Acts, Step, Create, Crash, Refused, Truncate, TruncateFails,
       Connect, Map, MapUnsized, SetHello, AwaitHello, AccessFault, SetReady, Serve,
       Read, Answer, ReadAnswer, Disconnect, Destroy, goto, TypeOK, At, Running, Out
  <2> QED BY <1>1, <1>2, <2>1, AheadOf DEF Ahead, At
<1>3. CASE pc'[p] # "dead"
  BY <1>1, <1>3, Ways DEF Ahead, At
<1> QED BY <1>2, <1>3

\* Nobody becomes one that may be met, or met again, who was not before; and
\* the connect that is thrown back has met whom it found for the last time.
LEMMA MeetStep ==
    ASSUME TypeOK, WaitInv, NEW p \in Proc, Acts(p)
    PROVE  /\ \A o, q \in Proc : MayMeet(o, q)' => MayMeet(o, q)
           /\ pc[p] = "map" /\ pc'[p] = "connect" =>
                 seen[p] \in Proc /\ MayMeet(p, seen[p]) /\ ~MayMeet(p, seen[p])'
<1> USE Roles DEF TypeOK, MayMeet, At, goto, shm_unlink
<1>1. \A q \in Proc : pc'[q] = "new" => pc[q] = "new"
  BY OthersStay, Ways
<1>2. ASSUME NEW o \in Proc, NEW q \in Proc, MayMeet(o, q)' PROVE MayMeet(o, q)
  <2>1. RoleOf(q) # RoleOf(o) /\ RoleOf(q) = Other(RoleOf(o))
    BY <1>2
  <2>2. CASE pc'[q] = "new"
    BY <1>1, <2>1, <2>2
  <2>3. CASE name'[RoleOf(q)] = q
    <3>1. name[RoleOf(q)] = q \/ (Create(p) /\ q = p)
      BY <2>3 DEF Acts, Step, Create, Crash, Refused, Truncate, TruncateFails, Connect,
         Map, MapUnsized, SetHello, AwaitHello, AccessFault, SetReady, Serve, Read,
         Answer, ReadAnswer, Disconnect, Destroy
    <3> QED BY <2>1, <3>1 DEF Create
  <2>4. CASE pc'[o] = "map" /\ seen'[o] = q
    <3>1. CASE o # p
      BY <2>1, <2>4, <3>1, OthersStay
    <3>2. CASE o = p
      <4>1. Connect(p)
        BY <2>4, <3>2 DEF Acts, Step, Create, Crash, Refused, Truncate, TruncateFails,
           Connect, Map, MapUnsized, SetHello, AwaitHello, AccessFault, SetReady,
           Serve, Read, Answer, ReadAnswer, Disconnect, Destroy
      <4> QED BY <2>1, <2>4, <3>2, <4>1 DEF Connect
    <3> QED BY <3>1, <3>2
  <2> QED BY <1>2, <2>2, <2>3, <2>4
<1>3. ASSUME pc[p] = "map", pc'[p] = "connect"
      PROVE  seen[p] \in Proc /\ MayMeet(p, seen[p]) /\ ~MayMeet(p, seen[p])'
  <2> DEFINE q == seen[p]
  <2>1. q \in Proc /\ StatusFits(q)
    BY <1>3 DEF WaitInv, Linked
  <2>2. RoleOf(q) # RoleOf(p) /\ RoleOf(q) = Other(RoleOf(p))
    BY <2>1
  <2>3. /\ status[q] = Unsized
        /\ name' = [name EXCEPT ![RoleOf(q)] = None]
        /\ seen' = seen /\ pc' = [pc EXCEPT ![p] = "connect"]
    BY <1>3, <2>2 DEF Acts, Step, Create, Crash, Refused, Truncate, TruncateFails,
       Connect, Map, MapUnsized, SetHello, AwaitHello, AccessFault, SetReady, Serve,
       Read, Answer, ReadAnswer, Disconnect, Destroy, inStatus
  <2>4. pc'[q] # "new"
    BY <1>1, <2>1, <2>3 DEF StatusFits, Absent, Unsized
  <2> QED BY <1>3, <2>1, <2>2, <2>3, <2>4
<1> QED BY <1>2, <1>3

\* A pair for each step that f tells of each of P.
Steps(P, f) == UNION {{q} \X (1 .. f[q]) : q \in P}
\* What is in it.
LEMMA InSteps ==
    ASSUME NEW P, NEW f \in [P -> 0 .. 12], NEW s
    PROVE  s \in Steps(P, f) <=> \E q \in P, n \in 1 .. 12 : s = <<q, n>> /\ n <= f[q]
<1>1. ASSUME NEW q \in P, NEW n \in 1 .. f[q] PROVE n \in 1 .. 12 /\ n <= f[q]
  OBVIOUS
<1>2. ASSUME NEW q \in P, NEW n \in 1 .. 12, n <= f[q] PROVE n \in 1 .. f[q]
  BY <1>2
<1>3. s \in Steps(P, f) <=> \E q \in P : s \in {q} \X (1 .. f[q])
  BY Zenon DEF Steps
<1>4. \A q \in P : s \in {q} \X (1 .. f[q]) <=> \E n \in 1 .. f[q] : s = <<q, n>>
  OBVIOUS
<1> QED BY <1>1, <1>2, <1>3, <1>4

\* A step that leaves one of P nearer to its end takes a pair away; one that
\* throws it back by one adds at most one.
LEMMA StepsChange ==
    ASSUME NEW P, NEW f \in [P -> 0 .. 12], NEW g \in [P -> 0 .. 12], NEW p \in P,
           \A q \in P : q # p => g[q] = f[q]
    PROVE  /\ g[p] < f[p] => \E s \in Steps(P, f) : Steps(P, g) \subseteq Steps(P, f) \ {s}
           /\ g[p] = f[p] + 1 => \E s : Steps(P, g) \subseteq Steps(P, f) \cup {s}
<1>1. ASSUME g[p] < f[p]
      PROVE  \E s \in Steps(P, f) : Steps(P, g) \subseteq Steps(P, f) \ {s}
  <2>1. f[p] \in 1 .. 12
    BY <1>1
  <2>2. <<p, f[p]>> \in Steps(P, f)
    BY <2>1, InSteps
  <2>3. ASSUME NEW s \in Steps(P, g) PROVE s \in Steps(P, f) /\ s # <<p, f[p]>>
    <3>1. PICK q \in P, n \in 1 .. 12 : s = <<q, n>> /\ n <= g[q]
      BY InSteps
    <3>2. n <= f[q] /\ (q = p => n # f[p])
      BY <1>1, <3>1
    <3>3. s \in Steps(P, f)
      BY <3>1, <3>2, InSteps
    <3> QED BY <3>1, <3>2, <3>3
  <2> QED BY <2>2, <2>3
<1>2. ASSUME g[p] = f[p] + 1
      PROVE  \E s : Steps(P, g) \subseteq Steps(P, f) \cup {s}
  <2>1. ASSUME NEW s \in Steps(P, g) PROVE s \in Steps(P, f) \cup {<<p, g[p]>>}
    <3>1. PICK q \in P, n \in 1 .. 12 : s = <<q, n>> /\ n <= g[q]
      BY InSteps
    <3>2. CASE n <= f[q]
      BY <3>1, <3>2, InSteps
    <3>3. CASE ~(n <= f[q])
      <4>1. q = p /\ n = g[p]
        BY <1>2, <3>1, <3>3
      <4> QED BY <3>1, <4>1
    <3> QED BY <3>2, <3>3
  <2> QED BY <2>1
<1> QED BY <1>1, <1>2

\* What is counted is finite.
LEMMA FiniteCounts ==
    ASSUME TypeOK
    PROVE  IsFiniteSet(StepsAhead) /\ IsFiniteSet(Meetings)
<1>1. IsFiniteSet(1 .. 12)
  <2> QED BY FS_Interval, 1 \in Int, 12 \in Int
<1>2. IsFiniteSet(Proc \X (1 .. 12)) /\ IsFiniteSet(Proc \X Proc)
  BY <1>1, FiniteProcs, FS_Product
<1>3. StepsAhead \in SUBSET (Proc \X (1 .. 12)) /\ Meetings \in SUBSET (Proc \X Proc)
  BY AheadOf DEF StepsAhead, Meetings
<1> QED BY <1>2, <1>3, FS_Subset

\* A set without one of its elements is smaller.
LEMMA Smaller ==
    ASSUME NEW S, IsFiniteSet(S), NEW x \in S, NEW T \in SUBSET (S \ {x})
    PROVE  /\ Cardinality(T) \in Nat /\ Cardinality(S) \in Nat
           /\ Cardinality(T) + 1 <= Cardinality(S)
<1>1. IsFiniteSet(S \ {x}) /\ Cardinality(S \ {x}) = Cardinality(S) - 1
  BY FS_RemoveElement
<1>2. IsFiniteSet(T) /\ Cardinality(T) <= Cardinality(S \ {x})
  BY <1>1, FS_Subset
<1> QED BY <1>1, <1>2, FS_CardinalityType

\* Every step makes one of the two counts smaller: the steps ahead, or, when
\* a connect starts anew, the segments that may be met, which count twice.
LEMMA RemainingStep ==
    ASSUME TypeOK, TypeOK', WaitInv, NEW p \in Proc, Acts(p)
    PROVE  Remaining' \in Nat /\ Remaining' < Remaining
<1>1. /\ IsFiniteSet(StepsAhead) /\ IsFiniteSet(Meetings)
      /\ IsFiniteSet(StepsAhead') /\ IsFiniteSet(Meetings')
  <2>1. (TypeOK => IsFiniteSet(StepsAhead) /\ IsFiniteSet(Meetings))'
    BY FiniteCounts, PTL
  <2> QED BY <2>1, FiniteCounts
<1>2. /\ Cardinality(StepsAhead) \in Nat /\ Cardinality(Meetings) \in Nat
      /\ Cardinality(StepsAhead)' \in Nat /\ Cardinality(Meetings)' \in Nat
  BY <1>1, FS_CardinalityType
<1> DEFINE a == [q \in Proc |-> Ahead(q)]
           b == [q \in Proc |-> Ahead(q)']
<1>3. /\ a \in [Proc -> 0 .. 12] /\ b \in [Proc -> 0 .. 12]
      /\ a[p] > 0
      /\ \A q \in Proc : q # p => b[q] = a[q]
      /\ b[p] < a[p] \/ (pc[p] = "map" /\ pc'[p] = "connect" /\ a[p] = 9 /\ b[p] = 10)
  <2>1. \A q \in Proc : Ahead(q) \in 0 .. 12 /\ Ahead(q)' \in 0 .. 12
    BY AheadOf DEF TypeOK, Ahead, At
  <2> HIDE DEF Ahead
  <2> QED BY <2>1, AheadStep
<1>4. Meetings' \in SUBSET Meetings
  BY MeetStep DEF Meetings
<1>5. Cardinality(Meetings)' <= Cardinality(Meetings)
  BY <1>1, <1>4, FS_Subset
<1>6. /\ StepsAhead = Steps(Proc, a) /\ StepsAhead' = Steps(Proc, b)
      /\ b[p] < a[p] =>
            \E s \in StepsAhead : StepsAhead' \subseteq StepsAhead \ {s}
      /\ b[p] = a[p] + 1 => \E s : StepsAhead' \subseteq StepsAhead \cup {s}
  <2>1. StepsAhead = Steps(Proc, a) /\ StepsAhead' = Steps(Proc, b)
    <3> HIDE DEF Ahead
    <3> QED BY DEF StepsAhead, Steps
  <2> HIDE DEF a, b
  <2> QED BY <1>3, <2>1, StepsChange
<1> HIDE DEF a, b
<1>7. CASE b[p] < a[p]
  <2>1. PICK s \in StepsAhead : StepsAhead' \in SUBSET (StepsAhead \ {s})
    BY <1>6, <1>7
  <2>2. Cardinality(StepsAhead') + 1 <= Cardinality(StepsAhead)
    BY <1>1, <2>1, Smaller
  <2> QED BY <1>2, <1>5, <2>2 DEF Remaining
<1>8. CASE pc[p] = "map" /\ pc'[p] = "connect" /\ a[p] = 9 /\ b[p] = 10
  <2>1. PICK s : StepsAhead' \in SUBSET (StepsAhead \cup {s})
    BY <1>6, <1>8
  <2>2. Cardinality(StepsAhead') <= Cardinality(StepsAhead) + 1
    <3>1. /\ IsFiniteSet(StepsAhead \cup {s})
          /\ Cardinality(StepsAhead \cup {s}) <= Cardinality(StepsAhead) + 1
      <4>1. IsFiniteSet(StepsAhead)
        BY <1>1
      <4>2. /\ IsFiniteSet(StepsAhead \cup {s})
            /\ Cardinality(StepsAhead \cup {s}) =
                  IF s \in StepsAhead THEN Cardinality(StepsAhead)
                  ELSE Cardinality(StepsAhead) + 1
        BY <4>1, FS_AddElement
      <4> QED BY <1>2, <4>2
    <3>2. Cardinality(StepsAhead') <= Cardinality(StepsAhead \cup {s})
      BY <2>1, <3>1, FS_Subset
    <3>3. Cardinality(StepsAhead \cup {s}) \in Nat
      BY <3>1, FS_CardinalityType
    <3> QED BY <1>2, <3>1, <3>2, <3>3
  <2>3. /\ <<p, seen[p]>> \in Meetings
        /\ Meetings' \in SUBSET (Meetings \ {<<p, seen[p]>>})
    <3>1. seen[p] \in Proc /\ MayMeet(p, seen[p]) /\ ~MayMeet(p, seen[p])'
      BY <1>8, MeetStep
    <3>2. seen'[p] = seen[p]
      BY <1>8 DEF Acts, Step, Create, Crash, Refused, Truncate, TruncateFails, Connect,
         Map, MapUnsized, SetHello, AwaitHello, AccessFault, SetReady, Serve, Read,
         Answer, ReadAnswer, Disconnect, Destroy, goto, At, TypeOK
    <3>3. <<p, seen[p]>> \in Meetings
      BY <3>1 DEF Meetings
    <3>4. <<p, seen[p]>> \notin Meetings'
      BY <3>1, <3>2 DEF Meetings
    <3> QED BY <1>4, <3>3, <3>4
  <2>4. Cardinality(Meetings') + 1 <= Cardinality(Meetings)
    BY <1>1, <2>3, Smaller
  <2> QED BY <1>2, <2>2, <2>4 DEF Remaining
<1> QED BY <1>3, <1>7, <1>8

\* Nobody tries for ever, however often each program is started and whatever
\* crashes.
THEOREM NoStepIsWasted == Spec => EveryStepCounts
<1>1. TypeOK /\ TypeOK' /\ WaitInv /\ [Next]_vars =>
         [Remaining' \in Nat /\ Remaining' < Remaining]_vars
  BY RemainingStep DEF Next, Acts
<1> QED BY <1>1, SegmentTypes, WaitInvariance, PTL DEF Spec, EveryStepCounts
=============================================================================

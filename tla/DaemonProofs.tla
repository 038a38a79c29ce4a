---------------------------- MODULE DaemonProofs ----------------------------
(***************************************************************************)
(* Proofs about the daemon: what it keeps, module Lifecycle; how one       *)
(* process of it comes to serve, module DaemonServe; and what runs beside  *)
(* its decisions, module SlowPath.  The three share no state.              *)
(*                                                                         *)
(* Lifecycle, for every set of packs, refs, manifests and versions and     *)
(* every bound: a pack operation ends in Put, so one lemma about Put       *)
(* (PutKeeps) carries the packs; a daemon operation appends its events, so *)
(* one about Append (AppendKeeps) carries the history.                     *)
(*                                                                         *)
(* DaemonServe, for any number of processes and clients: past the lock     *)
(* there is its holder alone (OneHolder), so the path is the holder's from *)
(* its bind to its close (PathHeld); and a connection leads to a process   *)
(* that has bound (ConnsLive, TakenHere), so calls meet only in the        *)
(* holder.                                                                 *)
(*                                                                         *)
(* SlowPath, for any applications, drainers, windows and capacities: one   *)
(* invariant per part (CacheLine, BusLine, FrameLine), each an order that  *)
(* the steps keep.                                                         *)
(***************************************************************************)
EXTENDS DaemonServe, Lifecycle, SlowPath, FiniteSetTheorems, SequenceTheorems, TLAPS

-----------------------------------------------------------------------------
(* Lifecycle: the daemon's state and the packs'. *)

\* What a pack record is, apart from the others.
Sound(p) ==
  /\ p \in PackType
  /\ p.state = "trial" <=> p.health = "TRIAL"
  /\ p.state = "enabled" <=> p.health \in {"ENABLED", "HEALTHY"}
  /\ p.state = "trial" => p.ref \in Refs

\* Stronger than TriedBeforeUse: a pack on trial is being tried.
TriedFromTrial ==
  \A id \in IDs :
    pack[id].state \in {"trial", "enabled", "paused"} => pack[id].ref \in tried[id]

PacksInv ==
  /\ pack \in [IDs -> PackType] /\ tried \in [IDs -> SUBSET Refs]
  /\ \A id \in IDs : Sound(pack[id])
  /\ TriedFromTrial

DaemonInv ==
  /\ daemon \in States /\ events \in Seq([from : States, to : States])
  /\ HistoryIsWhole

\* The inductive invariant: each machine with the history that led to it.
Machines == DaemonInv /\ PacksInv /\ now \in Nat

-----------------------------------------------------------------------------
(* The packs. *)

\* Putting a sound pack whose ref is tried, unless it goes on trial now, keeps
\* what is true of all of them.
LEMMA PutKeeps ==
  ASSUME PacksInv, NEW id \in IDs, NEW p, Sound(p), Put(id, p),
         p.state \in {"enabled", "paused"} => p.ref \in tried[id]
  PROVE  PacksInv'
<1>1. pack' = [pack EXCEPT ![id] = p] /\ p \in PackType
  BY DEF Put, Sound
<1>2. pack' \in [IDs -> PackType] /\ pack'[id] = p
  BY <1>1 DEF PacksInv
<1>3. \A other \in IDs \ {id} : pack'[other] = pack[other] /\ tried'[other] = tried[other]
  BY <1>1 DEF PacksInv, Put
<1>4. tried'[id] = IF p.state = "absent" THEN {}
                   ELSE IF p.state = "trial" THEN tried[id] \cup {p.ref} ELSE tried[id]
  BY DEF PacksInv, Put
<1>5. tried[id] \in SUBSET Refs
  BY DEF PacksInv
<1>6. tried' \in [IDs -> SUBSET Refs]
  <2>1. tried'[id] \in SUBSET Refs
    BY <1>4, <1>5 DEF Sound
  <2>2. \A other \in IDs : tried'[other] \in SUBSET Refs
    BY <1>3, <2>1 DEF PacksInv
  <2>3. tried' = [tried EXCEPT ![id] = tried'[id]]
    BY <1>4 DEF PacksInv, Put
  <2> QED BY <2>1, <2>3 DEF PacksInv
<1>7. \A other \in IDs : Sound(pack'[other])
  BY <1>2, <1>3 DEF PacksInv
<1>8. TriedFromTrial'
  <2> SUFFICES ASSUME NEW other \in IDs,
                      pack'[other].state \in {"trial", "enabled", "paused"}
               PROVE  pack'[other].ref \in tried'[other]
    BY DEF TriedFromTrial
  <2>1. CASE other = id
    BY <2>1, <1>2, <1>4
  <2>2. CASE other # id
    BY <2>2, <1>3 DEF PacksInv, TriedFromTrial
  <2> QED BY <2>1, <2>2
<1> QED BY <1>2, <1>6, <1>7, <1>8 DEF PacksInv, Sound

\* A pack sent to trial is sound whatever it was before.
LEMMA OnTrialSound ==
  ASSUME NEW p \in PackType, NEW ref \in Refs, now \in Nat
  PROVE  Sound(OnTrial(p, ref)) /\ OnTrial(p, ref).state = "trial"
<1>1. now + TrialTimeout \in Nat
  BY LifecycleAssumption
<1>2. OnTrial(p, ref) \in PackType
  BY <1>1 DEF OnTrial, PackType
<1>3. /\ OnTrial(p, ref).state = "trial" /\ OnTrial(p, ref).health = "TRIAL"
      /\ OnTrial(p, ref).ref = ref
  BY DEF OnTrial, PackType
<1> QED BY <1>2, <1>3 DEF Sound

\* A pack that is not installed is sound.
LEMMA AbsentSound == Sound(Absent) /\ Absent.state = "absent"
BY DEF Sound, Absent, PackType

\* So is one that is switched off.
LEMMA DisableKeeps ==
  ASSUME PacksInv, NEW id \in IDs, Disable(id)
  PROVE  PacksInv'
<1> DEFINE p == [pack[id] EXCEPT !.state = "disabled", !.health = "DISABLED"]
<1>1. pack[id] \in PackType
  BY DEF PacksInv
<1>2. Sound(p) /\ p.state = "disabled"
  BY <1>1 DEF Sound, PackType
<1> HIDE DEF p
<1>3. Put(id, p)
  BY DEF Disable, p
<1> QED BY <1>2, <1>3, PutKeeps

\* Every operation on a pack keeps the packs' invariant.
LEMMA PacksKeep ==
  ASSUME PacksInv, now \in Nat, Packs
  PROVE  PacksInv'
<1> PICK id \in IDs :
       \/ Install(id) \/ InstallManifest(id) \/ ConfirmTrial(id) \/ RollbackTrial(id)
       \/ MarkHealthy(id) \/ Update(id) \/ SetEnabled(id) \/ Uninstall(id)
  BY DEF Packs
<1>0. pack[id] \in PackType /\ Sound(pack[id])
  BY DEF PacksInv
<1>1. ASSUME NEW ref \in Refs, NEW versioned \in BOOLEAN, InstallAs(id, ref, versioned)
      PROVE  PacksInv'
  <2> DEFINE p == [Absent EXCEPT !.versioned = versioned]
  <2>1. p \in PackType
    BY DEF Absent, PackType
  <2> HIDE DEF p
  <2>2. Put(id, OnTrial(p, ref))
    BY <1>1 DEF InstallAs, p
  <2> QED BY <2>1, <2>2, OnTrialSound, PutKeeps
<1>2. CASE Install(id)
  BY <1>1, <1>2 DEF Install
<1>3. CASE InstallManifest(id)
  BY <1>1, <1>3 DEF InstallManifest
<1>4. CASE ConfirmTrial(id)
  <2> DEFINE late == now > pack[id].until
             to == IF late THEN "disabled" ELSE "enabled"
             p == [pack[id] EXCEPT !.state = to,
                                   !.health = IF late THEN "DISABLED" ELSE "ENABLED"]
  <2>1. Sound(p) /\ p.ref = pack[id].ref
    BY <1>0 DEF Sound, PackType
  <2>2. pack[id].ref \in tried[id]
    BY <1>4 DEF ConfirmTrial, PacksInv, TriedFromTrial
  <2>3. Put(id, p)
    BY <1>4 DEF ConfirmTrial
  <2> HIDE DEF p
  <2> QED BY <2>1, <2>2, <2>3, PutKeeps
<1>5. CASE RollbackTrial(id)
  BY <1>5, DisableKeeps DEF RollbackTrial
<1>6. CASE MarkHealthy(id)
  <2> DEFINE p == [pack[id] EXCEPT !.health = "HEALTHY"]
  <2>1. Sound(p) /\ p.ref = pack[id].ref
    BY <1>0, <1>6 DEF Sound, PackType, MarkHealthy
  <2>2. pack[id].ref \in tried[id]
    BY <1>6 DEF MarkHealthy, PacksInv, TriedFromTrial
  <2>3. Put(id, p)
    BY <1>6 DEF MarkHealthy
  <2> HIDE DEF p
  <2> QED BY <2>1, <2>2, <2>3, PutKeeps
<1>7. CASE Update(id)
  <2>1. PICK ref \in Refs : Put(id, OnTrial(pack[id], ref))
    BY <1>7 DEF Update
  <2> QED BY <1>0, <2>1, OnTrialSound, PutKeeps
<1>8. CASE SetEnabled(id)
  <2> DEFINE p == [pack[id] EXCEPT !.state = "enabled", !.health = "ENABLED"]
  <2>1. CASE Disable(id)
    BY <2>1, DisableKeeps
  <2>2. CASE pack[id].state # "enabled" /\ Transition(pack[id].state, "enabled") /\ Put(id, p)
    <3>1. pack[id].state \in {"trial", "paused"}
      BY <2>2 DEF Transition, Allowed
    <3>2. pack[id].ref \in tried[id]
      BY <3>1 DEF PacksInv, TriedFromTrial
    <3>3. Sound(p) /\ p.ref = pack[id].ref
      BY <1>0 DEF Sound, PackType
    <3>4. Put(id, p)
      BY <2>2
    <3> HIDE DEF p
    <3> QED BY <3>2, <3>3, <3>4, PutKeeps
  <2> QED BY <1>8, <2>1, <2>2 DEF SetEnabled
<1>9. CASE Uninstall(id)
  BY <1>9, AbsentSound, PutKeeps DEF Uninstall
<1> QED BY <1>2, <1>3, <1>4, <1>5, <1>6, <1>7, <1>8, <1>9

-----------------------------------------------------------------------------
(* The daemon. *)

\* A move recorded from where the daemon is keeps the history whole.
LEMMA AppendKeeps ==
  ASSUME DaemonInv, NEW to \in States,
         daemon' = to, events' = Append(events, Event(daemon, to)),
         events = <<>> => daemon = "initializing"
  PROVE  DaemonInv'
<1> DEFINE E == [from : States, to : States]
           e == Event(daemon, to)
<1>1. e \in E /\ e.from = daemon /\ e.to = to
  BY DEF Event, DaemonInv
<1>2. events \in Seq(E) /\ events' = Append(events, e)
  BY DEF DaemonInv
<1> HIDE DEF e, E
<1>3. /\ Len(events') = Len(events) + 1 /\ events'[Len(events) + 1] = e
      /\ \A i \in 1..Len(events) : events'[i] = events[i]
      /\ events' \in Seq(E) /\ events' # <<>>
  BY <1>1, <1>2
<1>4. events'[1].from = "initializing"
  <2>1. CASE events = <<>>
    BY <2>1, <1>1, <1>3
  <2>2. CASE events # <<>>
    BY <2>2, <1>2, <1>3 DEF DaemonInv, HistoryIsWhole
  <2> QED BY <2>1, <2>2
<1>5. \A i \in 1..Len(events) : events'[i].to = events'[i + 1].from
  <2> SUFFICES ASSUME NEW i \in 1..Len(events) PROVE events'[i].to = events'[i + 1].from
    OBVIOUS
  <2>0. Len(events) \in Nat /\ events # <<>>
    BY <1>2
  <2>1. CASE i = Len(events)
    BY <2>0, <2>1, <1>1, <1>3 DEF DaemonInv, HistoryIsWhole
  <2>2. CASE i # Len(events)
    <3>1. i \in 1..(Len(events) - 1) /\ i + 1 \in 1..Len(events)
      BY <2>0, <2>2
    <3> QED BY <3>1, <1>3 DEF DaemonInv, HistoryIsWhole
  <2> QED BY <2>1, <2>2
<1>6. Len(events) \in Nat
  BY <1>2
<1>7. events' \in Seq([from : States, to : States])
  BY <1>3 DEF E
<1> QED BY <1>1, <1>3, <1>4, <1>5, <1>6, <1>7 DEF DaemonInv, HistoryIsWhole

\* A move along the table makes the history longer and keeps it whole.
LEMMA TableMoveKeeps ==
  ASSUME DaemonInv, NEW to \in States, Move(to)
  PROVE  DaemonInv'
BY AppendKeeps DEF Move, DaemonInv, HistoryIsWhole

\* Every operation of the daemon is such moves.
LEMMA DaemonKeeps ==
  ASSUME DaemonInv, Daemon
  PROVE  DaemonInv'
<1>1. CASE Run \/ EnterSafeMode \/ ExitSafeMode \/ Pause
  BY <1>1, TableMoveKeeps DEF Run, EnterSafeMode, ExitSafeMode, Pause, States
<1>2. CASE Stop
  BY <1>2, AppendKeeps DEF Stop, States, DaemonInv, HistoryIsWhole
<1>3. CASE Resume
  <2> DEFINE E == [from : States, to : States]
             one == Event("paused", "enabled")
             two == Event("enabled", "running")
  <2>1. /\ one \in E /\ one.from = "paused" /\ one.to = "enabled"
        /\ two \in E /\ two.from = "enabled" /\ two.to = "running"
    BY DEF Event, States
  <2>2. events \in Seq(E) /\ events' = events \o <<one, two>> /\ daemon' = "running"
    BY <1>3 DEF Resume, DaemonInv
  <2> HIDE DEF one, two
  <2>3. events # <<>> /\ events[Len(events)].to = "paused" /\ events[1].from = "initializing"
    BY <1>3 DEF Resume, DaemonInv, HistoryIsWhole
  <2>4. /\ events' \in Seq(E) /\ Len(events') = Len(events) + 2
        /\ events'[Len(events) + 1] = one /\ events'[Len(events) + 2] = two
        /\ \A i \in 1..Len(events) : events'[i] = events[i]
        /\ Len(events) \in Nat \ {0}
    BY <2>1, <2>2, <2>3
  <2>5. \A i \in 1..(Len(events) + 1) : events'[i].to = events'[i + 1].from
    <3> SUFFICES ASSUME NEW i \in 1..(Len(events) + 1)
                 PROVE  events'[i].to = events'[i + 1].from
      OBVIOUS
    <3>1. CASE i = Len(events) + 1
      BY <3>1, <2>1, <2>4
    <3>2. CASE i = Len(events)
      BY <3>2, <2>1, <2>3, <2>4
    <3>3. CASE i \in 1..(Len(events) - 1)
      <4>1. i \in 1..Len(events) /\ i + 1 \in 1..Len(events)
        BY <3>3, <2>4
      <4> QED BY <3>3, <4>1, <2>4 DEF DaemonInv, HistoryIsWhole
    <3> QED BY <3>1, <3>2, <3>3, <2>4
  <2>6. 1 \in 1..Len(events) /\ events' # <<>>
    BY <2>4
  <2> QED BY <2>1, <2>2, <2>3, <2>4, <2>5, <2>6 DEF DaemonInv, HistoryIsWhole, States
<1> QED BY <1>1, <1>2, <1>3 DEF Daemon

-----------------------------------------------------------------------------
(* The invariant. *)

\* No packs and no events: the invariant holds.
LEMMA InitMachines == LifecycleInit => Machines
<1> SUFFICES ASSUME LifecycleInit PROVE Machines
  OBVIOUS
<1>1. DaemonInv
  BY DEF LifecycleInit, DaemonInv, HistoryIsWhole, States
<1>2. PacksInv
  BY AbsentSound DEF LifecycleInit, PacksInv, TriedFromTrial, Sound
<1> QED BY <1>1, <1>2 DEF LifecycleInit, Machines

\* The invariant is inductive.
LEMMA NextMachines == Machines /\ [LifecycleNext]_lifecycleVars => Machines'
<1> SUFFICES ASSUME Machines, [LifecycleNext]_lifecycleVars PROVE Machines'
  OBVIOUS
<1>1. ASSUME UNCHANGED daemonVars PROVE DaemonInv'
  BY <1>1 DEF Machines, daemonVars, DaemonInv, HistoryIsWhole
<1>2. ASSUME UNCHANGED packVars PROVE PacksInv'
  BY <1>2 DEF Machines, packVars, PacksInv, TriedFromTrial, Sound
<1>3. CASE Daemon
  <2>1. UNCHANGED packVars /\ now' = now
    BY <1>3 DEF Daemon
  <2> QED BY <1>2, <1>3, <2>1, DaemonKeeps DEF Machines
<1>4. CASE Packs
  <2>1. UNCHANGED daemonVars /\ now' = now
    BY <1>4 DEF Packs
  <2> QED BY <1>1, <1>4, <2>1, PacksKeep DEF Machines
<1>5. CASE Tick
  <2>1. UNCHANGED daemonVars /\ UNCHANGED packVars /\ now' \in Nat
    BY <1>5 DEF Tick, Machines
  <2> QED BY <1>1, <1>2, <2>1 DEF Machines
<1>6. CASE Offer \/ UNCHANGED lifecycleVars
  <2>1. UNCHANGED daemonVars /\ UNCHANGED packVars /\ now' = now
    BY <1>6 DEF Offer, lifecycleVars
  <2> QED BY <1>1, <1>2, <2>1 DEF Machines
<1> QED BY <1>3, <1>4, <1>5, <1>6 DEF LifecycleNext

\* So it holds in every reachable state.
LEMMA AlwaysMachines == LifecycleSpec => []Machines
BY InitMachines, NextMachines, PTL DEF LifecycleSpec

\* Types, for any packs, refs and bounds.
THEOREM TypeCorrect == LifecycleSpec => []LifecycleTypeOK
<1>1. Machines => LifecycleTypeOK
  BY DEF Machines, DaemonInv, PacksInv, LifecycleTypeOK
<1> QED BY <1>1, AlwaysMachines, PTL

\* The daemon's audited history is whole however long it grows, Resume's two
\* events and its step outside the table included.
THEOREM HistoryWhole == LifecycleSpec => []HistoryIsWhole
<1>1. Machines => HistoryIsWhole
  BY DEF Machines, DaemonInv
<1> QED BY <1>1, AlwaysMachines, PTL

\* The health on the Plugins page is that of the pack's state.
THEOREM HealthFollowsState == LifecycleSpec => []HealthFollows
<1>1. Machines => HealthFollows
  BY DEF Machines, PacksInv, Sound, HealthFollows
<1> QED BY <1>1, AlwaysMachines, PTL

\* No pack runs a ref it was not on trial with.
THEOREM TrialComesFirst == LifecycleSpec => []TriedBeforeUse
<1>1. Machines => TriedBeforeUse
  BY DEF Machines, PacksInv, TriedFromTrial, TriedBeforeUse
<1> QED BY <1>1, AlwaysMachines, PTL

-----------------------------------------------------------------------------
(* DaemonServe: the processes that would serve. *)

Bound == {"serve", "close", "wait", "left"}
PastLock == {"pid", "probe", "unlink", "bind"} \cup Bound

OneHolder == ~wiped => \A p \in Procs : pc[p] \in PastLock => lock = p
PathHeld == ~wiped => \A p \in Procs : pc[p] \in Listening => path = p
ConnsLive ==
  \A c \in Clients : conn[c] # NoConn =>
    /\ conn[c].at # "none" /\ conn[c].to \in Procs /\ pc[conn[c].to] \in Bound
TakenHere ==
  \A p \in Procs : taken[p] # None => conn[taken[p]] = [to |-> p, at |-> "accepted"]

\* Who holds the lock, who is reachable, and whose connections are open.
IInv == TypeOK /\ OneHolder /\ PathHeld /\ ConnsLive /\ TakenHere

-----------------------------------------------------------------------------

\* Before the first start nothing is held, bound or connected.
LEMMA InitIInv == Init => IInv
<1> SUFFICES ASSUME Init PROVE IInv
  OBVIOUS
<1>1. NoConn \in ConnType
  BY DEF NoConn, ConnType
<1>2. TypeOK
  BY <1>1 DEF Init, TypeOK, Starting
<1>3. OneHolder /\ PathHeld
  BY DEF Init, OneHolder, PathHeld, PastLock, Bound, Listening
<1>4. ConnsLive /\ TakenHere
  BY DEF Init, ConnsLive, TakenHere
<1> QED BY <1>2, <1>3, <1>4 DEF IInv

\* A process that ends takes along what led to it and leaves the rest.
LEMMA GoneKeeps ==
  ASSUME IInv, NEW p \in Procs, Gone(p), path' = path, wiped' = wiped
  PROVE  IInv'
<1> USE DEF IInv
<1>0. /\ pc' = [pc EXCEPT ![p] = "off"]
      /\ taken' = [taken EXCEPT ![p] = None]
      /\ heard' = [heard EXCEPT ![p] = FALSE]
      /\ conn' = [c \in Clients |-> IF conn[c].to = p THEN NoConn ELSE conn[c]]
      /\ lock' = IF lock = p THEN None ELSE lock
  BY DEF Gone
<1>1. TypeOK'
  <2>1. \A c \in Clients : conn'[c] \in ConnType
    BY <1>0 DEF TypeOK, ConnType, NoConn
  <2> QED BY <1>0, <2>1 DEF TypeOK
<1>2. \A q \in Procs : q # p => pc'[q] = pc[q] /\ taken'[q] = taken[q]
  BY <1>0 DEF TypeOK
<1>3. pc'[p] = "off" /\ taken'[p] = None
  BY <1>0 DEF TypeOK
<1>4. OneHolder'
  BY <1>0, <1>2, <1>3 DEF OneHolder, PastLock, Bound
<1>5. PathHeld'
  BY <1>2, <1>3 DEF PathHeld, Listening
<1>6. ConnsLive'
  BY <1>0, <1>2 DEF ConnsLive, NoConn
<1>7. TakenHere'
  <2> SUFFICES ASSUME NEW q \in Procs, taken'[q] # None
               PROVE  conn'[taken'[q]] = [to |-> q, at |-> "accepted"]
    BY DEF TakenHere
  <2>1. q # p /\ taken'[q] = taken[q] /\ taken[q] \in Clients
    BY <1>2, <1>3 DEF TypeOK
  <2>2. conn[taken[q]] = [to |-> q, at |-> "accepted"]
    BY <2>1 DEF TakenHere
  <2> QED BY <1>0, <2>1, <2>2
<1> QED BY <1>1, <1>4, <1>5, <1>6, <1>7

\* A process that moves and leaves the connections alone: what it needs is the
\* lock where it goes and, where it listens, the path.
LEMMA MoveKeeps ==
  ASSUME IInv, NEW p \in Procs, NEW to,
         pc' = [pc EXCEPT ![p] = to], to \in Starting \cup Bound,
         pc[p] \notin Bound \/ to \in Bound,
         lock' \in Procs \cup {None}, path' \in Procs \cup {None},
         UNCHANGED <<heard, taken, wiped, conn>>,
         ~wiped => /\ to \in PastLock => lock' = p
                   /\ to \in Listening => path' = p
                   /\ \A q \in Procs \ {p} : pc[q] \in PastLock => lock' = q
                   /\ \A q \in Procs \ {p} : pc[q] \in Listening => path' = q
  PROVE  IInv'
<1> USE DEF IInv
<1>1. \A q \in Procs : pc'[q] = IF q = p THEN to ELSE pc[q]
  BY DEF TypeOK
<1>2. TypeOK'
  BY DEF TypeOK, Bound
<1>3. OneHolder'
  BY <1>1 DEF OneHolder
<1>4. PathHeld'
  BY <1>1 DEF PathHeld
<1>5. ConnsLive'
  BY <1>1 DEF ConnsLive
<1>6. TakenHere'
  BY DEF TakenHere
<1> QED BY <1>2, <1>3, <1>4, <1>5, <1>6

\* A start keeps it: only who holds the lock goes on to probe, remove and bind.
LEMMA StartKeeps ==
  ASSUME IInv, NEW p \in Procs, Start(p)
  PROVE  IInv'
<1> USE DEF IInv
<1>a. TypeOK /\ pc[p] \in Starting \cup {"off", "serve", "close", "wait", "left"}
  BY DEF TypeOK
<1>b. ~wiped => /\ \A q \in Procs : pc[q] \in PastLock => lock = q
                /\ \A q \in Procs : pc[q] \in Listening => path = q
  BY DEF OneHolder, PathHeld
<1>1. CASE Spawn(p)
  <2>1. pc' = [pc EXCEPT ![p] = "load"] /\ pc[p] \notin Bound
        /\ UNCHANGED <<heard, taken, wiped, conn, lock, path>>
    BY <1>1 DEF Spawn, fileVars, Bound
  <2> QED BY <1>a, <1>b, <2>1, MoveKeeps DEF TypeOK, Starting, PastLock, Bound, Listening
<1>2. CASE Load(p)
  <2>1. pc' = [pc EXCEPT ![p] = "lock"] /\ pc[p] \notin Bound
        /\ UNCHANGED <<heard, taken, wiped, conn, lock, path>>
    BY <1>2 DEF Load, fileVars, Bound
  <2> QED BY <1>a, <1>b, <2>1, MoveKeeps DEF TypeOK, Starting, PastLock, Bound, Listening
<1>3. CASE Lock(p)
  <2>1. CASE Gone(p)
    BY <1>3, <2>1, GoneKeeps DEF Lock
  <2>2. CASE lock = None /\ lock' = p /\ pc' = [pc EXCEPT ![p] = "pid"]
             /\ UNCHANGED <<mem, heard, taken, wg, conn, told>>
    <3>1. pc[p] = "lock" /\ UNCHANGED <<path, wiped>>
      BY <1>3 DEF Lock
    <3>2. ~wiped => \A q \in Procs : pc[q] \notin PastLock
      BY <1>b, <2>2, ServeAssumption
    <3>3. Listening \subseteq PastLock /\ "pid" \in Starting /\ "pid" \notin Listening
          /\ "lock" \notin Bound
      BY DEF Listening, PastLock, Bound, Starting
    <3> QED BY <1>a, <2>2, <3>1, <3>2, <3>3, MoveKeeps DEF TypeOK
  <2> QED BY <1>3, <2>1, <2>2 DEF Lock
<1>4. CASE RecordPid(p)
  <2>1. pc' = [pc EXCEPT ![p] = "probe"] /\ pc[p] = "pid"
        /\ UNCHANGED <<heard, taken, wiped, conn, lock, path>>
    BY <1>4 DEF RecordPid
  <2> QED BY <1>a, <1>b, <2>1, MoveKeeps DEF TypeOK, Starting, PastLock, Bound, Listening
<1>5. CASE Probe(p)
  <2>1. CASE Gone(p)
    BY <1>5, <2>1, GoneKeeps DEF Probe
  <2>2. CASE pc' = [pc EXCEPT ![p] = "unlink"] /\ UNCHANGED <<mem, heard, taken, wg, lock, conn, told>>
    <3>1. pc[p] = "probe" /\ UNCHANGED <<path, wiped>>
      BY <1>5 DEF Probe
    <3> QED BY <1>a, <1>b, <2>2, <3>1, MoveKeeps DEF TypeOK, Starting, PastLock, Bound, Listening
  <2> QED BY <1>5, <2>1, <2>2 DEF Probe
<1>6. CASE Unlink(p)
  <2>1. pc' = [pc EXCEPT ![p] = "bind"] /\ pc[p] = "unlink" /\ path' = None
        /\ UNCHANGED <<heard, taken, wiped, conn, lock>>
    BY <1>6 DEF Unlink
  <2>2. ~wiped => \A q \in Procs \ {p} : pc[q] \notin PastLock
    BY <1>b, <2>1 DEF PastLock
  <2> QED BY <1>a, <1>b, <2>1, <2>2, MoveKeeps DEF TypeOK, Starting, PastLock, Bound, Listening
<1>7. CASE Bind(p)
  <2>1. CASE Gone(p) /\ UNCHANGED path
    BY <1>7, <2>1, GoneKeeps DEF Bind
  <2>2. CASE path = None /\ path' = p /\ pc' = [pc EXCEPT ![p] = "serve"]
             /\ UNCHANGED <<mem, heard, taken, wg, lock, conn>>
    <3>1. pc[p] = "bind" /\ UNCHANGED wiped
      BY <1>7 DEF Bind
    <3>2. ~wiped => \A q \in Procs \ {p} : pc[q] \notin PastLock
      BY <1>b, <3>1 DEF PastLock
    <3> QED BY <1>a, <1>b, <2>2, <3>1, <3>2, MoveKeeps DEF TypeOK, Starting, PastLock, Bound, Listening
  <2> QED BY <1>7, <2>1, <2>2 DEF Bind
<1> QED BY <1>1, <1>2, <1>3, <1>4, <1>5, <1>6, <1>7 DEF Start

-----------------------------------------------------------------------------
(* Connections. *)

\* The processes stay where they are and no connection dies or moves to
\* another process: what was taken is still accepted.
LEMMA ConnsKeep ==
  ASSUME IInv, UNCHANGED <<pc, lock, path, wiped>>,
         heard' \in [Procs -> BOOLEAN], taken' \in [Procs -> Clients \cup {None}],
         conn' \in [Clients -> ConnType],
         \A c \in Clients : conn'[c] # NoConn =>
           conn'[c].at # "none" /\ conn'[c].to \in Procs /\ pc[conn'[c].to] \in Bound,
         TakenHere'
  PROVE  IInv'
BY DEF IInv, TypeOK, OneHolder, PathHeld, ConnsLive

\* So do the requests of a connection and the daemon that serves them.
LEMMA WorkKeeps ==
  ASSUME IInv, NEW p \in Procs, Work(p)
  PROVE  IInv'
<1> USE DEF IInv
<1>1. CASE Serve(p)
  <2>1. UNCHANGED <<pc, lock, path, wiped, conn, taken>> /\ heard' \in [Procs -> BOOLEAN]
    BY <1>1 DEF Serve, fileVars, TypeOK
  <2> QED BY <2>1, ConnsKeep DEF ConnsLive, TakenHere, TypeOK
<1>2. CASE Accept(p)
  <2>1. PICK c \in Clients :
          /\ conn[c] = [to |-> p, at |-> "waiting"]
          /\ taken' = [taken EXCEPT ![p] = c]
          /\ conn' = [conn EXCEPT ![c].at = "accepted"]
    BY <1>2 DEF Accept
  <2>2. conn'[c] = [to |-> p, at |-> "accepted"] /\ \A d \in Clients \ {c} : conn'[d] = conn[d]
    BY <2>1 DEF TypeOK
  <2>3. conn' \in [Clients -> ConnType]
    BY <2>1, <2>2 DEF TypeOK, ConnType
  <2>4. pc[p] \in Bound
    BY <2>1 DEF ConnsLive, NoConn
  <2>5. \A q \in Procs : taken[q] # c
    <3> SUFFICES ASSUME NEW q \in Procs, taken[q] = c PROVE FALSE
      OBVIOUS
    <3>1. conn[c] = [to |-> q, at |-> "accepted"]
      BY ServeAssumption DEF TakenHere
    <3>2. conn[c].at = "accepted" /\ conn[c].at = "waiting"
      BY <2>1, <3>1
    <3> QED BY <3>2
  <2>6. TakenHere'
    BY <2>1, <2>2, <2>5 DEF TakenHere, TypeOK
  <2>7. UNCHANGED <<pc, lock, path, wiped, heard>>
    BY <1>2 DEF Accept, fileVars
  <2>8. \A d \in Clients : conn'[d] # NoConn =>
           conn'[d].at # "none" /\ conn'[d].to \in Procs /\ pc[conn'[d].to] \in Bound
    BY <2>2, <2>4 DEF ConnsLive
  <2> QED BY <2>1, <2>3, <2>6, <2>7, <2>8, ConnsKeep DEF TypeOK
<1>3. CASE Count(p)
  <2> DEFINE c == taken[p]
  <2>1. c \in Clients /\ conn[c] = [to |-> p, at |-> "accepted"]
    BY <1>3 DEF Count, TakenHere, TypeOK
  <2>2. conn' = [conn EXCEPT ![c].at = "open"] /\ taken' = [taken EXCEPT ![p] = None]
        /\ UNCHANGED <<pc, lock, path, wiped, heard>>
    BY <1>3 DEF Count, fileVars
  <2>3. conn'[c] = [to |-> p, at |-> "open"] /\ \A d \in Clients \ {c} : conn'[d] = conn[d]
    BY <2>1, <2>2 DEF TypeOK
  <2>4. conn' \in [Clients -> ConnType]
    BY <2>1, <2>2, <2>3 DEF TypeOK, ConnType
  <2>5. pc[p] \in Bound
    BY <2>1 DEF ConnsLive, NoConn
  <2>6. TakenHere'
    <3> SUFFICES ASSUME NEW q \in Procs, taken'[q] # None
                 PROVE  conn'[taken'[q]] = [to |-> q, at |-> "accepted"]
      BY DEF TakenHere
    <3>1. q # p /\ taken'[q] = taken[q] /\ taken[q] \in Clients
      BY <2>2 DEF TypeOK
    <3>2. conn[taken[q]] = [to |-> q, at |-> "accepted"]
      BY <3>1 DEF TakenHere
    <3>3. taken[q] # c
      BY <2>1, <3>1, <3>2
    <3> QED BY <2>3, <3>1, <3>2, <3>3
  <2>7. \A d \in Clients : conn'[d] # NoConn =>
           conn'[d].at # "none" /\ conn'[d].to \in Procs /\ pc[conn'[d].to] \in Bound
    BY <2>3, <2>5 DEF ConnsLive
  <2> QED BY <2>2, <2>4, <2>6, <2>7, ConnsKeep DEF TypeOK
<1> QED BY <1>1, <1>2, <1>3 DEF Work

\* A client's step changes its own connection, which is not a taken one.
LEMMA ClientKeeps ==
  ASSUME IInv, NEW c \in Clients, NEW k \in ConnType,
         conn' = [conn EXCEPT ![c] = k],
         UNCHANGED <<pc, lock, path, wiped, heard, taken>>,
         conn[c].at # "accepted",
         k = NoConn \/ (k.at # "none" /\ k.to \in Procs /\ pc[k.to] \in Bound)
  PROVE  IInv'
<1> USE DEF IInv
<1>1. conn'[c] = k /\ \A d \in Clients \ {c} : conn'[d] = conn[d]
  BY DEF TypeOK
<1>2. \A p \in Procs : taken[p] # None => taken[p] # c
  <2> SUFFICES ASSUME NEW p \in Procs, taken[p] # None, taken[p] = c PROVE FALSE
    OBVIOUS
  <2>1. conn[c] = [to |-> p, at |-> "accepted"]
    BY DEF TakenHere
  <2>2. conn[c].at = "accepted"
    BY <2>1
  <2> QED BY <2>2
<1>3. TakenHere'
  BY <1>1, <1>2 DEF TakenHere, TypeOK
<1>4. \A d \in Clients : conn'[d] # NoConn =>
        conn'[d].at # "none" /\ conn'[d].to \in Procs /\ pc[conn'[d].to] \in Bound
  BY <1>1 DEF ConnsLive
<1> QED BY <1>3, <1>4, ConnsKeep DEF TypeOK

\* So do the clients, who connect to whatever the path leads to.
LEMMA ClientsKeep ==
  ASSUME IInv, NEW c \in Clients, Answer(c) \/ Client(c)
  PROVE  IInv'
<1> USE DEF IInv
<1>0. conn[c] \in ConnType
  BY DEF TypeOK
<1>1. ASSUME NEW at \in {"open", "call"}, conn[c].at \in {"open", "call"},
             conn' = [conn EXCEPT ![c].at = at],
             UNCHANGED <<pc, lock, path, wiped, heard, taken>>
      PROVE  IInv'
  <2> DEFINE k == [to |-> conn[c].to, at |-> at]
  <2>0. k = [conn[c] EXCEPT !.at = at] /\ k \in ConnType
    BY <1>0 DEF ConnType
  <2>1. conn' = [conn EXCEPT ![c] = k] /\ k \in ConnType
    BY <1>1, <2>0 DEF TypeOK
  <2>2. k.at # "none" /\ k.to \in Procs /\ pc[k.to] \in Bound
    BY <1>1 DEF ConnsLive, NoConn
  <2> HIDE DEF k
  <2> QED BY <1>1, <2>1, <2>2, ClientKeeps
<1>2. CASE Answer(c)
  BY <1>1, <1>2 DEF Answer
<1>3. CASE Request(c)
  BY <1>1, <1>3 DEF Request, procVars, fileVars
<1>4. CASE HangUp(c)
  <2>1. NoConn \in ConnType
    BY DEF NoConn, ConnType
  <2>2. conn' = [conn EXCEPT ![c] = NoConn] /\ conn[c].at # "accepted"
        /\ UNCHANGED <<pc, lock, path, wiped, heard, taken>>
    BY <1>4 DEF HangUp, fileVars
  <2> QED BY <2>1, <2>2, ClientKeeps
<1>5. CASE Connect(c)
  <2> DEFINE k == [to |-> path, at |-> "waiting"]
  <2>1. k \in ConnType /\ k.at # "none" /\ k.to \in Procs /\ pc[k.to] \in Bound
    BY <1>5 DEF Connect, TypeOK, ConnType, Listening, Bound
  <2>2. conn' = [conn EXCEPT ![c] = k] /\ conn[c].at # "accepted"
        /\ UNCHANGED <<pc, lock, path, wiped, heard, taken>>
    BY <1>5 DEF Connect, NoConn, procVars, fileVars
  <2> HIDE DEF k
  <2> QED BY <2>1, <2>2, ClientKeeps
<1> QED BY <1>2, <1>3, <1>4, <1>5 DEF Client

-----------------------------------------------------------------------------
(* Shutdown, and the whole. *)

\* So does a shutdown, which unbinds before the lock goes.
LEMMA CloseKeeps ==
  ASSUME IInv, NEW p \in Procs, Close(p)
  PROVE  IInv'
<1> USE DEF IInv
<1> DEFINE to == IF heard[p] THEN "wait" ELSE "left"
<1>0. /\ pc[p] = "close" /\ pc' = [pc EXCEPT ![p] = to]
      /\ UNCHANGED <<heard, taken, lock, wiped>>
  BY DEF Close
<1>a. /\ to \in {"wait", "left"}
      /\ to = "left" => path' = path
  BY DEF Close
<1> HIDE DEF to
<1>1. \A q \in Procs : pc'[q] = IF q = p THEN to ELSE pc[q]
  BY <1>0 DEF TypeOK
<1>2. path' \in {path, None}
  BY DEF Close
<1>3. \A c \in Clients :
        conn'[c] = conn[c] \/ (conn'[c] = NoConn /\ conn[c] = [to |-> p, at |-> "waiting"])
  BY DEF Close
<1>4. conn' \in [Clients -> ConnType]
  <2>1. conn' = [c \in Clients |-> conn'[c]]
    BY DEF Close, TypeOK
  <2> QED BY <1>3, <2>1 DEF TypeOK, ConnType, NoConn
<1>5. TypeOK'
  BY <1>0, <1>a, <1>2, <1>4 DEF TypeOK
<1>6. OneHolder'
  BY <1>0, <1>a, <1>1 DEF OneHolder, PastLock, Bound
<1>7. ~wiped => \A q \in Procs \ {p} : pc[q] \notin PastLock
  BY <1>0 DEF OneHolder, PastLock, Bound
<1>8. PathHeld'
  BY <1>0, <1>a, <1>1, <1>7 DEF PathHeld, Listening, PastLock, Bound
<1>9. ConnsLive'
  BY <1>a, <1>1, <1>3 DEF ConnsLive, Bound
<1>10. TakenHere'
  <2> SUFFICES ASSUME NEW q \in Procs, taken[q] # None
               PROVE  conn'[taken[q]] = [to |-> q, at |-> "accepted"]
    BY <1>0 DEF TakenHere
  <2>1. taken[q] \in Clients /\ conn[taken[q]] = [to |-> q, at |-> "accepted"]
    BY DEF TakenHere, TypeOK
  <2> QED BY <1>3, <2>1
<1> QED BY <1>5, <1>6, <1>8, <1>9, <1>10

\* The invariant is inductive.
LEMMA NextIInv == IInv /\ [Next]_vars => IInv'
<1> SUFFICES ASSUME IInv, [Next]_vars PROVE IInv'
  OBVIOUS
<1>1. ASSUME NEW p \in Procs, Start(p) PROVE IInv'
  BY <1>1, StartKeeps
<1>2. ASSUME NEW p \in Procs, Work(p) PROVE IInv'
  BY <1>2, WorkKeeps
<1>3. ASSUME NEW p \in Procs, Signal(p) PROVE IInv'
  <2>1. pc' = [pc EXCEPT ![p] = "close"] /\ pc[p] = "serve"
        /\ UNCHANGED <<heard, taken, wiped, conn, lock, path>>
    BY <1>3 DEF Signal, fileVars
  <2> QED BY <2>1, MoveKeeps
          DEF IInv, TypeOK, OneHolder, PathHeld, Starting, PastLock, Bound, Listening
<1>4. ASSUME NEW p \in Procs, End(p) \/ Crash(p) PROVE IInv'
  <2>1. CASE Close(p)
    BY <2>1, CloseKeeps
  <2>2. CASE Exit(p)
    BY <2>2, GoneKeeps DEF Exit
  <2>3. CASE Crash(p)
    BY <2>3, GoneKeeps DEF Crash
  <2> QED BY <1>4, <2>1, <2>2, <2>3 DEF End
<1>5. ASSUME NEW c \in Clients, Answer(c) \/ Client(c) PROVE IInv'
  BY <1>5, ClientsKeep
<1>6. CASE Wipe
  BY <1>6 DEF Wipe, procVars, IInv, TypeOK, OneHolder, PathHeld, ConnsLive, TakenHere
<1>7. CASE UNCHANGED vars
  BY <1>7 DEF vars, procVars, fileVars, IInv, TypeOK, OneHolder, PathHeld, ConnsLive, TakenHere
<1> QED BY <1>1, <1>2, <1>3, <1>4, <1>5, <1>6, <1>7 DEF Next

\* So it holds in every reachable state.
LEMMA AlwaysIInv == Spec => []IInv
BY InitIInv, NextIInv, PTL DEF Spec

\* Any number of daemons may be started, crash and be shut down over one path:
\* one that serves is reached by it, for as long as the lock file stays.
THEOREM NoDaemonIsDeaf == Spec => []NoDeafDaemon
<1>1. IInv => NoDeafDaemon
  BY DEF IInv, PathHeld, NoDeafDaemon, Listening
<1> QED BY <1>1, AlwaysIInv, PTL

\* All calls that run at a moment run in one process, the lock's holder, while
\* others start or are on their way out.
THEOREM OneProcessWrites == Spec => []SingleWriter
<1>1. IInv => SingleWriter
  <2> SUFFICES ASSUME IInv, ~wiped, NEW c \in Clients, NEW d \in Clients,
                      conn[c].at = "call", conn[d].at = "call"
               PROVE  conn[c].to = conn[d].to
    BY DEF SingleWriter
  <2>1. /\ conn[c].to \in Procs /\ pc[conn[c].to] \in PastLock
        /\ conn[d].to \in Procs /\ pc[conn[d].to] \in PastLock
    BY DEF IInv, ConnsLive, NoConn, PastLock
  <2> QED BY <2>1 DEF IInv, OneHolder
<1> QED BY <1>1, AlwaysIInv, PTL

-----------------------------------------------------------------------------
(* SlowPath: the watcher's cache, the bus and the frames remembered.           *)

\* No answer that can still land is older than the one that has: the query that
\* is awaited began after whatever the cache holds was seen.
CacheLine ==
  /\ changes \in Nat /\ cache.at \in 0..changes
  /\ \A q \in Asked : query[q].at \in 0..changes
  /\ Asked = 1..Newest /\ Newest \in Nat
  /\ watcher = "wait" => Newest # 0 /\ cache.at <= query[Newest].at

\* It is so at the start.
LEMMA CacheStarts ==
  ASSUME WatchInit
  PROVE  CacheLine
<1>1. Asked = {}
  BY DEF WatchInit, Asked
<1>2. Newest = 0
  BY <1>1, FS_EmptySet DEF Newest
<1> QED BY <1>1, <1>2 DEF WatchInit, CacheLine

\* The watcher keeps it, and the cache with it never goes back: what lands is
\* the awaited query's answer or nothing.
LEMMA CacheLineKept ==
  ASSUME CacheLine, WatchNext \/ UNCHANGED watchVars
  PROVE  CacheLine' /\ cache'.at >= cache.at
<1>1. CASE StartQuery
  <2> DEFINE n == Newest
  <2>1. n \in Nat /\ Asked = 1..n
    BY DEF CacheLine
  <2> HIDE DEF n
  <2>2. query' = [q \in 1..(n + 1) |-> IF q \in Asked THEN query[q] ELSE Snapshot("out")]
    BY <1>1 DEF StartQuery, n
  <2>3. Asked' = 1..(n + 1)
    BY <2>2 DEF Asked
  <2>4. Newest' = n + 1
    BY <2>1, <2>3, FS_Interval DEF Newest
  <2>5. query'[n + 1].at = changes
    BY <2>1, <2>2 DEF Snapshot
  <2>6. \A q \in 1..n : query'[q] = query[q]
    BY <2>1, <2>2
  <2>7. changes' = changes /\ cache' = cache
    BY <1>1 DEF StartQuery
  <2> QED BY <2>1, <2>3, <2>4, <2>5, <2>6, <2>7 DEF CacheLine
<1>2. CASE Focused
  <2>1. PICK q \in Outstanding, state \in {"seen", "failed"} :
          query' = [query EXCEPT ![q] = Snapshot(state)]
    BY <1>2 DEF Focused
  <2>2. Asked' = Asked
    BY <2>1 DEF Asked
  <2>3. Newest' = Newest
    BY <2>2 DEF Newest
  <2>4. \A p \in Asked : query'[p] = query[p] \/ query'[p].at = changes
    BY <2>1 DEF Asked, Snapshot
  <2>5. UNCHANGED <<focus, changes, watcher, slot, cache>>
    BY <1>2 DEF Focused
  <2> QED BY <2>2, <2>3, <2>4, <2>5 DEF CacheLine
<1>3. CASE Land
  <2>1. cache' = cache \/ cache'.at = query[Newest].at
    BY <1>3 DEF Land
  <2>2. Newest \in Asked /\ cache.at <= query[Newest].at /\ query[Newest].at \in 0..changes
    BY <1>3 DEF Land, CacheLine
  <2>3. /\ changes' = changes /\ query' = query /\ watcher' = "tick"
    BY <1>3 DEF Land
  <2> QED BY <2>1, <2>2, <2>3 DEF CacheLine, Asked, Newest
<1>4. CASE GiveUp
  BY <1>4 DEF GiveUp, CacheLine, Asked, Newest
<1>5. CASE StopWatching
  BY <1>5 DEF StopWatching, CacheLine, Asked, Newest
<1>6. CASE Switch
  BY <1>6 DEF Switch, CacheLine, Asked, Newest
<1>7. CASE UNCHANGED watchVars
  BY <1>7 DEF watchVars, CacheLine, Asked, Newest
<1> QED BY <1>1, <1>2, <1>3, <1>4, <1>5, <1>6, <1>7 DEF WatchNext

-----------------------------------------------------------------------------
(* The bus.                                                                    *)

Rising(s) == \A i, j \in DOMAIN s : i < j => s[i] < s[j]
Below(s, t) == \A i \in DOMAIN s, j \in DOMAIN t : s[i] < t[j]
UpTo(s, n) == \A i \in DOMAIN s : s[i] <= n

\* Before two drains meet, what is delivered, then the one batch in hand, then
\* what is pending are one rising line, none of it beyond the newest outcome.
BusLine ==
  /\ outcomes \in Nat /\ pending \in Seq(Nat) /\ delivered \in Seq(Nat)
  /\ batch \in [Drainers -> Seq(Nat)]
  /\ UpTo(pending, outcomes) /\ UpTo(delivered, outcomes) /\ Rising(pending)
  /\ \A b \in Drainers : UpTo(batch[b], outcomes)
  /\ ~overlap =>
       /\ \A a, b \in Drainers : batch[a] # <<>> /\ batch[b] # <<>> => a = b
       /\ Rising(delivered) /\ Below(delivered, pending)
       /\ \A b \in Drainers :
            Rising(batch[b]) /\ Below(delivered, batch[b]) /\ Below(batch[b], pending)

\* It is so at the start.
LEMMA BusStarts ==
  ASSUME RecordInit
  PROVE  BusLine
BY DEF RecordInit, BusLine, Rising, Below, UpTo

\* Appending to a rising sequence what is above it.
LEMMA AppendRises ==
  ASSUME NEW s \in Seq(Nat), NEW n \in Nat
  PROVE  /\ Append(s, n) \in Seq(Nat)
         /\ \A i \in DOMAIN s : Append(s, n)[i] = s[i]
         /\ Append(s, n)[Len(s) + 1] = n
         /\ DOMAIN Append(s, n) = DOMAIN s \cup {Len(s) + 1}
         /\ DOMAIN s = 1..Len(s) /\ Len(s) \in Nat
         /\ Rising(s) /\ (\A i \in DOMAIN s : s[i] < n) => Rising(Append(s, n))
<1>1. /\ Append(s, n) \in Seq(Nat) /\ Len(Append(s, n)) = Len(s) + 1
      /\ \A i \in 1..Len(s) : Append(s, n)[i] = s[i]
      /\ Append(s, n)[Len(s) + 1] = n
      /\ DOMAIN s = 1..Len(s) /\ Len(s) \in Nat
  OBVIOUS
<1>2. DOMAIN Append(s, n) = 1..(Len(s) + 1)
  BY <1>1
<1>3. \A i \in DOMAIN s : s[i] \in Nat
  OBVIOUS
<1>4. Rising(s) /\ (\A i \in DOMAIN s : s[i] < n) => Rising(Append(s, n))
  BY <1>1, <1>2, <1>3 DEF Rising
<1> QED BY <1>1, <1>2, <1>4

\* Publishing adds to the end of the line, a drain moves what is pending into a
\* batch, a delivery its head to what is delivered.
LEMMA BusLineKept ==
  ASSUME BusLine, RecordNext \/ UNCHANGED recordVars
  PROVE  BusLine'
<1>1. ASSUME outcomes' \in Nat, outcomes' >= outcomes, UNCHANGED <<pending, batch, delivered, overlap>>
      PROVE  BusLine'
  <2>1. \A s \in Seq(Nat) : UpTo(s, outcomes) => UpTo(s, outcomes')
    BY <1>1 DEF UpTo, BusLine
  <2> QED BY <1>1, <2>1 DEF BusLine
<1>2. CASE UNCHANGED busVars /\ outcomes' \in {outcomes, outcomes + 1}
  BY <1>1, <1>2 DEF busVars, BusLine
<1>3. CASE Publish
  <2>1. CASE UNCHANGED pending
    BY <1>1, <1>3, <2>1 DEF Publish, BusLine
  <2>2. CASE pending' = Append(pending, outcomes + 1)
    <3>1. outcomes' = outcomes + 1 /\ UNCHANGED <<batch, delivered, overlap>>
      BY <1>3 DEF Publish
    <3>2. \A s \in Seq(Nat) : UpTo(s, outcomes) => UpTo(s, outcomes') /\ Below(s, <<outcomes + 1>>)
      BY <3>1 DEF UpTo, Below, BusLine
    <3>3. pending' \in Seq(Nat) /\ Rising(pending') /\ UpTo(pending', outcomes')
      BY <2>2, <3>1, AppendRises DEF UpTo, BusLine
    <3>4. \A s \in Seq(Nat) : UpTo(s, outcomes) /\ Below(s, pending) => Below(s, pending')
      BY <2>2, AppendRises DEF UpTo, Below, BusLine
    <3> QED BY <3>1, <3>2, <3>3, <3>4 DEF BusLine
  <2> QED BY <1>3, <2>1, <2>2 DEF Publish
<1>4. ASSUME NEW b \in Drainers, Drain(b) PROVE BusLine'
  <2>1. /\ batch[b] = <<>> /\ batch' = [batch EXCEPT ![b] = pending] /\ pending' = <<>>
        /\ overlap' = (overlap \/ \E other \in Drainers \ {b} : batch[other] # <<>>)
        /\ UNCHANGED <<outcomes, delivered>>
    BY <1>4 DEF Drain
  <2>2. batch'[b] = pending /\ \A a \in Drainers \ {b} : batch'[a] = batch[a]
    BY <2>1 DEF BusLine
  <2>3. /\ batch' \in [Drainers -> Seq(Nat)] /\ pending' \in Seq(Nat)
        /\ \A a \in Drainers : UpTo(batch'[a], outcomes')
    BY <2>1, <2>2 DEF BusLine
  <2>4. UpTo(pending', outcomes') /\ Rising(pending') /\ \A s : Below(s, pending')
    BY <2>1 DEF UpTo, Rising, Below
  <2>5. ASSUME ~overlap' PROVE ~overlap /\ \A a \in Drainers \ {b} : batch'[a] = <<>>
    BY <2>1, <2>2, <2>5
  <2>6. \A s : Below(s, <<>>) /\ Rising(<<>>)
    BY DEF Below, Rising
  <2> QED BY <2>1, <2>2, <2>3, <2>4, <2>5, <2>6 DEF BusLine
<1>5. ASSUME NEW b \in Drainers, Deliver(b) PROVE BusLine'
  <2> DEFINE s == batch[b]
  <2>1. /\ s # <<>> /\ delivered' = Append(delivered, Head(s))
        /\ batch' = [batch EXCEPT ![b] = Tail(s)]
        /\ UNCHANGED <<outcomes, pending, overlap>>
    BY <1>5 DEF Deliver
  <2>2. /\ s \in Seq(Nat) /\ s[1] \in Nat /\ Head(s) = s[1] /\ 1 \in DOMAIN s
        /\ Tail(s) \in Seq(Nat)
        /\ \A i \in DOMAIN Tail(s) : i + 1 \in DOMAIN s /\ Tail(s)[i] = s[i + 1] /\ 1 < i + 1
    BY <2>1 DEF BusLine
  <2>3. batch'[b] = Tail(s) /\ \A a \in Drainers \ {b} : batch'[a] = batch[a]
    BY <2>1 DEF BusLine
  <2> HIDE DEF s
  <2>4. batch' \in [Drainers -> Seq(Nat)] /\ delivered' \in Seq(Nat)
    BY <2>1, <2>2, <2>3, AppendRises DEF BusLine
  <2>5. UpTo(s, outcomes) /\ outcomes \in Nat
    BY DEF BusLine, s
  <2>6. UpTo(Tail(s), outcomes)
    BY <2>2, <2>5 DEF UpTo
  <2>7. UpTo(delivered', outcomes)
    BY <2>1, <2>2, <2>5, AppendRises DEF UpTo, BusLine
  <2>8. ASSUME ~overlap PROVE
          /\ \A a \in Drainers \ {b} : batch'[a] = <<>>
          /\ Rising(delivered') /\ Below(delivered', pending)
          /\ Rising(Tail(s)) /\ Below(delivered', Tail(s)) /\ Below(Tail(s), pending)
    <3>1. \A a \in Drainers \ {b} : batch[a] = <<>>
      BY <2>1, <2>8 DEF BusLine, s
    <3>2. /\ Rising(delivered) /\ Below(delivered, pending) /\ Rising(s)
          /\ Below(delivered, s) /\ Below(s, pending)
      BY <2>8 DEF BusLine, s
    <3>3. Rising(Tail(s))
      BY <2>2, <3>2 DEF Rising
    <3>4. Below(Tail(s), pending)
      BY <2>2, <3>2 DEF Below
    <3>5. Rising(delivered')
      <4>1. \A i \in DOMAIN delivered : delivered[i] < s[1]
        BY <2>2, <3>2 DEF Below
      <4> QED BY <2>1, <2>2, <3>2, <4>1, AppendRises DEF BusLine
    <3>6. \A i \in DOMAIN delivered' :
            delivered'[i] = s[1] \/ (i \in DOMAIN delivered /\ delivered'[i] = delivered[i])
      BY <2>1, <2>2, AppendRises DEF BusLine
    <3>7. Below(delivered', pending)
      BY <2>2, <3>2, <3>6 DEF Below
    <3>8. Below(delivered', Tail(s))
      <4>1. \A j \in DOMAIN Tail(s) : s[1] < Tail(s)[j]
        BY <2>2, <3>2 DEF Rising
      <4>2. \A i \in DOMAIN delivered, j \in DOMAIN Tail(s) : delivered[i] < Tail(s)[j]
        BY <2>2, <3>2 DEF Below
      <4> QED BY <3>6, <4>1, <4>2 DEF Below
    <3> QED BY <2>3, <3>1, <3>3, <3>4, <3>5, <3>7, <3>8
  <2>9. \A a \in Drainers : UpTo(batch'[a], outcomes')
    BY <2>1, <2>3, <2>6 DEF BusLine
  <2>10. \A t : Below(t, <<>>) /\ Rising(<<>>) /\ Below(<<>>, t)
    BY DEF Below, Rising
  <2>11. UpTo(pending', outcomes') /\ Rising(pending') /\ pending' \in Seq(Nat) /\ outcomes' \in Nat
    BY <2>1 DEF BusLine
  <2> QED BY <2>1, <2>3, <2>4, <2>7, <2>8, <2>9, <2>10, <2>11 DEF BusLine
<1>6. CASE SetMode \/ SetObserve \/ Traces \/ TracesClear \/ Perform
  BY <1>2, <1>6 DEF SetMode, SetObserve, Traces, TracesClear, Perform
<1>7. ASSUME NEW d \in Deciders, Decide(d) \/ Record(d) \/ Replay(d) \/ Attach(d) PROVE BusLine'
  BY <1>2, <1>7 DEF Decide, Record, Replay, Attach
<1>8. CASE UNCHANGED recordVars
  BY <1>2, <1>8 DEF recordVars
<1> QED BY <1>3, <1>4, <1>5, <1>6, <1>7, <1>8 DEF RecordNext

-----------------------------------------------------------------------------
(* The frames remembered.                                                      *)

\* The order names each window that is remembered once.
Remembering ==
  /\ hist.order \in Seq(Windows) /\ Len(hist.order) <= HistoryCap
  /\ \A i, j \in DOMAIN hist.order : hist.order[i] = hist.order[j] => i = j
  /\ Remembered(hist) = {hist.order[i] : i \in DOMAIN hist.order}

\* w is remembered with the frame it had before its first snap, and the windows
\* behind it in the order were first snapped since.
Recoverable(w) ==
  \E i \in DOMAIN hist.order :
    /\ hist.order[i] = w /\ hist.frames[w] = before[w].frame
    /\ \A j \in DOMAIN hist.order : i < j => hist.order[j] \in before[w].since

\* Stronger than RestoreUndoes: why a window is not pushed out too early is that
\* those behind it are counted.
FrameLine ==
  /\ Remembering
  /\ Remembered(hist) \subseteq DOMAIN before /\ DOMAIN before \subseteq Windows
  /\ \A w \in DOMAIN before :
       /\ before[w] = [frame |-> before[w].frame, since |-> before[w].since]
       /\ IsFiniteSet(before[w].since)
       /\ Cardinality(before[w].since) < HistoryCap => Recoverable(w)

\* It is so at the start.
LEMMA FramesStart ==
  ASSUME SnapInit
  PROVE  FrameLine
BY SnapAssumption DEF SnapInit, FrameLine, Remembering, Remembered, NoFrames

\* A window that is forgotten for its age has seen as many windows after it as
\* the history holds.
LEMMA AgedOut ==
  ASSUME FrameLine, NEW w \in Windows, w \notin Remembered(hist),
         Len(hist.order) = HistoryCap,
         NEW since, IsFiniteSet(since), w \in since,
         \A j \in DOMAIN hist.order : 1 < j => hist.order[j] \in since
  PROVE  Cardinality(since) >= HistoryCap
<1> DEFINE place == [i \in 1..HistoryCap |-> IF i = 1 THEN w ELSE hist.order[i]]
<1>1. HistoryCap \in Nat \ {0} /\ DOMAIN hist.order = 1..HistoryCap
  BY SnapAssumption DEF FrameLine, Remembering
<1>2. \A i \in 1..HistoryCap : hist.order[i] # w
  BY <1>1 DEF FrameLine, Remembering
<1>3. place \in Injection(1..HistoryCap, since)
  <2>1. place \in [1..HistoryCap -> since]
    BY <1>1
  <2>2. \A i, j \in 1..HistoryCap : place[i] = place[j] => i = j
    BY <1>1, <1>2 DEF FrameLine, Remembering
  <2> QED BY <2>1, <2>2 DEF Injection, IsInjective
<1> HIDE DEF place
<1>4. Cardinality(1..HistoryCap) <= Cardinality(since)
  BY <1>3, FS_Injection
<1>5. Cardinality(1..HistoryCap) = HistoryCap /\ Cardinality(since) \in Nat
  BY <1>1, FS_Interval, FS_CardinalityType
<1> QED BY <1>1, <1>4, <1>5

\* Forgetting one window leaves the others their frames.
LEMMA ForgetLeaves ==
  ASSUME NEW known, NEW w
  PROVE  /\ DOMAIN Forget(known, w) = DOMAIN known \ {w}
         /\ \A v \in DOMAIN known \ {w} : Forget(known, w)[v] = known[v]
BY DEF Forget

\* What stands where behind the first of a sequence.
LEMMA PlacesBehind ==
  ASSUME NEW a \in Seq(Windows), NEW n \in Nat, Len(a) = n + 1
  PROVE  /\ Head(a) = a[1] /\ Tail(a) \in Seq(Windows) /\ Len(Tail(a)) = n
         /\ DOMAIN Tail(a) = 1..n /\ \A i \in 1..n : Tail(a)[i] = a[i + 1]
OBVIOUS

\* A first snap puts its window last, and may push the oldest one out.
LEMMA FirstSnapKeeps ==
  ASSUME FrameLine, NEW w \in Windows, NEW zone, Snap(w, zone), w \notin Remembered(hist)
  PROVE  FrameLine'
<1> DEFINE s == hist.order
           n == Len(s)
<1>1. /\ s \in Seq(Windows) /\ n \in Nat /\ DOMAIN s = 1..n /\ n <= HistoryCap
      /\ HistoryCap \in Nat \ {0}
      /\ \A i, j \in 1..n : s[i] = s[j] => i = j
      /\ Remembered(hist) = {s[i] : i \in 1..n}
  BY SnapAssumption DEF FrameLine, Remembering
<1>2. /\ Append(s, w) \in Seq(Windows) /\ Len(Append(s, w)) = n + 1
      /\ DOMAIN Append(s, w) = 1..(n + 1)
      /\ \A i \in 1..n : Append(s, w)[i] = s[i]
      /\ Append(s, w)[n + 1] = w
  BY <1>1
<1>3. hist' = Push(hist, w, frames[w], HistoryCap)
  BY DEF Snap, Resolve
<1>4. before' = [v \in DOMAIN before \cup {w} |->
       IF v \notin DOMAIN before THEN [frame |-> frames[w], since |-> {}]
       ELSE IF v # w THEN [before[v] EXCEPT !.since = @ \cup {w}]
       ELSE before[v]]
  BY DEF Snap
<1> DEFINE a == Append(s, w)
           k == IF n = HistoryCap THEN 1 ELSE 0
           m == n + 1 - k
           pushed == [v \in Remembered(hist) \cup {w} |->
                        IF v = w THEN frames[w] ELSE hist.frames[v]]
           r == hist'.order
<1>5. /\ k \in {0, 1} /\ m \in Nat \ {0} /\ m <= HistoryCap /\ m + k = n + 1
      /\ k = 1 => n = HistoryCap
  BY <1>1
<1>6. hist' = IF Len(a) > HistoryCap
              THEN [frames |-> Forget(pushed, Head(a)), order |-> Tail(a)]
              ELSE [frames |-> pushed, order |-> a]
  BY <1>3, Zenon DEF Push
<1>7. /\ \A i \in 1..(n + 1) : a[i] = IF i = n + 1 THEN w ELSE s[i]
      /\ \A i, j \in 1..(n + 1) : a[i] = a[j] => i = j
  BY <1>1, <1>2
<1>8. /\ a \in Seq(Windows) /\ Len(a) = n + 1 /\ DOMAIN a = 1..(n + 1)
      /\ \A i \in 1..n : a[i] = s[i]
      /\ n \in Nat /\ HistoryCap \in Nat \ {0} /\ n <= HistoryCap
  BY <1>1, <1>2
<1>9. k = 0 => n < HistoryCap
  BY <1>1
<1> HIDE DEF a, m, k, r, pushed, n, s
<1>10. /\ r \in Seq(Windows) /\ Len(r) = m /\ DOMAIN r = 1..m
       /\ \A i \in 1..m : r[i] = a[i + k]
  <2>1. CASE k = 0
    <3>1. ~(Len(a) > HistoryCap) /\ m = n + 1
      BY <1>8, <1>9, <1>5, <2>1
    <3>2. r = a
      BY <1>6, <3>1 DEF r
    <3>3. \A i \in 1..m : i + k = i
      BY <2>1
    <3> QED BY <1>8, <3>1, <3>2, <3>3
  <2>2. CASE k = 1
    <3>1. Len(a) > HistoryCap /\ m = n
      BY <1>8, <1>5, <2>2
    <3>2. r = Tail(a)
      BY <1>6, <3>1 DEF r
    <3>3. /\ Tail(a) \in Seq(Windows) /\ Len(Tail(a)) = n
          /\ DOMAIN Tail(a) = 1..n /\ \A i \in 1..n : Tail(a)[i] = a[i + 1]
      <4>1. a \in Seq(Windows) /\ Len(a) = n + 1 /\ n \in Nat
        BY <1>8
      <4> QED BY <4>1, PlacesBehind
    <3> QED BY <2>2, <3>1, <3>2, <3>3
  <2> QED BY <1>5, <2>1, <2>2
<1>11. /\ DOMAIN hist'.frames = IF k = 1 THEN (Remembered(hist) \cup {w}) \ {s[1]}
                                ELSE Remembered(hist) \cup {w}
       /\ \A v \in DOMAIN hist'.frames :
            hist'.frames[v] = IF v = w THEN frames[w] ELSE hist.frames[v]
  <2>1. /\ DOMAIN pushed = Remembered(hist) \cup {w}
        /\ \A v \in DOMAIN pushed : pushed[v] = IF v = w THEN frames[w] ELSE hist.frames[v]
    BY DEF pushed
  <2>2. CASE k = 1
    <3>1. Len(a) > HistoryCap
      BY <1>8, <1>5, <2>2
    <3>2. hist'.frames = Forget(pushed, Head(a))
      BY <1>6, <3>1
    <3>3. Head(a) = s[1]
      <4>1. Head(a) = a[1]
        <5>1. a \in Seq(Windows) /\ Len(a) = n + 1 /\ n \in Nat
          BY <1>8
        <5> QED BY <5>1, PlacesBehind
      <4>2. 1 \in 1..n
        BY <1>8, <1>5, <2>2
      <4> QED BY <1>8, <4>1, <4>2
    <3>4. /\ DOMAIN Forget(pushed, s[1]) = DOMAIN pushed \ {s[1]}
          /\ \A v \in DOMAIN pushed \ {s[1]} : Forget(pushed, s[1])[v] = pushed[v]
      BY ForgetLeaves
    <3> QED BY <2>1, <2>2, <3>2, <3>3, <3>4
  <2>3. CASE k = 0
    <3>1. ~(Len(a) > HistoryCap)
      BY <1>8, <1>9, <2>3
    <3>2. hist'.frames = pushed
      BY <1>6, <3>1
    <3> QED BY <2>1, <2>3, <3>2
  <2> QED BY <1>5, <2>2, <2>3
<1>12. \A i, j \in 1..m : r[i] = r[j] => i = j
  <2> SUFFICES ASSUME NEW i \in 1..m, NEW j \in 1..m, r[i] = r[j]
               PROVE  i = j
    OBVIOUS
  <2>1. i + k \in 1..(n + 1) /\ j + k \in 1..(n + 1)
    BY <1>1, <1>5
  <2>2. i + k = j + k
    BY <1>10, <1>7, <2>1
  <2> QED BY <1>5, <2>2
<1>13. Remembered(hist') = {r[i] : i \in 1..m}
  <2>1. Remembered(hist') = IF k = 1 THEN (Remembered(hist) \cup {w}) \ {s[1]}
                            ELSE Remembered(hist) \cup {w}
    BY <1>11 DEF Remembered
  <2>2. Remembered(hist) \cup {w} = {a[i] : i \in 1..(n + 1)}
    BY <1>1, <1>7
  <2>3. CASE k = 0
    BY <1>5, <1>10, <2>1, <2>2, <2>3
  <2>4. CASE k = 1
    <3>1. s[1] = a[1] /\ m = n /\ n >= 1
      BY <1>1, <1>5, <1>7, <2>4
    <3>2. {r[i] : i \in 1..m} = {a[i] : i \in 2..(n + 1)}
      <4>1. \A i \in 2..(n + 1) : i - 1 \in 1..m /\ r[i - 1] = a[i]
        BY <1>1, <1>10, <2>4, <3>1
      <4>2. \A i \in 1..m : i + 1 \in 2..(n + 1) /\ r[i] = a[i + 1]
        BY <1>1, <1>10, <2>4, <3>1
      <4> QED BY <4>1, <4>2
    <3>3. {a[i] : i \in 1..(n + 1)} \ {a[1]} = {a[i] : i \in 2..(n + 1)}
      BY <1>1, <1>7
    <3> QED BY <2>1, <2>2, <2>4, <3>1, <3>2, <3>3
  <2> QED BY <1>5, <2>3, <2>4
<1>14. \A v \in Remembered(hist') : hist'.frames[v] = IF v = w THEN frames[w] ELSE hist.frames[v]
  BY <1>11 DEF Remembered
<1>15. Remembering'
  BY <1>5, <1>10, <1>12, <1>13 DEF Remembering, r
<1>16. w \notin DOMAIN before => Recoverable(w)'
  <2>1. r[m] = w
    BY <1>1, <1>5, <1>10, <1>7
  <2>2. w \in Remembered(hist')
    BY <1>5, <1>13, <2>1
  <2>3. w \notin DOMAIN before => before'[w].frame = frames[w]
    BY <1>4
  <2> SUFFICES ASSUME w \notin DOMAIN before PROVE Recoverable(w)'
    OBVIOUS
  <2>4. /\ m \in DOMAIN r /\ r[m] = w /\ hist'.frames[w] = before'[w].frame
        /\ \A j \in DOMAIN r : m < j => r[j] \in before'[w].since
    BY <1>5, <1>10, <1>14, <2>1, <2>2, <2>3
  <2> QED BY <2>4 DEF Recoverable, r
<1>17. ASSUME NEW v \in DOMAIN before, v # w
       PROVE  /\ before'[v] = [frame |-> before'[v].frame, since |-> before'[v].since]
              /\ IsFiniteSet(before'[v].since)
              /\ Cardinality(before'[v].since) < HistoryCap => Recoverable(v)'
  <2> DEFINE since == before[v].since \cup {w}
  <2>1. before[v] = [frame |-> before[v].frame, since |-> before[v].since]
        /\ IsFiniteSet(before[v].since)
    BY DEF FrameLine
  <2>2. before'[v] = [frame |-> before[v].frame, since |-> since]
    BY <1>4, <1>17, <2>1
  <2>3. IsFiniteSet(since) /\ Cardinality(before[v].since) <= Cardinality(since)
    BY <2>1, FS_AddElement, FS_Subset
  <2>4. Cardinality(since) \in Nat /\ Cardinality(before[v].since) \in Nat
    BY <2>1, <2>3, FS_CardinalityType
  <2>5. ASSUME Cardinality(since) < HistoryCap PROVE Recoverable(v)'
    <3>1. Recoverable(v)
      BY <1>1, <2>3, <2>4, <2>5 DEF FrameLine
    <3>2. PICK i \in 1..n :
            /\ s[i] = v /\ hist.frames[v] = before[v].frame
            /\ \A j \in 1..n : i < j => s[j] \in before[v].since
      BY <1>1, <3>1 DEF Recoverable, s, n
    <3>3. i > k
      <4>1. CASE k = 1 /\ i = 1
        <5>1. Cardinality(since) >= HistoryCap
          <6>1. Len(s) = HistoryCap /\ \A j \in DOMAIN s : 1 < j => s[j] \in since
            BY <1>1, <1>5, <3>2, <4>1 DEF n
          <6> QED BY <2>3, <6>1, AgedOut DEF s
        <5> QED BY <1>1, <2>4, <2>5, <5>1
      <4> QED BY <1>5, <4>1
    <3>4. i - k \in 1..m /\ r[i - k] = v
      <4>1. i - k \in 1..m /\ (i - k) + k = i /\ i \in 1..(n + 1) /\ i # n + 1
        BY <1>1, <1>5, <3>3
      <4>2. a[i] = v
        BY <1>7, <3>2, <4>1
      <4> QED BY <1>10, <4>1, <4>2
    <3>5. ASSUME NEW j \in 1..m, i - k < j
          PROVE  r[j] \in since
      <4>1. j + k \in 1..(n + 1) /\ i < j + k
        BY <1>1, <1>5, <3>5
      <4>2. r[j] = IF j + k = n + 1 THEN w ELSE s[j + k]
        BY <1>10, <1>7, <4>1
      <4> QED BY <1>1, <3>2, <4>1, <4>2
    <3>6. hist'.frames[v] = before[v].frame
      BY <1>13, <1>14, <1>17, <3>2, <3>4
    <3>7. /\ i - k \in DOMAIN r /\ r[i - k] = v /\ hist'.frames[v] = before'[v].frame
          /\ \A j \in DOMAIN r : i - k < j => r[j] \in before'[v].since
      BY <1>10, <2>2, <3>4, <3>5, <3>6
    <3> QED BY <3>7 DEF Recoverable, r
  <2> QED BY <2>2, <2>3, <2>5
<1>18. ASSUME w \in DOMAIN before PROVE Cardinality(before[w].since) >= HistoryCap /\ before'[w] = before[w]
  <2>1. ~Recoverable(w)
    BY <1>1 DEF Recoverable, s, n
  <2>2. Cardinality(before[w].since) \in Nat
    BY <1>18, FS_CardinalityType DEF FrameLine
  <2> QED BY <1>1, <1>4, <1>18, <2>1, <2>2 DEF FrameLine
<1>19. \A v \in DOMAIN before' :
         /\ before'[v] = [frame |-> before'[v].frame, since |-> before'[v].since]
         /\ IsFiniteSet(before'[v].since)
         /\ Cardinality(before'[v].since) < HistoryCap => Recoverable(v)'
  <2> SUFFICES ASSUME NEW v \in DOMAIN before'
               PROVE  /\ before'[v] = [frame |-> before'[v].frame, since |-> before'[v].since]
                      /\ IsFiniteSet(before'[v].since)
                      /\ Cardinality(before'[v].since) < HistoryCap => Recoverable(v)'
    OBVIOUS
  <2>1. v \in DOMAIN before \cup {w}
    BY <1>4
  <2>2. CASE v # w
    BY <1>17, <2>1, <2>2
  <2>3. CASE v = w /\ w \notin DOMAIN before
    <3>1. before'[w] = [frame |-> frames[w], since |-> {}]
      BY <1>4, <2>3
    <3> QED BY <1>16, <2>3, <3>1, FS_EmptySet
  <2>4. CASE v = w /\ w \in DOMAIN before
    <3>1. Cardinality(before[w].since) \in Nat
      BY <2>4, FS_CardinalityType DEF FrameLine
    <3> QED BY <1>1, <1>18, <2>4, <3>1 DEF FrameLine
  <2> QED BY <2>2, <2>3, <2>4
<1>20. Remembered(hist') \subseteq DOMAIN before' /\ DOMAIN before' \subseteq Windows
  <2>1. Remembered(hist') \subseteq Remembered(hist) \cup {w}
    BY <1>11 DEF Remembered
  <2> QED BY <1>4, <2>1 DEF FrameLine
<1> QED BY <1>15, <1>19, <1>20 DEF FrameLine

\* What stands where in two sequences joined.
LEMMA JoinedPlaces ==
  ASSUME NEW a \in Seq(Windows), NEW b \in Seq(Windows)
  PROVE  /\ a \o b \in Seq(Windows) /\ Len(a \o b) = Len(a) + Len(b)
         /\ \A i \in 1..(Len(a) + Len(b)) :
              (a \o b)[i] = IF i <= Len(a) THEN a[i] ELSE b[i - Len(a)]
OBVIOUS

\* Taking the one place of w out moves those behind it one place up.
LEMMA RemovedPlace ==
  ASSUME NEW s \in Seq(Windows), NEW w \in Windows, NEW n \in Nat, n = Len(s),
         \A i, j \in 1..n : s[i] = s[j] => i = j,
         \E i \in 1..n : s[i] = w
  PROVE  /\ PlaceOf(w, s) \in 1..n /\ s[PlaceOf(w, s)] = w
         /\ RemoveAt(s, PlaceOf(w, s)) \in Seq(Windows)
         /\ DOMAIN RemoveAt(s, PlaceOf(w, s)) = 1..(n - 1)
         /\ \A i \in 1..(n - 1) :
              RemoveAt(s, PlaceOf(w, s))[i] = IF i < PlaceOf(w, s) THEN s[i] ELSE s[i + 1]
<1> DEFINE p == PlaceOf(w, s)
<1>1. n \in Nat /\ DOMAIN s = 1..n
  OBVIOUS
<1>2. p \in 1..n /\ s[p] = w
  <2>1. PICK i \in 1..n : s[i] = w
    OBVIOUS
  <2>2. \A j \in 1..(i - 1) : s[j] # w
    BY <1>1, <2>1
  <2> QED BY <1>1, <2>1, <2>2 DEF PlaceOf
<1> HIDE DEF p
<1>3. /\ SubSeq(s, 1, p - 1) \in Seq(Windows) /\ Len(SubSeq(s, 1, p - 1)) = p - 1
      /\ \A i \in 1..(p - 1) : SubSeq(s, 1, p - 1)[i] = s[i]
  BY <1>1, <1>2
<1>4. /\ SubSeq(s, p + 1, n) \in Seq(Windows) /\ Len(SubSeq(s, p + 1, n)) = n - p
      /\ \A i \in 1..(n - p) : SubSeq(s, p + 1, n)[i] = s[p + i]
  BY <1>1, <1>2
<1>5. RemoveAt(s, p) = SubSeq(s, 1, p - 1) \o SubSeq(s, p + 1, n)
  BY DEF RemoveAt
<1> DEFINE a == SubSeq(s, 1, p - 1)
           b == SubSeq(s, p + 1, n)
<1> HIDE DEF a, b
<1>6. /\ a \o b \in Seq(Windows) /\ Len(a \o b) = n - 1
      /\ \A i \in 1..(n - 1) : (a \o b)[i] = IF i < p THEN s[i] ELSE s[i + 1]
  <2>1. /\ a \in Seq(Windows) /\ Len(a) = p - 1 /\ b \in Seq(Windows) /\ Len(b) = n - p
    BY <1>3, <1>4 DEF a, b
  <2>2. /\ a \o b \in Seq(Windows) /\ Len(a \o b) = (p - 1) + (n - p)
        /\ \A i \in 1..((p - 1) + (n - p)) :
             (a \o b)[i] = IF i <= p - 1 THEN a[i] ELSE b[i - (p - 1)]
    <3>1. /\ a \o b \in Seq(Windows) /\ Len(a \o b) = Len(a) + Len(b)
          /\ \A i \in 1..(Len(a) + Len(b)) :
               (a \o b)[i] = IF i <= Len(a) THEN a[i] ELSE b[i - Len(a)]
      BY <2>1, JoinedPlaces
    <3> QED BY <2>1, <3>1
  <2>3. \A i \in 1..(n - 1) : i < p => a[i] = s[i]
    BY <1>1, <1>2, <1>3 DEF a
  <2>4. ASSUME NEW i \in 1..(n - 1), ~(i < p)
        PROVE  b[i - (p - 1)] = s[i + 1]
    <3>1. i - (p - 1) \in 1..(n - p) /\ p + (i - (p - 1)) = i + 1
      BY <1>1, <1>2, <2>4
    <3> QED BY <1>4, <3>1 DEF b
  <2>5. (p - 1) + (n - p) = n - 1
    BY <1>1, <1>2
  <2>6. ASSUME NEW i \in 1..(n - 1)
        PROVE  (a \o b)[i] = IF i < p THEN s[i] ELSE s[i + 1]
    <3>1. (a \o b)[i] = IF i < p THEN a[i] ELSE b[i - (p - 1)]
      BY <1>2, <2>2, <2>5
    <3> QED BY <2>3, <2>4, <3>1
  <2> QED BY <2>2, <2>5, <2>6
<1>7. DOMAIN (a \o b) = 1..(n - 1)
  BY <1>1, <1>6
<1> QED BY <1>2, <1>5, <1>6, <1>7 DEF p, a, b

\* A restore takes its window out, and leaves the others their frames.
LEMMA RestoreKeeps ==
  ASSUME FrameLine, NEW w \in Windows, Restore(w)
  PROVE  FrameLine'
<1> DEFINE s == hist.order
           n == Len(s)
           p == PlaceOf(w, s)
           r == hist'.order
<1>1. /\ s \in Seq(Windows) /\ n \in Nat /\ DOMAIN s = 1..n /\ n <= HistoryCap
      /\ HistoryCap \in Nat \ {0}
      /\ \A i, j \in 1..n : s[i] = s[j] => i = j
      /\ Remembered(hist) = {s[i] : i \in 1..n}
  BY SnapAssumption DEF FrameLine, Remembering
<1>2. /\ DOMAIN before' = DOMAIN before \ {w}
      /\ \A v \in DOMAIN before \ {w} : before'[v] = before[v]
  BY DEF Restore, Forget
<1>3. CASE w \notin Remembered(hist)
  <2>1. hist' = hist
    BY <1>3 DEF Restore
  <2>2. \A v \in DOMAIN before' : Recoverable(v) => Recoverable(v)'
    BY <1>2, <2>1 DEF Recoverable
  <2> QED BY <1>2, <1>3, <2>1, <2>2 DEF FrameLine, Remembering
<1>4. CASE w \in Remembered(hist)
  <2>1. hist' = [frames |-> Forget(hist.frames, w), order |-> RemoveAt(s, p)]
    BY <1>4, Zenon DEF Restore, Pop
  <2>2. /\ p \in 1..n /\ s[p] = w
        /\ RemoveAt(s, p) \in Seq(Windows) /\ DOMAIN RemoveAt(s, p) = 1..(n - 1)
        /\ \A i \in 1..(n - 1) : RemoveAt(s, p)[i] = IF i < p THEN s[i] ELSE s[i + 1]
    <3>1. \E i \in 1..n : s[i] = w
      BY <1>1, <1>4
    <3>2. n = Len(s)
      OBVIOUS
    <3> HIDE DEF s, n
    <3>3. \A i, j \in 1..n : s[i] = s[j] => i = j
      BY <1>1
    <3>4. s \in Seq(Windows)
      BY <1>1
    <3>5. n \in Nat
      BY <1>1
    <3> QED BY <3>1, <3>2, <3>3, <3>4, <3>5, RemovedPlace
  <2>3. /\ r \in Seq(Windows) /\ DOMAIN r = 1..(n - 1) /\ Len(r) = n - 1
        /\ \A i \in 1..(n - 1) : r[i] = IF i < p THEN s[i] ELSE s[i + 1]
    <3>1. r = RemoveAt(s, p)
      BY <2>1
    <3>2. \A t \in Seq(Windows) : DOMAIN t = 1..(n - 1) => Len(t) = n - 1
      BY <1>1, <2>2
    <3> QED BY <2>2, <3>1, <3>2
  <2>4. /\ DOMAIN hist'.frames = Remembered(hist) \ {w}
        /\ \A v \in Remembered(hist) \ {w} : hist'.frames[v] = hist.frames[v]
    BY <2>1 DEF Forget, Remembered
  <2> HIDE DEF n, s, p, r
  <2>5. \A i \in 1..n : i # p =>
          \E j \in 1..(n - 1) : r[j] = s[i] /\ j = IF i < p THEN i ELSE i - 1
    <3> SUFFICES ASSUME NEW i \in 1..n, i # p
                 PROVE  \E j \in 1..(n - 1) : r[j] = s[i] /\ j = IF i < p THEN i ELSE i - 1
      OBVIOUS
    <3>1. CASE i < p
      <4>1. i \in 1..(n - 1)
        BY <1>1, <2>2, <3>1
      <4> QED BY <2>3, <3>1, <4>1
    <3>2. CASE i > p
      <4>1. i - 1 \in 1..(n - 1) /\ ~(i - 1 < p) /\ (i - 1) + 1 = i /\ ~(i < p)
        BY <1>1, <2>2, <3>2
      <4>2. r[i - 1] = s[i]
        BY <2>3, <4>1
      <4> QED BY <4>1, <4>2
    <3> QED BY <1>1, <2>2, <3>1, <3>2
  <2>6. Remembering'
    <3>1. \A i, j \in 1..(n - 1) : r[i] = r[j] => i = j
      <4> SUFFICES ASSUME NEW i \in 1..(n - 1), NEW j \in 1..(n - 1), r[i] = r[j]
                   PROVE  i = j
        OBVIOUS
      <4> DEFINE from(x) == IF x < p THEN x ELSE x + 1
      <4>1. from(i) \in 1..n /\ from(j) \in 1..n
        BY <1>1, <2>2
      <4>2. s[from(i)] = s[from(j)]
        BY <2>3
      <4>3. from(i) = from(j)
        BY <1>1, <4>1, <4>2
      <4> QED BY <1>1, <2>2, <4>3
    <3>2. {r[i] : i \in 1..(n - 1)} = Remembered(hist) \ {w}
      <4>1. \A i \in 1..(n - 1) : r[i] \in Remembered(hist) /\ r[i] # w
        <5> SUFFICES ASSUME NEW i \in 1..(n - 1)
                     PROVE  r[i] \in Remembered(hist) /\ r[i] # w
          OBVIOUS
        <5> DEFINE q == IF i < p THEN i ELSE i + 1
        <5>1. q \in 1..n /\ q # p /\ r[i] = s[q]
          BY <1>1, <2>2, <2>3
        <5> QED BY <1>1, <2>2, <5>1
      <4>2. \A v \in Remembered(hist) \ {w} : \E i \in 1..(n - 1) : r[i] = v
        BY <1>1, <2>2, <2>5
      <4> QED BY <4>1, <4>2
    <3>3. Remembered(hist') = {r[i] : i \in 1..(n - 1)}
      BY <2>4, <3>2 DEF Remembered
    <3> QED BY <1>1, <2>3, <3>1, <3>3 DEF Remembering, r
  <2>7. ASSUME NEW v \in DOMAIN before', Recoverable(v)
        PROVE  Recoverable(v)'
    <3>1. v # w /\ before'[v] = before[v]
      BY <1>2
    <3>2. PICK i \in 1..n :
            /\ s[i] = v /\ hist.frames[v] = before[v].frame
            /\ \A j \in 1..n : i < j => s[j] \in before[v].since
      BY <1>1, <2>7 DEF Recoverable, s
    <3>3. PICK q \in 1..(n - 1) : r[q] = v /\ q = IF i < p THEN i ELSE i - 1
      BY <2>2, <2>5, <3>1, <3>2
    <3>4. ASSUME NEW j \in 1..(n - 1), q < j
          PROVE  r[j] \in before[v].since
      <4>1. i # p
        BY <2>2, <3>1, <3>2
      <4> DEFINE f == IF j < p THEN j ELSE j + 1
      <4>2. f \in 1..n /\ i < f /\ r[j] = s[f]
        BY <1>1, <2>2, <2>3, <3>3, <3>4, <4>1
      <4> QED BY <3>2, <4>2
    <3>5. v \in Remembered(hist)
      BY <1>1, <3>2
    <3>6. /\ q \in DOMAIN r /\ r[q] = v /\ hist'.frames[v] = before'[v].frame
          /\ \A j \in DOMAIN r : q < j => r[j] \in before'[v].since
      BY <2>3, <2>4, <3>1, <3>2, <3>3, <3>4, <3>5
    <3> QED BY <3>6 DEF Recoverable, r
  <2>8. Remembered(hist') \subseteq DOMAIN before'
    BY <1>2, <2>4 DEF FrameLine, Remembered
  <2> QED BY <1>2, <2>6, <2>7, <2>8 DEF FrameLine
<1> QED BY <1>3, <1>4

\* The history and the frames before are what the Executor alone writes.
LEMMA FrameLineKept ==
  ASSUME FrameLine, ExecutorNext \/ DaemonNext \/ UNCHANGED snapVars
  PROVE  FrameLine'
<1>1. ASSUME hist' = hist, DOMAIN before' = DOMAIN before,
             \A w \in DOMAIN before : before'[w] = before[w]
      PROVE  FrameLine'
  <2>1. \A w \in DOMAIN before : Recoverable(w) => Recoverable(w)'
    BY <1>1 DEF Recoverable
  <2> QED BY <1>1, <2>1 DEF FrameLine, Remembering
<1>2. CASE ExecutorNext
  <2>1. ASSUME NEW w \in Windows, NEW zone, Snap(w, zone), w \in Remembered(hist)
        PROVE  FrameLine'
    <3>1. hist' = hist
      BY <2>1 DEF Snap, Resolve
    <3>2. w \in DOMAIN before /\ before' = [v \in DOMAIN before |-> before[v]]
      BY <2>1 DEF Snap, FrameLine
    <3> QED BY <1>1, <3>1, <3>2
  <2>2. ASSUME UNCHANGED executorVars PROVE FrameLine'
    BY <1>1, <2>2 DEF executorVars
  <2> QED BY <1>2, <2>1, <2>2, FirstSnapKeeps, RestoreKeeps DEF ExecutorNext, Drag
<1>3. CASE DaemonNext
  BY <1>1, <1>3 DEF executorVars, DaemonNext, Look, Refuse, AskBridge, PressKey, MoveResize,
     SetWindowAction, BridgeMaximize, BridgeClose, BridgeMinimize, BridgeFails, Raise, Changed
<1> QED BY <1>1, <1>2, <1>3 DEF snapVars, executorVars

-----------------------------------------------------------------------------
(* The composition.                                                            *)

SlowLine == CacheLine /\ BusLine /\ FrameLine

\* A step of the composition is a step of one part and a rest of the others.
LEMMA SlowStep ==
  ASSUME SlowLine, SlowNext \/ UNCHANGED slowVars
  PROVE  SlowLine' /\ [cache'.at >= cache.at]_watchVars
<1>1. /\ WatchNext \/ UNCHANGED watchVars
      /\ RecordNext \/ UNCHANGED recordVars
      /\ ExecutorNext \/ DaemonNext \/ UNCHANGED snapVars
  BY DEF SlowNext, WatchStep, CacheStep, RecordStep, WindowStep, FrameStep, slowVars
<1> QED BY <1>1, CacheLineKept, BusLineKept, FrameLineKept DEF SlowLine

\* The three invariants hold in every behaviour.
LEMMA SlowInvariance == SlowSpec => []SlowLine
<1>1. SlowInit => SlowLine
  BY CacheStarts, BusStarts, FramesStart DEF SlowInit, SlowLine
<1>2. SlowLine /\ [SlowNext]_slowVars => SlowLine'
  BY SlowStep
<1> QED BY <1>1, <1>2, PTL DEF SlowSpec

\* Whatever queries are given up and however late they end, the application the
\* tap decides from is never replaced by one seen earlier.
THEOREM TheCacheIsNewer == SlowSpec => CacheNeverGoesBack
<1>1. SlowLine /\ [SlowNext]_slowVars => [cache'.at >= cache.at]_watchVars
  BY SlowStep
<1> QED BY <1>1, SlowInvariance, PTL DEF SlowSpec, CacheNeverGoesBack

\* Whatever a full buffer drops, observers are given outcomes in the order they
\* were published until two drains overlap.
THEOREM OneDrainKeepsOrder == SlowSpec => []OrderedIfOneDrains
<1>1. SlowLine => OrderedIfOneDrains
  BY DEF SlowLine, BusLine, Rising, OrderedIfOneDrains
<1> QED BY <1>1, SlowInvariance, PTL

\* A restore gives back the frame of before the first snap, for any capacity of
\* the history that fewer first snaps than it holds have gone through since.
THEOREM RestoreFindsTheFirst == SlowSpec => []RestoreUndoes
<1>1. ASSUME FrameLine PROVE RestoreUndoes
  <2> SUFFICES ASSUME NEW w \in DOMAIN before, Cardinality(before[w].since) < HistoryCap
               PROVE  w \in Remembered(hist) /\ hist.frames[w] = before[w].frame
    BY DEF RestoreUndoes
  <2>1. Recoverable(w)
    BY <1>1 DEF FrameLine
  <2> QED BY <1>1, <2>1 DEF FrameLine, Remembering, Recoverable
<1>2. SlowLine => RestoreUndoes
  BY <1>1 DEF SlowLine
<1> QED BY <1>2, SlowInvariance, PTL
=============================================================================

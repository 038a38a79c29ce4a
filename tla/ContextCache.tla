---------------------------- MODULE ContextCache ----------------------------
(***************************************************************************)
(* The context engine's cache under Go's RWMutex (core/pkg/ctx/ctx.go):    *)
(* the updates, Read, ResolveLazy and Full.  A writer that waits keeps new *)
(* readers out.                                                            *)
(***************************************************************************)
EXTENDS Naturals, FiniteSets

CONSTANTS
  Readers, Writers,   \* goroutines
  Names,              \* applications and windows, "" for a blank one
  HasResolver,        \* whether a Resolver was given
  MaxUpdates          \* bound

ASSUME CacheAssumption == MaxUpdates \in Nat /\ HasResolver \in BOOLEAN

VARIABLES
  fast,      \* the hot-path context
  full,      \* app and win as they were given
  updates,
  reading,   \* goroutines that hold the lock for reading
  writing,   \* the writer that holds it
  waiting,   \* writers that wait
  call       \* what each reader does
lockVars == <<reading, writing, waiting>>
cacheVars == <<fast, full, updates, lockVars, call>>

Free == {}
Rest == [op |-> "none", pc |-> "rest", needs |-> FALSE,
         fast |-> [app |-> "", win |-> ""], full |-> [app |-> "", win |-> ""],
         lazy |-> ""]

RLock(g) == writing = Free /\ waiting = Free /\ reading' = reading \cup {g}
RUnlock(g) == reading' = reading \ {g}

-----------------------------------------------------------------------------
(* Updates, off the hot path. *)

Announce(w) ==
  /\ w \notin waiting /\ writing # {w} /\ updates < MaxUpdates
  /\ waiting' = waiting \cup {w}
  /\ UNCHANGED <<fast, full, updates, reading, writing, call>>

Acquire(w) ==
  /\ w \in waiting /\ writing = Free /\ reading = Free
  /\ writing' = {w} /\ waiting' = waiting \ {w}
  /\ UNCHANGED <<fast, full, updates, reading, call>>

\* The app by its bundle, or by its executable when it has none.
UpdateApp(bundle, executable) ==
  /\ full' = [full EXCEPT !.app = IF bundle = "" THEN executable ELSE bundle]
  /\ fast' = [fast EXCEPT !.app = IF bundle = "" THEN executable ELSE bundle]
UpdateWindow(win) ==
  /\ full' = [full EXCEPT !.win = win] /\ fast' = [fast EXCEPT !.win = win]

Write(w) ==
  /\ writing = {w}
  /\ \/ \E bundle \in Names, executable \in Names \ {""} : UpdateApp(bundle, executable)
     \/ \E win \in Names : UpdateWindow(win)
  /\ updates' = updates + 1
  /\ writing' = Free
  /\ UNCHANGED <<reading, waiting, call>>

-----------------------------------------------------------------------------
(* Reads. *)

Ask(g) ==
  /\ call[g].pc = "rest"
  /\ \E op \in {"read", "lazy", "full"}, needs \in BOOLEAN :
       call' = [call EXCEPT ![g] = [Rest EXCEPT !.op = op, !.needs = needs,
                                      !.pc = IF op = "lazy" THEN "lazy" ELSE "lock"]]
  /\ UNCHANGED <<fast, full, updates, lockVars>>

Enter(g) ==
  /\ call[g].pc = "lock" /\ RLock(g)
  /\ call' = [call EXCEPT ![g].pc = "copy"]
  /\ UNCHANGED <<fast, full, updates, writing, waiting>>

\* Mutant: the lock is held over the lazy lookup.
CopyHolding(g) ==
  /\ call[g].pc = "copy"
  /\ call' = [call EXCEPT ![g].fast = fast, ![g].full = full,
                          ![g].pc = IF call[g].op = "full" THEN "lazy" ELSE "rest"]
  /\ IF call[g].op = "full" THEN UNCHANGED reading ELSE RUnlock(g)
  /\ UNCHANGED <<fast, full, updates, writing, waiting>>

\* Read returns what it copied; Full lets go of the lock before it goes on.
Copy(g) ==
  /\ call[g].pc = "copy" /\ RUnlock(g)
  /\ call' = [call EXCEPT ![g].fast = fast, ![g].full = full,
                          ![g].pc = IF call[g].op = "full" THEN "lazy" ELSE "rest"]
  /\ UNCHANGED <<fast, full, updates, writing, waiting>>

\* ResolveLazy: nothing needed, no lookup; else a lock and a copy of its own.
NoLookup(g) ==
  /\ call[g].pc = "lazy" /\ ~(call[g].needs /\ HasResolver)
  /\ call' = [call EXCEPT ![g].pc = "rest"]
  /\ UNCHANGED <<fast, full, updates, lockVars>>
LazyEnter(g) ==
  /\ call[g].pc = "lazy" /\ call[g].needs /\ HasResolver /\ RLock(g)
  /\ call' = [call EXCEPT ![g].pc = "lazyCopy"]
  /\ UNCHANGED <<fast, full, updates, writing, waiting>>
LazyCopy(g) ==
  /\ call[g].pc = "lazyCopy" /\ RUnlock(g)
  /\ call' = [call EXCEPT ![g].lazy = fast.app, ![g].pc = "rest"]
  /\ UNCHANGED <<fast, full, updates, writing, waiting>>

ReadStep(g) == Enter(g) \/ Copy(g) \/ NoLookup(g) \/ LazyEnter(g) \/ LazyCopy(g)
WriteStep(w) == Acquire(w) \/ Write(w)

CacheInit ==
  /\ fast = Rest.fast /\ full = Rest.full /\ updates = 0
  /\ reading = Free /\ writing = Free /\ waiting = Free
  /\ call = [g \in Readers |-> Rest]

CacheNext ==
  \/ \E g \in Readers : Ask(g) \/ ReadStep(g)
  \/ \E w \in Writers : Announce(w) \/ WriteStep(w)

CacheFairness ==
  /\ \A g \in Readers : WF_cacheVars(ReadStep(g))
  /\ \A w \in Writers : WF_cacheVars(WriteStep(w))

-----------------------------------------------------------------------------
(* Properties. *)

\* Every read and every update ends, whatever update lands between the two
\* locks of a Full: the deadlock its comment tells of is gone.
CallsEnd ==
  /\ \A g \in Readers : call[g].pc # "rest" ~> call[g].pc = "rest"
  /\ \A w \in Writers : w \in waiting ~> writing = {w}

\* Claimed of Full: "Snapshot under ONE RLock" (ctx.go:225).  Its lazy part is
\* looked up for whichever app is in front by then.
FullIsOneMoment ==
  \A g \in Readers : call[g].pc = "rest" /\ call[g].op = "full" /\ call[g].lazy # ""
                       => call[g].lazy = call[g].fast.app
=============================================================================

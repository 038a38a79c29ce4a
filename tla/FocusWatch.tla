----------------------------- MODULE FocusWatch -----------------------------
(***************************************************************************)
(* The focused-app watcher and the cache the tap decides from              *)
(* (watchFocusedApp and appCache in core/cmd/crossos/main.go).             *)
(*                                                                         *)
(* On a tick the watcher takes the slot, asks in a goroutine of its own,   *)
(* and waits for the answer or for two seconds.  The goroutine's channel   *)
(* is buffered and belongs to the one query.                               *)
(***************************************************************************)
EXTENDS Naturals, FiniteSets

CONSTANTS
  Apps,         \* applications that may be in front
  MaxQueries,   \* bound: queries asked
  MaxChanges    \* bound: changes of focus

ASSUME WatchAssumption == MaxQueries \in Nat /\ MaxChanges \in Nat

VARIABLES
  focus, changes,   \* external: the application in front, and since when
  watcher,          \* the watcher's next step
  slot,             \* inFlight holds a token
  query,            \* the queries asked, the last one being awaited
  cache             \* appCache
watchVars == <<focus, changes, watcher, slot, query, cache>>

Asked == DOMAIN query
Newest == Cardinality(Asked)
Outstanding == {q \in Asked : query[q].state = "out"}
Snapshot(state) == [state |-> state, app |-> focus, at |-> changes]

StartQuery ==
  /\ watcher = "tick" /\ ~slot /\ Newest < MaxQueries
  /\ slot' = TRUE /\ watcher' = "wait"
  /\ query' = [q \in 1..(Newest + 1) |-> IF q \in Asked THEN query[q] ELSE Snapshot("out")]
  /\ UNCHANGED <<focus, changes, cache>>

\* Focused returns, in its own time: what it saw, or an error.
Focused ==
  /\ \E q \in Outstanding, state \in {"seen", "failed"} :
       query' = [query EXCEPT ![q] = Snapshot(state)]
  /\ UNCHANGED <<focus, changes, watcher, slot, cache>>

\* Mutant: the channel is one for all queries.
LandAny ==
  /\ watcher = "wait"
  /\ \E q \in Asked \ Outstanding :
       cache' = IF query[q].state = "failed" THEN cache
                ELSE [has |-> TRUE, app |-> query[q].app, at |-> query[q].at]
  /\ slot' = FALSE /\ watcher' = "tick"
  /\ UNCHANGED <<focus, changes, query>>

\* The answer lands; after an error the last known app stays.
Land ==
  /\ watcher = "wait" /\ Newest \notin Outstanding
  /\ cache' = IF query[Newest].state = "failed" THEN cache
              ELSE [has |-> TRUE, app |-> query[Newest].app, at |-> query[Newest].at]
  /\ slot' = FALSE /\ watcher' = "tick"
  /\ UNCHANGED <<focus, changes, query>>

\* Two seconds have gone by: the slot is free, the query goes on.
GiveUp ==
  /\ watcher = "wait"
  /\ slot' = FALSE /\ watcher' = "tick"
  /\ UNCHANGED <<focus, changes, query, cache>>

StopWatching ==
  /\ watcher \in {"tick", "wait"} /\ watcher' = "stopped"
  /\ UNCHANGED <<focus, changes, slot, query, cache>>

\* External.
Switch ==
  /\ changes < MaxChanges /\ changes' = changes + 1
  /\ focus' \in Apps \ {focus}
  /\ UNCHANGED <<watcher, slot, query, cache>>

WatchInit ==
  /\ focus \in Apps /\ changes = 0
  /\ watcher = "tick" /\ slot = FALSE /\ query = [q \in {} |-> {}]
  /\ cache = [has |-> FALSE, app |-> focus, at |-> 0]

WatchNext == StartQuery \/ Focused \/ Land \/ GiveUp \/ StopWatching \/ Switch

-----------------------------------------------------------------------------
(* Properties. *)

\* What the tap decides from never goes back in time: the answer of a query
\* that was given up, however late, does not land over a newer one.
CacheNeverGoesBack == [][cache'.at >= cache.at]_watchVars

\* Claimed: "Exactly ONE query may be in flight" (main.go:1917); the slot is
\* given back while the query is out.
OneInFlight == Cardinality(Outstanding) <= 1
=============================================================================

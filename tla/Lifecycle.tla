----------------------------- MODULE Lifecycle -----------------------------
(***************************************************************************)
(* The lifecycle table and the two things that move through it: the        *)
(* daemon (core/pkg/daemon/daemon.go) and the packs of a registry          *)
(* (core/pkg/plugin/marketplace.go).  A pack operation without the user's  *)
(* approval returns before it changes anything, as does one on a manifest  *)
(* that is invalid or wants a newer core.                                  *)
(***************************************************************************)
EXTENDS PackRules

CONSTANTS
  IDs, Refs,      \* packs, and what they can be pinned to
  Manifests,      \* local packs' manifests
  MinCores,       \* versions a manifest may ask for
  CoreVer,        \* the running core
  Contexts,       \* selections a menu is asked for
  TrialTimeout,
  MaxTime,        \* bound: the clock
  MaxEvents       \* bound: the daemon's moves

ASSUME LifecycleAssumption ==
  /\ TrialTimeout \in Nat /\ MaxTime \in Nat /\ MaxEvents \in Nat
  /\ "absent" \notin Refs

VARIABLES
  daemon, events,   \* the daemon's state and its audited moves
  pack,             \* each pack, as installed
  now,
  tried,            \* history: the refs each pack has been on trial with
  offer             \* the last menu drawn

daemonVars == <<daemon, events>>
packVars == <<pack, tried>>
lifecycleVars == <<daemonVars, packVars, now, offer>>

-----------------------------------------------------------------------------
(* The table: what is not in it is refused. *)

States == {"initializing", "running", "safemode", "paused", "stopped",
           "disabled", "trial", "enabled"}
Allowed ==
  ({"disabled"} \X {"trial"})
  \cup ({"trial"} \X {"enabled", "disabled"})
  \cup ({"enabled"} \X {"disabled", "paused"})
  \cup ({"paused"} \X {"enabled", "disabled"})
  \cup ({"initializing"} \X {"running", "stopped"})
  \cup ({"running"} \X {"safemode", "paused", "stopped"})
  \cup ({"safemode"} \X {"running", "stopped"})
  \cup ({"stopped"} \X {"initializing"})
Transition(from, to) == <<from, to>> \in Allowed

-----------------------------------------------------------------------------
(* The daemon: each operation under its mutex. *)

Event(from, to) == [from |-> from, to |-> to]
Move(to) ==
  /\ Transition(daemon, to)
  /\ events' = Append(events, Event(daemon, to))
  /\ daemon' = to

Run == Move("running")
EnterSafeMode == Move("safemode")
ExitSafeMode == Move("running")
Pause == Move("paused")

\* Mutant: the second step is taken and not recorded.
ResumeSilently ==
  /\ daemon = "paused" /\ Transition("paused", "enabled")
  /\ events' = Append(events, Event("paused", "enabled"))
  /\ daemon' = "running"

\* paused -> enabled by the table, enabled -> running by hand, both recorded.
Resume ==
  /\ daemon = "paused" /\ Transition("paused", "enabled")
  /\ events' = events \o <<Event("paused", "enabled"), Event("enabled", "running")>>
  /\ daemon' = "running"

\* From enabled as well, which Resume leaves before it gives up the mutex.
Stop ==
  /\ daemon = "enabled" \/ Transition(daemon, "stopped")
  /\ events' = Append(events, Event(daemon, "stopped"))
  /\ daemon' = "stopped"

Daemon ==
  /\ Len(events) < MaxEvents
  /\ Run \/ EnterSafeMode \/ ExitSafeMode \/ Pause \/ Resume \/ Stop
  /\ UNCHANGED <<packVars, now, offer>>

-----------------------------------------------------------------------------
(* Packs. *)

Absent == [state |-> "absent", health |-> "DISABLED", ref |-> "absent",
           until |-> 0, versioned |-> FALSE]
Installed(id) == pack[id].state # "absent"

\* The pack is p now; what it is on trial with is remembered.
Put(id, p) ==
  /\ pack' = [pack EXCEPT ![id] = p]
  /\ tried' = [tried EXCEPT ![id] = IF p.state = "absent" THEN {}
                                    ELSE IF p.state = "trial" THEN @ \cup {p.ref} ELSE @]

OnTrial(p, ref) ==
  [p EXCEPT !.state = "trial", !.health = "TRIAL", !.ref = ref, !.until = now + TrialTimeout]

\* Install, for local packs, and InstallManifest, which asks for the version.
InstallAs(id, ref, versioned) ==
  /\ ~Installed(id)
  /\ Transition("disabled", "trial")
  /\ Put(id, OnTrial([Absent EXCEPT !.versioned = versioned], ref))

Install(id) ==
  \E m \in Manifests, ref \in Refs : Validate(m) /\ InstallAs(id, ref, FALSE)
InstallManifest(id) ==
  \E minCore \in MinCores, ref \in Refs :
    CompatibleWith(minCore, CoreVer) /\ InstallAs(id, ref, TRUE)

\* A late confirmation rolls the trial back.
ConfirmTrial(id) ==
  /\ pack[id].state = "trial"
  /\ LET late == now > pack[id].until
         to == IF late THEN "disabled" ELSE "enabled"
     IN  /\ Transition("trial", to)
         /\ Put(id, [pack[id] EXCEPT !.state = to,
                                     !.health = IF late THEN "DISABLED" ELSE "ENABLED"])

Disable(id) ==
  /\ Transition(pack[id].state, "disabled")
  /\ Put(id, [pack[id] EXCEPT !.state = "disabled", !.health = "DISABLED"])

RollbackTrial(id) == Disable(id)

MarkHealthy(id) ==
  /\ pack[id].state = "enabled"
  /\ Put(id, [pack[id] EXCEPT !.health = "HEALTHY"])

\* Mutant: the new ref takes over from the old one where it stands.
UpdateInPlace(id) ==
  \E minCore \in MinCores, ref \in Refs :
    /\ Installed(id) /\ CompatibleWith(minCore, CoreVer)
    /\ IF pack[id].state = "enabled"
         THEN Put(id, [pack[id] EXCEPT !.ref = ref])
         ELSE Put(id, OnTrial(pack[id], ref))

\* The ref is pinned and the pack goes to trial again by way of disabled.
Update(id) ==
  \E minCore \in MinCores, ref \in Refs :
    /\ Installed(id) /\ CompatibleWith(minCore, CoreVer)
    /\ pack[id].state = "disabled" \/ Transition(pack[id].state, "disabled")
    /\ Transition("disabled", "trial")
    /\ Put(id, OnTrial(pack[id], ref))

SetEnabled(id) ==
  \/ /\ pack[id].state # "enabled" /\ Transition(pack[id].state, "enabled")
     /\ Put(id, [pack[id] EXCEPT !.state = "enabled", !.health = "ENABLED"])
  \/ Disable(id)

Uninstall(id) == pack[id].state = "disabled" /\ Put(id, Absent)

Packs ==
  /\ \E id \in IDs :
       \/ Install(id) \/ InstallManifest(id) \/ ConfirmTrial(id) \/ RollbackTrial(id)
       \/ MarkHealthy(id) \/ Update(id) \/ SetEnabled(id) \/ Uninstall(id)
  /\ UNCHANGED <<daemonVars, now, offer>>

Tick ==
  /\ now < MaxTime /\ now' = now + 1
  /\ UNCHANGED <<daemonVars, packVars, offer>>

\* A menu is drawn from a pack's manifest for a selection.
Offer ==
  /\ \E m \in Manifests, ctx \in Contexts, levelB \in BOOLEAN :
       Validate(m) /\ offer' = [ctx |-> ctx, levelB |-> levelB, of |-> m,
                                shown |-> ToSet(VisibleActions(m, ctx, levelB))]
  /\ UNCHANGED <<daemonVars, packVars, now>>

NoOffer == [ctx |-> [container |-> FALSE, items |-> <<>>], levelB |-> FALSE,
            of |-> [schema |-> 1, name |-> "none", actions |-> <<>>], shown |-> {}]

LifecycleInit ==
  /\ daemon = "initializing" /\ events = <<>>
  /\ pack = [id \in IDs |-> Absent] /\ tried = [id \in IDs |-> {}]
  /\ now = 0 /\ offer = NoOffer

LifecycleNext == Daemon \/ Packs \/ Tick \/ Offer
LifecycleSpec == LifecycleInit /\ [][LifecycleNext]_lifecycleVars

-----------------------------------------------------------------------------
(* Properties. *)

PackType ==
  [state : {"absent", "disabled", "trial", "enabled", "paused"},
   health : {"DISABLED", "TRIAL", "HEALTHY", "ENABLED"},
   ref : Refs \cup {"absent"}, until : Nat, versioned : BOOLEAN]
LifecycleTypeOK ==
  /\ daemon \in States /\ events \in Seq([from : States, to : States])
  /\ pack \in [IDs -> PackType] /\ tried \in [IDs -> SUBSET Refs] /\ now \in Nat

\* The audited history is whole: it starts where New does, every move starts
\* where the one before it ended, and the last one ends where the daemon is
\* (Resume, which steps outside the table, is where a move was once lost).
HistoryIsWhole ==
  /\ events = <<>> => daemon = "initializing"
  /\ events # <<>> => /\ events[1].from = "initializing"
                      /\ events[Len(events)].to = daemon
  /\ \A i \in 1..(Len(events) - 1) : events[i].to = events[i + 1].from

\* What the Plugins page shows is what the pack is, through every order of
\* trials, late confirmations, updates, probes and switches.
HealthFollows ==
  \A id \in IDs :
    /\ pack[id].state = "trial" <=> pack[id].health = "TRIAL"
    /\ pack[id].state = "enabled" <=> pack[id].health \in {"ENABLED", "HEALTHY"}

\* No ref is in use that was not on trial in this pack first: an update takes
\* an enabled pack back to trial, and no switch enables a disabled one.
TriedBeforeUse ==
  \A id \in IDs :
    pack[id].state \in {"enabled", "paused"} => pack[id].ref \in tried[id]

\* An action is offered exactly when it fits the selection, whatever the
\* order of its targets; Fits is what pack.go's rules come to.
Fits(a) ==
  /\ a.enabled # "false" /\ (a.type = "process" => offer.levelB)
  /\ IF offer.ctx.container THEN "container" \in ToSet(a.targets)
     ELSE LET items == offer.ctx.items IN
          /\ Len(items) \in 1..(MaxPackPaths + 1)
          /\ \A i \in DOMAIN items :
               ~items[i].missing /\ (a.utis = {} \/ items[i].uti \in a.utis)
          /\ \/ {"any", "selection"} \cap ToSet(a.targets) # {}
             \/ "files" \in ToSet(a.targets) /\ Files(items)
             \/ "folders" \in ToSet(a.targets) /\ Folders(items)
OfferFits ==
  offer.shown = {a \in {Filled(offer.of.actions[i]) : i \in DOMAIN offer.of.actions} : Fits(a)}

\* Claimed: "stopping from a live state must never fail" (daemon.go:113).
StopNeverFails ==
  daemon \in {"running", "safemode", "paused", "enabled"} =>
    daemon = "enabled" \/ Transition(daemon, "stopped")

\* Claimed: "Late confirm (past TrialUntil) fails - the pack already
\* auto-rolled-back" (marketplace.go:142).  Nothing rolls it back, and
\* SetEnabled enables it.
LapsedStaysOut ==
  [][\A id \in IDs :
       pack[id].state = "trial" /\ now > pack[id].until => pack'[id].state # "enabled"]_lifecycleVars

\* Claimed: "SetEnabled toggles ENABLED <-> DISABLED" (marketplace.go:202).
ToggleReturns ==
  \A id \in IDs : pack[id].state = "disabled" => Transition("disabled", "enabled")

\* Claimed: the cap "mirrors the dispatch cap at load time" (pack.go:124);
\* one more than a dispatch takes is offered.
OfferIsDispatchable ==
  offer.shown # {} => Len(offer.ctx.items) <= MaxPackPaths
=============================================================================

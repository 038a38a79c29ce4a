------------------------------ MODULE Dispatch ------------------------------
(***************************************************************************)
(* From a key to its action (decideLocked and dispatch in                  *)
(* core/cmd/crossos/main.go, crossosGoDecide and the dispatch worker in    *)
(* core/internal/adapter/tap_cgo.go, over module Rules).                   *)
(*                                                                         *)
(* The tap's callback decides one key at a time, and what it decides from  *)
(* it reads under five locks, one after the other, while IPC handlers      *)
(* write it.  A claimed key is swallowed at once; its action is queued for *)
(* the one worker, which runs it later or drops it.  Writes that fail      *)
(* change nothing and are left out.                                        *)
(***************************************************************************)
EXTENDS Rules, Sequences

CONSTANTS
  Builtins,      \* the builtin rule table, a sequence
  Picks,         \* the rules the rule builder may be asked to store
  Apps,          \* focused applications
  Terminals,     \* those that are terminals
  Keys,          \* the key events the user may make
  BuiltinGrants, \* the permissions of each builtin plugin
  CopyChord,     \* the chord translateCopy posts
  QueueSize,     \* dispatchQueue
  MaxKeys,       \* bound: keys pressed
  MaxEdits       \* bound: edits of what decisions read

Ids == {Builtins[i].id : i \in DOMAIN Builtins}
Plugins == DOMAIN BuiltinGrants

ASSUME DispatchAssumption ==
  /\ Builtins \in Seq({Builtins[i] : i \in DOMAIN Builtins})
  /\ \A i \in DOMAIN Builtins : Ranked(Builtins[i])
  /\ \A i, j \in DOMAIN Builtins : Builtins[i].id = Builtins[j].id => i = j
  /\ \A i \in DOMAIN Builtins : Builtins[i].plugin \in Plugins
  /\ \A p, q \in Picks : p.id = q.id <=> SameIdentity(p, q)
  /\ \A p \in Picks : p.id \in Nat \ Ids
  /\ "user" \notin Plugins
  /\ Terminals \subseteq Apps
  /\ QueueSize \in Nat \ {0} /\ MaxKeys \in Nat /\ MaxEdits \in Nat

VARIABLES
  plugins,    \* Core.plugins: the plugins that are on
  rulesOff,   \* the settings store: rules switched off everywhere
  overrides,  \* the settings store: verdicts for one app
  users,      \* the user rule table, as picked
  killed,     \* Core.killed
  tapUp,      \* the tap is attached
  cached,     \* windowCache: the focused application
  phase,      \* what the tap's callback reads next
  dec,        \* what it has read
  jobs,       \* dispatchJobs
  running,    \* the job the worker runs, a sequence of at most one
  failures,   \* history: keys counted in dispatchFailures
  performed,  \* history: keys whose action ran, in order
  claimed,    \* history: keys swallowed for an action
  injected,   \* events the daemon posted and the tap has not seen
  pressed,    \* keys so far
  edited,     \* edits so far
  moments,    \* history: what deciding in one step would have said, at
              \* every moment of the decision under way
  overlap,    \* history: edits during it
  pruned      \* history: a user rule left the table during it

configVars == <<plugins, rulesOff, overrides, users, killed>>
tapVars == <<tapUp, cached, phase, dec, pressed>>
workVars == <<jobs, running, failures, performed, claimed, injected>>
pastVars == <<moments, overlap, pruned>>
vars == <<configVars, tapVars, workVars, edited, pastVars>>

Verdicts ==
  [decision : {"pass", "consume", "replace"},
   cap : Capabilities \cup {"none"}, rule : Nat]

NoDecision ==
  [key |-> 0, ev |-> {}, ctx |-> {}, plugins |-> {}, table |-> {},
   grants |-> {}, fires |-> {}, at |-> 0, on |-> FALSE, verdict |-> Pass]

Jobs == [key : Nat, cap : Capabilities]

TypeOK ==
  /\ plugins \subseteq Plugins
  /\ rulesOff \subseteq Ids
  /\ overrides \in [Apps \X Ids -> {"none", "on", "off"}]
  /\ users \subseteq Picks /\ Valid(users) /\ IsFiniteSet(users)
  /\ killed \in BOOLEAN /\ tapUp \in BOOLEAN
  /\ cached \in Apps
  /\ phase \in {"idle", "table", "grants", "rule", "override", "killed",
                "deliver"}
  /\ DOMAIN dec = DOMAIN NoDecision
  /\ dec.verdict \in Verdicts
  /\ phase # "idle" => dec.key = pressed /\ dec.ctx.app \in Apps
  /\ jobs \in Seq(Jobs) /\ Len(jobs) <= QueueSize
  /\ running \in Seq(Jobs) /\ Len(running) <= 1
  /\ performed \in Seq(Nat)
  /\ injected \in Seq({CopyChord})
  /\ failures \subseteq 1..pressed /\ claimed \subseteq 1..pressed
  /\ moments \subseteq Verdicts
  /\ pressed \in Nat /\ edited \in Nat /\ overlap \in Nat /\ pruned \in BOOLEAN

----------------------------------------------------------------------------
(* The rules that are in force.                                             *)

\* The watcher puts every application in the cache as a native one.
Context(app) == [app |-> app, mode |-> "native"]

\* An app's own verdict on a rule shadows the global switch.
Shadow(global, own) == IF own = "none" THEN global ELSE own = "on"

Fires(rule, ctx, on, off, own) ==
  /\ rule.plugin \in on
  /\ Shadow(rule.id \notin off, own[<<ctx.app, rule.id>>])

Grants(picks) ==
  [p \in Plugins \cup {"user"} |->
     IF p = "user" THEN UserGrants(picks) ELSE BuiltinGrants[p]]

\* decideLocked, if nothing could happen between its reads.
AtOnce(ev, ctx, on, off, own, picks, kill) ==
  LET table == {Compile(p) : p \in picks} \cup
               {r \in {Builtins[i] : i \in DOMAIN Builtins} :
                  Fires(r, ctx, on, off, own)}
  IN Gate(Route(table, Grants(picks), kill, ev, ctx))

----------------------------------------------------------------------------
(* The callback decides.                                                    *)

\* The next builtin rule, from the i-th on, whose plugin was on.
NextRule(i, on) ==
  LET rest == {j \in i..Len(Builtins) : Builtins[j].plugin \in on}
  IN IF rest = {} THEN Len(Builtins) + 1
     ELSE CHOOSE j \in rest : \A k \in rest : j <= k

\* On to the rule at position i, or past the table to the kill switch.
Seek(d, i) ==
  LET at == NextRule(i, d.plugins)
  IN /\ dec' = [d EXCEPT !.at = at]
     /\ phase' = IF at > Len(Builtins) THEN "killed" ELSE "rule"

Decide(ev) ==
  /\ phase = "idle" /\ tapUp /\ pressed < MaxKeys
  /\ pressed' = pressed + 1
  /\ dec' = [NoDecision EXCEPT !.key = pressed + 1, !.ev = ev,
                               !.ctx = Context(cached), !.plugins = plugins]
  /\ phase' = "table"
  /\ moments' = {AtOnce(ev, Context(cached), plugins, rulesOff, overrides,
                        users, killed)}
  /\ overlap' = 0 /\ pruned' = FALSE
  /\ UNCHANGED <<configVars, tapUp, cached, jobs, running, failures,
                 performed, claimed, edited>>

Press(ev) == Decide(ev) /\ UNCHANGED injected

\* What the daemon posts comes back through its own tap as a keystroke.
Return ==
  /\ injected # <<>>
  /\ Decide(Head(injected))
  /\ injected' = Tail(injected)

Read == UNCHANGED <<configVars, tapUp, cached, pressed, workVars, edited,
                    pastVars>>

ReadTable ==
  /\ phase = "table"
  /\ dec' = [dec EXCEPT !.table = {Compile(p) : p \in users}]
  /\ phase' = "grants"
  /\ Read

ReadGrants ==
  /\ phase = "grants"
  /\ Seek([dec EXCEPT !.grants = Grants(users)], 1)
  /\ Read

ReadRule ==
  /\ phase = "rule"
  /\ dec' = [dec EXCEPT !.on = Builtins[dec.at].id \notin rulesOff]
  /\ phase' = "override"
  /\ Read

\* Mutant: the app's own verdict can only switch a rule on.
ReadOverrideOn ==
  /\ phase = "override"
  /\ LET rule == Builtins[dec.at]
         fires == dec.on \/ overrides[<<dec.ctx.app, rule.id>>] = "on"
     IN Seek([dec EXCEPT !.fires = IF fires THEN @ \cup {rule} ELSE @],
             dec.at + 1)
  /\ Read

ReadOverride ==
  /\ phase = "override"
  /\ LET rule == Builtins[dec.at]
         fires == Shadow(dec.on, overrides[<<dec.ctx.app, rule.id>>])
     IN Seek([dec EXCEPT !.fires = IF fires THEN @ \cup {rule} ELSE @],
             dec.at + 1)
  /\ Read

\* The last read, then the compiled router decides.
ReadKilled ==
  /\ phase = "killed"
  /\ dec' = [dec EXCEPT !.verdict =
               Gate(Route(dec.table \cup dec.fires, dec.grants, killed,
                          dec.ev, dec.ctx))]
  /\ phase' = "deliver"
  /\ Read

\* Mutant: a job that does not fit is dropped and nobody counts it.
EnqueueQuietly ==
  /\ jobs' = IF Len(jobs) < QueueSize
             THEN Append(jobs, [key |-> dec.key, cap |-> dec.verdict.cap])
             ELSE jobs
  /\ failures' = failures

\* The key is swallowed; its action goes to the worker, or is counted.
Enqueue ==
  IF Len(jobs) < QueueSize
  THEN /\ jobs' = Append(jobs, [key |-> dec.key, cap |-> dec.verdict.cap])
       /\ failures' = failures
  ELSE /\ jobs' = jobs
       /\ failures' = failures \cup {dec.key}

Deliver ==
  /\ phase = "deliver"
  /\ phase' = "idle" /\ dec' = NoDecision
  /\ IF dec.verdict.decision = "replace"
     THEN claimed' = claimed \cup {dec.key} /\ Enqueue
     ELSE UNCHANGED <<jobs, failures, claimed>>
  /\ moments' = {} /\ overlap' = 0 /\ pruned' = FALSE
  /\ UNCHANGED <<configVars, tapUp, cached, pressed, running, performed,
                 injected, edited>>

----------------------------------------------------------------------------
(* The worker.                                                              *)

Work == UNCHANGED <<configVars, tapVars, edited, pastVars>>

TakeJob ==
  /\ running = <<>> /\ jobs # <<>>
  /\ running' = <<Head(jobs)>>
  /\ jobs' = Tail(jobs)
  /\ UNCHANGED <<failures, performed, claimed, injected>> /\ Work

\* What a call with no timeout waits for: the frontmost application, whose window
\* is to move, or the command that is to copy or open.  (A copy posts its chord
\* and the switcher's calls have timeouts.)
Unbounded == {"window.move", "clipboard.copyPath", "app.open"}

\* The adapter carries the action out; a copy posts its chord.
Perform ==
  /\ running # <<>>
  /\ Head(running).cap \in Routed
  /\ running' = <<>>
  /\ performed' = Append(performed, Head(running).key)
  /\ injected' = IF Head(running).cap = "clipboard.copy"
                 THEN Append(injected, CopyChord) ELSE injected
  /\ UNCHANGED <<jobs, failures, claimed>> /\ Work

\* Mutant: a worker that ends at the first failure.
FailForGood ==
  /\ running # <<>> /\ Head(running).cap # "none"
  /\ running' = <<[Head(running) EXCEPT !.cap = "none"]>>
  /\ failures' = failures \cup {Head(running).key}
  /\ UNCHANGED <<jobs, performed, claimed, injected>> /\ Work

\* dispatch has no case for the capability, or the adapter refuses.
Fail ==
  /\ running # <<>>
  /\ running' = <<>>
  /\ failures' = failures \cup {Head(running).key}
  /\ UNCHANGED <<jobs, performed, claimed, injected>> /\ Work

----------------------------------------------------------------------------
(* Meanwhile, on the connections: each write under its own lock.            *)

Deciding == phase \notin {"idle", "deliver"}

\* What an edit during a decision adds to its history.
Edit(uncaps) ==
  /\ edited < MaxEdits
  /\ edited' = edited + 1
  /\ IF Deciding
     THEN /\ overlap' = overlap + 1
          /\ pruned' = (pruned \/ uncaps)
          /\ moments' = moments \cup {AtOnce(dec.ev, dec.ctx, plugins',
                            rulesOff', overrides', users', killed')}
     ELSE UNCHANGED pastVars
  /\ UNCHANGED <<cached, phase, dec, pressed, workVars>>

\* enableLocked, for a toggle, a profile, a trial or a reset.
SetPlugin(p) ==
  /\ plugins' = IF p \in plugins THEN plugins \ {p} ELSE plugins \cup {p}
  /\ UNCHANGED <<rulesOff, overrides, users, killed, tapUp>>
  /\ Edit(FALSE)

SetRule(id) ==
  /\ rulesOff' = IF id \in rulesOff THEN rulesOff \ {id}
                 ELSE rulesOff \cup {id}
  /\ UNCHANGED <<plugins, overrides, users, killed, tapUp>>
  /\ Edit(FALSE)

SetOverride(app, id, own) ==
  /\ overrides[<<app, id>>] # own
  /\ overrides' = [overrides EXCEPT ![<<app, id>>] = own]
  /\ UNCHANGED <<plugins, rulesOff, users, killed, tapUp>>
  /\ Edit(FALSE)

CreateRule(pick) ==
  /\ pick \notin users /\ Valid(users \cup {pick})
  /\ users' = users \cup {pick}
  /\ UNCHANGED <<plugins, rulesOff, overrides, killed, tapUp>>
  /\ Edit(FALSE)

UpdateRule(old, new) ==
  /\ old \in users /\ new \notin users \ {old}
  /\ Valid((users \ {old}) \cup {new})
  /\ users' = (users \ {old}) \cup {new}
  /\ UNCHANGED <<plugins, rulesOff, overrides, killed, tapUp>>
  /\ Edit(old # new)

DeleteRule(pick) ==
  /\ pick \in users
  /\ users' = users \ {pick}
  /\ UNCHANGED <<plugins, rulesOff, overrides, killed, tapUp>>
  /\ Edit(TRUE)

\* A PANIC STOP sets killed, then takes the tap down (module KillSwitch has its
\* other steps); a callback that outlasts the stop's timeout goes on.
Kill ==
  /\ ~killed
  /\ killed' = TRUE
  /\ UNCHANGED <<plugins, rulesOff, overrides, users, tapUp>>
  /\ Edit(FALSE)

StopTap ==
  /\ killed /\ tapUp
  /\ tapUp' = FALSE
  /\ UNCHANGED <<configVars, cached, phase, dec, pressed, workVars, edited,
                 pastVars>>

\* A resume clears killed and attaches a new tap, here once the old one's last
\* callback has answered.
Resume ==
  /\ killed /\ ~tapUp /\ phase = "idle"
  /\ killed' = FALSE /\ tapUp' = TRUE
  /\ UNCHANGED <<plugins, rulesOff, overrides, users, cached, phase, dec,
                 pressed, workVars, edited, pastVars>>

\* The watcher's poll sees another application in front.  A decision under way
\* has its copy, so that the poll in the middle of one is the poll after it.
Focus(app) ==
  /\ app # cached /\ phase = "idle"
  /\ cached' = app
  /\ UNCHANGED <<configVars, tapUp, phase, dec, pressed, workVars, edited,
                 pastVars>>

----------------------------------------------------------------------------
Init ==
  /\ plugins = Plugins /\ rulesOff = {}
  /\ overrides = [x \in Apps \X Ids |-> "none"]
  /\ users \in {u \in SUBSET Picks : Valid(u) /\ IsFiniteSet(u)}
  /\ killed = FALSE /\ tapUp = TRUE /\ cached \in Apps
  /\ phase = "idle" /\ dec = NoDecision
  /\ jobs = <<>> /\ running = <<>> /\ failures = {} /\ performed = <<>>
  /\ claimed = {} /\ injected = <<>> /\ pressed = 0 /\ edited = 0
  /\ moments = {} /\ overlap = 0 /\ pruned = FALSE

Callback ==
  \/ \E ev \in Keys : Press(ev)
  \/ Return
  \/ ReadTable \/ ReadGrants \/ ReadRule \/ ReadOverride \/ ReadKilled
  \/ Deliver

Worker == TakeJob \/ Perform \/ Fail

Handlers ==
  \/ \E p \in Plugins : SetPlugin(p)
  \/ \E id \in Ids : SetRule(id)
  \/ \E app \in Apps, id \in Ids, own \in {"on", "off"} :
       SetOverride(app, id, own)
  \/ \E pick \in Picks : CreateRule(pick) \/ DeleteRule(pick)
  \/ \E old, new \in Picks : UpdateRule(old, new)
  \/ Kill \/ StopTap \/ Resume
  \/ \E app \in Apps : Focus(app)

Next == Callback \/ Worker \/ Handlers

\* The worker is one goroutine.  It comes back for the next job when a call
\* returns, and the calls with a bound return.
Returns == (Perform \/ Fail) /\ Head(running).cap \notin Unbounded

Spec == Init /\ [][Next]_vars /\ WF_vars(TakeJob) /\ WF_vars(Returns)

----------------------------------------------------------------------------
(* Properties.                                                              *)

\* A decision that at most one write overlapped is the decision of some moment
\* between the key's arrival and its answer, although it reads the plugins, the
\* user rules, each rule's two switches and the kill switch under separate
\* locks; unless the write took a user rule away.
DecisionIsAMoment ==
  phase = "deliver" /\ overlap <= 1 /\ ~pruned => dec.verdict \in moments

Waiting == {jobs[i].key : i \in DOMAIN jobs} \cup
           {running[i].key : i \in DOMAIN running}
Done == {performed[i] : i \in DOMAIN performed}

\* A swallowed key's action is queued, running, done or counted, and nothing
\* else is: no key is lost and none is answered twice.
ClaimsAccounted ==
  /\ claimed = Waiting \cup Done \cup failures
  /\ Waiting \cap (Done \cup failures) = {} /\ Done \cap failures = {}

\* Actions run, and wait to run, in the order their keys were pressed.
ActionsInOrder ==
  LET line == performed \o [i \in DOMAIN running |-> running[i].key]
                        \o [i \in DOMAIN jobs |-> jobs[i].key]
  IN \A i, j \in DOMAIN line : i < j => line[i] < line[j]

Tried(k) == k \in failures \/ \E i \in DOMAIN performed : performed[i] = k

\* The worker is in a call that may never return.
Blocked == running # <<>> /\ Head(running).cap \in Unbounded

\* Every swallowed key's action is tried or counted in the end, whatever the
\* actions before it came to; unless a call without a timeout is out for ever.
EveryClaimIsTried ==
  \A k \in 1..MaxKeys : <>[]Blocked \/ (k \in claimed ~> Tried(k))

----------------------------------------------------------------------------
(* What the repository says and the code does not do.                       *)

\* "A KEY IS NEVER CLAIMED FOR AN ACTION THE DAEMON CANNOT PERFORM"
\* (main.go:352): the worker has a case for what a key is claimed for.
NeverClaimedInVain ==
  phase = "deliver" /\ dec.verdict.decision = "replace"
    => dec.verdict.cap \in Routed

\* "CrossOS-injected events ... must never re-enter matching" (router.go:190).
InjectedNeverMatched == phase = "deliver" /\ dec.ev.posted => dec.verdict = Pass

\* "Terminal excluded from copy-only so physical Ctrl+C interrupts"
\* (rules/rules.go:70): a rule that is not for terminals claims no key in one.
TerminalKeepsItsKeys ==
  phase = "deliver" /\ dec.ctx.app \in Terminals =>
    \A i \in DOMAIN Builtins :
      /\ dec.verdict.rule = Builtins[i].id
      /\ Builtins[i].modes # {} /\ "terminal" \notin Builtins[i].modes
      => dec.verdict.decision = "pass"

\* DecisionIsAMoment with no exception for user rules: "two separate reads could
\* come from either side of a write" (userrules.go:449) is what Snapshot is for.
DecisionIsOneMoment ==
  phase = "deliver" /\ overlap <= 1 => dec.verdict \in moments

\* Taking the window from the cache keeps "the first window action" from wedging
\* "every later action" (main.go:1538): every claim is tried, with no exception
\* for calls that hang.
NoActionWedges == \A k \in 1..MaxKeys : k \in claimed ~> Tried(k)

\* PANIC STOP "stops CrossOS from affecting your computer instantly"
\* (docs/safety.md:3): no action runs once it is done.
StoppedMeansNothingRuns ==
  [][killed /\ ~tapUp => performed' = performed]_vars
=============================================================================

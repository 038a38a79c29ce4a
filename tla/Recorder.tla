------------------------------ MODULE Recorder ------------------------------
(***************************************************************************)
(* What is kept of decisions: the observation bus (core/pkg/event/bus.go), *)
(* the recorder (core/pkg/record/record.go), the reproduction of reported  *)
(* cases (core/pkg/observe/observe.go) and the handlers of the Activity    *)
(* page (core/cmd/crossos/main.go, pagedata.go).                           *)
(*                                                                         *)
(* An outcome is its number; it may want an action and carry a secret.     *)
(* The tap and the core.keyEvent handler record what they decided, the bus *)
(* delivers what was published.                                            *)
(***************************************************************************)
EXTENDS Naturals, Sequences, FiniteSets, SequencesExt, Functions

CONSTANTS
  Deciders,        \* the tap's callback, IPC handlers, Reproduce
  Drainers,        \* workers that drain the bus
  Secret, Acting,  \* the outcomes with a secret, and with an action
  Cap,             \* the bus's buffer
  TraceRowLimit,   \* rows of the page, 200 in the source
  MaxOutcomes, MaxToggles   \* bounds

ASSUME RecorderAssumption ==
  Cap \in Nat \ {0} /\ TraceRowLimit \in Nat \ {0} /\ MaxOutcomes \in Nat /\ MaxToggles \in Nat

VARIABLES
  outcomes,   \* how many there are: each is numbered when it is decided or,
              \* on the bus, when it is published
  decider,    \* each decider: the outcome it has decided and not recorded
  mode, dryRun, traces,   \* the recorder
  pending, dropped,       \* the bus
  batch,      \* what each drainer still has to deliver
  published,  \* history: how many were published
  delivered,  \* history: the outcomes given to the observers, in order
  overlap,    \* history: two drainers delivered at a time
  executed,   \* history: the actions the worker ran
  jobs,       \* the actions that wait for it
  page,       \* the rows last served
  toggles
recorderVars == <<mode, dryRun, traces, page, toggles>>
busVars == <<pending, dropped, batch, published, delivered, overlap>>
workVars == <<executed, jobs>>
recordVars == <<outcomes, decider, recorderVars, busVars, workVars>>

Modes == {"off", "metadata-only", "debug", "full-trace"}
Idle == [id |-> 0, before |-> 0, step |-> "idle", mine |-> TRUE]

-----------------------------------------------------------------------------
(* The recorder: each operation under its mutex. *)

\* OnOutcome: what is a secret is redacted now, unless everything is kept; in
\* observe mode an action is said not to be executed.
Kept(id) == [id |-> id, raw |-> id \in Secret /\ mode = "full-trace",
             dry |-> dryRun /\ id \in Acting]
Recorded(id) == IF mode = "off" THEN traces ELSE Append(traces, Kept(id))

SetMode ==
  /\ toggles < MaxToggles /\ toggles' = toggles + 1
  /\ mode' \in Modes \ {mode}
  /\ UNCHANGED <<outcomes, decider, dryRun, traces, page, busVars, workVars>>

SetObserve ==
  /\ toggles < MaxToggles /\ toggles' = toggles + 1
  /\ dryRun' = ~dryRun
  /\ UNCHANGED <<outcomes, decider, mode, traces, page, busVars, workVars>>

\* The rows served: the newest, oldest first.  Clearing answers with a Traces
\* of its own, under another lock, so Traces stands for both answers.
ShownOf(s) == SubSeq(s, IF Len(s) > TraceRowLimit THEN Len(s) - TraceRowLimit + 1 ELSE 1, Len(s))
Traces ==
  /\ page' = ShownOf(traces)
  /\ UNCHANGED <<outcomes, decider, mode, dryRun, traces, toggles, busVars, workVars>>
TracesClear ==
  /\ toggles < MaxToggles /\ toggles' = toggles + 1
  /\ traces' = <<>>
  /\ UNCHANGED <<outcomes, decider, mode, dryRun, page, busVars, workVars>>

-----------------------------------------------------------------------------
(* A decision and its record are two steps; the action comes after, and the
   worker does not ask whether anybody observes. *)

Decide(d) ==
  /\ decider[d].step = "idle" /\ outcomes < MaxOutcomes
  /\ outcomes' = outcomes + 1
  /\ \E step \in {"record", "reproduce"} :
       decider' = [decider EXCEPT ![d] = [id |-> outcomes + 1, before |-> Len(traces),
                                          step |-> step, mine |-> TRUE]]
  /\ UNCHANGED <<recorderVars, busVars, workVars>>

Record(d) ==
  /\ decider[d].step = "record"
  /\ traces' = Recorded(decider[d].id)
  /\ jobs' = IF decider[d].id \in Acting THEN jobs \cup {decider[d].id} ELSE jobs
  /\ decider' = [decider EXCEPT ![d] = Idle]
  /\ UNCHANGED <<outcomes, mode, dryRun, page, toggles, busVars, executed>>

\* Reproduce has counted the traces, records, and takes the last trace for its
\* own when there are more; it executes nothing.
Replay(d) ==
  /\ decider[d].step = "reproduce"
  /\ traces' = Recorded(decider[d].id)
  /\ decider' = [decider EXCEPT ![d].step = "attach"]
  /\ UNCHANGED <<outcomes, mode, dryRun, page, toggles, busVars, workVars>>
Attach(d) ==
  /\ decider[d].step = "attach"
  /\ decider' = [decider EXCEPT
       ![d] = [Idle EXCEPT !.mine = Len(traces) > decider[d].before
                                      => Last(traces).id = decider[d].id]]
  /\ UNCHANGED <<outcomes, recorderVars, busVars, workVars>>

Perform ==
  /\ \E id \in jobs : executed' = executed \cup {id} /\ jobs' = jobs \ {id}
  /\ UNCHANGED <<outcomes, decider, recorderVars, busVars>>

-----------------------------------------------------------------------------
(* The bus. *)

\* A full buffer drops the newest, and counts it.  Who decided it, and in what
\* order deciders come here, is not the bus's to know.
Publish ==
  /\ outcomes < MaxOutcomes /\ outcomes' = outcomes + 1 /\ published' = published + 1
  /\ IF Len(pending) >= Cap
       THEN dropped' = dropped + 1 /\ UNCHANGED pending
       ELSE pending' = Append(pending, outcomes + 1) /\ UNCHANGED dropped
  /\ UNCHANGED <<decider, recorderVars, workVars, batch, delivered, overlap>>

Drain(b) ==
  /\ batch[b] = <<>> /\ pending # <<>>
  /\ batch' = [batch EXCEPT ![b] = pending] /\ pending' = <<>>
  /\ overlap' = (overlap \/ \E other \in Drainers \ {b} : batch[other] # <<>>)
  /\ UNCHANGED <<outcomes, decider, recorderVars, workVars, dropped, published, delivered>>

\* Mutant: the batch is gone through from its end.
DeliverLast(b) ==
  /\ batch[b] # <<>>
  /\ traces' = Recorded(Last(batch[b])) /\ delivered' = Append(delivered, Last(batch[b]))
  /\ batch' = [batch EXCEPT ![b] = Front(@)]
  /\ UNCHANGED <<outcomes, decider, mode, dryRun, page, toggles, workVars, pending, dropped,
                 published, overlap>>

Deliver(b) ==
  /\ batch[b] # <<>>
  /\ traces' = Recorded(Head(batch[b])) /\ delivered' = Append(delivered, Head(batch[b]))
  /\ batch' = [batch EXCEPT ![b] = Tail(@)]
  /\ UNCHANGED <<outcomes, decider, mode, dryRun, page, toggles, workVars, pending, dropped,
                 published, overlap>>

RecordInit ==
  /\ outcomes = 0 /\ decider = [d \in Deciders |-> Idle]
  /\ mode = "metadata-only" /\ dryRun = FALSE /\ traces = <<>>
  /\ pending = <<>> /\ dropped = 0 /\ batch = [b \in Drainers |-> <<>>]
  /\ published = 0 /\ delivered = <<>> /\ overlap = FALSE
  /\ executed = {} /\ jobs = {} /\ page = <<>> /\ toggles = 0

RecordNext ==
  \/ SetMode \/ SetObserve \/ Traces \/ TracesClear \/ Perform \/ Publish
  \/ \E d \in Deciders : Decide(d) \/ Record(d) \/ Replay(d) \/ Attach(d)
  \/ \E b \in Drainers : Drain(b) \/ Deliver(b)

-----------------------------------------------------------------------------
(* Properties. *)

\* What was published is delivered, on its way, or counted as dropped, however
\* publishing, draining and a full buffer interleave ("No-drop applies to
\* accounting", bus.go:17).
BusAccounts ==
  published = dropped + Len(pending) + Len(delivered)
                + SumFunction([b \in Drainers |-> Len(batch[b])])

\* Observers are given the outcomes in the order they were published, as long as
\* no second drain begins before the first has delivered: what survives drops
\* keeps its order.
OrderedIfOneDrains ==
  ~overlap => \A i, j \in DOMAIN delivered : i < j => delivered[i] < delivered[j]

\* Claimed: "delivers all buffered Outcomes to every observer, in order"
\* (bus.go:56), which two drains at a time do not.
OrderedAlways == \A i, j \in DOMAIN delivered : i < j => delivered[i] < delivered[j]

\* Claimed: a trace marked "(not executed)" (record.go:139) was not executed;
\* the dispatch worker never asks the recorder.
DryRunIsDry ==
  \A i \in DOMAIN traces : traces[i].dry => traces[i].id \notin executed

\* Claimed: SanitizeForDisplay and the trace rows show no raw secret
\* (observe.go:171); what full-trace kept is still shown under another mode.
DisplayIsClean ==
  mode = "metadata-only" => \A i \in DOMAIN page : ~page[i].raw

\* Claimed: "Trace attachment is per-fixture" (observe.go:71); another decision
\* recorded in between is attached instead.
ReproduceAttachesOwn == \A d \in Deciders : decider[d].mine
=============================================================================

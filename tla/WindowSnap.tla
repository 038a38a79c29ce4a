----------------------------- MODULE WindowSnap -----------------------------
(***************************************************************************)
(* Window actions.  The daemon's: a key's job waits for the dispatch       *)
(* worker, which takes the frame the watcher cached and asks the           *)
(* accessibility bridge (windowDispatch in core/cmd/crossos/main.go, the   *)
(* window calls of core/internal/adapter and of                            *)
(* platform/darwin/adapter/ax_bridge.c).  And two libraries' the daemon    *)
(* does not come to: the bridge's close, minimize and maximize, which      *)
(* dispatch does not route, and the Executor that remembers frames         *)
(* (core/pkg/winlayout/actions.go).                                        *)
(*                                                                         *)
(* The bridge's frames have y grow downwards from the top of the screen.   *)
(***************************************************************************)
EXTENDS WindowLayout, FiniteSets

CONSTANTS
  Windows,      \* windows, all on the one screen
  Visible,      \* its visible area, as the bridge's frames are
  DockHeight,   \* below it, where the screen's own y starts
  Moves,        \* the zones keys are bound to
  Places,       \* where the user may put a window
  HistoryCap,   \* the Executor's history: 128
  MaxPresses,   \* bound: keys pressed, and actions asked of the bridge
  MaxActs       \* bound: actions of the Executor, and drags

ASSUME SnapAssumption ==
  /\ MaxActs \in Nat /\ MaxPresses \in Nat /\ HistoryCap \in Nat \ {0} /\ DockHeight \in Nat
  /\ Moves \subseteq DOMAIN Zones \cup AdapterZones

VARIABLES
  frames, closed, minimized, front,  \* external: the windows
  seen,        \* windowCache: the focused window as the watcher last saw it
  queued,      \* the zone of the job the worker has not begun, as a set of at
               \* most one
  asked,       \* what the bridge is asked for, likewise
  hist,        \* Executor.History
  before,      \* history: each window's frame before its first snap since it
               \* was last restored, and the windows first snapped since
  acts,        \* actions so far
  last         \* history: what the daemon's last step changed, if it did
deskVars == <<frames, closed, minimized, front>>
keyVars == <<seen, queued, asked, last>>
executorVars == <<hist, before>>
snapVars == <<deskVars, keyVars, executorVars, acts>>

-----------------------------------------------------------------------------
(* The daemon.                                                               *)

\* The watcher's answer lands.
Look ==
  /\ front \notin closed \cup minimized
  /\ seen' = {[id |-> front, frame |-> frames[front]]}
  /\ last' = {}
  /\ UNCHANGED <<deskVars, queued, asked, executorVars, acts>>

\* Of the window capabilities dispatch has a case for window.move alone.
PressKey(zone) ==
  /\ acts < MaxPresses /\ queued = {}
  /\ acts' = acts + 1
  /\ queued' = {zone} /\ last' = {}
  /\ UNCHANGED <<deskVars, seen, asked, executorVars>>

\* No window has been seen yet, or the zone has no geometry: the key is spent.
Refuse ==
  /\ asked = {}
  /\ \E zone \in queued : seen = {} \/ zone \notin DOMAIN Zones
  /\ queued' = {} /\ last' = {}
  /\ UNCHANGED <<deskVars, seen, asked, executorVars, acts>>

\* The worker reads the cache; a move's target is a zone of the window's frame.
AskBridge ==
  /\ asked = {}
  /\ \E zone \in queued \cap DOMAIN Zones, fw \in seen :
       asked' = {[cap |-> "window.move", zone |-> zone, id |-> fw.id,
                  target |-> Frame(zone, fw.frame)]}
  /\ queued' = {} /\ last' = {}
  /\ UNCHANGED <<deskVars, seen, executorVars, acts>>

\* SetWindowAction: who calls it names no window.
SetWindowAction(cap) ==
  /\ asked = {} /\ acts < MaxPresses /\ acts' = acts + 1
  /\ asked' = {[cap |-> cap, zone |-> "none", id |-> front, target |-> frames[front]]}
  /\ last' = {}
  /\ UNCHANGED <<deskVars, seen, queued, executorVars>>

\* The bridge acts on the window that is in front by then.
Changed(req, to) ==
  /\ asked' = {}
  /\ last' = {[kind |-> req.cap, zone |-> req.zone, window |-> front,
               seen |-> req.id, old |-> frames[front], new |-> to]}
  /\ frames' = [frames EXCEPT ![front] = to]
  /\ UNCHANGED <<front, seen, queued, executorVars, acts>>

\* Its position is set, then its size, and the second may fail.
MoveResize ==
  \E req \in asked :
    /\ req.cap = "window.move" /\ front \notin closed
    /\ \/ Changed(req, req.target)
       \/ Changed(req, [frames[front] EXCEPT !.x = req.target.x, !.y = req.target.y])
    /\ UNCHANGED <<closed, minimized>>

\* The screen's own visible frame, whose y is measured from the screen's foot;
\* again its size may fail.
BridgeMaximize ==
  \E req \in asked :
    /\ req.cap = "window.maximize" /\ front \notin closed
    /\ \/ Changed(req, [Visible EXCEPT !.y = DockHeight])
       \/ Changed(req, [frames[front] EXCEPT !.x = Visible.x, !.y = DockHeight])
    /\ UNCHANGED <<closed, minimized>>

\* The window's own buttons are pressed.
BridgeClose ==
  \E req \in asked :
    /\ req.cap = "window.close" /\ front \notin closed
    /\ Changed(req, frames[front])
    /\ closed' = closed \cup {front}
    /\ UNCHANGED minimized

BridgeMinimize ==
  \E req \in asked :
    /\ req.cap = "window.minimize" /\ front \notin closed
    /\ Changed(req, frames[front])
    /\ minimized' = minimized \cup {front}
    /\ UNCHANGED closed

\* Consent is missing, or there is no such window.
BridgeFails ==
  /\ asked # {} /\ asked' = {} /\ last' = {}
  /\ UNCHANGED <<deskVars, seen, queued, executorVars, acts>>

\* External.
Raise(w) ==
  /\ w # front /\ w \notin closed
  /\ front' = w /\ minimized' = minimized \ {w} /\ last' = {}
  /\ UNCHANGED <<frames, closed, seen, queued, asked, executorVars, acts>>

DaemonNext ==
  \/ Look \/ Refuse \/ AskBridge
  \/ \E zone \in Moves : PressKey(zone)
  \/ \E cap \in {"window.close", "window.minimize", "window.maximize"} : SetWindowAction(cap)
  \/ MoveResize \/ BridgeMaximize \/ BridgeClose \/ BridgeMinimize \/ BridgeFails
  \/ \E w \in Windows : Raise(w)

-----------------------------------------------------------------------------
(* The Executor, and a host that puts a window where it says.                *)

\* The frame before the first snap is kept.
Resolve(w) ==
  IF w \in Remembered(hist) THEN hist ELSE Push(hist, w, frames[w], HistoryCap)

Snap(w, zone) ==
  /\ acts < MaxActs /\ acts' = acts + 1
  /\ hist' = Resolve(w)
  /\ frames' = [frames EXCEPT ![w] = Frame(zone, Visible)]
  /\ before' = [v \in DOMAIN before \cup {w} |->
       IF v \notin DOMAIN before THEN [frame |-> frames[w], since |-> {}]
       ELSE IF v # w /\ w \notin Remembered(hist)
            THEN [before[v] EXCEPT !.since = @ \cup {w}]
       ELSE before[v]]
  /\ UNCHANGED <<closed, minimized, front, keyVars>>

\* The window goes back where it was, if the history has it still.
Restore(w) ==
  /\ acts < MaxActs /\ acts' = acts + 1
  /\ IF w \in Remembered(hist)
     THEN hist' = Pop(hist, w) /\ frames' = [frames EXCEPT ![w] = hist.frames[w]]
     ELSE UNCHANGED <<hist, frames>>
  /\ before' = Forget(before, w)
  /\ UNCHANGED <<closed, minimized, front, keyVars>>

\* External: the user drags it.
Drag(w) ==
  /\ acts < MaxActs /\ acts' = acts + 1
  /\ \E place \in Places : frames' = [frames EXCEPT ![w] = place]
  /\ UNCHANGED <<closed, minimized, front, keyVars, executorVars>>

ExecutorNext ==
  \E w \in Windows :
    \/ \E zone \in Moves \cap DOMAIN Zones : Snap(w, zone)
    \/ Restore(w) \/ Drag(w)

-----------------------------------------------------------------------------
SnapInit ==
  /\ frames \in [Windows -> Places]
  /\ closed = {} /\ minimized = {} /\ front = CHOOSE w \in Windows : TRUE
  /\ seen = {} /\ queued = {} /\ asked = {} /\ last = {}
  /\ hist = NoFrames /\ before = [w \in {} |-> {}] /\ acts = 0

-----------------------------------------------------------------------------
(* Properties. *)

\* What a restore will give back is the frame the window had before its first
\* snap since it was last restored, however often it was snapped and dragged
\* since; as long as fewer other windows than the history holds were snapped
\* for their first time after it.
RestoreUndoes ==
  \A w \in DOMAIN before :
    Cardinality(before[w].since) < HistoryCap =>
      w \in Remembered(hist) /\ hist.frames[w] = before[w].frame

-----------------------------------------------------------------------------
(* What the repository says and the code does not do. *)

\* "Frame returns the target frame for action on screen's visible area"
\* (layout.go:54): a key for a zone puts a window there, once its position and
\* its size are both set.  The daemon passes the window's own frame for the area.
ZonesAreOfTheScreen ==
  \A c \in last : c.kind = "window.move" /\ c.old.w # c.new.w =>
    c.new = Frame(c.zone, Visible)

\* "Y=0 is BOTTOM" (layout_test.go:34), and nothing turns it over for the
\* bridge: the upper half of a window has the window's top.
TopIsTheTop ==
  \A c \in last :
    c.zone = "topHalf" /\ c.window = c.seen /\ c.old.h # c.new.h => c.new.y = c.old.y

\* "WindowMaximize fills the focused window's screen with it - the full visible
\* frame" (adapter.go:189), once its position and its size are both set.
MaximizeFills ==
  \A c \in last : c.kind = "window.maximize" /\ c.old.w # c.new.w => c.new = Visible
=============================================================================

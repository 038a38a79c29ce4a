------------------------------ MODULE SlowPath ------------------------------
(***************************************************************************)
(* What runs beside the decisions: the watcher of the focused app, the     *)
(* context engine's cache, the recorder and its bus, the window actions    *)
(* and the library that remembers frames.  They share no variable and no   *)
(* lock, so a behaviour of their composition is an interleaving that none  *)
(* of them can observe: part names the one a behaviour moves, and the      *)
(* others rest.                                                            *)
(***************************************************************************)
EXTENDS FocusWatch, ContextCache, Recorder, WindowSnap

VARIABLE part
slowVars == <<watchVars, cacheVars, recordVars, snapVars, part>>

SlowInit ==
  /\ part \in {"watch", "cache", "record", "windows", "frames"}
  /\ WatchInit /\ CacheInit /\ RecordInit /\ SnapInit

WatchStep ==
  part = "watch" /\ WatchNext /\ UNCHANGED <<cacheVars, recordVars, snapVars, part>>
CacheStep ==
  part = "cache" /\ CacheNext /\ UNCHANGED <<watchVars, recordVars, snapVars, part>>
RecordStep ==
  part = "record" /\ RecordNext /\ UNCHANGED <<watchVars, cacheVars, snapVars, part>>
WindowStep ==
  part = "windows" /\ DaemonNext /\ UNCHANGED <<watchVars, cacheVars, recordVars, part>>
FrameStep ==
  part = "frames" /\ ExecutorNext /\ UNCHANGED <<watchVars, cacheVars, recordVars, part>>

SlowNext == WatchStep \/ CacheStep \/ RecordStep \/ WindowStep \/ FrameStep

SlowSpec == SlowInit /\ [][SlowNext]_slowVars /\ CacheFairness
=============================================================================

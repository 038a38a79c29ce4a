----------------------------- MODULE TapContract -----------------------------
(***************************************************************************)
(* What the adapter's TapStart and TapStop do to the taps, for the daemon  *)
(* that calls them.                                                        *)
(*                                                                         *)
(* The adapter serialises the two with tapStopOnce, so a caller never sees *)
(* half of either.  What it can see is an install that TapStart gave up on *)
(* (installTimeout) and that answers later: nothing of it depends on the   *)
(* slot any more, so a TapStop in between frees the slot and the tap comes *)
(* up all the same.  There is one slot and one handle, and TapStop         *)
(* destroys the tap the handle names, not the caller's own.  KillSwitch is *)
(* built on this contract and TapLoop implements it.                       *)
(***************************************************************************)

CONSTANTS
  Drivers,   \* the adapter.Driver values a process may start a tap with
  NoDriver   \* the nil driver

ASSUME DriverAssumption == NoDriver \notin Drivers

VARIABLES
  slot,      \* the driver whose TapStart holds tapLoopStop/tapLoopDone
  up,        \* the drivers whose event taps are attached
  handle,    \* the driver whose tap tapHandle names
  pending    \* the drivers whose install has not answered yet

tapVars == <<slot, up, handle, pending>>

MaybeDriver == Drivers \cup {NoDriver}

TapTypeOK ==
  /\ slot \in MaybeDriver
  /\ up \subseteq Drivers
  /\ handle \in MaybeDriver
  /\ pending \subseteq Drivers

TapInit ==
  /\ slot = NoDriver
  /\ up = {}
  /\ handle = NoDriver
  /\ pending = {}

\* The install replied within installTimeout and the tap is live.
InstallOK(d) ==
  /\ slot = NoDriver
  /\ slot' = d
  /\ up' = up \cup {d}
  /\ handle' = d
  /\ UNCHANGED pending

\* The install was refused (no consent): the slot is released again.
InstallDenied ==
  /\ slot = NoDriver
  /\ UNCHANGED tapVars

\* "adapter: tap already running".
InstallBusy ==
  /\ slot # NoDriver
  /\ UNCHANGED tapVars

\* The slot is taken and the install goes on by itself: what TapStart leaves
\* behind when it reports "tap install still in progress".
InstallLate(d) ==
  /\ slot = NoDriver
  /\ slot' = d
  /\ pending' = pending \cup {d}
  /\ UNCHANGED <<up, handle>>

\* The install goroutine gets its tap, whoever holds the slot by then.
LateArrival(d) ==
  /\ d \in pending
  /\ pending' = pending \ {d}
  /\ up' = up \cup {d}
  /\ handle' = d
  /\ UNCHANGED slot

\* ... or is refused it: nobody is there to release the slot.
LateRefusal(d) ==
  /\ d \in pending
  /\ pending' = pending \ {d}
  /\ UNCHANGED <<slot, up, handle>>

\* A TapStart still waiting reads the refusal (a step of its own only in the
\* adapter; the daemon sees InstallDenied).
ReleaseSlot ==
  /\ slot \notin pending \cup up
  /\ slot' = NoDriver
  /\ UNCHANGED <<up, handle, pending>>

\* TapStop: a no-op when the slot is empty, otherwise the slot is cleared and
\* the tap the handle names is destroyed.  A pending install goes on.
RemoveTap ==
  /\ slot' = NoDriver
  /\ IF slot = NoDriver
       THEN UNCHANGED <<up, handle>>
       ELSE up' = up \ {handle} /\ handle' = NoDriver
  /\ UNCHANGED pending

TapNext ==
  \/ \E d \in Drivers :
       InstallOK(d) \/ InstallLate(d) \/ LateArrival(d) \/ LateRefusal(d)
  \/ ReleaseSlot
  \/ RemoveTap

TapSpec == TapInit /\ [][TapNext]_tapVars

\* A tap that is there, or on its way, is one TapStop can reach: its run loop
\* is the one whose stop channel is in the slot (tap_cgo.go, TapStop).
LiveTapIsStoppable ==
  /\ up \cup pending \subseteq {slot}
  /\ up # {} => handle = slot
==============================================================================

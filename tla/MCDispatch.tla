----------------------------- MODULE MCDispatch -----------------------------
(* Dispatch with a slice of the real tables: Ctrl+C copies in native apps,   *)
(* Alt+F4 closes a window, Ctrl+Shift+C copies the path in an editor, and a  *)
(* user who would have Ctrl+C swallowed, or move a window, and Win+C copy.   *)
EXTENDS Conflicts

Rule(id, plugin, key, mods, modes, apps, prio, spec, scope, cap) ==
  [id |-> id, plugin |-> plugin, key |-> key, mods |-> mods, phases |-> {},
   modes |-> modes, apps |-> apps, device |-> {}, prio |-> prio,
   spec |-> spec, scope |-> scope, cap |-> cap, emit |-> TRUE]

CopyPath == Rule(1, "developer", "C", {"ctrl", "shift"}, {"native"}, {"editor"},
                 80, 2, 1, "clipboard.copyPath")
Close == Rule(5, "windows-keyboard", "F4", {"alt"}, {"native", "terminal"}, {},
              10, 1, 0, "window.close")
Copy == Rule(6, "windows-keyboard", "C", {"ctrl"}, {"native"}, {},
             80, 1, 1, "clipboard.copy")

Pick(id, mods, apps, cap, emit) ==
  [id |-> id, key |-> "C", mods |-> mods, modes |-> {}, apps |-> apps,
   device |-> {}, cap |-> cap, emit |-> emit]

Key(key, mods) ==
  [key |-> key, mods |-> mods, phase |-> "down", source |-> "keyboard",
   posted |-> FALSE]

MCBuiltins == <<Close, Copy, CopyPath>>
SmallBuiltins == <<Copy, CopyPath>>
MCGrants == [p \in {"windows-keyboard", "developer"} |->
               IF p = "developer" THEN {"access.control", "filesystem"}
               ELSE {"input.intercept", "access.control"}]
MCPicks == {Pick(2, {"ctrl"}, {"editor"}, "window.move", TRUE),
            Pick(3, {"ctrl"}, {}, "clipboard.read", TRUE)}
WinCopies == {Pick(4, {"win"}, {}, "clipboard.copy", TRUE)}
SmallKeys == {Key("C", {"ctrl"}), Key("C", {"ctrl", "shift"})}
MCKeys == {Key("C", {"ctrl"}), Key("C", {"ctrl", "shift"}), Key("F4", {"alt"})}
MCCopyChord == [Key("C", {"win"}) EXCEPT !.posted = TRUE]
=============================================================================

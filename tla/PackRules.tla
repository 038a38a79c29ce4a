----------------------------- MODULE PackRules -----------------------------
(***************************************************************************)
(* Extension packs without their state (core/pkg/plugin/pack.go): when a   *)
(* manifest is valid and which of its actions a selection is offered; and  *)
(* the version gate (core/pkg/pluginapi/lifecycle.go).  A blank string is  *)
(* "", an item is [dir, uti, missing], a path a sequence of segments.      *)
(***************************************************************************)
EXTENDS Naturals, Sequences, SequencesExt

CONSTANT MaxPackPaths   \* the cap on a selection, 100 in the source
ASSUME CapAssumption == MaxPackPaths \in Nat

-----------------------------------------------------------------------------
(* Manifests. *)

\* What decoding fills in: no placement is the top level, isEnabled is true.
Filled(a) == [a EXCEPT !.placement = IF @ = "" THEN "topLevel" ELSE @,
                       !.enabled = IF @ = "" THEN "true" ELSE @]

ActionOK(a) ==
  /\ a.id # "" /\ a.title # ""
  /\ \/ a.type = "native" /\ a.capability # ""
     \/ a.type = "process" /\ a.plugin # ""
  /\ a.placement \in {"topLevel", "submenu"}

Validate(m) ==
  /\ m.schema \in 1..2 /\ m.name # "" /\ m.actions # <<>>
  /\ \A i \in DOMAIN m.actions : ActionOK(Filled(m.actions[i]))
  /\ \A i, j \in DOMAIN m.actions : m.actions[i].id = m.actions[j].id => i = j

-----------------------------------------------------------------------------
(* Matching.  A context is [container, items]. *)

Files(items) == \A i \in DOMAIN items : ~items[i].dir
Folders(items) == \A i \in DOMAIN items : items[i].dir

TargetHit(targets, items) ==
  FoldLeft(LAMBDA hit, t :
             IF hit THEN TRUE
             ELSE CASE t \in {"any", "selection"} -> TRUE
                    [] t = "files" -> Files(items)
                    [] t = "folders" -> Folders(items)
                    [] OTHER -> hit,
           FALSE, targets)

\* The reasons, in the order they are looked for.
Match(a, ctx, levelB, minCount, maxCount) ==
  CASE a.enabled = "false" -> "disabled"
    [] a.type = "process" /\ ~levelB -> "shellGated"
    [] ctx.container /\ Contains(a.targets, "container") -> "matched"
    [] ctx.container -> "targetMismatch"
    [] ctx.items = <<>> -> "emptySelection"
    [] \E i \in DOMAIN ctx.items : ctx.items[i].missing -> "unavailableItem"
    [] minCount > 0 /\ Len(ctx.items) < minCount -> "tooFew"
    [] maxCount > 0 /\ Len(ctx.items) > maxCount -> "tooMany"
    [] ~TargetHit(a.targets, ctx.items) -> "targetMismatch"
    [] a.utis # {} /\ \E i \in DOMAIN ctx.items : ctx.items[i].uti \notin a.utis -> "utiMismatch"
    [] OTHER -> "matched"

VisibleActions(m, ctx, levelB) ==
  SelectSeq([i \in DOMAIN m.actions |-> Filled(m.actions[i])],
            LAMBDA a : Match(a, ctx, levelB, 0, MaxPackPaths + 1) = "matched")

-----------------------------------------------------------------------------
(* Versions: sequences of numbers, <<>> for none declared. *)

At(v, i) == IF i \in DOMAIN v THEN v[i] ELSE 0

\* compareSemver: missing parts are zero, the first difference decides.
AtMost(a, b) ==
  \/ \A i \in DOMAIN a \cup DOMAIN b : At(a, i) = At(b, i)
  \/ \E i \in DOMAIN a \cup DOMAIN b :
       At(a, i) < At(b, i) /\ \A j \in 1..(i - 1) : At(a, j) = At(b, j)

CompatibleWith(minCore, core) == minCore # <<>> /\ AtMost(minCore, core)
=============================================================================

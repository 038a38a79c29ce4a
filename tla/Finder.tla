------------------------------- MODULE Finder -------------------------------
(***************************************************************************)
(* The Explorer page and the Finder menu (core/cmd/crossos/finderdata.go,  *)
(* findermenu.go): the file-type catalog and the menu switches as they are *)
(* edited, and the verbs that make files in the user's folder.             *)
(*                                                                         *)
(* Each request runs in the goroutine of its connection.  The settings     *)
(* store locks each call, no handler holds a lock from its read to its     *)
(* write, and every call into the file system is a step of its own: the    *)
(* user, another request and the end of the process come in between.       *)
(* The folder holds the names candidate(1), candidate(2), ... of one base  *)
(* name; a name and its ".crossos-partial" staging name hold a file or     *)
(* nothing, and a file keeps its identity when it is renamed.  A click     *)
(* makes that base name, and what is duplicated is the file at the first.  *)
(***************************************************************************)
EXTENDS FileCatalog

CONSTANTS
  Requests,    \* connections, each with one request at a time
  Seeds,       \* the catalog the store has at the start
  Edits,       \* rows a page may send
  Orders,      \* id lists a page may send
  Menu,        \* ids of findermenu.Menu
  Exts,        \* extensions a click may name; a known one is the folder's
  Paths,       \* paths a click may name
  NameMax,     \* bound: names that UniqueName probes
  MaxAsked,    \* bound: requests
  MaxMeddled,  \* bound: what the user does in the folder
  MaxCrashes   \* bound: ends of the process

ASSUME FinderAssumption ==
  /\ IsCatalog(Seeds) /\ Validate(Seeds)
  /\ IsCatalog(Edits) /\ Validate(Edits)
  /\ \A ids \in Orders : ids \in Seq(ToSet(ids))
  /\ NameMax \in Nat \ {0}
  /\ {MaxAsked, MaxMeddled, MaxCrashes} \subseteq Nat

VARIABLES
  catalog,   \* settings.Store.fileTypes, and the document: one write
  storedOff, \* settings.Store.menuOff, and the document
  menuOff,   \* Core.menuOff
  folder,    \* the file at each name, 0 for none
  staging,   \* the file at each staging name
  data,      \* what each file holds, the files in the order they were made
  req,       \* the request of each connection
  racedNames, \* history: staging names that two duplicates had at once
  racedRows,  \* history: menu rows that two toggles overlapped on
  asked, meddled, crashes

settingsVars == <<catalog, storedOff, menuOff>>
folderVars == <<folder, staging, data>>
countVars == <<asked, meddled, crashes>>
raced == <<racedNames, racedRows>>
vars == <<settingsVars, folderVars, req, raced, countVars>>

NameIdx == 1 .. NameMax
Ended == {"idle", "answered", "refused"}

Idle == [pc |-> "idle", op |-> "none", arg |-> 0, seen |-> {}, at |-> 0,
         stage |-> 0, file |-> 0]

Free(f) == folder[f] = 0
Contents == {"users", "part", "copying", "whole"}
NewFile == Len(data) + 1
Made(what) == data' = Append(data, what)
InFolder == {folder[n] : n \in NameIdx} \ {0}

Pcs == Ended \cup
  {"setFileType", "reorder", "writeCatalog", "toggle", "runToggle",
   "createFile", "make", "fill", "duplicate", "probe", "clear", "open", "copy",
   "reprobe", "look", "rename", "sweepBad", "sweepOK"}
Stages == {"open", "copy", "reprobe", "look", "rename", "sweepBad", "sweepOK"}
Naming == {"probe", "make", "clear"} \cup Stages
Filing == {"fill", "copy", "reprobe", "look", "rename"}

\* What a request holds depends on where it is.
RequestOK(job) ==
  /\ DOMAIN job = DOMAIN Idle
  /\ job.pc \in Pcs
  /\ job.pc \in Naming => job.at \in NameIdx
  /\ job.pc \in Stages => job.stage \in NameIdx
  /\ job.pc \in Filing => job.file \in DOMAIN data
  /\ job.pc \in {"toggle", "runToggle"} =>
       job.arg \in [id : Menu \cup {"stranger"}, off : BOOLEAN]
  /\ job.pc = "runToggle" => job.arg.id \in Menu
  /\ job.pc = "reorder" => job.arg \in Orders
  /\ job.pc = "writeCatalog" => IsCatalog(job.seen)

TypeOK ==
  /\ IsCatalog(catalog)
  /\ storedOff \subseteq Menu /\ menuOff \subseteq Menu
  /\ data \in Seq(Contents)
  /\ folder \in [NameIdx -> 0 .. Len(data)]
  /\ staging \in [NameIdx -> 0 .. Len(data)]
  /\ DOMAIN req = Requests /\ \A r \in Requests : RequestOK(req[r])
  /\ racedNames \subseteq NameIdx /\ racedRows \subseteq Menu
  /\ asked \in Nat /\ meddled \in Nat /\ crashes \in Nat

Step(r, from, to) == req[r].pc = from /\ req' = [req EXCEPT ![r].pc = to]
Refuse(r, from) == Step(r, from, "refused")

-----------------------------------------------------------------------------
(* Requests. *)

Ask(r, op, arg) ==
  req' = [req EXCEPT ![r] = [Idle EXCEPT !.op = op, !.pc = op, !.arg = arg]]

\* A dispatched request: the page's three edits, and the menu's verbs.
Take(r) ==
  /\ req[r].pc \in Ended
  /\ asked < MaxAsked /\ asked' = asked + 1
  /\ \/ \E row \in ToSet(Edits) : Ask(r, "setFileType", row)
     \/ \E ids \in Orders : Ask(r, "reorder", ids)
     \/ \E id \in Menu \cup {"stranger"}, off \in BOOLEAN :
          Ask(r, "toggle", [id |-> id, off |-> off])
     \/ \E ext \in Exts : Ask(r, "createFile", ext)
     \/ Ask(r, "duplicate", 1)
  /\ UNCHANGED <<settingsVars, folderVars, raced, meddled, crashes>>

\* A copy of relative paths touches no state.  Bound: it is asked alone.
CopyRelative(r) ==
  /\ req[r].pc \in Ended /\ asked = 0 /\ asked' = MaxAsked
  /\ \E base \in Paths, target \in Paths :
       /\ AbsoluteSlash(base) /\ FinderSelection(<<target>>, 1)
       /\ req' = [req EXCEPT ![r] =
                    [Idle EXCEPT !.op = "relative", !.pc = "answered",
                                 !.arg = <<base, target>>,
                                 !.seen = RelativeSlash(base, target)]]
  /\ UNCHANGED <<settingsVars, folderVars, raced, meddled, crashes>>

-----------------------------------------------------------------------------
(* The catalog and the switches. *)

\* The handler's copy of the catalog; a row or an order that does not fit it
\* is refused.
ReadCatalog(r) ==
  LET arg == req[r].arg
      Fits(new) == req' = [req EXCEPT ![r].pc = "writeCatalog", ![r].seen = new]
  IN
  /\ \/ /\ req[r].pc = "setFileType"
        /\ IF Names(catalog, arg) # {} THEN Fits(SetFileType(catalog, arg))
             ELSE Refuse(r, "setFileType")
     \/ /\ req[r].pc = "reorder"
        /\ IF Reorders(catalog, arg) THEN Fits(ReorderFileTypes(catalog, arg))
             ELSE Refuse(r, "reorder")
  /\ UNCHANGED <<settingsVars, folderVars, raced, countVars>>

\* The whole list is written, or the write fails and nothing changes.
WriteCatalog(r) ==
  /\ req[r].pc = "writeCatalog"
  /\ \/ /\ Validate(req[r].seen)
        /\ Step(r, "writeCatalog", "answered")
        /\ catalog' = req[r].seen
     \/ /\ Refuse(r, "writeCatalog")
        /\ UNCHANGED catalog
  /\ UNCHANGED <<storedOff, menuOff, folderVars, raced, countVars>>

\* Mutant: a write that fails is taken for one that did not.
StoreToggleAnyway(r) ==
  /\ Step(r, "toggle", "runToggle")
  /\ UNCHANGED <<settingsVars, folderVars, raced, countVars>>

\* The document first, then the running map: a failed write leaves both, and
\* a row the menu does not have is refused.
StoreToggle(r) ==
  LET t == req[r].arg IN
  /\ req[r].pc = "toggle"
  /\ \/ /\ t.id \in Menu
        /\ Step(r, "toggle", "runToggle")
        /\ storedOff' = IF t.off THEN storedOff \cup {t.id} ELSE storedOff \ {t.id}
        /\ racedRows' = IF \E q \in Requests \ {r} : req[q].pc = "runToggle" /\ req[q].arg.id = t.id
                          THEN racedRows \cup {t.id} ELSE racedRows
     \/ /\ Refuse(r, "toggle")
        /\ UNCHANGED <<storedOff, racedRows>>
  /\ UNCHANGED <<catalog, menuOff, folderVars, racedNames, countVars>>

RunToggle(r) ==
  LET t == req[r].arg IN
  /\ Step(r, "runToggle", "answered")
  /\ menuOff' = IF t.off THEN menuOff \cup {t.id} ELSE menuOff \ {t.id}
  /\ UNCHANGED <<catalog, storedOff, folderVars, raced, countVars>>

-----------------------------------------------------------------------------
(* createFile. *)

\* finderFileType answers from the catalog of the moment.
ResolveType(r) ==
  /\ req[r].pc = "createFile"
  /\ IF FileTypeAccepts(catalog, req[r].arg)
       THEN req' = [req EXCEPT ![r].pc = "probe", ![r].at = 1]
       ELSE Refuse(r, "createFile")
  /\ UNCHANGED <<settingsVars, folderVars, raced, countVars>>

\* One Lstat of UniqueName: the next name, or the verb's next step.
Probe(r) ==
  /\ req[r].pc \in {"probe", "reprobe"}
  /\ IF Free(req[r].at)
       THEN req' = [req EXCEPT ![r].pc =
                      CASE req[r].op = "createFile" -> "make"
                        [] req[r].pc = "probe" -> "clear"
                        [] OTHER -> "look"]
       ELSE /\ req[r].at < NameMax
            /\ req' = [req EXCEPT ![r].at = @ + 1]
  /\ UNCHANGED <<settingsVars, folderVars, raced, countVars>>

\* O_EXCL: the name is still free, or the verb fails.
Make(r) ==
  /\ req[r].pc = "make"
  /\ IF Free(req[r].at)
       THEN /\ req' = [req EXCEPT ![r].pc = "fill", ![r].file = NewFile]
            /\ folder' = [folder EXCEPT ![req[r].at] = NewFile]
            /\ Made("part")
       ELSE Refuse(r, "make") /\ UNCHANGED <<folder, data>>
  /\ UNCHANGED <<settingsVars, staging, raced, countVars>>

\* The template is written, or the write fails and the file stays.
Fill(r) ==
  /\ \/ Step(r, "fill", "answered") /\ data' = [data EXCEPT ![req[r].file] = "whole"]
     \/ Refuse(r, "fill") /\ UNCHANGED data
  /\ UNCHANGED <<settingsVars, folder, staging, raced, countVars>>

-----------------------------------------------------------------------------
(* duplicateBeside. *)

Lstat(r) ==
  /\ req[r].pc = "duplicate"
  /\ IF Free(req[r].arg) THEN Refuse(r, "duplicate")
       ELSE req' = [req EXCEPT ![r].pc = "probe", ![r].at = 1]
  /\ UNCHANGED <<settingsVars, folderVars, raced, countVars>>

\* Mutant: the staging name is not cleared before the copy.
ClearNothing(r) ==
  /\ req[r].pc = "clear"
  /\ req' = [req EXCEPT ![r].pc = "open", ![r].stage = req[r].at]
  /\ UNCHANGED <<settingsVars, folderVars, raced, countVars>>

\* RemoveAll of the staging name chosen: what a killed run left goes.
ClearStaging(r) ==
  LET n == req[r].at IN
  /\ req[r].pc = "clear"
  /\ req' = [req EXCEPT ![r].pc = "open", ![r].stage = n]
  /\ staging' = [staging EXCEPT ![n] = 0]
  /\ racedNames' = IF \E q \in Requests \ {r} : req[q].pc \in Stages /\ req[q].stage = n
                     THEN racedNames \cup {n} ELSE racedNames
  /\ UNCHANGED <<settingsVars, folder, data, racedRows, countVars>>

\* copyTree opens the source, and its copy O_EXCL.
OpenCopy(r) ==
  LET n == req[r].stage IN
  /\ req[r].pc = "open"
  /\ IF Free(req[r].arg) \/ staging[n] # 0
       THEN Step(r, "open", "sweepBad") /\ UNCHANGED <<staging, data>>
       ELSE /\ req' = [req EXCEPT ![r].pc = "copy", ![r].file = NewFile]
            /\ staging' = [staging EXCEPT ![n] = NewFile]
            /\ Made("copying")
  /\ UNCHANGED <<settingsVars, folder, raced, countVars>>

\* io.Copy and Close, through the open file wherever it is now linked.
Copy(r) ==
  /\ \/ /\ req[r].pc = "copy"
        /\ req' = [req EXCEPT ![r].pc = "look", ![r].seen = InFolder]
        /\ data' = [data EXCEPT ![req[r].file] = "whole"]
     \/ /\ Step(r, "copy", "sweepBad")
        /\ UNCHANGED data
  /\ UNCHANGED <<settingsVars, folder, staging, raced, countVars>>

\* Mutant: the name chosen before the copy is still the one.
LookNoMore(r) ==
  /\ Step(r, "look", "rename")
  /\ UNCHANGED <<settingsVars, folderVars, raced, countVars>>

\* The name is probed again: taken, the next free one is looked for.
LookAgain(r) ==
  /\ req[r].pc = "look"
  /\ req' = IF Free(req[r].at) THEN [req EXCEPT ![r].pc = "rename"]
              ELSE [req EXCEPT ![r].pc = "reprobe", ![r].at = 1]
  /\ UNCHANGED <<settingsVars, folderVars, raced, countVars>>

\* os.Rename replaces what is at the name; without a source it fails.
Rename(r) ==
  LET n == req[r].stage IN
  /\ req[r].pc = "rename"
  /\ IF staging[n] = 0
       THEN Step(r, "rename", "sweepBad") /\ UNCHANGED <<folder, staging>>
       ELSE /\ Step(r, "rename", "sweepOK")
            /\ folder' = [folder EXCEPT ![req[r].at] = staging[n]]
            /\ staging' = [staging EXCEPT ![n] = 0]
  /\ UNCHANGED <<settingsVars, data, raced, countVars>>

\* The deferred RemoveAll, of whatever is at the staging name now.
Sweep(r) ==
  /\ \/ Step(r, "sweepOK", "answered")
     \/ Refuse(r, "sweepBad")
  /\ staging' = [staging EXCEPT ![req[r].stage] = 0]
  /\ UNCHANGED <<settingsVars, folder, data, raced, countVars>>

-----------------------------------------------------------------------------
(* The user, and the end of the process. *)

UserMakes(n) ==
  /\ Free(n)
  /\ folder' = [folder EXCEPT ![n] = NewFile]
  /\ Made("users")

UserTakesAway(n) ==
  ~Free(n) /\ folder' = [folder EXCEPT ![n] = 0] /\ UNCHANGED data

User ==
  /\ meddled < MaxMeddled /\ meddled' = meddled + 1
  /\ \E n \in NameIdx : UserMakes(n) \/ UserTakesAway(n)
  /\ UNCHANGED <<settingsVars, staging, req, raced, asked, crashes>>

\* The requests are gone, the files stay, and loadMenuOff reads the document.
Crash ==
  /\ crashes < MaxCrashes /\ crashes' = crashes + 1
  /\ req' = [r \in Requests |-> Idle]
  /\ menuOff' = storedOff
  /\ racedRows' = {}
  /\ UNCHANGED <<catalog, storedOff, folderVars, racedNames, asked, meddled>>

Init ==
  /\ catalog = Seeds /\ storedOff = {} /\ menuOff = {}
  /\ folder = [n \in NameIdx |-> IF n = 1 THEN 1 ELSE 0]
  /\ staging = [n \in NameIdx |-> 0]
  /\ data = <<"users">>
  /\ req = [r \in Requests |-> Idle]
  /\ racedNames = {} /\ racedRows = {} /\ asked = 0 /\ meddled = 0 /\ crashes = 0

Handler(r) ==
  \/ ReadCatalog(r) \/ WriteCatalog(r) \/ StoreToggle(r) \/ RunToggle(r)
  \/ ResolveType(r) \/ Probe(r) \/ Make(r) \/ Fill(r)
  \/ Lstat(r) \/ ClearStaging(r) \/ OpenCopy(r) \/ Copy(r) \/ LookAgain(r)
  \/ Rename(r) \/ Sweep(r)

Next ==
  \/ \E r \in Requests : Take(r) \/ CopyRelative(r) \/ Handler(r)
  \/ User \/ Crash

Spec == Init /\ [][Next]_vars

-----------------------------------------------------------------------------
(* Properties. *)

\* No step of the daemon takes a file from its name, but a rename that finds
\* a file which was not there yet when its copy was complete: createFile does
\* not truncate, and duplicateBeside probes again after a long copy.
OnlyTheWindowReplaces ==
  [][\A n \in NameIdx :
       folder[n] # 0 /\ folder'[n] # folder[n] =>
         \/ meddled' # meddled
         \/ \E r \in Requests : /\ req[r].pc = "rename" /\ req'[r].pc = "sweepOK"
                                /\ req[r].at = n /\ folder[n] \notin req[r].seen]_vars

\* A staging name belongs to one duplicate: no leftover of a killed run makes
\* it fail, its file is still there when it is renamed, and a name in the
\* folder never shows a copy that is not complete.  Two duplicates that chose
\* one name share it.
StagingIsPrivate ==
  /\ \A r \in Requests :
       /\ req[r].pc = "open" => staging[req[r].stage] = 0 \/ req[r].stage \in racedNames
       /\ req[r].pc \in {"copy", "look", "reprobe", "rename"} =>
            staging[req[r].stage] = req[r].file \/ req[r].stage \in racedNames
  /\ \A f \in InFolder : data[f] = "copying" => racedNames # {}

\* A catalog with the seeds' rows, each as often as there.
Kept(c) ==
  \A id \in ToSet(IDs(Seeds)) \cup ToSet(IDs(c)) : Times(id, c) = Times(id, Seeds)

\* Edits and reorders may undo each other, and none of them ever loses,
\* doubles or mints a row of the catalog.
CatalogKeepsItsRows == Kept(catalog)

\* A menu row is on in the daemon as it would be after a restart, failed
\* writes included; two toggles of one row may end in different orders.
RestartChangesNoRow ==
  \A id \in Menu :
    \/ id \in menuOff <=> id \in storedOff
    \/ id \in racedRows
    \/ \E r \in Requests : req[r].pc = "runToggle" /\ req[r].arg.id = id

\* The relative path, pasted in the base folder, leads to the target.
RelativeResolves ==
  \A r \in Requests :
    req[r].op = "relative" =>
      Walk(Clean(req[r].arg[1].segments), req[r].seen) = Clean(req[r].arg[2].segments)

-----------------------------------------------------------------------------
(* What comments of the code say, and the code does not do. *)

\* findermenu.go:290-294: a name somebody took meanwhile is not overwritten.
NothingIsOverwritten ==
  [][\A n \in NameIdx :
       folder[n] # 0 /\ folder'[n] # folder[n] => meddled' # meddled]_vars

\* findermenu.go:267-269: no truncated copy that looks finished.
CopiesAreWhole == \A f \in InFolder : data[f] # "copying"

\* finderdata.go:181-183: memory and the document agree.
TogglesAgree ==
  (\A r \in Requests : req[r].pc \in Ended) => menuOff = storedOff

\* finderdata.go:276-277: the editable fields are the user's: an answered
\* edit stands until that row is edited again.
EditsStand ==
  \A r \in Requests :
    req[r].op = "setFileType" /\ req[r].pc = "answered" =>
      \/ req[r].arg \in ToSet(catalog)
      \/ \E q \in Requests \ {r} : req[q].op = "setFileType" /\ FileTypeID(req[q].arg) = FileTypeID(req[r].arg)

\* findermenu.go:465-471: what the submenu offers, the click accepts.
OfferedIsAccepted ==
  LET offered == MenuEntries(Menu, catalog).fileTypes
  IN  \A i \in DOMAIN offered : FileTypeAccepts(catalog, offered[i].ext)

\* findermenu.go:75: the switch and the right-click menu cannot disagree.
MenuFollowsSwitch == MenuEntries(Menu, catalog).items \cap menuOff = {}
=============================================================================

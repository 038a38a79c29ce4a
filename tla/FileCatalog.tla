---------------------------- MODULE FileCatalog ----------------------------
(***************************************************************************)
(* The pure half of the Finder menu: the file-type catalog                 *)
(* (core/pkg/filetype), the menu table (core/pkg/findermenu) and the path  *)
(* rules of core/cmd/crossos/findermenu.go.  A file name and a path are    *)
(* sequences of segments: a name is cut at its dots, a path at its         *)
(* slashes, and a segment may be empty.                                    *)
(***************************************************************************)
EXTENDS Naturals, Sequences, SequencesExt, FiniteSets

\* A row of the catalog, and the filename that names it on the wire.
Row(base, ext, label, on) ==
  [base |-> base, ext |-> ext, label |-> label, on |-> on]
FileTypeID(row) == row.base \o row.ext
IDs(catalog) == [i \in DOMAIN catalog |-> FileTypeID(catalog[i])]
Times(id, catalog) ==
  Cardinality({i \in DOMAIN catalog : IDs(catalog)[i] = id})

\* A catalog is a list of such rows.
IsCatalog(catalog) ==
  /\ catalog \in Seq(ToSet(catalog))
  /\ \A i \in DOMAIN catalog :
       DOMAIN catalog[i] = DOMAIN Row(<<>>, <<>>, "", TRUE)

\* Every extension has text before its first dot, and no separator.
Validate(catalog) ==
  \A i \in DOMAIN catalog :
    catalog[i].ext # <<>> /\ Head(catalog[i].ext) \notin {"", "/"}

\* core.setFileType keeps the place and the identity of the first row that
\* has them; a row the catalog does not have is refused.
Names(catalog, edit) ==
  {i \in DOMAIN catalog :
     catalog[i].ext = edit.ext /\ catalog[i].base = edit.base}
SetFileType(catalog, edit) ==
  LET first == CHOOSE i \in Names(catalog, edit) :
                 \A j \in Names(catalog, edit) : i <= j
  IN  [catalog EXCEPT ![first] = [@ EXCEPT !.label = edit.label, !.on = edit.on]]

\* Mutant: ids are not consumed, so one may be named twice.
ReordersLoosely(catalog, ids) ==
  Len(ids) = Len(catalog) /\ ToSet(ids) \subseteq ToSet(IDs(catalog))

\* core.reorderFileTypes takes a complete order only: as many ids as rows,
\* each one the id of a row, none twice.
Reorders(catalog, ids) ==
  /\ Len(ids) = Len(catalog)
  /\ ToSet(ids) \subseteq ToSet(IDs(catalog))
  /\ IsInjective(ids)

ReorderFileTypes(catalog, ids) ==
  [i \in DOMAIN ids |->
     catalog[CHOOSE j \in DOMAIN catalog : FileTypeID(catalog[j]) = ids[i]]]

\* finder.menuEntries: the whole table, and the enabled rows of the catalog.
MenuEntries(menu, catalog) ==
  [items |-> menu, fileTypes |-> SelectSeq(catalog, LAMBDA row : row.on)]

\* The click is resolved to the first row with the extension, on or off.
WithExt(catalog, ext) == {i \in DOMAIN catalog : catalog[i].ext = ext}
FileTypeAccepts(catalog, ext) ==
  \E i \in WithExt(catalog, ext) :
    catalog[i].on /\ \A j \in WithExt(catalog, ext) : i <= j

-----------------------------------------------------------------------------
(* Paths. *)

\* path.Clean of a rooted path without "..": no empty segment, no ".".
Clean(segments) == SelectSeq(segments, LAMBDA s : s \notin {"", "."})

\* absoluteSlash: rooted, below the root, and nowhere "..".
AbsoluteSlash(path) ==
  path.rooted /\ ".." \notin ToSet(path.segments) /\ Clean(path.segments) # <<>>

\* slashParts trims the slashes at both ends and cuts at the others.
Full(segments) == {i \in DOMAIN segments : segments[i] # ""}
SlashParts(path) ==
  LET full == Full(path.segments)
  IN  IF full = {} THEN <<>>
      ELSE SubSeq(path.segments, CHOOSE i \in full : \A j \in full : i <= j,
                                 CHOOSE i \in full : \A j \in full : j <= i)

\* The number of leading parts in common.
Shared(base, target) ==
  CHOOSE n \in 0 .. Len(base) :
    /\ n <= Len(target)
    /\ SubSeq(base, 1, n) = SubSeq(target, 1, n)
    /\ n < Len(base) /\ n < Len(target) => base[n + 1] # target[n + 1]

\* One step up for each part of the base that is not shared, then down.
RelativeSlash(basePath, targetPath) ==
  LET base   == SlashParts(basePath)
      target == SlashParts(targetPath)
      shared == Shared(base, target)
      parts  == [i \in 1 .. Len(base) - shared |-> ".."]
                  \o SubSeq(target, shared + 1, Len(target))
  IN  IF parts = <<>> THEN <<".">> ELSE parts

\* finderSelection refuses a selection that is empty, too large or not rooted.
FinderSelection(paths, maxPathCount) ==
  /\ Len(paths) \in 1 .. maxPathCount
  /\ \A i \in DOMAIN paths : AbsoluteSlash(paths[i])

\* External: where a shell that is in "from" goes with a relative path.
Walk(from, relative) ==
  FoldLeft(LAMBDA at, s :
             CASE s = ".." -> IF at = <<>> THEN at ELSE Front(at)
               [] s \in {"", "."} -> at
               [] OTHER -> Append(at, s),
           from, relative)
=============================================================================

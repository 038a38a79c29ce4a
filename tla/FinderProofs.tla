---------------------------- MODULE FinderProofs ----------------------------
(***************************************************************************)
(* What the Explorer page and the Finder menu keep, for any requests, any  *)
(* folder and any number of meddlings and crashes.                         *)
(***************************************************************************)
EXTENDS Finder, FiniteSetTheorems, TLAPS

-----------------------------------------------------------------------------
(* The catalog operators. *)

\* A sequence is a sequence of what occurs in it.
LEMMA OwnRange ==
  ASSUME NEW S, NEW s \in Seq(S)
  PROVE  s \in Seq(ToSet(s))
<1>1. Len(s) \in Nat /\ s \in [1 .. Len(s) -> S]
  OBVIOUS
<1>2. s \in [1 .. Len(s) -> ToSet(s)]
  BY <1>1 DEF ToSet
<1> QED BY <1>1, <1>2

\* A page's edit of a row leaves the number, the order and the names of rows.
LEMMA EditKeepsIDs ==
  ASSUME NEW c, IsCatalog(c), NEW e
  PROVE  IsCatalog(SetFileType(c, e)) /\ IDs(SetFileType(c, e)) = IDs(c)
<1> DEFINE d == SetFileType(c, e)
<1>1. DOMAIN d = DOMAIN c
  BY DEF SetFileType
<1>2. \A i \in DOMAIN c : /\ DOMAIN d[i] = DOMAIN c[i]
                          /\ d[i].base = c[i].base /\ d[i].ext = c[i].ext
  BY DEF SetFileType, IsCatalog, Row
<1>3. IDs(d) = IDs(c)
  BY <1>1, <1>2 DEF IDs, FileTypeID
<1>4. d \in Seq(ToSet(d))
  <2> DEFINE first == CHOOSE i \in Names(c, e) : \A j \in Names(c, e) : i <= j
             row   == [c[first] EXCEPT !.label = e.label, !.on = e.on]
  <2>1. c \in Seq(ToSet(c))
    BY DEF IsCatalog
  <2>2. d = [c EXCEPT ![first] = row]
    BY DEF SetFileType
  <2> HIDE DEF d, first, row
  <2>3. d \in Seq(ToSet(c) \cup {row})
    <3>1. Len(c) \in Nat /\ c \in [1 .. Len(c) -> ToSet(c)]
      BY <2>1
    <3>2. d \in [1 .. Len(c) -> ToSet(c) \cup {row}]
      BY <3>1, <2>2
    <3> QED BY <3>1, <3>2
  <2> QED BY <2>3, OwnRange
<1> QED BY <1>1, <1>2, <1>3, <1>4 DEF IsCatalog

\* A complete order that names no row twice: then no two rows of the catalog
\* have one name, each name has one place before and one after.
LEMMA OrderKeepsIDs ==
  ASSUME NEW c, IsCatalog(c), NEW ids, ids \in Seq(ToSet(ids)), Reorders(c, ids)
  PROVE  /\ IsCatalog(ReorderFileTypes(c, ids))
         /\ ToSet(IDs(ReorderFileTypes(c, ids))) = ToSet(IDs(c))
         /\ \A id : Times(id, ReorderFileTypes(c, ids)) = Times(id, c)
<1> DEFINE n == Len(c)
           d == ReorderFileTypes(c, ids)
           R == ToSet(IDs(c))
<1>0. /\ c \in Seq(ToSet(c)) /\ Len(ids) = Len(c)
      /\ DOMAIN d = DOMAIN ids
  BY DEF IsCatalog, Reorders, ReorderFileTypes
<1>1. n \in Nat /\ DOMAIN c = 1 .. n /\ DOMAIN ids = 1 .. n /\ DOMAIN d = 1 .. n
  BY <1>0
<1>2. /\ DOMAIN IDs(c) = 1 .. n
      /\ \A i \in 1 .. n : IDs(c)[i] = FileTypeID(c[i])
  BY <1>1 DEF IDs
<1>3. IsFiniteSet(1 .. n) /\ Cardinality(1 .. n) = n
  BY <1>1, FS_Interval
<1>4. IDs(c) \in Surjection(1 .. n, R)
  BY <1>1, <1>2 DEF Surjection, ToSet, IDs
<1>5. ids \in Injection(1 .. n, R)
  <2>1. ids \in [1 .. n -> ToSet(ids)]
    BY <1>1
  <2>2. ids \in [1 .. n -> R]
    BY <2>1, <1>1 DEF Reorders, ToSet
  <2>3. \A a, b \in 1 .. n : ids[a] = ids[b] => a = b
    BY <1>1 DEF Reorders, IsInjective
  <2> QED BY <2>2, <2>3 DEF Injection, IsInjective
<1>6. /\ IsFiniteSet(R) /\ Cardinality(R) <= n
      /\ Cardinality(R) = n <=> IDs(c) \in Injection(1 .. n, R)
  BY <1>3, <1>4, FS_Surjection
<1>7. /\ n <= Cardinality(R)
      /\ n = Cardinality(R) <=> ids \in Surjection(1 .. n, R)
  BY <1>3, <1>5, <1>6, FS_Injection
<1>8. /\ IDs(c) \in Injection(1 .. n, R) /\ ids \in Surjection(1 .. n, R)
  <2>1. Cardinality(R) \in Nat
    BY <1>6, FS_CardinalityType
  <2> QED BY <2>1, <1>1, <1>6, <1>7
<1>9. \A i \in 1 .. n : /\ d[i] \in {c[j] : j \in 1 .. n}
                        /\ FileTypeID(d[i]) = ids[i]
  <2> TAKE i \in 1 .. n
  <2>1. d[i] = c[CHOOSE j \in 1 .. n : FileTypeID(c[j]) = ids[i]]
    BY <1>1 DEF ReorderFileTypes
  <2>2. \E j \in 1 .. n : FileTypeID(c[j]) = ids[i]
    BY <1>1, <1>2, <1>5 DEF Injection, ToSet
  <2> QED BY <2>1, <2>2
<1>10. IDs(d) = ids
  BY <1>1, <1>9 DEF IDs
<1>11. ToSet(IDs(d)) = R
  BY <1>1, <1>8, <1>10 DEF Surjection, ToSet
<1>12. IsCatalog(d)
  <2>1. d = [i \in 1 .. n |-> d[i]]
    BY <1>1 DEF ReorderFileTypes
  <2>2. \A i \in 1 .. n : d[i] \in ToSet(d)
    BY <1>1 DEF ToSet
  <2> HIDE DEF d, n
  <2>3. d \in Seq(ToSet(d))
    BY <1>1, <2>1, <2>2
  <2> QED BY <1>1, <2>3, <1>9 DEF IsCatalog
<1>13. ASSUME NEW f \in {IDs(c), ids}, NEW id, id \in R
       PROVE  Cardinality({i \in 1 .. n : f[i] = id}) = 1
  <2>1. f \in Surjection(1 .. n, R) /\ f \in Injection(1 .. n, R)
    BY <1>4, <1>5, <1>8
  <2>2. PICK j \in 1 .. n : f[j] = id
    BY <2>1, <1>13 DEF Surjection
  <2>3. {i \in 1 .. n : f[i] = id} = {j}
    <3>1. \A i \in 1 .. n : f[i] = id => i = j
      BY <2>1, <2>2 DEF Injection, IsInjective
    <3> QED BY <2>2, <3>1
  <2> QED BY <2>3, FS_Singleton
<1>14. ASSUME NEW f \in {IDs(c), ids}, NEW id, id \notin R
       PROVE  Cardinality({i \in 1 .. n : f[i] = id}) = 0
  <2>1. {i \in 1 .. n : f[i] = id} = {}
    BY <1>4, <1>8, <1>14 DEF Surjection
  <2> QED BY <2>1, FS_EmptySet
<1>15. \A id : Times(id, d) = Times(id, c)
  <2> TAKE id
  <2>1. CASE id \in R
    BY <2>1, <1>1, <1>10, <1>13 DEF Times
  <2>2. CASE id \notin R
    BY <2>2, <1>1, <1>10, <1>14 DEF Times
  <2> QED BY <2>1, <2>2
<1> QED BY <1>11, <1>12, <1>15

-----------------------------------------------------------------------------
(* The inductive invariant. *)

\* Two duplicates that have a staging name at once raced for it, and so did
\* two toggles that have the document behind them and the map before them.
Races ==
  \A q, r \in Requests : q # r =>
    /\ req[q].pc \in Stages /\ req[r].pc \in Stages /\ req[q].stage = req[r].stage
       => req[r].stage \in racedNames
    /\ req[q].pc = "runToggle" /\ req[r].pc = "runToggle" /\ req[q].arg.id = req[r].arg.id
       => req[r].arg.id \in racedRows

\* The map is behind the document in no other rows than those on their way.
Switches ==
  \A r \in Requests :
    req[r].pc = "runToggle" /\ req[r].arg.id \notin racedRows =>
      (req[r].arg.id \in storedOff <=> req[r].arg.off)

\* A file has one name.
OneLink ==
  \A m, n \in NameIdx :
    staging[m] # 0 => /\ staging[m] # folder[n]
                      /\ m # n => staging[m] # staging[n]

\* A request that has copied has a whole file, and has seen older files than
\* those that are staged now or that are at the name it takes.
Copied == {"reprobe", "look", "rename"}
Copies ==
  \A r \in Requests : req[r].pc \in Copied =>
    /\ data[req[r].file] = "whole"
    /\ req[r].seen \subseteq DOMAIN data
    /\ \A n \in NameIdx : staging[n] # 0 => staging[n] \notin req[r].seen
    /\ req[r].pc = "rename" /\ folder[req[r].at] # 0 =>
         folder[req[r].at] \notin req[r].seen

\* What is about to be written has the rows there were.
Lists ==
  /\ Kept(catalog)
  /\ \A r \in Requests : req[r].pc = "writeCatalog" => Kept(req[r].seen)

\* The inductive invariant: no request sees or stages rows of another.
IInv ==
  /\ TypeOK /\ Races /\ Switches /\ OneLink /\ Copies /\ Lists
  /\ StagingIsPrivate /\ RestartChangesNoRow

-----------------------------------------------------------------------------
(* Types. *)

\* A step of r moves no other request.
Others(r) ==
  /\ DOMAIN req' = Requests
  /\ \A q \in Requests \ {r} : req'[q] = req[q]

\* TypeOK without its part on requests.
Held ==
  /\ IsCatalog(catalog)
  /\ storedOff \subseteq Menu /\ menuOff \subseteq Menu
  /\ data \in Seq(Contents)
  /\ folder \in [NameIdx -> 0 .. Len(data)]
  /\ staging \in [NameIdx -> 0 .. Len(data)]
  /\ racedNames \subseteq NameIdx /\ racedRows \subseteq Menu
  /\ asked \in Nat /\ meddled \in Nat /\ crashes \in Nat

\* A file that is made is a new one, the others keep what they hold.
LEMMA FileMade ==
  ASSUME data \in Seq(Contents), NEW what \in Contents, Made(what)
  PROVE  /\ data' \in Seq(Contents) /\ Len(data') = Len(data) + 1
         /\ DOMAIN data' = DOMAIN data \cup {NewFile} /\ NewFile \notin DOMAIN data
         /\ \A f \in DOMAIN data : data'[f] = data[f]
         /\ data'[NewFile] = what
  BY DEF Made, NewFile

\* A file that is written is the only one that changes.
LEMMA FileWritten ==
  ASSUME data \in Seq(Contents), NEW f \in DOMAIN data, NEW what \in Contents,
         data' = [data EXCEPT ![f] = what]
  PROVE  /\ data' \in Seq(Contents) /\ Len(data') = Len(data)
         /\ DOMAIN data' = DOMAIN data
         /\ \A g \in DOMAIN data : g # f => data'[g] = data[g]
         /\ data'[f] = what
  BY DEF Contents

\* A handler's step keeps the types, moves one request and unmakes no file.
LEMMA TypeKeeps ==
  ASSUME TypeOK, NEW r \in Requests, Handler(r)
  PROVE  TypeOK' /\ Others(r) /\ DOMAIN data \subseteq DOMAIN data'
<1> USE FinderAssumption DEF settingsVars, folderVars, raced, countVars
<1>0. /\ DOMAIN req = Requests /\ "pc" \in DOMAIN req[r] /\ "at" \in DOMAIN req[r]
      /\ "file" \in DOMAIN req[r] /\ "stage" \in DOMAIN req[r] /\ "seen" \in DOMAIN req[r]
      /\ \A q \in Requests : RequestOK(req[q])
  BY DEF TypeOK, RequestOK, Idle
<1> SUFFICES Others(r) /\ DOMAIN data \subseteq DOMAIN data' /\ RequestOK(req[r])' /\ Held'
  <2> SUFFICES ASSUME Others(r), DOMAIN data \subseteq DOMAIN data',
                      RequestOK(req[r])', Held'
               PROVE  TypeOK'
    OBVIOUS
  <2>1. ASSUME NEW q \in Requests PROVE RequestOK(req[q])'
    <3>1. CASE q = r
      BY <3>1
    <3>2. CASE q # r
      BY <1>0, <3>2 DEF Others, RequestOK
    <3> QED BY <3>1, <3>2
  <2> QED BY <2>1 DEF TypeOK, Held, Others
<1>1. CASE ReadCatalog(r)
  <2>1. Others(r)
    BY <1>0, <1>1 DEF ReadCatalog, Step, Refuse, Others
  <2>4. DOMAIN data \subseteq DOMAIN data'
    BY <1>1 DEF ReadCatalog, Step, Refuse, TypeOK
  <2>2. Held'
    BY <1>0, <1>1
    DEF ReadCatalog, Step, Refuse, Held, TypeOK, RequestOK, Naming, Stages, Filing
  <2>3. RequestOK(req[r])'
    <3> DEFINE arg == req[r].arg
    <3>1. CASE req'[r] = [req[r] EXCEPT !.pc = "refused"]
      BY <1>0, <3>1 DEF RequestOK, Pcs, Ended, Naming, Stages, Filing
    <3>2. ASSUME NEW new, IsCatalog(new),
                 req'[r] = [req[r] EXCEPT !.pc = "writeCatalog", !.seen = new]
          PROVE  RequestOK(req[r])'
      BY <1>0, <3>2 DEF RequestOK, Pcs, Ended, Naming, Stages, Filing
    <3>3. IsCatalog(SetFileType(catalog, arg))
      BY EditKeepsIDs DEF TypeOK
    <3>4. req[r].pc = "reorder" /\ Reorders(catalog, arg) =>
            IsCatalog(ReorderFileTypes(catalog, arg))
      <4> SUFFICES ASSUME req[r].pc = "reorder", Reorders(catalog, arg)
                   PROVE  IsCatalog(ReorderFileTypes(catalog, arg))
        OBVIOUS
      <4>1. arg \in Seq(ToSet(arg)) /\ IsCatalog(catalog)
        BY DEF TypeOK, RequestOK
      <4> QED BY <4>1, OrderKeepsIDs
    <3>5. CASE req[r].pc = "setFileType"
      BY <1>0, <1>1, <3>1, <3>2, <3>3, <3>5 DEF ReadCatalog, Refuse, Step
    <3>6. CASE req[r].pc = "reorder"
      BY <1>0, <1>1, <3>1, <3>2, <3>4, <3>6 DEF ReadCatalog, Refuse, Step
    <3> QED BY <1>1, <3>5, <3>6 DEF ReadCatalog
  <2> QED BY <2>1, <2>2, <2>3, <2>4
<1>2. CASE WriteCatalog(r)
  <2>1. Others(r)
    BY <1>0, <1>2 DEF WriteCatalog, Step, Refuse, Others
  <2>4. DOMAIN data \subseteq DOMAIN data'
    BY <1>2 DEF WriteCatalog, Step, Refuse, TypeOK
  <2>2. Held'
    BY <1>0, <1>2
    DEF WriteCatalog, Step, Refuse, Held, TypeOK, RequestOK, Naming, Stages, Filing
  <2>3. RequestOK(req[r])'
    BY <1>0, <1>2
    DEF WriteCatalog, Step, Refuse, RequestOK, TypeOK, Pcs, Ended, Stages, Naming,
        Filing
  <2> QED BY <2>1, <2>2, <2>3, <2>4
<1>3. CASE StoreToggle(r)
  <2>1. Others(r)
    BY <1>0, <1>3 DEF StoreToggle, Step, Refuse, Others
  <2>4. DOMAIN data \subseteq DOMAIN data'
    BY <1>3 DEF StoreToggle, Step, Refuse, TypeOK
  <2>2. Held'
    BY <1>0, <1>3
    DEF StoreToggle, Step, Refuse, Held, TypeOK, RequestOK, Naming, Stages, Filing
  <2>3. RequestOK(req[r])'
    <3>1. CASE req[r].arg.id \in Menu /\ req'[r] = [req[r] EXCEPT !.pc = "runToggle"]
      BY <1>0, <1>3, <2>2, <2>4, <3>1
      DEF RequestOK, Pcs, Ended, Naming, Stages, Filing, TypeOK, Held, StoreToggle,
          Step, Refuse
    <3>2. CASE req'[r] = [req[r] EXCEPT !.pc = "refused"]
      BY <1>0, <1>3, <2>2, <2>4, <3>2
      DEF RequestOK, Pcs, Ended, Naming, Stages, Filing, TypeOK, Held, StoreToggle,
          Step, Refuse
    <3> QED BY <1>0, <1>3, <3>1, <3>2 DEF StoreToggle, Step, Refuse
  <2> QED BY <2>1, <2>2, <2>3, <2>4
<1>4. CASE RunToggle(r)
  <2>1. Others(r)
    BY <1>0, <1>4 DEF RunToggle, Step, Refuse, Others
  <2>4. DOMAIN data \subseteq DOMAIN data'
    BY <1>4 DEF RunToggle, Step, Refuse, TypeOK
  <2>2. Held'
    BY <1>0, <1>4
    DEF RunToggle, Step, Refuse, Held, TypeOK, RequestOK, Naming, Stages, Filing
  <2>3. RequestOK(req[r])'
    BY <1>0, <1>4
    DEF RunToggle, Step, Refuse, RequestOK, TypeOK, Pcs, Ended, Stages, Naming,
        Filing
  <2> QED BY <2>1, <2>2, <2>3, <2>4
<1>5. CASE ResolveType(r)
  <2>1. Others(r)
    BY <1>0, <1>5 DEF ResolveType, Refuse, Step, Others
  <2>4. DOMAIN data \subseteq DOMAIN data'
    BY <1>5 DEF ResolveType, Refuse, Step, TypeOK
  <2>2. Held'
    BY <1>0, <1>5
    DEF ResolveType, Refuse, Step, Held, TypeOK, RequestOK, Naming, Stages, Filing
  <2>3. RequestOK(req[r])'
    <3>1. CASE req'[r] = [req[r] EXCEPT !.pc = "refused"]
      BY <1>0, <1>5, <2>2, <2>4, <3>1
      DEF RequestOK, Pcs, Ended, Naming, Stages, Filing, TypeOK, Held, NameIdx
    <3>2. CASE req'[r] = [req[r] EXCEPT !.pc = "probe", !.at = 1]
      BY <1>0, <1>5, <2>2, <2>4, <3>2
      DEF RequestOK, Pcs, Ended, Naming, Stages, Filing, TypeOK, Held, NameIdx
    <3> QED BY <1>0, <1>5, <3>1, <3>2 DEF ResolveType, Refuse, Step
  <2> QED BY <2>1, <2>2, <2>3, <2>4
<1>6. CASE Probe(r)
  <2>1. Others(r)
    BY <1>0, <1>6 DEF Probe, Free, Others
  <2>4. DOMAIN data \subseteq DOMAIN data'
    BY <1>6 DEF Probe, Free, TypeOK
  <2>2. Held'
    BY <1>0, <1>6 DEF Probe, Free, Held, TypeOK, RequestOK, Naming, Stages, Filing
  <2>3. RequestOK(req[r])'
    <3>1. CASE req'[r] = [req[r] EXCEPT !.pc = "make"]
      BY <1>0, <1>6, <2>2, <2>4, <3>1
      DEF RequestOK, Pcs, Ended, Naming, Stages, Filing, TypeOK, Held, Probe,
          NameIdx
    <3>2. CASE req'[r] = [req[r] EXCEPT !.pc = "clear"]
      BY <1>0, <1>6, <2>2, <2>4, <3>2
      DEF RequestOK, Pcs, Ended, Naming, Stages, Filing, TypeOK, Held, Probe,
          NameIdx
    <3>3. CASE req[r].pc = "reprobe" /\ req'[r] = [req[r] EXCEPT !.pc = "look"]
      BY <1>0, <1>6, <2>2, <2>4, <3>3
      DEF RequestOK, Pcs, Ended, Naming, Stages, Filing, TypeOK, Held, Probe,
          NameIdx
    <3>4. CASE req[r].at < NameMax /\ req'[r] = [req[r] EXCEPT !.at = @ + 1]
      BY <1>0, <1>6, <2>2, <2>4, <3>4
      DEF RequestOK, Pcs, Ended, Naming, Stages, Filing, TypeOK, Held, Probe,
          NameIdx
    <3> QED BY <1>0, <1>6, <3>1, <3>2, <3>3, <3>4 DEF Probe, Free
  <2> QED BY <2>1, <2>2, <2>3, <2>4
<1>7. CASE Make(r)
  <2>1. Others(r)
    BY <1>0, <1>7 DEF Make, Step, Refuse, NewFile, Made, Free, Others
  <2>4. DOMAIN data \subseteq DOMAIN data' /\ Held'
    <3>0. req[r].at \in NameIdx /\ Held
      BY <1>0, <1>7 DEF Make, Step, Refuse, RequestOK, Naming, Stages, Held, TypeOK
    <3>1. CASE UNCHANGED <<data, folder>>
      BY <1>7, <3>0, <3>1 DEF Make, Held
    <3>2. CASE Made("part") /\ folder' = [folder EXCEPT ![req[r].at] = NewFile]
      <4>1. /\ data' \in Seq(Contents) /\ Len(data') = Len(data) + 1
            /\ DOMAIN data \subseteq DOMAIN data'
        BY <3>0, <3>2, FileMade DEF Held, Contents
      <4>2. Len(data) \in Nat /\ NewFile \in 0 .. Len(data')
        BY <3>0, <4>1 DEF Held, NewFile
      <4>3. folder' \in [NameIdx -> 0 .. Len(data')]
        BY <3>0, <3>2, <4>1, <4>2 DEF Held
      <4>4. staging' \in [NameIdx -> 0 .. Len(data')]
        BY <3>0, <1>7, <4>1, <4>2 DEF Held, Make
      <4> QED BY <3>0, <1>7, <4>1, <4>3, <4>4 DEF Held, Make
    <3> QED BY <1>7, <3>1, <3>2 DEF Make
  <2>3. RequestOK(req[r])'
    <3>1. CASE req'[r] = [req[r] EXCEPT !.pc = "refused"]
      BY <1>0, <1>7, <2>4, <3>1
      DEF RequestOK, Pcs, Ended, Naming, Stages, Filing, Make, Step, Refuse
    <3>2. CASE Made("part") /\ req'[r] = [req[r] EXCEPT !.pc = "fill", !.file = NewFile]
      <4>1. NewFile \in DOMAIN data'
        BY <3>2, FileMade DEF TypeOK, Contents
      <4> QED BY <1>0, <1>7, <2>4, <3>2, <4>1
              DEF RequestOK, Pcs, Ended, Naming, Stages, Filing, Make, Step, Refuse
    <3> QED BY <1>0, <1>7, <3>1, <3>2 DEF Make, Step, Refuse, NewFile, Made, Free
  <2> QED BY <2>1, <2>3, <2>4
<1>8. CASE Fill(r)
  <2>1. Others(r)
    BY <1>0, <1>8 DEF Fill, Step, Refuse, Others
  <2>4. DOMAIN data' = DOMAIN data /\ Held'
    <3>0. req[r].file \in DOMAIN data /\ Held
      BY <1>0, <1>8 DEF Fill, Step, Refuse, RequestOK, Filing, Held, TypeOK
    <3>1. CASE UNCHANGED data
      BY <1>8, <3>0, <3>1 DEF Fill, Held
    <3>2. CASE data' = [data EXCEPT ![req[r].file] = "whole"]
      <4>1. /\ data' \in Seq(Contents) /\ Len(data') = Len(data)
            /\ DOMAIN data = DOMAIN data'
        BY <3>0, <3>2, FileWritten DEF Held, Contents
      <4> QED BY <3>0, <1>8, <4>1 DEF Held, Fill
    <3> QED BY <1>8, <3>1, <3>2 DEF Fill
  <2>3. RequestOK(req[r])'
    BY <1>0, <1>8
    DEF Fill, Step, Refuse, RequestOK, TypeOK, Pcs, Ended, Stages, Naming, Filing
  <2> QED BY <2>1, <2>3, <2>4
<1>9. CASE Lstat(r)
  <2>1. Others(r)
    BY <1>0, <1>9 DEF Lstat, Step, Refuse, Free, Others
  <2>4. DOMAIN data \subseteq DOMAIN data'
    BY <1>9 DEF Lstat, Step, Refuse, Free, TypeOK
  <2>2. Held'
    BY <1>0, <1>9
    DEF Lstat, Step, Refuse, Free, Held, TypeOK, RequestOK, Naming, Stages, Filing
  <2>3. RequestOK(req[r])'
    <3>1. CASE req'[r] = [req[r] EXCEPT !.pc = "refused"]
      BY <1>0, <1>9, <2>2, <2>4, <3>1
      DEF RequestOK, Pcs, Ended, Naming, Stages, Filing, TypeOK, Held, NameIdx
    <3>2. CASE req'[r] = [req[r] EXCEPT !.pc = "probe", !.at = 1]
      BY <1>0, <1>9, <2>2, <2>4, <3>2
      DEF RequestOK, Pcs, Ended, Naming, Stages, Filing, TypeOK, Held, NameIdx
    <3> QED BY <1>0, <1>9, <3>1, <3>2 DEF Lstat, Step, Refuse, Free
  <2> QED BY <2>1, <2>2, <2>3, <2>4
<1>10. CASE ClearStaging(r)
  <2>1. Others(r)
    BY <1>0, <1>10 DEF ClearStaging, Step, Refuse, Others
  <2>4. DOMAIN data \subseteq DOMAIN data'
    BY <1>10 DEF ClearStaging, Step, Refuse, TypeOK
  <2>2. Held'
    BY <1>0, <1>10
    DEF ClearStaging, Step, Refuse, Held, TypeOK, RequestOK, Naming, Stages, Filing
  <2>3. RequestOK(req[r])'
    BY <1>0, <1>10
    DEF ClearStaging, Step, Refuse, RequestOK, TypeOK, Pcs, Ended, Stages, Naming,
        Filing
  <2> QED BY <2>1, <2>2, <2>3, <2>4
<1>11. CASE OpenCopy(r)
  <2>1. Others(r)
    BY <1>0, <1>11 DEF OpenCopy, Step, Refuse, NewFile, Made, Free, Others
  <2>4. DOMAIN data \subseteq DOMAIN data' /\ Held'
    <3>0. req[r].stage \in NameIdx /\ Held
      BY <1>0, <1>11
      DEF OpenCopy, Step, Refuse, RequestOK, Naming, Stages, Held, TypeOK
    <3>1. CASE UNCHANGED <<data, staging>>
      BY <1>11, <3>0, <3>1 DEF OpenCopy, Held
    <3>2. CASE Made("copying") /\ staging' = [staging EXCEPT ![req[r].stage] = NewFile]
      <4>1. /\ data' \in Seq(Contents) /\ Len(data') = Len(data) + 1
            /\ DOMAIN data \subseteq DOMAIN data'
        BY <3>0, <3>2, FileMade DEF Held, Contents
      <4>2. Len(data) \in Nat /\ NewFile \in 0 .. Len(data')
        BY <3>0, <4>1 DEF Held, NewFile
      <4>3. staging' \in [NameIdx -> 0 .. Len(data')]
        BY <3>0, <3>2, <4>1, <4>2 DEF Held
      <4>4. folder' \in [NameIdx -> 0 .. Len(data')]
        BY <3>0, <1>11, <4>1, <4>2 DEF Held, OpenCopy
      <4> QED BY <3>0, <1>11, <4>1, <4>3, <4>4 DEF Held, OpenCopy
    <3> QED BY <1>11, <3>1, <3>2 DEF OpenCopy
  <2>3. RequestOK(req[r])'
    <3>1. CASE req'[r] = [req[r] EXCEPT !.pc = "sweepBad"]
      BY <1>0, <1>11, <2>4, <3>1
      DEF RequestOK, Pcs, Ended, Naming, Stages, Filing, OpenCopy, Step, Refuse
    <3>2. CASE Made("copying") /\ req'[r] = [req[r] EXCEPT !.pc = "copy", !.file = NewFile]
      <4>1. NewFile \in DOMAIN data'
        BY <3>2, FileMade DEF TypeOK, Contents
      <4> QED BY <1>0, <1>11, <2>4, <3>2, <4>1
              DEF RequestOK, Pcs, Ended, Naming, Stages, Filing, OpenCopy, Step,
                  Refuse
    <3> QED BY <1>0, <1>11, <3>1, <3>2 DEF OpenCopy, Step, Refuse, NewFile, Made, Free
  <2> QED BY <2>1, <2>3, <2>4
<1>12. CASE Copy(r)
  <2>1. Others(r)
    BY <1>0, <1>12 DEF Copy, Step, Refuse, InFolder, Others
  <2>4. DOMAIN data' = DOMAIN data /\ Held'
    <3>0. req[r].file \in DOMAIN data /\ Held
      BY <1>0, <1>12 DEF Copy, Step, Refuse, RequestOK, Filing, Held, TypeOK
    <3>1. CASE UNCHANGED data
      BY <1>12, <3>0, <3>1 DEF Copy, Held
    <3>2. CASE data' = [data EXCEPT ![req[r].file] = "whole"]
      <4>1. /\ data' \in Seq(Contents) /\ Len(data') = Len(data)
            /\ DOMAIN data = DOMAIN data'
        BY <3>0, <3>2, FileWritten DEF Held, Contents
      <4> QED BY <3>0, <1>12, <4>1 DEF Held, Copy
    <3> QED BY <1>12, <3>1, <3>2 DEF Copy
  <2>3. RequestOK(req[r])'
    <3>1. CASE req'[r] = [req[r] EXCEPT !.pc = "look", !.seen = InFolder]
      BY <1>0, <1>12, <2>4, <3>1
      DEF RequestOK, Pcs, Ended, Naming, Stages, Filing, TypeOK, Held, Copy, Step
    <3>2. CASE req'[r] = [req[r] EXCEPT !.pc = "sweepBad"]
      BY <1>0, <1>12, <2>4, <3>2
      DEF RequestOK, Pcs, Ended, Naming, Stages, Filing, TypeOK, Held, Copy, Step
    <3> QED BY <1>0, <1>12, <3>1, <3>2 DEF Copy, Step, Refuse, InFolder
  <2> QED BY <2>1, <2>3, <2>4
<1>13. CASE LookAgain(r)
  <2>1. Others(r)
    BY <1>0, <1>13 DEF LookAgain, Free, Others
  <2>4. DOMAIN data \subseteq DOMAIN data'
    BY <1>13 DEF LookAgain, Free, TypeOK
  <2>2. Held'
    BY <1>0, <1>13
    DEF LookAgain, Free, Held, TypeOK, RequestOK, Naming, Stages, Filing
  <2>3. RequestOK(req[r])'
    BY <1>0, <1>13
    DEF LookAgain, Free, RequestOK, TypeOK, Pcs, Ended, Stages, Naming, Filing
  <2> QED BY <2>1, <2>2, <2>3, <2>4
<1>14. CASE Rename(r)
  <2>1. Others(r)
    BY <1>0, <1>14 DEF Rename, Step, Refuse, Others
  <2>4. DOMAIN data \subseteq DOMAIN data'
    BY <1>14 DEF Rename, Step, Refuse, TypeOK
  <2>2. Held'
    <3>0. req[r].at \in NameIdx /\ req[r].stage \in NameIdx /\ Held
      BY <1>0, <1>14 DEF Rename, Step, RequestOK, Naming, Stages, Held, TypeOK
    <3>1. CASE UNCHANGED <<folder, staging>>
      BY <1>14, <3>0, <3>1 DEF Rename, Held
    <3>2. CASE /\ folder' = [folder EXCEPT ![req[r].at] = staging[req[r].stage]]
               /\ staging' = [staging EXCEPT ![req[r].stage] = 0]
      <4>1. folder' \in [NameIdx -> 0 .. Len(data)]
        BY <3>0, <3>2 DEF Held
      <4>2. staging' \in [NameIdx -> 0 .. Len(data)]
        BY <3>0, <3>2 DEF Held
      <4> QED BY <3>0, <1>14, <4>1, <4>2 DEF Held, Rename
    <3> QED BY <1>14, <3>1, <3>2 DEF Rename
  <2>3. RequestOK(req[r])'
    <3>1. CASE req'[r] = [req[r] EXCEPT !.pc = "sweepBad"]
      BY <1>0, <1>14, <2>2, <2>4, <3>1
      DEF RequestOK, Pcs, Ended, Naming, Stages, Filing, TypeOK, Held, Rename, Step
    <3>2. CASE req'[r] = [req[r] EXCEPT !.pc = "sweepOK"]
      BY <1>0, <1>14, <2>2, <2>4, <3>2
      DEF RequestOK, Pcs, Ended, Naming, Stages, Filing, TypeOK, Held, Rename, Step
    <3> QED BY <1>0, <1>14, <3>1, <3>2 DEF Rename, Step, Refuse
  <2> QED BY <2>1, <2>2, <2>3, <2>4
<1>15. CASE Sweep(r)
  <2>1. Others(r)
    BY <1>0, <1>15 DEF Sweep, Step, Refuse, Others
  <2>4. DOMAIN data \subseteq DOMAIN data'
    BY <1>15 DEF Sweep, Step, Refuse, TypeOK
  <2>2. Held'
    BY <1>0, <1>15
    DEF Sweep, Step, Refuse, Held, TypeOK, RequestOK, Naming, Stages, Filing
  <2>3. RequestOK(req[r])'
    BY <1>0, <1>15
    DEF Sweep, Step, Refuse, RequestOK, TypeOK, Pcs, Ended, Stages, Naming, Filing
  <2> QED BY <2>1, <2>2, <2>3, <2>4
<1> QED BY <1>1, <1>2, <1>3, <1>4, <1>5, <1>6, <1>7, <1>8, <1>9, <1>10, <1>11,
           <1>12, <1>13, <1>14, <1>15
        DEF Handler

\* The folder's user, a new request and the end of the process keep them too.
LEMMA TypeStep == TypeOK /\ [Next]_vars => TypeOK'
<1> USE FinderAssumption DEF settingsVars, folderVars, raced, countVars
<1> SUFFICES ASSUME TypeOK, [Next]_vars PROVE TypeOK'
  OBVIOUS
<1>0. \A job : DOMAIN job = DOMAIN Idle /\ job.pc \in Ended => RequestOK(job)'
  BY DEF RequestOK, Pcs, Ended, Naming, Stages, Filing
<1>1. ASSUME NEW r \in Requests, Take(r) PROVE TypeOK'
  <2>1. PICK op, arg :
          /\ op \in {"setFileType", "reorder", "toggle", "createFile", "duplicate"}
          /\ Ask(r, op, arg)
          /\ op = "reorder" => arg \in Orders
          /\ op = "toggle" => arg \in [id : Menu \cup {"stranger"}, off : BOOLEAN]
    <3>1. CASE \E row \in ToSet(Edits) : Ask(r, "setFileType", row)
      BY <3>1
    <3>2. CASE \E ids \in Orders : Ask(r, "reorder", ids)
      BY <3>2
    <3>3. CASE \E id \in Menu \cup {"stranger"}, off \in BOOLEAN :
                 Ask(r, "toggle", [id |-> id, off |-> off])
      BY <3>3
    <3>4. CASE \E ext \in Exts : Ask(r, "createFile", ext)
      BY <3>4
    <3>5. CASE Ask(r, "duplicate", 1)
      BY <3>5
    <3> QED BY <1>1, <3>1, <3>2, <3>3, <3>4, <3>5 DEF Take
  <2>2. Others(r) /\ req'[r] = [Idle EXCEPT !.op = op, !.pc = op, !.arg = arg]
    BY <2>1 DEF Ask, Others, TypeOK
  <2>3. DOMAIN req'[r] = DOMAIN Idle /\ req'[r].pc = op /\ req'[r].arg = arg
    BY <2>2 DEF Idle
  <2>4. RequestOK(req[r])'
    BY <2>1, <2>3 DEF RequestOK, Pcs, Naming, Stages, Filing
  <2>5. \A q \in Requests : RequestOK(req[q])'
    BY <1>1, <2>2, <2>4 DEF Others, TypeOK, RequestOK, Take
  <2> QED BY <1>1, <2>2, <2>5 DEF Others, TypeOK, Take
<1>2. ASSUME NEW r \in Requests, CopyRelative(r) PROVE TypeOK'
  <2>1. PICK arg, seen : req' = [req EXCEPT ![r] = [Idle EXCEPT !.op = "relative",
                           !.pc = "answered", !.arg = arg, !.seen = seen]]
    BY <1>2 DEF CopyRelative
  <2>2. Others(r) /\ DOMAIN req'[r] = DOMAIN Idle /\ req'[r].pc = "answered"
    BY <2>1 DEF Others, TypeOK, Idle
  <2>3. RequestOK(req[r])'
    BY <1>0, <2>2 DEF Ended
  <2>4. \A q \in Requests : RequestOK(req[q])'
    BY <1>2, <2>2, <2>3 DEF Others, TypeOK, RequestOK, CopyRelative
  <2> QED BY <1>2, <2>2, <2>4 DEF Others, TypeOK, CopyRelative
<1>3. ASSUME NEW r \in Requests, Handler(r) PROVE TypeOK'
  BY <1>3, TypeKeeps
<1>4. CASE User
  <2>1. PICK n \in NameIdx : UserMakes(n) \/ UserTakesAway(n)
    BY <1>4 DEF User
  <2>2. CASE UserMakes(n)
    <3>1. /\ data' \in Seq(Contents) /\ Len(data') = Len(data) + 1
          /\ DOMAIN data \subseteq DOMAIN data'
      BY <2>2, FileMade DEF TypeOK, UserMakes, Contents
    <3>2. Len(data) \in Nat /\ NewFile \in 0 .. Len(data')
      BY <3>1 DEF TypeOK, NewFile
    <3>3. /\ folder' \in [NameIdx -> 0 .. Len(data')]
          /\ staging' \in [NameIdx -> 0 .. Len(data')]
      BY <1>4, <2>2, <3>1, <3>2 DEF TypeOK, UserMakes, User
    <3>4. \A q \in Requests : RequestOK(req[q])'
      BY <1>4, <3>1 DEF TypeOK, User, RequestOK
    <3> QED BY <1>4, <3>1, <3>3, <3>4 DEF TypeOK, User
  <2>3. CASE UserTakesAway(n)
    <3>1. folder' \in [NameIdx -> 0 .. Len(data')] /\ data' = data
      BY <2>3 DEF TypeOK, UserTakesAway
    <3> QED BY <1>4, <3>1 DEF TypeOK, User, RequestOK
  <2> QED BY <2>1, <2>2, <2>3
<1>5. CASE Crash
  <2>1. \A q \in Requests : DOMAIN req'[q] = DOMAIN Idle /\ req'[q].pc = "idle"
    BY <1>5 DEF Crash, Idle
  <2>2. \A q \in Requests : RequestOK(req[q])'
    BY <1>0, <2>1 DEF Ended
  <2> QED BY <1>5, <2>2 DEF Crash, TypeOK
<1>6. CASE UNCHANGED vars
  BY <1>6 DEF vars, TypeOK, RequestOK
<1> QED BY <1>1, <1>2, <1>3, <1>4, <1>5, <1>6 DEF Next

-----------------------------------------------------------------------------
(* Races: who comes to a staging name or to the map second says so. *)

\* A request that enters a stage or the map's turn notes those already there.
LEMMA Entering ==
  ASSUME TypeOK, NEW r \in Requests, Handler(r)
  PROVE  /\ racedNames \subseteq racedNames' /\ racedRows \subseteq racedRows'
         /\ req'[r].pc \in Stages =>
              \/ req[r].pc \in Stages /\ req'[r].stage = req[r].stage
              \/ \A q \in Requests \ {r} :
                   req[q].pc \in Stages /\ req[q].stage = req'[r].stage =>
                     req'[r].stage \in racedNames'
         /\ req'[r].pc = "runToggle" =>
              \A q \in Requests \ {r} :
                req[q].pc = "runToggle" /\ req[q].arg.id = req'[r].arg.id =>
                  req'[r].arg.id \in racedRows'
<1> USE DEF settingsVars, folderVars, raced, countVars, Stages
<1>0. /\ DOMAIN req = Requests /\ "pc" \in DOMAIN req[r]
      /\ "stage" \in DOMAIN req[r] /\ "at" \in DOMAIN req[r]
      /\ "arg" \in DOMAIN req[r] /\ "seen" \in DOMAIN req[r]
  BY DEF TypeOK, RequestOK, Idle
<1>1. CASE ReadCatalog(r)
  BY <1>0, <1>1 DEF ReadCatalog, Step, Refuse
<1>2. CASE WriteCatalog(r)
  BY <1>0, <1>2 DEF WriteCatalog, Step, Refuse
<1>3. CASE StoreToggle(r)
  BY <1>0, <1>3 DEF StoreToggle, Step, Refuse
<1>4. CASE RunToggle(r)
  BY <1>0, <1>4 DEF RunToggle, Step, Refuse
<1>5. CASE ResolveType(r)
  BY <1>0, <1>5 DEF ResolveType, Refuse, Step
<1>6. CASE Probe(r)
  BY <1>0, <1>6 DEF Probe, Free
<1>7. CASE Make(r)
  BY <1>0, <1>7 DEF Make, Step, Refuse, NewFile, Made, Free
<1>8. CASE Fill(r)
  BY <1>0, <1>8 DEF Fill, Step, Refuse
<1>9. CASE Lstat(r)
  BY <1>0, <1>9 DEF Lstat, Step, Refuse, Free
<1>10. CASE ClearStaging(r)
  BY <1>0, <1>10 DEF ClearStaging, Step, Refuse
<1>11. CASE OpenCopy(r)
  BY <1>0, <1>11 DEF OpenCopy, Step, Refuse, NewFile, Made, Free
<1>12. CASE Copy(r)
  BY <1>0, <1>12 DEF Copy, Step, Refuse, InFolder
<1>13. CASE LookAgain(r)
  BY <1>0, <1>13 DEF LookAgain, Free
<1>14. CASE Rename(r)
  BY <1>0, <1>14 DEF Rename, Step, Refuse
<1>15. CASE Sweep(r)
  BY <1>0, <1>15 DEF Sweep, Step, Refuse
<1> QED BY <1>1, <1>2, <1>3, <1>4, <1>5, <1>6, <1>7, <1>8, <1>9, <1>10, <1>11,
           <1>12, <1>13, <1>14, <1>15
        DEF Handler

\* A request that is not dispatched, and what the user does, race nobody.
Outside ==
  \/ \E r \in Requests : Take(r) \/ CopyRelative(r)
  \/ User \/ Crash \/ UNCHANGED vars

\* Such a step leaves each request where it is or takes it out of the way.
LEMMA OutsideMoves ==
  ASSUME TypeOK, Outside, NEW q \in Requests
  PROVE  \/ req'[q] = req[q]
         \/ req'[q].pc \in {"idle", "setFileType", "reorder", "toggle", "createFile",
                           "duplicate", "answered"}
<1>1. ASSUME NEW r \in Requests, Take(r)
      PROVE  \/ req'[q] = req[q]
             \/ req'[q].pc \in {"setFileType", "reorder", "toggle", "createFile", "duplicate"}
  BY <1>1 DEF Take, Ask, Idle, TypeOK
<1>2. ASSUME NEW r \in Requests, CopyRelative(r)
      PROVE  req'[q] = req[q] \/ req'[q].pc = "answered"
  BY <1>2 DEF CopyRelative, Idle, TypeOK
<1>3. CASE User
  BY <1>3 DEF User
<1>4. CASE Crash
  BY <1>4 DEF Crash, Idle
<1>5. CASE UNCHANGED vars
  BY <1>5 DEF vars
<1> QED BY <1>1, <1>2, <1>3, <1>4, <1>5 DEF Outside

\* A step is a handler's or none of theirs.
LEMMA NextIs == [Next]_vars => Outside \/ \E r \in Requests : Handler(r)
  BY DEF Next, Outside

\* Every step keeps Races.
LEMMA RacesKept == TypeOK /\ Races /\ [Next]_vars => Races'
<1> SUFFICES ASSUME TypeOK, Races, [Next]_vars PROVE Races'
  OBVIOUS
<1>1. CASE Outside
  <2>1. racedNames' = racedNames
    BY <1>1 DEF Outside, Take, CopyRelative, User, Crash, vars, raced
  <2>2. racedRows' = racedRows \/ \A q \in Requests : req'[q].pc = "idle"
    <3>1. CASE Crash
      BY <3>1 DEF Crash, Idle
    <3>2. CASE ~Crash
      BY <1>1, <3>2 DEF Outside, Take, CopyRelative, User, vars, raced
    <3> QED BY <3>1, <3>2
  <2> QED BY <1>1, <2>1, <2>2, OutsideMoves DEF Races, Stages
<1>2. ASSUME NEW r \in Requests, Handler(r) PROVE Races'
  <2>1. Others(r)
    BY <1>2, TypeKeeps
  <2>2. /\ racedNames \subseteq racedNames' /\ racedRows \subseteq racedRows'
        /\ req'[r].pc \in Stages =>
             \/ req[r].pc \in Stages /\ req'[r].stage = req[r].stage
             \/ \A q \in Requests \ {r} :
                  req[q].pc \in Stages /\ req[q].stage = req'[r].stage =>
                    req'[r].stage \in racedNames'
        /\ req'[r].pc = "runToggle" =>
             \A q \in Requests \ {r} :
               req[q].pc = "runToggle" /\ req[q].arg.id = req'[r].arg.id =>
                 req'[r].arg.id \in racedRows'
    BY <1>2, Entering
  <2> SUFFICES ASSUME NEW q \in Requests, NEW p \in Requests, q # p
               PROVE  (/\ /\ req[q].pc \in Stages /\ req[p].pc \in Stages
                          /\ req[q].stage = req[p].stage
                          => req[p].stage \in racedNames
                       /\ /\ req[q].pc = "runToggle" /\ req[p].pc = "runToggle"
                          /\ req[q].arg.id = req[p].arg.id
                          => req[p].arg.id \in racedRows)'
    BY DEF Races
  <2>3. CASE p = r
    BY <2>1, <2>2, <2>3 DEF Others, Races
  <2>4. CASE q = r
    BY <2>1, <2>2, <2>4 DEF Others, Races
  <2>5. CASE p # r /\ q # r
    BY <2>1, <2>2, <2>5 DEF Others, Races
  <2> QED BY <2>3, <2>4, <2>5
<1> QED BY <1>1, <1>2, NextIs

-----------------------------------------------------------------------------
(* The switches. *)

\* What the switches' proof needs.
Rows == Races /\ Switches /\ RestartChangesNoRow

\* A toggle changes one row of the document, then the same row of the map.
LEMMA RowsKept == TypeOK /\ Rows /\ [Next]_vars => (Switches /\ RestartChangesNoRow)'
<1> USE DEF settingsVars, folderVars, raced, countVars
<1> SUFFICES ASSUME TypeOK, Rows, [Next]_vars PROVE (Switches /\ RestartChangesNoRow)'
  OBVIOUS
<1>1. CASE Outside /\ ~Crash
  <2>1. UNCHANGED <<storedOff, menuOff, racedRows>>
    BY <1>1 DEF Outside, Take, CopyRelative, User, vars
  <2>2. \A q \in Requests : req[q].pc = "runToggle" => req'[q] = req[q]
    <3>1. ASSUME NEW r \in Requests, Take(r), NEW q \in Requests, req[q].pc = "runToggle"
          PROVE  req'[q] = req[q]
      BY <3>1 DEF Take, Ask, TypeOK, Ended
    <3>2. ASSUME NEW r \in Requests, CopyRelative(r), NEW q \in Requests,
                 req[q].pc = "runToggle"
          PROVE  req'[q] = req[q]
      BY <3>2 DEF CopyRelative, TypeOK, Ended
    <3> QED BY <1>1, <3>1, <3>2 DEF Outside, User, vars
  <2> QED BY <1>1, <2>1, <2>2, OutsideMoves DEF Rows, Switches, RestartChangesNoRow
<1>2. CASE Crash
  <2>1. \A q \in Requests : req'[q].pc = "idle"
    BY <1>2 DEF Crash, Idle
  <2>2. menuOff' = storedOff'
    BY <1>2 DEF Crash
  <2> QED BY <2>1, <2>2 DEF Switches, RestartChangesNoRow
<1>3. ASSUME NEW r \in Requests, Handler(r) PROVE (Switches /\ RestartChangesNoRow)'
  <2>1. Others(r) /\ "pc" \in DOMAIN req[r] /\ RequestOK(req[r]) /\ racedRows \subseteq racedRows'
    BY <1>3, TypeKeeps, Entering DEF TypeOK, RequestOK, Idle
  <2>2. CASE StoreToggle(r) /\ req'[r].pc # "refused"
    <3> DEFINE t == req[r].arg
    <3>1. /\ req'[r].pc = "runToggle" /\ req'[r].arg = t /\ req[r].pc = "toggle"
          /\ t.off \in BOOLEAN
          /\ menuOff' = menuOff
          /\ storedOff' = IF t.off THEN storedOff \cup {t.id} ELSE storedOff \ {t.id}
      <4>1. req' = [req EXCEPT ![r].pc = "runToggle"] \/ req' = [req EXCEPT ![r].pc = "refused"]
        BY <2>2 DEF StoreToggle, Step, Refuse
      <4>2. /\ req'[r] = [req[r] EXCEPT !.pc = "runToggle"]
            /\ DOMAIN req[r] = DOMAIN Idle
        BY <2>1, <2>2, <4>1 DEF TypeOK, RequestOK
      <4>3. req'[r].pc = "runToggle" /\ req'[r].arg = t
        BY <4>2 DEF Idle
      <4>4. ~Refuse(r, "toggle")
        BY <2>1, <2>2, <4>2 DEF Refuse, Step, TypeOK
      <4>5. req[r].pc = "toggle" /\ t.off \in BOOLEAN
        BY <2>1, <2>2 DEF StoreToggle, RequestOK
      <4> QED BY <2>2, <4>3, <4>4, <4>5 DEF StoreToggle
    <3>2. \A q \in Requests \ {r} :
            req[q].pc = "runToggle" /\ req[q].arg.id = t.id => t.id \in racedRows'
      BY <1>3, <3>1, Entering
    <3> HIDE DEF t
    <3>3. Switches'
      BY <2>1, <3>1, <3>2 DEF Rows, Switches, Others
    <3>4. RestartChangesNoRow'
      BY <2>1, <3>1 DEF Rows, RestartChangesNoRow, Others
    <3> QED BY <3>3, <3>4
  <2>3. CASE RunToggle(r)
    <3> DEFINE t == req[r].arg
    <3>1. /\ req'[r].pc = "answered" /\ req[r].pc = "runToggle"
          /\ t.off \in BOOLEAN
          /\ storedOff' = storedOff /\ racedRows' = racedRows
          /\ menuOff' = IF t.off THEN menuOff \cup {t.id} ELSE menuOff \ {t.id}
      BY <2>1, <2>3 DEF RunToggle, Step, RequestOK, Others, TypeOK
    <3>2. t.id \notin racedRows => (t.id \in storedOff <=> t.off)
      BY <3>1 DEF Rows, Switches
    <3> HIDE DEF t
    <3>3. Switches'
      BY <2>1, <3>1 DEF Rows, Switches, Others
    <3>4. RestartChangesNoRow'
      <4> SUFFICES ASSUME NEW id \in Menu, id \notin racedRows',
                          \A q \in Requests : ~(req'[q].pc = "runToggle" /\ req'[q].arg.id = id)
                   PROVE  id \in menuOff' <=> id \in storedOff'
        BY DEF RestartChangesNoRow
      <4>1. CASE id = t.id
        BY <3>1, <3>2, <4>1
      <4>2. CASE id # t.id
        <5>1. \A q \in Requests : ~(req[q].pc = "runToggle" /\ req[q].arg.id = id)
          BY <2>1, <3>1, <4>2 DEF Others, t
        <5> QED BY <5>1, <3>1, <4>2 DEF Rows, RestartChangesNoRow
      <4> QED BY <4>1, <4>2
    <3> QED BY <3>3, <3>4
  <2>4. CASE ~RunToggle(r) /\ ~(StoreToggle(r) /\ req'[r].pc # "refused")
    <3>1. /\ UNCHANGED <<storedOff, menuOff, racedRows>>
          /\ req[r].pc # "runToggle" /\ req'[r].pc # "runToggle"
      <4>1. CASE ReadCatalog(r)
        BY <2>1, <2>4, <4>1
        DEF ReadCatalog, Step, Refuse, TypeOK, Others, RequestOK, Idle
      <4>2. CASE WriteCatalog(r)
        BY <2>1, <2>4, <4>2
        DEF WriteCatalog, Step, Refuse, TypeOK, Others, RequestOK, Idle
      <4>3. CASE StoreToggle(r)
        BY <2>1, <2>4, <4>3
        DEF StoreToggle, Step, Refuse, TypeOK, Others, RequestOK, Idle
      <4>4. CASE ResolveType(r)
        BY <2>1, <2>4, <4>4
        DEF ResolveType, Refuse, Step, TypeOK, Others, RequestOK, Idle
      <4>5. CASE Probe(r)
        BY <2>1, <2>4, <4>5 DEF Probe, Free, TypeOK, Others, RequestOK, Idle
      <4>6. CASE Make(r)
        BY <2>1, <2>4, <4>6
        DEF Make, Step, Refuse, NewFile, Made, Free, TypeOK, Others, RequestOK, Idle
      <4>7. CASE Fill(r)
        BY <2>1, <2>4, <4>7 DEF Fill, Step, Refuse, TypeOK, Others, RequestOK, Idle
      <4>8. CASE Lstat(r)
        BY <2>1, <2>4, <4>8
        DEF Lstat, Step, Refuse, Free, TypeOK, Others, RequestOK, Idle
      <4>9. CASE ClearStaging(r)
        BY <2>1, <2>4, <4>9
        DEF ClearStaging, Step, Refuse, TypeOK, Others, RequestOK, Idle
      <4>10. CASE OpenCopy(r)
        BY <2>1, <2>4, <4>10
        DEF OpenCopy, Step, Refuse, NewFile, Made, Free, TypeOK, Others, RequestOK,
            Idle
      <4>11. CASE Copy(r)
        BY <2>1, <2>4, <4>11
        DEF Copy, Step, Refuse, InFolder, TypeOK, Others, RequestOK, Idle
      <4>12. CASE LookAgain(r)
        BY <2>1, <2>4, <4>12 DEF LookAgain, Free, TypeOK, Others, RequestOK, Idle
      <4>13. CASE Rename(r)
        BY <2>1, <2>4, <4>13 DEF Rename, Step, Refuse, TypeOK, Others, RequestOK, Idle
      <4>14. CASE Sweep(r)
        BY <2>1, <2>4, <4>14 DEF Sweep, Step, Refuse, TypeOK, Others, RequestOK, Idle
      <4> QED BY <1>3, <2>4, <4>1, <4>2, <4>3, <4>4, <4>5, <4>6, <4>7, <4>8, <4>9,
                 <4>10, <4>11, <4>12, <4>13, <4>14
              DEF Handler
    <3>2. Switches'
      BY <2>1, <3>1 DEF Rows, Switches, Others
    <3>3. RestartChangesNoRow'
      BY <2>1, <3>1 DEF Rows, RestartChangesNoRow, Others
    <3> QED BY <3>2, <3>3
  <2> QED BY <2>2, <2>3, <2>4
<1> QED BY <1>1, <1>2, <1>3, NextIs

-----------------------------------------------------------------------------
(* The catalog. *)

\* An edit of a catalog that has the rows has them too.
LEMMA EditKeeps ==
  ASSUME NEW c, IsCatalog(c), Kept(c), NEW e
  PROVE  Kept(SetFileType(c, e))
<1> DEFINE d == SetFileType(c, e)
<1>1. IDs(d) = IDs(c)
  BY EditKeepsIDs
<1>2. DOMAIN d = DOMAIN c
  BY <1>1 DEF IDs
<1> HIDE DEF d
<1>3. ASSUME NEW id PROVE Times(id, d) = Times(id, c)
  <2>1. {i \in DOMAIN d : IDs(d)[i] = id} = {i \in DOMAIN c : IDs(c)[i] = id}
    BY <1>1, <1>2
  <2> QED BY <2>1, Zenon DEF Times
<1> QED BY <1>1, <1>3 DEF Kept, d

\* So has a new order of it.
LEMMA OrderKeeps ==
  ASSUME NEW c, IsCatalog(c), Kept(c),
         NEW ids, ids \in Seq(ToSet(ids)), Reorders(c, ids)
  PROVE  Kept(ReorderFileTypes(c, ids))
BY OrderKeepsIDs DEF Kept

\* Whatever is read and written when, each list has the rows.
LEMMA ListsKept == TypeOK /\ Lists /\ [Next]_vars => Lists'
<1> USE DEF settingsVars, folderVars, raced, countVars
<1> SUFFICES ASSUME TypeOK, Lists, [Next]_vars PROVE Lists'
  OBVIOUS
<1>0. \A c : Kept(c)' <=> Kept(c)
  BY DEF Kept
<1>1. CASE Outside
  <2>1. catalog' = catalog
    BY <1>1 DEF Outside, Take, CopyRelative, User, Crash, vars
  <2> QED BY <1>0, <1>1, <2>1, OutsideMoves DEF Lists
<1>2. ASSUME NEW r \in Requests, Handler(r) PROVE Lists'
  <2>1. Others(r) /\ DOMAIN req = Requests /\ RequestOK(req[r]) /\ IsCatalog(catalog)
    BY <1>2, TypeKeeps DEF TypeOK
  <2>2. /\ catalog' = catalog \/ (req[r].pc = "writeCatalog" /\ catalog' = req[r].seen)
        /\ req'[r].pc = "writeCatalog" =>
             \/ req'[r].seen = SetFileType(catalog, req[r].arg)
             \/ /\ req[r].pc = "reorder" /\ Reorders(catalog, req[r].arg)
                /\ req'[r].seen = ReorderFileTypes(catalog, req[r].arg)
    <3> USE <2>1 DEF RequestOK, Idle
    <3>1. CASE ReadCatalog(r)
      BY <3>1 DEF ReadCatalog, Step, Refuse
    <3>2. CASE WriteCatalog(r)
      BY <3>2 DEF WriteCatalog, Step, Refuse
    <3>3. CASE StoreToggle(r)
      BY <3>3 DEF StoreToggle, Step, Refuse
    <3>4. CASE RunToggle(r)
      BY <3>4 DEF RunToggle, Step, Refuse
    <3>5. CASE ResolveType(r)
      BY <3>5 DEF ResolveType, Refuse, Step
    <3>6. CASE Probe(r)
      BY <3>6 DEF Probe, Free
    <3>7. CASE Make(r)
      BY <3>7 DEF Make, Step, Refuse, NewFile, Made, Free
    <3>8. CASE Fill(r)
      BY <3>8 DEF Fill, Step, Refuse
    <3>9. CASE Lstat(r)
      BY <3>9 DEF Lstat, Step, Refuse, Free
    <3>10. CASE ClearStaging(r)
      BY <3>10 DEF ClearStaging, Step, Refuse
    <3>11. CASE OpenCopy(r)
      BY <3>11 DEF OpenCopy, Step, Refuse, NewFile, Made, Free
    <3>12. CASE Copy(r)
      BY <3>12 DEF Copy, Step, Refuse
    <3>13. CASE LookAgain(r)
      BY <3>13 DEF LookAgain, Free
    <3>14. CASE Rename(r)
      BY <3>14 DEF Rename, Step, Refuse
    <3>15. CASE Sweep(r)
      BY <3>15 DEF Sweep, Step, Refuse
    <3> QED BY <1>2, <3>1, <3>2, <3>3, <3>4, <3>5, <3>6, <3>7, <3>8, <3>9, <3>10,
               <3>11, <3>12, <3>13, <3>14, <3>15
            DEF Handler
  <2>3. Kept(catalog)'
    BY <1>0, <2>2 DEF Lists
  <2>4. req'[r].pc = "writeCatalog" => Kept(req[r].seen)'
    <3>1. Kept(SetFileType(catalog, req[r].arg))
      BY <2>1, EditKeeps DEF Lists
    <3>2. req[r].pc = "reorder" /\ Reorders(catalog, req[r].arg) =>
            Kept(ReorderFileTypes(catalog, req[r].arg))
      <4> SUFFICES ASSUME req[r].pc = "reorder", Reorders(catalog, req[r].arg)
                   PROVE  Kept(ReorderFileTypes(catalog, req[r].arg))
        OBVIOUS
      <4>1. req[r].arg \in Seq(ToSet(req[r].arg))
        BY <2>1, FinderAssumption DEF RequestOK
      <4> QED BY <2>1, <4>1, OrderKeeps DEF Lists
    <3> QED BY <1>0, <2>2, <3>1, <3>2
  <2>5. \A q \in Requests : req'[q].pc = "writeCatalog" => Kept(req[q].seen)'
    BY <1>0, <2>1, <2>4 DEF Others, Lists
  <2> QED BY <2>3, <2>5 DEF Lists
<1> QED BY <1>1, <1>2, NextIs

-----------------------------------------------------------------------------
(* The folder and the staging names. *)

\* What is said of files.
Files == StagingIsPrivate /\ OneLink /\ Copies

\* What the staging names owe to the request q.
Private(q) ==
  /\ req[q].pc = "open" => staging[req[q].stage] = 0 \/ req[q].stage \in racedNames
  /\ req[q].pc \in {"copy", "look", "reprobe", "rename"} =>
       staging[req[q].stage] = req[q].file \/ req[q].stage \in racedNames
\* What a finished copy of q has.
Done(q) ==
  req[q].pc \in Copied =>
    /\ data[req[q].file] = "whole"
    /\ req[q].seen \subseteq DOMAIN data
    /\ \A n \in NameIdx : staging[n] # 0 => staging[n] \notin req[q].seen
    /\ req[q].pc = "rename" /\ folder[req[q].at] # 0 =>
         folder[req[q].at] \notin req[q].seen
\* No half copy has a name in the folder.
NoneHalf == \A n \in NameIdx : folder[n] # 0 /\ data[folder[n]] = "copying" => racedNames # {}

\* Files, request by request.
LEMMA FilesAre ==
  Files <=> OneLink /\ NoneHalf /\ \A q \in Requests : Private(q) /\ Done(q)
BY DEF Files, StagingIsPrivate, Copies, Private, Done, NoneHalf, InFolder

\* What each request owes is kept by a step that moves one request.
LEMMA OthersFiles ==
  ASSUME NEW r \in Requests, Others(r), OneLink', NoneHalf', (Private(r) /\ Done(r))',
         \A q \in Requests \ {r} : (Private(q) /\ Done(q))'
  PROVE  Files'
<1>1. \A q \in Requests : (Private(q) /\ Done(q))'
  OBVIOUS
<1> QED BY <1>1 DEF Files, StagingIsPrivate, Copies, Private, Done, NoneHalf, InFolder

\* A handler's step keeps Files.
LEMMA FilesStep ==
  ASSUME TypeOK, Races, Files, NEW r \in Requests, Handler(r)
  PROVE  Files'
<1> USE DEF settingsVars, folderVars, raced, countVars
<1>0. /\ Others(r) /\ TypeOK' /\ DOMAIN req = Requests
      /\ RequestOK(req[r]) /\ RequestOK(req[r])' /\ DOMAIN data \subseteq DOMAIN data'
      /\ racedNames \subseteq racedNames'
      /\ OneLink /\ NoneHalf /\ \A q \in Requests : Private(q) /\ Done(q)
      /\ \A q \in Requests : RequestOK(req[q])
  BY TypeKeeps, Entering, FilesAre DEF TypeOK
<1>1. CASE /\ UNCHANGED <<folder, staging, data, racedNames>>
           /\ req'[r].pc \notin Copied \cup {"open", "copy"}
  BY <1>0, <1>1 DEF Others, Files, StagingIsPrivate, OneLink, Copies, InFolder, Copied
<1>2. CASE ReadCatalog(r)
  BY <1>0, <1>1, <1>2 DEF ReadCatalog, Refuse, Step, RequestOK, Idle, Copied
<1>3. CASE WriteCatalog(r)
  BY <1>0, <1>1, <1>3 DEF WriteCatalog, Refuse, Step, RequestOK, Idle, Copied
<1>4. CASE StoreToggle(r)
  BY <1>0, <1>1, <1>4 DEF StoreToggle, Refuse, Step, RequestOK, Idle, Copied
<1>5. CASE RunToggle(r)
  BY <1>0, <1>1, <1>5 DEF RunToggle, Step, RequestOK, Idle, Copied
<1>6. CASE ResolveType(r)
  BY <1>0, <1>1, <1>6 DEF ResolveType, Refuse, Step, RequestOK, Idle, Copied
<1>7. CASE Lstat(r)
  BY <1>0, <1>1, <1>7 DEF Lstat, Refuse, Step, Free, RequestOK, Idle, Copied
<1>8. CASE Probe(r)
  <2>1. CASE req[r].pc = "probe"
    BY <1>0, <1>1, <1>8, <2>1 DEF Probe, RequestOK, Idle, Copied
  <2>2. CASE req[r].pc = "reprobe"
    <3>1. /\ req'[r].pc \in {"make", "look", "reprobe"}
          /\ req'[r].stage = req[r].stage /\ req'[r].file = req[r].file
          /\ req'[r].seen = req[r].seen
          /\ UNCHANGED <<folder, staging, data, racedNames>>
      BY <1>0, <1>8, <2>2 DEF Probe, RequestOK, Idle
    <3> QED BY <1>0, <2>2, <3>1
            DEF Others, Files, StagingIsPrivate, OneLink, Copies, InFolder, Copied
  <2> QED BY <1>8, <2>1, <2>2 DEF Probe
<1>9. CASE LookAgain(r)
  <2>1. /\ req[r].pc = "look"
        /\ IF Free(req[r].at) THEN req'[r].pc = "rename" /\ req'[r].at = req[r].at
             ELSE req'[r].pc = "reprobe"
        /\ req'[r].stage = req[r].stage /\ req'[r].file = req[r].file
        /\ req'[r].seen = req[r].seen
        /\ UNCHANGED <<folder, staging, data, racedNames>>
    BY <1>0, <1>9 DEF LookAgain, RequestOK, Idle
  <2> QED BY <1>0, <2>1
          DEF Others, Files, StagingIsPrivate, OneLink, Copies, InFolder, Copied,
              Free
<1>10. CASE Make(r)
  <2> DEFINE n == req[r].at
  <2>1. req'[r].pc \in {"fill", "refused"} /\ req[r].pc = "make" /\ n \in NameIdx
    BY <1>0, <1>10 DEF Make, Refuse, Step, RequestOK, Idle, Naming
  <2>2. CASE UNCHANGED <<folder, data>>
    BY <1>0, <1>1, <1>10, <2>1, <2>2 DEF Make, Copied
  <2>3. CASE folder' = [folder EXCEPT ![n] = NewFile] /\ Made("part")
    <3>1. /\ DOMAIN data' = DOMAIN data \cup {NewFile} /\ NewFile \notin DOMAIN data
          /\ \A f \in DOMAIN data : data'[f] = data[f]
          /\ data'[NewFile] = "part"
          /\ folder \in [NameIdx -> 0 .. Len(data)] /\ staging \in [NameIdx -> 0 .. Len(data)]
          /\ Len(data) \in Nat /\ DOMAIN data = 1 .. Len(data)
      BY <2>3, FileMade DEF TypeOK, Contents
    <3>2. UNCHANGED <<staging, racedNames>>
      BY <1>10 DEF Make
    <3> HIDE DEF n
    <3>3. OneLink'
      BY <1>0, <2>1, <2>3, <3>1, <3>2 DEF OneLink
    <3>4. NoneHalf'
      BY <1>0, <2>1, <2>3, <3>1, <3>2 DEF NoneHalf
    <3>5. ASSUME NEW q \in Requests \ {r} PROVE (Private(q) /\ Done(q))'
      BY <1>0, <2>1, <2>3, <3>1, <3>2
      DEF Others, Private, Done, RequestOK, Copied, Filing, Naming, Stages
    <3>6. (Private(r) /\ Done(r))'
      BY <2>1 DEF Private, Done, Copied
    <3> QED BY <1>0, <3>3, <3>4, <3>5, <3>6, OthersFiles
  <2> QED BY <1>10, <2>2, <2>3 DEF Make
<1>11. CASE Fill(r)
  <2>1. /\ req'[r].pc \in {"answered", "refused"} /\ req[r].pc = "fill"
        /\ req[r].file \in DOMAIN data
        /\ UNCHANGED <<folder, staging, racedNames>>
    BY <1>0, <1>11 DEF Fill, Refuse, Step, RequestOK, Idle, Filing
  <2>2. /\ DOMAIN data' = DOMAIN data
        /\ \A f \in DOMAIN data : data'[f] = data[f] \/ data'[f] = "whole"
        /\ folder \in [NameIdx -> 0 .. Len(data)] /\ DOMAIN data = 1 .. Len(data)
        /\ Len(data) \in Nat
    BY <2>1, <1>11 DEF Fill, TypeOK
  <2>3. OneLink' /\ NoneHalf'
    BY <1>0, <2>1, <2>2 DEF OneLink, NoneHalf
  <2>4. ASSUME NEW q \in Requests \ {r} PROVE (Private(q) /\ Done(q))'
    BY <1>0, <2>1, <2>2 DEF Others, Private, Done, RequestOK, Copied, Filing
  <2>5. (Private(r) /\ Done(r))'
    BY <2>1 DEF Private, Done, Copied
  <2> QED BY <1>0, <2>3, <2>4, <2>5, OthersFiles
<1>12. CASE ClearStaging(r)
  <2>1. /\ req'[r].pc = "open" /\ req'[r].stage = req[r].at /\ req[r].at \in NameIdx
        /\ UNCHANGED <<folder, data>>
    BY <1>0, <1>12 DEF ClearStaging, RequestOK, Idle, Stages, Naming
  <2>2. \A m \in NameIdx : staging'[m] = IF m = req[r].at THEN 0 ELSE staging[m]
    BY <1>0, <1>12, <2>1 DEF ClearStaging, TypeOK
  <2>3. \A q \in Requests \ {r} :
          req[q].pc \in Stages /\ req[q].stage = req[r].at => req[q].stage \in racedNames'
    BY <1>12 DEF ClearStaging
  <2>4. OneLink' /\ NoneHalf'
    BY <1>0, <2>1, <2>2 DEF OneLink, NoneHalf
  <2>5. ASSUME NEW q \in Requests \ {r} PROVE (Private(q) /\ Done(q))'
    BY <1>0, <2>1, <2>2, <2>3
    DEF Others, Private, Done, RequestOK, Copied, Filing, Stages, Naming
  <2>6. (Private(r) /\ Done(r))'
    BY <1>0, <2>1, <2>2 DEF Private, Done, Copied
  <2> QED BY <1>0, <2>4, <2>5, <2>6, OthersFiles
<1>13. CASE OpenCopy(r)
  <2> DEFINE n == req[r].stage
  <2>1. req[r].pc = "open" /\ n \in NameIdx /\ UNCHANGED <<folder, racedNames>>
    BY <1>0, <1>13 DEF OpenCopy, RequestOK, Stages
  <2>2. CASE UNCHANGED <<staging, data>> /\ req' = [req EXCEPT ![r].pc = "sweepBad"]
    BY <1>0, <1>1, <2>1, <2>2 DEF Copied, RequestOK, Idle
  <2>3. CASE /\ staging[n] = 0 /\ staging' = [staging EXCEPT ![n] = NewFile] /\ Made("copying")
             /\ req' = [req EXCEPT ![r].pc = "copy", ![r].file = NewFile]
    <3>1. /\ DOMAIN data' = DOMAIN data \cup {NewFile} /\ NewFile \notin DOMAIN data
          /\ \A f \in DOMAIN data : data'[f] = data[f]
          /\ folder \in [NameIdx -> 0 .. Len(data)] /\ staging \in [NameIdx -> 0 .. Len(data)]
          /\ Len(data) \in Nat /\ DOMAIN data = 1 .. Len(data) /\ NewFile # 0
      BY <2>3, FileMade DEF TypeOK, Contents, NewFile
    <3>2. req'[r].pc = "copy" /\ req'[r].file = NewFile /\ req'[r].stage = n
      BY <1>0, <2>3 DEF RequestOK, Idle
    <3>3. \A q \in Requests \ {r} : req[q].pc \in Stages /\ req[q].stage = n => n \in racedNames
      BY <2>1 DEF Races, Stages
    <3> HIDE DEF n
    <3>4. OneLink'
      BY <1>0, <2>1, <2>3, <3>1 DEF OneLink
    <3>5. NoneHalf'
      BY <1>0, <2>1, <3>1 DEF NoneHalf
    <3>6. ASSUME NEW q \in Requests \ {r} PROVE (Private(q) /\ Done(q))'
      <4>1. Private(q)'
        BY <1>0, <2>1, <2>3, <3>1, <3>3 DEF Others, Private, RequestOK, Stages
      <4>2. Done(q)'
        BY <1>0, <2>1, <2>3, <3>1
        DEF Others, Done, RequestOK, Copied, Filing, Naming, Stages
      <4> QED BY <4>1, <4>2
    <3>7. (Private(r) /\ Done(r))'
      BY <1>0, <2>1, <2>3, <3>1, <3>2 DEF Private, Done, Copied
    <3> QED BY <1>0, <3>4, <3>5, <3>6, <3>7, OthersFiles
  <2> QED BY <1>13, <2>2, <2>3 DEF OpenCopy, Step, Free
<1>14. CASE Copy(r)
  <2>1. /\ req[r].pc = "copy" /\ req[r].file \in DOMAIN data
        /\ UNCHANGED <<folder, staging, racedNames>>
    BY <1>0, <1>14 DEF Copy, Step, RequestOK, Filing
  <2>2. CASE UNCHANGED data /\ req' = [req EXCEPT ![r].pc = "sweepBad"]
    BY <1>0, <1>1, <2>1, <2>2 DEF Copied, RequestOK, Idle
  <2>3. CASE /\ data' = [data EXCEPT ![req[r].file] = "whole"]
             /\ req' = [req EXCEPT ![r].pc = "look", ![r].seen = InFolder]
    <3>1. /\ DOMAIN data' = DOMAIN data
          /\ \A f \in DOMAIN data : data'[f] = data[f] \/ data'[f] = "whole"
          /\ data'[req[r].file] = "whole"
          /\ folder \in [NameIdx -> 0 .. Len(data)] /\ DOMAIN data = 1 .. Len(data)
          /\ Len(data) \in Nat
      BY <2>1, <2>3 DEF TypeOK
    <3>2. /\ req'[r].pc = "look" /\ req'[r].file = req[r].file
          /\ req'[r].stage = req[r].stage /\ req'[r].seen = InFolder
      BY <1>0, <2>3 DEF RequestOK, Idle
    <3>3. OneLink' /\ NoneHalf'
      BY <1>0, <2>1, <3>1 DEF OneLink, NoneHalf
    <3>4. ASSUME NEW q \in Requests \ {r} PROVE (Private(q) /\ Done(q))'
      BY <1>0, <2>1, <3>1 DEF Others, Private, Done, RequestOK, Copied, Filing
    <3>5. (Private(r) /\ Done(r))'
      BY <1>0, <2>1, <3>1, <3>2 DEF Private, Done, Copied, InFolder, OneLink
    <3> QED BY <1>0, <3>3, <3>4, <3>5, OthersFiles
  <2> QED BY <1>14, <2>2, <2>3 DEF Copy, Step
<1>15. CASE Rename(r)
  <2> DEFINE n == req[r].stage
             m == req[r].at
  <2>1. /\ req[r].pc = "rename" /\ n \in NameIdx /\ m \in NameIdx
        /\ req[r].file \in DOMAIN data
        /\ UNCHANGED <<data, racedNames>>
        /\ req'[r].pc \in {"sweepBad", "sweepOK"}
    BY <1>0, <1>15 DEF Rename, Step, RequestOK, Stages, Naming, Filing, Idle
  <2>2. CASE UNCHANGED <<folder, staging>>
    BY <1>0, <1>1, <2>1, <2>2 DEF Copied
  <2>3. CASE /\ staging[n] # 0
             /\ folder' = [folder EXCEPT ![m] = staging[n]]
             /\ staging' = [staging EXCEPT ![n] = 0]
    <3>1. /\ folder \in [NameIdx -> 0 .. Len(data)] /\ staging \in [NameIdx -> 0 .. Len(data)]
          /\ DOMAIN data = 1 .. Len(data) /\ Len(data) \in Nat
      BY DEF TypeOK
    <3>2. \A q \in Requests \ {r} : req[q].pc \in Stages /\ req[q].stage = n => n \in racedNames
      BY <2>1 DEF Races, Stages
    <3>3. staging[n] = req[r].file \/ n \in racedNames
      BY <1>0, <2>1 DEF Private
    <3>4. data[req[r].file] = "whole"
      BY <1>0, <2>1 DEF Done, Copied
    <3> HIDE DEF n, m
    <3>5. OneLink'
      BY <1>0, <2>1, <2>3, <3>1 DEF OneLink
    <3>6. NoneHalf'
      BY <1>0, <2>1, <2>3, <3>1, <3>3, <3>4 DEF NoneHalf
    <3>7. ASSUME NEW q \in Requests \ {r} PROVE (Private(q) /\ Done(q))'
      <4>1. Private(q)'
        BY <1>0, <2>1, <2>3, <3>1, <3>2 DEF Others, Private, RequestOK, Stages
      <4>2. Done(q)'
        BY <1>0, <2>1, <2>3, <3>1
        DEF Others, Done, RequestOK, Copied, Filing, Naming, Stages
      <4> QED BY <4>1, <4>2
    <3>8. (Private(r) /\ Done(r))'
      BY <2>1 DEF Private, Done, Copied
    <3> QED BY <1>0, <3>5, <3>6, <3>7, <3>8, OthersFiles
  <2> QED BY <1>15, <2>2, <2>3 DEF Rename
<1>16. CASE Sweep(r)
  <2>1. /\ req[r].pc \in {"sweepOK", "sweepBad"} /\ req[r].stage \in NameIdx
        /\ req'[r].pc \in {"answered", "refused"}
        /\ UNCHANGED <<folder, data, racedNames>>
    BY <1>0, <1>16 DEF Sweep, Step, Refuse, RequestOK, Idle, Stages, Naming
  <2>2. \A m \in NameIdx : staging'[m] = IF m = req[r].stage THEN 0 ELSE staging[m]
    BY <1>0, <1>16, <2>1 DEF Sweep, TypeOK
  <2>3. \A q \in Requests \ {r} :
          req[q].pc \in Stages /\ req[q].stage = req[r].stage => req[q].stage \in racedNames'
    BY <2>1 DEF Races, Stages
  <2>4. OneLink' /\ NoneHalf'
    BY <1>0, <2>1, <2>2 DEF OneLink, NoneHalf
  <2>5. ASSUME NEW q \in Requests \ {r} PROVE (Private(q) /\ Done(q))'
    BY <1>0, <2>1, <2>2, <2>3
    DEF Others, Private, Done, RequestOK, Copied, Filing, Stages, Naming
  <2>6. (Private(r) /\ Done(r))'
    BY <1>0, <2>1, <2>2 DEF Private, Done, Copied
  <2> QED BY <1>0, <2>4, <2>5, <2>6, OthersFiles
<1> QED BY <1>2, <1>3, <1>4, <1>5, <1>6, <1>7, <1>8, <1>9, <1>10, <1>11, <1>12,
           <1>13, <1>14, <1>15, <1>16
        DEF Handler

\* Every step keeps Files: what the user makes is new to every copy.
LEMMA FilesKept == TypeOK /\ Races /\ Files /\ [Next]_vars => Files'
<1> SUFFICES ASSUME TypeOK, Races, Files, [Next]_vars PROVE Files'
  OBVIOUS
<1>0. /\ OneLink /\ NoneHalf /\ \A q \in Requests : Private(q) /\ Done(q)
      /\ folder \in [NameIdx -> 0 .. Len(data)] /\ staging \in [NameIdx -> 0 .. Len(data)]
      /\ data \in Seq(Contents) /\ Len(data) \in Nat /\ DOMAIN data = 1 .. Len(data)
      /\ \A q \in Requests : RequestOK(req[q])
  BY FilesAre DEF TypeOK
<1>1. CASE Outside
  <2>1. UNCHANGED <<staging, racedNames>>
    BY <1>1 DEF Outside, Take, CopyRelative, User, Crash, vars, folderVars, raced
  <2>2. CASE UNCHANGED <<folder, data>>
    <3>1. \A q \in Requests : (Private(q) /\ Done(q))'
      BY <1>0, <1>1, <2>1, <2>2, OutsideMoves DEF Private, Done, Copied
    <3>2. (OneLink /\ NoneHalf)'
      BY <1>0, <2>1, <2>2 DEF OneLink, NoneHalf
    <3> QED BY <3>1, <3>2
            DEF Files, StagingIsPrivate, Copies, Private, Done, NoneHalf, InFolder
  <2>3. CASE User
    <3>1. PICK n \in NameIdx : UserMakes(n) \/ UserTakesAway(n)
      BY <2>3 DEF User
    <3>2. req' = req
      BY <2>3 DEF User
    <3>3. /\ DOMAIN data \subseteq DOMAIN data'
          /\ \A f \in DOMAIN data : data'[f] = data[f]
          /\ \A m \in NameIdx \ {n} : folder'[m] = folder[m]
          /\ \/ folder'[n] = 0
             \/ folder'[n] \notin DOMAIN data /\ folder'[n] # 0 /\ data'[folder'[n]] = "users"
      <4>1. CASE UserMakes(n)
        BY <1>0, <4>1, FileMade DEF UserMakes, Contents, NewFile
      <4>2. CASE UserTakesAway(n)
        BY <1>0, <4>2 DEF UserTakesAway
      <4> QED BY <3>1, <4>1, <4>2
    <3>4. OneLink'
      BY <1>0, <2>1, <3>3 DEF OneLink
    <3>5. NoneHalf'
      BY <1>0, <2>1, <3>3 DEF NoneHalf
    <3>6. ASSUME NEW q \in Requests PROVE (Private(q) /\ Done(q))'
      BY <1>0, <2>1, <3>2, <3>3
      DEF Private, Done, RequestOK, Copied, Filing, Naming, Stages
    <3> QED BY <3>4, <3>5, <3>6
            DEF Files, StagingIsPrivate, Copies, Private, Done, NoneHalf, InFolder
  <2>4. User \/ UNCHANGED <<folder, data>>
    BY <1>1 DEF Outside, Take, CopyRelative, Crash, vars, folderVars
  <2> QED BY <2>2, <2>3, <2>4
<1>2. ASSUME NEW r \in Requests, Handler(r) PROVE Files'
  BY <1>2, FilesStep
<1> QED BY <1>1, <1>2, NextIs

-----------------------------------------------------------------------------
(* The theorems. *)

\* The invariant holds at the start.
LEMMA InitIInv == Init => IInv
<1> SUFFICES ASSUME Init PROVE IInv
  OBVIOUS
<1> USE FinderAssumption
<1>1. NameIdx = 1 .. NameMax /\ 1 \in NameIdx /\ NameMax \in Nat
  BY DEF NameIdx
<1>2. /\ data \in Seq(Contents) /\ Len(data) = 1 /\ DOMAIN data = {1} /\ data[1] = "users"
  BY DEF Init, Contents
<1>3. \A r \in Requests : DOMAIN req[r] = DOMAIN Idle /\ req[r].pc = "idle"
  BY DEF Init, Idle
<1>4. TypeOK
  <2>1. \A r \in Requests : RequestOK(req[r])
    BY <1>3 DEF RequestOK, Pcs, Ended, Naming, Stages, Filing
  <2>2. folder \in [NameIdx -> 0 .. Len(data)] /\ staging \in [NameIdx -> 0 .. Len(data)]
    BY <1>1, <1>2 DEF Init
  <2> QED BY <1>2, <2>1, <2>2 DEF Init, TypeOK
<1>5. Races /\ Switches /\ Copies
  BY <1>3 DEF Races, Switches, Copies, Copied, Stages
<1>6. OneLink
  BY <1>1 DEF Init, OneLink
<1>7. Lists
  BY <1>3 DEF Init, Lists, Kept
<1>8. StagingIsPrivate
  BY <1>1, <1>2, <1>3 DEF Init, StagingIsPrivate, InFolder
<1>9. RestartChangesNoRow
  BY DEF Init, RestartChangesNoRow
<1> QED BY <1>4, <1>5, <1>6, <1>7, <1>8, <1>9 DEF IInv

\* Every step keeps it.
LEMMA StepIInv == IInv /\ [Next]_vars => IInv'
BY TypeStep, RacesKept, RowsKept, ListsKept, FilesKept DEF IInv, Rows, Files

\* The inductive invariant holds of every run.
THEOREM Invariance == Spec => []IInv
BY InitIInv, StepIInv, PTL DEF Spec

\* What a request holds fits where it is; a file has been made before it is
\* named (the handlers of finderdata.go and findermenu.go).
THEOREM TypeCorrect == Spec => []TypeOK
BY Invariance, PTL DEF IInv

\* A leftover of a killed run or of another file makes no duplicate fail: a
\* staging name belongs to one duplicateBeside, unless two raced for it.
THEOREM StagingPrivate == Spec => []StagingIsPrivate
BY Invariance, PTL DEF IInv

\* core.setFileType and core.reorderFileTypes, however they interleave and
\* whatever writes fail, lose, double and mint no row.
THEOREM RowsAreKept == Spec => []CatalogKeepsItsRows
<1>1. IInv => CatalogKeepsItsRows
  BY DEF IInv, Lists, CatalogKeepsItsRows
<1> QED BY <1>1, Invariance, PTL

\* core.setFinderItem writes the document and then the map: a restart shows
\* a row as the running daemon did, unless two toggles of it overlap.
THEOREM RestartShowsTheSame == Spec => []RestartChangesNoRow
BY Invariance, PTL DEF IInv

\* OnlyTheWindowReplaces, of one name.
Replaces(n) ==
  folder[n] # 0 /\ folder'[n] # folder[n] =>
    \/ meddled' # meddled
    \/ \E r \in Requests : /\ req[r].pc = "rename" /\ req'[r].pc = "sweepOK"
                           /\ req[r].at = n /\ folder[n] \notin req[r].seen

\* createFile and duplicateBeside take nothing from its name that was there
\* when their content was complete.
THEOREM NothingOldIsReplaced == Spec => OnlyTheWindowReplaces
<1>1. ASSUME IInv, [Next]_vars, NEW n \in NameIdx PROVE Replaces(n)
  <2> USE DEF folderVars, countVars
  <2>0. TypeOK /\ Copies
    BY <1>1 DEF IInv
  <2> SUFFICES ASSUME folder[n] # 0, folder'[n] # folder[n] PROVE Replaces(n)
    BY DEF Replaces
  <2>1. ASSUME NEW r \in Requests, Rename(r) PROVE Replaces(n)
    <3>1. /\ req[r].pc = "rename" /\ req[r].at \in NameIdx /\ "pc" \in DOMAIN req[r]
          /\ DOMAIN req = Requests /\ DOMAIN folder = NameIdx
      BY <2>0, <2>1 DEF Rename, Step, TypeOK, RequestOK, Naming, Stages, Idle
    <3>2. /\ req'[r].pc = "sweepOK"
          /\ folder' = [folder EXCEPT ![req[r].at] = staging[req[r].stage]]
      BY <2>1, <3>1 DEF Rename, Step
    <3>3. req[r].at = n
      BY <3>1, <3>2
    <3> QED BY <2>0, <3>1, <3>2, <3>3 DEF Replaces, Copies, Copied
  <2>2. ASSUME NEW r \in Requests, Make(r) PROVE FALSE
    BY <2>0, <2>2 DEF Make, Free, TypeOK
  <2>3. CASE User
    BY <2>0, <2>3 DEF User, TypeOK, Replaces
  <2>4. CASE UNCHANGED folder
    BY <2>4
  <2> QED BY <1>1, <2>1, <2>2, <2>3, <2>4
          DEF Next, Handler, vars, Take, CopyRelative, Crash,
          ReadCatalog, WriteCatalog, StoreToggle, RunToggle, ResolveType, Probe, Fill,
          Lstat, ClearStaging, OpenCopy, Copy, LookAgain, Sweep
<1>2. IInv /\ [Next]_vars => [\A n \in NameIdx : Replaces(n)]_vars
  BY <1>1
<1> QED BY <1>2, Invariance, PTL DEF Spec, OnlyTheWindowReplaces, Replaces

=============================================================================

------------------------------ MODULE DiskProofs ------------------------------
(***************************************************************************)
(* The receiver's disk-commit pipeline, for every number of files and       *)
(* chunks, every queue capacity, every combination of options and every     *)
(* failing operation: the types, the temp files and the destinations; then  *)
(* the order of the files and messages and the positions of the results:    *)
(* the network thread's books and what the disk thread still owes agree     *)
(* until an error ends the loop; and, from all of that, what is at the      *)
(* destinations at every step and at the end.                               *)
(***************************************************************************)
EXTENDS DiskCommit, TLAPS

\* The leaves are tried with Zenon unless they name another prover.
USE Zenon

Elems(s) == {s[i] : i \in 1..Len(s)}

Starting == {"begin", "whole"}

\* The network thread has taken cur from the list and not noted its commit yet.
InHand == npc \in {"begin", "whole", "stream"}
\* The disk thread is at work on dfile, or holds its result.
Busy == dpc \notin {"idle", "exited"} /\ ~(dpc = "send" /\ dres.kind = "stray")
Starts == {j \in 1..Len(fileQ) : fileQ[j].type \in Starting}
Queued == {fileQ[j].file : j \in Starts}

Fields == {"dest", "temp", "partial", "backup", "staged", "had"}
NetPlaces == {"next", "begin", "whole", "stream", "drain", "drain_all", "shut_drain",
              "shut_send", "join", "sweep_backup", "sweep_rename", "done"}
DiskPlaces == {"idle", "backup", "open", "setup", "file", "write", "discard", "verify",
               "commit", "rename", "copy", "send", "exited"}

Types ==
    /\ cfg \in Configs
    /\ fileQ \in Seq(FileMsgs) /\ resultQ \in Seq(Results)
    /\ npc \in NetPlaces /\ pass \in 1..2
    /\ todo \in Seq(Files) /\ cur \in 0..NumFiles /\ good \in BOOLEAN
    /\ expected \in Seq(Files) /\ redo \in Seq(Files) /\ delayed \in Seq(Files)
    /\ success \subseteq Files /\ confirmed \subseteq Files
    /\ pending = Len(expected)
    /\ ioError \in BOOLEAN /\ outcome \in {"none", "ok", "err"}
    /\ dpc \in DiskPlaces /\ dfile \in 0..NumFiles
    /\ dgood \in BOOLEAN /\ dres \in Results
    /\ fs \in [Files -> [Fields -> Contents]]
    /\ Busy => dfile \in Files
    /\ InHand => cur \in Files
    /\ Queued \subseteq Files
    /\ npc = "sweep_rename" => delayed # << >>
    /\ \A j \in 1..Len(fileQ) : fileQ[j].type = "shutdown" => npc = "join"

\* A temp file exists only while its file is written, and is complete once its
\* data is; only verified data is staged.
TempInv ==
    /\ \A f \in Files : fs[f].temp # "none" =>
          f = dfile /\ NeedsRename
            /\ dpc \in {"setup", "file", "write", "verify", "commit", "rename", "copy"}
    /\ (NeedsRename /\ dpc \in {"verify", "commit", "rename", "copy"}) => fs[dfile].temp = Complete
    /\ (NeedsRename /\ dpc \in {"commit", "rename", "copy"}) => dgood
    /\ dpc = "copy" => NeedsRename /\ cfg.crossdev /\ ~cfg.delay
    /\ \A f \in Files : fs[f].staged \in {"none", "new"}

\* Files move through the pipeline in list order: on the network thread, and from
-----------------------------------------------------------------------------
(* Sequences, options and the file system.                                    *)

LEMMA ElemsEmpty == Elems(<< >>) = {}
BY SMTT(60) DEF Elems

LEMMA ElemsTail ==
  ASSUME NEW S, NEW s \in Seq(S), s # << >>
  PROVE  /\ Head(s) \in S /\ Tail(s) \in Seq(S) /\ Len(Tail(s)) = Len(s) - 1
         /\ Elems(s) = {Head(s)} \cup Elems(Tail(s))
<1>1. /\ Tail(s) \in Seq(S) /\ Len(s) \in Nat \ {0} /\ Len(Tail(s)) = Len(s) - 1
      /\ Head(s) = s[1] /\ s[1] \in S
  BY SMTT(60)
<1>2. \A i \in 1..Len(s) - 1 : Tail(s)[i] = s[i + 1]
  BY SMTT(60)
<1>3. ASSUME NEW x \in Elems(s) PROVE x = Head(s) \/ x \in Elems(Tail(s))
  <2>1. PICK i \in 1..Len(s) : x = s[i]
    BY <1>3 DEF Elems
  <2>2. CASE i = 1
    BY <1>1, <2>1, <2>2
  <2>3. CASE i # 1
    <3>1. i - 1 \in 1..Len(s) - 1 /\ Tail(s)[i - 1] = s[i]
      BY <1>1, <1>2, <2>3, SMTT(60)
    <3>2. QED
      BY <1>1, <2>1, <3>1 DEF Elems
  <2>4. QED
    BY <2>2, <2>3
<1>4. ASSUME NEW x \in Elems(Tail(s)) PROVE x \in Elems(s)
  <2>1. PICK i \in 1..Len(s) - 1 : x = s[i + 1]
    BY <1>1, <1>2, <1>4 DEF Elems
  <2>2. i + 1 \in 1..Len(s)
    BY <1>1, SMTT(60)
  <2>3. QED
    BY <2>1, <2>2 DEF Elems
<1>5. Head(s) \in Elems(s)
  <2>1. 1 \in 1..Len(s)
    BY <1>1, SMTT(60)
  <2>2. QED
    BY <1>1, <2>1 DEF Elems
<1>6. QED
  BY <1>1, <1>3, <1>4, <1>5

LEMMA ElemsAppend ==
  ASSUME NEW S, NEW s \in Seq(S), NEW x \in S
  PROVE  /\ Append(s, x) \in Seq(S) /\ Elems(Append(s, x)) = Elems(s) \cup {x}
         /\ Len(Append(s, x)) = Len(s) + 1
<1>1. /\ Append(s, x) \in Seq(S) /\ Len(Append(s, x)) = Len(s) + 1 /\ Len(s) \in Nat
      /\ Append(s, x)[Len(s) + 1] = x
      /\ \A i \in 1..Len(s) : Append(s, x)[i] = s[i]
  BY SMTT(60)
<1>2. ASSUME NEW y \in Elems(Append(s, x)) PROVE y = x \/ y \in Elems(s)
  <2>1. PICK i \in 1..Len(s) + 1 : y = Append(s, x)[i]
    BY <1>1, <1>2 DEF Elems
  <2>2. i = Len(s) + 1 \/ i \in 1..Len(s)
    BY <1>1, SMTT(60)
  <2>3. QED
    BY <1>1, <2>1, <2>2 DEF Elems
<1>3. ASSUME NEW y \in Elems(s) PROVE y \in Elems(Append(s, x))
  <2>1. PICK i \in 1..Len(s) : y = s[i]
    BY <1>3 DEF Elems
  <2>2. i \in 1..Len(s) + 1 /\ y = Append(s, x)[i]
    BY <1>1, <2>1, SMTT(60)
  <2>3. QED
    BY <1>1, <2>2 DEF Elems
<1>4. x \in Elems(Append(s, x))
  <2>1. Len(s) + 1 \in 1..Len(s) + 1
    BY <1>1, SMTT(60)
  <2>2. QED
    BY <1>1, <2>1 DEF Elems
<1>5. QED
  BY <1>1, <1>2, <1>3, <1>4

\* An increasing sequence loses its smallest element, or gains a greater one.

LEMMA OptionFacts ==
  ASSUME cfg \in Configs
  PROVE  /\ cfg.partial \in {"none", "partial", "dir"}
         /\ cfg.backup \in BOOLEAN /\ cfg.delay \in BOOLEAN /\ cfg.inplace \in BOOLEAN
         /\ cfg.crossdev \in BOOLEAN /\ ~(cfg.inplace /\ cfg.delay)
         /\ \A op \in Operations : KindsOf(op) \subseteq {"perm", "other"}
BY DiskAssumption DEF KindsOf

\* What the two ways to change a file's paths do.
LEMMA SetFacts ==
  ASSUME fs \in [Files -> [Fields -> Contents]], NEW f \in Files, NEW x \in Fields,
         NEW c \in Contents, fs' = SetFs(f, x, c)
  PROVE  /\ fs' \in [Files -> [Fields -> Contents]]
         /\ \A g \in Files, y \in Fields : fs'[g][y] = IF g = f /\ y = x THEN c ELSE fs[g][y]
BY DEF SetFs

LEMMA MoveFacts ==
  ASSUME fs \in [Files -> [Fields -> Contents]], NEW f \in Files, NEW x \in Fields,
         NEW y \in Fields, x # y, fs' = MoveFs(f, x, y)
  PROVE  /\ fs' \in [Files -> [Fields -> Contents]]
         /\ \A g \in Files, z \in Fields :
               fs'[g][z] = IF g # f THEN fs[g][z]
                           ELSE IF z = x THEN "none" ELSE IF z = y THEN fs[g][x] ELSE fs[g][z]
BY DEF MoveFs, Contents

\* Messages enter at the end and leave from the front.
LEMMA QueueAppend ==
  ASSUME fileQ \in Seq(FileMsgs), NEW m \in FileMsgs, fileQ' = Append(fileQ, m)
  PROVE  /\ fileQ' \in Seq(FileMsgs)
         /\ Queued' = IF m.type \in Starting THEN Queued \cup {m.file} ELSE Queued
         /\ \A j \in 1..Len(fileQ') :
               \/ j \in 1..Len(fileQ) /\ fileQ'[j] = fileQ[j]
               \/ j = Len(fileQ) + 1 /\ fileQ'[j] = m
<1>1. /\ fileQ' \in Seq(FileMsgs) /\ Len(fileQ') = Len(fileQ) + 1 /\ Len(fileQ) \in Nat
      /\ fileQ'[Len(fileQ) + 1] = m
      /\ \A j \in 1..Len(fileQ) : fileQ'[j] = fileQ[j] /\ j \in 1..Len(fileQ')
  BY SMTT(60)
<1>2. ASSUME NEW j \in 1..Len(fileQ')
      PROVE  \/ j \in 1..Len(fileQ) /\ fileQ'[j] = fileQ[j]
             \/ j = Len(fileQ) + 1 /\ fileQ'[j] = m
  BY <1>1, SMTT(60)
<1>3. Len(fileQ) + 1 \in 1..Len(fileQ')
  BY <1>1, SMTT(60)
<1>4. Queued \subseteq Queued'
  BY <1>1 DEF Queued, Starts
<1>5. m.type \in Starting => m.file \in Queued'
  BY <1>1, <1>3 DEF Queued, Starts
<1>6. ASSUME NEW f \in Queued' PROVE f \in Queued \/ (m.type \in Starting /\ f = m.file)
  <2>1. PICK j \in 1..Len(fileQ') : fileQ'[j].type \in Starting /\ f = fileQ'[j].file
    BY <1>6 DEF Queued, Starts
  <2>2. QED
    BY <1>2, <2>1 DEF Queued, Starts
<1>7. Queued' = IF m.type \in Starting THEN Queued \cup {m.file} ELSE Queued
  BY <1>4, <1>5, <1>6
<1>8. QED
  BY <1>1, <1>2, <1>7

LEMMA QueueTail ==
  ASSUME fileQ \in Seq(FileMsgs), fileQ # << >>, fileQ' = Tail(fileQ)
  PROVE  /\ fileQ' \in Seq(FileMsgs) /\ Head(fileQ) \in FileMsgs
         /\ Queued = IF Head(fileQ).type \in Starting THEN {Head(fileQ).file} \cup Queued'
                     ELSE Queued'
         /\ \A j \in 1..Len(fileQ') : j + 1 \in 1..Len(fileQ) /\ fileQ'[j] = fileQ[j + 1]
<1>1. /\ fileQ' \in Seq(FileMsgs) /\ Len(fileQ) \in Nat \ {0} /\ Len(fileQ') = Len(fileQ) - 1
      /\ Head(fileQ) = fileQ[1] /\ 1 \in 1..Len(fileQ) /\ fileQ[1] \in FileMsgs
      /\ \A j \in 1..Len(fileQ') : j + 1 \in 1..Len(fileQ) /\ fileQ'[j] = fileQ[j + 1]
  BY SMTT(60)
<1>2. ASSUME NEW j \in 1..Len(fileQ), j # 1
      PROVE  j - 1 \in 1..Len(fileQ') /\ fileQ'[j - 1] = fileQ[j]
  BY <1>1, <1>2, SMTT(60)
<1>3. Queued' \subseteq Queued
  BY <1>1, SMTT(60) DEF Queued, Starts
<1>4. Head(fileQ).type \in Starting => Head(fileQ).file \in Queued
  BY <1>1 DEF Queued, Starts
<1>5. ASSUME NEW f \in Queued PROVE f \in Queued' \/ (f = Head(fileQ).file /\ Head(fileQ).type \in Starting)
  <2>1. PICK j \in 1..Len(fileQ) : fileQ[j].type \in Starting /\ f = fileQ[j].file
    BY <1>5 DEF Queued, Starts
  <2>2. CASE j = 1
    BY <1>1, <2>1, <2>2
  <2>3. CASE j # 1
    BY <1>2, <2>1, <2>3 DEF Queued, Starts
  <2>4. QED
    BY <2>2, <2>3
<1>6. QED
  BY <1>1, <1>3, <1>4, <1>5

-----------------------------------------------------------------------------
(* Types: what a step of the disk thread, and one of the network thread, may do. *)

LEMMA DiskTypes ==
  ASSUME Types, UNCHANGED <<cfg, npc, netVars>>,
         fileQ' = fileQ \/ (fileQ # << >> /\ fileQ' = Tail(fileQ)),
         resultQ' \in Seq(Results), dpc' \in DiskPlaces, dfile' \in 0..NumFiles,
         dgood' \in BOOLEAN, dres' \in Results, fs' \in [Files -> [Fields -> Contents]],
         Busy' => dfile' \in Files
  PROVE  Types'
<1>1. CASE fileQ' = fileQ
  BY <1>1 DEF Types, netVars, InHand, Queued, Starts
<1>2. CASE fileQ # << >> /\ fileQ' = Tail(fileQ)
  <2>1. fileQ' \in Seq(FileMsgs) /\ Queued' \subseteq Queued
        /\ \A j \in 1..Len(fileQ') : j + 1 \in 1..Len(fileQ) /\ fileQ'[j] = fileQ[j + 1]
    BY <1>2, QueueTail DEF Types
  <2>2. \A j \in 1..Len(fileQ') : fileQ'[j].type = "shutdown" => npc' = "join"
    BY <2>1 DEF Types, netVars
  <2>3. QED
    BY <2>1, <2>2 DEF Types, netVars, InHand
<1>3. QED
  BY <1>1, <1>2

LEMMA NetTypes ==
  ASSUME Types, UNCHANGED <<cfg, diskVars, fs>>, fileQ' \in Seq(FileMsgs),
         resultQ' \in Seq(Results), npc' \in NetPlaces, pass' \in 1..2,
         todo' \in Seq(Files), cur' \in 0..NumFiles, good' \in BOOLEAN,
         expected' \in Seq(Files), redo' \in Seq(Files), delayed' \in Seq(Files),
         success' \subseteq Files, confirmed' \subseteq Files, pending' = Len(expected'),
         ioError' \in BOOLEAN, outcome' \in {"none", "ok", "err"},
         InHand' => cur' \in Files, Queued' \subseteq Files,
         npc' = "sweep_rename" => delayed' # << >>,
         \A j \in 1..Len(fileQ') : fileQ'[j].type = "shutdown" => npc' = "join"
  PROVE  Types'
BY DEF Types, diskVars, Busy

\* A result handled: what HandleResult does to the books.
LEMMA HandleTypes ==
  ASSUME Types, resultQ # << >>, NEW onErr \in {"shut_drain", "shut_send"},
         HandleResult(Head(resultQ), onErr)
  PROVE  /\ Head(resultQ) \in Results
         /\ resultQ' \in Seq(Results) /\ expected' \in Seq(Files) /\ pending' = Len(expected')
         /\ redo' \in Seq(Files) /\ delayed' \in Seq(Files) /\ success' \subseteq Files
         /\ outcome' \in {"none", "ok", "err"} /\ npc' \in {npc, onErr}
         /\ expected # << >> => Oldest \in Files
<1> DEFINE r == Head(resultQ)
<1>1. resultQ' \in Seq(Results) /\ r \in Results
  BY ElemsTail DEF Types, HandleResult
<1>2. CASE expected = << >>
  BY <1>1, <1>2, SMTT(60) DEF Types, HandleResult, PopExpected, Mismatch
<1>3. CASE expected # << >>
  <2>1. Oldest \in Files /\ expected' \in Seq(Files) /\ Len(expected') = Len(expected) - 1
        /\ Len(expected) \in Nat \ {0}
    BY <1>3, ElemsTail, SMTT(60) DEF Types, HandleResult, PopExpected, Oldest
  <2>2. redo' \in Seq(Files) /\ delayed' \in Seq(Files) /\ success' \subseteq Files
    BY <2>1, SMTT(60) DEF Types, HandleResult
  <2>3. pending' = Len(expected')
    BY <2>1, SMTT(60) DEF Types, HandleResult
  <2>4. outcome' \in {"none", "ok", "err"} /\ npc' \in {npc, onErr}
    BY DEF Types, HandleResult
  <2>5. QED
    BY <1>1, <2>1, <2>2, <2>3, <2>4
<1>4. QED
  BY <1>2, <1>3
\* A file's paths other than the ones named keep their contents, and so does
\* every other file.
LEMMA DropFacts ==
  ASSUME Types, dfile \in Files, fs' = DropTemp
  PROVE  /\ fs' \in [Files -> [Fields -> Contents]]
         /\ \A g \in Files : g # dfile => fs'[g] = fs[g]
         /\ fs'[dfile].temp = "none" /\ fs'[dfile].dest = fs[dfile].dest
         /\ fs'[dfile].backup = fs[dfile].backup /\ fs'[dfile].staged = fs[dfile].staged
         /\ fs'[dfile].had = fs[dfile].had
BY DEF Types, DropTemp, SetFs, Fields, Contents

LEMMA RetainFacts ==
  ASSUME Types, dfile \in Files, Retain
  PROVE  /\ fs' \in [Files -> [Fields -> Contents]]
         /\ \A g \in Files : g # dfile => fs'[g] = fs[g]
         /\ fs'[dfile].temp = "none"
         /\ fs'[dfile].dest = fs[dfile].dest \/ cfg.partial = "partial"
         /\ fs'[dfile].backup = fs[dfile].backup /\ fs'[dfile].staged = fs[dfile].staged
         /\ fs'[dfile].had = fs[dfile].had
<1>0. fs \in [Files -> [Fields -> Contents]]
  BY DEF Types
<1>1. CASE fs' = DropTemp
  BY <1>1, DropFacts
<1>2. CASE cfg.partial = "partial" /\ fs' = MoveFs(dfile, "temp", "dest")
  BY <1>0, <1>2 DEF MoveFs, Fields, Contents
<1>3. CASE cfg.partial = "dir" /\ fs' = MoveFs(dfile, "temp", "partial")
  BY <1>0, <1>3 DEF MoveFs, Fields, Contents
<1>4. QED
  BY <1>1, <1>2, <1>3 DEF Retain

LEMMA ResultTypes ==
  ASSUME Types
  PROVE  /\ \A kind \in ErrorKinds, f \in 0..NumFiles :
               /\ ErrResult(kind, f) \in Results
               /\ ~ErrResult(kind, f).ok /\ ErrResult(kind, f).kind = kind
               /\ ErrResult(kind, f).src = f
         /\ \A d, m \in BOOLEAN :
               /\ OkResult(d, m) \in Results /\ OkResult(d, m).ok
               /\ OkResult(d, m).kind = "other" /\ OkResult(d, m).src = dfile
               /\ OkResult(d, m).digest = IF dgood THEN dfile ELSE 0
               /\ OkResult(d, m).delayed = d
<1>1. 0 \in 0..NumFiles
  BY DiskAssumption, SMTT(60)
<1>2. dfile \in 0..NumFiles /\ dgood \in BOOLEAN
  BY DEF Types
<1>3. QED
  BY <1>1, <1>2 DEF Results, ErrResult, OkResult, NoResult, ErrorKinds
\* Every step of the disk thread keeps the types, and changes the paths of no
\* file but the one at hand.
LEMMA DiskStepTypes ==
  ASSUME Types, Disk
  PROVE  /\ Types' /\ UNCHANGED <<cfg, npc, netVars>>
         /\ \A g \in Files : g # dfile => fs'[g] = fs[g]
         /\ \A g \in Files : fs'[g].had = fs[g].had
<1> DEFINE Shape == [Files -> [Fields -> Contents]]
           Others == /\ \A g \in Files : g # dfile => fs'[g] = fs[g]
                     /\ \A g \in Files : fs'[g].had = fs[g].had
<1>a. /\ cfg \in Configs /\ fs \in Shape /\ dpc \in DiskPlaces /\ dfile \in 0..NumFiles
      /\ dgood \in BOOLEAN /\ dres \in Results /\ resultQ \in Seq(Results)
      /\ fileQ \in Seq(FileMsgs) /\ Queued \subseteq Files /\ (Busy => dfile \in Files)
  BY DEF Types
<1>b. \A op \in Operations : KindsOf(op) \subseteq {"perm", "other"}
  BY <1>a, OptionFacts
<1>c. dpc \in DiskPlaces \ {"idle", "exited", "send"} => dfile \in Files
  BY <1>a DEF Busy, DiskPlaces
<1>d. \A kind \in {"perm", "other", "intr", "stray"}, f \in 0..NumFiles : ErrResult(kind, f) \in Results
  BY ResultTypes DEF ErrorKinds
<1>e. \A d, m \in BOOLEAN : OkResult(d, m) \in Results
  BY ResultTypes
<1>f. \A op : May(op) \in BOOLEAN
  BY DEF May
<1>g. SUFFICES /\ UNCHANGED <<cfg, npc, netVars>>
               /\ fileQ' = fileQ \/ (fileQ # << >> /\ fileQ' = Tail(fileQ))
               /\ resultQ' \in Seq(Results) /\ dpc' \in DiskPlaces /\ dfile' \in 0..NumFiles
               /\ dgood' \in BOOLEAN /\ dres' \in Results /\ fs' \in Shape
               /\ Busy' => dfile' \in Files
               /\ Others
  BY DiskTypes
<1>1. CASE DiskRecv
  <2>1. /\ Head(fileQ) \in FileMsgs
        /\ Head(fileQ).type \in Starting => Head(fileQ).file \in Files
    BY <1>1, <1>a, QueueTail DEF DiskRecv
  <2>2. CASE Head(fileQ).type \in {"chunk", "commit", "abort"} /\ Finish(ErrResult("stray", Head(fileQ).file))
             /\ UNCHANGED <<dfile, dwhole, dbytes, dgood>>
    <3>1. ErrResult("stray", Head(fileQ).file) \in Results
          /\ ErrResult("stray", Head(fileQ).file).kind = "stray"
      BY <2>1, ResultTypes, ZenonT(60) DEF FileMsgs, ErrorKinds
    <3>2. QED
      BY <1>1, <1>a, <2>2, <3>1 DEF DiskRecv, Finish, Busy, DiskPlaces
  <2>3. QED
    BY <1>1, <1>a, <2>1, <2>2 DEF DiskRecv, FileMsgs, Starting, Busy, DiskPlaces
<1>2. CASE InplaceBackup
  <2>1. dfile \in Files
    BY <1>2, <1>c DEF InplaceBackup, DiskPlaces
  <2>2. CASE fs' = SetFs(dfile, "backup", fs[dfile].dest) /\ dpc' = "open" /\ UNCHANGED dres
    BY <1>2, <1>a, <2>1, <2>2 DEF InplaceBackup, SetFs, Fields, DiskPlaces
  <2>3. CASE \E kind \in KindsOf("backup") : Finish(ErrResult(kind, dfile)) /\ UNCHANGED fs
    BY <1>2, <1>a, <1>b, <1>d, <2>1, <2>3 DEF InplaceBackup, Operations, Finish, DiskPlaces
  <2>4. CASE dpc' = "open" /\ UNCHANGED <<dres, fs>>
    BY <1>2, <1>a, <2>1, <2>4 DEF InplaceBackup, DiskPlaces
  <2>5. QED
    BY <1>2, <2>2, <2>3, <2>4 DEF InplaceBackup
<1>3. CASE OpenOutput
  <2>1. dfile \in Files
    BY <1>3, <1>c DEF OpenOutput, DiskPlaces
  <2>2. CASE dpc' = "setup" /\ UNCHANGED dres
    <3>1. \/ fs' = SetFs(dfile, "temp", "short") \/ fs' = SetFs(dfile, "dest", "short")
          \/ fs' = fs
      BY <1>3, <2>2 DEF OpenOutput, AfterOpenError
    <3>2. fs' \in Shape /\ Others
      <4>1. CASE fs' = SetFs(dfile, "temp", "short")
        BY <1>a, <2>1, <4>1 DEF SetFs, Fields, Contents
      <4>2. CASE fs' = SetFs(dfile, "dest", "short")
        BY <1>a, <2>1, <4>2 DEF SetFs, Fields, Contents
      <4>3. CASE fs' = fs
        BY <1>a, <4>3
      <4>4. QED
        BY <3>1, <4>1, <4>2, <4>3
    <3>3. QED
      BY <1>3, <1>a, <2>1, <2>2, <3>2 DEF OpenOutput, DiskPlaces
  <2>3. CASE UNCHANGED fs
    BY <1>3, <1>a, <1>b, <1>d, <2>1, <2>3 DEF OpenOutput, AfterOpenError, Operations, DiskPlaces
  <2>4. QED
    BY <1>3, <2>2, <2>3 DEF OpenOutput
<1>4. CASE SetupWriter
  <2>1. dfile \in Files
    BY <1>4, <1>c DEF SetupWriter, DiskPlaces
  <2>2. CASE UNCHANGED <<fs, dres>>
    BY <1>4, <1>a, <2>1, <2>2 DEF SetupWriter, DiskPlaces, Finish
  <2>3. CASE fs' = DropTemp /\ \E kind \in KindsOf("setup") : Finish(ErrResult(kind, dfile))
    <3>1. fs' \in Shape /\ Others
      BY <2>1, <2>3, DropFacts
    <3>2. QED
      BY <1>4, <1>a, <1>b, <1>d, <2>1, <2>3, <3>1 DEF SetupWriter, Finish, Operations, DiskPlaces
  <2>4. QED
    BY <1>4, <2>2, <2>3 DEF SetupWriter
<1>5. CASE Discard
  <2>1. dfile \in Files
    BY <1>5, <1>c DEF Discard, DiskPlaces
  <2>2. QED
    BY <1>5, <1>a, <1>d, <2>1 DEF Discard, Finish, DiskPlaces
<1>6. CASE FileRecv
  <2>1. dfile \in Files
    BY <1>6, <1>c DEF FileRecv, DiskPlaces
  <2>2. dpc' \in DiskPlaces /\ dres' \in Results
    BY <1>6, <1>a, <1>b, <1>d DEF FileRecv, Finish, Operations, DiskPlaces
  <2>3. fs' \in Shape /\ Others
    <3>1. CASE fs' = SetFs(dfile, Target, "short")
      BY <1>a, <2>1, <3>1 DEF SetFs, Target, Fields, Contents
    <3>2. CASE fs' = DropTemp
      BY <2>1, <3>2, DropFacts
    <3>3. CASE fs' = IF NeedsRename THEN SetFs(dfile, "temp", Complete) ELSE fs
      BY <1>a, <2>1, <3>3 DEF SetFs, Complete, Fields, Contents
    <3>4. CASE Retain
      BY <2>1, <3>4, RetainFacts
    <3>5. QED
      BY <1>6, <3>1, <3>2, <3>3, <3>4 DEF FileRecv, RetainOrDrop
  <2>4. QED
    BY <1>6, <1>a, <2>1, <2>2, <2>3 DEF FileRecv
<1>7. CASE WriteWhole
  <2>1. dfile \in Files
    BY <1>7, <1>c DEF WriteWhole, DiskPlaces
  <2>2. dpc' \in DiskPlaces /\ dres' \in Results
    BY <1>7, <1>a, <1>b, <1>d DEF WriteWhole, Finish, Operations, DiskPlaces
  <2>3. fs' \in Shape /\ Others
    <3>1. CASE fs' = SetFs(dfile, Target, IF NeedsRename THEN Complete ELSE "short")
      BY <1>a, <2>1, <3>1 DEF SetFs, Target, Complete, Fields, Contents
    <3>2. CASE fs' = DropTemp
      BY <2>1, <3>2, DropFacts
    <3>3. QED
      BY <1>7, <3>1, <3>2 DEF WriteWhole
  <2>4. QED
    BY <1>7, <1>a, <2>1, <2>2, <2>3 DEF WriteWhole
<1>8. CASE Verify
  <2>1. dfile \in Files
    BY <1>8, <1>c DEF Verify, DiskPlaces
  <2>2. dpc' \in DiskPlaces /\ dres' \in Results
    BY <1>8, <1>a, <1>e DEF Verify, Finish, DiskPlaces
  <2>3. fs' \in Shape /\ Others
    BY <1>8, <1>a, <2>1, RetainFacts DEF Verify
  <2>4. QED
    BY <1>8, <1>a, <2>1, <2>2, <2>3 DEF Verify
<1>9. CASE CommitBackup
  <2>1. dfile \in Files
    BY <1>9, <1>c DEF CommitBackup, DiskPlaces
  <2>2. dpc' \in DiskPlaces /\ dres' \in Results
    BY <1>9, <1>a, <1>b, <1>d DEF CommitBackup, Finish, Operations, DiskPlaces
  <2>3. fs' \in Shape /\ Others
    <3>1. CASE fs' = MoveFs(dfile, "dest", "backup")
      BY <1>a, <2>1, <3>1 DEF MoveFs, Fields, Contents
    <3>2. CASE fs' = DropTemp
      BY <2>1, <3>2, DropFacts
    <3>3. QED
      BY <1>9, <1>a, <3>1, <3>2 DEF CommitBackup
  <2>4. QED
    BY <1>9, <1>a, <2>1, <2>2, <2>3 DEF CommitBackup
<1>10. CASE CommitRename
  <2>1. dfile \in Files
    BY <1>10, <1>c DEF CommitRename, DiskPlaces
  <2>2. dpc' \in DiskPlaces /\ dres' \in Results
    BY <1>10, <1>a, <1>b, <1>d, <1>e, <1>f DEF CommitRename, Finish, Operations, DiskPlaces
  <2>3. fs' \in Shape /\ Others
    <3>1. CASE fs' = MoveFs(dfile, "temp", "staged")
      BY <1>a, <2>1, <3>1 DEF MoveFs, Fields, Contents
    <3>2. CASE fs' = DropTemp
      BY <2>1, <3>2, DropFacts
    <3>3. CASE fs' = SetFs(dfile, "dest", "short")
      BY <1>a, <2>1, <3>3 DEF SetFs, Fields, Contents
    <3>4. CASE fs' = [fs EXCEPT ![dfile].dest = Complete, ![dfile].temp = "none",
                                ![dfile].partial = IF cfg.partial = "dir" THEN "none" ELSE @]
      BY <1>a, <2>1, <3>4, ZenonT(60) DEF Complete, Fields, Contents
    <3>5. QED
      BY <1>10, <3>1, <3>2, <3>3, <3>4 DEF CommitRename
  <2>4. QED
    BY <1>10, <1>a, <2>1, <2>2, <2>3 DEF CommitRename
<1>11. CASE CommitCopy
  <2>1. dfile \in Files
    BY <1>11, <1>c DEF CommitCopy, DiskPlaces
  <2>2. dpc' \in DiskPlaces /\ dres' \in Results
    <3>1. dres' = OkResult(FALSE, FALSE) \/ \E kind \in KindsOf("copy") : dres' = ErrResult(kind, dfile)
      BY <1>11 DEF CommitCopy, Finish
    <3>2. dpc' = "send"
      BY <1>11 DEF CommitCopy, Finish
    <3>3. QED
      BY <1>a, <1>b, <1>d, <1>e, <3>1, <3>2 DEF Operations, DiskPlaces
  <2>3. fs' \in Shape /\ Others
    <3>1. CASE \E c \in {"short", Complete} : fs' = [fs EXCEPT ![dfile].dest = c, ![dfile].temp = "none"]
      <4>1. PICK c \in {"short", Complete} : fs' = [fs EXCEPT ![dfile].dest = c, ![dfile].temp = "none"]
        BY <3>1
      <4>2. c \in Contents
        BY DEF Complete, Contents
      <4>3. QED
        BY <1>a, <2>1, <4>1, <4>2 DEF Fields, Contents
    <3>2. CASE fs' = [fs EXCEPT ![dfile].dest = Complete, ![dfile].temp = "none",
                                ![dfile].partial = IF cfg.partial = "dir" THEN "none" ELSE @]
      BY <1>a, <2>1, <3>2, ZenonT(60) DEF Complete, Fields, Contents
    <3>3. QED
      BY <1>11, <3>1, <3>2 DEF CommitCopy
  <2>4. QED
    BY <1>11, <1>a, <2>1, <2>2, <2>3 DEF CommitCopy
<1>12. CASE SendResult
  BY <1>12, <1>a, SMTT(60) DEF SendResult, DiskPlaces, Busy
<1>13. QED
  BY <1>1, <1>2, <1>3, <1>4, <1>5, <1>6, <1>7, <1>8, <1>9, <1>10, <1>11, <1>12 DEF Disk

\* Every step of the network thread keeps the types.
LEMMA NetStepTypes ==
  ASSUME Types, Network
  PROVE  Types' /\ cfg' = cfg
<1> DEFINE Shape == [Files -> [Fields -> Contents]]
<1>a. /\ cfg \in Configs /\ fileQ \in Seq(FileMsgs) /\ resultQ \in Seq(Results)
      /\ npc \in NetPlaces /\ pass \in 1..2 /\ todo \in Seq(Files) /\ cur \in 0..NumFiles
      /\ good \in BOOLEAN /\ expected \in Seq(Files) /\ redo \in Seq(Files)
      /\ delayed \in Seq(Files) /\ success \subseteq Files /\ confirmed \subseteq Files
      /\ pending = Len(expected) /\ ioError \in BOOLEAN /\ outcome \in {"none", "ok", "err"}
      /\ (InHand => cur \in Files) /\ Queued \subseteq Files
      /\ (npc = "sweep_rename" => delayed # << >>)
      /\ \A j \in 1..Len(fileQ) : fileQ[j].type = "shutdown" => npc = "join"
  BY DEF Types
<1>b. ASSUME UNCHANGED fileQ, npc = "join" => npc' = "join"
      PROVE  /\ fileQ' \in Seq(FileMsgs) /\ Queued' \subseteq Files
             /\ \A j \in 1..Len(fileQ') : fileQ'[j].type = "shutdown" => npc' = "join"
  BY <1>a, <1>b DEF Queued, Starts
<1>c. ASSUME NEW t \in {"begin", "chunk", "commit", "whole", "abort", "shutdown"}, Send(Msg(t)),
             npc # "join", t \in Starting => cur \in Files, t = "shutdown" => npc' = "join"
      PROVE  /\ fileQ' \in Seq(FileMsgs) /\ Queued' \subseteq Files
             /\ \A j \in 1..Len(fileQ') : fileQ'[j].type = "shutdown" => npc' = "join"
  <2>1. Msg(t) \in FileMsgs /\ Msg(t).type = t /\ Msg(t).file = cur
    BY <1>a, <1>c DEF Msg, FileMsgs
  <2>2. fileQ' = Append(fileQ, Msg(t))
    BY <1>c DEF Send
  <2>3. /\ fileQ' \in Seq(FileMsgs)
        /\ Queued' = IF Msg(t).type \in Starting THEN Queued \cup {Msg(t).file} ELSE Queued
        /\ \A j \in 1..Len(fileQ') :
               \/ j \in 1..Len(fileQ) /\ fileQ'[j] = fileQ[j]
               \/ j = Len(fileQ) + 1 /\ fileQ'[j] = Msg(t)
    BY <1>a, <2>1, <2>2, QueueAppend
  <2>4. Queued' \subseteq Files
    BY <1>a, <1>c, <2>1, <2>3
  <2>5. \A j \in 1..Len(fileQ') : fileQ'[j].type = "shutdown" => npc' = "join"
    BY <1>a, <1>c, <2>1, <2>3
  <2>6. QED
    BY <2>3, <2>4, <2>5
<1>1. CASE StartFile
  <2>1. Head(todo) \in Files /\ Tail(todo) \in Seq(Files)
    BY <1>1, <1>a, ElemsTail DEF StartFile
  <2>2. cur' \in Files /\ cur' \in 0..NumFiles /\ todo' \in Seq(Files)
    BY <1>1, <2>1, SMTT(60) DEF StartFile, Files
  <2>3. good' \in BOOLEAN
    BY <1>1 DEF StartFile, May
  <2>4. npc' \in {"begin", "whole", "shut_drain"} /\ outcome' \in {"none", "ok", "err"} /\ npc # "join"
    BY <1>1, <1>a DEF StartFile, Fail
  <2>5. QED
    BY <1>1, <1>a, <1>b, <2>2, <2>3, <2>4, NetTypes DEF StartFile, NetPlaces
<1>2. CASE SendWhole
  <2>1. npc = "whole" /\ cur \in Files /\ Send(Msg("whole")) /\ NoteCommit
    BY <1>2, <1>a DEF SendWhole, InHand
  <2>2. /\ fileQ' \in Seq(FileMsgs) /\ Queued' \subseteq Files
        /\ \A j \in 1..Len(fileQ') : fileQ'[j].type = "shutdown" => npc' = "join"
    BY <1>c, <2>1
  <2>3. expected' \in Seq(Files) /\ pending' = Len(expected')
    BY <1>a, <2>1, SMTT(60) DEF NoteCommit
  <2>4. QED
    BY <1>2, <1>a, <2>1, <2>2, <2>3, NetTypes DEF SendWhole, NoteCommit, NetPlaces, InHand
<1>3. CASE SendBegin
  <2>1. npc = "begin" /\ cur \in Files /\ Send(Msg("begin"))
    BY <1>3, <1>a DEF SendBegin, InHand
  <2>2. /\ fileQ' \in Seq(FileMsgs) /\ Queued' \subseteq Files
        /\ \A j \in 1..Len(fileQ') : fileQ'[j].type = "shutdown" => npc' = "join"
    BY <1>c, <2>1
  <2>3. QED
    BY <1>3, <1>a, <2>1, <2>2, NetTypes DEF SendBegin, netVars, NetPlaces
<1>4. CASE SendChunk
  <2>1. npc = "stream" /\ Send(Msg("chunk"))
    BY <1>4 DEF SendChunk
  <2>2. /\ fileQ' \in Seq(FileMsgs) /\ Queued' \subseteq Files
        /\ \A j \in 1..Len(fileQ') : fileQ'[j].type = "shutdown" => npc' = "join"
    BY <1>c, <2>1 DEF Starting
  <2>3. QED
    BY <1>4, <1>a, <2>1, <2>2, NetTypes DEF SendChunk, InHand
<1>5. CASE SendCommit
  <2>1. npc = "stream" /\ cur \in Files /\ Send(Msg("commit")) /\ NoteCommit
    BY <1>5, <1>a DEF SendCommit, InHand
  <2>2. /\ fileQ' \in Seq(FileMsgs) /\ Queued' \subseteq Files
        /\ \A j \in 1..Len(fileQ') : fileQ'[j].type = "shutdown" => npc' = "join"
    BY <1>c, <2>1 DEF Starting
  <2>3. expected' \in Seq(Files) /\ pending' = Len(expected')
    BY <1>a, <2>1, SMTT(60) DEF NoteCommit
  <2>4. QED
    BY <1>5, <1>a, <2>1, <2>2, <2>3, NetTypes DEF SendCommit, NoteCommit, NetPlaces, InHand
<1>6. CASE StreamError
  <2>1. npc = "stream" /\ Fail
    BY <1>6 DEF StreamError
  <2>2. /\ fileQ' \in Seq(FileMsgs) /\ Queued' \subseteq Files
        /\ \A j \in 1..Len(fileQ') : fileQ'[j].type = "shutdown" => npc' = "join"
    <3>1. CASE Send(Msg("abort"))
      BY <1>c, <2>1, <3>1 DEF Starting
    <3>2. CASE UNCHANGED fileQ
      BY <1>b, <2>1, <3>2
    <3>3. QED
      BY <1>6, <3>1, <3>2 DEF StreamError
  <2>3. QED
    BY <1>6, <1>a, <2>1, <2>2, NetTypes DEF StreamError, Fail, NetPlaces, InHand
<1>7. CASE DrainReady
  <2>1. CASE resultQ # << >> /\ HandleResult(Head(resultQ), "shut_drain") /\ UNCHANGED confirmed
    BY <1>7, <1>a, <1>b, <2>1, HandleTypes, NetTypes DEF DrainReady, NetPlaces, InHand
  <2>2. CASE resultQ = << >> /\ EmitSuccess /\ npc' = "next"
             /\ UNCHANGED <<resultQ, pending, expected, delayed, redo, failed, metaErrs, outcome>>
    BY <1>7, <1>a, <1>b, <2>2, NetTypes DEF DrainReady, EmitSuccess, NetPlaces, InHand
  <2>3. QED
    BY <1>7, <2>1, <2>2 DEF DrainReady
<1>8. CASE LoopEnd
  BY <1>8, <1>a, <1>b, NetTypes DEF LoopEnd, netVars, NetPlaces, InHand
<1>9. CASE DrainAll
  <2>1. CASE pending > 0 /\ resultQ # << >> /\ HandleResult(Head(resultQ), "shut_drain") /\ UNCHANGED confirmed
    BY <1>9, <1>a, <1>b, <2>1, HandleTypes, NetTypes DEF DrainAll, NetPlaces, InHand
  <2>2. CASE EmitSuccess /\ npc' = "shut_drain" /\ outcome' = "ok"
             /\ UNCHANGED <<resultQ, pending, expected, delayed, redo, failed, metaErrs>>
    BY <1>9, <1>a, <1>b, <2>2, NetTypes DEF DrainAll, EmitSuccess, NetPlaces, InHand
  <2>3. QED
    BY <1>9, <2>1, <2>2 DEF DrainAll
<1>10. CASE ShutdownDrain
  <2>1. CASE pending > 0 /\ resultQ # << >> /\ HandleResult(Head(resultQ), "shut_send")
    BY <1>10, <1>a, <1>b, <2>1, HandleTypes, NetTypes DEF ShutdownDrain, NetPlaces, InHand
  <2>2. CASE npc' = "shut_send" /\ UNCHANGED <<resultQ, pending, expected, delayed, redo, failed, success,
                         metaErrs, outcome>>
    BY <1>10, <1>a, <1>b, <2>2, NetTypes DEF ShutdownDrain, NetPlaces, InHand
  <2>3. QED
    BY <1>10, <2>1, <2>2 DEF ShutdownDrain
<1>11. CASE SendShutdown
  <2>1. npc = "shut_send" /\ Send(Msg("shutdown")) /\ npc' = "join"
    BY <1>11 DEF SendShutdown
  <2>2. /\ fileQ' \in Seq(FileMsgs) /\ Queued' \subseteq Files
        /\ \A j \in 1..Len(fileQ') : fileQ'[j].type = "shutdown" => npc' = "join"
    BY <1>c, <2>1 DEF Starting
  <2>3. QED
    BY <1>11, <1>a, <2>1, <2>2, NetTypes DEF SendShutdown, netVars, NetPlaces, InHand
<1>12. CASE Join
  <2>1. fileQ' = << >> /\ resultQ' = << >> /\ expected' = << >> /\ redo' = << >>
    BY <1>12 DEF Join
  <2>2. Queued' = {} /\ \A j \in 1..Len(fileQ') : fileQ'[j].type = "shutdown" => npc' = "join"
    BY <2>1, SMTT(60) DEF Queued, Starts
  <2>3. npc' \in NetPlaces /\ ~InHand' /\ pass' \in 1..2 /\ todo' \in Seq(Files)
        /\ outcome' \in {"none", "ok", "err"} /\ dpc' \in {"idle", "exited"}
    BY <1>12, <1>a, SMTT(60) DEF Join, NetPlaces, InHand
  <2>4. QED
    BY <1>12, <2>1, <2>2, <2>3, SMTT(60) DEF Join, Types, Busy, DiskPlaces
<1>13. CASE SweepBackup
  <2>1. Head(delayed) \in Files
    BY <1>13, <1>a, ElemsTail DEF SweepBackup
  <2>2. fs' \in Shape
    <3>1. fs' = fs \/ fs' = MoveFs(Head(delayed), "dest", "backup")
      BY <1>13 DEF SweepBackup
    <3>2. QED
      BY <2>1, <3>1, MoveFacts DEF Types, Fields
  <2>3. ioError' \in BOOLEAN
    BY <1>13, <1>a DEF SweepBackup
  <2>4. QED
    BY <1>13, <1>b, <2>2, <2>3 DEF SweepBackup, Types, diskVars, Busy, InHand, NetPlaces
<1>14. CASE SweepRename
  <2>1. Head(delayed) \in Files /\ Tail(delayed) \in Seq(Files)
    BY <1>14, <1>a, ElemsTail DEF SweepRename
  <2>2. fs' \in Shape
    <3>1. fs' = fs \/ fs' = MoveFs(Head(delayed), "staged", "dest")
      BY <1>14 DEF SweepRename
    <3>2. QED
      BY <2>1, <3>1, MoveFacts DEF Types, Fields
  <2>3. ioError' \in BOOLEAN /\ delayed' \in Seq(Files)
    BY <1>14, <1>a, <2>1 DEF SweepRename
  <2>4. QED
    BY <1>14, <1>b, <2>2, <2>3 DEF SweepRename, Types, diskVars, Busy, InHand, NetPlaces
<1>15. CASE SweepEnd
  BY <1>15, <1>a, <1>b, NetTypes DEF SweepEnd, netVars, NetPlaces, InHand
<1>17. CASE Stop
  <2>1. << >> \in Seq(Files)
    BY SMTT(60)
  <2>2. QED
    BY <1>17, <1>a, <1>b, <2>1, NetTypes DEF Stop, NetPlaces, InHand
<1>16. QED
  BY <1>1, <1>2, <1>3, <1>4, <1>5, <1>6, <1>7, <1>8, <1>9, <1>10, <1>11, <1>12, <1>13,
     <1>14, <1>15, <1>17 DEF Network

LEMMA InitTypes ==
  ASSUME Init
  PROVE  Types
<1>1. fileQ = << >> /\ Queued = {} /\ resultQ \in Seq(Results)
  BY SMTT(60) DEF Init, Queued, Starts
<1>2. todo \in Seq(Files)
  BY DiskAssumption, SMTT(60) DEF Init, Files
<1>3. fs \in [Files -> [Fields -> Contents]]
  BY SMTT(60) DEF Init, Fields, Contents
<1>4. dres \in Results /\ cur \in 0..NumFiles
  BY DiskAssumption, SMTT(60) DEF Init, NoResult, Results, ErrorKinds
<1>5. /\ npc = "next" /\ pass = 1 /\ expected = << >> /\ redo = << >>
      /\ delayed = << >> /\ success = {} /\ confirmed = {} /\ pending = Len(expected)
      /\ outcome = "none" /\ dpc = "idle" /\ dfile = cur /\ cfg \in Configs
  BY DEF Init
<1>5a. good \in BOOLEAN /\ ioError \in BOOLEAN /\ dgood \in BOOLEAN
  BY DEF Init
<1>5b. fileQ \in Seq(FileMsgs) /\ \A j \in 1..Len(fileQ) : fileQ[j].type = "shutdown" => npc = "join"
  BY <1>1, SMTT(60)
<1>6. ~Busy /\ ~InHand
  BY <1>5 DEF Busy, InHand
<1>7. QED
  BY <1>1, <1>2, <1>3, <1>4, <1>5, <1>5a, <1>5b, <1>6, SMTT(60) DEF Types, NetPlaces, DiskPlaces

-----------------------------------------------------------------------------
(* Temp files, and what may be seen at a destination.                         *)

\* The network thread touches neither the disk thread nor the files, except for the
\* new thread of the redo pass and the sweep.
LEMMA NetFrame ==
  ASSUME Network, ~Join, ~SweepBackup, ~SweepRename
  PROVE  UNCHANGED <<cfg, diskVars, fs>>
BY DEF Network, StartFile, SendWhole, SendBegin, SendChunk, SendCommit, StreamError, DrainReady,
       Stop, LoopEnd, DrainAll, ShutdownDrain, SendShutdown, SweepEnd

FileInv == TempInv /\ NoTornDestination

LEMMA DiskStepFiles ==
  ASSUME Types, FileInv, Disk
  PROVE  FileInv'
<1> DEFINE Torn == ~cfg.inplace /\ ~cfg.crossdev /\ cfg.partial /= "partial"
<1>a. /\ Types' /\ cfg' = cfg /\ \A g \in Files : g # dfile => fs'[g] = fs[g]
  BY DiskStepTypes
<1>b. /\ fs \in [Files -> [Fields -> Contents]] /\ dpc \in DiskPlaces /\ dgood \in BOOLEAN
  BY DEF Types
<1>c. dpc \in DiskPlaces \ {"idle", "exited", "send"} => dfile \in Files
  BY DEF Types, Busy, DiskPlaces
<1>d. ASSUME UNCHANGED <<dfile, dgood>>, dfile \in Files,
             fs'[dfile].temp = "none"
               \/ (NeedsRename /\ dpc' \in {"setup", "file", "write", "verify", "commit", "rename", "copy"}),
             (NeedsRename /\ dpc' \in {"verify", "commit", "rename", "copy"}) => fs'[dfile].temp = Complete,
             (NeedsRename /\ dpc' \in {"commit", "rename", "copy"}) => dgood,
             dpc' = "copy" => NeedsRename /\ cfg.crossdev /\ ~cfg.delay,
             fs'[dfile].staged \in {"none", "new"},
             Torn => fs'[dfile].dest \in {"none", "old", "new"}
      PROVE  FileInv'
  <2>1. \A g \in Files \ {dfile} : fs'[g].temp = "none"
    BY <1>a DEF FileInv, TempInv
  <2>2. TempInv'
    BY <1>a, <1>d, <2>1 DEF FileInv, TempInv, NeedsRename, Complete
  <2>3. NoTornDestination'
    BY <1>a, <1>d DEF FileInv, NoTornDestination
  <2>4. QED
    BY <2>2, <2>3 DEF FileInv
<1>e. ASSUME UNCHANGED <<dfile, dgood, fs>>, dfile \in Files,
             dpc' \in {"open", "send", "discard", "idle"}, dpc \notin {"setup", "file", "write", "verify", "commit", "rename", "copy"}
      PROVE  FileInv'
  BY <1>a, <1>e DEF FileInv, TempInv, NoTornDestination, NeedsRename
<1>1. CASE DiskRecv
  BY <1>1, <1>a DEF DiskRecv, Finish, FileInv, TempInv, NoTornDestination, NeedsRename, Complete
<1>2. CASE InplaceBackup
  <2>1. dfile \in Files /\ UNCHANGED <<dfile, dgood>>
    BY <1>2, <1>c DEF InplaceBackup, DiskPlaces
  <2>2. CASE fs' = SetFs(dfile, "backup", fs[dfile].dest) /\ dpc' = "open"
    <3>1. fs'[dfile].temp = fs[dfile].temp /\ fs'[dfile].staged = fs[dfile].staged
          /\ fs'[dfile].dest = fs[dfile].dest
      BY <1>b, <2>1, <2>2 DEF SetFs, Fields
    <3>2. QED
      BY <1>2, <1>d, <2>1, <2>2, <3>1 DEF InplaceBackup, FileInv, TempInv, NoTornDestination
  <2>3. QED
    BY <1>2, <1>e, <2>1, <2>2 DEF InplaceBackup, Finish
<1>3. CASE OpenOutput
  <2>1. dfile \in Files /\ UNCHANGED <<dfile, dgood>>
    BY <1>3, <1>c DEF OpenOutput, DiskPlaces
  <2>2. CASE fs' = fs /\ dpc' # "setup"
    BY <1>3, <1>e, <2>1, <2>2 DEF OpenOutput, AfterOpenError
  <2>3. CASE dpc' = "setup" /\ fs' = IF NeedsRename THEN SetFs(dfile, "temp", "short")
                   ELSE IF fs[dfile].dest = "none" THEN SetFs(dfile, "dest", "short")
                   ELSE fs
    <3>1. CASE NeedsRename
      <4>1. fs'[dfile].staged = fs[dfile].staged /\ fs'[dfile].dest = fs[dfile].dest
        BY <1>b, <2>1, <2>3, <3>1 DEF SetFs, Fields
      <4>2. QED
        BY <1>d, <2>1, <2>3, <3>1, <4>1 DEF FileInv, TempInv, NoTornDestination
    <3>2. CASE ~NeedsRename
      <4>1. fs'[dfile].staged = fs[dfile].staged /\ fs'[dfile].temp = fs[dfile].temp
        BY <1>b, <2>1, <2>3, <3>2 DEF SetFs, Fields
      <4>2. QED
        BY <1>d, <2>1, <2>3, <3>2, <4>1 DEF FileInv, TempInv, NeedsRename
    <3>3. QED
      BY <3>1, <3>2
  <2>4. QED
    BY <1>3, <2>2, <2>3 DEF OpenOutput, AfterOpenError
<1>4. CASE SetupWriter
  <2>1. dfile \in Files /\ UNCHANGED <<dfile, dgood>>
    BY <1>4, <1>c DEF SetupWriter, DiskPlaces
  <2>2. CASE fs' = DropTemp /\ dpc' = "send"
    BY <1>d, <2>1, <2>2, DropFacts DEF FileInv, TempInv, NoTornDestination
  <2>3. CASE UNCHANGED fs /\ dpc' \in {"write", "file"}
    BY <1>d, <2>1, <2>3 DEF FileInv, TempInv, NoTornDestination
  <2>4. QED
    BY <1>4, <2>2, <2>3 DEF SetupWriter, Finish
<1>5. CASE Discard
  BY <1>5, <1>c, <1>a DEF Discard, Finish, FileInv, TempInv, NoTornDestination, NeedsRename
<1>6. CASE FileRecv
  <2>1. dfile \in Files /\ UNCHANGED <<dfile, dgood>> /\ dpc = "file"
    BY <1>6, <1>c DEF FileRecv, DiskPlaces
  <2>2. CASE fs' = DropTemp /\ dpc' = "send"
    BY <1>d, <2>1, <2>2, DropFacts DEF FileInv, TempInv, NoTornDestination
  <2>3. CASE Retain /\ dpc' = "send"
    BY <1>d, <2>1, <2>3, RetainFacts DEF FileInv, TempInv, NoTornDestination
  <2>4. CASE fs' = SetFs(dfile, Target, "short") /\ dpc' = dpc
    <3>1. CASE NeedsRename
      <4>1. fs'[dfile].staged = fs[dfile].staged /\ fs'[dfile].dest = fs[dfile].dest
        BY <1>b, <2>1, <2>4, <3>1 DEF SetFs, Fields, Target
      <4>2. QED
        BY <1>d, <2>1, <2>4, <3>1, <4>1 DEF FileInv, TempInv, NoTornDestination
    <3>2. CASE ~NeedsRename
      <4>1. fs'[dfile].staged = fs[dfile].staged /\ fs'[dfile].temp = fs[dfile].temp
        BY <1>b, <2>1, <2>4, <3>2 DEF SetFs, Fields, Target
      <4>2. QED
        BY <1>d, <2>1, <2>4, <3>2, <4>1 DEF FileInv, TempInv, NeedsRename
    <3>3. QED
      BY <3>1, <3>2
  <2>5. CASE dpc' = "verify" /\ fs' = IF NeedsRename THEN SetFs(dfile, "temp", Complete) ELSE fs
    <3>1. fs'[dfile].staged = fs[dfile].staged /\ fs'[dfile].dest = fs[dfile].dest
          /\ fs'[dfile].temp = IF NeedsRename THEN Complete ELSE fs[dfile].temp
      BY <1>b, <2>1, <2>5 DEF SetFs, Fields
    <3>2. QED
      BY <1>d, <2>1, <2>5, <3>1 DEF FileInv, TempInv, NoTornDestination
  <2>6. QED
    BY <1>6, <2>2, <2>3, <2>4, <2>5 DEF FileRecv, RetainOrDrop, Finish
<1>7. CASE WriteWhole
  <2>1. dfile \in Files /\ UNCHANGED <<dfile, dgood>> /\ dpc = "write"
    BY <1>7, <1>c DEF WriteWhole, DiskPlaces
  <2>2. CASE fs' = DropTemp /\ dpc' = "send"
    BY <1>d, <2>1, <2>2, DropFacts DEF FileInv, TempInv, NoTornDestination
  <2>3. CASE dpc' = "verify" /\ fs' = SetFs(dfile, Target, IF NeedsRename THEN Complete ELSE "short")
    <3>1. CASE NeedsRename
      <4>1. fs'[dfile].staged = fs[dfile].staged /\ fs'[dfile].dest = fs[dfile].dest
            /\ fs'[dfile].temp = Complete
        BY <1>b, <2>1, <2>3, <3>1 DEF SetFs, Fields, Target
      <4>2. QED
        BY <1>d, <2>1, <2>3, <3>1, <4>1 DEF FileInv, TempInv, NoTornDestination
    <3>2. CASE ~NeedsRename
      <4>1. fs'[dfile].staged = fs[dfile].staged /\ fs'[dfile].temp = fs[dfile].temp
        BY <1>b, <2>1, <2>3, <3>2 DEF SetFs, Fields, Target
      <4>2. QED
        BY <1>d, <2>1, <2>3, <3>2, <4>1 DEF FileInv, TempInv, NeedsRename
    <3>3. QED
      BY <3>1, <3>2
  <2>4. QED
    BY <1>7, <2>2, <2>3 DEF WriteWhole, Finish
<1>8. CASE Verify
  <2>1. dfile \in Files /\ UNCHANGED <<dfile, dgood>> /\ dpc = "verify"
    BY <1>8, <1>c DEF Verify, DiskPlaces
  <2>2. CASE Retain /\ dpc' = "send"
    BY <1>d, <2>1, <2>2, RetainFacts DEF FileInv, TempInv, NoTornDestination
  <2>3. CASE ~Withheld /\ UNCHANGED fs /\ dpc' = "commit"
    BY <1>b, <1>d, <2>1, <2>3 DEF FileInv, TempInv, NoTornDestination, Withheld
  <2>4. QED
    BY <1>8, <2>2, <2>3 DEF Verify, Finish
<1>9. CASE CommitBackup
  <2>1. dfile \in Files /\ UNCHANGED <<dfile, dgood>> /\ dpc = "commit"
    BY <1>9, <1>c DEF CommitBackup, DiskPlaces
  <2>2. CASE fs' = DropTemp /\ dpc' = "send"
    BY <1>d, <2>1, <2>2, DropFacts DEF FileInv, TempInv, NoTornDestination
  <2>3. CASE dpc' = "rename" /\ fs' = MoveFs(dfile, "dest", "backup")
    <3>1. fs'[dfile].staged = fs[dfile].staged /\ fs'[dfile].dest = "none"
          /\ fs'[dfile].temp = fs[dfile].temp
      BY <1>b, <2>1, <2>3 DEF MoveFs, Fields, Contents
    <3>2. QED
      BY <1>d, <2>1, <2>3, <3>1 DEF FileInv, TempInv
  <2>4. CASE dpc' = "rename" /\ UNCHANGED fs
    BY <1>d, <2>1, <2>4 DEF FileInv, TempInv, NoTornDestination
  <2>5. QED
    BY <1>9, <2>2, <2>3, <2>4 DEF CommitBackup, Finish
<1>10. CASE CommitRename
  <2>1. dfile \in Files /\ UNCHANGED <<dfile, dgood>> /\ dpc = "rename"
    BY <1>10, <1>c DEF CommitRename, DiskPlaces
  <2>2. CASE fs' = DropTemp /\ dpc' = "send"
    BY <1>d, <2>1, <2>2, DropFacts DEF FileInv, TempInv, NoTornDestination
  <2>3. CASE dpc' = "send" /\ NeedsRename /\ fs' = MoveFs(dfile, "temp", "staged")
    <3>1. fs'[dfile].staged = fs[dfile].temp /\ fs'[dfile].dest = fs[dfile].dest
          /\ fs'[dfile].temp = "none"
      BY <1>b, <2>1, <2>3 DEF MoveFs, Fields, Contents
    <3>2. fs[dfile].temp = "new"
      BY <2>1, <2>3 DEF FileInv, TempInv, Complete
    <3>3. QED
      BY <1>d, <2>1, <2>3, <3>1, <3>2 DEF FileInv, NoTornDestination
  <2>4. CASE dpc' = "copy" /\ NeedsRename /\ cfg.crossdev /\ ~cfg.delay /\ fs' = SetFs(dfile, "dest", "short")
    <3>1. fs'[dfile].staged = fs[dfile].staged /\ fs'[dfile].temp = fs[dfile].temp
      BY <1>b, <2>1, <2>4 DEF SetFs, Fields
    <3>2. QED
      BY <1>d, <2>1, <2>4, <3>1 DEF FileInv, TempInv
  <2>5. CASE dpc' = "send" /\
             fs' = [fs EXCEPT ![dfile].dest = Complete, ![dfile].temp = "none",
                              ![dfile].partial = IF cfg.partial = "dir" THEN "none" ELSE @]
    <3>1. fs'[dfile].staged = fs[dfile].staged /\ fs'[dfile].temp = "none"
          /\ fs'[dfile].dest = Complete
      BY <1>b, <2>1, <2>5 DEF Fields
    <3>2. ~cfg.inplace => Complete = "new"
      BY <2>1 DEF FileInv, TempInv, Complete, NeedsRename
    <3>3. QED
      BY <1>d, <2>1, <2>5, <3>1, <3>2 DEF FileInv, TempInv
  <2>6. QED
    BY <1>10, <2>2, <2>3, <2>4, <2>5 DEF CommitRename, Finish
<1>11. CASE CommitCopy
  <2>1. dfile \in Files /\ UNCHANGED <<dfile, dgood>> /\ dpc = "copy" /\ dpc' = "send"
    BY <1>11, <1>c DEF CommitCopy, DiskPlaces, Finish
  <2>2. fs'[dfile].staged = fs[dfile].staged /\ fs'[dfile].temp = "none"
    <3>1. PICK c : \/ fs' = [fs EXCEPT ![dfile].dest = c, ![dfile].temp = "none"]
                   \/ fs' = [fs EXCEPT ![dfile].dest = c, ![dfile].temp = "none",
                                ![dfile].partial = IF cfg.partial = "dir" THEN "none" ELSE @]
      BY <1>11 DEF CommitCopy
    <3>2. QED
      BY <1>b, <2>1, <3>1, SMTT(60) DEF Fields
  <2>3. cfg.crossdev
    BY <2>1 DEF FileInv, TempInv
  <2>4. QED
    BY <1>d, <2>1, <2>2, <2>3 DEF FileInv, TempInv
<1>12. CASE SendResult
  BY <1>12, <1>a DEF SendResult, FileInv, TempInv, NoTornDestination, NeedsRename
<1>13. QED
  BY <1>1, <1>2, <1>3, <1>4, <1>5, <1>6, <1>7, <1>8, <1>9, <1>10, <1>11, <1>12 DEF Disk

LEMMA NetStepFiles ==
  ASSUME Types, FileInv, Network
  PROVE  FileInv'
<1>a. /\ Types' /\ cfg' = cfg /\ fs \in [Files -> [Fields -> Contents]]
  BY NetStepTypes DEF Types
<1>b. dpc \in {"verify", "commit", "rename", "copy"} => dfile \in Files
  BY DEF Types, Busy
<1>1. CASE UNCHANGED <<cfg, diskVars, fs>>
  BY <1>1 DEF FileInv, TempInv, NoTornDestination, NeedsRename, Complete, diskVars
<1>2. CASE Join
  BY <1>2 DEF Join, FileInv, TempInv, NoTornDestination, NeedsRename, Complete
<1>3. CASE SweepBackup
  <2>1. Head(delayed) \in Files /\ UNCHANGED <<cfg, diskVars>>
    BY <1>3, ElemsTail DEF SweepBackup, Types
  <2>2. CASE fs' = MoveFs(Head(delayed), "dest", "backup")
    <3>1. \A g \in Files : /\ fs'[g].temp = fs[g].temp /\ fs'[g].staged = fs[g].staged
                           /\ fs'[g].dest \in {fs[g].dest, "none"}
      BY <1>a, <2>1, <2>2 DEF MoveFs, Fields, Contents
    <3>2. TempInv'
      BY <1>b, <2>1, <3>1 DEF FileInv, TempInv, NeedsRename, Complete, diskVars
    <3>3. NoTornDestination'
      BY <2>1, <3>1 DEF FileInv, TempInv, NoTornDestination
    <3>4. QED
      BY <3>2, <3>3 DEF FileInv
  <2>3. QED
    BY <1>1, <1>3, <2>1, <2>2 DEF SweepBackup
<1>4. CASE SweepRename
  <2>1. Head(delayed) \in Files /\ UNCHANGED <<cfg, diskVars>>
    BY <1>4, ElemsTail DEF SweepRename, Types
  <2>2. CASE fs' = MoveFs(Head(delayed), "staged", "dest")
    <3>1. \A g \in Files : /\ fs'[g].temp = fs[g].temp /\ fs'[g].staged \in {fs[g].staged, "none"}
                           /\ fs'[g].dest \in {fs[g].dest, fs[g].staged}
      BY <1>a, <2>1, <2>2 DEF MoveFs, Fields, Contents
    <3>2. TempInv'
      BY <1>b, <2>1, <3>1 DEF FileInv, TempInv, NeedsRename, Complete, diskVars
    <3>3. NoTornDestination'
      BY <2>1, <3>1 DEF FileInv, TempInv, NoTornDestination
    <3>4. QED
      BY <3>2, <3>3 DEF FileInv
  <2>3. QED
    BY <1>1, <1>4, <2>1, <2>2 DEF SweepRename
<1>5. QED
  BY <1>1, <1>2, <1>3, <1>4, NetFrame

-----------------------------------------------------------------------------
(* The inductive invariant, and what follows from it.                         *)

DiskInv == Types /\ FileInv

LEMMA InitDisk == Init => DiskInv
<1> SUFFICES ASSUME Init PROVE DiskInv
  OBVIOUS
<1>1. \A f \in Files : fs[f].dest \in {"none", "old"} /\ fs[f].temp = "none" /\ fs[f].staged = "none"
  BY SMTT(60) DEF Init
<1>2. FileInv
  BY <1>1 DEF FileInv, TempInv, NoTornDestination, Init
<1>3. QED
  BY <1>2, InitTypes DEF DiskInv

LEMMA StepDisk == DiskInv /\ [Next]_vars => DiskInv'
<1> SUFFICES ASSUME DiskInv, [Next]_vars PROVE DiskInv'
  OBVIOUS
<1>1. CASE Network
  BY <1>1, NetStepTypes, NetStepFiles DEF DiskInv
<1>2. CASE Disk
  BY <1>2, DiskStepTypes, DiskStepFiles DEF DiskInv
<1>3. CASE UNCHANGED vars
  BY <1>3, SMTT(60) DEF DiskInv, vars, netVars, diskVars, Types, FileInv, TempInv, NoTornDestination,
       Busy, InHand, Queued, Starts, NeedsRename, Complete
<1>4. QED
  BY <1>1, <1>2, <1>3 DEF Next, Done

LEMMA DiskInvHolds == Spec => []DiskInv
BY InitDisk, StepDisk, PTL DEF Spec

\* Whenever the process might be killed, the destination of a file written through a
\* temp file is its old version, the verified new one, or missing (commit_file,
\* withhold_failed_commit, retain_partial_file), whatever fails and in whichever
\* order the two threads run.
THEOREM DestinationNeverTorn == Spec => []NoTornDestination
<1>1. DiskInv => NoTornDestination
  BY DEF DiskInv, FileInv
<1>2. QED
  BY <1>1, DiskInvHolds, PTL

\* Every way out of process_file and process_whole_file removes its temp file or
\* renames it (TempFileGuard): between two files the disk thread has none on disk.
THEOREM TempFilesAreRemoved == Spec => []NoTempLeftBehind
<1>1. DiskInv => NoTempLeftBehind
  BY DEF DiskInv, FileInv, TempInv, NoTempLeftBehind
<1>2. QED
  BY <1>1, DiskInvHolds, PTL

-----------------------------------------------------------------------------
(* The order of files, messages and results *)

Increasing(s) == \A i, j \in 1..Len(s) : i < j => s[i] < s[j]

Rest == {"chunk", "commit", "abort"}

\* The files of this pass the disk thread has not been told of, the ones it has
\* been told of and not answered, and both: what this pass may still write.
Unsent == Elems(todo) \cup (IF npc \in Starting THEN {cur} ELSE {})
InDisk == Queued \cup (IF Busy THEN {dfile} ELSE {})
Ahead == Unsent \cup InDisk

\* The files of this pass whose result the network thread has not handled.
Open == Elems(expected) \cup (IF InHand THEN {cur} ELSE {}) \cup Elems(todo)

\* Files move through the pipeline in list order: on the network thread, and from
\* it to the disk thread.
ListOrder ==
    /\ Increasing(todo) /\ Increasing(expected) /\ Increasing(redo)
    /\ InHand => \A g \in Elems(todo) : cur < g
    /\ \A f \in Elems(expected) : (InHand => f < cur) /\ \A g \in Elems(todo) : f < g
    /\ \A f \in Elems(redo), g \in Open : f < g
    /\ pass = 2 => redo = << >>

QueueOrder ==
    /\ \A f \in InDisk : (\A g \in Unsent : f < g) /\ (npc = "stream" => f <= cur)
    /\ Busy => \A f \in Queued : dfile < f
    /\ \A j, k \in Starts : j < k => fileQ[j].file < fileQ[k].file

\* Where the network thread is when the loop has not returned, and after it has.
Loop == {"next", "begin", "whole", "stream", "drain", "drain_all"}
After == {"shut_drain", "shut_send", "join", "sweep_backup", "sweep_rename", "done"}
Phase ==
    /\ outcome = "none" => npc \in Loop
    /\ outcome # "none" => npc \in After
    /\ outcome = "ok" => expected = << >> /\ todo = << >> /\ success = {}
    /\ npc = "drain_all" => todo = << >>
    /\ npc \in {"sweep_backup", "sweep_rename"} => outcome = "ok"
    /\ npc \in {"sweep_backup", "sweep_rename", "done"} =>
          redo = << >> /\ resultQ = << >> /\ dpc = "exited"

\* The disk thread is between files and the rest of the last one is still to come:
\* it ended early.
LeftOver == IF fileQ = << >> THEN npc = "stream" ELSE Head(fileQ).type \in Rest

\* No error yet that ends the loop, in a list or under way.
Clean ==
    /\ outcome # "err"
    /\ \A i \in 1..Len(resultQ) : ~Fatal(resultQ[i])
    /\ ~(dpc = "send" /\ dres.kind = "stray")
    /\ ~(dpc = "idle" /\ LeftOver)

\* The files the disk thread owes a result, by the network thread's books.
Owing == {expected[i] : i \in Len(resultQ) + 1 .. Len(expected)}
Out == Owing \cup (IF npc = "stream" THEN {cur} ELSE {})

\* The result under way is about the file at hand, unless its message was nobody's.
Answer ==
    /\ dres.ok => dres.kind # "stray"
    /\ dpc = "discard" => ~dres.ok /\ dres.kind # "stray"
    /\ (dpc \in {"discard", "send"} /\ dres.kind # "stray") => dres.src = dfile

\* Results come in the order the commits were noted.
Matched ==
    outcome # "err" => \A i \in 1..Len(resultQ) :
        ((\A j \in 1..i - 1 : ~Fatal(resultQ[j])) /\ resultQ[i].kind # "stray") =>
            \/ i <= Len(expected) /\ resultQ[i].src = expected[i]
            \/ i = Len(expected) + 1 /\ npc = "stream" /\ resultQ[i].src = cur

Owed == Clean => Len(resultQ) <= Len(expected) /\ Out = InDisk
Aligned == Matched /\ Owed

-----------------------------------------------------------------------------
\* An increasing sequence loses its smallest element, or gains a greater one.
LEMMA IncreasingTail ==
  ASSUME NEW s \in Seq(Files), s # << >>, Increasing(s)
  PROVE  Increasing(Tail(s)) /\ \A x \in Elems(Tail(s)) : Head(s) < x
<1>1. /\ Len(s) \in Nat \ {0} /\ Len(Tail(s)) = Len(s) - 1 /\ Head(s) = s[1]
      /\ \A i \in 1..Len(s) - 1 : Tail(s)[i] = s[i + 1]
  BY SMTT(60)
<1>2. Increasing(Tail(s))
  BY <1>1, SMTT(60) DEF Increasing
<1>3. ASSUME NEW x \in Elems(Tail(s)) PROVE Head(s) < x
  <2>1. PICK i \in 1..Len(s) - 1 : x = s[i + 1]
    BY <1>1, <1>3 DEF Elems
  <2>2. 1 \in 1..Len(s) /\ i + 1 \in 1..Len(s) /\ 1 < i + 1
    BY <1>1, SMTT(60)
  <2>3. QED
    BY <1>1, <2>1, <2>2 DEF Increasing
<1>4. QED
  BY <1>2, <1>3

LEMMA IncreasingAppend ==
  ASSUME NEW s \in Seq(Files), NEW x \in Files, Increasing(s), \A y \in Elems(s) : y < x
  PROVE  Increasing(Append(s, x))
<1>1. /\ Len(Append(s, x)) = Len(s) + 1 /\ Len(s) \in Nat
      /\ Append(s, x)[Len(s) + 1] = x
      /\ \A i \in 1..Len(s) : Append(s, x)[i] = s[i] /\ s[i] \in Elems(s)
  BY SMTT(60) DEF Elems
<1>2. QED
  BY <1>1, SMTT(60) DEF Increasing
-----------------------------------------------------------------------------
(* The order of the files.                                                    *)

\* What handling a result does to the lists.
LEMMA HandleLists ==
  ASSUME Types, resultQ # << >>, NEW onErr \in {"shut_drain", "shut_send"},
         HandleResult(Head(resultQ), onErr)
  PROVE  \/ expected = << >> /\ expected' = << >> /\ redo' = redo /\ delayed' = delayed
            /\ success' = success
         \/ /\ expected # << >> /\ expected' = Tail(expected) /\ Head(expected) \in Files
            /\ Elems(expected) = {Head(expected)} \cup Elems(expected')
            /\ redo' = redo \/ (pass = 1 /\ redo' = Append(redo, Head(expected)))
            /\ success' \in {success, success \cup {Head(expected)}}
            /\ delayed' \in {delayed, Append(delayed, Head(expected))}
<1>1. CASE expected = << >>
  BY <1>1 DEF HandleResult, PopExpected, Mismatch
<1>2. CASE expected # << >>
  <2>1. Head(expected) \in Files /\ Elems(expected) = {Head(expected)} \cup Elems(Tail(expected))
    BY <1>2, ElemsTail DEF Types
  <2>2. QED
    BY <1>2, <2>1 DEF HandleResult, PopExpected, Oldest
<1>3. QED
  BY <1>1, <1>2

LEMMA HandleOrder ==
  ASSUME Types, ListOrder, resultQ # << >>, NEW onErr \in {"shut_drain", "shut_send"},
         HandleResult(Head(resultQ), onErr), UNCHANGED <<pass, todo, cur>>, ~InHand
  PROVE  ListOrder'
<1>a. /\ todo \in Seq(Files) /\ expected \in Seq(Files) /\ redo \in Seq(Files) /\ pass \in 1..2
      /\ ~InHand'
  BY HandleTypes DEF Types, InHand
<1>1. CASE expected' = expected /\ redo' = redo
  BY <1>1, <1>a DEF ListOrder, Open
<1>2. CASE /\ expected # << >> /\ expected' = Tail(expected) /\ Head(expected) \in Files
           /\ Elems(expected) = {Head(expected)} \cup Elems(expected')
           /\ redo' = redo \/ (pass = 1 /\ redo' = Append(redo, Head(expected)))
  <2>1. Increasing(expected') /\ \A x \in Elems(expected') : Head(expected) < x
    BY <1>2, <1>a, IncreasingTail DEF ListOrder
  <2>2. Open = Open' \cup {Head(expected)}
    BY <1>2, <1>a DEF Open
  <2>3. CASE redo' = redo
    BY <1>2, <1>a, <2>1, <2>2, <2>3 DEF ListOrder
  <2>4. CASE pass = 1 /\ redo' = Append(redo, Head(expected))
    <3>1. Elems(redo') = Elems(redo) \cup {Head(expected)}
      BY <1>2, <1>a, <2>4, ElemsAppend, SMTT(60)
    <3>2. Increasing(redo')
      BY <1>2, <1>a, <2>2, <2>4, IncreasingAppend DEF ListOrder
    <3>3. \A g \in Open' : Head(expected) < g
      BY <1>2, <1>a, <2>1 DEF ListOrder, Open
    <3>4. QED
      BY <1>2, <1>a, <2>1, <2>2, <2>4, <3>1, <3>2, <3>3, SMTT(60) DEF ListOrder
  <2>5. QED
    BY <1>2, <2>3, <2>4
<1>3. QED
  BY <1>1, <1>2, HandleLists

\* What a commit noted does to the lists.
LEMMA NoteOrder ==
  ASSUME Types, ListOrder, InHand, NoteCommit
  PROVE  /\ ListOrder' /\ Elems(expected') = Elems(expected) \cup {cur} /\ Open' = Open
         /\ expected' = Append(expected, cur)
<1>a. /\ todo \in Seq(Files) /\ expected \in Seq(Files) /\ redo \in Seq(Files) /\ cur \in Files
      /\ ~InHand' /\ UNCHANGED <<todo, redo, cur, pass>> /\ expected' = Append(expected, cur)
  BY DEF Types, InHand, NoteCommit
<1>1. Elems(expected') = Elems(expected) \cup {cur}
  BY <1>a, ElemsAppend, SMTT(60)
<1>2. Increasing(expected')
  BY <1>a, IncreasingAppend DEF ListOrder
<1>3. Open' = Open
  BY <1>a, <1>1 DEF Open
<1>4. QED
  BY <1>a, <1>1, <1>2, <1>3 DEF ListOrder

LEMMA NetStepLists ==
  ASSUME Types, ListOrder, Network
  PROVE  ListOrder'
<1>a. /\ todo \in Seq(Files) /\ expected \in Seq(Files) /\ redo \in Seq(Files)
  BY DEF Types
<1>b. ASSUME UNCHANGED <<todo, expected, redo, pass, cur>>, InHand' => InHand
      PROVE  ListOrder'
  BY <1>a, <1>b DEF ListOrder, Open
<1>1. CASE StartFile
  <2>1. /\ cur' \in Files /\ todo' \in Seq(Files) /\ Elems(todo) = {cur'} \cup Elems(todo')
        /\ todo # << >> /\ todo' = Tail(todo) /\ cur' = Head(todo) /\ ~InHand
        /\ UNCHANGED <<expected, redo, pass>>
    BY <1>1, <1>a, ElemsTail DEF StartFile, InHand
  <2>2. Increasing(todo') /\ \A x \in Elems(todo') : cur' < x
    BY <1>a, <2>1, IncreasingTail DEF ListOrder
  <2>3. Open' \subseteq Open
    BY <2>1 DEF Open
  <2>4. QED
    BY <2>1, <2>2, <2>3 DEF ListOrder
<1>2. CASE SendWhole
  BY <1>2, NoteOrder DEF SendWhole, InHand
<1>3. CASE SendBegin
  BY <1>3, <1>b DEF SendBegin, InHand, netVars
<1>4. CASE SendChunk
  BY <1>4, <1>b DEF SendChunk, InHand
<1>5. CASE SendCommit
  BY <1>5, NoteOrder DEF SendCommit, InHand
<1>6. CASE StreamError
  BY <1>6, <1>b DEF StreamError, Fail, InHand
<1>7. CASE DrainReady
  <2>1. CASE resultQ # << >> /\ HandleResult(Head(resultQ), "shut_drain")
    BY <1>7, <2>1, HandleOrder DEF DrainReady, InHand
  <2>2. QED
    BY <1>7, <1>b, <2>1 DEF DrainReady, InHand
<1>8. CASE LoopEnd
  BY <1>8, <1>b DEF LoopEnd, InHand, netVars
<1>9. CASE DrainAll
  <2>1. CASE resultQ # << >> /\ HandleResult(Head(resultQ), "shut_drain")
    BY <1>9, <2>1, HandleOrder DEF DrainAll, InHand
  <2>2. QED
    BY <1>9, <1>b, <2>1 DEF DrainAll, InHand
<1>10. CASE ShutdownDrain
  <2>1. CASE resultQ # << >> /\ HandleResult(Head(resultQ), "shut_send")
    BY <1>10, <2>1, HandleOrder DEF ShutdownDrain, InHand
  <2>2. QED
    BY <1>10, <1>b, <2>1 DEF ShutdownDrain, InHand
<1>11. CASE SendShutdown
  BY <1>11, <1>b DEF SendShutdown, InHand, netVars
<1>12. CASE Join
  <2>1. expected' = << >> /\ redo' = << >> /\ todo' \in {todo, redo} /\ ~InHand'
    BY <1>12 DEF Join, InHand
  <2>2. Elems(expected') = {} /\ Elems(redo') = {} /\ Increasing(expected') /\ Increasing(redo')
    BY <2>1, ElemsEmpty, SMTT(60) DEF Increasing
  <2>3. QED
    BY <2>1, <2>2 DEF ListOrder
<1>13. CASE SweepBackup
  BY <1>13, <1>b DEF SweepBackup, InHand
<1>14. CASE SweepRename
  BY <1>14, <1>b DEF SweepRename, InHand
<1>15. CASE SweepEnd
  BY <1>15, <1>b DEF SweepEnd, InHand, netVars
<1>17. CASE Stop
  <2>1. todo' = << >> /\ UNCHANGED <<expected, redo, pass>> /\ ~InHand /\ ~InHand'
    BY <1>17 DEF Stop, InHand
  <2>2. Elems(todo') = {} /\ Increasing(todo')
    BY <2>1, ElemsEmpty, SMTT(60) DEF Increasing
  <2>3. Open' \subseteq Open
    BY <2>1, <2>2 DEF Open
  <2>4. QED
    BY <2>1, <2>2, <2>3 DEF ListOrder
<1>16. QED
  BY <1>1, <1>2, <1>3, <1>4, <1>5, <1>6, <1>7, <1>8, <1>9, <1>10, <1>11, <1>12, <1>13,
     <1>14, <1>15, <1>17 DEF Network

LEMMA DiskStepLists ==
  ASSUME ListOrder, UNCHANGED <<npc, netVars>>
  PROVE  ListOrder'
BY DEF ListOrder, Open, InHand, netVars

\* A message sent starts a file or continues one.
LEMMA SendFacts ==
  ASSUME Types, NEW t \in {"begin", "chunk", "commit", "whole", "abort", "shutdown"}, Send(Msg(t))
  PROVE  /\ Queued' = IF t \in Starting THEN Queued \cup {cur} ELSE Queued
         /\ fileQ' \in Seq(FileMsgs) /\ fileQ' = Append(fileQ, Msg(t)) /\ Msg(t) \in FileMsgs
         /\ Msg(t).type = t /\ Msg(t).file = cur
         /\ \A j \in 1..Len(fileQ') :
               \/ j \in 1..Len(fileQ) /\ fileQ'[j] = fileQ[j]
               \/ j = Len(fileQ) + 1 /\ fileQ'[j] = Msg(t)
<1>1. Msg(t) \in FileMsgs /\ Msg(t).type = t /\ Msg(t).file = cur
  BY DEF Msg, FileMsgs, Types
<1>2. fileQ' = Append(fileQ, Msg(t)) /\ fileQ \in Seq(FileMsgs)
  BY DEF Send, Types
<1>3. /\ fileQ' \in Seq(FileMsgs)
      /\ Queued' = IF Msg(t).type \in Starting THEN Queued \cup {Msg(t).file} ELSE Queued
      /\ \A j \in 1..Len(fileQ') :
               \/ j \in 1..Len(fileQ) /\ fileQ'[j] = fileQ[j]
               \/ j = Len(fileQ) + 1 /\ fileQ'[j] = Msg(t)
  BY <1>1, <1>2, QueueAppend
<1>4. Queued' = IF t \in Starting THEN Queued \cup {cur} ELSE Queued
  BY <1>1, <1>3
<1>5. QED
  BY <1>1, <1>2, <1>3, <1>4

\* A queue whose starts are in order keeps them so when a later file joins it.
LEMMA SendOrder ==
  ASSUME Types, QueueOrder, NEW t \in {"begin", "chunk", "commit", "whole", "abort", "shutdown"},
         Send(Msg(t)), t \in Starting => npc \in Starting
  PROVE  \A j, k \in Starts' : j < k => fileQ'[j].file < fileQ'[k].file
<1>a. Len(fileQ) \in Nat /\ (npc \in Starting => cur \in Unsent)
  BY SMTT(60) DEF Types, Unsent
<1>b. \A j \in Starts : fileQ[j].file \in Queued
  BY DEF Queued
<1>c. /\ Msg(t).type = t /\ Msg(t).file = cur
      /\ \A j \in 1..Len(fileQ') :
               \/ j \in 1..Len(fileQ) /\ fileQ'[j] = fileQ[j]
               \/ j = Len(fileQ) + 1 /\ fileQ'[j] = Msg(t)
  BY SendFacts
<1>1. SUFFICES ASSUME NEW j \in Starts', NEW k \in Starts', j < k
               PROVE  fileQ'[j].file < fileQ'[k].file
  OBVIOUS
<1>2. j \in 1..Len(fileQ') /\ k \in 1..Len(fileQ') /\ fileQ'[j].type \in Starting
      /\ fileQ'[k].type \in Starting
  BY DEF Starts
<1>3. j \in 1..Len(fileQ) /\ fileQ'[j] = fileQ[j]
  BY <1>1, <1>2, <1>a, <1>c, SMTT(60)
<1>4. j \in Starts
  BY <1>2, <1>3 DEF Starts
<1>5. CASE k \in 1..Len(fileQ) /\ fileQ'[k] = fileQ[k]
  <2>1. k \in Starts
    BY <1>2, <1>5 DEF Starts
  <2>2. QED
    BY <1>1, <1>3, <1>4, <1>5, <2>1 DEF QueueOrder
<1>6. CASE fileQ'[k] = Msg(t)
  <2>1. t \in Starting /\ cur \in Unsent
    BY <1>2, <1>6, <1>a, <1>c
  <2>2. fileQ[j].file < cur
    BY <1>4, <1>b, <2>1 DEF QueueOrder, InDisk
  <2>3. QED
    BY <1>3, <1>6, <1>c, <2>2
<1>7. QED
  BY <1>2, <1>5, <1>6, <1>c

LEMMA NetStepQueue ==
  ASSUME Types, ListOrder, QueueOrder, Network
  PROVE  QueueOrder'
<1>a. /\ todo \in Seq(Files) /\ redo \in Seq(Files) /\ (InHand => cur \in Files)
      /\ Queued \subseteq Files /\ (Busy => dfile \in Files)
  BY DEF Types
<1>b. ASSUME UNCHANGED <<fileQ, cur, diskVars>>, Unsent' \subseteq Unsent, npc' # "stream" \/ npc = "stream"
      PROVE  QueueOrder'
  BY <1>b DEF QueueOrder, InDisk, Queued, Starts, Busy, diskVars
<1>c. ASSUME NEW t \in {"chunk", "commit", "abort", "shutdown"}, Send(Msg(t)), UNCHANGED <<cur, diskVars>>,
             Unsent' \subseteq Unsent, npc' # "stream" \/ npc = "stream"
      PROVE  QueueOrder'
  <2>1. Queued' = Queued /\ \A j, k \in Starts' : j < k => fileQ'[j].file < fileQ'[k].file
    BY <1>c, SendFacts, SendOrder DEF Starting
  <2>2. QED
    BY <1>c, <2>1 DEF QueueOrder, InDisk, Busy, diskVars
<1>d. ASSUME NEW t \in Starting, npc = t, Send(Msg(t)), UNCHANGED <<cur, todo, diskVars>>,
             npc' \in {"stream", "drain"}
      PROVE  QueueOrder'
  <2>1. Queued' = Queued \cup {cur} /\ \A j, k \in Starts' : j < k => fileQ'[j].file < fileQ'[k].file
    BY <1>d, SendFacts, SendOrder DEF Starting
  <2>2. Unsent = Unsent' \cup {cur} /\ Unsent' = Elems(todo) /\ InDisk' = InDisk \cup {cur} /\ Busy' = Busy
        /\ cur \in Files /\ InHand
    BY <1>a, <1>d, <2>1 DEF Unsent, InDisk, Busy, diskVars, Starting, InHand
  <2>3. \A g \in Unsent' : cur < g
    BY <2>2 DEF ListOrder
  <2>4. \A f \in InDisk : f < cur /\ f \in Files
    BY <1>a, <2>2 DEF QueueOrder, InDisk
  <2>5. QED
    BY <1>d, <2>1, <2>2, <2>3, <2>4, SMTT(60) DEF QueueOrder, InDisk, diskVars, Files
<1>1. CASE StartFile
  <2>1. Elems(todo) = {cur'} \cup Elems(todo')
    BY <1>1, <1>a, ElemsTail DEF StartFile
  <2>2. Unsent' \subseteq Unsent /\ npc' # "stream"
    BY <1>1, <2>1 DEF StartFile, Unsent, Fail
  <2>3. QED
    BY <1>1, <2>2 DEF StartFile, QueueOrder, InDisk, Queued, Starts, Busy, diskVars
<1>2. CASE SendWhole
  BY <1>2, <1>d DEF SendWhole, NoteCommit, Starting
<1>3. CASE SendBegin
  BY <1>3, <1>d DEF SendBegin, netVars, Starting
<1>4. CASE SendChunk
  BY <1>4, <1>c DEF SendChunk, Unsent
<1>5. CASE SendCommit
  BY <1>5, <1>c DEF SendCommit, NoteCommit, Unsent, Starting
<1>6. CASE StreamError
  BY <1>6, <1>b, <1>c DEF StreamError, Fail, Unsent, Starting
<1>7. CASE DrainReady
  <2>1. npc' \in {"drain", "next", "shut_drain"} /\ UNCHANGED <<todo, cur, fileQ, diskVars>>
    BY <1>7 DEF DrainReady, HandleResult
  <2>2. QED
    BY <1>b, <2>1 DEF Unsent, Starting
<1>8. CASE LoopEnd
  BY <1>8, <1>b DEF LoopEnd, Unsent, netVars, Starting
<1>9. CASE DrainAll
  <2>1. npc' \in {"drain_all", "shut_drain"} /\ UNCHANGED <<todo, cur, fileQ, diskVars>>
    BY <1>9 DEF DrainAll, HandleResult
  <2>2. QED
    BY <1>b, <2>1 DEF Unsent, Starting
<1>10. CASE ShutdownDrain
  <2>1. npc' \in {"shut_drain", "shut_send"} /\ UNCHANGED <<todo, cur, fileQ, diskVars>>
    BY <1>10 DEF ShutdownDrain, HandleResult
  <2>2. QED
    BY <1>b, <2>1 DEF Unsent, Starting
<1>11. CASE SendShutdown
  BY <1>11, <1>c DEF SendShutdown, Unsent, netVars, Starting
<1>12. CASE Join
  <2>1. fileQ' = << >> /\ dpc' \in {"idle", "exited"}
    BY <1>12 DEF Join
  <2>2. Starts' = {} /\ Queued' = {} /\ ~Busy'
    BY <2>1, SMTT(60) DEF Starts, Queued, Busy
  <2>3. QED
    BY <2>2 DEF QueueOrder, InDisk
<1>13. CASE SweepBackup
  BY <1>13, <1>b DEF SweepBackup, Unsent, Starting
<1>14. CASE SweepRename
  BY <1>14, <1>b DEF SweepRename, Unsent, Starting
<1>15. CASE SweepEnd
  BY <1>15, <1>b DEF SweepEnd, Unsent, netVars, Starting
<1>17. CASE Stop
  <2>1. Elems(todo') = {}
    BY <1>17, ElemsEmpty DEF Stop
  <2>2. Unsent' \subseteq Unsent
    BY <1>17, <2>1 DEF Stop, Unsent, Starting
  <2>3. QED
    BY <1>17, <1>b, <2>2 DEF Stop
<1>16. QED
  BY <1>1, <1>2, <1>3, <1>4, <1>5, <1>6, <1>7, <1>8, <1>9, <1>10, <1>11, <1>12, <1>13,
     <1>14, <1>15, <1>17 DEF Network

\* What the disk thread takes from the queue: the file it starts is the first one
\* there, and every other step continues a file or ends it.
LEMMA DiskMoves ==
  ASSUME Types, QueueOrder, Disk
  PROVE  /\ InDisk' \subseteq InDisk
         /\ Busy' => \A f \in Queued' : dfile' < f
         /\ \/ fileQ' = fileQ /\ Queued' = Queued
            \/ fileQ # << >> /\ fileQ' = Tail(fileQ) /\ Queued' \subseteq Queued
         /\ \/ UNCHANGED <<dfile, dgood>> /\ (Busy' => Busy)
            \/ /\ DiskRecv /\ Head(fileQ).type \in Starting /\ ~Busy /\ Busy' /\ dpc' = "backup"
               /\ dfile' = Head(fileQ).file /\ dfile' \in Queued /\ InDisk' = InDisk
               /\ Queued = {dfile'} \cup Queued'
<1>a. fileQ \in Seq(FileMsgs)
  BY DEF Types
<1>1. CASE UNCHANGED <<fileQ, dfile, dgood>> /\ (Busy' => Busy)
  BY <1>1 DEF InDisk, Queued, Starts, QueueOrder
<1>2. CASE fileQ # << >> /\ fileQ' = Tail(fileQ) /\ UNCHANGED <<dfile, dgood>> /\ (Busy' => Busy)
  <2>1. Queued' \subseteq Queued
    BY <1>2, <1>a, QueueTail
  <2>2. QED
    BY <1>2, <2>1 DEF InDisk, QueueOrder
<1>3. CASE DiskRecv
  <2>1. CASE Head(fileQ).type \notin Starting
    <3>1. fileQ # << >> /\ fileQ' = Tail(fileQ) /\ UNCHANGED <<dfile, dgood>>
      BY <1>3, <2>1 DEF DiskRecv, Starting
    <3>2. ~Busy'
      BY <1>3, <2>1 DEF DiskRecv, Starting, Busy, Finish, ErrResult, NoResult
    <3>3. QED
      BY <1>2, <3>1, <3>2
  <2>2. CASE Head(fileQ).type \in Starting
    <3>1. /\ fileQ # << >> /\ fileQ' = Tail(fileQ) /\ dfile' = Head(fileQ).file /\ dpc = "idle"
          /\ dpc' = "backup"
      BY <1>3, <2>2 DEF DiskRecv, Starting
    <3>2. /\ Queued = {dfile'} \cup Queued' /\ Head(fileQ) = fileQ[1] /\ 1 \in Starts
          /\ \A j \in 1..Len(fileQ') : j + 1 \in 1..Len(fileQ) /\ fileQ'[j] = fileQ[j + 1]
      BY <1>a, <2>2, <3>1, QueueTail, SMTT(60) DEF Starts
    <3>3. ASSUME NEW f \in Queued' PROVE dfile' < f
      <4>1. PICK j \in 1..Len(fileQ') : fileQ'[j].type \in Starting /\ f = fileQ'[j].file
        BY <3>3 DEF Queued, Starts
      <4>2. j + 1 \in Starts /\ f = fileQ[j + 1].file /\ 1 < j + 1
        BY <3>2, <4>1, SMTT(60) DEF Starts
      <4>3. QED
        BY <3>1, <3>2, <4>2 DEF QueueOrder
    <3>4. ~Busy /\ Busy'
      BY <3>1 DEF Busy
    <3>5. InDisk' = InDisk
      BY <3>2, <3>4 DEF InDisk
    <3>6. QED
      BY <1>3, <2>2, <3>1, <3>2, <3>3, <3>4, <3>5
  <2>3. QED
    BY <2>1, <2>2
<1>4. CASE InplaceBackup
  BY <1>1, <1>4 DEF InplaceBackup, Busy
<1>5. CASE OpenOutput
  BY <1>1, <1>5 DEF OpenOutput, Busy
<1>6. CASE SetupWriter
  BY <1>1, <1>6 DEF SetupWriter, Busy
<1>7. CASE Discard
  BY <1>2, <1>7 DEF Discard, Busy
<1>8. CASE FileRecv
  BY <1>2, <1>8 DEF FileRecv, Busy
<1>9. CASE WriteWhole
  BY <1>1, <1>9 DEF WriteWhole, Busy
<1>10. CASE Verify
  BY <1>1, <1>10 DEF Verify, Busy
<1>11. CASE CommitBackup
  BY <1>1, <1>11 DEF CommitBackup, Busy
<1>12. CASE CommitRename
  BY <1>1, <1>12 DEF CommitRename, Busy
<1>13. CASE CommitCopy
  BY <1>1, <1>13 DEF CommitCopy, Busy
<1>14. CASE SendResult
  BY <1>1, <1>14 DEF SendResult, Busy
<1>15. QED
  BY <1>3, <1>4, <1>5, <1>6, <1>7, <1>8, <1>9, <1>10, <1>11, <1>12, <1>13, <1>14 DEF Disk

LEMMA DiskStepQueue ==
  ASSUME Types, QueueOrder, Disk
  PROVE  QueueOrder'
<1>a. fileQ \in Seq(FileMsgs) /\ UNCHANGED <<npc, netVars>>
  BY DiskStepTypes DEF Types
<1>1. \A j, k \in Starts' : j < k => fileQ'[j].file < fileQ'[k].file
  <2>1. CASE fileQ' = fileQ
    BY <2>1 DEF QueueOrder, Starts
  <2>2. CASE fileQ # << >> /\ fileQ' = Tail(fileQ)
    <3>1. \A j \in 1..Len(fileQ') : j + 1 \in 1..Len(fileQ) /\ fileQ'[j] = fileQ[j + 1]
      BY <1>a, <2>2, QueueTail
    <3>2. SUFFICES ASSUME NEW j \in Starts', NEW k \in Starts', j < k
                   PROVE  fileQ'[j].file < fileQ'[k].file
      OBVIOUS
    <3>3. j \in 1..Len(fileQ') /\ k \in 1..Len(fileQ') /\ j + 1 \in Starts /\ k + 1 \in Starts
      BY <3>1 DEF Starts
    <3>4. j + 1 < k + 1
      BY <3>2, <3>3, SMTT(60)
    <3>5. QED
      BY <3>1, <3>3, <3>4 DEF QueueOrder
  <2>3. QED
    BY <2>1, <2>2, DiskMoves
<1>2. InDisk' \subseteq InDisk /\ (Busy' => \A f \in Queued' : dfile' < f)
  BY DiskMoves
<1>3. Unsent' = Unsent /\ cur' = cur /\ npc' = npc
  BY <1>a DEF Unsent, netVars
<1>4. QED
  BY <1>1, <1>2, <1>3 DEF QueueOrder

-----------------------------------------------------------------------------
(* Results and commits.                                                       *)

LEMMA NetStepPhase ==
  ASSUME Types, Phase, Network
  PROVE  Phase'
<1>a. /\ expected \in Seq(Files) /\ pending = Len(expected) /\ outcome \in {"none", "ok", "err"}
      /\ todo \in Seq(Files)
  BY DEF Types
<1>b. pending = 0 => expected = << >>
  <2>1. SUFFICES ASSUME expected # << >> PROVE Len(expected) # 0
    BY <1>a
  <2>2. QED
    BY <1>a, <2>1, SMTT(60)
<1>1. CASE StartFile
  BY <1>1 DEF StartFile, Fail, Phase, Loop, After
<1>2. CASE SendWhole
  BY <1>2, <1>a DEF SendWhole, NoteCommit, Phase, Loop, After
<1>3. CASE SendBegin
  BY <1>3, <1>a DEF SendBegin, netVars, Phase, Loop, After
<1>4. CASE SendChunk
  BY <1>4 DEF SendChunk, Phase, Loop, After
<1>5. CASE SendCommit
  BY <1>5, <1>a DEF SendCommit, NoteCommit, Phase, Loop, After
<1>6. CASE StreamError
  BY <1>6 DEF StreamError, Fail, Phase, Loop, After
<1>7. CASE DrainReady
  <2>1. outcome = "none" /\ UNCHANGED todo
    BY <1>7, <1>a DEF DrainReady, Phase, After
  <2>2. (npc' \in {"drain", "next"} /\ outcome' = "none") \/ (npc' = "shut_drain" /\ outcome' = "err")
    BY <1>7, <2>1 DEF DrainReady, HandleResult
  <2>3. QED
    BY <2>1, <2>2 DEF Phase, Loop, After
<1>8. CASE LoopEnd
  BY <1>8, <1>a DEF LoopEnd, netVars, Phase, Loop, After
<1>9. CASE DrainAll
  <2>1. outcome = "none" /\ UNCHANGED todo /\ todo = << >>
    BY <1>9, <1>a DEF DrainAll, Phase, After
  <2>2. CASE HandleResult(Head(resultQ), "shut_drain")
    <3>1. (npc' = "drain_all" /\ outcome' = "none") \/ (npc' = "shut_drain" /\ outcome' = "err")
      BY <1>9, <2>1, <2>2 DEF DrainAll, HandleResult
    <3>2. QED
      BY <2>1, <3>1 DEF Phase, Loop, After
  <2>3. CASE pending = 0 /\ EmitSuccess /\ npc' = "shut_drain" /\ outcome' = "ok" /\ UNCHANGED expected
    BY <1>b, <2>1, <2>3 DEF EmitSuccess, Phase, Loop, After
  <2>4. QED
    BY <1>9, <2>2, <2>3 DEF DrainAll
<1>10. CASE ShutdownDrain
  <2>1. outcome # "none" /\ UNCHANGED todo
    BY <1>10 DEF ShutdownDrain, Phase, Loop
  <2>2. CASE pending > 0 /\ HandleResult(Head(resultQ), "shut_send")
    <3>1. outcome = "err"
      BY <1>a, <2>1, <2>2, SMTT(60) DEF Phase
    <3>2. npc' \in {"shut_drain", "shut_send"} /\ outcome' = "err"
      BY <1>10, <2>2, <3>1 DEF ShutdownDrain, HandleResult
    <3>3. QED
      BY <3>2 DEF Phase, Loop, After
  <2>3. CASE npc' = "shut_send" /\ UNCHANGED <<expected, success, outcome>>
    BY <2>1, <2>3 DEF Phase, Loop, After
  <2>4. QED
    BY <1>10, <2>2, <2>3 DEF ShutdownDrain
<1>11. CASE SendShutdown
  BY <1>11, <1>a DEF SendShutdown, netVars, Phase, Loop, After
<1>12. CASE Join
  BY <1>12, <1>a DEF Join, Phase, Loop, After
<1>13. CASE SweepBackup
  BY <1>13, <1>a DEF SweepBackup, diskVars, Phase, Loop, After
<1>14. CASE SweepRename
  BY <1>14, <1>a DEF SweepRename, diskVars, Phase, Loop, After
<1>15. CASE SweepEnd
  BY <1>15, <1>a DEF SweepEnd, netVars, diskVars, Phase, Loop, After
<1>17. CASE Stop
  BY <1>17, <1>a DEF Stop, Phase, Loop, After
<1>16. QED
  BY <1>1, <1>2, <1>3, <1>4, <1>5, <1>6, <1>7, <1>8, <1>9, <1>10, <1>11, <1>12, <1>13,
     <1>14, <1>15, <1>17 DEF Network

\* What one step of the disk thread may do while it is at work on a file.
AtWork ==
    /\ dpc' \notin {"idle", "exited"} /\ UNCHANGED <<resultQ, dfile, dgood>>
    /\ UNCHANGED fileQ
         \/ (fileQ # << >> /\ fileQ' = Tail(fileQ) /\ Head(fileQ).type \notin Starting)
    /\ \/ dres' = dres /\ (dpc' \in {"discard", "send"} => dpc = "discard")
       \/ dres'.kind # "stray" /\ dres'.src = dfile /\ (dpc' = "discard" => ~dres'.ok)

LEMMA DiskAtWork ==
  ASSUME Types, Disk, dpc \notin {"idle", "send", "exited"}
  PROVE  AtWork
<1>a. \A op : May(op) \in BOOLEAN
  BY DEF May
<1>b. /\ \A op \in Operations : \A kind \in KindsOf(op) :
               ErrResult(kind, dfile).kind # "stray" /\ ErrResult(kind, dfile).src = dfile
      /\ \A kind \in {"other", "intr"} :
               ErrResult(kind, dfile).kind # "stray" /\ ErrResult(kind, dfile).src = dfile
      /\ \A d, m \in BOOLEAN : OkResult(d, m).kind # "stray" /\ OkResult(d, m).src = dfile
  <2>1. \A op \in Operations : KindsOf(op) \subseteq {"perm", "other"}
    BY OptionFacts DEF Types
  <2>2. QED
    BY <2>1 DEF ErrResult, OkResult, NoResult
<1>c. \A kind : ~ErrResult(kind, dfile).ok
  BY DEF ErrResult, NoResult
<1>1. CASE InplaceBackup
  BY <1>1, <1>b DEF InplaceBackup, AtWork, Finish, Operations
<1>2. CASE OpenOutput
  BY <1>2, <1>b, <1>c DEF OpenOutput, AtWork, AfterOpenError, Operations
<1>3. CASE SetupWriter
  BY <1>3, <1>b DEF SetupWriter, AtWork, Finish, Operations
<1>4. CASE Discard
  BY <1>4, <1>b DEF Discard, AtWork, Finish, Starting
<1>5. CASE FileRecv
  <2>1. dpc' \in {"file", "verify", "send"} /\ UNCHANGED <<resultQ, dfile, dgood>> /\ dpc = "file"
        /\ fileQ # << >> /\ fileQ' = Tail(fileQ) /\ Head(fileQ).type \notin Starting
    BY <1>5 DEF FileRecv, Finish, Starting
  <2>2. \/ dres' = dres /\ dpc' \in {"file", "verify"}
        \/ dres'.kind # "stray" /\ dres'.src = dfile
    BY <1>5, <1>b DEF FileRecv, Finish, Operations
  <2>3. QED
    BY <2>1, <2>2 DEF AtWork
<1>6. CASE WriteWhole
  BY <1>6, <1>b DEF WriteWhole, AtWork, Finish, Operations
<1>7. CASE Verify
  BY <1>7, <1>b DEF Verify, AtWork, Finish
<1>8. CASE CommitBackup
  BY <1>8, <1>b DEF CommitBackup, AtWork, Finish, Operations
<1>9. CASE CommitRename
  <2>1. dpc' \in {"copy", "send"} /\ UNCHANGED <<resultQ, dfile, dgood, fileQ>>
    BY <1>9 DEF CommitRename, Finish
  <2>2. (dres' = dres /\ dpc' = "copy") \/ (dres'.kind # "stray" /\ dres'.src = dfile)
    BY <1>9, <1>a, <1>b, ZenonT(60) DEF CommitRename, Finish, Operations
  <2>3. QED
    BY <2>1, <2>2 DEF AtWork
<1>10. CASE CommitCopy
  <2>1. dpc' = "send" /\ UNCHANGED <<resultQ, dfile, dgood, fileQ>>
    BY <1>10 DEF CommitCopy, Finish
  <2>2. dres'.kind # "stray" /\ dres'.src = dfile
    BY <1>10, <1>b DEF CommitCopy, Finish, Operations
  <2>3. QED
    BY <2>1, <2>2 DEF AtWork
<1>11. QED
  BY <1>1, <1>2, <1>3, <1>4, <1>5, <1>6, <1>7, <1>8, <1>9, <1>10 DEF Disk, DiskRecv, SendResult

LEMMA DiskStepAnswer ==
  ASSUME Types, Answer, Disk
  PROVE  Answer'
<1>1. CASE dpc \notin {"idle", "send", "exited"}
  BY <1>1, DiskAtWork DEF AtWork, Answer
<1>2. CASE DiskRecv
  BY <1>2 DEF DiskRecv, Answer, Finish, ErrResult, NoResult
<1>3. CASE SendResult
  BY <1>3 DEF SendResult, Answer
<1>4. QED
  BY <1>1, <1>2, <1>3 DEF Disk, InplaceBackup, OpenOutput, SetupWriter, Discard, FileRecv,
        WriteWhole, Verify, CommitBackup, CommitRename, CommitCopy

\* Until it sends its result, the file at hand stays the one the disk thread owes.
LEMMA DiskKeeps ==
  ASSUME Types, QueueOrder, Answer, Disk, ~SendResult
  PROVE  InDisk' = InDisk /\ resultQ' = resultQ
<1>a. fileQ \in Seq(FileMsgs)
  BY DEF Types
<1>1. CASE dpc \notin {"idle", "send", "exited"}
  <2>1. AtWork /\ Answer'
    BY <1>1, DiskAtWork, DiskStepAnswer
  <2>2. Queued' = Queued
    BY <1>a, <2>1, QueueTail DEF AtWork, Queued, Starts
  <2>3. Busy /\ Busy' /\ dfile' = dfile
    BY <1>1, <2>1 DEF AtWork, Busy, Answer
  <2>4. QED
    BY <2>1, <2>2, <2>3 DEF InDisk, AtWork
<1>2. CASE DiskRecv
  <2>1. CASE Head(fileQ).type \in Starting
    <3>1. UNCHANGED <<resultQ, npc, netVars>> /\ dpc' = "backup"
      BY <1>2, <2>1 DEF DiskRecv, Starting
    <3>2. Busy' /\ ~Busy
      BY <1>2, <3>1 DEF Busy, DiskRecv
    <3>3. QED
      BY <3>1, <3>2, DiskMoves
  <2>2. CASE Head(fileQ).type \notin Starting
    <3>1. ~Busy /\ ~Busy' /\ fileQ # << >> /\ fileQ' = Tail(fileQ) /\ resultQ' = resultQ
      BY <1>2, <2>2 DEF DiskRecv, Starting, Busy, Finish, ErrResult, NoResult
    <3>2. Queued' = Queued
      BY <1>a, <2>2, <3>1, QueueTail
    <3>3. QED
      BY <3>1, <3>2 DEF InDisk
  <2>3. QED
    BY <2>1, <2>2
<1>3. QED
  BY <1>1, <1>2 DEF Disk, InplaceBackup, OpenOutput, SetupWriter, Discard, FileRecv,
        WriteWhole, Verify, CommitBackup, CommitRename, CommitCopy

LEMMA HandleAligned ==
  ASSUME Types, Phase, Aligned, resultQ # << >>, NEW onErr \in {"shut_drain", "shut_send"},
         HandleResult(Head(resultQ), onErr), onErr = "shut_drain" \/ outcome = "err",
         ~InHand, UNCHANGED <<fileQ, cur, diskVars>>
  PROVE  Aligned'
<1>a. /\ resultQ \in Seq(Results) /\ expected \in Seq(Files) /\ expected' \in Seq(Files)
      /\ Len(expected) \in Nat /\ npc' \in {npc, onErr}
  BY HandleTypes, SMTT(60) DEF Types
<1>b. /\ resultQ' = Tail(resultQ) /\ Head(resultQ) = resultQ[1] /\ 1 \in 1..Len(resultQ)
      /\ Len(resultQ') = Len(resultQ) - 1 /\ Len(resultQ) \in Nat \ {0}
      /\ \A i \in 1..Len(resultQ') : i + 1 \in 1..Len(resultQ) /\ resultQ'[i] = resultQ[i + 1]
  BY <1>a, SMTT(60) DEF HandleResult
<1>c. expected # << >> => /\ expected' = Tail(expected) /\ Len(expected') = Len(expected) - 1
                          /\ \A i \in 1..Len(expected') : expected'[i] = expected[i + 1]
  BY <1>a, SMTT(60) DEF HandleResult, PopExpected
<1>d. npc # "stream" /\ npc' # "stream"
  BY <1>a DEF InHand
<1>1. CASE outcome' = "err"
  BY <1>1 DEF Aligned, Matched, Owed, Clean
<1>2. CASE outcome' # "err"
  <2>1. outcome # "err" /\ ~Fatal(resultQ[1])
    BY <1>2, <1>b DEF HandleResult, Fatal
  <2>2. ASSUME NEW i \in 1..Len(resultQ'), \A j \in 1..i - 1 : ~Fatal(resultQ'[j]),
               resultQ'[i].kind # "stray"
        PROVE  i <= Len(expected') /\ resultQ'[i].src = expected'[i]
    <3>1. i + 1 \in 1..Len(resultQ) /\ resultQ'[i] = resultQ[i + 1] /\ i \in Nat \ {0}
      BY <1>b, SMTT(60)
    <3>2. ASSUME NEW j \in 1..(i + 1) - 1 PROVE ~Fatal(resultQ[j])
      <4>1. CASE j = 1
        BY <2>1, <4>1
      <4>2. CASE j # 1
        <5>1. j - 1 \in 1..i - 1 /\ j - 1 \in 1..Len(resultQ') /\ (j - 1) + 1 = j
          BY <1>b, <3>1, <4>2, SMTT(60)
        <5>2. resultQ'[j - 1] = resultQ[j]
          BY <1>b, <5>1
        <5>3. QED
          BY <2>2, <5>1, <5>2
      <4>3. QED
        BY <4>1, <4>2
    <3>3. i + 1 <= Len(expected) /\ resultQ[i + 1].src = expected[i + 1]
      BY <1>d, <2>1, <2>2, <3>1, <3>2 DEF Aligned, Matched
    <3>4. expected # << >>
      BY <3>1, <3>3, SMTT(60)
    <3>5. i \in 1..Len(expected')
      BY <1>a, <1>c, <3>1, <3>3, <3>4, SMTT(60)
    <3>6. QED
      BY <1>c, <3>1, <3>3, <3>4, <3>5, SMTT(60)
  <2>3. Matched'
    BY <2>2 DEF Matched
  <2>4. ASSUME Clean' PROVE Len(resultQ') <= Len(expected') /\ Out' = InDisk'
    <3>1. ASSUME NEW i \in 1..Len(resultQ) PROVE ~Fatal(resultQ[i])
      <4>1. CASE i = 1
        BY <2>1, <4>1
      <4>2. CASE i # 1
        <5>1. i - 1 \in 1..Len(resultQ') /\ (i - 1) + 1 = i
          BY <1>b, <4>2, SMTT(60)
        <5>2. QED
          BY <1>b, <2>4, <5>1 DEF Clean
      <4>3. QED
        BY <4>1, <4>2
    <3>2. Clean
      BY <1>d, <2>1, <2>4, <3>1 DEF Clean, LeftOver, diskVars
    <3>3. Len(resultQ) <= Len(expected) /\ Out = InDisk
      BY <3>2 DEF Aligned, Owed
    <3>4. expected # << >>
      BY <1>b, <3>3, SMTT(60)
    <3>5. Owing' = Owing
      <4>1. ASSUME NEW i \in Len(resultQ) + 1 .. Len(expected)
            PROVE  i - 1 \in Len(resultQ') + 1 .. Len(expected') /\ expected'[i - 1] = expected[i]
        <5>1. i - 1 \in Len(resultQ') + 1 .. Len(expected') /\ i - 1 \in 1..Len(expected')
              /\ (i - 1) + 1 = i
          BY <1>b, <1>c, <3>4, SMTT(60)
        <5>2. QED
          BY <1>c, <3>4, <5>1
      <4>2. ASSUME NEW i \in Len(resultQ') + 1 .. Len(expected')
            PROVE  i + 1 \in Len(resultQ) + 1 .. Len(expected) /\ expected'[i] = expected[i + 1]
        <5>1. i + 1 \in Len(resultQ) + 1 .. Len(expected) /\ i \in 1..Len(expected')
          BY <1>b, <1>c, <3>4, SMTT(60)
        <5>2. QED
          BY <1>c, <3>4, <5>1
      <4>3. QED
        BY <4>1, <4>2, SMTT(60) DEF Owing
    <3>6. InDisk' = InDisk
      BY DEF InDisk, Queued, Starts, Busy, diskVars
    <3>7. QED
      BY <1>b, <1>c, <1>d, <3>3, <3>4, <3>5, <3>6, SMTT(60) DEF Out
  <2>5. QED
    BY <2>3, <2>4 DEF Aligned, Owed
<1>3. QED
  BY <1>1, <1>2

LEMMA OwingAppend ==
  ASSUME Types, resultQ' = resultQ, Len(resultQ) <= Len(expected), NEW x \in Files,
         expected' = Append(expected, x)
  PROVE  Owing' = Owing \cup {x} /\ Len(resultQ') <= Len(expected')
<1>1. /\ expected \in Seq(Files) /\ Len(expected) \in Nat /\ Len(resultQ) \in Nat
      /\ Len(expected') = Len(expected) + 1 /\ expected'[Len(expected) + 1] = x
      /\ \A i \in 1..Len(expected) : expected'[i] = expected[i]
  BY SMTT(60) DEF Types
<1>2. ASSUME NEW i \in Len(resultQ) + 1 .. Len(expected)
      PROVE  i \in Len(resultQ') + 1 .. Len(expected') /\ expected'[i] = expected[i]
  BY <1>1, SMTT(60)
<1>3. ASSUME NEW i \in Len(resultQ') + 1 .. Len(expected')
      PROVE  \/ i \in Len(resultQ) + 1 .. Len(expected) /\ expected'[i] = expected[i]
             \/ expected'[i] = x
  BY <1>1, SMTT(60)
<1>4. Len(expected) + 1 \in Len(resultQ') + 1 .. Len(expected')
  BY <1>1, SMTT(60)
<1>5. Owing' = Owing \cup {x}
  <2>1. ASSUME NEW y \in Owing PROVE y \in Owing'
    BY <1>2, <2>1 DEF Owing
  <2>2. x \in Owing'
    BY <1>1, <1>4 DEF Owing
  <2>3. ASSUME NEW y \in Owing' PROVE y \in Owing \cup {x}
    BY <1>3, <2>3 DEF Owing
  <2>4. QED
    BY <2>1, <2>2, <2>3
<1>6. QED
  BY <1>1, <1>5, SMTT(60)

LEMMA NetStepAligned ==
  ASSUME Types, Phase, Aligned, Network
  PROVE  Aligned'
<1>a. /\ expected \in Seq(Files) /\ resultQ \in Seq(Results) /\ fileQ \in Seq(FileMsgs)
      /\ Len(expected) \in Nat /\ Len(resultQ) \in Nat /\ (InHand => cur \in Files)
      /\ pending = Len(expected) /\ outcome \in {"none", "ok", "err"}
  BY SMTT(60) DEF Types
<1>b. ASSUME UNCHANGED <<resultQ, diskVars>>, outcome' # "err" => outcome # "err",
             outcome' # "err" /\ LeftOver => LeftOver', Clean'
      PROVE  Clean
  BY <1>b DEF Clean, diskVars
<1>c. ASSUME UNCHANGED <<fileQ, resultQ, expected, diskVars>>, outcome' # "err" => outcome # "err",
             npc # "stream", npc' # "stream"
      PROVE  Aligned'
  <2>1. Matched'
    BY <1>c DEF Aligned, Matched
  <2>2. Clean' => Clean
    BY <1>b, <1>c DEF LeftOver
  <2>3. Owing' = Owing /\ InDisk' = InDisk
    BY <1>c DEF Owing, InDisk, Queued, Starts, Busy, diskVars
  <2>4. QED
    BY <1>c, <2>1, <2>2, <2>3 DEF Aligned, Owed, Out
<1>d. ASSUME NEW t \in {"begin", "chunk", "commit", "whole"}, Send(Msg(t)),
             UNCHANGED <<resultQ, diskVars, outcome, cur>>, InHand,
             npc = "stream" => t \in Rest
      PROVE  /\ Clean' => Clean
             /\ InDisk' = IF t \in Starting THEN InDisk \cup {cur} ELSE InDisk
  <2>1. /\ Queued' = IF t \in Starting THEN Queued \cup {cur} ELSE Queued
        /\ fileQ' = Append(fileQ, Msg(t)) /\ Msg(t).type = t
    BY <1>d, SendFacts
  <2>2. LeftOver => LeftOver'
    <3>1. CASE fileQ = << >>
      <4>1. fileQ' # << >> /\ Head(fileQ') = Msg(t)
        BY <2>1, <3>1, SMTT(60)
      <4>2. QED
        BY <1>d, <2>1, <3>1, <4>1 DEF LeftOver
    <3>2. CASE fileQ # << >>
      <4>1. fileQ' # << >> /\ Head(fileQ') = Head(fileQ)
        BY <1>a, <2>1, <3>2, SMTT(60)
      <4>2. QED
        BY <3>2, <4>1 DEF LeftOver
    <3>3. QED
      BY <3>1, <3>2
  <2>3. Clean' => Clean
    BY <1>b, <1>d, <2>2
  <2>4. Busy' = Busy /\ dfile' = dfile
    BY <1>d DEF Busy, diskVars
  <2>5. QED
    BY <2>1, <2>3, <2>4 DEF InDisk
<1>1. CASE StartFile
  BY <1>1, <1>c DEF StartFile, Fail
<1>2. CASE SendWhole
  <2>1. /\ npc = "whole" /\ npc' = "drain" /\ Send(Msg("whole")) /\ UNCHANGED <<resultQ, diskVars, outcome, cur>>
        /\ expected' = Append(expected, cur) /\ InHand /\ cur \in Files
    BY <1>2, <1>a DEF SendWhole, NoteCommit, InHand
  <2>2. (Clean' => Clean) /\ InDisk' = InDisk \cup {cur}
    BY <1>d, <2>1 DEF Starting
  <2>3. Matched'
    BY <1>a, <2>1, SMTT(60) DEF Aligned, Matched
  <2>4. Owed'
    BY <2>1, <2>2, OwingAppend DEF Aligned, Owed, Out
  <2>5. QED
    BY <2>3, <2>4 DEF Aligned
<1>3. CASE SendBegin
  <2>1. /\ npc = "begin" /\ npc' = "stream" /\ Send(Msg("begin"))
        /\ UNCHANGED <<resultQ, diskVars, outcome, cur, expected>> /\ InHand
    BY <1>3 DEF SendBegin, netVars, InHand
  <2>2. (Clean' => Clean) /\ InDisk' = InDisk \cup {cur}
    BY <1>d, <2>1 DEF Starting
  <2>3. Matched'
    BY <2>1 DEF Aligned, Matched
  <2>4. Owed'
    BY <2>1, <2>2 DEF Aligned, Owed, Out, Owing
  <2>5. QED
    BY <2>3, <2>4 DEF Aligned
<1>4. CASE SendChunk
  <2>1. /\ npc = "stream" /\ npc' = "stream" /\ Send(Msg("chunk"))
        /\ UNCHANGED <<resultQ, diskVars, outcome, cur, expected>> /\ InHand
    BY <1>4 DEF SendChunk, InHand
  <2>2. (Clean' => Clean) /\ InDisk' = InDisk
    BY <1>d, <2>1 DEF Starting, Rest
  <2>3. Matched'
    BY <2>1 DEF Aligned, Matched
  <2>4. Owed'
    BY <2>1, <2>2 DEF Aligned, Owed, Out, Owing
  <2>5. QED
    BY <2>3, <2>4 DEF Aligned
<1>5. CASE SendCommit
  <2>1. /\ npc = "stream" /\ npc' = "drain" /\ Send(Msg("commit")) /\ UNCHANGED <<resultQ, diskVars, outcome, cur>>
        /\ expected' = Append(expected, cur) /\ InHand /\ cur \in Files
    BY <1>5, <1>a DEF SendCommit, NoteCommit, InHand
  <2>2. (Clean' => Clean) /\ InDisk' = InDisk
    BY <1>d, <2>1 DEF Starting, Rest
  <2>3. Matched'
    <3>1. /\ Len(expected') = Len(expected) + 1 /\ expected'[Len(expected) + 1] = cur
          /\ \A i \in 1..Len(expected) : expected'[i] = expected[i]
      BY <1>a, <2>1, SMTT(60)
    <3>2. QED
      BY <1>a, <2>1, <3>1, SMTT(60) DEF Aligned, Matched
  <2>4. Owed'
    BY <2>1, <2>2, OwingAppend DEF Aligned, Owed, Out
  <2>5. QED
    BY <2>3, <2>4 DEF Aligned
<1>6. CASE StreamError
  BY <1>6 DEF StreamError, Fail, Aligned, Matched, Owed, Clean
<1>7. CASE DrainReady
  <2>1. CASE resultQ # << >> /\ HandleResult(Head(resultQ), "shut_drain")
    BY <1>7, <2>1, HandleAligned DEF DrainReady, InHand
  <2>2. QED
    BY <1>7, <1>c, <2>1 DEF DrainReady
<1>8. CASE LoopEnd
  BY <1>8, <1>c DEF LoopEnd, netVars
<1>9. CASE DrainAll
  <2>1. CASE resultQ # << >> /\ HandleResult(Head(resultQ), "shut_drain")
    BY <1>9, <2>1, HandleAligned DEF DrainAll, InHand
  <2>2. CASE UNCHANGED <<resultQ, expected>> /\ npc' = "shut_drain" /\ outcome' = "ok"
    <3>1. outcome # "err"
      BY <1>9 DEF DrainAll, Phase, After
    <3>2. QED
      BY <1>9, <1>c, <2>2, <3>1 DEF DrainAll
  <2>3. QED
    BY <1>9, <2>1, <2>2 DEF DrainAll
<1>10. CASE ShutdownDrain
  <2>1. CASE pending > 0 /\ resultQ # << >> /\ HandleResult(Head(resultQ), "shut_send")
    <3>1. outcome = "err"
      BY <1>10, <1>a, <2>1, SMTT(60) DEF Phase, ShutdownDrain, Loop
    <3>2. QED
      BY <1>10, <2>1, <3>1, HandleAligned DEF ShutdownDrain, InHand
  <2>2. QED
    BY <1>10, <1>c, <2>1 DEF ShutdownDrain
<1>11. CASE SendShutdown
  <2>1. /\ npc # "stream" /\ npc' # "stream" /\ Send(Msg("shutdown"))
        /\ UNCHANGED <<resultQ, diskVars, outcome, expected, cur>>
    BY <1>11 DEF SendShutdown, netVars
  <2>2. Queued' = Queued /\ fileQ' = Append(fileQ, Msg("shutdown"))
    BY <2>1, SendFacts DEF Starting
  <2>3. LeftOver => LeftOver'
    <3>1. CASE fileQ # << >>
      <4>1. fileQ' # << >> /\ Head(fileQ') = Head(fileQ)
        BY <1>a, <2>2, <3>1, SMTT(60)
      <4>2. QED
        BY <3>1, <4>1 DEF LeftOver
    <3>2. QED
      BY <2>1, <3>1 DEF LeftOver
  <2>4. Clean' => Clean
    BY <1>b, <2>1, <2>3
  <2>5. InDisk' = InDisk /\ Out' = Out
    BY <2>1, <2>2 DEF InDisk, Out, Owing, Busy, diskVars
  <2>6. QED
    BY <2>1, <2>4, <2>5 DEF Aligned, Matched, Owed
<1>12. CASE Join
  <2>1. fileQ' = << >> /\ resultQ' = << >> /\ expected' = << >> /\ npc' # "stream"
        /\ dpc' \in {"idle", "exited"}
    BY <1>12 DEF Join
  <2>2. Owing' = {} /\ InDisk' = {}
    BY <2>1, SMTT(60) DEF Owing, InDisk, Queued, Starts, Busy
  <2>3. QED
    BY <2>1, <2>2, SMTT(60) DEF Aligned, Matched, Owed, Out
<1>13. CASE SweepBackup
  BY <1>13, <1>c DEF SweepBackup
<1>14. CASE SweepRename
  BY <1>14, <1>c DEF SweepRename
<1>15. CASE SweepEnd
  BY <1>15, <1>c DEF SweepEnd, netVars
<1>17. CASE Stop
  BY <1>17, <1>c DEF Stop
<1>16. QED
  BY <1>1, <1>2, <1>3, <1>4, <1>5, <1>6, <1>7, <1>8, <1>9, <1>10, <1>11, <1>12, <1>13,
     <1>14, <1>15, <1>17 DEF Network

\* The result sent is the one owed next: both the files under way and the files
\* owed are in list order, so their least members are the same file.
LEMMA DiskStepAligned ==
  ASSUME Types, Answer, ListOrder, QueueOrder, Aligned, Disk
  PROVE  Aligned'
<1>a. /\ expected \in Seq(Files) /\ resultQ \in Seq(Results) /\ fileQ \in Seq(FileMsgs)
      /\ Len(expected) \in Nat /\ Len(resultQ) \in Nat /\ (InHand => cur \in Files)
      /\ Queued \subseteq Files /\ (Busy => dfile \in Files)
      /\ \A j \in 1..Len(fileQ) : fileQ[j].type = "shutdown" => npc = "join"
  <2>1. /\ expected \in Seq(Files) /\ resultQ \in Seq(Results) /\ fileQ \in Seq(FileMsgs)
        /\ (InHand => cur \in Files) /\ Queued \subseteq Files /\ (Busy => dfile \in Files)
        /\ \A j \in 1..Len(fileQ) : fileQ[j].type = "shutdown" => npc = "join"
    BY DEF Types
  <2>2. Len(expected) \in Nat /\ Len(resultQ) \in Nat
    BY <2>1, SMTT(60)
  <2>3. QED
    BY <2>1, <2>2
<1>b. UNCHANGED <<npc, outcome, expected, cur>>
  BY DiskStepTypes DEF netVars
<1>1. CASE ~SendResult
  <2>1. InDisk' = InDisk /\ resultQ' = resultQ
    BY <1>1, DiskKeeps
  <2>2. Out' = Out
    BY <1>b, <2>1 DEF Out, Owing
  <2>3. Matched'
    BY <1>b, <2>1 DEF Aligned, Matched
  <2>4. Clean' => Clean
    <3>1. CASE dpc = "send"
      BY <1>1, <3>1 DEF Disk, DiskRecv, InplaceBackup, OpenOutput, SetupWriter, Discard,
            FileRecv, WriteWhole, Verify, CommitBackup, CommitRename, CommitCopy
    <3>2. CASE dpc = "idle"
      <4>1. DiskRecv
        BY <1>1, <3>2 DEF Disk, DiskRecv, InplaceBackup, OpenOutput, SetupWriter, Discard,
            FileRecv, WriteWhole, Verify, CommitBackup, CommitRename, CommitCopy
      <4>2. CASE LeftOver
        <5>1. dpc' = "send" /\ dres' = ErrResult("stray", Head(fileQ).file)
          BY <4>1, <4>2 DEF DiskRecv, LeftOver, Rest, Finish
        <5>2. dres'.kind = "stray"
          BY <5>1 DEF ErrResult, NoResult
        <5>3. QED
          BY <5>1, <5>2 DEF Clean
      <4>3. QED
        BY <1>b, <2>1, <3>2, <4>2 DEF Clean
    <3>3. QED
      BY <1>b, <2>1, <3>1, <3>2 DEF Clean
  <2>5. QED
    BY <1>b, <2>1, <2>2, <2>3, <2>4 DEF Aligned, Owed
<1>2. CASE SendResult
  <2>a. /\ dpc = "send" /\ resultQ' = Append(resultQ, dres) /\ UNCHANGED <<fileQ, dfile, dres>>
        /\ dpc' \in {"idle", "exited"} /\ dres \in Results
        /\ dpc' = IF ~dres.ok /\ dres.kind = "intr" THEN "exited" ELSE "idle"
    BY <1>2 DEF SendResult, Types
  <2>b. /\ Len(resultQ') = Len(resultQ) + 1 /\ resultQ'[Len(resultQ) + 1] = dres
        /\ \A i \in 1..Len(resultQ) : resultQ'[i] = resultQ[i]
        /\ Len(resultQ) + 1 \in 1..Len(resultQ')
    BY <1>a, <2>a, SMTT(60)
  <2>c. Queued' = Queued /\ ~Busy' /\ InDisk' = Queued
    BY <2>a DEF Queued, Starts, Busy, InDisk
  <2>1. ASSUME Clean
        PROVE  /\ dres.src = dfile /\ dfile \in Files /\ dfile \notin Queued
               /\ \/ Len(resultQ) < Len(expected) /\ dfile = expected[Len(resultQ) + 1]
                     /\ Owing = {dfile} \cup Owing' /\ dfile \notin Owing' /\ (npc = "stream" => dfile # cur)
                  \/ Len(resultQ) = Len(expected) /\ npc = "stream" /\ dfile = cur
    <3>1. Busy /\ dfile \in Files /\ dres.src = dfile
      BY <1>a, <2>1, <2>a DEF Clean, Busy, Answer
    <3>2. \A f \in Queued : dfile < f
      BY <3>1 DEF QueueOrder
    <3>3. dfile \notin Queued
      BY <1>a, <3>1, <3>2, SMTT(60) DEF Files
    <3>4. Len(resultQ) <= Len(expected) /\ Out = InDisk /\ InDisk = Queued \cup {dfile}
      BY <2>1, <3>1 DEF Aligned, Owed, InDisk
    <3>5. CASE Len(resultQ) = Len(expected)
      <4>1. Owing = {}
        BY <1>a, <3>5, SMTT(60) DEF Owing
      <4>2. npc = "stream" /\ dfile = cur
        BY <3>4, <4>1, SMTT(60) DEF Out
      <4>3. QED
        BY <3>1, <3>3, <3>5, <4>2
    <3>6. CASE Len(resultQ) # Len(expected)
      <4> DEFINE n == Len(resultQ) + 1
      <4>1. n \in 1..Len(expected) /\ n \in Len(resultQ) + 1 .. Len(expected) /\ n - 1 = Len(resultQ)
            /\ Len(resultQ) < Len(expected)
        BY <1>a, <3>4, <3>6, SMTT(60)
      <4>2. expected[n] \in InDisk /\ expected[n] \in Files
        BY <1>a, <3>4, <4>1, SMTT(60) DEF Out, Owing
      <4>3. ASSUME NEW i \in n..Len(expected) PROVE expected[n] <= expected[i]
        <5>1. i \in 1..Len(expected) /\ (i = n \/ n < i)
          BY <1>a, <4>1, SMTT(60)
        <5>2. n < i => expected[n] < expected[i]
          BY <4>1, <5>1 DEF ListOrder, Increasing
        <5>3. expected[i] \in Files
          BY <1>a, <5>1, SMTT(60)
        <5>4. QED
          BY <4>2, <5>1, <5>2, <5>3, SMTT(60) DEF Files
      <4>4. npc = "stream" => expected[n] < cur /\ cur \in Files
        BY <1>a, <4>1 DEF ListOrder, InHand, Elems
      <4>5. expected[n] <= dfile
        <5>1. dfile \in Out
          BY <3>4
        <5>2. CASE dfile \in Owing
          <6>1. PICK i \in n..Len(expected) : dfile = expected[i]
            BY <5>2 DEF Owing
          <6>2. QED
            BY <4>3, <6>1
        <5>3. CASE npc = "stream" /\ dfile = cur
          BY <4>2, <4>4, <5>3, SMTT(60) DEF Files
        <5>4. QED
          BY <5>1, <5>2, <5>3 DEF Out
      <4>6. dfile = expected[n]
        BY <3>1, <3>2, <3>4, <4>2, <4>5, SMTT(60) DEF Files
      <4>7. Owing' = {expected[i] : i \in n + 1 .. Len(expected)}
        BY <1>b, <2>b DEF Owing
      <4>8. Owing = {dfile} \cup Owing'
        <5>1. \A i \in n..Len(expected) : i = n \/ i \in n + 1 .. Len(expected)
          BY <1>a, <4>1, SMTT(60)
        <5>2. \A i \in n + 1 .. Len(expected) : i \in n..Len(expected)
          BY <1>a, <4>1, SMTT(60)
        <5>3. Owing = {expected[i] : i \in n..Len(expected)}
          BY DEF Owing
        <5>4. QED
          BY <4>1, <4>6, <4>7, <5>1, <5>2, <5>3
      <4>9. dfile \notin Owing'
        <5>1. ASSUME NEW i \in n + 1 .. Len(expected) PROVE dfile # expected[i]
          <6>1. n < i /\ i \in 1..Len(expected) /\ n \in 1..Len(expected) /\ expected[i] \in Files
            BY <1>a, <4>1, SMTT(60)
          <6>2. expected[n] < expected[i]
            BY <6>1 DEF ListOrder, Increasing
          <6>3. QED
            BY <4>2, <4>6, <6>1, <6>2, SMTT(60) DEF Files
        <5>2. QED
          BY <4>7, <5>1
      <4>10. npc = "stream" => dfile # cur
        BY <4>2, <4>4, <4>6, SMTT(60) DEF Files
      <4>11. QED
        BY <3>1, <3>3, <4>1, <4>6, <4>8, <4>9, <4>10
    <3>7. QED
      BY <3>5, <3>6
  <2>2. ASSUME Clean' PROVE Clean
    <3>1. outcome # "err" /\ \A i \in 1..Len(resultQ) : ~Fatal(resultQ[i])
      BY <1>a, <1>b, <2>2, <2>b, SMTT(60) DEF Clean
    <3>2. ~Fatal(dres)
      BY <2>2, <2>b DEF Clean
    <3>3. dres.kind # "stray"
      BY <3>2 DEF Fatal, Answer
    <3>4. QED
      BY <2>a, <3>1, <3>3 DEF Clean
  <2>3. Matched'
    <3>1. SUFFICES ASSUME outcome # "err", NEW i \in 1..Len(resultQ'),
                          \A j \in 1..i - 1 : ~Fatal(resultQ'[j]), resultQ'[i].kind # "stray"
                   PROVE  \/ i <= Len(expected) /\ resultQ'[i].src = expected[i]
                          \/ i = Len(expected) + 1 /\ npc = "stream" /\ resultQ'[i].src = cur
      BY <1>b DEF Matched
    <3>2. CASE i \in 1..Len(resultQ)
      <4>1. \A j \in 1..i - 1 : resultQ'[j] = resultQ[j]
        BY <1>a, <2>b, <3>2, SMTT(60)
      <4>2. \A j \in 1..i - 1 : ~Fatal(resultQ[j])
        BY <3>1, <4>1
      <4>3. QED
        BY <2>b, <3>1, <3>2, <4>2 DEF Aligned, Matched
    <3>3. CASE i = Len(resultQ) + 1
      <4>1. \A j \in 1..Len(resultQ) : ~Fatal(resultQ[j])
        <5>1. ASSUME NEW j \in 1..Len(resultQ) PROVE ~Fatal(resultQ[j])
          <6>1. j \in 1..i - 1
            BY <1>a, <3>3, SMTT(60)
          <6>2. QED
            BY <2>b, <3>1, <6>1
        <5>2. QED
          BY <5>1
      <4>2. Clean
        BY <2>a, <2>b, <3>1, <3>3, <4>1 DEF Clean
      <4>3. QED
        BY <1>a, <2>1, <2>b, <3>3, <4>2, SMTT(60)
    <3>4. QED
      BY <1>a, <2>b, <3>2, <3>3, SMTT(60)
  <2>4. ASSUME Clean' PROVE Len(resultQ') <= Len(expected') /\ Out' = InDisk'
    <3>1. Clean
      BY <2>2, <2>4
    <3>2. Out = Queued \cup {dfile}
      <4>1. Busy
        BY <2>a, <3>1 DEF Clean, Busy
      <4>2. QED
        BY <3>1, <4>1 DEF Aligned, Owed, InDisk
    <3>3. CASE Len(resultQ) < Len(expected)
      <4>1. Owing = {dfile} \cup Owing' /\ dfile \notin Owing' /\ (npc = "stream" => dfile # cur)
            /\ dfile \notin Queued
        BY <1>a, <2>1, <3>1, <3>3, SMTT(60)
      <4>2. Out' = Queued
        BY <1>b, <3>2, <4>1 DEF Out
      <4>3. QED
        BY <1>a, <1>b, <2>b, <2>c, <3>3, <4>2, SMTT(60)
    <3>4. CASE Len(resultQ) = Len(expected)
      <4>1. npc = "stream" /\ dfile = cur /\ cur \in Files
        BY <1>a, <2>1, <3>1, <3>4, SMTT(60)
      <4>2. ASSUME NEW f \in Queued PROVE FALSE
        <5>1. Busy
          BY <2>a, <3>1 DEF Clean, Busy
        <5>2. f \in InDisk /\ f \in Files
          BY <1>a, <4>2 DEF InDisk
        <5>3. f <= cur /\ dfile < f
          BY <4>1, <5>1, <5>2 DEF QueueOrder
        <5>4. QED
          BY <4>1, <5>2, <5>3, SMTT(60) DEF Files
      <4>3. LeftOver'
        <5>1. CASE fileQ = << >>
          BY <1>b, <2>a, <4>1, <5>1 DEF LeftOver
        <5>2. CASE fileQ # << >>
          <6>1. 1 \in 1..Len(fileQ) /\ Head(fileQ) = fileQ[1] /\ fileQ[1] \in FileMsgs
            BY <1>a, <5>2, SMTT(60)
          <6>2. fileQ[1].type \notin Starting
            BY <4>2, <6>1 DEF Queued, Starts
          <6>3. fileQ[1].type # "shutdown"
            BY <1>a, <4>1, <6>1
          <6>4. fileQ[1].type \in Rest
            BY <6>1, <6>2, <6>3 DEF FileMsgs, Starting, Rest
          <6>5. QED
            BY <2>a, <5>2, <6>1, <6>4 DEF LeftOver
        <5>3. QED
          BY <5>1, <5>2
      <4>4. dpc' = "idle"
        <5>1. ~Fatal(dres)
          BY <2>4, <2>b DEF Clean
        <5>2. QED
          BY <2>a, <5>1 DEF Fatal
      <4>5. QED
        BY <2>4, <4>3, <4>4 DEF Clean
    <3>5. QED
      BY <1>a, <2>1, <3>1, <3>3, <3>4
  <2>5. QED
    BY <2>3, <2>4 DEF Aligned, Owed
<1>3. QED
  BY <1>1, <1>2

LEMMA DiskStepPhase ==
  ASSUME Types, Phase, Disk
  PROVE  Phase' /\ dpc # "exited"
<1>1. UNCHANGED <<npc, netVars>>
  BY DiskStepTypes
<1>2. dpc # "exited"
  BY DEF Disk, DiskRecv, InplaceBackup, OpenOutput, SetupWriter, Discard, FileRecv,
        WriteWhole, Verify, CommitBackup, CommitRename, CommitCopy, SendResult
<1>3. QED
  BY <1>1, <1>2 DEF Phase, netVars

LEMMA NetStepAnswer ==
  ASSUME Answer, Network
  PROVE  Answer'
<1>1. CASE Join
  BY <1>1 DEF Join, Answer
<1>2. CASE SweepBackup \/ SweepRename
  BY <1>2 DEF SweepBackup, SweepRename, diskVars, Answer
<1>3. QED
  BY <1>1, <1>2, NetFrame DEF Answer, diskVars

-----------------------------------------------------------------------------
(* The inductive invariant, and what follows from it.                         *)

PipeInv == DiskInv /\ Phase /\ Answer /\ ListOrder /\ QueueOrder /\ Aligned

LEMMA InitPipe == Init => PipeInv
<1> SUFFICES ASSUME Init PROVE PipeInv
  OBVIOUS
<1>b. /\ todo = [f \in Files |-> f] /\ todo \in Seq(Files) /\ Len(todo) = NumFiles /\ NumFiles \in Nat
      /\ \A i \in 1..NumFiles : todo[i] = i
  BY DiskAssumption, SMTT(60) DEF Init, Files
<1>c. Elems(expected) = {} /\ Elems(redo) = {}
  BY ElemsEmpty DEF Init
<1>d. Queued = {} /\ Starts = {} /\ ~Busy /\ ~InHand /\ InDisk = {}
  BY SMTT(60) DEF Init, Queued, Starts, Busy, InHand, InDisk
<1>1. DiskInv
  BY InitDisk
<1>2. Phase /\ Answer
  BY DEF Init, Phase, Answer, Loop, NoResult
<1>3. ListOrder /\ QueueOrder
  <2>1. Increasing(todo) /\ Increasing(expected) /\ Increasing(redo)
    BY <1>b, SMTT(60) DEF Increasing, Init
  <2>2. QED
    BY <1>c, <1>d, <2>1 DEF ListOrder, QueueOrder, Init
<1>4. Aligned
  BY <1>d, SMTT(60) DEF Aligned, Matched, Owed, Clean, Out, Owing, Init
<1>5. QED
  BY <1>1, <1>2, <1>3, <1>4 DEF PipeInv

LEMMA StepPipe == PipeInv /\ [Next]_vars => PipeInv'
<1> SUFFICES ASSUME PipeInv, [Next]_vars PROVE PipeInv'
  OBVIOUS
<1>a. DiskInv'
  BY StepDisk DEF PipeInv
<1>1. CASE Network
  BY <1>1, <1>a, NetStepPhase, NetStepAnswer, NetStepLists, NetStepQueue,
     NetStepAligned DEF PipeInv, DiskInv
<1>2. CASE Disk
  <2>1. Phase' /\ Answer' /\ UNCHANGED <<npc, netVars>>
    BY <1>2, DiskStepTypes, DiskStepPhase, DiskStepAnswer DEF PipeInv, DiskInv
  <2>2. ListOrder' /\ QueueOrder' /\ Aligned'
    BY <1>2, <1>a, <2>1, DiskStepLists, DiskStepQueue, DiskStepAligned DEF PipeInv, DiskInv
  <2>3. QED
    BY <1>a, <2>1, <2>2 DEF PipeInv
<1>3. CASE UNCHANGED vars
  <2>1. Phase' /\ Answer'
    BY <1>3 DEF PipeInv, vars, netVars, diskVars, Phase, Answer
  <2>2. ListOrder' /\ QueueOrder'
    BY <1>3
         DEF PipeInv, vars, netVars, diskVars, ListOrder, QueueOrder, Open, InHand, InDisk, Unsent,
         Queued, Starts, Busy
  <2>3. Aligned'
    <3>1. Clean' = Clean /\ Out' = Out /\ InDisk' = InDisk
      BY <1>3 DEF vars, netVars, diskVars, Clean, LeftOver, Out, Owing, InDisk, Queued, Starts, Busy
    <3>2. QED
      BY <1>3, <3>1 DEF PipeInv, vars, netVars, Aligned, Matched, Owed
  <2>4. QED
    BY <1>a, <2>1, <2>2, <2>3 DEF PipeInv
<1>4. QED
  BY <1>1, <1>2, <1>3 DEF Next, Done

LEMMA PipeInvHolds == Spec => []PipeInv
BY InitPipe, StepPipe, PTL DEF Spec

\* up to the error that ends the loop, the i-th result in flight is about the i-th noted
\* commit (note_commit_sent, drain_ready_results, drain_all_results).
THEOREM ResultsStayMatched == Spec => []ResultsMatchCommits
<1>1. PipeInv => ResultsMatchCommits
  <2>1. SUFFICES ASSUME PipeInv, outcome # "err", NEW i \in 1..Len(resultQ), i <= Len(expected),
                        \A j \in 1..i - 1 : ~Fatal(resultQ[j])
                 PROVE  resultQ[i].kind = "stray" \/ resultQ[i].src = expected[i]
    BY DEF ResultsMatchCommits
  <2>2. Len(expected) \in Nat
    BY <2>1, SMTT(60) DEF PipeInv, DiskInv, Types
  <2>3. QED
    BY <2>1, <2>2, SMTT(60) DEF PipeInv, Aligned, Matched
<1>2. QED
  BY <1>1, PipeInvHolds, PTL

-----------------------------------------------------------------------------
(* What the pipeline leaves at the destinations: which version of a file is   *)
(* where before it is begun, while it is written, when its result is read,    *)
(* when its source is released, and at the end; and the bounds of the queues  *)
(* and of the books themselves.                                               *)

\* --partial puts interrupted files at their destination.
Keeps == cfg.partial # "partial"
Untouched(f) == fs[f].dest = fs[f].had
Waiting == Unsent \cup Queued

\* A result can be relied on: its file is where it says, or was not touched.
Told(r) ==
    r.ok => /\ r.src \in Files /\ r.digest \in {0, r.src}
            /\ (r.digest # 0 /\ ~r.delayed) => fs[r.src].dest = "new"
            /\ r.delayed => /\ r.digest = r.src /\ cfg.delay /\ fs[r.src].staged = "new"
                            /\ Keeps => Untouched(r.src)
            /\ (r.digest = 0 /\ NeedsRename /\ Keeps) => Untouched(r.src)

ToldInv ==
    /\ \A i \in 1..Len(resultQ) :
          /\ Told(resultQ[i])
          /\ resultQ[i].ok => resultQ[i].src \notin Ahead /\ resultQ[i].kind # "stray"
    /\ dpc = "send" => Told(dres)

\* A file the network thread has done with is not touched again, and is safe.
Safe(f) == fs[f].dest = "new" \/ (cfg.delay /\ fs[f].staged = "new")
Finished == success \cup confirmed

SettledInv ==
    /\ \A f \in confirmed : Safe(f) /\ f \notin Ahead
    /\ outcome # "err" =>
          /\ \A f \in Finished :
                /\ Safe(f) /\ f \notin Ahead /\ f \notin Open /\ f \notin Elems(redo)
                /\ ioError \/ fs[f].dest = "new" \/ f \in Elems(delayed)
          /\ \A f \in Elems(redo) : f \notin Ahead

\* The old version of a file is in place until it is in the backup.
InBackup(f) == fs[f].had = "old" => fs[f].backup = "old"
FirstTime == cfg.inplace => pass = 1

OldKept(f) == fs[f].had = "old" => "old" \in {fs[f].dest, fs[f].backup}

FreshFile ==
    /\ (NeedsRename /\ dpc \in {"backup", "open", "setup", "file", "write", "discard",
                                "verify", "commit"}) => Untouched(dfile)
    /\ (cfg.delay /\ dpc = "rename") => Untouched(dfile)
    /\ (NeedsRename /\ cfg.backup /\ ~cfg.delay /\ dpc \in {"rename", "copy"}) => InBackup(dfile)
    /\ (cfg.inplace /\ pass = 1 /\ dpc = "backup") => Untouched(dfile)
    /\ (cfg.inplace /\ pass = 1 /\ cfg.backup
          /\ dpc \in {"open", "setup", "file", "write", "discard", "verify", "commit", "rename"})
          => InBackup(dfile)

FreshInv ==
    Keeps =>
        /\ FirstTime => \A f \in Waiting : Untouched(f)
        /\ (NeedsRename /\ outcome # "err") => \A f \in Elems(redo) : Untouched(f)
        /\ FreshFile

\* The sweep finds each staged file once, with its destination as it was.
DelayedInv ==
    /\ outcome # "err" =>
          /\ \A i, j \in 1..Len(delayed) : i # j => delayed[i] # delayed[j]
          /\ \A f \in Elems(delayed) :
                /\ cfg.delay /\ fs[f].staged = "new"
                /\ f \notin Ahead /\ f \notin Open /\ f \notin Elems(redo)
                /\ Keeps => Untouched(f) \/ (npc = "sweep_rename" /\ f = Head(delayed))
    /\ (npc = "sweep_rename" /\ cfg.backup /\ Keeps /\ ~May("sweep_backup")) => InBackup(Head(delayed))
    /\ (npc = "done" /\ outcome = "ok") => delayed = << >>

\* No file is forgotten, and those a deadline left behind are only that.
CoverInv ==
    outcome # "err" =>
        /\ Files \subseteq Finished \cup Elems(redo) \cup metaErrs \cup failed \cup Open \cup cut
        /\ \A f \in cut : f \notin Finished /\ f \notin Elems(redo) /\ f \notin Open

-----------------------------------------------------------------------------
(* One step of the disk thread.                                                *)

\* Within a pass, what is ahead only shrinks.
LEMMA NetAhead ==
  ASSUME Types, Network, ~Join
  PROVE  Ahead' \subseteq Ahead /\ Waiting' \subseteq Waiting
<1>a. todo \in Seq(Files)
  BY DEF Types
<1>b. ASSUME UNCHANGED <<fileQ, diskVars>>, Unsent' \subseteq Unsent
      PROVE  Ahead' \subseteq Ahead /\ Waiting' \subseteq Waiting
  BY <1>b DEF Ahead, Waiting, InDisk, Queued, Starts, Busy, diskVars
<1>c. ASSUME NEW t \in {"begin", "whole", "chunk", "commit", "abort", "shutdown"}, Send(Msg(t)),
             UNCHANGED diskVars, Unsent' \subseteq Unsent, t \in Starting => cur \in Unsent
      PROVE  Ahead' \subseteq Ahead /\ Waiting' \subseteq Waiting
  <2>1. Queued' \subseteq Queued \cup Unsent
    BY <1>c, SendFacts
  <2>2. QED
    BY <1>c, <2>1 DEF Ahead, Waiting, InDisk, Busy, diskVars
<1>1. CASE StartFile
  <2>1. Elems(todo) = {cur'} \cup Elems(todo')
    BY <1>1, <1>a, ElemsTail DEF StartFile
  <2>2. Unsent' \subseteq Unsent
    BY <1>1, <2>1 DEF StartFile, Unsent, Fail
  <2>3. QED
    BY <1>1, <1>b, <2>2 DEF StartFile
<1>2. CASE SendWhole
  BY <1>2, <1>c DEF SendWhole, NoteCommit, Unsent, Starting
<1>3. CASE SendBegin
  BY <1>3, <1>c DEF SendBegin, netVars, Unsent, Starting
<1>4. CASE SendChunk
  BY <1>4, <1>c DEF SendChunk, Unsent, Starting
<1>5. CASE SendCommit
  BY <1>5, <1>c DEF SendCommit, NoteCommit, Unsent, Starting
<1>6. CASE StreamError
  BY <1>6, <1>b, <1>c DEF StreamError, Fail, Unsent, Starting
<1>7. CASE DrainReady
  <2>1. npc' \in {"drain", "next", "shut_drain"} /\ UNCHANGED <<todo, cur, fileQ, diskVars>>
    BY <1>7 DEF DrainReady, HandleResult
  <2>2. QED
    BY <1>b, <2>1 DEF Unsent, Starting
<1>8. CASE LoopEnd
  BY <1>8, <1>b DEF LoopEnd, Unsent, netVars, Starting
<1>8a. CASE Stop
  <2>1. Elems(todo') = {}
    BY <1>8a, ElemsEmpty DEF Stop
  <2>2. Unsent' \subseteq Unsent
    BY <1>8a, <2>1 DEF Stop, Unsent, Starting
  <2>3. QED
    BY <1>8a, <1>b, <2>2 DEF Stop
<1>9. CASE DrainAll
  <2>1. npc' \in {"drain_all", "shut_drain"} /\ UNCHANGED <<todo, cur, fileQ, diskVars>>
    BY <1>9 DEF DrainAll, HandleResult
  <2>2. QED
    BY <1>b, <2>1 DEF Unsent, Starting
<1>10. CASE ShutdownDrain
  <2>1. npc' \in {"shut_drain", "shut_send"} /\ UNCHANGED <<todo, cur, fileQ, diskVars>>
    BY <1>10 DEF ShutdownDrain, HandleResult
  <2>2. QED
    BY <1>b, <2>1 DEF Unsent, Starting
<1>11. CASE SendShutdown
  BY <1>11, <1>c DEF SendShutdown, Unsent, netVars, Starting
<1>12. CASE SweepBackup
  BY <1>12, <1>b DEF SweepBackup, Unsent, Starting
<1>13. CASE SweepRename
  BY <1>13, <1>b DEF SweepRename, Unsent, Starting
<1>14. CASE SweepEnd
  BY <1>14, <1>b DEF SweepEnd, Unsent, netVars, Starting
<1>15. QED
  BY <1>1, <1>2, <1>3, <1>4, <1>5, <1>6, <1>7, <1>8, <1>8a, <1>9, <1>10, <1>11, <1>12, <1>13,
     <1>14 DEF Network

\* The disk thread touches the file at hand only, and lets go of it for good.
LEMMA DiskAhead ==
  ASSUME Types, QueueOrder, Disk
  PROVE  /\ Ahead' \subseteq Ahead /\ Waiting' \subseteq Waiting
         /\ \A f \in Files \ Ahead : fs'[f] = fs[f]
         /\ \A f \in Waiting : fs'[f] = fs[f]
         /\ Busy => dfile \notin Waiting
<1>a. /\ UNCHANGED <<npc, netVars>> /\ \A g \in Files : g # dfile => fs'[g] = fs[g]
  BY DiskStepTypes
<1>b. Unsent' = Unsent /\ Unsent \subseteq Files /\ Queued \subseteq Files /\ (Busy => dfile \in Files)
  <2>1. todo \in Seq(Files) /\ (InHand => cur \in Files) /\ Queued \subseteq Files /\ (Busy => dfile \in Files)
    BY DEF Types
  <2>2. Elems(todo) \subseteq Files
    BY <2>1, SMTT(60) DEF Elems
  <2>3. QED
    BY <1>a, <2>1, <2>2 DEF Unsent, netVars, Starting, InHand
<1>1. InDisk' \subseteq InDisk /\ Queued' \subseteq Queued
  BY DiskMoves
<1>2. Busy => dfile \notin Waiting /\ dfile \in Ahead
  BY <1>b, SMTT(60) DEF QueueOrder, InDisk, Waiting, Ahead, Files
<1>3. ~Busy => fs' = fs
  <2>1. CASE DiskRecv
    BY <2>1 DEF DiskRecv
  <2>2. CASE SendResult
    BY <2>2 DEF SendResult
  <2>3. CASE dpc \notin {"idle", "send", "exited"}
    BY <2>3 DEF Busy
  <2>4. QED
    BY <2>1, <2>2, <2>3 DEF Disk, InplaceBackup, OpenOutput, SetupWriter, Discard, FileRecv,
        WriteWhole, Verify, CommitBackup, CommitRename, CommitCopy
<1>4. QED
  BY <1>a, <1>b, <1>1, <1>2, <1>3 DEF Ahead, Waiting

\* One step of the disk thread keeps the old version of the file at hand where it
\* belongs, and the result it ends with can be relied on.
LEMMA DiskStepFresh ==
  ASSUME Types, FileInv, Answer, QueueOrder, SettledInv, FreshInv, OldVersionKept, Disk
  PROVE  /\ FreshInv' /\ OldVersionKept'
         /\ (dpc' = "send" /\ dpc # "send") => Told(dres)'
<1> DEFINE Backs == cfg.backup /\ Keeps /\ FirstTime /\ (cfg.delay => ~May("sweep_backup"))
<1>a. /\ cfg' = cfg /\ UNCHANGED <<npc, netVars>> /\ \A g \in Files : g # dfile => fs'[g] = fs[g]
      /\ \A g \in Files : fs'[g].had = fs[g].had
  BY DiskStepTypes
<1>b. /\ fs \in [Files -> [Fields -> Contents]] /\ dpc \in DiskPlaces /\ dgood \in BOOLEAN
      /\ redo \in Seq(Files) /\ cfg \in Configs
  BY DEF Types
<1>c. dpc \in DiskPlaces \ {"idle", "exited", "send"} => dfile \in Files
  BY DEF Types, Busy, DiskPlaces
<1>d. /\ cfg.backup \in BOOLEAN /\ cfg.delay \in BOOLEAN /\ cfg.inplace \in BOOLEAN
      /\ ~(cfg.inplace /\ cfg.delay) /\ cfg.crossdev \in BOOLEAN
  BY <1>b, OptionFacts
<1>e. /\ Backs' = Backs /\ Keeps' = Keeps /\ NeedsRename' = NeedsRename /\ FirstTime' = FirstTime
      /\ pass' = pass /\ outcome' = outcome /\ redo' = redo
  BY <1>a DEF Keeps, NeedsRename, FirstTime, May, KindsOf, netVars
<1>f. Backs => \A f \in Files : OldKept(f)
  BY DEF OldVersionKept, Keeps, FirstTime, OldKept
<1>g. ASSUME Keeps => FreshFile', Backs => \A f \in Files : OldKept(f)'
      PROVE  FreshInv' /\ OldVersionKept'
  <2>1. OldVersionKept'
    BY <1>e, <1>g DEF OldVersionKept, Keeps, FirstTime, OldKept
  <2>2. /\ Waiting' \subseteq Waiting /\ \A f \in Files \ Ahead : fs'[f] = fs[f]
        /\ \A f \in Waiting : fs'[f] = fs[f]
    BY DiskAhead
  <2>3. Elems(redo) \subseteq Files
    BY <1>b, SMTT(60) DEF Elems
  <2>4. FreshInv'
    BY <1>e, <1>g, <2>2, <2>3 DEF FreshInv, SettledInv, Untouched
  <2>5. QED
    BY <2>1, <2>4
<1>h. ASSUME dfile \in Files, dfile' = dfile, Keeps => FreshFile', Backs => OldKept(dfile)'
      PROVE  FreshInv' /\ OldVersionKept'
  BY <1>a, <1>f, <1>g, <1>h DEF OldKept
<1>i. \A kind, f : Told(ErrResult(kind, f))'
  BY DEF Told, ErrResult, NoResult
<1>j. Backs => cfg.backup /\ Keeps /\ FirstTime
  OBVIOUS
<1> HIDE DEF Backs
<1>k. ASSUME dfile \in Files, dfile' = dfile, cfg.inplace, fs'[dfile].backup = fs[dfile].backup,
             dpc \in {"open", "setup", "file", "write", "discard", "verify", "commit", "rename"},
             dpc' \in {"open", "setup", "file", "write", "discard", "verify", "commit", "rename", "send"}
      PROVE  FreshInv' /\ OldVersionKept'
  <2>1. Keeps => FreshFile'
    BY <1>a, <1>d, <1>e, <1>k DEF FreshInv, FreshFile, InBackup, NeedsRename
  <2>2. Backs => OldKept(dfile)'
    BY <1>a, <1>j, <1>k DEF FreshInv, FreshFile, InBackup, OldKept, FirstTime
  <2>3. QED
    BY <1>h, <1>k, <2>1, <2>2
<1>l. ASSUME dfile \in Files, dfile' = dfile, NeedsRename, fs'[dfile].backup = fs[dfile].backup,
             Keeps => fs'[dfile].dest = fs[dfile].dest,
             dpc \in {"open", "setup", "file", "write", "discard", "verify", "commit"} \/ dpc' = "send",
             dpc' \in {"open", "setup", "file", "write", "discard", "verify", "commit", "send"}
      PROVE  FreshInv' /\ OldVersionKept'
  <2>1. Keeps => FreshFile'
    BY <1>a, <1>d, <1>e, <1>l DEF FreshInv, FreshFile, Untouched, NeedsRename
  <2>2. Backs => OldKept(dfile)'
    BY <1>a, <1>f, <1>j, <1>l DEF OldKept
  <2>3. QED
    BY <1>h, <1>l, <2>1, <2>2
<1>m. ASSUME dfile \in Files, dfile' = dfile,
             dpc \in {"open", "setup", "file", "write", "discard", "verify", "commit", "rename"},
             fs' = DropTemp \/ fs' = fs, dpc' \in {"send", "discard"}, dpc' = "send" \/ dpc \in {"open", "discard"}
      PROVE  FreshInv' /\ OldVersionKept'
  <2>1. fs'[dfile].dest = fs[dfile].dest /\ fs'[dfile].backup = fs[dfile].backup
    BY <1>m, DropFacts
  <2>2. QED
    BY <1>d, <1>k, <1>l, <1>m, <2>1 DEF NeedsRename
<1>n. ASSUME dfile \in Files, dfile' = dfile, dres'.src = dfile, dres'.digest = dfile, ~dres'.delayed,
             fs'[dfile].dest = "new"
      PROVE  Told(dres)'
  <2>1. dfile # 0
    BY <1>n, SMTT(60) DEF Files
  <2>2. QED
    BY <1>n, <2>1 DEF Told
<1>1. CASE DiskRecv
  <2>1. dpc = "idle" /\ fs' = fs
    BY <1>1 DEF DiskRecv
  <2>2. Backs => \A f \in Files : OldKept(f)'
    BY <1>f, <2>1 DEF OldKept
  <2>3. CASE dpc' = "backup"
    <3>1. dfile' \in Queued
      BY <1>1, <2>3, DiskMoves DEF DiskRecv, Starting, Finish, Busy
    <3>2. Keeps => FreshFile'
      BY <1>e, <2>1, <2>3, <3>1 DEF FreshInv, FreshFile, Waiting, FirstTime, NeedsRename, Untouched
    <3>3. QED
      BY <1>g, <2>2, <2>3, <3>2
  <2>4. CASE dpc' \in {"exited", "send"}
    <3>1. FreshFile'
      BY <2>4 DEF FreshFile
    <3>2. dpc' = "send" => Told(dres)'
      BY <1>1, <1>i, <2>4, SMTT(60) DEF DiskRecv, Finish, Told
    <3>3. QED
      BY <1>g, <2>2, <3>1, <3>2
  <2>5. QED
    BY <1>1, <2>3, <2>4 DEF DiskRecv, Finish
<1>2. CASE InplaceBackup
  <2>1. dfile \in Files /\ dpc = "backup" /\ dfile' = dfile
    BY <1>2, <1>c DEF InplaceBackup, DiskPlaces
  <2>2. CASE fs' = SetFs(dfile, "backup", fs[dfile].dest) /\ dpc' = "open" /\ cfg.inplace
    <3>1. fs'[dfile].dest = fs[dfile].dest /\ fs'[dfile].backup = fs[dfile].dest
          /\ fs'[dfile].had = fs[dfile].had
      BY <1>b, <2>1, <2>2 DEF SetFs, Fields
    <3>2. Keeps => FreshFile'
      BY <1>a, <1>e, <2>1, <2>2, <3>1 DEF FreshInv, FreshFile, Untouched, InBackup, NeedsRename
    <3>3. Backs => OldKept(dfile)'
      BY <1>f, <1>j, <2>1, <2>2, <3>1 DEF FreshInv, FreshFile, Untouched, OldKept, FirstTime
    <3>4. QED
      BY <1>h, <2>1, <2>2, <3>2, <3>3
  <2>3. CASE UNCHANGED fs /\ dpc' = "send" /\ \E kind \in KindsOf("backup") : dres' = ErrResult(kind, dfile)
    <3>1. FreshFile'
      BY <2>3 DEF FreshFile
    <3>2. Backs => OldKept(dfile)'
      BY <1>f, <2>1, <2>3 DEF OldKept
    <3>3. Told(dres)'
      BY <1>i, <2>3, ZenonT(60) DEF Told
    <3>4. QED
      BY <1>h, <2>1, <3>1, <3>2, <3>3
  <2>4. CASE /\ UNCHANGED fs /\ dpc' = "open"
             /\ ~(cfg.inplace /\ ~cfg.delay /\ cfg.backup /\ fs[dfile].dest /= "none")
    <3>1. Keeps => FreshFile'
      BY <1>a, <1>d, <1>e, <2>1, <2>4 DEF FreshInv, FreshFile, Untouched, InBackup, NeedsRename
    <3>2. Backs => OldKept(dfile)'
      BY <1>f, <2>1, <2>4 DEF OldKept
    <3>3. QED
      BY <1>h, <2>1, <2>4, <3>1, <3>2
  <2>5. QED
    BY <1>2, <2>2, <2>3, <2>4 DEF InplaceBackup, Finish
<1>3. CASE OpenOutput
  <2>1. dfile \in Files /\ dpc = "open" /\ dfile' = dfile
    BY <1>3, <1>c DEF OpenOutput, DiskPlaces
  <2>2. CASE fs' = fs /\ dpc' # "setup" /\ \E kind \in KindsOf("open") : dres' = ErrResult(kind, dfile)
    <3>1. dpc' \in {"send", "discard"}
      BY <1>3, <2>2 DEF OpenOutput, AfterOpenError
    <3>2. Told(dres)'
      BY <1>i, <2>2, ZenonT(60) DEF Told
    <3>3. QED
      BY <1>m, <2>1, <2>2, <3>1, <3>2
  <2>3. CASE dpc' = "setup" /\ fs' = IF NeedsRename THEN SetFs(dfile, "temp", "short")
                   ELSE IF fs[dfile].dest = "none" THEN SetFs(dfile, "dest", "short")
                   ELSE fs
    <3>1. fs'[dfile].backup = fs[dfile].backup /\ (NeedsRename => fs'[dfile].dest = fs[dfile].dest)
      BY <1>b, <2>1, <2>3 DEF SetFs, Fields
    <3>2. QED
      BY <1>d, <1>k, <1>l, <2>1, <2>3, <3>1 DEF NeedsRename
  <2>4. QED
    BY <1>3, <2>2, <2>3 DEF OpenOutput, AfterOpenError
<1>4. CASE SetupWriter
  <2>1. dfile \in Files /\ dpc = "setup" /\ dfile' = dfile
    BY <1>4, <1>c DEF SetupWriter, DiskPlaces
  <2>2. CASE fs' = DropTemp /\ dpc' = "send" /\ \E kind \in KindsOf("setup") : dres' = ErrResult(kind, dfile)
    <3>1. Told(dres)'
      BY <1>i, <2>2, ZenonT(60) DEF Told
    <3>2. QED
      BY <1>m, <2>1, <2>2, <3>1
  <2>3. CASE UNCHANGED fs /\ dpc' \in {"write", "file"}
    BY <1>d, <1>k, <1>l, <2>1, <2>3 DEF NeedsRename
  <2>4. QED
    BY <1>4, <2>2, <2>3 DEF SetupWriter, Finish
<1>5. CASE Discard
  <2>1. dfile \in Files /\ dpc = "discard" /\ dfile' = dfile /\ fs' = fs /\ dpc' \in {"discard", "send"}
    BY <1>5, <1>c DEF Discard, DiskPlaces, Finish
  <2>2. ~dres'.ok
    BY <1>5 DEF Discard, Finish, ErrResult, NoResult, Answer
  <2>3. QED
    BY <1>m, <2>1, <2>2 DEF Told
<1>6. CASE FileRecv
  <2>1. dfile \in Files /\ dpc = "file" /\ dfile' = dfile
    BY <1>6, <1>c DEF FileRecv, DiskPlaces
  <2>2. CASE dpc' = "send"
    <3>1. ~dres'.ok
      BY <1>6, <2>1, <2>2 DEF FileRecv, Finish, ErrResult, NoResult
    <3>2. fs' = DropTemp \/ (NeedsRename /\ Retain)
      BY <1>6, <2>1, <2>2 DEF FileRecv, RetainOrDrop
    <3>3. CASE fs' = DropTemp
      BY <1>m, <2>1, <2>2, <3>1, <3>3 DEF Told
    <3>4. CASE NeedsRename /\ Retain
      BY <1>l, <2>1, <2>2, <3>1, <3>4, RetainFacts DEF Told, Keeps
    <3>5. QED
      BY <3>2, <3>3, <3>4
  <2>3. CASE dpc' # "send"
    <3>1. \/ dpc' = "file" /\ fs' = SetFs(dfile, Target, "short")
          \/ dpc' = "verify" /\ fs' = IF NeedsRename THEN SetFs(dfile, "temp", Complete) ELSE fs
      BY <1>6, <2>1, <2>3 DEF FileRecv, Finish
    <3>2. fs'[dfile].backup = fs[dfile].backup /\ (NeedsRename => fs'[dfile].dest = fs[dfile].dest)
      BY <1>b, <2>1, <3>1, ZenonT(60) DEF SetFs, Fields, Target
    <3>3. QED
      BY <1>d, <1>k, <1>l, <2>1, <3>1, <3>2 DEF NeedsRename
  <2>4. QED
    BY <2>2, <2>3
<1>7. CASE WriteWhole
  <2>1. dfile \in Files /\ dpc = "write" /\ dfile' = dfile
    BY <1>7, <1>c DEF WriteWhole, DiskPlaces
  <2>2. CASE fs' = DropTemp /\ dpc' = "send" /\ \E kind \in KindsOf("write") : dres' = ErrResult(kind, dfile)
    <3>1. Told(dres)'
      BY <1>i, <2>2, ZenonT(60) DEF Told
    <3>2. QED
      BY <1>m, <2>1, <2>2, <3>1
  <2>3. CASE dpc' = "verify" /\ fs' = SetFs(dfile, Target, IF NeedsRename THEN Complete ELSE "short")
    <3>1. fs'[dfile].backup = fs[dfile].backup /\ (NeedsRename => fs'[dfile].dest = fs[dfile].dest)
      BY <1>b, <2>1, <2>3 DEF SetFs, Fields, Target
    <3>2. QED
      BY <1>d, <1>k, <1>l, <2>1, <2>3, <3>1 DEF NeedsRename
  <2>4. QED
    BY <1>7, <2>2, <2>3 DEF WriteWhole, Finish
<1>8. CASE Verify
  <2>1. dfile \in Files /\ dpc = "verify" /\ dfile' = dfile /\ dgood' = dgood
    BY <1>8, <1>c DEF Verify, DiskPlaces
  <2>2. CASE Withheld /\ Retain /\ dpc' = "send" /\ dres' = OkResult(FALSE, FALSE)
    <3>1. FreshInv' /\ OldVersionKept'
      BY <1>l, <2>1, <2>2, RetainFacts DEF Withheld, Keeps
    <3>2. dres'.src = dfile /\ dres'.digest = 0 /\ dres'.delayed = FALSE
      BY <2>2 DEF OkResult, Withheld
    <3>3. Keeps => Untouched(dfile)'
      BY <1>a, <2>1, <2>2, RetainFacts DEF FreshInv, FreshFile, Untouched, Withheld, Keeps
    <3>4. Told(dres)'
      BY <1>a, <1>e, <2>1, <3>2, <3>3 DEF Told
    <3>5. QED
      BY <3>1, <3>4
  <2>3. CASE UNCHANGED fs /\ dpc' = "commit"
    BY <1>d, <1>k, <1>l, <2>1, <2>3 DEF NeedsRename
  <2>4. QED
    BY <1>8, <2>2, <2>3 DEF Verify, Finish
<1>9. CASE CommitBackup
  <2>1. dfile \in Files /\ dpc = "commit" /\ dfile' = dfile
    BY <1>9, <1>c DEF CommitBackup, DiskPlaces
  <2>2. CASE fs' = DropTemp /\ dpc' = "send" /\ \E kind \in KindsOf("commit_backup") : dres' = ErrResult(kind, dfile)
    <3>1. Told(dres)'
      BY <1>i, <2>2, ZenonT(60) DEF Told
    <3>2. QED
      BY <1>m, <2>1, <2>2, <3>1
  <2>3. CASE NeedsBackup /\ dpc' = "rename" /\ fs' = MoveFs(dfile, "dest", "backup")
    <3>1. fs'[dfile].backup = fs[dfile].dest /\ fs'[dfile].had = fs[dfile].had
      BY <1>b, <2>1, <2>3 DEF MoveFs, Fields, Contents
    <3>2. Keeps => FreshFile'
      BY <1>a, <1>e, <2>1, <2>3, <3>1
           DEF FreshInv, FreshFile, Untouched, InBackup, NeedsRename, NeedsBackup
    <3>3. Backs => OldKept(dfile)'
      BY <1>j, <2>1, <2>3, <3>1 DEF FreshInv, FreshFile, Untouched, OldKept, NeedsBackup
    <3>4. QED
      BY <1>h, <2>1, <2>3, <3>2, <3>3
  <2>4. CASE ~NeedsBackup /\ dpc' = "rename" /\ UNCHANGED fs
    <3>1. Keeps => FreshFile'
      BY <1>a, <1>d, <1>e, <2>1, <2>4
           DEF FreshInv, FreshFile, Untouched, InBackup, NeedsRename, NeedsBackup
    <3>2. Backs => OldKept(dfile)'
      BY <1>f, <2>1, <2>4 DEF OldKept
    <3>3. QED
      BY <1>h, <2>1, <2>4, <3>1, <3>2
  <2>5. QED
    BY <1>9, <2>2, <2>3, <2>4 DEF CommitBackup, Finish
<1>10. CASE CommitRename
  <2>1. dfile \in Files /\ dpc = "rename" /\ dfile' = dfile /\ dgood' = dgood
    BY <1>10, <1>c DEF CommitRename, DiskPlaces
  <2>2. CASE fs' = DropTemp /\ dpc' = "send" /\ \E kind \in KindsOf("rename") : dres' = ErrResult(kind, dfile)
    <3>1. Told(dres)'
      BY <1>i, <2>2, SMTT(60) DEF Told
    <3>2. QED
      BY <1>m, <2>1, <2>2, <3>1
  <2>3. CASE /\ NeedsRename /\ cfg.delay /\ fs' = MoveFs(dfile, "temp", "staged") /\ dpc' = "send"
             /\ \E meta \in {FALSE, May("meta")} : dres' = OkResult(TRUE, meta)
    <3>1. fs'[dfile].staged = fs[dfile].temp /\ fs'[dfile].dest = fs[dfile].dest
          /\ fs'[dfile].backup = fs[dfile].backup
      BY <1>b, <2>1, <2>3 DEF MoveFs, Fields, Contents
    <3>2. fs[dfile].temp = "new" /\ dgood
      BY <2>1, <2>3 DEF FileInv, TempInv, Complete
    <3>3. FreshInv' /\ OldVersionKept'
      BY <1>l, <2>1, <2>3, <3>1
    <3>4. dres'.src = dfile /\ dres'.digest = dfile /\ dres'.delayed
      BY <2>3, <3>2, SMTT(60) DEF OkResult
    <3>5. Keeps => Untouched(dfile)'
      BY <1>a, <2>1, <2>3, <3>1 DEF FreshInv, FreshFile, Untouched
    <3>6. Told(dres)'
      BY <1>a, <1>e, <2>1, <2>3, <3>1, <3>2, <3>4, <3>5 DEF Told
    <3>7. QED
      BY <3>3, <3>6
  <2>4. CASE /\ NeedsRename /\ ~cfg.delay /\ cfg.crossdev /\ fs' = SetFs(dfile, "dest", "short")
             /\ dpc' = "copy"
    <3>1. fs'[dfile].backup = fs[dfile].backup /\ fs'[dfile].had = fs[dfile].had
      BY <1>b, <2>1, <2>4 DEF SetFs, Fields
    <3>2. Keeps => FreshFile'
      BY <1>a, <1>e, <2>1, <2>4, <3>1 DEF FreshInv, FreshFile, InBackup, NeedsRename
    <3>3. Backs => OldKept(dfile)'
      BY <1>j, <2>1, <2>4, <3>1 DEF FreshInv, FreshFile, InBackup, OldKept
    <3>4. QED
      BY <1>h, <2>1, <2>4, <3>2, <3>3
  <2>5. CASE /\ ~(NeedsRename /\ (cfg.delay \/ cfg.crossdev)) /\ dpc' = "send"
             /\ fs' = [fs EXCEPT ![dfile].dest = Complete, ![dfile].temp = "none",
                              ![dfile].partial = IF cfg.partial = "dir" THEN "none" ELSE @]
             /\ \E meta \in {FALSE, May("meta")} : dres' = OkResult(FALSE, meta)
    <3>1. fs'[dfile].dest = Complete /\ fs'[dfile].backup = fs[dfile].backup
          /\ fs'[dfile].had = fs[dfile].had
      BY <1>b, <2>1, <2>5 DEF Fields
    <3>2. FreshFile'
      BY <2>5 DEF FreshFile
    <3>3. Backs => OldKept(dfile)'
      BY <1>d, <1>j, <2>1, <2>5, <3>1 DEF FreshInv, FreshFile, InBackup, OldKept, NeedsRename, FirstTime
    <3>4. dres'.src = dfile /\ dres'.digest = (IF dgood THEN dfile ELSE 0) /\ ~dres'.delayed
      BY <2>5, SMTT(60) DEF OkResult
    <3>5. NeedsRename => dgood
      BY <2>1 DEF FileInv, TempInv
    <3>6. Told(dres)'
      BY <1>a, <1>e, <2>1, <3>1, <3>4, <3>5, SMTT(60) DEF Told, Complete, Files
    <3>7. QED
      BY <1>h, <2>1, <3>2, <3>3, <3>6
  <2>6. QED
    BY <1>10, <2>2, <2>3, <2>4, <2>5 DEF CommitRename, Finish
<1>11. CASE CommitCopy
  <2>1. dfile \in Files /\ dpc = "copy" /\ dfile' = dfile /\ dpc' = "send" /\ dgood' = dgood
    BY <1>11, <1>c DEF CommitCopy, DiskPlaces, Finish
  <2>2. /\ fs'[dfile].backup = fs[dfile].backup /\ fs'[dfile].had = fs[dfile].had
        /\ (dres' = OkResult(FALSE, FALSE) /\ fs'[dfile].dest = Complete)
             \/ \E kind \in KindsOf("copy") : dres' = ErrResult(kind, dfile)
    <3>1. CASE /\ fs' = [fs EXCEPT ![dfile].dest = Complete, ![dfile].temp = "none",
                                ![dfile].partial = IF cfg.partial = "dir" THEN "none" ELSE @]
               /\ dres' = OkResult(FALSE, FALSE)
      BY <1>b, <2>1, <3>1 DEF Fields
    <3>2. CASE \E kind \in KindsOf("copy"), c \in {"short", Complete} :
                 /\ fs' = [fs EXCEPT ![dfile].dest = c, ![dfile].temp = "none"]
                 /\ dres' = ErrResult(kind, dfile)
      <4>1. PICK kind \in KindsOf("copy"), c \in {"short", Complete} :
                 /\ fs' = [fs EXCEPT ![dfile].dest = c, ![dfile].temp = "none"]
                 /\ dres' = ErrResult(kind, dfile)
        BY <3>2
      <4>2. fs'[dfile].backup = fs[dfile].backup /\ fs'[dfile].had = fs[dfile].had
        BY <1>b, <2>1, <4>1 DEF Fields
      <4>3. QED
        BY <4>1, <4>2
    <3>3. QED
      BY <1>11, <3>1, <3>2 DEF CommitCopy, Finish
  <2>3. FreshFile'
    BY <2>1 DEF FreshFile
  <2>4. dgood /\ NeedsRename /\ ~cfg.delay
    BY <2>1 DEF FileInv, TempInv
  <2>5. Backs => OldKept(dfile)'
    BY <1>d, <1>j, <2>1, <2>2, <2>4 DEF FreshInv, FreshFile, InBackup, OldKept
  <2>6. Told(dres)'
    <3>1. CASE dres' = OkResult(FALSE, FALSE) /\ fs'[dfile].dest = Complete
      <4>1. dres'.src = dfile /\ dres'.digest = dfile /\ ~dres'.delayed
        BY <2>4, <3>1 DEF OkResult
      <4>2. fs'[dfile].dest = "new"
        BY <2>4, <3>1 DEF Complete
      <4>3. QED
        BY <1>n, <2>1, <4>1, <4>2
    <3>2. CASE \E kind \in KindsOf("copy") : dres' = ErrResult(kind, dfile)
      BY <1>i, <3>2, ZenonT(60) DEF Told
    <3>3. QED
      BY <2>2, <3>1, <3>2
  <2>7. QED
    BY <1>h, <2>1, <2>3, <2>5, <2>6
<1>12. CASE SendResult
  <2>1. dpc = "send" /\ dpc' \in {"idle", "exited"} /\ fs' = fs
    BY <1>12 DEF SendResult
  <2>2. FreshFile' /\ (Backs => \A f \in Files : OldKept(f)')
    BY <1>f, <2>1 DEF FreshFile, OldKept
  <2>3. QED
    BY <1>g, <2>1, <2>2
<1>13. QED
  BY <1>1, <1>2, <1>3, <1>4, <1>5, <1>6, <1>7, <1>8, <1>9, <1>10, <1>11, <1>12 DEF Disk

\* Results in flight stay reliable: the disk thread has let go of their files.
LEMMA DiskStepTold ==
  ASSUME Types, FileInv, Answer, QueueOrder, SettledInv, FreshInv, OldVersionKept, ToldInv, Disk
  PROVE  ToldInv'
<1> DEFINE Holds(r) ==
      r.ok => /\ r.src \in Files /\ r.digest \in {0, r.src}
              /\ (r.digest # 0 /\ ~r.delayed) => fs'[r.src].dest = "new"
              /\ r.delayed => /\ r.digest = r.src /\ cfg.delay /\ fs'[r.src].staged = "new"
                              /\ Keeps => fs'[r.src].dest = fs'[r.src].had
              /\ (r.digest = 0 /\ NeedsRename /\ Keeps) => fs'[r.src].dest = fs'[r.src].had
<1>a. cfg' = cfg /\ (\A g \in Files : fs'[g].had = fs[g].had) /\ resultQ \in Seq(Results)
  BY DiskStepTypes DEF Types
<1>b. /\ Ahead' \subseteq Ahead /\ Waiting' \subseteq Waiting /\ \A f \in Files \ Ahead : fs'[f] = fs[f]
      /\ Busy => dfile \notin Waiting
  BY DiskAhead
<1>c. ASSUME NEW r, Told(r), r.ok => r.src \notin Ahead
      PROVE  Holds(r) /\ (r.ok => r.src \notin Ahead')
  <2>1. r.ok => r.src \in Files /\ fs'[r.src] = fs[r.src]
    BY <1>b, <1>c DEF Told
  <2>2. QED
    BY <1>a, <1>b, <1>c, <2>1 DEF Told, Untouched
<1>d. ASSUME \A i \in 1..Len(resultQ') :
                Holds(resultQ'[i]) /\ (resultQ'[i].ok => resultQ'[i].src \notin Ahead' /\ resultQ'[i].kind # "stray"),
             dpc' = "send" => Told(dres)'
      PROVE  ToldInv'
  BY <1>a, <1>d DEF ToldInv, Told, Untouched, Keeps, NeedsRename
<1> HIDE DEF Holds
<1>1. CASE ~SendResult
  <2>1. resultQ' = resultQ
    BY <1>1, DiskKeeps
  <2>2. dpc' = "send" => Told(dres)'
    <3>1. dpc # "send"
      BY <1>1 DEF Disk, DiskRecv, InplaceBackup, OpenOutput, SetupWriter, Discard, FileRecv,
        WriteWhole, Verify, CommitBackup, CommitRename, CommitCopy
    <3>2. QED
      BY <3>1, DiskStepFresh
  <2>3. \A i \in 1..Len(resultQ) : Holds(resultQ[i])
                /\ (resultQ[i].ok => resultQ[i].src \notin Ahead' /\ resultQ[i].kind # "stray")
    BY <1>c DEF ToldInv
  <2>4. QED
    BY <1>d, <2>1, <2>2, <2>3
<1>2. CASE SendResult
  <2>1. dpc = "send" /\ dpc' # "send" /\ resultQ' = Append(resultQ, dres) /\ dpc' \in {"idle", "exited"}
        /\ fs' = fs
    BY <1>2 DEF SendResult
  <2>2. dres.ok => dres.kind # "stray" /\ dres.src \notin Ahead'
    <3>1. SUFFICES ASSUME dres.ok PROVE dres.kind # "stray" /\ dres.src \notin Ahead'
      OBVIOUS
    <3>2. dres.kind # "stray" /\ dres.src = dfile /\ Busy
      BY <2>1, <3>1 DEF Answer, Busy
    <3>3. Ahead' \subseteq Waiting'
      BY <2>1 DEF Ahead, Waiting, InDisk, Busy
    <3>4. QED
      BY <1>b, <3>2, <3>3
  <2>3. Holds(dres)
    <3>1. Told(dres)
      BY <2>1 DEF ToldInv
    <3>2. QED
      BY <1>a, <2>1, <3>1 DEF Told, Untouched, Holds
  <2>4. ASSUME NEW i \in 1..Len(resultQ')
        PROVE  /\ Holds(resultQ'[i])
               /\ resultQ'[i].ok => resultQ'[i].src \notin Ahead' /\ resultQ'[i].kind # "stray"
    <3>1. CASE i \in 1..Len(resultQ)
      <4>1. resultQ'[i] = resultQ[i]
        BY <1>a, <2>1, <3>1, SMTT(60)
      <4>2. Told(resultQ[i]) /\ (resultQ[i].ok => resultQ[i].src \notin Ahead /\ resultQ[i].kind # "stray")
        BY <3>1 DEF ToldInv
      <4>3. QED
        BY <1>c, <4>1, <4>2
    <3>2. CASE i \notin 1..Len(resultQ)
      <4>1. i = Len(resultQ) + 1 /\ resultQ'[i] = dres
        BY <1>a, <2>1, <3>2, SMTT(60)
      <4>2. QED
        BY <2>2, <2>3, <4>1
    <3>3. QED
      BY <3>1, <3>2
  <2>5. QED
    BY <1>d, <2>1, <2>4
<1>3. QED
  BY <1>1, <1>2

\* The disk thread does not touch what the network thread has done with.
LEMMA DiskStepSettled ==
  ASSUME Types, Phase, QueueOrder, SettledInv, DelayedInv, CoverInv, Disk
  PROVE  SettledInv' /\ DelayedInv' /\ CoverInv'
<1>a. cfg' = cfg /\ UNCHANGED <<npc, netVars>> /\ (\A g \in Files : fs'[g].had = fs[g].had)
  BY DiskStepTypes
<1>b. Ahead' \subseteq Ahead /\ \A f \in Files \ Ahead : fs'[f] = fs[f]
  BY DiskAhead
<1>c. npc # "sweep_rename"
  BY DiskStepPhase DEF Phase
<1>d. /\ Open' = Open /\ Finished' = Finished /\ Elems(redo)' = Elems(redo)
      /\ Elems(delayed)' = Elems(delayed) /\ outcome' = outcome /\ ioError' = ioError
      /\ confirmed' = confirmed /\ delayed' = delayed /\ redo' = redo
      /\ metaErrs' = metaErrs /\ failed' = failed /\ cut' = cut
  BY <1>a DEF Open, Finished, Elems, InHand, netVars
<1>e. confirmed \subseteq Files /\ Finished \subseteq Files /\ Elems(delayed) \subseteq Files
  BY SMTT(60) DEF Types, Finished, Elems
<1>1. SettledInv'
  BY <1>a, <1>b, <1>d, <1>e DEF SettledInv, Safe
<1>2. DelayedInv'
  <2>1. outcome # "err" => \A f \in Elems(delayed) :
                /\ cfg.delay /\ fs'[f].staged = "new"
                /\ f \notin Ahead' /\ f \notin Open /\ f \notin Elems(redo)
                /\ Keeps => Untouched(f)'
    BY <1>a, <1>b, <1>c, <1>e DEF DelayedInv, Untouched
  <2>2. QED
    BY <1>a, <1>c, <1>d, <2>1 DEF DelayedInv, Keeps
<1>3. CoverInv'
  BY <1>d DEF CoverInv
<1>4. QED
  BY <1>1, <1>2, <1>3

Books == ToldInv /\ SettledInv /\ FreshInv /\ OldVersionKept /\ DelayedInv /\ CoverInv

LEMMA DiskStepBooks ==
  ASSUME PipeInv, Books, Disk
  PROVE  Books'
BY DiskStepFresh, DiskStepTold, DiskStepSettled DEF PipeInv, DiskInv, Books

-----------------------------------------------------------------------------
(* The bounds of the queues and of the lists, which complete the types.       *)

\* The files are noted in list order, so the i-th pending one has a number of at least
\* i and no more are pending than there are; only a file that was committed can have
\* lost its attributes.
BoundInv ==
    /\ Len(fileQ) <= FileCap /\ Len(resultQ) <= ResultCap
    /\ left \in 0..MaxChunks /\ dwhole \in BOOLEAN /\ dbytes \in BOOLEAN
    /\ failed \subseteq Files /\ metaErrs \subseteq Files /\ cut \subseteq Files
    /\ \A i \in 1..Len(expected) : i <= expected[i]
    /\ dres.meta => dres.ok /\ dres.kind # "stray"
    /\ \A i \in 1..Len(resultQ) : resultQ[i].meta => resultQ[i].ok /\ resultQ[i].kind # "stray"

LEMMA DiskStepBounds ==
  ASSUME Types, QueueOrder, BoundInv, Disk
  PROVE  BoundInv'
<1>a. UNCHANGED <<left, failed, metaErrs, cut, expected>>
  BY DiskStepTypes DEF netVars
<1>b. fileQ \in Seq(FileMsgs) /\ resultQ \in Seq(Results) /\ dres \in Results /\ FileCap \in Nat /\ ResultCap \in Nat
  BY DiskAssumption, SMTT(60) DEF Types, ResultCap
<1>1. Len(fileQ') <= FileCap
  <2>1. fileQ' = fileQ \/ (fileQ # << >> /\ fileQ' = Tail(fileQ))
    BY DiskMoves
  <2>2. QED
    BY <1>b, <2>1, SMTT(60) DEF BoundInv
<1>2. dwhole' \in BOOLEAN /\ dbytes' \in BOOLEAN
  BY
       DEF Disk, DiskRecv, InplaceBackup, OpenOutput, SetupWriter, Discard, FileRecv, WriteWhole, Verify,
        CommitBackup, CommitRename, CommitCopy, SendResult, BoundInv
<1>3. dres'.meta => dres'.ok /\ dres'.kind # "stray"
  <2>1. (\A kind, f : ~ErrResult(kind, f).meta) /\ \A d, m : OkResult(d, m).ok /\ OkResult(d, m).kind # "stray"
    BY DEF ErrResult, OkResult, NoResult
  <2>2. CASE DiskRecv \/ InplaceBackup \/ OpenOutput \/ SetupWriter \/ Discard \/ FileRecv
    BY <2>1, <2>2
         DEF DiskRecv, InplaceBackup, OpenOutput, SetupWriter, Discard, FileRecv, Finish, BoundInv
  <2>3. CASE WriteWhole \/ Verify \/ CommitBackup \/ SendResult
    BY <2>1, <2>3 DEF WriteWhole, Verify, CommitBackup, SendResult, Finish, BoundInv
  <2>4. CASE CommitCopy
    <3>1. dres' = OkResult(FALSE, FALSE) \/ \E kind : dres' = ErrResult(kind, dfile)
      BY <2>4 DEF CommitCopy, Finish
    <3>2. QED
      BY <2>1, <3>1
  <2>5. CASE CommitRename
    <3>1. \/ dres' = dres \/ \E kind : dres' = ErrResult(kind, dfile)
          \/ \E d, m : dres' = OkResult(d, m)
      BY <2>5 DEF CommitRename, Finish
    <3>2. QED
      BY <2>1, <3>1 DEF BoundInv
  <2>6. QED
    BY <2>2, <2>3, <2>4, <2>5 DEF Disk
<1>4. /\ Len(resultQ') <= ResultCap
      /\ \A i \in 1..Len(resultQ') : resultQ'[i].meta => resultQ'[i].ok /\ resultQ'[i].kind # "stray"
  <2>1. CASE SendResult
    <3>1. Len(resultQ) < ResultCap /\ resultQ' = Append(resultQ, dres)
      BY <2>1 DEF SendResult
    <3>2. \A i \in 1..Len(resultQ') : (i \in 1..Len(resultQ) /\ resultQ'[i] = resultQ[i]) \/ resultQ'[i] = dres
      BY <1>b, <3>1, SMTT(60)
    <3>3. Len(resultQ') <= ResultCap
      BY <1>b, <3>1, SMTT(60)
    <3>4. QED
      BY <3>2, <3>3 DEF BoundInv
  <2>2. CASE UNCHANGED resultQ
    BY <2>2 DEF BoundInv
  <2>3. QED
    BY <2>1, <2>2
         DEF Disk, DiskRecv, InplaceBackup, OpenOutput, SetupWriter, Discard, FileRecv,
          WriteWhole, Verify, CommitBackup, CommitRename, CommitCopy
<1>5. QED
  BY <1>a, <1>1, <1>2, <1>3, <1>4 DEF BoundInv

\* A result handled: the bounds, and the file a reported error is about.
LEMMA HandleBounds ==
  ASSUME Types, Aligned, BoundInv, resultQ # << >>, NEW onErr \in {"shut_drain", "shut_send"},
         HandleResult(Head(resultQ), onErr), npc # "stream", outcome # "err" \/ pending > 0
  PROVE  /\ Len(resultQ') <= ResultCap /\ failed' \subseteq Files /\ metaErrs' \subseteq Files
         /\ \A i \in 1..Len(expected') : i <= expected'[i]
         /\ \A i \in 1..Len(resultQ') : resultQ'[i].meta => resultQ'[i].ok /\ resultQ'[i].kind # "stray"
<1> DEFINE r == Head(resultQ)
<1>a. /\ resultQ \in Seq(Results) /\ expected \in Seq(Files) /\ pending = Len(expected) /\ ResultCap \in Nat
      /\ 1 \in 1..Len(resultQ) /\ r = resultQ[1] /\ r \in Results /\ resultQ' = Tail(resultQ)
  BY DiskAssumption, SMTT(60) DEF Types, ResultCap, HandleResult
<1>b. expected # << >> => Oldest \in Files
  BY HandleTypes
<1>1. \A i \in 1..Len(resultQ') : i + 1 \in 1..Len(resultQ) /\ resultQ'[i] = resultQ[i + 1]
  BY <1>a, SMTT(60)
<1>2. Len(resultQ') <= ResultCap
  BY <1>a, SMTT(60) DEF BoundInv
<1>3. \A i \in 1..Len(resultQ') : resultQ'[i].meta => resultQ'[i].ok /\ resultQ'[i].kind # "stray"
  BY <1>1 DEF BoundInv
<1>4. \A i \in 1..Len(expected') : i <= expected'[i]
  <2>1. expected' = expected \/ (expected # << >> /\ expected' = Tail(expected))
    BY DEF HandleResult, PopExpected
  <2>2. CASE expected # << >> /\ expected' = Tail(expected)
    <3>1. \A i \in 1..Len(expected') : i + 1 \in 1..Len(expected) /\ expected'[i] = expected[i + 1]
      BY <1>a, <2>2, SMTT(60)
    <3>2. ASSUME NEW i \in 1..Len(expected) PROVE expected[i] \in Int
      <4>1. expected[i] \in Files
        BY <1>a, SMTT(60)
      <4>2. QED
        BY <4>1, DiskAssumption, SMTT(60) DEF Files
    <3>3. QED
      BY <3>1, <3>2, SMTT(60) DEF BoundInv
  <2>3. QED
    BY <2>1, <2>2 DEF BoundInv
<1>5. failed' \subseteq Files
  BY <1>b DEF HandleResult, GiveUp, Mismatch, BoundInv
<1>6. metaErrs' \subseteq Files
  <2>1. CASE (~r.ok /\ r.kind = "perm") \/ r.meta
    <3>1. r.kind # "stray" /\ ~(~r.ok /\ r.kind # "perm")
      BY <1>a, <2>1 DEF BoundInv
    <3>2. expected # << >>
      <4>1. CASE outcome = "err"
        BY <1>a, <4>1, SMTT(60)
      <4>2. CASE outcome # "err"
        <5>1. \/ 1 <= Len(expected) /\ resultQ[1].src = expected[1]
              \/ 1 = Len(expected) + 1 /\ npc = "stream" /\ resultQ[1].src = cur
          BY <1>a, <3>1, <4>2, SMTT(60) DEF Aligned, Matched
        <5>2. QED
          BY <1>a, <5>1, SMTT(60)
      <4>3. QED
        BY <4>1, <4>2
    <3>3. QED
      BY <1>b, <3>2 DEF HandleResult, BoundInv
  <2>2. CASE ~((~r.ok /\ r.kind = "perm") \/ r.meta)
    BY <2>2 DEF HandleResult, BoundInv
  <2>3. QED
    BY <2>1, <2>2
<1>7. QED
  BY <1>2, <1>3, <1>4, <1>5, <1>6

LEMMA NetStepBounds ==
  ASSUME PipeInv, BoundInv, Network
  PROVE  BoundInv'
<1>a. /\ Types /\ Aligned /\ ListOrder /\ Phase /\ fileQ \in Seq(FileMsgs) /\ expected \in Seq(Files)
      /\ pending = Len(expected) /\ FileCap \in Nat /\ ResultCap \in Nat /\ MaxChunks \in Nat /\ NumFiles \in Nat
  BY DiskAssumption, SMTT(60) DEF PipeInv, DiskInv, Types, ResultCap
<1>b. ASSUME NEW m, Send(m) PROVE Len(fileQ') <= FileCap
  BY <1>a, <1>b, SMTT(60) DEF Send
<1>c. ASSUME InHand, NoteCommit PROVE \A i \in 1..Len(expected') : i <= expected'[i]
  <2>1. expected' = Append(expected, cur) /\ cur \in Files /\ cur \in Int
    BY <1>c, <1>a, SMTT(60) DEF NoteCommit, Types, Files
  <2>2. \A f \in Elems(expected) : f < cur
    BY <1>c, <1>a DEF ListOrder
  <2>3. Len(expected) + 1 <= cur
    <3>1. CASE Len(expected) = 0
      BY <2>1, <3>1, SMTT(60) DEF Files
    <3>2. CASE Len(expected) # 0
      <4>1. Len(expected) \in 1..Len(expected) /\ expected[Len(expected)] \in Files
        BY <1>a, <3>2, SMTT(60)
      <4>2. expected[Len(expected)] < cur
        BY <2>2, <4>1 DEF Elems
      <4>3. Len(expected) <= expected[Len(expected)] /\ expected[Len(expected)] \in Int
        BY <1>a, <4>1, SMTT(60) DEF BoundInv, Files
      <4>4. QED
        BY <1>a, <2>1, <4>2, <4>3, SMTT(60)
    <3>3. QED
      BY <3>1, <3>2
  <2>4. ASSUME NEW i \in 1..Len(expected')
        PROVE  (i \in 1..Len(expected) /\ expected'[i] = expected[i])
               \/ (i = Len(expected) + 1 /\ expected'[i] = cur)
    BY <1>a, <2>1, SMTT(60)
  <2>5. QED
    BY <2>3, <2>4 DEF BoundInv
<1>d. BoundInv /\ (~Join => UNCHANGED diskVars)
  BY NetFrame DEF SweepBackup, SweepRename
<1>1. CASE StartFile
  BY <1>1, <1>d DEF StartFile, BoundInv, diskVars
<1>2. CASE SendWhole
  BY <1>2, <1>b, <1>c DEF SendWhole, NoteCommit, InHand, BoundInv, diskVars
<1>3. CASE SendBegin
  BY <1>3, <1>b DEF SendBegin, netVars, BoundInv, diskVars
<1>4. CASE SendChunk
  <2>1. left' \in 0..MaxChunks
    BY <1>4, <1>a, SMTT(60) DEF SendChunk, BoundInv
  <2>2. QED
    BY <1>4, <1>b, <2>1 DEF SendChunk, BoundInv, diskVars
<1>5. CASE SendCommit
  BY <1>5, <1>b, <1>c DEF SendCommit, NoteCommit, InHand, BoundInv, diskVars
<1>6. CASE StreamError
  BY <1>6, <1>b DEF StreamError, BoundInv, diskVars
<1>7. CASE DrainReady
  <2>1. npc = "drain" /\ outcome # "err" /\ UNCHANGED <<fileQ, left, cut, diskVars>>
    BY <1>7, <1>a DEF DrainReady, Phase, After
  <2>2. CASE resultQ # << >> /\ HandleResult(Head(resultQ), "shut_drain")
    BY <1>a, <2>1, <2>2, HandleBounds DEF BoundInv, diskVars
  <2>3. QED
    BY <1>7, <2>1, <2>2 DEF DrainReady, BoundInv, diskVars
<1>8. CASE DrainAll
  <2>1. npc = "drain_all" /\ outcome # "err" /\ UNCHANGED <<fileQ, left, cut, diskVars>>
    BY <1>8, <1>a DEF DrainAll, Phase, After
  <2>2. CASE resultQ # << >> /\ HandleResult(Head(resultQ), "shut_drain")
    BY <1>a, <2>1, <2>2, HandleBounds DEF BoundInv, diskVars
  <2>3. QED
    BY <1>8, <2>1, <2>2 DEF DrainAll, BoundInv, diskVars
<1>9. CASE ShutdownDrain
  <2>1. npc = "shut_drain" /\ UNCHANGED <<fileQ, left, cut, diskVars>>
    BY <1>9 DEF ShutdownDrain
  <2>2. CASE pending > 0 /\ resultQ # << >> /\ HandleResult(Head(resultQ), "shut_send")
    BY <1>a, <2>1, <2>2, HandleBounds DEF BoundInv, diskVars
  <2>3. QED
    BY <1>9, <2>1, <2>2 DEF ShutdownDrain, BoundInv, diskVars
<1>10. CASE SendShutdown
  BY <1>10, <1>b DEF SendShutdown, netVars, BoundInv, diskVars
<1>11. CASE Join
  BY <1>11, <1>a, SMTT(60) DEF Join, BoundInv
<1>12. CASE LoopEnd \/ SweepEnd \/ SweepBackup \/ SweepRename
  BY <1>12 DEF LoopEnd, SweepEnd, SweepBackup, SweepRename, netVars, BoundInv, diskVars
<1>12a. CASE Stop
  <2>1. cut' \subseteq Files
    <3>1. \A i \in 1..Len(todo) : todo[i] \in Files
      BY <1>a, SMTT(60) DEF Types
    <3>2. QED
      BY <1>12a, <3>1 DEF Stop, BoundInv
  <2>2. QED
    BY <1>12a, <2>1 DEF Stop, BoundInv, diskVars
<1>13. QED
  BY <1>1, <1>2, <1>3, <1>4, <1>5, <1>6, <1>7, <1>8, <1>9, <1>10, <1>11, <1>12,
     <1>12a DEF Network

LEMMA BoundsHold == Spec => [](PipeInv /\ BoundInv)
<1>1. Init => BoundInv
  <2> SUFFICES ASSUME Init PROVE BoundInv
    OBVIOUS
  <2>1. fileQ = << >> /\ resultQ = << >> /\ expected = << >> /\ left = 0 /\ failed = {} /\ metaErrs = {}
        /\ cut = {}
    BY DEF Init
  <2>2. dwhole \in BOOLEAN /\ dbytes \in BOOLEAN /\ ~dres.meta
    BY DEF Init, NoResult
  <2>3. Len(fileQ) <= FileCap /\ Len(resultQ) <= ResultCap /\ left \in 0..MaxChunks
    BY <2>1, DiskAssumption, SMTT(60) DEF ResultCap
  <2>4. QED
    BY <2>1, <2>2, <2>3, SMTT(60) DEF BoundInv
<1>2. PipeInv /\ BoundInv /\ [Next]_vars => BoundInv'
  <2> SUFFICES ASSUME PipeInv, BoundInv, [Next]_vars PROVE BoundInv'
    OBVIOUS
  <2>1. CASE Disk
    BY <2>1, DiskStepBounds DEF PipeInv, DiskInv
  <2>2. CASE UNCHANGED vars
    BY <2>2 DEF vars, netVars, diskVars, BoundInv
  <2>3. QED
    BY <2>1, <2>2, NetStepBounds DEF Next, Done
<1>3. QED
  BY <1>1, <1>2, PipeInvHolds, PTL DEF Spec

\* Both queues keep the capacities spawn_disk_thread gives them, no more commits are
\* pending than there are files, and every error and every failed verification is
\* booked on a file (drain_ready_results, drain_all_results, note_commit_sent).
THEOREM DiskTypeCorrect == Spec => []TypeOK
<1>1. PipeInv /\ BoundInv => TypeOK
  <2> SUFFICES ASSUME PipeInv, BoundInv PROVE TypeOK
    OBVIOUS
  <2>1. expected \in Seq(Files) /\ NumFiles \in Nat /\ pending = Len(expected)
    BY DiskAssumption DEF PipeInv, DiskInv, Types
  <2>2. pending \in 0..NumFiles
    <3>1. CASE Len(expected) = 0
      BY <2>1, <3>1, SMTT(60)
    <3>2. CASE Len(expected) # 0
      <4>1. Len(expected) \in 1..Len(expected) /\ expected[Len(expected)] \in Files
        BY <2>1, <3>2, SMTT(60)
      <4>2. QED
        BY <2>1, <4>1, SMTT(60) DEF BoundInv, Files
    <3>3. QED
      BY <3>1, <3>2
  <2>3. QED
    BY <2>2 DEF PipeInv, DiskInv, Types, BoundInv, TypeOK, NetPlaces, DiskPlaces, Fields
<1>2. QED
  BY <1>1, BoundsHold, PTL

-----------------------------------------------------------------------------
(* One step of the network thread.                                            *)

\* A step of the network thread that handles no result and changes no file.
LEMMA NetQuietFiles ==
  ASSUME Books, UNCHANGED <<cfg, diskVars, fs, resultQ, redo, delayed, pass, ioError, metaErrs, failed>>,
         Ahead' \subseteq Ahead, Waiting' \subseteq Waiting, Open' \subseteq Open,
         outcome = "err" => outcome' = "err",
         UNCHANGED <<success, confirmed>> \/ (EmitSuccess /\ outcome # "err"),
         npc # "sweep_rename", npc' # "sweep_rename",
         npc' = "done" => delayed = << >>
  PROVE  /\ ToldInv' /\ SettledInv' /\ FreshInv' /\ OldVersionKept' /\ DelayedInv'
         /\ Finished' = Finished
<1>1. Finished' = Finished /\ confirmed' \subseteq Finished /\ (outcome = "err" => confirmed' = confirmed)
  BY DEF Finished, EmitSuccess
<1>2. ToldInv'
  BY DEF Books, ToldInv, Told, Untouched, Keeps, NeedsRename, diskVars
<1>3. SettledInv'
  BY <1>1 DEF Books, SettledInv, Safe
<1>4. FreshInv'
  <2>1. FreshFile' = FreshFile /\ Keeps' = Keeps /\ FirstTime' = FirstTime /\ NeedsRename' = NeedsRename
    BY DEF FreshFile, Keeps, FirstTime, NeedsRename, Untouched, InBackup, diskVars
  <2>2. QED
    BY <2>1 DEF Books, FreshInv, Untouched
<1>5. OldVersionKept'
  BY DEF Books, OldVersionKept, May, KindsOf
<1>6. DelayedInv'
  BY DEF Books, DelayedInv, Untouched, Keeps
<1>7. QED
  BY <1>1, <1>2, <1>3, <1>4, <1>5, <1>6

\* One that leaves every file where it is in the books, too.
LEMMA NetQuiet ==
  ASSUME Books, UNCHANGED <<cfg, diskVars, fs, resultQ, redo, delayed, pass, ioError, metaErrs, failed, cut>>,
         Ahead' \subseteq Ahead, Waiting' \subseteq Waiting, Open' \subseteq Open,
         Open' = Open \/ outcome' = "err", outcome = "err" => outcome' = "err",
         UNCHANGED <<success, confirmed>> \/ (EmitSuccess /\ outcome # "err"),
         npc # "sweep_rename", npc' # "sweep_rename",
         npc' = "done" => delayed = << >>
  PROVE  Books'
<1>1. /\ ToldInv' /\ SettledInv' /\ FreshInv' /\ OldVersionKept' /\ DelayedInv'
      /\ Finished' = Finished
  BY NetQuietFiles
<1>2. CoverInv'
  BY <1>1 DEF Books, CoverInv
<1>3. QED
  BY <1>1, <1>2 DEF Books

\* The deadline: the files still to come are left behind.
LEMMA NetStop ==
  ASSUME Types, Phase, ListOrder, Books, Stop
  PROVE  Books'
<1>a. /\ npc = "next" /\ npc' = "drain_all" /\ todo' = << >> /\ cut' = cut \cup Elems(todo)
      /\ UNCHANGED <<cfg, fileQ, resultQ, pass, cur, expected, redo, success, delayed, metaErrs, failed,
                     confirmed, ioError, outcome, diskVars, fs>>
      /\ todo \in Seq(Files) /\ expected \in Seq(Files) /\ outcome # "err"
  BY DEF Stop, Types, Phase, After, Elems
<1>b. Ahead' \subseteq Ahead /\ Waiting' \subseteq Waiting
  BY NetAhead DEF Network, Stop, Join
<1>c. Elems(todo') = {} /\ Elems(todo) \subseteq Files /\ Elems(redo)' = Elems(redo)
  BY <1>a, ElemsEmpty, SMTT(60) DEF Elems
<1>d. /\ Open = Elems(expected) \cup Elems(todo) /\ Open' = Elems(expected)
  BY <1>a, <1>c DEF Open, InHand
<1>e. \A g \in Elems(todo) : g \notin Elems(expected) /\ g \notin Elems(redo)
  <2>1. (\A f \in Elems(expected), g \in Elems(todo) : f < g) /\ \A f \in Elems(redo), g \in Elems(todo) : f < g
    BY <1>d DEF ListOrder
  <2>2. \A g \in Elems(todo) : ~(g < g)
    BY <1>c, SMTT(60) DEF Files
  <2>3. QED
    BY <2>1, <2>2
<1>1. /\ ToldInv' /\ SettledInv' /\ FreshInv' /\ OldVersionKept' /\ DelayedInv'
      /\ Finished' = Finished
  BY <1>a, <1>b, <1>d, NetQuietFiles
<1>2. \A g \in Elems(todo) : g \notin Finished
  BY <1>a, <1>d DEF Books, SettledInv
<1>3. CoverInv'
  BY <1>a, <1>c, <1>d, <1>e, <1>1, <1>2 DEF Books, CoverInv
<1>4. QED
  BY <1>1, <1>3 DEF Books

\* Every result that does not end the loop is about the oldest noted commit, and
\* the file of that commit goes where the result says.
LEMMA HandleOutcome ==
  ASSUME Types, Aligned, ToldInv, resultQ # << >>, NEW onErr \in {"shut_drain", "shut_send"},
         HandleResult(Head(resultQ), onErr), onErr = "shut_drain" \/ outcome = "err",
         npc # "stream", outcome' # "err", pass \in 1..2
  PROVE  /\ outcome # "err" /\ expected # << >> /\ expected' = Tail(expected)
         /\ failed \subseteq failed' /\ metaErrs \subseteq metaErrs'
         /\ LET h == Head(expected) IN
            \/ /\ Safe(h) /\ h \notin Ahead /\ success' = success \cup {h} /\ redo' = redo
               /\ \/ delayed' = delayed /\ fs[h].dest = "new"
                  \/ /\ delayed' = Append(delayed, h) /\ cfg.delay /\ fs[h].staged = "new"
                     /\ Keeps => Untouched(h)
            \/ /\ pass = 1 /\ redo' = Append(redo, h) /\ h \notin Ahead /\ success' = success
               /\ delayed' = delayed
               /\ (NeedsRename /\ Keeps) => Untouched(h)
            \/ /\ h \in failed' \cup metaErrs'
               /\ UNCHANGED <<success, redo, delayed>>
<1> DEFINE r == Head(resultQ)
           h == Head(expected)
<1>a. /\ r \in Results /\ r = resultQ[1] /\ 1 \in 1..Len(resultQ)
  BY HandleTypes, SMTT(60) DEF Types
<1>1. outcome # "err" /\ ~Fatal(r)
  BY DEF HandleResult, Fatal
<1>2. r.kind # "stray" /\ Told(r) /\ (r.ok => r.src \notin Ahead)
  BY <1>a, <1>1 DEF ToldInv, Fatal
<1>3. 1 <= Len(expected) /\ r.src = expected[1]
  BY <1>a, <1>1, <1>2, SMTT(60) DEF Aligned, Matched
<1>4. expected # << >> /\ r.src = h /\ Oldest = h /\ h \in Files /\ h # 0
  <2>1. expected \in Seq(Files) /\ expected # << >>
    BY <1>3, SMTT(60) DEF Types
  <2>2. h \in Files /\ h = expected[1] /\ Oldest = h
    BY <2>1, ElemsTail, SMTT(60) DEF Oldest
  <2>3. QED
    BY <1>3, <2>1, <2>2, SMTT(60) DEF Files
<1>5. expected' = Tail(expected) /\ failed \subseteq failed' /\ metaErrs \subseteq metaErrs'
  BY <1>4 DEF HandleResult, PopExpected, GiveUp
<1>6. CASE ~r.ok
  BY <1>1, <1>4, <1>5, <1>6 DEF HandleResult, Fatal, Mismatch
<1>7. CASE r.ok /\ r.digest = h
  <2>1. ~Mismatch(r)
    BY <1>4, <1>7 DEF Mismatch
  <2>2. /\ success' = success \cup {h} /\ redo' = redo
        /\ delayed' = IF r.delayed THEN Append(delayed, h) ELSE delayed
    BY <1>4, <1>7, <2>1 DEF HandleResult
  <2>3. /\ ~r.delayed => fs[h].dest = "new"
        /\ r.delayed => cfg.delay /\ fs[h].staged = "new" /\ (Keeps => Untouched(h))
    BY <1>2, <1>4, <1>7 DEF Told
  <2>4. QED
    BY <1>1, <1>2, <1>4, <1>5, <1>7, <2>2, <2>3 DEF Safe
<1>8. CASE r.ok /\ r.digest # h
  <2>1. Mismatch(r) /\ r.digest = 0 /\ ~r.delayed /\ ((NeedsRename /\ Keeps) => Untouched(h))
    BY <1>2, <1>4, <1>8 DEF Mismatch, Told
  <2>2. success' = success /\ delayed' = delayed
    BY <2>1 DEF HandleResult
  <2>3. CASE pass = 1
    <3>1. redo' = Append(redo, h)
      BY <1>4, <2>1, <2>3 DEF HandleResult
    <3>2. QED
      BY <1>1, <1>2, <1>4, <1>5, <1>8, <2>1, <2>2, <2>3, <3>1
  <2>4. CASE pass = 2
    BY <1>1, <1>4, <1>5, <2>1, <2>2, <2>4, SMTT(60) DEF HandleResult, GiveUp
  <2>5. QED
    BY <2>3, <2>4, SMTT(60)
<1>9. QED
  BY <1>6, <1>7, <1>8

\* A result handled.
LEMMA NetHandle ==
  ASSUME Types, ListOrder, Aligned, Books, resultQ # << >>, NEW onErr \in {"shut_drain", "shut_send"},
         HandleResult(Head(resultQ), onErr), onErr = "shut_drain" \/ outcome = "err",
         npc \in {"drain", "drain_all", "shut_drain"},
         UNCHANGED <<cfg, fileQ, pass, todo, cur, ioError, cut, confirmed, diskVars, fs>>
  PROVE  Books'
<1> DEFINE h == Head(expected)
<1>a. /\ npc' \in {"drain", "drain_all", "shut_drain", "shut_send"} /\ resultQ' = Tail(resultQ)
      /\ resultQ \in Seq(Results) /\ expected \in Seq(Files) /\ delayed \in Seq(Files)
      /\ redo \in Seq(Files) /\ todo \in Seq(Files) /\ pass \in 1..2
  BY HandleTypes DEF HandleResult, Types
<1>b. Ahead' = Ahead /\ Waiting' = Waiting
  BY <1>a DEF Ahead, Waiting, Unsent, InDisk, Queued, Starts, Busy, Starting, diskVars
<1>c. outcome = "err" => outcome' = "err"
  BY DEF HandleResult
<1>d. Keeps' = Keeps /\ NeedsRename' = NeedsRename /\ FirstTime' = FirstTime /\ FreshFile' = FreshFile
      /\ \A f : Untouched(f)' = Untouched(f) /\ Safe(f)' = Safe(f)
  BY DEF FreshFile, Keeps, FirstTime, NeedsRename, Untouched, InBackup, Safe, diskVars
<1>1. ToldInv'
  <2>1. \A i \in 1..Len(resultQ') : i + 1 \in 1..Len(resultQ) /\ resultQ'[i] = resultQ[i + 1]
    BY <1>a, SMTT(60)
  <2>2. dres' = dres /\ dpc' = dpc
    BY DEF diskVars
  <2>3. QED
    <3>1. \A i \in 1..Len(resultQ) :
             Told(resultQ[i]) /\ (resultQ[i].ok => resultQ[i].src \notin Ahead /\ resultQ[i].kind # "stray")
      BY DEF Books, ToldInv
    <3>2. \A i \in 1..Len(resultQ') :
             Told(resultQ[i + 1]) /\ (resultQ[i + 1].ok => resultQ[i + 1].src \notin Ahead /\ resultQ[i + 1].kind # "stray")
      BY <2>1, <3>1
    <3>3. (dpc = "send" => Told(dres)) => (dpc' = "send" => Told(dres)')
      BY <2>2 DEF Told, Untouched, Keeps, NeedsRename
    <3>4. dpc' = "send" => Told(dres)'
      BY <3>3 DEF Books, ToldInv
    <3>5. ASSUME NEW i \in 1..Len(resultQ')
          PROVE  Told(resultQ[i])' /\ (resultQ'[i].ok => resultQ'[i].src \notin Ahead' /\ resultQ'[i].kind # "stray")
      <4>1. /\ Told(resultQ[i + 1]) /\ resultQ'[i] = resultQ[i + 1]
            /\ resultQ[i + 1].ok => resultQ[i + 1].src \notin Ahead /\ resultQ[i + 1].kind # "stray"
        BY <2>1, <3>2
      <4>2. QED
        BY <1>b, <4>1 DEF Told, Untouched, Keeps, NeedsRename
    <3>6. QED
      BY <3>4, <3>5 DEF ToldInv
<1>2. OldVersionKept'
  BY DEF Books, OldVersionKept, May, KindsOf
<1>3. CASE outcome' = "err"
  <2>1. SettledInv'
    BY <1>3, <1>b, <1>d DEF Books, SettledInv
  <2>2. FreshInv'
    BY <1>3, <1>b, <1>d DEF Books, FreshInv
  <2>3. DelayedInv' /\ CoverInv'
    BY <1>3, <1>a DEF DelayedInv, CoverInv
  <2>4. QED
    BY <1>1, <1>2, <2>1, <2>2, <2>3 DEF Books
<1>4. CASE outcome' # "err"
  <2>a. /\ outcome # "err" /\ expected # << >> /\ expected' = Tail(expected)
        /\ failed \subseteq failed' /\ metaErrs \subseteq metaErrs'
    BY <1>4, <1>a, HandleOutcome DEF Books
  <2>b. h \in Files /\ Elems(expected) = {h} \cup Elems(expected') /\ h \in Open
    BY <1>a, <2>a, ElemsTail, SMTT(60) DEF Open
  <2>c. \A x \in Elems(expected') : h < x
    BY <1>a, <2>a, IncreasingTail DEF ListOrder
  <2>d. Open = Open' \cup {h} /\ h \notin Open' /\ h \notin Elems(redo)
    <3>1. ~InHand /\ ~InHand'
      BY <1>a DEF InHand
    <3>2. Open = Open' \cup {h}
      BY <2>b, <3>1 DEF Open
    <3>3. \A x \in Open' : x # h
      <4>1. \A x \in Elems(todo) : h < x
        BY <2>b DEF ListOrder
      <4>2. Elems(expected') \subseteq Files /\ Elems(todo) \subseteq Files
        BY <1>a, HandleTypes, SMTT(60) DEF Elems
      <4>3. QED
        BY <2>b, <2>c, <3>1, <4>1, <4>2, SMTT(60) DEF Open, Files
    <3>4. \A x \in Elems(redo) : x < h
      BY <2>b DEF ListOrder
    <3>5. h \notin Elems(redo)
      BY <2>b, <3>4, SMTT(60) DEF Files
    <3>6. QED
      BY <3>2, <3>3, <3>5
  <2>e. /\ h \notin Finished /\ h \notin Elems(delayed)
    BY <2>a, <2>b DEF Books, SettledInv, DelayedInv
  <2>f. npc # "sweep_rename" /\ npc' # "sweep_rename" /\ npc' # "done"
    BY <1>a
  <2>1. CASE /\ Safe(h) /\ h \notin Ahead /\ success' = success \cup {h} /\ redo' = redo
             /\ \/ delayed' = delayed /\ fs[h].dest = "new"
                \/ /\ delayed' = Append(delayed, h) /\ cfg.delay /\ fs[h].staged = "new"
                   /\ Keeps => Untouched(h)
    <3>1. Finished' = Finished \cup {h}
      BY <2>1 DEF Finished
    <3>2. CoverInv'
      BY <2>a, <2>d, <2>1, <3>1 DEF Books, CoverInv
    <3>3. FreshInv'
      BY <1>b, <1>c, <1>d, <2>1 DEF Books, FreshInv
    <3>4. CASE delayed' = delayed /\ fs[h].dest = "new"
      <4>1. SettledInv'
        BY <1>b, <1>d, <2>a, <2>d, <2>1, <3>1, <3>4 DEF Books, SettledInv
      <4>2. DelayedInv'
        BY <1>b, <1>d, <2>a, <2>d, <2>f, <2>1, <3>4, ZenonT(60) DEF Books, DelayedInv
      <4>3. QED
        BY <1>1, <1>2, <3>2, <3>3, <4>1, <4>2 DEF Books
    <3>5. CASE /\ delayed' = Append(delayed, h) /\ cfg.delay /\ fs[h].staged = "new"
               /\ Keeps => Untouched(h)
      <4>1. Elems(delayed') = Elems(delayed) \cup {h} /\ Len(delayed') = Len(delayed) + 1
            /\ Len(delayed) \in Nat /\ delayed'[Len(delayed) + 1] = h
            /\ \A i \in 1..Len(delayed) : delayed'[i] = delayed[i] /\ delayed[i] \in Elems(delayed)
        <5>1. Elems(delayed') = Elems(delayed) \cup {h}
          <6>1. delayed \in Seq(Files) /\ h \in Files /\ delayed' = Append(delayed, h)
            BY <1>a, <2>b, <3>5
          <6>2. Elems(Append(delayed, h)) = Elems(delayed) \cup {h}
            BY <6>1, ElemsAppend, SMTT(60)
          <6>3. QED
            BY <6>1, <6>2
        <5>2. /\ Len(delayed') = Len(delayed) + 1 /\ Len(delayed) \in Nat
              /\ delayed'[Len(delayed) + 1] = h /\ \A i \in 1..Len(delayed) : delayed'[i] = delayed[i]
          BY <1>a, <2>b, <3>5, SMTT(60)
        <5>3. QED
          BY <5>1, <5>2 DEF Elems
      <4>2. SettledInv'
        BY <1>b, <1>d, <2>a, <2>d, <2>1, <3>1, <4>1 DEF Books, SettledInv
      <4>3. \A i, j \in 1..Len(delayed') : i # j => delayed'[i] # delayed'[j]
        <5>1. \A i, j \in 1..Len(delayed) : i # j => delayed[i] # delayed[j]
          BY <2>a DEF Books, DelayedInv
        <5>2. \A i \in 1..Len(delayed) : delayed[i] # h
          BY <2>e, <4>1
        <5>3. QED
          BY <4>1, <5>1, <5>2, SMTT(60)
      <4>4. \A f \in Elems(delayed) :
                /\ cfg.delay /\ fs[f].staged = "new"
                /\ f \notin Ahead /\ f \notin Open' /\ f \notin Elems(redo)
                /\ Keeps => Untouched(f)
        BY <2>a, <2>d, <2>f DEF Books, DelayedInv
      <4>5. DelayedInv'
        BY <1>b, <1>d, <2>d, <2>f, <2>1, <3>5, <4>1, <4>3, <4>4, ZenonT(60) DEF DelayedInv
      <4>6. QED
        BY <1>1, <1>2, <3>2, <3>3, <4>2, <4>5 DEF Books
    <3>6. QED
      BY <2>1, <3>4, <3>5
  <2>2. CASE /\ pass = 1 /\ redo' = Append(redo, h) /\ h \notin Ahead /\ success' = success
             /\ delayed' = delayed
             /\ (NeedsRename /\ Keeps) => Untouched(h)
    <3>1. Finished' = Finished /\ Elems(redo') = Elems(redo) \cup {h}
      BY <1>a, <2>b, <2>2, ElemsAppend, SMTT(60) DEF Finished
    <3>2. CoverInv'
      BY <2>a, <2>d, <2>2, <3>1 DEF Books, CoverInv
    <3>3. FreshInv'
      BY <1>b, <1>d, <2>a, <2>2, <3>1 DEF Books, FreshInv
    <3>4. SettledInv'
      BY <1>b, <1>d, <2>a, <2>d, <2>e, <2>2, <3>1 DEF Books, SettledInv
    <3>5. DelayedInv'
      BY <1>b, <1>d, <2>a, <2>d, <2>e, <2>f, <2>2, <3>1 DEF Books, DelayedInv
    <3>6. QED
      BY <1>1, <1>2, <3>2, <3>3, <3>4, <3>5 DEF Books
  <2>3. CASE h \in failed' \cup metaErrs' /\ UNCHANGED <<success, redo, delayed>>
    <3>1. Finished' = Finished
      BY <2>3 DEF Finished
    <3>2. CoverInv'
      BY <2>a, <2>d, <2>3, <3>1 DEF Books, CoverInv
    <3>3. FreshInv'
      BY <1>b, <1>d, <2>a, <2>3, <3>1 DEF Books, FreshInv
    <3>4. SettledInv'
      BY <1>b, <1>d, <2>a, <2>d, <2>3, <3>1 DEF Books, SettledInv
    <3>5. DelayedInv'
      BY <1>b, <1>d, <2>a, <2>d, <2>f, <2>3 DEF Books, DelayedInv
    <3>6. QED
      BY <1>1, <1>2, <3>2, <3>3, <3>4, <3>5 DEF Books
  <2>4. QED
    BY <1>4, <1>a, <2>1, <2>2, <2>3, HandleOutcome DEF Books
<1>5. QED
  BY <1>3, <1>4

\* Between the passes, and after the last one.
LEMMA NetJoin ==
  ASSUME Types, Phase, ListOrder, Books, Join
  PROVE  Books'
<1>a. /\ UNCHANGED <<cfg, cur, delayed, metaErrs, failed, confirmed, ioError, cut, dfile, dgood, dres, fs>>
      /\ npc = "join" /\ fileQ' = << >> /\ resultQ' = << >> /\ expected' = << >> /\ success' = {}
      /\ redo' = << >> /\ dpc' \in {"exited", "idle"} /\ npc' \in {"done", "next", "sweep_backup"}
      /\ todo \in Seq(Files) /\ redo \in Seq(Files)
  BY DEF Join, Types
<1>b. Ahead' = Elems(todo') /\ Waiting' = Elems(todo') /\ Open' = Elems(todo') /\ Elems(redo') = {}
  <2>1. Queued' = {} /\ ~Busy' /\ Elems(expected') = {} /\ Elems(redo') = {}
    BY <1>a, ElemsEmpty, SMTT(60) DEF Queued, Starts, Busy
  <2>2. QED
    BY <1>a, <2>1 DEF Ahead, Waiting, Open, Unsent, InDisk, InHand, Starting
<1>c. Elems(todo) \subseteq Ahead /\ Elems(todo) \subseteq Waiting
  BY DEF Ahead, Waiting, Unsent
<1>d. FreshFile' /\ Keeps' = Keeps /\ NeedsRename' = NeedsRename
      /\ \A f : Untouched(f)' = Untouched(f) /\ Safe(f)' = Safe(f)
  BY <1>a DEF FreshFile, Keeps, NeedsRename, Untouched, Safe
<1>1. ToldInv'
  BY <1>a, SMTT(60) DEF ToldInv
<1>2. OldVersionKept'
  <2>1. (cfg'.inplace => pass' = 1) => (cfg.inplace => pass = 1)
    BY <1>a DEF Join
  <2>2. QED
    BY <1>a, <2>1 DEF Books, OldVersionKept, May, KindsOf
<1>3. CASE outcome = "err" /\ npc' = "done" /\ UNCHANGED <<pass, todo, outcome>>
  <2>1. SettledInv'
    BY <1>3, <1>a, <1>b, <1>c, <1>d DEF Books, SettledInv
  <2>2. FreshInv'
    BY <1>3, <1>a, <1>b, <1>c, <1>d DEF Books, FreshInv, FirstTime
  <2>3. DelayedInv' /\ CoverInv'
    BY <1>3 DEF DelayedInv, CoverInv
  <2>4. QED
    BY <1>1, <1>2, <2>1, <2>2, <2>3 DEF Books
<1>4. CASE /\ outcome = "ok" /\ outcome' \in {"ok", "none"} /\ todo' = redo
           /\ npc' \in {"next", "sweep_backup"}
           /\ pass' = 2 \/ todo' = << >>
  <2>1. success = {} /\ Open = {} /\ Finished = confirmed /\ Finished' = confirmed
    <3>1. success = {} /\ Elems(expected) = {} /\ Elems(todo) = {}
      BY <1>4, ElemsEmpty DEF Phase
    <3>2. QED
      BY <1>a, <3>1 DEF Open, InHand, Finished
  <2>2. SettledInv'
    BY <1>4, <1>a, <1>b, <1>d, <2>1 DEF Books, SettledInv
  <2>3. FreshInv'
    <3>1. CASE pass' = 2
      <4>1. Keeps /\ FirstTime' => \A f \in Elems(redo) : Untouched(f)
        BY <1>4, <1>a, <3>1, SMTT(60) DEF Books, FreshInv, FirstTime, NeedsRename
      <4>2. QED
        BY <1>4, <1>a, <1>b, <1>d, <4>1 DEF FreshInv
    <3>2. CASE todo' = << >>
      <4>1. Elems(todo') = {}
        BY <3>2, ElemsEmpty
      <4>2. QED
        BY <1>4, <1>a, <1>b, <1>d, <4>1 DEF FreshInv
    <3>3. QED
      BY <1>4, <3>1, <3>2
  <2>4. DelayedInv'
    BY <1>4, <1>a, <1>b, <1>d DEF Books, DelayedInv
  <2>5. CoverInv'
    BY <1>4, <1>a, <1>b, <2>1 DEF Books, CoverInv
  <2>6. QED
    BY <1>1, <1>2, <2>2, <2>3, <2>4, <2>5 DEF Books
<1>5. QED
  <2>1. outcome = "ok" => todo = << >>
    BY DEF Phase
  <2>2. pass = 2 => redo = << >>
    BY DEF ListOrder
  <2>3. pass \in 1..2
    BY DEF Types
  <2>4. QED
    BY <1>3, <1>4, <2>1, <2>2, <2>3, SMTT(60) DEF Join

\* The sweep: what it may change, and that it finds the files as they should be.
LEMMA NetSweep ==
  ASSUME Types, Phase, Books, SweepBackup \/ SweepRename
  PROVE  Books'
<1> DEFINE h == Head(delayed)
<1>a. /\ cfg' = cfg /\ UNCHANGED <<fileQ, resultQ, pass, todo, cur, expected, redo, success, metaErrs,
                                failed, confirmed, cut, outcome, diskVars>>
      /\ npc \in {"sweep_backup", "sweep_rename"} /\ npc' \in {"sweep_backup", "sweep_rename"}
  BY DEF SweepBackup, SweepRename
<1>b. /\ delayed # << >> /\ delayed \in Seq(Files) /\ h \in Files /\ h \in Elems(delayed)
      /\ Elems(delayed) = {h} \cup Elems(Tail(delayed))
  <2>1. delayed # << >> /\ delayed \in Seq(Files)
    BY DEF SweepBackup, SweepRename, Types
  <2>2. QED
    BY <2>1, ElemsTail
<1>c. /\ outcome = "ok" /\ resultQ = << >> /\ dpc = "exited" /\ dpc' = "exited"
  BY <1>a DEF Phase, diskVars
<1>d. /\ Ahead' = Ahead /\ Waiting' = Waiting /\ Open' = Open /\ Finished' = Finished
      /\ Elems(redo)' = Elems(redo) /\ Waiting \subseteq Ahead
  BY <1>a
       DEF Ahead, Waiting, Open, Finished, Unsent, InDisk, InHand, Queued, Starts, Busy, Starting,
       diskVars, Elems
<1>e. Keeps' = Keeps /\ NeedsRename' = NeedsRename /\ FirstTime' = FirstTime
  BY <1>a DEF Keeps, NeedsRename, FirstTime
<1>f. /\ cfg.delay /\ fs[h].staged = "new" /\ h \notin Ahead /\ h \notin Elems(redo)
      /\ (Keeps /\ npc = "sweep_backup") => Untouched(h)
  BY <1>b, <1>c DEF Books, DelayedInv
<1>g. \A f \in Files : f # h => fs'[f] = fs[f]
  BY <1>b DEF Types, SweepBackup, SweepRename, MoveFs
<1>h. Waiting \subseteq Files /\ Elems(redo) \subseteq Files
  BY SMTT(60) DEF Types, Waiting, Unsent, Elems, InHand, Starting
<1>1. ToldInv'
  BY <1>a, <1>c, SMTT(60) DEF ToldInv
<1>2. FreshInv'
  <2>1. \A f \in Waiting \cup Elems(redo) : fs'[f] = fs[f]
    BY <1>d, <1>f, <1>g, <1>h
  <2>2. FreshFile'
    BY <1>c DEF FreshFile
  <2>3. QED
    BY <1>a, <1>d, <1>e, <2>1, <2>2 DEF Books, FreshInv, Untouched
<1>3. CoverInv'
  BY <1>a, <1>d DEF Books, CoverInv
<1>4. CASE SweepBackup
  <2>1. npc = "sweep_backup" /\ npc' = "sweep_rename" /\ delayed' = delayed
    BY <1>4 DEF SweepBackup
  <2>2. /\ fs'[h].staged = "new" /\ fs'[h].had = fs[h].had
        /\ \/ fs' = fs /\ (~(cfg.backup /\ fs[h].dest # "none") \/ May("sweep_backup"))
           \/ fs'[h].backup = fs[h].dest
        /\ ioError' = ioError \/ ioError'
    <3>1. fs \in [Files -> [Fields -> Contents]]
      BY DEF Types
    <3>2. CASE fs' = MoveFs(h, "dest", "backup") /\ UNCHANGED ioError
      BY <1>b, <1>f, <3>1, <3>2 DEF MoveFs, Fields
    <3>3. CASE fs' = fs /\ (~(cfg.backup /\ fs[h].dest # "none") \/ May("sweep_backup"))
      BY <1>4, <1>f, <3>3 DEF SweepBackup
    <3>4. QED
      BY <1>4, <3>2, <3>3 DEF SweepBackup
  <2>3. SettledInv'
    <3>1. \A f \in Finished : f \in Files
      BY DEF Finished, Types
    <3>2. QED
      BY <1>a, <1>b, <1>c, <1>d, <1>f, <1>g, <2>1, <2>2, <3>1, SMTT(60)
           DEF Books, SettledInv, Safe, Finished
  <2>4. (cfg.backup /\ Keeps /\ ~May("sweep_backup")) => InBackup(h)'
    BY <1>f, <2>1, <2>2 DEF InBackup, Untouched
  <2>5. OldVersionKept'
    <3>1. May("sweep_backup")' = May("sweep_backup")
      BY <1>a DEF May, KindsOf
    <3>2. QED
      BY <1>a, <1>b, <1>f, <1>g, <2>1, <2>4, <3>1 DEF Books, OldVersionKept, InBackup, Keeps
  <2>6. DelayedInv'
    <3>1. May("sweep_backup")' = May("sweep_backup")
      BY <1>a DEF May, KindsOf
    <3>2. \A f \in Elems(delayed) :
                /\ cfg.delay /\ fs'[f].staged = "new"
                /\ f \notin Ahead /\ f \notin Open /\ f \notin Elems(redo)
                /\ (Keeps /\ f # h) => Untouched(f)'
      <4>1. Elems(delayed) \subseteq Files
        BY <1>b, SMTT(60) DEF Elems
      <4>2. QED
        BY <1>c, <1>g, <2>1, <2>2, <4>1 DEF Books, DelayedInv, Untouched
    <3>3. QED
      BY <1>a, <1>c, <1>d, <1>e, <2>1, <2>4, <3>1, <3>2 DEF Books, DelayedInv
  <2>7. QED
    BY <1>1, <1>2, <1>3, <2>3, <2>5, <2>6 DEF Books
<1>5. CASE SweepRename
  <2>1. npc = "sweep_rename" /\ npc' = "sweep_backup" /\ delayed' = Tail(delayed)
    BY <1>5 DEF SweepRename
  <2>2. /\ fs'[h].had = fs[h].had /\ fs'[h].backup = fs[h].backup
        /\ fs'[h].dest = "new" \/ (fs' = fs /\ ioError')
        /\ ioError => ioError'
    <3>1. fs \in [Files -> [Fields -> Contents]]
      BY DEF Types
    <3>2. CASE fs' = MoveFs(h, "staged", "dest") /\ UNCHANGED ioError
      BY <1>b, <1>f, <3>1, <3>2 DEF MoveFs, Fields
    <3>3. QED
      BY <1>5, <3>2 DEF SweepRename
  <2>3. SettledInv'
    <3>1. \A f \in Finished : f \in Files
      BY DEF Finished, Types
    <3>2. QED
      BY <1>a, <1>b, <1>c, <1>d, <1>g, <2>1, <2>2, <3>1, ZenonT(60) DEF Books, SettledInv, Safe, Finished
  <2>4. OldVersionKept'
    <3>1. May("sweep_backup")' = May("sweep_backup")
      BY <1>a DEF May, KindsOf
    <3>2. QED
      BY <1>a, <1>b, <1>f, <1>g, <2>1, <2>2, <3>1
           DEF Books, OldVersionKept, DelayedInv, InBackup, Keeps
  <2>5. DelayedInv'
    <3>1. /\ Len(delayed') = Len(delayed) - 1 /\ Len(delayed) \in Nat \ {0} /\ h = delayed[1]
          /\ \A i \in 1..Len(delayed') : delayed'[i] = delayed[i + 1]
      BY <1>b, <2>1, SMTT(60)
    <3>2. \A i, j \in 1..Len(delayed) : i # j => delayed[i] # delayed[j]
      BY <1>c DEF Books, DelayedInv
    <3>3. \A i, j \in 1..Len(delayed') : i # j => delayed'[i] # delayed'[j]
      BY <3>1, <3>2, SMTT(60)
    <3>4. \A i \in 1..Len(delayed') : delayed'[i] # h
      BY <3>1, <3>2, SMTT(60)
    <3>5. \A f \in Elems(delayed') : f # h /\ f \in Elems(delayed) /\ f \in Files
      <4>1. Elems(delayed) \subseteq Files
        BY <1>b, SMTT(60) DEF Elems
      <4>2. QED
        BY <1>b, <2>1, <3>4, <4>1 DEF Elems
    <3>6. \A f \in Elems(delayed') :
                /\ cfg.delay /\ fs'[f].staged = "new"
                /\ f \notin Ahead /\ f \notin Open /\ f \notin Elems(redo)
                /\ Keeps => Untouched(f)'
      BY <1>c, <1>g, <2>1, <3>5, ZenonT(60) DEF Books, DelayedInv, Untouched
    <3>7. QED
      BY <1>a, <1>c, <1>d, <1>e, <2>1, <3>3, <3>6 DEF DelayedInv
  <2>6. QED
    BY <1>1, <1>2, <1>3, <2>3, <2>4, <2>5 DEF Books
<1>6. QED
  BY <1>4, <1>5

LEMMA NetStepBooks ==
  ASSUME Types, Phase, ListOrder, Aligned, Books, Network
  PROVE  Books'
<1>a. todo \in Seq(Files) /\ expected \in Seq(Files) /\ (InHand => cur \in Files)
      /\ (npc \in {"drain", "drain_all", "next"} => outcome # "err")
  BY DEF Types, Phase, After
<1>b. ~Join => Ahead' \subseteq Ahead /\ Waiting' \subseteq Waiting
  BY NetAhead
<1>1. CASE StartFile
  <2>1. Elems(todo) = {cur'} \cup Elems(todo')
    BY <1>1, <1>a, ElemsTail DEF StartFile
  <2>2. Open' \subseteq Open /\ (Open' = Open \/ outcome' = "err")
    BY <1>1, <2>1 DEF StartFile, Fail, Open, InHand
  <2>3. npc = "next" /\ npc' \in {"begin", "whole", "shut_drain"} /\ (outcome = "err" => outcome' = "err")
        /\ ~Join
    BY <1>1 DEF StartFile, Fail, Join
  <2>4. QED
    BY <1>1, <1>b, <2>2, <2>3, NetQuiet DEF StartFile
<1>n. ASSUME NoteCommit, InHand
      PROVE  Open' = Open /\ UNCHANGED <<redo, delayed, pass, ioError, metaErrs, failed, cut, outcome, success,
                                          confirmed>>
             /\ npc' = "drain"
  <2>1. Elems(expected') = Elems(expected) \cup {cur}
    BY <1>a, <1>n, ElemsAppend, SMTT(60) DEF NoteCommit
  <2>2. QED
    BY <1>n, <2>1 DEF NoteCommit, Open, InHand
<1>2. CASE SendWhole
  BY <1>2, <1>b, <1>n, NetQuiet DEF SendWhole, InHand, Join
<1>3. CASE SendBegin
  <2>1. Open' = Open /\ npc = "begin" /\ npc' = "stream" /\ ~Join
    BY <1>3 DEF SendBegin, Open, InHand, netVars, Join
  <2>2. QED
    BY <1>3, <1>b, <2>1, NetQuiet DEF SendBegin, netVars
<1>4. CASE SendChunk
  <2>1. Open' = Open /\ npc = "stream" /\ npc' = "stream" /\ ~Join
    BY <1>4 DEF SendChunk, Open, InHand, Join
  <2>2. QED
    BY <1>4, <1>b, <2>1, NetQuiet DEF SendChunk
<1>5. CASE SendCommit
  BY <1>5, <1>b, <1>n, NetQuiet DEF SendCommit, InHand, Join
<1>6. CASE StreamError
  <2>1. Open' \subseteq Open /\ npc = "stream" /\ npc' = "shut_drain" /\ outcome' = "err" /\ ~Join
    BY <1>6 DEF StreamError, Fail, Open, InHand, Join
  <2>2. QED
    BY <1>6, <1>b, <2>1, NetQuiet DEF StreamError
<1>7. CASE DrainReady
  <2>1. CASE resultQ # << >> /\ HandleResult(Head(resultQ), "shut_drain") /\ UNCHANGED confirmed
    BY <1>7, <2>1, NetHandle DEF DrainReady
  <2>2. CASE EmitSuccess /\ npc' = "next"
             /\ UNCHANGED <<resultQ, pending, expected, delayed, redo, failed, metaErrs, outcome>>
    <3>1. Open' = Open /\ npc = "drain" /\ ~Join
      BY <1>7, <2>2 DEF DrainReady, Open, InHand, Join
    <3>2. QED
      BY <1>7, <1>a, <1>b, <2>2, <3>1, NetQuiet DEF DrainReady
  <2>3. QED
    BY <1>7, <2>1, <2>2 DEF DrainReady
<1>8. CASE LoopEnd
  <2>1. Open' = Open /\ npc = "next" /\ npc' = "drain_all" /\ ~Join
    BY <1>8 DEF LoopEnd, Open, InHand, netVars, Join
  <2>2. QED
    BY <1>8, <1>b, <2>1, NetQuiet DEF LoopEnd, netVars
<1>8a. CASE Stop
  BY <1>8a, NetStop
<1>9. CASE DrainAll
  <2>1. CASE resultQ # << >> /\ HandleResult(Head(resultQ), "shut_drain") /\ UNCHANGED confirmed
    BY <1>9, <2>1, NetHandle DEF DrainAll
  <2>2. CASE EmitSuccess /\ npc' = "shut_drain" /\ outcome' = "ok"
             /\ UNCHANGED <<resultQ, pending, expected, delayed, redo, failed, metaErrs>>
    <3>1. Open' = Open /\ npc = "drain_all" /\ ~Join
      BY <1>9, <2>2 DEF DrainAll, Open, InHand, Join
    <3>2. QED
      BY <1>9, <1>a, <1>b, <2>2, <3>1, NetQuiet DEF DrainAll
  <2>3. QED
    BY <1>9, <2>1, <2>2 DEF DrainAll
<1>10. CASE ShutdownDrain
  <2>1. CASE pending > 0 /\ resultQ # << >> /\ HandleResult(Head(resultQ), "shut_send")
    <3>1. outcome = "err"
      BY <1>10, <2>1, SMTT(60) DEF ShutdownDrain, Phase, Types, Loop
    <3>2. QED
      BY <1>10, <2>1, <3>1, NetHandle DEF ShutdownDrain
  <2>2. CASE npc' = "shut_send"
             /\ UNCHANGED <<resultQ, pending, expected, delayed, redo, failed, success, metaErrs, outcome>>
    <3>1. Open' = Open /\ npc = "shut_drain" /\ ~Join
      BY <1>10, <2>2 DEF ShutdownDrain, Open, InHand, Join
    <3>2. QED
      BY <1>10, <1>b, <2>2, <3>1, NetQuiet DEF ShutdownDrain
  <2>3. QED
    BY <1>10, <2>1, <2>2 DEF ShutdownDrain
<1>11. CASE SendShutdown
  <2>1. Open' = Open /\ npc = "shut_send" /\ npc' = "join" /\ ~Join
    BY <1>11 DEF SendShutdown, Open, InHand, netVars, Join
  <2>2. QED
    BY <1>11, <1>b, <2>1, NetQuiet DEF SendShutdown, netVars
<1>12. CASE Join
  BY <1>12, NetJoin
<1>13. CASE SweepBackup \/ SweepRename
  BY <1>13, NetSweep
<1>14. CASE SweepEnd
  <2>1. Open' = Open /\ npc = "sweep_backup" /\ npc' = "done" /\ delayed = << >> /\ ~Join
    BY <1>14 DEF SweepEnd, Open, InHand, netVars, Join
  <2>2. QED
    BY <1>14, <1>b, <2>1, NetQuiet DEF SweepEnd, netVars
<1>15. QED
  BY <1>1, <1>2, <1>3, <1>4, <1>5, <1>6, <1>7, <1>8, <1>8a, <1>9, <1>10, <1>11, <1>12, <1>13,
     <1>14 DEF Network

-----------------------------------------------------------------------------
(* The inductive invariant, and what follows from it.                         *)

LEMMA InitBooks == Init => Books
<1> SUFFICES ASSUME Init PROVE Books
  OBVIOUS
<1>b. /\ todo = [f \in Files |-> f] /\ Len(todo) = NumFiles /\ NumFiles \in Nat
      /\ \A i \in 1..NumFiles : todo[i] = i
  BY DiskAssumption, SMTT(60) DEF Init, Files
<1>c. Elems(todo) = Files /\ Elems(expected) = {} /\ Elems(redo) = {} /\ Elems(delayed) = {}
  <2>1. Elems(todo) = Files
    BY <1>b DEF Elems, Files
  <2>2. QED
    BY <2>1, ElemsEmpty DEF Init
<1>d. /\ Queued = {} /\ ~Busy /\ ~InHand /\ Ahead = Files /\ Waiting = Files /\ Open = Files
  BY <1>c, SMTT(60)
       DEF Init, Queued, Starts, Busy, InHand, Ahead, Waiting, Open, Unsent, InDisk, Starting
<1>e. \A f \in Files : fs[f].dest = fs[f].had /\ fs[f].dest \in {"none", "old"}
  BY SMTT(60) DEF Init
<1>1. ToldInv /\ SettledInv /\ CoverInv /\ OldVersionKept
  BY <1>c, <1>d, <1>e, SMTT(60) DEF Init, ToldInv, SettledInv, CoverInv, OldVersionKept, Finished
<1>2. FreshInv
  BY <1>c, <1>d, <1>e DEF Init, FreshInv, FreshFile, Untouched
<1>3. DelayedInv
  BY <1>c, SMTT(60) DEF Init, DelayedInv
<1>4. QED
  BY <1>1, <1>2, <1>3 DEF Books

LEMMA StepBooks == PipeInv /\ Books /\ [Next]_vars => Books'
<1> SUFFICES ASSUME PipeInv, Books, [Next]_vars PROVE Books'
  OBVIOUS
<1>1. CASE Network
  BY <1>1, NetStepBooks DEF PipeInv, DiskInv
<1>2. CASE Disk
  BY <1>2, DiskStepBooks
<1>3. CASE UNCHANGED vars
  <2>1. Ahead' = Ahead /\ Waiting' = Waiting /\ Open' = Open
    BY <1>3
         DEF vars, netVars, diskVars, Ahead, Waiting, Open, InHand, InDisk, Unsent, Queued, Starts, Busy
  <2>2. ToldInv' /\ SettledInv'
    BY <1>3, <2>1 DEF Books, vars, netVars, diskVars, ToldInv, Told, SettledInv, Safe,
         Finished, Untouched, Keeps, NeedsRename
  <2>3. FreshInv' /\ OldVersionKept'
    BY <1>3, <2>1
         DEF Books, vars, netVars, diskVars, FreshInv, FreshFile, OldVersionKept, Untouched,
         InBackup, FirstTime, Keeps, NeedsRename, May, KindsOf
  <2>4. DelayedInv' /\ CoverInv'
    BY <1>3, <2>1
         DEF Books, vars, netVars, diskVars, DelayedInv, CoverInv, Finished, Untouched,
         InBackup, Keeps, May, KindsOf
  <2>5. QED
    BY <2>2, <2>3, <2>4 DEF Books
<1>4. QED
  BY <1>1, <1>2, <1>3 DEF Next, Done

LEMMA BooksHold == Spec => [](PipeInv /\ Books)
BY InitBooks, StepBooks, PipeInvHolds, PTL DEF Spec

\* The sender is told to remove a source only when the verified file is at its
\* destination or staged for the sweep, and no later write, redo or sweep step undoes
\* that (emit_confirmed_source_removals, handle_delayed_updates).
THEOREM ConfirmedStaysSafe == Spec => []ConfirmedMeansSafe
<1>1. PipeInv /\ Books => ConfirmedMeansSafe
  BY DEF PipeInv, DiskInv, Books, SettledInv, Safe, ConfirmedMeansSafe
<1>2. QED
  BY <1>1, BooksHold, PTL

\* With --backup the version a file had before the run is at its destination or in the
\* backup at every moment (make_backup, make_inplace_backup, the sweep), under the
\* conditions the property names.
THEOREM OldVersionNeverLost == Spec => []OldVersionKept
<1>1. PipeInv /\ Books => OldVersionKept
  BY DEF PipeInv, DiskInv, Books
<1>2. QED
  BY <1>1, BooksHold, PTL

\* A run that ends with no error, warning or I/O error bit has put in place and confirmed
\* exactly the files that --stop-at did not leave behind: neither the redo bookkeeping nor
\* a deadline loses one of the others (run_pipeline_loop_decoupled, drain_all_results).
THEOREM CleanExitCoversAll == Spec => []CleanExitAccountsForAll
<1>1. PipeInv /\ Books => CleanExitAccountsForAll
  <2>1. SUFFICES ASSUME PipeInv, Books, npc = "done", outcome = "ok", failed = {}, metaErrs = {}, ~ioError
                 PROVE  confirmed = Files \ cut /\ \A f \in confirmed : fs[f].dest = "new"
    BY DEF CleanExitAccountsForAll
  <2>2. /\ expected = << >> /\ todo = << >> /\ redo = << >> /\ success = {} /\ delayed = << >>
        /\ confirmed \subseteq Files
    BY <2>1 DEF PipeInv, DiskInv, Types, Phase, Books, DelayedInv
  <2>3. Elems(expected) = {} /\ Elems(todo) = {} /\ Elems(redo) = {} /\ Elems(delayed) = {}
    BY <2>2, ElemsEmpty
  <2>4. Finished = confirmed /\ Open = {}
    BY <2>1, <2>2, <2>3 DEF Finished, Open, InHand
  <2>5. Files \subseteq confirmed \cup cut /\ \A f \in cut : f \notin confirmed
    BY <2>1, <2>3, <2>4 DEF Books, CoverInv
  <2>6. \A f \in confirmed : fs[f].dest = "new"
    BY <2>1, <2>3, <2>4 DEF Books, SettledInv
  <2>7. QED
    BY <2>2, <2>5, <2>6
<1>2. QED
  BY <1>1, BooksHold, PTL
=============================================================================

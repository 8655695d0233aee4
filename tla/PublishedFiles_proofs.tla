------------------------ MODULE PublishedFiles_proofs -----------------------
(***************************************************************************)
(* Theorems about PublishedFiles, for any number of files and any time:    *)
(* what kills and power losses leave of the two files, and what a client   *)
(* is told about its copy.                                                 *)
(***************************************************************************)
EXTENDS PublishedFiles, SequenceTheorems, TLAPS

USE DEF Names, Temp, NoFile, Ids

File == [of : Nat, whole : BOOLEAN, synced : BOOLEAN, mtime : Nat]

(* What the two names, on disk or not, and the client refer to are files.  *)
LEMMA Referred ==
  ASSUME TypeOK, NEW n \in Names, NEW i \in {dir[n], disk[n], safe[n], client.open, client.copy}
  PROVE  i \in 0 .. Len(files) /\ Len(files) \in Nat /\ (i # 0 => i \in 1 .. Len(files))
  BY DEF TypeOK

LEMMA FileType ==
  ASSUME TypeOK, NEW i \in 1 .. Len(files)
  PROVE  /\ files[i] \in File /\ files[i].of \in Nat /\ files[i].mtime \in Nat
         /\ files[i].whole \in BOOLEAN /\ files[i].synced \in BOOLEAN
<1>1. files[i] \in File
  BY ElementOfSeq DEF TypeOK, File
<1> QED
  BY <1>1 DEF File

(* Files may be added or improved: while the directory, the disk and the   *)
(* client stay, what they refer to stays sound.                            *)
LEMMA FilesImprove ==
  ASSUME TypeOK, NeverTorn, ListNotAhead, ReportedSurvives,
         UNCHANGED <<dir, disk, safe, client>>,
         \A i \in 1 .. Len(files) : /\ files'[i].of = files[i].of
                                    /\ files[i].whole => files'[i].whole
                                    /\ files[i].synced => files'[i].synced
  PROVE  NeverTorn' /\ ListNotAhead' /\ ReportedSurvives'
<1>1. NeverTorn'
  <2> SUFFICES ASSUME NEW n \in Names, NEW i \in {dir[n], disk[n], client.open} \ {0}
               PROVE  files'[i].whole /\ files'[i].synced
    BY DEF NeverTorn
  <2>1. i \in 1 .. Len(files)
    BY Referred
  <2>2. files[i].whole /\ files[i].synced
    BY DEF NeverTorn
  <2> QED
    BY <2>1, <2>2
<1>2. ListNotAhead'
  <2> SUFFICES ASSUME NEW d \in {dir, disk}, d["txt"] # 0
               PROVE  d["state"] # 0 /\ files'[d["txt"]].of <= files'[d["state"]].of
    BY DEF ListNotAhead
  <2>1. d["state"] # 0 /\ files[d["txt"]].of <= files[d["state"]].of
    BY DEF ListNotAhead
  <2>2. d["txt"] \in 1 .. Len(files) /\ d["state"] \in 1 .. Len(files)
    BY <2>1, Referred
  <2> QED
    BY <2>1, <2>2
<1>3. ReportedSurvives'
  BY DEF ReportedSurvives
<1> QED
  BY <1>1, <1>2, <1>3

(* A new file is the last, and the files before it are what they were. *)
LEMMA CreateFile ==
  ASSUME TypeOK, NEW n \in Names, NEW st \in Nat, Create(n, st)
  PROVE  /\ files' \in Seq(File) /\ Len(files') = Len(files) + 1
         /\ \A i \in 1 .. Len(files) : files'[i] = files[i]
         /\ files'[Len(files) + 1].of = st /\ files'[Len(files) + 1].mtime = now
<1>1. /\ files \in Seq(File) /\ now \in Nat
      /\ files' = Append(files, [of |-> st, whole |-> FALSE, synced |-> FALSE, mtime |-> now])
  BY DEF TypeOK, Create, File
<1>2. [of |-> st, whole |-> FALSE, synced |-> FALSE, mtime |-> now] \in File
  BY <1>1 DEF File
<1> HIDE DEF File
<1> QED
  BY <1>1, <1>2, AppendProperties

(* It is no older than the others and, if its state is, no newer. *)
LEMMA CreateOrdered ==
  ASSUME TypeOK, Ordered, NEW n \in Names, NEW st \in 0 .. Len(files) + 1, Create(n, st),
         UNCHANGED <<dir, safe, now>>
  PROVE  Ordered'
<1>1. /\ Len(files) \in Nat /\ Len(files') = Len(files) + 1
      /\ \A i \in 1 .. Len(files) : files'[i] = files[i]
      /\ files'[Len(files) + 1].of = st /\ files'[Len(files) + 1].mtime = now
      /\ now \in Nat
  <2>1. st \in Nat /\ now \in Nat /\ Len(files) \in Nat
    BY DEF TypeOK
  <2> QED
    BY <2>1, CreateFile
<1>2. \A i \in 1 .. Len(files) + 1 : i = Len(files) + 1 \/ i \in 1 .. Len(files)
  BY <1>1
<1>3. \A i \in 1 .. Len(files) + 1 : files'[i].of <= i /\ files'[i].mtime <= now
  BY <1>1, <1>2, FileType DEF Ordered
<1>4. \A i, j \in 1 .. Len(files) + 1 : i <= j => files'[i].mtime <= files'[j].mtime
  <2> SUFFICES ASSUME NEW i \in 1 .. Len(files) + 1, NEW j \in 1 .. Len(files) + 1, i <= j
               PROVE  files'[i].mtime <= files'[j].mtime
    OBVIOUS
  <2>1. CASE j = Len(files) + 1
    BY <2>1, <1>1, <1>3
  <2>2. CASE j \in 1 .. Len(files)
    <3>1. i \in 1 .. Len(files)
      BY <2>2, <1>1
    <3> QED
      BY <2>2, <3>1, <1>1 DEF Ordered
  <2> QED
    BY <2>1, <2>2, <1>2
<1> QED
  BY <1>1, <1>3, <1>4 DEF Ordered

LEMMA InitFiles == Init => FilesInv
  BY DEF Init, FilesInv, TypeOK, NeverTorn, ListNotAhead, ReportedSurvives, Ordered, InWrite,
     Writing

(* Saving from whatever the memory was: a start's and an update's write. *)
LEMMA SaveStep ==
  ASSUME FilesInv, Save, call' \in {"open", "update"},
         UNCHANGED <<dir, safe, disk, now, client>>
  PROVE  FilesInv'
<1>1. /\ TypeOK /\ Create("state", Len(files) + 1) /\ mem' = Len(files) + 1
      /\ step' = "copy" /\ name' = "state" /\ Len(files) + 1 \in Nat
  BY DEF FilesInv, Save, Create, TypeOK
<1>2. /\ files' \in Seq(File) /\ Len(files') = Len(files) + 1
      /\ \A i \in 1 .. Len(files) : files'[i] = files[i]
      /\ files'[Len(files) + 1].of = Len(files) + 1
  <2>1. "state" \in Names
    OBVIOUS
  <2> QED
    BY <1>1, <2>1, CreateFile
<1>3. TypeOK'
  <2>1. \A i \in Ids : i \in Ids'
    BY <1>1, <1>2
  <2> QED
    BY <1>1, <1>2, <2>1 DEF TypeOK, File
<1>4. NeverTorn' /\ ListNotAhead' /\ ReportedSurvives'
  BY <1>1, <1>2, FilesImprove DEF FilesInv
<1>5. Ordered'
  BY <1>1, CreateOrdered DEF FilesInv
<1>6. InWrite'
  BY <1>1, <1>2 DEF InWrite, Writing
<1> QED
  BY <1>3, <1>4, <1>5, <1>6 DEF FilesInv

(* A start: what is published is the state on disk. *)
LEMMA OpenStep == FilesInv /\ Open => FilesInv'
<1> SUFFICES ASSUME FilesInv, Open PROVE FilesInv'
  OBVIOUS
<1>1. CASE Save /\ call' = "open"
  BY <1>1, SaveStep DEF Open
<1>2. CASE ~(Save /\ call' = "open")
  <2>1. TypeOK /\ step = "none" /\ dir \in [Names -> Ids]
    BY DEF Open, FilesInv, InWrite, TypeOK
  <2>2. /\ UNCHANGED <<files, name, dir, safe, disk, now, client>>
        /\ \/ mem' = mem \/ (dir["state"] # 0 /\ mem' = files[dir["state"]].of)
        /\ call' \in {"open", "idle"}
        /\ \/ step' = "none"
           \/ step' = "publish" /\ dir["state"] # 0 /\ mem' = files[dir["state"]].of
    BY <1>2, <2>1 DEF Open
  <2>3. mem' \in Nat
    <3>1. dir["state"] # 0 => files[dir["state"]].of \in Nat
      BY <2>1, Referred, FileType
    <3> QED
      BY <2>1, <2>2, <3>1 DEF TypeOK
  <2>4. TypeOK'
    BY <2>1, <2>2, <2>3 DEF TypeOK
  <2>5. InWrite'
    BY <2>2 DEF InWrite, Writing
  <2> QED
    BY <2>2, <2>4, <2>5 DEF FilesInv, NeverTorn, ListNotAhead, ReportedSurvives, Ordered
<1> QED
  BY <1>1, <1>2

LEMMA PublishStep == FilesInv /\ Publish => FilesInv'
<1> SUFFICES ASSUME FilesInv, Publish PROVE FilesInv'
  OBVIOUS
<1>0. /\ TypeOK /\ step = "publish" /\ UNCHANGED <<mem, disk, now, client>>
      /\ dir["state"] # 0 /\ files[dir["state"]].of = mem /\ mem \in Nat
  BY DEF Publish, FilesInv, InWrite, TypeOK
<1>1. CASE Create("txt", mem) /\ UNCHANGED <<dir, call, safe>>
  <2>1. /\ "txt" \in Names /\ step' = "copy" /\ name' = "txt" /\ call # "down"
    BY <1>1, <1>0 DEF Create, FilesInv, InWrite
  <2>2. /\ files' \in Seq(File) /\ Len(files') = Len(files) + 1
        /\ \A i \in 1 .. Len(files) : files'[i] = files[i]
        /\ files'[Len(files) + 1].of = mem
    BY <1>0, <1>1, <2>1, CreateFile
  <2>3. dir["state"] \in 1 .. Len(files) /\ Len(files) \in Nat
    BY <1>0, Referred
  <2>4. mem \in 0 .. Len(files) + 1
    BY <1>0, <2>3 DEF FilesInv, Ordered
  <2>5. TypeOK'
    <3>1. \A i \in Ids : i \in Ids'
      BY <2>2, <2>3
    <3> QED
      BY <1>0, <1>1, <2>1, <2>2, <3>1 DEF TypeOK, File
  <2>6. NeverTorn' /\ ListNotAhead' /\ ReportedSurvives'
    BY <1>0, <1>1, <2>2, FilesImprove DEF FilesInv
  <2>7. Ordered'
    BY <1>0, <1>1, <2>1, <2>4, CreateOrdered DEF FilesInv
  <2>8. InWrite'
    BY <1>0, <1>1, <2>1, <2>2, <2>3 DEF InWrite, Writing
  <2> QED
    BY <2>5, <2>6, <2>7, <2>8 DEF FilesInv
<1>2. CASE step' = "none" /\ call' = "idle" /\ UNCHANGED <<files, name>>
  <2>1. \/ UNCHANGED <<dir, safe>>
        \/ /\ dir' = [dir EXCEPT !["txt"] = 0] /\ safe' = [safe EXCEPT !["txt"] = 0]
           /\ dir \in [Names -> Ids] /\ safe \in [Names -> Ids] /\ disk \in [Names -> Ids]
    BY <1>0, <1>2 DEF Publish, Create, TypeOK
  <2>2. Len(files) \in Nat
    BY <1>0, Referred
  <2>3. TypeOK'
    BY <1>0, <1>2, <2>1, <2>2 DEF TypeOK
  <2>4. NeverTorn' /\ ListNotAhead'
    BY <1>0, <1>2, <2>1 DEF FilesInv, NeverTorn, ListNotAhead
  <2>5. ReportedSurvives' /\ Ordered'
    BY <1>0, <1>2, <2>1, <2>2 DEF FilesInv, ReportedSurvives, Ordered
  <2>6. InWrite'
    BY <1>2 DEF InWrite, Writing
  <2> QED
    BY <2>3, <2>4, <2>5, <2>6 DEF FilesInv
<1> QED
  BY <1>1, <1>2 DEF Publish

(* A change of the file being written. *)
LEMMA AmendFile ==
  ASSUME TypeOK, Len(files) # 0, NEW f \in File, files' = [files EXCEPT ![Len(files)] = f]
  PROVE  /\ files' \in Seq(File) /\ Len(files') = Len(files)
         /\ files'[Len(files)] = f
         /\ \A i \in 1 .. Len(files) : i # Len(files) => files'[i] = files[i]
<1>1. files \in Seq(File) /\ Len(files) \in 1 .. Len(files)
  BY DEF TypeOK, File
<1> HIDE DEF File
<1> QED
  BY <1>1, ExceptSeq

(* The three steps that finish a file: each adds to what is known of it. *)
LEMMA CopyStep == FilesInv /\ Copy => FilesInv'
<1> SUFFICES ASSUME FilesInv, Copy PROVE FilesInv'
  OBVIOUS
<1>0. /\ TypeOK /\ step = "copy" /\ step' = "sync" /\ Len(files) \in Nat \ {0} /\ now \in Nat
      /\ files' = [files EXCEPT ![Len(files)].whole = TRUE, ![Len(files)].mtime = now]
      /\ UNCHANGED <<mem, dir, call, name, safe, disk, now, client>>
  BY DEF Copy, FilesInv, InWrite, Writing, TypeOK
<1>1. /\ files' \in Seq(File) /\ Len(files') = Len(files)
      /\ \A i \in 1 .. Len(files) :
           /\ files'[i].of = files[i].of /\ files'[i].synced = files[i].synced
           /\ files'[i].whole = (files[i].whole \/ i = Len(files))
           /\ files'[i].mtime = IF i = Len(files) THEN now ELSE files[i].mtime
  <2> DEFINE old == files[Len(files)]
             f == [old EXCEPT !.whole = TRUE, !.mtime = now]
  <2>1. old \in File /\ Len(files) # 0
    BY <1>0, FileType
  <2>2. /\ f \in File /\ f.of = old.of /\ f.whole /\ f.synced = old.synced /\ f.mtime = now
    BY <1>0, <2>1 DEF File
  <2>3. files' = [files EXCEPT ![Len(files)] = f]
    BY <1>0
  <2> HIDE DEF f
  <2> QED
    BY <1>0, <2>1, <2>2, <2>3, AmendFile, FileType, ZenonT(60)
<1>2. TypeOK'
  BY <1>0, <1>1 DEF TypeOK, File
<1>3. NeverTorn' /\ ListNotAhead' /\ ReportedSurvives'
  BY <1>0, <1>1, FilesImprove DEF FilesInv
<1>4. Ordered'
  BY <1>0, <1>1, FileType DEF FilesInv, Ordered
<1>5. InWrite'
  <2>1. "state" \in Names /\ (dir["state"] # 0 => dir["state"] \in 1 .. Len(files))
    BY <1>0, Referred
  <2>2. Len(files) \in 1 .. Len(files) /\ InWrite
    BY <1>0 DEF FilesInv
  <2> QED
    BY <1>0, <1>1, <2>1, <2>2 DEF InWrite, Writing
<1> QED
  BY <1>2, <1>3, <1>4, <1>5 DEF FilesInv

LEMMA SyncStep == FilesInv /\ Sync => FilesInv'
<1> SUFFICES ASSUME FilesInv, Sync PROVE FilesInv'
  OBVIOUS
<1>0. /\ TypeOK /\ step = "sync" /\ step' = "rename" /\ Len(files) \in Nat \ {0}
      /\ files' = [files EXCEPT ![Len(files)].synced = TRUE]
      /\ UNCHANGED <<mem, dir, call, name, safe, disk, now, client>>
  BY DEF Sync, FilesInv, InWrite, Writing, TypeOK
<1>1. /\ files' \in Seq(File) /\ Len(files') = Len(files)
      /\ \A i \in 1 .. Len(files) :
           /\ files'[i].of = files[i].of /\ files'[i].whole = files[i].whole
           /\ files'[i].synced = (files[i].synced \/ i = Len(files))
           /\ files'[i].mtime = files[i].mtime
  <2> DEFINE old == files[Len(files)]
             f == [old EXCEPT !.synced = TRUE]
  <2>1. old \in File /\ Len(files) # 0
    BY <1>0, FileType
  <2>2. /\ f \in File /\ f.of = old.of /\ f.whole = old.whole /\ f.synced /\ f.mtime = old.mtime
    BY <2>1 DEF File
  <2>3. files' = [files EXCEPT ![Len(files)] = f]
    BY <1>0
  <2> HIDE DEF f
  <2>4. /\ files' \in Seq(File) /\ Len(files') = Len(files) /\ files'[Len(files)] = f
        /\ \A i \in 1 .. Len(files) : i # Len(files) => files'[i] = files[i]
    BY <1>0, <2>1, <2>2, <2>3, AmendFile
  <2>5. \A i \in 1 .. Len(files) : files[i].synced \in BOOLEAN
    BY <1>0, FileType
  <2> QED
    BY <2>2, <2>4, <2>5
<1>2. TypeOK'
  BY <1>0, <1>1 DEF TypeOK, File
<1>3. NeverTorn' /\ ListNotAhead' /\ ReportedSurvives'
  BY <1>0, <1>1, FilesImprove DEF FilesInv
<1>4. Ordered'
  BY <1>0, <1>1 DEF FilesInv, Ordered
<1>5. InWrite'
  <2>1. "state" \in Names /\ (dir["state"] # 0 => dir["state"] \in 1 .. Len(files))
    BY <1>0, Referred
  <2>2. Len(files) \in 1 .. Len(files) /\ InWrite
    BY <1>0 DEF FilesInv
  <2> QED
    BY <1>0, <1>1, <2>1, <2>2 DEF InWrite, Writing
<1> QED
  BY <1>2, <1>3, <1>4, <1>5 DEF FilesInv

LEMMA RenameStep == FilesInv /\ Rename => FilesInv'
<1> SUFFICES ASSUME FilesInv, Rename PROVE FilesInv'
  OBVIOUS
<1>0. /\ TypeOK /\ step = "rename" /\ step' = "syncdir" /\ Len(files) \in Nat \ {0}
      /\ dir \in [Names -> Ids] /\ safe \in [Names -> Ids] /\ name \in Names
      /\ dir' = [dir EXCEPT ![name] = Len(files)]
      /\ files[Len(files)].of = mem /\ files[Len(files)].whole /\ files[Len(files)].synced
      /\ UNCHANGED <<files, mem, call, name, safe, disk, now, client>>
  BY DEF Rename, FilesInv, InWrite, Writing, TypeOK
<1>1. TypeOK'
  BY <1>0 DEF TypeOK
<1>2. NeverTorn'
  BY <1>0 DEF FilesInv, NeverTorn
<1>3. ListNotAhead'
  <2>1. CASE name = "state"
    <3>1. mem = Len(files)
      BY <1>0, <2>1 DEF FilesInv, InWrite, Writing
    <3>2. dir["txt"] # 0 => files[dir["txt"]].of <= Len(files)
      BY <1>0, Referred, FileType DEF FilesInv, Ordered
    <3> QED
      BY <1>0, <2>1, <3>1, <3>2 DEF FilesInv, ListNotAhead
  <2>2. CASE name = "txt"
    <3>1. dir["state"] # 0 /\ files[dir["state"]].of = mem /\ mem \in Nat
      BY <1>0, <2>2 DEF FilesInv, InWrite, Writing, TypeOK
    <3> QED
      BY <1>0, <2>2, <3>1 DEF FilesInv, ListNotAhead
  <2> QED
    BY <1>0, <2>1, <2>2
<1>4. ReportedSurvives' /\ Ordered'
  BY <1>0 DEF FilesInv, ReportedSurvives, Ordered
<1>5. InWrite'
  BY <1>0 DEF FilesInv, InWrite, Writing
<1> QED
  BY <1>1, <1>2, <1>3, <1>4, <1>5 DEF FilesInv

LEMMA SyncDirStep == FilesInv /\ SyncDir => FilesInv'
<1> SUFFICES ASSUME FilesInv, SyncDir PROVE FilesInv'
  OBVIOUS
<1>0. /\ TypeOK /\ step = "syncdir" /\ step' \in {"publish", "none"}
      /\ step' = "publish" => name = "state"
      /\ call' \in {call, "idle"} /\ disk' = dir
      /\ dir \in [Names -> Ids] /\ safe \in [Names -> Ids] /\ name \in Names
      /\ Len(files) \in Nat \ {0} /\ dir[name] = Len(files) /\ files[Len(files)].of = mem
      /\ call # "down" /\ safe' = [safe EXCEPT ![name] = dir[name]]
      /\ UNCHANGED <<files, mem, dir, name, now, client>>
  BY DEF SyncDir, Written, FilesInv, InWrite, Writing, TypeOK
<1>1. TypeOK'
  BY <1>0 DEF TypeOK
<1>2. NeverTorn' /\ ListNotAhead'
  BY <1>0 DEF FilesInv, NeverTorn, ListNotAhead
<1>3. ReportedSurvives' /\ Ordered'
  BY <1>0 DEF FilesInv, ReportedSurvives, Ordered
<1>4. InWrite'
  BY <1>0 DEF InWrite, Writing
<1> QED
  BY <1>1, <1>2, <1>3, <1>4 DEF FilesInv

(* A power loss takes files nobody refers to, and the directory goes back. *)
LEMMA PowerLossStep == FilesInv /\ PowerLoss => FilesInv'
<1> SUFFICES ASSUME FilesInv, PowerLoss PROVE FilesInv'
  OBVIOUS
<1>0. /\ TypeOK /\ step' = "none" /\ dir' = disk
      /\ files' = [i \in DOMAIN files |-> [files[i] EXCEPT !.whole = @ /\ files[i].synced]]
      /\ client \in [open : Ids, copy : Ids] /\ client' = [client EXCEPT !.open = 0]
      /\ Len(files) \in Nat /\ call' = "down"
      /\ UNCHANGED <<mem, name, safe, disk, now>>
  BY DEF PowerLoss, Disconnect, FilesInv, TypeOK
<1>1. /\ files' \in Seq(File) /\ Len(files') = Len(files)
      /\ \A i \in 1 .. Len(files) :
           /\ files'[i].of = files[i].of /\ files'[i].synced = files[i].synced
           /\ files'[i].whole = (files[i].whole /\ files[i].synced)
           /\ files'[i].mtime = files[i].mtime
  <2>1. DOMAIN files = 1 .. Len(files)
    BY <1>0 DEF TypeOK
  <2>2. \A i \in 1 .. Len(files) : [files[i] EXCEPT !.whole = @ /\ files[i].synced] \in File
    BY FileType, <1>0 DEF File
  <2> QED
    BY <1>0, <2>1, <2>2, FileType DEF File
<1>2. TypeOK'
  <2>1. Ids' = Ids
    BY <1>1
  <2>2. files' \in Seq([of : Nat, whole : BOOLEAN, synced : BOOLEAN, mtime : Nat])
    BY <1>1 DEF File
  <2> HIDE DEF File, Ids
  <2>3. dir' \in [Names -> Ids] /\ disk' \in [Names -> Ids] /\ safe' \in [Names -> Ids]
    BY <1>0 DEF TypeOK
  <2>4. client' \in [open : Ids, copy : Ids]
    BY <1>0 DEF Ids
  <2> QED
    BY <1>0, <2>1, <2>2, <2>3, <2>4 DEF TypeOK
<1>3. NeverTorn'
  <2> SUFFICES ASSUME NEW n \in Names, NEW i \in {disk[n]} \ {0}
               PROVE  files'[i].whole /\ files'[i].synced
    BY <1>0 DEF NeverTorn
  <2>1. i \in 1 .. Len(files) /\ files[i].whole /\ files[i].synced
    BY <1>0, Referred DEF FilesInv, NeverTorn
  <2> QED
    BY <2>1, <1>1
<1>4. ListNotAhead'
  <2> SUFFICES ASSUME disk["txt"] # 0
               PROVE  disk["state"] # 0 /\ files'[disk["txt"]].of <= files'[disk["state"]].of
    BY <1>0 DEF ListNotAhead
  <2>1. disk["state"] # 0 /\ files[disk["txt"]].of <= files[disk["state"]].of
    BY DEF FilesInv, ListNotAhead
  <2>2. disk["txt"] \in 1 .. Len(files) /\ disk["state"] \in 1 .. Len(files)
    BY <1>0, <2>1, Referred
  <2> QED
    BY <2>1, <2>2, <1>1
<1>5. ReportedSurvives' /\ Ordered'
  BY <1>0, <1>1 DEF FilesInv, ReportedSurvives, Ordered
<1>6. InWrite'
  BY <1>0 DEF InWrite, Writing
<1> QED
  BY <1>2, <1>3, <1>4, <1>5, <1>6 DEF FilesInv

(* The client and the environment leave the store's files alone. *)
LEMMA OutsideStep ==
  FilesInv /\ (Request \/ ServeContent \/ Kill \/ Flush \/ Tick \/ UNCHANGED vars) => FilesInv'
<1> SUFFICES ASSUME FilesInv,
                    Request \/ ServeContent \/ Kill \/ Flush \/ Tick \/ UNCHANGED vars
             PROVE  FilesInv'
  OBVIOUS
<1>0. /\ TypeOK /\ UNCHANGED <<files, mem, dir, name, safe>>
      /\ UNCHANGED <<call, step>> \/ (call' = "down" /\ step' = "none")
      /\ disk' \in {disk, dir} /\ now' \in {now, now + 1} /\ now \in Nat
      /\ dir \in [Names -> Ids] /\ client \in [open : Ids, copy : Ids] /\ 0 \in Ids
  BY DEF Request, ServeContent, Respond, Kill, Flush, Tick, vars, writerVars, FilesInv, TypeOK
<1>1. /\ client' \in [open : Ids, copy : Ids]
      /\ client'.open \in {0, client.open, dir["txt"]}
  BY <1>0 DEF Request, ServeContent, Respond, Kill, Disconnect, Flush, Tick, vars, writerVars
<1>2. TypeOK'
  BY <1>0, <1>1 DEF TypeOK
<1>3. NeverTorn' /\ ListNotAhead'
  BY <1>0, <1>1 DEF FilesInv, NeverTorn, ListNotAhead
<1>4. ReportedSurvives' /\ Ordered'
  BY <1>0, FileType DEF FilesInv, ReportedSurvives, Ordered
<1>5. InWrite'
  BY <1>0 DEF FilesInv, InWrite, Writing
<1> QED
  BY <1>2, <1>3, <1>4, <1>5 DEF FilesInv

LEMMA NextFiles == FilesInv /\ [Next]_vars => FilesInv'
<1> SUFFICES ASSUME FilesInv, [Next]_vars PROVE FilesInv'
  OBVIOUS
<1>1. CASE Open
  BY <1>1, OpenStep
<1>2. CASE Update
  BY <1>2, SaveStep DEF Update
<1>3. CASE Publish
  BY <1>3, PublishStep
<1>4. CASE Copy \/ Sync
  BY <1>4, CopyStep, SyncStep
<1>5. CASE Rename \/ SyncDir
  BY <1>5, RenameStep, SyncDirStep
<1>6. CASE WriteFails
  <2>1. /\ step' = "none" /\ call' \in {"down", "idle"}
        /\ UNCHANGED <<files, mem, dir, name, safe, disk, now, client>>
    BY <1>6 DEF WriteFails
  <2>2. TypeOK'
    BY <2>1 DEF FilesInv, TypeOK
  <2> QED
    BY <2>1, <2>2 DEF FilesInv, NeverTorn, ListNotAhead, ReportedSurvives, Ordered, InWrite, Writing
<1>7. CASE PowerLoss
  BY <1>7, PowerLossStep
<1>8. CASE Request \/ ServeContent \/ Kill \/ Flush \/ Tick \/ UNCHANGED vars
  BY <1>8, OutsideStep
<1> QED
  BY <1>1, <1>2, <1>3, <1>4, <1>5, <1>6, <1>7, <1>8 DEF Next, Write

(* No name and no reader ever has a torn file, whenever the process is     *)
(* killed or the power fails in writeAtomic.                               *)
THEOREM NoTornFile == Spec => []NeverTorn
  BY InitFiles, NextFiles, PTL DEF Spec, FilesInv

(* The list is never ahead of the state, before or after a power loss.     *)
THEOREM ListBehindState == Spec => []ListNotAhead
  BY InitFiles, NextFiles, PTL DEF Spec, FilesInv

(* What a call reported written a power loss does not take back.           *)
THEOREM WrittenSurvives == Spec => []ReportedSurvives
  BY InitFiles, NextFiles, PTL DEF Spec, FilesInv

(* A client that keeps its copy keeps an old list only of the same second. *)
THEOREM StaleForOneSecond == Spec => StaleWithinSecond
<1>1. FilesInv /\ [Next]_vars =>
        [ServeContent /\ client'.copy # client.open =>
           client.copy > client.open \/ files[client.copy].mtime = files[client.open].mtime]_vars
  <2> SUFFICES ASSUME FilesInv, ServeContent, client'.copy # client.open,
                      ~(client.copy > client.open)
               PROVE  files[client.copy].mtime = files[client.open].mtime
    OBVIOUS
  <2>1. /\ client.copy # 0 /\ client.open # 0
        /\ files[client.open].mtime <= files[client.copy].mtime
    BY DEF ServeContent, Respond
  <2>2. client.copy \in 1 .. Len(files) /\ client.open \in 1 .. Len(files)
    BY <2>1, Referred DEF FilesInv
  <2>3. files[client.copy].mtime \in Nat /\ files[client.open].mtime \in Nat
    BY <2>2, FileType DEF FilesInv
  <2>4. files[client.copy].mtime <= files[client.open].mtime
    BY <2>2 DEF FilesInv, Ordered
  <2> QED
    BY <2>1, <2>3, <2>4
<1> QED
  BY <1>1, InitFiles, NextFiles, PTL DEF Spec, StaleWithinSecond
=============================================================================

--------------------------- MODULE PublishedFiles ---------------------------
(***************************************************************************)
(* The two files on a real disk and in a reader's hands: writeAtomic       *)
(* (internal/state/store.go) replaces the state file and then the TXT step *)
(* by step while the process may be killed and the power may fail, and     *)
(* serveList (internal/web/server.go) hands the TXT to a client that       *)
(* revalidates its copy by modification time.                              *)
(*                                                                         *)
(* A file is a number, given in the order of creation; a state is the      *)
(* number of the first file it may be saved to.  The recovery's rules are  *)
(* ProxyStore's: here a call may always end without touching the TXT.      *)
(*                                                                         *)
(* The disk: renames and removals take effect at once and wholly; they     *)
(* reach the disk in order, when the directory is synced or whenever the   *)
(* system likes.  Data reaches it for certain when the file is synced.     *)
(***************************************************************************)
EXTENDS Integers, Sequences

CONSTANTS
  MaxFiles,  \* bound: files ever created
  MaxTime    \* bound: seconds on the clock

ASSUME PublishedFilesAssumption == MaxFiles \in Nat /\ MaxTime \in Nat

VARIABLES
  files,   \* every file created: the state it holds, how far it got, its mtime
  mem,     \* the state in memory
  dir,     \* the directory as processes see it: names to files, 0 for none
  disk,    \* the directory as it is on disk
  call,    \* "down", "idle", or the store call in progress: "open" or "update"
  step,    \* writeAtomic: "none", "copy", "sync", "rename", "syncdir", or "publish"
  name,    \* the name it writes
  safe,    \* history: the file last reported written under each name
  now,     \* the clock, in seconds, which is what HTTP dates keep of it
  client   \* the client: "idle" or the file it was served, and its copy

writerVars == <<files, mem, dir, call, step, name, safe>>
vars == <<writerVars, disk, now, client>>

Names == {"state", "txt"}
NoFile == [n \in Names |-> 0]
Temp == Len(files)

Init ==
  /\ files = <<>> /\ mem = 0
  /\ dir = NoFile /\ disk = NoFile
  /\ call = "down" /\ step = "none" /\ name = "state"
  /\ safe = NoFile
  /\ now = 0
  /\ client = [open |-> 0, copy |-> 0]

(* Definitions named X_Y are faulty variants of X: each breaks a property. *)

-----------------------------------------------------------------------------
(* writeAtomic *)

(* os.CreateTemp and Chmod. *)
Create(n, state) ==
  /\ Len(files) < MaxFiles
  /\ files' = Append(files, [of |-> state, whole |-> FALSE, synced |-> FALSE, mtime |-> now])
  /\ name' = n
  /\ step' = "copy"

Copy ==
  /\ step = "copy"
  /\ files' = [files EXCEPT ![Temp].whole = TRUE, ![Temp].mtime = now]
  /\ step' = "sync"
  /\ UNCHANGED <<mem, dir, call, name, safe, disk, now, client>>

(* Sync and Close. *)
Sync ==
  /\ step = "sync"
  /\ files' = [files EXCEPT ![Temp].synced = TRUE]
  /\ step' = "rename"
  /\ UNCHANGED <<mem, dir, call, name, safe, disk, now, client>>

Rename_Unsynced ==
  /\ step \in {"sync", "rename"}
  /\ dir' = [dir EXCEPT ![name] = Temp]
  /\ step' = "syncdir"
  /\ UNCHANGED <<files, mem, call, name, safe, disk, now, client>>

Rename ==
  /\ step = "rename"
  /\ dir' = [dir EXCEPT ![name] = Temp]
  /\ step' = "syncdir"
  /\ UNCHANGED <<files, mem, call, name, safe, disk, now, client>>

(* The file is reported written: after the state comes the list, after the *)
(* list the call is over.                                                  *)
Written ==
  /\ step = "syncdir"
  /\ safe' = [safe EXCEPT ![name] = dir[name]]
  /\ step' = IF name = "state" THEN "publish" ELSE "none"
  /\ call' = IF name = "state" THEN call ELSE "idle"
  /\ UNCHANGED <<files, mem, dir, name, now, client>>

SyncDir_Skipped == Written /\ UNCHANGED disk

SyncDir == Written /\ disk' = dir

(* A write ends early, before its rename or after it; the temporary file   *)
(* goes, and a start that fails ends the process.                          *)
WriteFails ==
  /\ step \in {"copy", "sync", "rename", "syncdir"}
  /\ step' = "none"
  /\ call' = IF call = "open" THEN "down" ELSE "idle"
  /\ UNCHANGED <<files, mem, dir, name, safe, disk, now, client>>

-----------------------------------------------------------------------------
(* The store's calls *)

(* The memory changes, and is to be saved. *)
Save == mem' = Len(files) + 1 /\ Create("state", Len(files) + 1)

(* Open: a save (recovery or pruning), or the state as it is, published    *)
(* unless it is in recovery, or a fresh store.                             *)
Open ==
  /\ call = "down"
  /\ \/ dir # NoFile /\ call' = "open" /\ Save
     \/ /\ dir["state"] # 0 /\ mem' = files[dir["state"]].of
        /\ \/ call' = "open" /\ step' = "publish"
           \/ call' = "idle" /\ UNCHANGED step
        /\ UNCHANGED <<files, name>>
     \/ dir = NoFile /\ call' = "idle" /\ UNCHANGED <<files, mem, step, name>>
  /\ UNCHANGED <<dir, safe, disk, now, client>>

Update_ListFirst ==
  /\ call = "idle"
  /\ call' = "update"
  /\ mem' = Len(files) + 1
  /\ step' = "publish"
  /\ UNCHANGED <<files, name, dir, safe, disk, now, client>>

Update ==
  /\ call = "idle"
  /\ call' = "update"
  /\ Save
  /\ UNCHANGED <<dir, safe, disk, now, client>>

(* publishLocked writes the list, removes it (the directory is not synced  *)
(* after that), or leaves it alone.                                        *)
Publish ==
  /\ step = "publish"
  /\ \/ Create("txt", mem) /\ UNCHANGED <<dir, call, safe>>
     \/ /\ step' = "none" /\ call' = "idle" /\ UNCHANGED <<files, name>>
        /\ \/ dir' = [dir EXCEPT !["txt"] = 0] /\ safe' = [safe EXCEPT !["txt"] = 0]
           \/ UNCHANGED <<dir, safe>>
  /\ UNCHANGED <<mem, disk, now, client>>

-----------------------------------------------------------------------------
(* serveList *)

(* os.Open: a client gets the file that has the name now, or a 503. *)
Request ==
  /\ call \in {"idle", "update"} /\ client.open = 0
  /\ dir["txt"] # 0
  /\ client' = [client EXCEPT !.open = dir["txt"]]
  /\ UNCHANGED <<writerVars, disk, now>>

Respond(unmodified) ==
  /\ client.open # 0
  /\ client' = [open |-> 0, copy |-> IF unmodified THEN client.copy ELSE client.open]
  /\ UNCHANGED <<writerVars, disk, now>>

ServeContent_AnyCopy == Respond(client.copy # 0)

(* http.ServeContent from the file opened, whatever has the name by now: a *)
(* 304 if it is no newer than the client's copy, to the second.            *)
ServeContent ==
  Respond(client.copy # 0 /\ files[client.open].mtime <= files[client.copy].mtime)

-----------------------------------------------------------------------------
(* The environment *)

Disconnect == [client EXCEPT !.open = 0]

Kill ==
  /\ call # "down"
  /\ call' = "down" /\ step' = "none"
  /\ client' = Disconnect
  /\ UNCHANGED <<files, mem, dir, name, safe, disk, now>>

(* What was not on disk is gone. *)
PowerLoss ==
  /\ call' = "down" /\ step' = "none"
  /\ dir' = disk
  /\ files' = [i \in DOMAIN files |-> [files[i] EXCEPT !.whole = @ /\ files[i].synced]]
  /\ client' = Disconnect
  /\ UNCHANGED <<mem, name, safe, disk, now>>

(* The system writes the directory in its own time. *)
Flush ==
  /\ disk # dir /\ disk' = dir
  /\ UNCHANGED <<writerVars, now, client>>

Tick ==
  /\ now < MaxTime
  /\ now' = now + 1
  /\ UNCHANGED <<writerVars, disk, client>>

Write == Copy \/ Sync \/ Rename \/ SyncDir \/ WriteFails

Next ==
  \/ Open \/ Update \/ Publish \/ Write
  \/ Request \/ ServeContent
  \/ Kill \/ PowerLoss \/ Flush \/ Tick

Spec == Init /\ [][Next]_vars

-----------------------------------------------------------------------------
(* Properties *)

Ids == 0 .. Len(files)

TypeOK ==
  /\ files \in Seq([of : Nat, whole : BOOLEAN, synced : BOOLEAN, mtime : Nat])
  /\ mem \in Nat
  /\ dir \in [Names -> Ids] /\ disk \in [Names -> Ids] /\ safe \in [Names -> Ids]
  /\ call \in {"down", "idle", "open", "update"}
  /\ step \in {"none", "copy", "sync", "rename", "syncdir", "publish"}
  /\ name \in Names
  /\ now \in Nat
  /\ client \in [open : Ids, copy : Ids]

(* Whatever has one of the two names, now or after a power loss, or is in  *)
(* the hands of a client, is a file written to its end and on disk.        *)
NeverTorn ==
  \A n \in Names : \A i \in {dir[n], disk[n], client.open} \ {0} :
    files[i].whole /\ files[i].synced

(* The list is never ahead of the state, neither in the directory nor in   *)
(* what a power loss would leave of it, so a start can always rebuild it   *)
(* (docs/architecture.md:29-30).                                           *)
ListNotAhead ==
  \A d \in {dir, disk} : d["txt"] # 0 =>
    d["state"] # 0 /\ files[d["txt"]].of <= files[d["state"]].of

(* A file that was reported written is not undone by a power loss: the     *)
(* disk has it or a newer one.                                             *)
ReportedSurvives == \A n \in Names : disk[n] >= safe[n]

(* A client that is told to keep its copy (304) has the list that is       *)
(* served, or a newer one that a power loss took back, or one written      *)
(* within the same second.                                                 *)
StaleWithinSecond ==
  [][ServeContent /\ client'.copy # client.open =>
       client.copy > client.open \/ files[client.copy].mtime = files[client.open].mtime]_vars

-----------------------------------------------------------------------------
(* The inductive invariant behind them: file numbers order states and      *)
(* times, and each step of writeAtomic knows what the steps before it did. *)
Ordered ==
  /\ \A i \in 1 .. Len(files) : files[i].of <= i /\ files[i].mtime <= now
  /\ \A i, j \in 1 .. Len(files) : i <= j => files[i].mtime <= files[j].mtime
  /\ \A n \in Names : safe[n] <= dir[n]

Writing == step \in {"copy", "sync", "rename", "syncdir"}

InWrite ==
  /\ call = "down" => step = "none"
  /\ Writing => /\ Len(files) > 0 /\ files[Temp].of = mem
                /\ step # "copy" => files[Temp].whole
                /\ step \in {"rename", "syncdir"} => files[Temp].synced
                /\ step = "syncdir" => dir[name] = Temp
                /\ name = "state" => mem = Temp
  /\ step = "publish" \/ (Writing /\ name = "txt") =>
       dir["state"] # 0 /\ files[dir["state"]].of = mem

FilesInv == TypeOK /\ NeverTorn /\ ListNotAhead /\ ReportedSurvives /\ Ordered /\ InWrite
=============================================================================

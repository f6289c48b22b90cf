-------------------------------- MODULE StateFile --------------------------------
(***************************************************************************)
(* The state file (state.go: LoadState, Save) under processes that share   *)
(* one path, and under kills, failing writes and power losses.             *)
(*                                                                         *)
(* A pass loads the file, verifies a checkpoint that extends the loaded    *)
(* one (Session), and saves: it compares the file with the bytes it        *)
(* loaded, writes a temporary file, syncs it, and renames it over the      *)
(* path.  Each of those is a system call, so other processes run between   *)
(* them.  A state is abstracted to the log it is for and the size of its   *)
(* checkpoint; states with equal bytes are equal.                          *)
(***************************************************************************)
EXTENDS Naturals

CONSTANTS
  Proc,      \* the processes that share the path
  Origin,    \* log origins
  OriginOf,  \* the log each process is configured for
  MaxSize,   \* the largest tree; bounds the runs only
  Missing,   \* no file at the path
  Torn       \* a file whose bytes are not all there

State == [origin : Origin, size : 1..MaxSize]

ASSUME StateFileAssumption ==
  /\ OriginOf \in [Proc -> Origin]
  /\ MaxSize \in Nat \ {0}
  /\ {Missing, Torn} \cap State = {} /\ Missing # Torn

VARIABLES
  pc,      \* where each process is
  loaded,  \* what each process read at LoadState
  mem,     \* the state each process holds once it verified a checkpoint
  temp,    \* each process's temporary file
  file,    \* what a read of the path returns
  disk,    \* what the directory on disk names, which a power loss brings back
  raced    \* history: processes whose comparison another rename has outdated

vars == <<pc, loaded, mem, temp, file, disk, raced>>

\* A file's bytes, and whether they are on disk.
Synced(content) == [content |-> content, synced |-> TRUE]
NoFile == Synced(Missing)

SizeOf(content) == IF content = Missing THEN 0 ELSE content.size

Init ==
  /\ pc = [p \in Proc |-> "idle"]
  /\ loaded = [p \in Proc |-> Missing] /\ mem = loaded
  /\ temp = [p \in Proc |-> NoFile]
  /\ file = NoFile /\ disk = NoFile
  /\ raced = {}

Goto(p, there) == pc' = [pc EXCEPT ![p] = there]

\* A file that does not parse, or that is for another log, ends the process.
LoadState(p) ==
  /\ pc[p] = "idle"
  /\ file.content # Torn
  /\ file.content # Missing => file.content.origin = OriginOf[p]
  /\ Goto(p, "pass")
  /\ loaded' = [loaded EXCEPT ![p] = file.content]
  /\ UNCHANGED <<mem, temp, file, disk, raced>>

\* The pass verifies a checkpoint no smaller than the one it loaded.
Verify(p, size) ==
  /\ pc[p] = "pass"
  /\ size \in SizeOf(loaded[p])..MaxSize /\ size > 0
  /\ Goto(p, "save")
  /\ mem' = [mem EXCEPT ![p] = [origin |-> OriginOf[p], size |-> size]]
  /\ UNCHANGED <<loaded, temp, file, disk, raced>>

\* Slip: only a file that disappeared is noticed.
MatchesInPresence(p) == loaded[p] # Missing => file.content # Missing

\* Save refuses a file that appeared, disappeared or changed since it was loaded.
Matches(p) == file.content = loaded[p]

Compare(p) ==
  /\ pc[p] = "save"
  /\ Matches(p)
  /\ Goto(p, "compared")
  /\ raced' = raced \ {p}
  /\ UNCHANGED <<loaded, mem, temp, file, disk>>

Write(p) ==
  /\ pc[p] = "compared"
  /\ Goto(p, "written")
  /\ temp' = [temp EXCEPT ![p] = [content |-> mem[p], synced |-> FALSE]]
  /\ UNCHANGED <<loaded, mem, file, disk, raced>>

\* Slip: the bytes are left to the operating system.
SyncLater(p) ==
  /\ pc[p] = "written"
  /\ Goto(p, "synced")
  /\ UNCHANGED <<loaded, mem, temp, file, disk, raced>>

Sync(p) ==
  /\ pc[p] = "written"
  /\ Goto(p, "synced")
  /\ temp' = [temp EXCEPT ![p].synced = TRUE]
  /\ UNCHANGED <<loaded, mem, file, disk, raced>>

Rename(p) ==
  /\ pc[p] = "synced"
  /\ Goto(p, "idle")
  /\ file' = temp[p]
  /\ temp' = [temp EXCEPT ![p] = NoFile]
  /\ raced' = raced \cup (Proc \ {p})
  /\ UNCHANGED <<loaded, mem, disk>>

\* Save returns an error (the comparison's, or any call's), or the process is killed.
Quit(p) ==
  /\ pc[p] # "idle"
  /\ Goto(p, "idle")
  /\ temp' = [temp EXCEPT ![p] = NoFile]
  /\ UNCHANGED <<loaded, mem, file, disk, raced>>

\* The operator moves the file away.
Remove ==
  /\ file.content # Missing
  /\ file' = NoFile
  /\ raced' = Proc
  /\ UNCHANGED <<pc, loaded, mem, temp, disk>>

\* The directory reaches the disk; Save does not wait for it.
Flush ==
  /\ disk # file
  /\ disk' = file
  /\ UNCHANGED <<pc, loaded, mem, temp, file, raced>>

\* What a power loss leaves of a file: bytes that were not synced may be gone.
LeftOf(f) == {Synced(f.content)} \cup (IF f.synced THEN {} ELSE {Synced(Torn)})

PowerLoss ==
  /\ \E left \in LeftOf(file) \cup LeftOf(disk) : file' = left /\ disk' = left
  /\ pc' = [p \in Proc |-> "idle"]
  /\ temp' = [p \in Proc |-> NoFile]
  /\ UNCHANGED <<loaded, mem, raced>>

Next ==
  \/ \E p \in Proc :
       \/ LoadState(p)
       \/ \E size \in 1..MaxSize : Verify(p, size)
       \/ Compare(p) \/ Write(p) \/ Sync(p) \/ Rename(p) \/ Quit(p)
  \/ Remove \/ Flush \/ PowerLoss

Spec == Init /\ [][Next]_vars
----------------------------------------------------------------------------------
Contents == State \cup {Missing, Torn}
File == [content : Contents, synced : BOOLEAN]

\* The type of every variable.
TypeOK ==
  /\ pc \in [Proc -> {"idle", "pass", "save", "compared", "written", "synced"}]
  /\ loaded \in [Proc -> State \cup {Missing}]
  /\ mem \in [Proc -> State \cup {Missing}]
  /\ temp \in [Proc -> File]
  /\ file \in File /\ disk \in File
  /\ raced \in SUBSET Proc

\* Save's "atomically": no kill, failed call or power loss at any point, in any number
\* of processes, leaves a file a later pass cannot load.
NeverTorn == file.content # Torn /\ disk.content # Torn

\* Save "refuses to overwrite a file that changed since LoadState read it": unless
\* another process got between a save's comparison and its rename, the rename
\* replaces exactly what the pass had loaded, so the file stays with its log and its
\* checkpoint never goes back, whichever passes overlapped.
UnracedSaveKeeps ==
  [][\A p \in Proc :
       Rename(p) /\ p \notin raced =>
         /\ file.content = loaded[p]
         /\ file.content # Missing =>
              /\ file'.content.origin = file.content.origin
              /\ file'.content.size >= file.content.size]_vars

\* The strengthening of NeverTorn that every step preserves: only synced bytes are
\* ever under the path, and a temporary file is whole.
Inv ==
  /\ TypeOK
  /\ NeverTorn
  /\ file.synced /\ disk.synced
  /\ \A p \in Proc :
       /\ temp[p].content # Torn
       /\ pc[p] \in {"save", "compared", "written", "synced"} => mem[p] \in State
       /\ pc[p] \in {"written", "synced"} => temp[p].content = mem[p]
       /\ pc[p] = "synced" => temp[p].synced
       /\ pc[p] \in {"compared", "written", "synced"} /\ p \notin raced =>
            file.content = loaded[p]
       /\ pc[p] # "idle" /\ loaded[p] # Missing =>
            /\ loaded[p].origin = OriginOf[p]
            /\ pc[p] # "pass" => mem[p].origin = OriginOf[p] /\ mem[p].size >= loaded[p].size
==================================================================================

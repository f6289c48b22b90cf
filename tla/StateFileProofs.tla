----------------------------- MODULE StateFileProofs -----------------------------
(***************************************************************************)
(* For any number of processes, logs and tree sizes: no kill, failed call  *)
(* or power loss leaves a torn state file, and a save that no other rename *)
(* overtook replaces what its pass had loaded.                             *)
(***************************************************************************)
EXTENDS StateFile, TLAPS

\* Init establishes the invariant of the state file.
LEMMA InitInv == Init => Inv
  BY StateFileAssumption DEF Init, Inv, TypeOK, NeverTorn, NoFile, Synced, File, Contents

\* A state a process verifies is a state of the log it is configured for.
LEMMA VerifiedIsState ==
  ASSUME NEW p \in Proc, NEW size \in 1..MaxSize
  PROVE  [origin |-> OriginOf[p], size |-> size] \in State
  BY StateFileAssumption DEF State

\* No state is a torn or a missing file.
LEMMA Distinct == Missing \notin State /\ Torn \notin State /\ Missing # Torn
  BY StateFileAssumption

\* A load takes a whole file of the process's log.
LEMMA LoadStateInv ==
  ASSUME Inv, NEW p \in Proc, LoadState(p)
  PROVE  Inv'
  BY Distinct DEF Inv, TypeOK, NeverTorn, LoadState, Goto, File, Contents

\* A pass that verifies extends what it loaded.
LEMMA VerifyInv ==
  ASSUME Inv, NEW p \in Proc, NEW size \in 1..MaxSize, Verify(p, size)
  PROVE  Inv'
<1>1. mem' = [mem EXCEPT ![p] = [origin |-> OriginOf[p], size |-> size]]
  BY DEF Verify
<1>2. mem' \in [Proc -> State \cup {Missing}]
  BY VerifiedIsState, <1>1 DEF Inv, TypeOK
<1>3. TypeOK'
  BY <1>2 DEF Inv, TypeOK, Verify, Goto
<1>4. mem'[p].origin = OriginOf[p] /\ mem'[p].size = size /\ mem'[p] \in State
  BY VerifiedIsState, <1>1 DEF Inv, TypeOK
<1>5. loaded[p] # Missing => size >= loaded[p].size
  BY StateFileAssumption DEF Verify, SizeOf, Inv, TypeOK, State
<1>6. QED
  BY <1>1, <1>3, <1>4, <1>5 DEF Inv, TypeOK, NeverTorn, Verify, Goto

\* A comparison that holds makes the process current.
LEMMA CompareInv ==
  ASSUME Inv, NEW p \in Proc, Compare(p)
  PROVE  Inv'
  BY DEF Inv, TypeOK, NeverTorn, Compare, Matches, Goto

\* The temporary file is whole from its first write on.
LEMMA WriteInv ==
  ASSUME Inv, NEW p \in Proc, Write(p)
  PROVE  Inv'
<1>1. mem[p] \in State
  BY DEF Inv, Write
<1>2. temp' \in [Proc -> File]
  BY <1>1 DEF Inv, TypeOK, Write, File, Contents
<1>3. \A q \in Proc : temp'[q].content # Torn
  BY <1>1, Distinct DEF Inv, TypeOK, Write, File
<1>4. QED
  BY <1>2, <1>3 DEF Inv, TypeOK, NeverTorn, Write, Goto

\* After the sync the temporary file holds the state to save, on disk.
LEMMA SyncInv ==
  ASSUME Inv, NEW p \in Proc, Sync(p)
  PROVE  Inv'
<1>1. TypeOK' /\ temp'[p].content = temp[p].content /\ temp'[p].synced
  BY DEF Inv, TypeOK, Sync, Goto, File
<1>2. \A q \in Proc \ {p} : temp'[q] = temp[q] /\ pc'[q] = pc[q]
  BY DEF Inv, TypeOK, Sync, Goto
<1>3. pc[p] = "written" /\ UNCHANGED <<loaded, mem, file, disk, raced>>
  BY DEF Sync
<1> QED
  BY <1>1, <1>2, <1>3 DEF Inv, NeverTorn

\* A rename outdates every other process's comparison and exposes synced bytes only.
LEMMA RenameInv ==
  ASSUME Inv, NEW p \in Proc, Rename(p)
  PROVE  Inv'
  BY Distinct DEF Inv, TypeOK, NeverTorn, Rename, Goto, NoFile, Synced, File, Contents

\* A process that ends leaves no temporary file.
LEMMA QuitInv ==
  ASSUME Inv, NEW p \in Proc, Quit(p)
  PROVE  Inv'
  BY Distinct DEF Inv, TypeOK, NeverTorn, Quit, Goto, NoFile, Synced, File, Contents

\* A file moved away outdates every comparison.
LEMMA RemoveInv == ASSUME Inv, Remove PROVE Inv'
  BY Distinct DEF Inv, TypeOK, NeverTorn, Remove, NoFile, Synced, File, Contents

\* The disk takes what was under the path.
LEMMA FlushInv == ASSUME Inv, Flush PROVE Inv'
  BY DEF Inv, TypeOK, NeverTorn, Flush

\* What a power loss leaves of synced bytes is those bytes.
LEMMA PowerLossInv == ASSUME Inv, PowerLoss PROVE Inv'
<1>1. PICK left \in LeftOf(file) \cup LeftOf(disk) : file' = left /\ disk' = left
  BY DEF PowerLoss
<1>2. left = Synced(file.content) \/ left = Synced(disk.content)
  BY <1>1 DEF LeftOf, Inv
<1>3. left.synced /\ left.content # Torn /\ left \in File
  BY <1>2 DEF Synced, Inv, NeverTorn, TypeOK, File
<1>4. QED
  BY <1>1, <1>3, Distinct
  DEF Inv, TypeOK, NeverTorn, PowerLoss, NoFile, Synced, File, Contents

\* Every step preserves the invariant.
LEMMA NextInv == Inv /\ [Next]_vars => Inv'
<1> SUFFICES ASSUME Inv, [Next]_vars PROVE Inv'
  OBVIOUS
<1>1. ASSUME NEW p \in Proc, LoadState(p) PROVE Inv'
  BY <1>1, LoadStateInv
<1>2. ASSUME NEW p \in Proc, NEW size \in 1..MaxSize, Verify(p, size) PROVE Inv'
  BY <1>2, VerifyInv
<1>3. ASSUME NEW p \in Proc, Compare(p) PROVE Inv'
  BY <1>3, CompareInv
<1>4. ASSUME NEW p \in Proc, Write(p) PROVE Inv'
  BY <1>4, WriteInv
<1>5. ASSUME NEW p \in Proc, Sync(p) PROVE Inv'
  BY <1>5, SyncInv
<1>6. ASSUME NEW p \in Proc, Rename(p) PROVE Inv'
  BY <1>6, RenameInv
<1>7. ASSUME NEW p \in Proc, Quit(p) PROVE Inv'
  BY <1>7, QuitInv
<1>8. CASE Remove
  BY <1>8, RemoveInv
<1>9. CASE Flush
  BY <1>9, FlushInv
<1>10. CASE PowerLoss
  BY <1>10, PowerLossInv
<1>11. CASE UNCHANGED vars
  BY <1>11 DEF vars, Inv, TypeOK, NeverTorn
<1>12. QED
  BY <1>1, <1>2, <1>3, <1>4, <1>5, <1>6, <1>7, <1>8, <1>9, <1>10, <1>11 DEF Next

\* The state file's invariant holds in every reachable state.
THEOREM StateFileInvariance == Spec => []Inv
<1>1. Init => Inv
  BY InitInv
<1>2. Inv /\ [Next]_vars => Inv'
  BY NextInv
<1>3. QED
  BY <1>1, <1>2, PTL DEF Spec

\* A later pass can always load what saves, kills and power losses leave.
THEOREM NeverTornHolds == Spec => []NeverTorn
<1>1. Inv => NeverTorn
  BY DEF Inv
<1>2. QED
  BY <1>1, StateFileInvariance, PTL

\* A save that no other rename overtook replaces what its pass had loaded, by a
\* checkpoint of the same log and at least the same size.
THEOREM UnracedSaveKeepsHolds == Spec => UnracedSaveKeeps
<1> DEFINE Keeps(p) ==
             Rename(p) /\ p \notin raced =>
               /\ file.content = loaded[p]
               /\ file.content # Missing =>
                    /\ file'.content.origin = file.content.origin
                    /\ file'.content.size >= file.content.size
<1>1. Inv => [\A p \in Proc : Keeps(p)]_vars
  <2> SUFFICES ASSUME Inv, NEW p \in Proc, Rename(p), p \notin raced
               PROVE  /\ file.content = loaded[p]
                      /\ file.content # Missing =>
                           /\ file'.content.origin = file.content.origin
                           /\ file'.content.size >= file.content.size
    OBVIOUS
  <2>1. pc[p] = "synced" /\ file' = temp[p]
    BY DEF Rename
  <2>2. file.content = loaded[p] /\ temp[p].content = mem[p]
    BY <2>1 DEF Inv
  <2>3. loaded[p] # Missing =>
          loaded[p].origin = OriginOf[p] /\ mem[p].origin = OriginOf[p] /\ mem[p].size >= loaded[p].size
    BY <2>1 DEF Inv
  <2>4. QED
    BY <2>1, <2>2, <2>3
<1>2. QED
  BY <1>1, StateFileInvariance, PTL DEF UnracedSaveKeeps
==================================================================================

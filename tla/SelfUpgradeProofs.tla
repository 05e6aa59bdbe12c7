-------------------------- MODULE SelfUpgradeProofs --------------------------
(***************************************************************************)
(* What a crash leaves on disk, for any number of requests, crashes and    *)
(* failures: the executable is always whole, and a backup that was asked   *)
(* for is complete before the executable is overwritten; and that all the  *)
(* steps of an upgrade come down to those of AtomicUpgrade.                *)
(***************************************************************************)
EXTENDS SelfUpgrade, TLAPS

(* A request under way has a number.  Once the archive is extracted the    *)
(* temporary file is whole, and a request with backup comes to the rename  *)
(* only when the backup is the executable.                                 *)
Numbered == op.pc # "idle" => op.n \in Requests

Prepared == op.pc \in {"backup", "create", "copy", "rename"} => temp.whole

BackedUp == op.pc = "rename" /\ op.backup => bak = target

IInv == TypeOK /\ Numbered /\ TargetIsWhole /\ Prepared /\ BackedUp

\* No request under way is one of the values of op.
LEMMA IdleType ==
  Idle \in [pc : Pcs, n : Releases, type : Types \cup {"only"}, backup : BOOLEAN]
  BY BoundAssumption DEF Idle, Pcs, Releases

\* A missing file is one of the values of a file.
LEMMA NoFileType == NoFile \in File
  BY BoundAssumption DEF NoFile, File, Releases

\* A reply keeps the types and leaves no request under way.
LEMMA ReplyStep ==
  ASSUME TypeOK, Numbered, op.pc # "idle",
         NEW r \in {"ok", "error"}, Reply(r)
  PROVE  /\ op' \in [pc : Pcs, n : Releases, type : Types \cup {"only"}, backup : BOOLEAN]
         /\ op'.pc = "idle"
         /\ replies' \in [Requests -> {"none", "ok", "error"}]
<1>1. op' = Idle /\ op'.pc = "idle"
  BY DEF Reply, Idle
<1>2. replies' \in [Requests -> {"none", "ok", "error"}]
  BY DEF Reply, TypeOK, Numbered
<1> QED
  BY <1>1, <1>2, IdleType

\* Going on to another place keeps the request.
LEMMA GotoStep ==
  ASSUME TypeOK, NEW pc \in Pcs, Goto(pc)
  PROVE  /\ op' \in [pc : Pcs, n : Releases, type : Types \cup {"only"}, backup : BOOLEAN]
         /\ op'.pc = pc /\ op'.n = op.n /\ op'.type = op.type /\ op'.backup = op.backup
  BY DEF Goto, TypeOK

\* The agent starts from a complete executable with nothing prepared.
THEOREM InductiveInit == Init => IInv
<1> SUFFICES ASSUME Init PROVE IInv
  OBVIOUS
<1>1. op = Idle /\ op.pc = "idle"
  BY DEF Init, Idle
<1>2. target \in File /\ target.whole
  BY BoundAssumption DEF Init, File, Releases
<1>3. leaving \in BOOLEAN /\ alive \in BOOLEAN /\ spawned \in BOOLEAN
  BY DEF Init
<1>4. TypeOK
  <2>1. running \in Releases /\ n \in 0..MaxRequests
        /\ crashes \in 0..MaxCrashes /\ failures \in 0..MaxFailures
    BY BoundAssumption DEF Init, Releases
  <2>2. bak \in File /\ temp \in File /\ scheduled = {}
    BY NoFileType DEF Init
  <2>3. replies \in [Requests -> {"none", "ok", "error"}]
    BY DEF Init
  <2> QED
    BY <1>1, <1>2, <1>3, <2>1, <2>2, <2>3, IdleType DEF TypeOK
<1> QED
  BY <1>1, <1>2, <1>4 DEF IInv, Numbered, TargetIsWhole, Prepared, BackedUp

\* Every step of a request, of a restart or an exit, of a crash and of the supervisor
\* keeps the inductive invariant.
THEOREM InductiveStep == IInv /\ [Next]_vars => IInv'
<1> SUFFICES ASSUME IInv, [Next]_vars PROVE IInv'
  OBVIOUS
<1> USE DEF IInv
<1>1. ASSUME NEW type \in Types, NEW backup \in BOOLEAN, Request(type, backup)
      PROVE  IInv'
  <2>1. n + 1 \in Requests /\ n + 1 \in Releases /\ n' = n + 1
    BY <1>1, BoundAssumption DEF Request, TypeOK, Requests, Releases
  <2>2. op' \in [pc : Pcs, n : Releases, type : Types \cup {"only"}, backup : BOOLEAN]
    BY <1>1, <2>1 DEF Request, Pcs
  <2>3. op'.pc = "download" /\ op'.n = n + 1
    BY <1>1 DEF Request
  <2>4. TypeOK'
    BY <1>1, <2>1, <2>2, BoundAssumption DEF Request, TypeOK, disk, process, Requests
  <2> QED
    BY <1>1, <2>1, <2>3, <2>4
    DEF Request, disk, Numbered, TargetIsWhole, Prepared, BackedUp
<1>2. CASE Download
  <2>1. op.n \in Releases /\ op.pc = "download" /\ "extract" \in Pcs
    BY <1>2 DEF Download, At, TypeOK, Pcs
  <2>2. temp' \in File
    BY <1>2, <2>1 DEF Download, File
  <2>3. op' \in [pc : Pcs, n : Releases, type : Types \cup {"only"}, backup : BOOLEAN]
        /\ op'.pc = "extract" /\ op'.n = op.n
    BY <1>2, <2>1, GotoStep DEF Download
  <2>4. TypeOK'
    BY <1>2, <2>2, <2>3 DEF Download, TypeOK, process, counts
  <2> QED
    BY <1>2, <2>1, <2>3, <2>4 DEF Download, Numbered, TargetIsWhole, Prepared, BackedUp
<1>0. CASE Refused
  <2>1. op.pc # "idle" /\ Reply("error")
    BY <1>0 DEF Refused, At
  <2>2. TypeOK'
    BY <1>0, <2>1, ReplyStep DEF Refused, TypeOK, disk, process, counts
  <2> QED
    BY <1>0, <2>1, <2>2, ReplyStep
    DEF Refused, disk, Numbered, TargetIsWhole, Prepared, BackedUp
<1>3. CASE DownloadFailed
  <2>1. op.pc # "idle" /\ Reply("error")
    BY <1>3 DEF DownloadFailed, At
  <2>2. TypeOK'
    BY <1>3, <2>1, ReplyStep, NoFileType DEF DownloadFailed, TypeOK, process, counts
  <2> QED
    BY <1>3, <2>1, <2>2, ReplyStep
    DEF DownloadFailed, Numbered, TargetIsWhole, Prepared, BackedUp
<1>4. CASE Extract
  <2>1. op.n \in Releases /\ op.pc = "extract" /\ {"backup", "rename"} \subseteq Pcs
    BY <1>4 DEF Extract, At, TypeOK, Pcs
  <2>a. temp' = [v |-> op.n, whole |-> TRUE]
    BY <1>4 DEF Extract, Extracted
  <2>2. temp' \in File /\ temp'.whole
    BY <2>a, <2>1 DEF File
  <2>3. op' \in [pc : Pcs, n : Releases, type : Types \cup {"only"}, backup : BOOLEAN]
        /\ op'.pc = (IF op.backup THEN "backup" ELSE "rename")
        /\ op'.n = op.n /\ op'.backup = op.backup
    BY <1>4, <2>1, GotoStep DEF Extract
  <2>4. TypeOK'
    BY <1>4, <2>2, <2>3 DEF Extract, TypeOK, process, counts
  <2> QED
    BY <1>4, <2>1, <2>2, <2>3, <2>4
    DEF Extract, Numbered, TargetIsWhole, Prepared, BackedUp
<1>5. CASE RemoveBackup
  <2>1. op.pc = "backup" /\ "create" \in Pcs
    BY <1>5 DEF RemoveBackup, At, Pcs
  <2>2. op' \in [pc : Pcs, n : Releases, type : Types \cup {"only"}, backup : BOOLEAN]
        /\ op'.pc = "create" /\ op'.n = op.n
    BY <1>5, <2>1, GotoStep DEF RemoveBackup
  <2>3. TypeOK'
    BY <1>5, <2>2, NoFileType DEF RemoveBackup, TypeOK, process, counts
  <2> QED
    BY <1>5, <2>1, <2>2, <2>3 DEF RemoveBackup, Numbered, TargetIsWhole, Prepared, BackedUp
<1>6. CASE CreateBackup
  <2>1. op.pc = "create" /\ "copy" \in Pcs
    BY <1>6 DEF CreateBackup, At, Pcs
  <2>2. op' \in [pc : Pcs, n : Releases, type : Types \cup {"only"}, backup : BOOLEAN]
        /\ op'.pc = "copy" /\ op'.n = op.n
    BY <1>6, <2>1, GotoStep DEF CreateBackup
  <2>3. bak' \in File
    BY <1>6 DEF CreateBackup, TypeOK, File
  <2>4. TypeOK'
    BY <1>6, <2>2, <2>3 DEF CreateBackup, TypeOK, process, counts
  <2> QED
    BY <1>6, <2>1, <2>2, <2>4 DEF CreateBackup, Numbered, TargetIsWhole, Prepared, BackedUp
<1>7. CASE CopyBackup
  <2>1. op.pc = "copy" /\ "rename" \in Pcs
    BY <1>7 DEF CopyBackup, At, Pcs
  <2>2. op' \in [pc : Pcs, n : Releases, type : Types \cup {"only"}, backup : BOOLEAN]
        /\ op'.pc = "rename" /\ op'.n = op.n
    BY <1>7, <2>1, GotoStep DEF CopyBackup
  <2>3. TypeOK'
    BY <1>7, <2>2 DEF CopyBackup, TypeOK, process, counts
  <2> QED
    BY <1>7, <2>1, <2>2, <2>3 DEF CopyBackup, Numbered, TargetIsWhole, Prepared, BackedUp
<1>8. CASE BackupFailed
  <2>1. op.pc # "idle" /\ Reply("error") /\ temp' = NoFile
    BY <1>8 DEF BackupFailed, GivesUp
  <2>2. TypeOK'
    BY <1>8, <2>1, ReplyStep, NoFileType DEF BackupFailed, TypeOK, process, counts
  <2> QED
    BY <1>8, <2>1, <2>2, ReplyStep
    DEF BackupFailed, Numbered, TargetIsWhole, Prepared, BackedUp
<1>9. CASE Rename
  <2>1. op.pc = "rename" /\ op.n \in Requests /\ temp.whole /\ "switch" \in Pcs
    BY <1>9 DEF Rename, At, Pcs, Numbered, Prepared
  <2>2. op' \in [pc : Pcs, n : Releases, type : Types \cup {"only"}, backup : BOOLEAN]
        /\ op'.pc = "switch" /\ op'.n = op.n
    BY <1>9, <2>1, GotoStep DEF Rename
  <2>3. TypeOK'
    BY <1>9, <2>1, <2>2, NoFileType DEF Rename, TypeOK, process, counts
  <2> QED
    BY <1>9, <2>1, <2>2, <2>3 DEF Rename, Numbered, TargetIsWhole, Prepared, BackedUp
<1>10. CASE RenameFailed
  <2>1. op.pc # "idle" /\ Reply("error")
    BY <1>10 DEF RenameFailed, At, RenameReply
  <2>2. TypeOK'
    BY <1>10, <2>1, ReplyStep, NoFileType DEF RenameFailed, TypeOK, process, counts
  <2> QED
    BY <1>10, <2>1, <2>2, ReplyStep
    DEF RenameFailed, Numbered, TargetIsWhole, Prepared, BackedUp
<1>11. CASE Switch
  <2>1. op.pc # "idle" /\ op.n \in Requests
    BY <1>11 DEF Switch, At, Numbered
  <2>2. PICK r \in {"ok", "error"} : Reply(r)
    BY <1>11 DEF Switch
  <2>3. scheduled' \subseteq Requests \X {"exec", "respawn"}
    BY <1>11, <2>1 DEF Switch, Restarts, TypeOK
  <2>4. TypeOK'
    BY <1>11, <2>1, <2>2, <2>3, ReplyStep DEF Switch, TypeOK, disk, counts
  <2> QED
    BY <1>11, <2>1, <2>2, <2>4, ReplyStep
    DEF Switch, disk, Numbered, TargetIsWhole, Prepared, BackedUp
<1>12. ASSUME Gone, alive' \in BOOLEAN, running' \in Releases,
              crashes' \in 0..MaxCrashes, failures' \in 0..MaxFailures
       PROVE  IInv'
  <2>1. op' = Idle /\ op'.pc = "idle"
    BY <1>12 DEF Gone, Idle
  <2>2. TypeOK'
    BY <1>12, <2>1, IdleType DEF Gone, TypeOK
  <2> QED
    BY <1>12, <2>1, <2>2 DEF Gone, Numbered, TargetIsWhole, Prepared, BackedUp
<1>13. ASSUME NEW r \in scheduled, Exec(r) PROVE IInv'
  BY <1>12, <1>13 DEF Exec, TypeOK, File
<1>21. ASSUME NEW r \in scheduled, Spawn(r) PROVE IInv'
  <2>1. TypeOK'
    BY <1>21 DEF Spawn, TypeOK, disk, counts, File
  <2> QED
    BY <1>21, <2>1 DEF Spawn, disk, Numbered, TargetIsWhole, Prepared, BackedUp
<1>22. CASE Exit
  BY <1>12, <1>22 DEF Exit, TypeOK
<1>14. ASSUME NEW r \in scheduled, ExecFailed(r) PROVE IInv'
  <2>1. failures' \in 0..MaxFailures
    BY <1>14, BoundAssumption DEF ExecFailed, TypeOK
  <2>2. TypeOK'
    BY <1>14, <2>1 DEF ExecFailed, TypeOK, disk
  <2> QED
    BY <1>14, <2>2 DEF ExecFailed, disk, Numbered, TargetIsWhole, Prepared, BackedUp
<1>15. ASSUME NEW r \in scheduled, RespawnFailed(r) PROVE IInv'
  <2>1. failures' \in 0..MaxFailures
    BY <1>15, BoundAssumption DEF RespawnFailed, TypeOK
  <2> QED
    BY <1>12, <1>15, <2>1 DEF RespawnFailed, TypeOK
<1>16. CASE Crash
  <2>1. crashes' \in 0..MaxCrashes
    BY <1>16, BoundAssumption DEF Crash, TypeOK
  <2> QED
    BY <1>12, <1>16, <2>1 DEF Crash, TypeOK
<1>17. CASE Supervise
  <2>1. TypeOK'
    BY <1>17 DEF Supervise, TypeOK, disk, counts, File
  <2> QED
    BY <1>17, <2>1 DEF Supervise, disk, Numbered, TargetIsWhole, Prepared, BackedUp
<1>18. CASE Remove
  <2>1. TypeOK'
    BY <1>18 DEF Remove, TypeOK, disk, counts
  <2> QED
    BY <1>18, <2>1 DEF Remove, disk, Numbered, TargetIsWhole, Prepared, BackedUp
<1>19. CASE Leave
  BY <1>12, <1>19 DEF Leave, TypeOK
<1>20. CASE UNCHANGED vars
  BY <1>20 DEF vars, TypeOK, Numbered, TargetIsWhole, Prepared, BackedUp
<1> QED
  BY <1>0, <1>1, <1>2, <1>3, <1>4, <1>5, <1>6, <1>7, <1>8, <1>9, <1>10, <1>11, <1>13, <1>14,
     <1>15, <1>16, <1>17, <1>18, <1>19, <1>20, <1>21, <1>22 DEF Next

\* The inductive invariant holds in every reachable state.
THEOREM Invariance == Spec => []IInv
  BY InductiveInit, InductiveStep, PTL DEF Spec

\* Every reachable state is well typed.
THEOREM TypeCorrect == Spec => []TypeOK
<1>1. IInv => TypeOK
  BY DEF IInv
<1> QED
  BY <1>1, Invariance, PTL

\* Wherever the process ends - in the midst of replaceBinary, at a restart that
\* an earlier upgrade has scheduled - the executable it leaves is complete.
THEOREM TargetIsAlwaysWhole == Spec => []TargetIsWhole
<1>1. IInv => TargetIsWhole
  BY DEF IInv
<1> QED
  BY <1>1, Invariance, PTL

\* The executable stays complete, and replaceBinary with a backup never
\* overwrites one of which copyFile has not made a complete copy: for every
\* sequence of upgrades, failures, restarts, exits and crashes.
THEOREM DiskIsAlwaysSafe == Spec => DiskIsSafe
<1>1. IInv /\ [Next]_vars => [target' # target /\ op.backup => bak' = target]_vars
  <2> SUFFICES ASSUME IInv, Next, target' # target, op.backup
               PROVE  bak' = target
    OBVIOUS
  <2>1. CASE Rename
    BY <2>1 DEF Rename, At, IInv, BackedUp
  <2>2. CASE ~Rename
    BY <2>2 DEF Next, Request, Refused, Download, DownloadFailed, Extract, RemoveBackup,
       CreateBackup, CopyBackup, BackupFailed, RenameFailed, Switch, Exec, ExecFailed,
       Spawn, Exit, RespawnFailed, Remove, Leave, Crash, Supervise, Gone, disk
  <2> QED
    BY <2>1, <2>2
<1>2. IInv' => TargetIsWhole'
  BY DEF IInv
<1>3. IInv /\ [Next]_vars =>
        [TargetIsWhole' /\ (target' # target /\ op.backup => bak' = target)]_vars
  BY <1>1, <1>2, InductiveStep
<1> QED
  BY <1>3, Invariance, PTL DEF Spec, DiskIsSafe

(* Until its rename a request is later than what is installed, and brings  *)
(* no release but its own; and it is not answered before it ends.          *)
Ahead ==
  /\ target.v <= n
  /\ op.pc \in {"download", "extract", "backup", "create", "copy", "rename"}
       => target.v < op.n
  /\ op.pc \in {"backup", "create", "copy", "rename"} => temp.v = op.n
  /\ op.pc = "switch" => target.v = op.n
  /\ op.pc # "idle" => op.n <= n /\ replies[op.n] = "none"
  /\ \A i \in Requests : i > n => replies[i] = "none"

\* Only Request, Extract and Rename change what Ahead compares; every other step goes
\* on with the request before its rename, or ends it.
LEMMA AheadStep == IInv /\ Ahead /\ [Next]_vars => Ahead'
<1> SUFFICES ASSUME IInv, Ahead, [Next]_vars PROVE Ahead'
  OBVIOUS
<1>t. /\ n \in Nat /\ target.v \in Nat /\ op.n \in Nat /\ Requests \subseteq Nat
      /\ op \in [pc : Pcs, n : Releases, type : Types \cup {"only"}, backup : BOOLEAN]
      /\ replies \in [Requests -> {"none", "ok", "error"}]
      /\ op.pc # "idle" => op.n \in Requests
  BY BoundAssumption DEF IInv, Numbered, TypeOK, File, Requests, Releases
<1>i. ASSUME op' = Idle, UNCHANGED <<target, n, replies>> PROVE Ahead'
  BY <1>i DEF Ahead, Idle
<1>r. ASSUME NEW r \in {"ok", "error"}, op.pc # "idle", Reply(r), UNCHANGED <<target, n>>
      PROVE  Ahead'
  <2>1. op'.pc = "idle"
    BY <1>r DEF Reply, Idle
  <2>2. ASSUME NEW i \in Requests, i > n PROVE replies'[i] = "none"
    BY <1>t, <1>r, <2>2 DEF Reply, Ahead
  <2> QED
    BY <1>r, <2>1, <2>2 DEF Ahead
<1>g. ASSUME NEW pc \in Pcs, Goto(pc), UNCHANGED <<target, n, replies>>,
             op.pc \notin {"idle", "switch"}, pc \notin {"idle", "switch"},
             pc \in {"backup", "create", "copy", "rename"} => temp'.v = op.n
      PROVE  Ahead'
  <2>1. op'.pc = pc /\ op'.n = op.n
    BY <1>t, <1>g DEF Goto
  <2>2. op.pc \in {"download", "extract", "backup", "create", "copy", "rename"}
    BY <1>t, <1>g DEF Pcs
  <2> QED
    BY <1>g, <2>1, <2>2 DEF Ahead
<1>1. ASSUME NEW type \in Types, NEW backup \in BOOLEAN, Request(type, backup)
      PROVE  Ahead'
  <2>1. /\ op'.pc = "download" /\ op'.n = n + 1 /\ n' = n + 1
        /\ UNCHANGED <<target, replies>> /\ n < MaxRequests
    BY <1>1 DEF Request, disk
  <2>2. n + 1 \in Requests
    BY <1>t, <2>1, BoundAssumption DEF Requests
  <2> QED
    BY <1>t, <2>1, <2>2 DEF Ahead
<1>2. CASE Download
  BY <1>2, <1>g DEF Download, At, Pcs, counts
<1>3. CASE Extract
  <2>1. temp'.v = op.n
    BY <1>3 DEF Extract, Extracted
  <2> QED
    BY <1>3, <1>g, <2>1 DEF Extract, At, Pcs, counts
<1>4. CASE RemoveBackup \/ CreateBackup \/ CopyBackup
  <2>1. temp' = temp /\ temp.v = op.n
    BY <1>4 DEF RemoveBackup, CreateBackup, CopyBackup, At, Ahead
  <2> QED
    BY <1>4, <1>g, <2>1 DEF RemoveBackup, CreateBackup, CopyBackup, At, Pcs, counts
<1>5. CASE Refused \/ DownloadFailed \/ BackupFailed \/ RenameFailed \/ Switch
  <2>1. op.pc # "idle" /\ UNCHANGED <<target, n>>
    BY <1>5 DEF Refused, DownloadFailed, BackupFailed, RenameFailed, Switch, At, disk, counts
  <2>2. PICK r \in {"ok", "error"} : Reply(r)
    BY <1>5 DEF Refused, DownloadFailed, BackupFailed, GivesUp, RenameFailed, RenameReply, Switch
  <2> QED
    BY <1>r, <2>1, <2>2
<1>6. CASE Rename
  <2>1. op'.pc = "switch" /\ op'.n = op.n /\ target' = temp /\ temp.v = op.n
        /\ op.pc = "rename" /\ UNCHANGED <<replies, n>>
    BY <1>t, <1>6 DEF Rename, Goto, At, Ahead, counts
  <2> QED
    BY <2>1 DEF Ahead
<1>7. CASE (\E r \in scheduled : Exec(r) \/ RespawnFailed(r)) \/ Exit \/ Leave \/ Crash
  BY <1>7, <1>i DEF Exec, RespawnFailed, Exit, Leave, Crash, Gone
<1>8. CASE (\E r \in scheduled : Spawn(r) \/ ExecFailed(r)) \/ Remove \/ Supervise \/ UNCHANGED vars
  <2>1. UNCHANGED <<op, target, temp, replies, n>>
    BY <1>8 DEF Spawn, ExecFailed, Remove, Supervise, disk, counts, vars
  <2> QED
    BY <2>1 DEF Ahead
<1> QED
  BY <1>1, <1>2, <1>3, <1>4, <1>5, <1>6, <1>7, <1>8 DEF Next

\* An upgrade is atomic: the download, the backup, the rename, the restarts, the exits
\* and the crashes, in any order the agent can meet them, come down to a release that
\* is installed at once by a request still to be answered, an answer that says so, and
\* a restart of what is installed.
THEOREM UpgradesAtomically == Spec => Implements
<1>1. Init => A!Init /\ Ahead
  <2> SUFFICES ASSUME Init PROVE A!Init /\ Ahead
    OBVIOUS
  <2>1. /\ target.v = 0 /\ n = 0 /\ op.pc = "idle" /\ (op.type = "unknown") = FALSE
        /\ replies = [i \in Requests |-> "none"]
    BY DEF Init, Idle
  <2>2. A!Init
    BY <2>1 DEF Init, A!Init
  <2> QED
    BY <2>1, <2>2 DEF Ahead
<1>2. IInv /\ Ahead /\ [Next]_vars => [A!Next]_(A!vars)
  <2> SUFFICES ASSUME IInv, Ahead, [Next]_vars PROVE A!Next \/ UNCHANGED A!vars
    BY DEF A!vars
  <2>t. op.pc # "idle" => op.n \in Requests /\ op.n \in Nat /\ replies[op.n] = "none"
    BY DEF IInv, Numbered, Ahead, Requests
  <2>r. ASSUME NEW r \in {"ok", "error"}, op.pc # "idle", Reply(r),
               UNCHANGED <<target, running>>,
               IF r = "ok" THEN target.v = op.n ELSE target.v < op.n \/ op.type = "unknown"
        PROVE  A!Next
    <3>1. (op'.type = "unknown") = FALSE
      BY <2>r DEF Reply, Idle
    <3>2. A!Answer(op.n, r)
      BY <2>r, <2>t, <3>1 DEF A!Answer, Reply
    <3> QED
      BY <2>r, <2>t, <3>2 DEF A!Next
  <2>1. CASE Rename
    <3>1. op.pc = "rename" /\ target.v < op.n /\ target'.v = op.n /\ target.v \in Nat
          /\ UNCHANGED <<running, replies>>
      BY <2>1 DEF Rename, At, Ahead, process, IInv, TypeOK, File, Releases
    <3>2. op'.type = op.type
      BY <2>1 DEF Rename, Goto, IInv, TypeOK
    <3>3. A!Install(op.n)
      BY <2>t, <3>1, <3>2 DEF A!Install
    <3> QED
      BY <2>t, <3>1, <3>3 DEF A!Next
  <2>2. CASE Refused \/ DownloadFailed \/ BackupFailed \/ RenameFailed
    <3>1. op.pc # "idle" /\ Reply("error") /\ UNCHANGED <<target, running>> /\ target.v < op.n
      BY <2>2 DEF Refused, DownloadFailed, BackupFailed, GivesUp, RenameFailed, RenameReply,
                  At, disk, process, Ahead
    <3> QED
      BY <2>r, <3>1
  <2>3. CASE Switch
    <3>1. op.pc = "switch" /\ target.v = op.n /\ UNCHANGED <<target, running>>
          /\ Reply(IF op.type = "unknown" THEN "error" ELSE "ok")
      BY <2>3 DEF Switch, At, Ahead, disk
    <3> QED
      BY <2>r, <3>1
  <2>4. CASE (\E r \in scheduled : Exec(r) \/ Spawn(r)) \/ Supervise
    <3>1. running' = target.v /\ UNCHANGED <<target, replies>> /\ op' \in {op, Idle}
      BY <2>4 DEF Exec, Spawn, Supervise, Gone, disk
    <3>2. (op'.type = "unknown") \in {op.type = "unknown", FALSE}
      <4>1. CASE op' = op
        BY <4>1
      <4>2. CASE op' = Idle
        <5>1. op'.type # "unknown"
          BY <4>2 DEF Idle
        <5> QED
          BY <5>1
      <4> QED
        BY <3>1, <4>1, <4>2
    <3>3. A!Restart
      BY <3>1, <3>2 DEF A!Restart
    <3> QED
      BY <3>3 DEF A!Next
  <2>5. CASE ~(\/ Rename \/ Refused \/ DownloadFailed \/ BackupFailed \/ RenameFailed
               \/ Switch \/ Supervise \/ \E r \in scheduled : Exec(r) \/ Spawn(r))
    <3>1. UNCHANGED <<target, running, replies>>
      BY <2>5 DEF Next, vars, Request, Download, Extract, RemoveBackup, CreateBackup,
         CopyBackup, ExecFailed, RespawnFailed, Exit, Remove, Leave, Crash, Supervise, Gone,
         disk, process
    <3>2. A!Turn
      BY <3>1 DEF A!Turn
    <3> QED
      BY <3>2 DEF A!Next
  <2> QED
    BY <2>1, <2>2, <2>3, <2>4, <2>5
<1>3. IInv /\ Ahead /\ [Next]_vars => Ahead'
  BY AheadStep
<1> QED
  BY <1>1, <1>2, <1>3, Invariance, PTL DEF Spec, Implements, A!Spec

=============================================================================

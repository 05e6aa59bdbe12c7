----------------------------- MODULE SelfUpgrade -----------------------------
(***************************************************************************)
(* The agent's upgrade of its own binary (selfupgrade/upgrade.go,          *)
(* restart_unix.go) as UPGRADE_AGENT asks for it (rpc_upgrade.go): download *)
(* into a temporary file, keep a backup, rename over the running           *)
(* executable, and restart a little later.                                 *)
(*                                                                         *)
(* Requests are handled one at a time.  A restart they schedule runs in a  *)
(* goroutine of its own, so it may end the process in the middle of a      *)
(* later request; so may the exit that REMOVE_FRPC schedules               *)
(* (rpc_remove_tunnel.go), and a crash, at any step.  What survives is     *)
(* what is on disk: each step that changes a file is an action.            *)
(*                                                                         *)
(* The n-th request brings release n; 0 is the binary installed at first.  *)
(* The file that is replaced is the one the agent runs from: requests that *)
(* name another one in TargetPath are left out, and so are upgrades by an  *)
(* external command, which owns everything they do.                        *)
(*                                                                         *)
(* A respawn starts the new process before the old one exits, and the old  *)
(* one goes on in between.  The new process is taken to handle its first   *)
(* request when the old one has exited; should several have been started,  *)
(* or one be there when the old one execs, the model follows the last.     *)
(***************************************************************************)
EXTENDS Naturals

CONSTANTS
  Types,          \* upgrade types: "only", "exec", "respawn", "unknown"
  MaxRequests,    \* bound: upgrade requests
  MaxCrashes,     \* bound: crashes of the process
  MaxFailures     \* bound: failures of exec or of starting a process

ASSUME TypesAssumption == Types \subseteq {"only", "exec", "respawn", "unknown"}
ASSUME BoundAssumption ==
  MaxRequests \in Nat /\ MaxCrashes \in Nat /\ MaxFailures \in Nat

Requests == 1..MaxRequests

Releases == 0..MaxRequests

\* A file: the release it holds, and whether it holds all of it.
File == [v : Releases, whole : BOOLEAN]

NoFile == [v |-> 0, whole |-> FALSE]

VARIABLES
  target,     \* the executable
  bak,        \* the backup beside it
  temp,       \* the temporary file of the last request that created one
  running,    \* the release that the process started last runs
  alive,      \* whether a process is there
  spawned,    \* a process has been started, and the one before is still there
  op,         \* the request being handled: [pc, n, type, backup]
  scheduled,  \* restarts that wait for restartDelay: <<request, type>>
  leaving,    \* REMOVE_FRPC's exit waits for its ten seconds
  replies,    \* what each request was answered: "none", "ok" or "error"
  n, crashes, failures    \* how often each has happened

vars == <<target, bak, temp, running, alive, spawned, op, scheduled, leaving, replies,
          n, crashes, failures>>

disk == <<target, bak, temp>>

process == <<running, alive, spawned, scheduled, leaving>>

counts == <<n, crashes, failures>>

Idle == [pc |-> "idle", n |-> 0, type |-> "only", backup |-> FALSE]

At(pc) == alive /\ op.pc = pc

Goto(pc) == op' = [op EXCEPT !.pc = pc]

\* The request is answered; replaceBinary's deferred Remove has run.
Reply(r) ==
  /\ op' = Idle
  /\ replies' = [replies EXCEPT ![op.n] = r]

-----------------------------------------------------------------------------
(* replaceBinary.                                                          *)

Request(type, backup) ==
  /\ At("idle") /\ n < MaxRequests
  /\ n' = n + 1
  /\ op' = [pc |-> "download", n |-> n + 1, type |-> type, backup |-> backup]
  /\ UNCHANGED <<disk, process, replies, crashes, failures>>

\* A Docker image refuses; no URL, no answer, not an archive, or no temporary file.
Refused ==
  /\ At("download")
  /\ Reply("error")
  /\ UNCHANGED <<disk, process, counts>>

\* The download starts and the temporary file is created.
Download ==
  /\ At("download")
  /\ temp' = [v |-> op.n, whole |-> FALSE]
  /\ Goto("extract")
  /\ UNCHANGED <<target, bak, process, replies, counts>>

\* A broken archive, several files in it or none.
DownloadFailed ==
  /\ At("extract")
  /\ temp' = NoFile
  /\ Reply("error")
  /\ UNCHANGED <<target, bak, process, counts>>

\* Seeded fault: the error of extracting the file is ignored.
ExtractedUnchecked(i) == {[v |-> i, whole |-> b] : b \in BOOLEAN}

\* What the temporary file holds when extracting it has not failed.
Extracted(i) == {[v |-> i, whole |-> TRUE]}

Extract ==
  /\ At("extract")
  /\ temp' \in Extracted(op.n)
  /\ Goto(IF op.backup THEN "backup" ELSE "rename")
  /\ UNCHANGED <<target, bak, process, replies, counts>>

\* The old backup is removed, and copyFile creates the new one ...
RemoveBackup ==
  /\ At("backup")
  /\ bak' = NoFile
  /\ Goto("create")
  /\ UNCHANGED <<target, temp, process, replies, counts>>

CreateBackup ==
  /\ At("create")
  /\ bak' = [target EXCEPT !.whole = FALSE]
  /\ Goto("copy")
  /\ UNCHANGED <<target, temp, process, replies, counts>>

\* ... and copies the executable to it.
CopyBackup ==
  /\ At("copy")
  /\ bak' = target
  /\ Goto("rename")
  /\ UNCHANGED <<target, temp, process, replies, counts>>

\* Seeded fault: the backup is best effort.
GivesUpNever == FALSE

\* An error of copyFile ends the upgrade.
GivesUp == TRUE

\* copyFile fails, and leaves what it has written.
BackupFailed ==
  /\ alive /\ op.pc \in {"create", "copy"}
  /\ IF GivesUp THEN Reply("error") /\ temp' = NoFile
     ELSE Goto("rename") /\ UNCHANGED <<replies, temp>>
  /\ UNCHANGED <<target, bak, process, counts>>

\* Rename replaces the executable in one step.
Rename ==
  /\ At("rename")
  /\ target' = temp
  /\ temp' = NoFile
  /\ Goto("switch")
  /\ UNCHANGED <<bak, process, replies, counts>>

\* Seeded fault: the error of Rename is ignored.
RenameReplyOk == "ok"

RenameReply == "error"

RenameFailed ==
  /\ At("rename")
  /\ temp' = NoFile
  /\ Reply(RenameReply)
  /\ UNCHANGED <<target, bak, process, counts>>

-----------------------------------------------------------------------------
(* Restarting.                                                             *)

\* Seeded fault: no restart is scheduled for ReplaceExec.
RestartsOnlyRespawn(type) == type = "respawn"

\* Seeded fault: every upgrade schedules a restart of its type.
RestartsAlways(type) == TRUE

Restarts(type) == type \in {"exec", "respawn"}

\* Upgrade's switch: the restart is scheduled and the request answered.
Switch ==
  /\ At("switch")
  /\ scheduled' = IF Restarts(op.type) THEN scheduled \cup {<<op.n, op.type>>}
                  ELSE scheduled
  /\ Reply(IF op.type = "unknown" THEN "error" ELSE "ok")
  /\ UNCHANGED <<disk, running, alive, spawned, leaving, counts>>

\* The process that handles requests is replaced or gone, and all it was doing with
\* it.
Gone ==
  /\ op' = Idle
  /\ scheduled' = {}
  /\ leaving' = FALSE
  /\ spawned' = FALSE
  /\ UNCHANGED <<target, bak, temp, replies, n>>

\* reExecSelf.
Exec(r) ==
  /\ alive /\ r \in scheduled /\ r[2] = "exec"
  /\ target.whole
  /\ running' = target.v
  /\ Gone
  /\ UNCHANGED <<alive, crashes, failures>>

\* respawnDetachedAndExit starts the new process, ...
Spawn(r) ==
  /\ alive /\ r \in scheduled /\ r[2] = "respawn"
  /\ target.whole
  /\ running' = target.v
  /\ spawned' = TRUE
  /\ scheduled' = scheduled \ {r}
  /\ UNCHANGED <<disk, alive, leaving, op, replies, counts>>

\* ... and exits, whatever has been installed or scheduled since.
Exit ==
  /\ alive /\ spawned
  /\ Gone
  /\ UNCHANGED <<running, alive, crashes, failures>>

\* Exec fails, and the process goes on.
ExecFailed(r) ==
  /\ alive /\ r \in scheduled /\ r[2] = "exec"
  /\ failures < MaxFailures
  /\ failures' = failures + 1
  /\ scheduled' = scheduled \ {r}
  /\ UNCHANGED <<disk, running, alive, spawned, leaving, op, replies, n, crashes>>

\* The new process cannot be started, and the old one exits all the same; one that
\* another restart has started remains.
RespawnFailed(r) ==
  /\ alive /\ r \in scheduled /\ r[2] = "respawn"
  /\ failures < MaxFailures
  /\ failures' = failures + 1
  /\ alive' = spawned
  /\ Gone
  /\ UNCHANGED <<running, crashes>>

\* REMOVE_FRPC is answered, and the process exits ten seconds later.
Remove ==
  /\ At("idle") /\ ~leaving
  /\ leaving' = TRUE
  /\ UNCHANGED <<disk, running, alive, spawned, op, scheduled, replies, counts>>

Leave ==
  /\ alive /\ leaving
  /\ alive' = spawned
  /\ Gone
  /\ UNCHANGED <<running, crashes, failures>>

\* The process is killed; the deferred Remove does not run.
Crash ==
  /\ alive /\ crashes < MaxCrashes
  /\ crashes' = crashes + 1
  /\ alive' = spawned
  /\ Gone
  /\ UNCHANGED <<running, failures>>

\* A supervisor starts what is installed, if that can be run.
Supervise ==
  /\ ~alive /\ target.whole
  /\ alive' = TRUE
  /\ running' = target.v
  /\ UNCHANGED <<disk, spawned, op, scheduled, leaving, replies, counts>>

-----------------------------------------------------------------------------
Init ==
  /\ target = [v |-> 0, whole |-> TRUE]
  /\ bak = NoFile /\ temp = NoFile
  /\ running = 0 /\ alive = TRUE /\ spawned = FALSE
  /\ op = Idle /\ scheduled = {} /\ leaving = FALSE
  /\ replies = [i \in Requests |-> "none"]
  /\ n = 0 /\ crashes = 0 /\ failures = 0

Next ==
  \/ \E type \in Types : \E backup \in BOOLEAN : Request(type, backup)
  \/ Refused \/ Download \/ DownloadFailed \/ Extract
  \/ RemoveBackup \/ CreateBackup \/ CopyBackup \/ BackupFailed
  \/ Rename \/ RenameFailed \/ Switch
  \/ \E r \in scheduled : Exec(r) \/ Spawn(r) \/ ExecFailed(r) \/ RespawnFailed(r)
  \/ Exit \/ Remove \/ Leave \/ Crash \/ Supervise

\* Restarts come due, a request that has installed its release is answered, and the
\* supervisor does its work.  Nobody has to upgrade.
Fairness ==
  /\ WF_vars(\E r \in scheduled : Exec(r) \/ Spawn(r)) /\ WF_vars(Exit)
  /\ WF_vars(Switch) /\ WF_vars(Supervise)

Spec == Init /\ [][Next]_vars /\ Fairness

-----------------------------------------------------------------------------
(* Correctness.                                                            *)

Pcs == {"idle", "download", "extract", "backup", "create", "copy", "rename", "switch"}

TypeOK ==
  /\ target \in File /\ bak \in File /\ temp \in File
  /\ running \in Releases /\ alive \in BOOLEAN /\ spawned \in BOOLEAN
  /\ op \in [pc : Pcs, n : Releases, type : Types \cup {"only"}, backup : BOOLEAN]
  /\ scheduled \subseteq Requests \X {"exec", "respawn"}
  /\ leaving \in BOOLEAN
  /\ replies \in [Requests -> {"none", "ok", "error"}]
  /\ n \in 0..MaxRequests /\ crashes \in 0..MaxCrashes /\ failures \in 0..MaxFailures

\* Whenever the process ends - crash, restart or exit scheduled by an earlier
\* request, failed upgrade - the executable it leaves is complete.
TargetIsWhole == target.whole

\* Whatever ends the process or fails, no step leaves an executable that is
\* incomplete, and an upgrade that asks for a backup never overwrites one of
\* which there is no complete copy in the backup.
DiskIsSafe ==
  [][TargetIsWhole' /\ (target' # target /\ op.backup => bak' = target)]_vars

\* Seen from master, an upgrade is installed at once or not at all, whatever crash,
\* restart, exit or failure comes between its steps; the answer says which, unless the
\* type is unknown; and no earlier request's leftovers, nor the backup, ever become
\* the executable.
A == INSTANCE AtomicUpgrade WITH release <- target.v, unknown <- op.type = "unknown"

Implements == A!Spec

\* The agent comes to run the release of an upgrade with restart, or a later
\* one, also when the process ends before the answer is sent, or the restart of
\* an earlier upgrade comes first, provided that exec and starting a process do
\* not fail, and that the upgrade was not installed by a process which had already
\* started its successor: one that was is answered that the new binary will run
\* shortly (rpc_upgrade.go:54), but Exit takes its restart with it, and the release
\* before goes on.
UpgradeTakesEffect ==
  \A i \in Requests :
    (op.pc = "switch" /\ op.n = i /\ op.type \in {"exec", "respawn"} /\ ~spawned)
      ~> (alive /\ running >= i) \/ failures > 0

=============================================================================

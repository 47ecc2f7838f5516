------------------------------- MODULE AuthLocks -------------------------------
(***************************************************************************)
(* The two locks of the 2FA state, and who waits for whom.                 *)
(*                                                                         *)
(* The auth lock is a tokio RwLock around the live AuthConfig; the write   *)
(* gate is one tokio Mutex around every write of config.toml and of the    *)
(* state file.  Both hand themselves over in the order they were asked.    *)
(*   - a counting task (a handshake, a refused enrollment, a reload) takes *)
(*     the auth lock for writing, moves the counters, lets go and then     *)
(*     waits for a persist job;                                            *)
(*   - an enrolling task holds the auth lock for writing while a detached  *)
(*     job writes config.toml under the gate;                              *)
(*   - a persist job is detached too: it takes the auth lock for reading,  *)
(*     then the gate, snapshots the counters, drops the auth lock and      *)
(*     writes the state file.                                              *)
(* A handshake has a deadline, which drops the task and whatever lock it   *)
(* holds or waits for, and leaves its detached jobs running.               *)
(*                                                                         *)
(* The counters are a single number, `count': how often they have moved.   *)
(***************************************************************************)
EXTENDS Naturals, Sequences

CONSTANTS
  Counting,      \* tasks that move a counter
  Enrolling,     \* tasks that enroll
  Deadlined,     \* tasks that run under the handshake deadline
  None           \* nobody

Task == Counting \cup Enrolling

(* A job is named by its task and its kind: both locks queue jobs and tasks. *)
Write(t) == <<t, "write">>
ConfigJob(t) == <<t, "config">>
PersistJob(t) == <<t, "persist">>
Waiter == Task \X {"write", "config", "persist"}

ASSUME AuthLocksAssumption ==
  /\ Counting \cap Enrolling = {}
  /\ Enrolling \subseteq Deadlined
  /\ Deadlined \subseteq Task
  /\ None \notin Task \cup Waiter

VARIABLES
  pc,         \* where each task is
  writer,     \* the task that holds the auth lock for writing
  readers,    \* the persist jobs that hold it for reading
  authQueue,  \* who waits for the auth lock, in order
  gate,       \* the job that holds the write gate
  gateQueue,  \* who waits for it, in order
  config,     \* the job that writes config.toml for each enrolling task
  persist,    \* the persist job of each task
  count,      \* how often the live counters have moved
  file,       \* the count in the state file
  snapshot,   \* the count each persist job is writing
  owed,       \* history: the count when each persist job was asked for
  failed      \* history: did the last write of the state file fail

vars == <<pc, writer, readers, authQueue, gate, gateQueue, config, persist,
          count, file, snapshot, owed, failed>>
gateVars == <<gate, gateQueue>>
fileVars == <<file, snapshot, failed>>

JobStates == {"none", "spawned", "waiting", "gated", "writing", "written", "unwritten"}

(* Every variable has its type, the auth lock is never held for writing and  *)
(* reading at once, and its guard lives as long as the code holds it: from   *)
(* the grant to the drop, the deadline's included.                           *)
TypeOK ==
  /\ pc \in [Task -> {"idle", "queued", "holding", "telling", "saving", "persisting",
                      "done", "dropped"}]
  /\ writer \in Task \cup {None}
  /\ readers \subseteq Task
  /\ authQueue \in Seq(Waiter)
  /\ gate \in Waiter \cup {None}
  /\ gateQueue \in Seq(Waiter)
  /\ config \in [Task -> JobStates]
  /\ persist \in [Task -> JobStates]
  /\ count \in Nat
  /\ file \in Nat
  /\ snapshot \in [Task -> Nat]
  /\ owed \in [Task -> Nat]
  /\ failed \in BOOLEAN
  /\ writer # None => readers = {}
  /\ \A t \in Task : writer = t <=> pc[t] \in {"holding", "telling", "saving"}

Init ==
  /\ pc = [t \in Task |-> "idle"]
  /\ writer = None
  /\ readers = {}
  /\ authQueue = <<>>
  /\ gate = None
  /\ gateQueue = <<>>
  /\ config = [t \in Task |-> "none"]
  /\ persist = [t \in Task |-> "none"]
  /\ count = 0
  /\ file = 0
  /\ snapshot = [t \in Task |-> 0]
  /\ owed = [t \in Task |-> 0]
  /\ failed = FALSE

Moves(t, from, to) == pc[t] = from /\ pc' = [pc EXCEPT ![t] = to]

-------------------------------------------------------------------------------
(* The task, up to the write lock.                                           *)

Ask(t) ==
  /\ Moves(t, "idle", "queued")
  /\ authQueue' = Append(authQueue, Write(t))
  /\ UNCHANGED <<writer, readers, gateVars, config, persist, count, fileVars, owed>>

GrantWrite(t) ==
  /\ authQueue # <<>> /\ Head(authQueue) = Write(t)
  /\ writer = None /\ readers = {}
  /\ Moves(t, "queued", "holding")
  /\ writer' = t
  /\ authQueue' = Tail(authQueue)
  /\ UNCHANGED <<readers, gateVars, config, persist, count, fileVars, owed>>

(* The counters move, the lock is dropped and a persist job is spawned.      *)
CountAndPersist(t, from) ==
  /\ Moves(t, from, "persisting")
  /\ count' = count + 1
  /\ owed' = [owed EXCEPT ![t] = count + 1]
  /\ persist' = [persist EXCEPT ![t] = "spawned"]
  /\ writer' = None
  /\ UNCHANGED <<readers, authQueue, gateVars, config, fileVars>>

(* Nothing to write: the lock is dropped and the task is through.            *)
LetGo(t, from) ==
  /\ Moves(t, from, "done")
  /\ writer' = None
  /\ UNCHANGED <<readers, authQueue, gateVars, config, persist, count, fileVars, owed>>

(* authenticate, a counted enrollment refusal, a reload.                     *)
Count(t) == t \in Counting /\ CountAndPersist(t, "holding")
CountNothing(t) == t \in Counting /\ LetGo(t, "holding")

(* An enrollment that cannot be recorded: the refusal is sent with the write *)
(* guard still in scope.                                                     *)
RefuseUnrecordable(t) ==
  /\ t \in Enrolling
  /\ Moves(t, "holding", "telling")
  /\ UNCHANGED <<writer, readers, authQueue, gateVars, config, persist, count, fileVars, owed>>

Refused(t) == LetGo(t, "telling")

(* The enrollment is issued in memory and its write handed to a job; the     *)
(* task holds the auth lock until the job reports.                           *)
Issue(t) ==
  /\ t \in Enrolling
  /\ Moves(t, "holding", "saving")
  /\ config' = [config EXCEPT ![t] = "spawned"]
  /\ UNCHANGED <<writer, readers, authQueue, gateVars, persist, count, fileVars, owed>>

(* The write landed: counters there are to clear are cleared and persisted.  *)
Enrolled(t) == config[t] = "written" /\ CountAndPersist(t, "saving")
EnrolledClean(t) == config[t] = "written" /\ LetGo(t, "saving")

(* The write failed: the enrollment is undone.                               *)
Undo(t) == config[t] = "unwritten" /\ LetGo(t, "saving")

Persisted(t) ==
  /\ persist[t] \in {"written", "unwritten"}
  /\ Moves(t, "persisting", "done")
  /\ UNCHANGED <<writer, readers, authQueue, gateVars, config, persist, count, fileVars, owed>>

(* Variant: sending the refusal is not under the deadline.                   *)
Deadline_NotTelling(t) ==
  /\ t \in Deadlined
  /\ pc[t] \in {"queued", "saving", "persisting"}
  /\ pc' = [pc EXCEPT ![t] = "dropped"]
  /\ writer' = IF writer = t THEN None ELSE writer
  /\ authQueue' = SelectSeq(authQueue, LAMBDA w : w # Write(t))
  /\ UNCHANGED <<readers, gateVars, config, persist, count, fileVars, owed>>

(* Variant: a persist job dies with the task that asked for it.              *)
Deadline_DropsJob(t) ==
  /\ t \in Deadlined
  /\ pc[t] \in {"queued", "telling", "saving", "persisting"}
  /\ pc' = [pc EXCEPT ![t] = "dropped"]
  /\ writer' = IF writer = t THEN None ELSE writer
  /\ authQueue' = SelectSeq(authQueue, LAMBDA w : w # Write(t))
  /\ persist' = [persist EXCEPT ![t] = IF @ = "spawned" THEN "none" ELSE @]
  /\ UNCHANGED <<readers, gateVars, config, count, fileVars, owed>>

(* Variant: the guard of a dropped task is not released.                     *)
Deadline_KeepsGuard(t) ==
  /\ t \in Deadlined
  /\ pc[t] \in {"queued", "telling", "saving", "persisting"}
  /\ pc' = [pc EXCEPT ![t] = "dropped"]
  /\ authQueue' = SelectSeq(authQueue, LAMBDA w : w # Write(t))
  /\ UNCHANGED <<writer, readers, gateVars, config, persist, count, fileVars, owed>>

(* The handshake deadline drops the task wherever it waits.                  *)
Deadline(t) ==
  /\ t \in Deadlined
  /\ pc[t] \in {"queued", "telling", "saving", "persisting"}
  /\ pc' = [pc EXCEPT ![t] = "dropped"]
  /\ writer' = IF writer = t THEN None ELSE writer
  /\ authQueue' = SelectSeq(authQueue, LAMBDA w : w # Write(t))
  /\ UNCHANGED <<readers, gateVars, config, persist, count, fileVars, owed>>

-------------------------------------------------------------------------------
(* The detached jobs.                                                        *)

(* storage_write: the gate is taken inside the job.                          *)
ConfigAsks(t) ==
  /\ config[t] = "spawned"
  /\ config' = [config EXCEPT ![t] = "waiting"]
  /\ gateQueue' = Append(gateQueue, ConfigJob(t))
  /\ UNCHANGED <<pc, writer, readers, authQueue, gate, persist, count, fileVars, owed>>

ConfigGated(t) ==
  /\ gate = None /\ gateQueue # <<>> /\ Head(gateQueue) = ConfigJob(t)
  /\ gate' = ConfigJob(t)
  /\ gateQueue' = Tail(gateQueue)
  /\ config' = [config EXCEPT ![t] = "writing"]
  /\ UNCHANGED <<pc, writer, readers, authQueue, persist, count, fileVars, owed>>

ConfigEnds(t) ==
  /\ config[t] = "writing"
  /\ \E result \in {"written", "unwritten"} : config' = [config EXCEPT ![t] = result]
  /\ gate' = None
  /\ UNCHANGED <<pc, writer, readers, authQueue, gateQueue, persist, count, fileVars, owed>>

(* persist_auth_state: the auth lock for reading first.                      *)
PersistAsks(t) ==
  /\ persist[t] = "spawned"
  /\ persist' = [persist EXCEPT ![t] = "waiting"]
  /\ authQueue' = Append(authQueue, PersistJob(t))
  /\ UNCHANGED <<pc, writer, readers, gateVars, config, count, fileVars, owed>>

(* The gate second, asked for with the auth lock in hand.                    *)
PersistReads(t) ==
  /\ authQueue # <<>> /\ Head(authQueue) = PersistJob(t)
  /\ writer = None
  /\ authQueue' = Tail(authQueue)
  /\ readers' = readers \cup {t}
  /\ persist' = [persist EXCEPT ![t] = "gated"]
  /\ gateQueue' = Append(gateQueue, PersistJob(t))
  /\ UNCHANGED <<pc, writer, gate, config, count, fileVars, owed>>

(* Variant: the counters are the ones the caller saw.                        *)
Snapshot_Callers(t) == owed[t]

(* counter_snapshot, read at write time.                                     *)
Snapshot(t) == count

(* Both locks are held: the counters are read and the auth lock is dropped.  *)
PersistGated(t) ==
  /\ gate = None /\ gateQueue # <<>> /\ Head(gateQueue) = PersistJob(t)
  /\ gate' = PersistJob(t)
  /\ gateQueue' = Tail(gateQueue)
  /\ snapshot' = [snapshot EXCEPT ![t] = Snapshot(t)]
  /\ readers' = readers \ {t}
  /\ persist' = [persist EXCEPT ![t] = "writing"]
  /\ UNCHANGED <<pc, writer, authQueue, config, count, file, failed, owed>>

(* Variant: a job reports before its write has reached the disk.             *)
PersistEnds_Early(t) ==
  /\ persist[t] = "writing"
  /\ persist' = [persist EXCEPT ![t] = "written"]
  /\ gate' = None
  /\ UNCHANGED <<pc, writer, readers, authQueue, gateQueue, config, count, fileVars, owed>>

(* The state file is written, or the write fails.                            *)
PersistEnds(t) ==
  /\ persist[t] = "writing"
  /\ \/ /\ file' = snapshot[t]
        /\ failed' = FALSE
        /\ persist' = [persist EXCEPT ![t] = "written"]
     \/ /\ failed' = TRUE
        /\ persist' = [persist EXCEPT ![t] = "unwritten"]
        /\ UNCHANGED file
  /\ gate' = None
  /\ UNCHANGED <<pc, writer, readers, authQueue, gateQueue, config, count, snapshot, owed>>

-------------------------------------------------------------------------------
TaskStep(t) ==
  \/ GrantWrite(t) \/ Count(t) \/ CountNothing(t)
  \/ RefuseUnrecordable(t) \/ Issue(t)
  \/ Enrolled(t) \/ EnrolledClean(t) \/ Undo(t)
  \/ Persisted(t)

JobStep(t) ==
  \/ ConfigAsks(t) \/ ConfigGated(t) \/ ConfigEnds(t)
  \/ PersistAsks(t) \/ PersistReads(t) \/ PersistGated(t) \/ PersistEnds(t)

Next == \E t \in Task : Ask(t) \/ TaskStep(t) \/ Refused(t) \/ Deadline(t) \/ JobStep(t)

Spec == Init /\ [][Next]_vars

(* The runtime polls a task that is ready, a write to disk ends, and the     *)
(* deadline fires.  Whether a peer reads the refusal it is sent is up to it. *)
Fairness ==
  \A t \in Task : WF_vars(TaskStep(t)) /\ WF_vars(JobStep(t)) /\ WF_vars(Deadline(t))

FairSpec == Spec /\ Fairness

-------------------------------------------------------------------------------
(* Properties.                                                               *)

(* The count in the state file never goes back: a persist job that was asked *)
(* for early and written late does not overwrite a newer one, because the    *)
(* gate orders the writes and the counters are read under it.                *)
StateFileNeverGoesBack == [][file' >= file]_vars

(* A task that was told its counters are on disk finds them there: a persist *)
(* job that reported success left at least what the caller had counted.      *)
PersistedIsOnDisk == \A t \in Task : persist[t] = "written" => file >= owed[t]

(* Nobody waits for ever: every task that asks for the lock gets to its end, *)
(* whatever the deadlines drop and whatever a peer does not read.  No cycle  *)
(* of waits forms between the auth lock, the gate and the deadlines: the     *)
(* claim of the comment on persist_auth_state.                               *)
EveryTaskEnds == \A t \in Task : pc[t] = "queued" ~> pc[t] \in {"done", "dropped"}

(* What was counted reaches the state file, unless the last write of it      *)
(* failed: a deadline that drops the handshake does not drop its write.      *)
CountsReachTheFile == <>[](failed \/ file = count)
===============================================================================

--------------------------- MODULE AuthLocks_proofs ---------------------------
(***************************************************************************)
(* Proofs about AuthLocks, for any number of tasks of either kind.         *)
(***************************************************************************)
EXTENDS AuthLocks, TLAPS

(* The write gate: a job that writes holds it.                               *)
Gated ==
  \A t \in Task :
    /\ persist[t] = "writing" => gate = PersistJob(t)
    /\ config[t] = "writing" => gate = ConfigJob(t)

(* The counts: what is on disk and what is on its way there never exceed     *)
(* what was counted, a snapshot under way is at least what is on disk and    *)
(* what its caller counted, and a job that reported success left that much.  *)
Ordered ==
  /\ file <= count
  /\ \A t \in Task :
       /\ owed[t] <= count
       /\ persist[t] = "writing" => /\ file <= snapshot[t]
                                    /\ snapshot[t] <= count
                                    /\ owed[t] <= snapshot[t]
       /\ persist[t] = "written" => owed[t] <= file

Shape ==
  /\ config \in [Task -> JobStates]
  /\ persist \in [Task -> JobStates]
  /\ count \in Nat
  /\ file \in Nat
  /\ snapshot \in [Task -> Nat]
  /\ owed \in [Task -> Nat]

WriteInv == Shape /\ Gated /\ Ordered

(* Two jobs that write are one job: nobody holds the gate twice.             *)
LEMMA OneWriter ==
  ASSUME Gated, NEW t \in Task, NEW u \in Task
  PROVE  /\ persist[t] = "writing" /\ persist[u] = "writing" => t = u
         /\ config[t] = "writing" /\ config[u] = "writing" => t = u
         /\ ~(persist[t] = "writing" /\ config[u] = "writing")
         /\ persist[t] = "writing" \/ config[t] = "writing" => gate # None
BY AuthLocksAssumption DEF Gated, PersistJob, ConfigJob, Waiter

(* A step that moves neither the counts nor a job.                           *)
JobsAndCounts == <<gate, config, persist, count, file, snapshot, owed>>

LEMMA Untouched == ASSUME WriteInv, UNCHANGED JobsAndCounts PROVE WriteInv' /\ file' >= file
BY DEF WriteInv, Shape, Gated, Ordered, JobsAndCounts

(* The counters move and a persist job is spawned.                           *)
LEMMA CountStep ==
  ASSUME WriteInv, NEW t \in Task,
         count' = count + 1,
         owed' = [owed EXCEPT ![t] = count + 1],
         persist' = [persist EXCEPT ![t] = "spawned"],
         UNCHANGED <<gate, config, file, snapshot>>
  PROVE  WriteInv' /\ file' >= file
<1>1. Shape'
  BY DEF WriteInv, Shape, JobStates
<1>2. Gated'
  BY DEF WriteInv, Shape, Gated
<1>3. Ordered'
  BY DEF WriteInv, Shape, Ordered
<1> QED BY <1>1, <1>2, <1>3 DEF WriteInv, Shape

(* A config or persist job moves on without writing.                         *)
LEMMA JobMoves ==
  ASSUME WriteInv, NEW t \in Task, NEW state \in JobStates \ {"writing", "written"},
         \/ persist' = [persist EXCEPT ![t] = state] /\ config' = config
         \/ config' = [config EXCEPT ![t] = state] /\ persist' = persist,
         UNCHANGED <<gate, count, file, snapshot, owed>>
  PROVE  WriteInv' /\ file' >= file
<1>1. Shape'
  BY DEF WriteInv, Shape
<1>2. Gated'
  BY DEF WriteInv, Shape, Gated
<1>3. Ordered'
  BY DEF WriteInv, Shape, Ordered
<1> QED BY <1>1, <1>2, <1>3 DEF WriteInv, Shape

LEMMA WriteStep == WriteInv /\ [Next]_vars => WriteInv' /\ file' >= file
<1> SUFFICES ASSUME WriteInv, [Next]_vars PROVE WriteInv' /\ file' >= file
  OBVIOUS
<1> USE AuthLocksAssumption
<1>0. CASE UNCHANGED vars
  BY <1>0, Untouched DEF vars, JobsAndCounts
<1>1. ASSUME NEW t \in Task,
             \/ Ask(t) \/ GrantWrite(t) \/ CountNothing(t) \/ RefuseUnrecordable(t)
             \/ EnrolledClean(t) \/ Undo(t) \/ Persisted(t) \/ Refused(t) \/ Deadline(t)
      PROVE WriteInv' /\ file' >= file
  BY <1>1, Untouched
     DEF Ask, GrantWrite, CountNothing, RefuseUnrecordable, EnrolledClean, Undo, Persisted,
         Refused, Deadline, LetGo, JobsAndCounts, gateVars, fileVars
<1>2. ASSUME NEW t \in Task, Count(t) \/ Enrolled(t) PROVE WriteInv' /\ file' >= file
  BY <1>2, CountStep DEF Count, Enrolled, CountAndPersist, gateVars, fileVars
<1>3. ASSUME NEW t \in Task, Issue(t) PROVE WriteInv' /\ file' >= file
  BY <1>3, JobMoves DEF Issue, JobStates, gateVars, fileVars
<1>4. ASSUME NEW t \in Task, ConfigAsks(t) PROVE WriteInv' /\ file' >= file
  BY <1>4, JobMoves DEF ConfigAsks, JobStates, fileVars
<1>5. ASSUME NEW t \in Task, ConfigGated(t) PROVE WriteInv' /\ file' >= file
  <2>1. \A u \in Task : persist[u] # "writing" /\ config[u] # "writing"
    BY <1>5, OneWriter DEF ConfigGated, WriteInv
  <2>2. /\ config' = [config EXCEPT ![t] = "writing"]
        /\ gate' = ConfigJob(t)
        /\ UNCHANGED <<persist, count, file, snapshot, owed>>
    BY <1>5 DEF ConfigGated, fileVars
  <2>3. Shape'
    BY <2>2 DEF WriteInv, Shape, JobStates
  <2>4. Gated'
    BY <2>1, <2>2 DEF WriteInv, Shape, Gated
  <2>5. Ordered'
    BY <2>2 DEF WriteInv, Ordered
  <2> QED BY <2>2, <2>3, <2>4, <2>5 DEF WriteInv, Shape
<1>6. ASSUME NEW t \in Task, ConfigEnds(t) PROVE WriteInv' /\ file' >= file
  <2>1. PICK result \in {"written", "unwritten"} : config' = [config EXCEPT ![t] = result]
    BY <1>6 DEF ConfigEnds
  <2>2. UNCHANGED <<persist, count, file, snapshot, owed>> /\ config[t] = "writing"
    BY <1>6 DEF ConfigEnds, fileVars
  <2>3. \A u \in Task : persist[u] # "writing" /\ (config[u] = "writing" => u = t)
    BY <2>2, OneWriter DEF WriteInv
  <2>4. Shape'
    BY <2>1, <2>2 DEF WriteInv, Shape, JobStates
  <2>5. Gated'
    BY <2>1, <2>2, <2>3 DEF WriteInv, Shape, Gated
  <2>6. Ordered'
    BY <2>2 DEF WriteInv, Ordered
  <2> QED BY <2>2, <2>4, <2>5, <2>6 DEF WriteInv, Shape
<1>7. ASSUME NEW t \in Task, PersistAsks(t) PROVE WriteInv' /\ file' >= file
  BY <1>7, JobMoves DEF PersistAsks, JobStates, fileVars, gateVars
<1>8. ASSUME NEW t \in Task, PersistReads(t) PROVE WriteInv' /\ file' >= file
  BY <1>8, JobMoves DEF PersistReads, JobStates, fileVars
<1>9. ASSUME NEW t \in Task, PersistGated(t) PROVE WriteInv' /\ file' >= file
  <2>1. \A u \in Task : persist[u] # "writing" /\ config[u] # "writing"
    BY <1>9, OneWriter DEF PersistGated, WriteInv
  <2>2. /\ persist' = [persist EXCEPT ![t] = "writing"]
        /\ snapshot' = [snapshot EXCEPT ![t] = count]
        /\ gate' = PersistJob(t)
        /\ UNCHANGED <<config, count, file, owed>>
    BY <1>9 DEF PersistGated, Snapshot
  <2>3. Shape'
    BY <2>2 DEF WriteInv, Shape, JobStates
  <2>4. Gated'
    BY <2>1, <2>2 DEF WriteInv, Shape, Gated
  <2>5. Ordered'
    BY <2>1, <2>2 DEF WriteInv, Shape, Ordered
  <2> QED BY <2>2, <2>3, <2>4, <2>5 DEF WriteInv, Shape
<1>10. ASSUME NEW t \in Task, PersistEnds(t) PROVE WriteInv' /\ file' >= file
  <2>1. persist[t] = "writing" /\ UNCHANGED <<config, count, snapshot, owed>>
    BY <1>10 DEF PersistEnds
  <2>2. \A u \in Task : config[u] # "writing" /\ (persist[u] = "writing" => u = t)
    BY <2>1, OneWriter DEF WriteInv
  <2>3. \/ file' = snapshot[t] /\ persist' = [persist EXCEPT ![t] = "written"]
        \/ file' = file /\ persist' = [persist EXCEPT ![t] = "unwritten"]
    BY <1>10 DEF PersistEnds
  <2>4. Shape'
    BY <2>1, <2>3 DEF WriteInv, Shape, JobStates
  <2>5. Gated'
    BY <2>1, <2>2, <2>3 DEF WriteInv, Shape, Gated
  <2>6. file' >= file
    BY <2>1, <2>3 DEF WriteInv, Shape, Ordered
  <2>7. Ordered'
    BY <2>1, <2>2, <2>3 DEF WriteInv, Shape, Ordered
  <2> QED BY <2>4, <2>5, <2>6, <2>7 DEF WriteInv
<1> QED
  BY <1>0, <1>1, <1>2, <1>3, <1>4, <1>5, <1>6, <1>7, <1>8, <1>9, <1>10
     DEF Next, TaskStep, JobStep

LEMMA WriteInit == Init => WriteInv
<1> SUFFICES ASSUME Init PROVE WriteInv
  OBVIOUS
<1>1. Shape
  BY DEF Init, Shape, JobStates
<1>2. Gated
  BY DEF Init, Gated
<1>3. Ordered
  BY DEF Init, Ordered
<1> QED BY <1>1, <1>2, <1>3 DEF WriteInv

(* A task that was told its counters are on disk finds them there.           *)
THEOREM ReportsAreTrue == Spec => []PersistedIsOnDisk
<1>1. WriteInv => PersistedIsOnDisk
  BY DEF WriteInv, Shape, Ordered, PersistedIsOnDisk
<1> QED BY <1>1, WriteInit, WriteStep, PTL DEF Spec

(* The count in the state file never goes back, however the persist jobs of  *)
(* any number of tasks interleave.                                           *)
THEOREM StateFileIsMonotone == Spec => StateFileNeverGoesBack
<1>1. WriteInv /\ [Next]_vars => [file' >= file]_vars
  BY WriteStep
<1> QED BY <1>1, WriteInit, WriteStep, PTL DEF Spec, StateFileNeverGoesBack
===============================================================================

-------------------------------- MODULE Lockout --------------------------------
(***************************************************************************)
(* What one client's authentication counters remember: the wrong codes, the*)
(* lockout they earn, and the last TOTP step each credential was accepted  *)
(* on.                                                                     *)
(*                                                                         *)
(* A response is judged under the auth write lock (authenticator.rs), the  *)
(* counters are written to the state file afterwards by a task of their own*)
(* (conn/auth/state.rs), a reload merges a state file it read earlier      *)
(* (config_watcher/mod.rs), and a restart starts from the file             *)
(* (auth/state.rs).  The lock and the write gate themselves are the subject*)
(* of the module AuthLocks.                                                *)
(*                                                                         *)
(* Times and steps are positive; 0 stands for None.  One unit of time is   *)
(* one TOTP step.                                                          *)
(***************************************************************************)
EXTENDS Integers

CONSTANTS
  Slot,          \* the credentials of the client: its own secret and its devices
  Named,         \* the slots that are named devices
  KeySlot,       \* the devices that answer with a signature
  MaxAttempts,   \* [auth] max_attempts
  Duration,      \* [auth] lockout_duration
  Window,        \* [auth] window: the steps either way a code is accepted
  MaxTime,       \* bound on the clock
  MaxWrites,     \* bound on the writes of the state file waiting at once
  MaxCrashes     \* bound on the restarts

ASSUME LockoutAssumption ==
  /\ Named \subseteq Slot
  /\ KeySlot \subseteq Named
  /\ MaxAttempts \in Nat
  /\ Duration \in Nat
  /\ Window \in Nat
  /\ MaxTime \in Nat \ {0}
  /\ MaxWrites \in Nat
  /\ MaxCrashes \in Nat

VARIABLES
  now,       \* unix_now()
  live,      \* the counters in memory
  disk,      \* the counters in the state file
  waiting,   \* persist tasks that have not taken their snapshot
  writing,   \* the snapshot on its way to the disk
  copy,      \* the state file as the watcher read it
  crashes,   \* restarts so far
  guesses,   \* history: wrong codes judged since the budget was last renewed
  lost       \* history: counted failures a restart has forgotten

vars == <<now, live, disk, waiting, writing, copy, crashes, guesses, lost>>

Counters == [failed : Nat, until : Nat, step : [Slot -> Nat]]
Zero == [failed |-> 0, until |-> 0, step |-> [s \in Slot |-> 0]]
NoSnapshot == [failed |-> 0, until |-> 0, step |-> <<>>]

TypeOK ==
  /\ now \in 1..MaxTime
  /\ live \in Counters
  /\ disk \in Counters
  /\ waiting \in 0..MaxWrites
  /\ writing \in Counters \cup {NoSnapshot}
  /\ copy \in Counters \cup {NoSnapshot}
  /\ crashes \in 0..MaxCrashes
  /\ guesses \in Nat
  /\ lost \in Nat

(* A deployment that has counted nothing.                                    *)
Init ==
  /\ now = 1
  /\ live = Zero
  /\ disk = Zero
  /\ waiting = 0
  /\ writing = NoSnapshot
  /\ copy = NoSnapshot
  /\ crashes = 0
  /\ guesses = 0
  /\ lost = 0

Tick ==
  /\ now < MaxTime
  /\ now' = now + 1
  /\ UNCHANGED <<live, disk, waiting, writing, copy, crashes, guesses, lost>>

-------------------------------------------------------------------------------
(* The counters (auth/config/client.rs, auth/config/step.rs).                *)

Expired(c) == c.until # 0 /\ c.until <= now

(* Variant: the lockout is lifted and the count is left where it was.        *)
RefreshLockout_KeepsCount(c) ==
  IF Expired(c) THEN [failed |-> c.failed, until |-> 0, step |-> c.step] ELSE c

RefreshLockout(c) ==
  IF Expired(c) THEN [failed |-> 0, until |-> 0, step |-> c.step] ELSE c

(* Variant: nothing is locked out.                                           *)
IsLockedOut_Never(c) == FALSE

IsLockedOut(c) == now < c.until

(* Variant: the attempts left are counted down.                              *)
RecordFailure_CountsDown(c) == [failed |-> c.failed - 1, until |-> c.until, step |-> c.step]

RecordFailure(c) ==
  [failed |-> c.failed + 1,
   until  |-> IF c.failed + 1 >= MaxAttempts THEN now + Duration ELSE c.until,
   step   |-> c.step]

RecordSuccess(c) == [failed |-> 0, until |-> 0, step |-> c.step]

(* A step behind the last accepted one is refused; the same one is not.      *)
StepRefused(c, s, step) == step < c.step[s]

AcceptStep(c, s, step) ==
  [failed |-> c.failed, until |-> c.until, step |-> [c.step EXCEPT ![s] = step]]

NewestStep(a, b) == IF a > b THEN a ELSE b

-------------------------------------------------------------------------------
(* authenticate: one response, judged and recorded under one hold of the     *)
(* write lock.  A dirty state leaves a write of the state file behind.       *)

Judged(counters, dirty) ==
  /\ live' = counters
  /\ IF dirty
     THEN waiting < MaxWrites /\ waiting' = waiting + 1
     ELSE UNCHANGED waiting
  /\ UNCHANGED <<now, disk, writing, copy, crashes, lost>>

(* Guesses the refresh has forgiven.                                         *)
Budget == IF Expired(live) THEN 0 ELSE guesses

(* The steps a code may be current for.                                      *)
CurrentSteps == {step \in 1..(MaxTime + Window) : step \in (now - Window)..(now + Window)}

(* Unknown device, stale timestamp, response for another challenge, locked   *)
(* out: refused, and nothing is counted.                                     *)
Refuse ==
  /\ Judged(RefreshLockout(live), FALSE)
  /\ guesses' = Budget

(* A key device's signature that does not verify: refused, never counted.    *)
WrongSignature(s) ==
  /\ s \in KeySlot
  /\ ~IsLockedOut(RefreshLockout(live))
  /\ Refuse

(* The proof holds and the code does not.                                    *)
WrongCode(s) ==
  LET c == RefreshLockout(live)
  IN /\ s \in Slot \ KeySlot
     /\ ~IsLockedOut(c)
     /\ Judged(RecordFailure(c), TRUE)
     /\ guesses' = Budget + 1

(* The code of step `step', after it passed accept_step.  `stamped' is       *)
(* whether the device's last_used stamp moved, which an unnamed one has not. *)
(* record_success runs only when something has to be written.                *)
AcceptCode(s, step, stamped) ==
  LET c == RefreshLockout(live)
      dirty == step # c.step[s] \/ stamped \/ c.failed # 0 \/ c.until # 0
      accepted == AcceptStep(c, s, step)
  IN /\ s \in Slot \ KeySlot
     /\ stamped => s \in Named
     /\ ~IsLockedOut(c)
     /\ step \in CurrentSteps
     /\ IF StepRefused(c, s, step)
        THEN /\ Judged(c, FALSE)
             /\ guesses' = Budget
        ELSE /\ Judged(IF dirty THEN RecordSuccess(accepted) ELSE accepted, dirty)
             /\ guesses' = 0

(* A key device's signature that verifies.                                   *)
AcceptKey(s, stamped) ==
  LET c == RefreshLockout(live)
      dirty == stamped \/ c.failed # 0 \/ c.until # 0
  IN /\ s \in KeySlot
     /\ ~IsLockedOut(c)
     /\ Judged(IF dirty THEN RecordSuccess(c) ELSE c, dirty)
     /\ guesses' = 0

-------------------------------------------------------------------------------
(* The state file.                                                           *)

(* A persist task gets the gate and takes its snapshot.                      *)
TakeSnapshot ==
  /\ waiting > 0
  /\ writing = NoSnapshot
  /\ waiting' = waiting - 1
  /\ writing' = live
  /\ UNCHANGED <<now, live, disk, copy, crashes, guesses, lost>>

StateWritten ==
  /\ writing # NoSnapshot
  /\ disk' = writing
  /\ writing' = NoSnapshot
  /\ UNCHANGED <<now, live, waiting, copy, crashes, guesses, lost>>

(* The write fails: logged, and the file stays as it was.                    *)
StateNotWritten ==
  /\ writing # NoSnapshot
  /\ writing' = NoSnapshot
  /\ UNCHANGED <<now, live, disk, waiting, copy, crashes, guesses, lost>>

(* The watcher reads the state file with the configuration, outside the lock.*)
ReadState ==
  /\ copy = NoSnapshot
  /\ copy' = disk
  /\ UNCHANGED <<now, live, disk, waiting, writing, crashes, guesses, lost>>

(* Variant: the merge takes the step memory of the file.                     *)
Merged_FileStep(c, file) == [failed |-> c.failed, until |-> c.until, step |-> file.step]

(* merge_auth_clients, for a client on both sides: the counters in memory    *)
(* win, and of the two step memories the newer one does.                     *)
Merged(c, file) ==
  [failed |-> c.failed, until |-> c.until,
   step |-> [s \in Slot |-> NewestStep(c.step[s], file.step[s])]]

MergeState ==
  /\ copy # NoSnapshot
  /\ live' = Merged(live, copy)
  /\ copy' = NoSnapshot
  /\ UNCHANGED <<now, disk, waiting, writing, crashes, guesses, lost>>

(* Variant: the lockout is not carried over a restart.                       *)
Loaded_CountOnly(file) == [failed |-> file.failed, until |-> 0, step |-> file.step]

(* Variant: the step memory is not carried over a restart.                   *)
Loaded_NoSteps(file) ==
  [failed |-> file.failed, until |-> file.until, step |-> [s \in Slot |-> 0]]

(* apply: what the next process starts from.                                 *)
Loaded(file) == file

Forgotten == IF live.failed > disk.failed THEN live.failed - disk.failed ELSE 0

(* The process dies, with the write under way or not.                        *)
Restart ==
  /\ crashes < MaxCrashes
  /\ crashes' = crashes + 1
  /\ live' = Loaded(disk)
  /\ waiting' = 0
  /\ writing' = NoSnapshot
  /\ copy' = NoSnapshot
  /\ lost' = lost + Forgotten
  /\ UNCHANGED <<now, disk, guesses>>

-------------------------------------------------------------------------------
Response(s) ==
  \/ WrongSignature(s)
  \/ WrongCode(s)
  \/ \E step \in CurrentSteps, stamped \in BOOLEAN : AcceptCode(s, step, stamped)
  \/ \E stamped \in BOOLEAN : AcceptKey(s, stamped)

Next ==
  \/ Tick
  \/ Refuse
  \/ \E s \in Slot : Response(s)
  \/ TakeSnapshot \/ StateWritten \/ StateNotWritten
  \/ ReadState \/ MergeState
  \/ Restart

Spec == Init /\ [][Next]_vars

-------------------------------------------------------------------------------
(* Properties.                                                               *)

(* The wrong codes a client has: max_attempts, and one when it is zero.      *)
Ceiling == IF MaxAttempts = 0 THEN 1 ELSE MaxAttempts

(* However the handshakes, lockouts, reloads and restarts interleave, the    *)
(* wrong codes judged since the last success or served lockout are at most   *)
(* max_attempts, and one more for each counted failure that a restart lost   *)
(* because its write had not landed (refresh_lockout, record_failure and     *)
(* record_success under the lock of authenticate; apply at startup).         *)
GuessesBounded ==
  /\ guesses <= live.failed + lost
  /\ live.failed <= Ceiling
  /\ live.failed >= Ceiling => live.until # 0

(* A lockout that has reached the state file is in force until its time is   *)
(* up, through every reload and every restart: while the file's window is    *)
(* open, the client in memory is locked out for at least as long.            *)
LockoutIsDurable == disk.until > now => live.until >= disk.until

(* The live step memory is never older than the one in the file, in a write  *)
(* under way or in a reload's copy: the claim newest_step rests on.          *)
StepsNeverBehindTheFile ==
  \A s \in Slot :
    /\ disk.step[s] <= live.step[s]
    /\ writing # NoSnapshot => disk.step[s] <= writing.step[s] /\ writing.step[s] <= live.step[s]
    /\ copy # NoSnapshot => copy.step[s] <= live.step[s]

(* Only a restart makes a credential forget a step: a reload that merges an  *)
(* old state file never hands a used code back (merge_auth_clients).         *)
StepsOnlyMoveForward ==
  [][crashes' = crashes => \A s \in Slot : live'.step[s] >= live.step[s]]_vars

(* A lockout that has run out is not renewed by one mistake: the attempt     *)
(* that follows it has the whole budget (refresh_lockout runs first).        *)
ExpiredLockoutRenewsBudget ==
  [][Expired(live) /\ live'.until > now => MaxAttempts <= 1]_vars
===============================================================================

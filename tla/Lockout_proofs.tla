---------------------------- MODULE Lockout_proofs ----------------------------
(***************************************************************************)
(* Proofs about Lockout, for every set of credentials, every budget, every *)
(* duration and every bound.                                               *)
(***************************************************************************)
EXTENDS Lockout, TLAPS

(* What the counter operations of auth/config/client.rs and step.rs return   *)
(* is again a set of counters.                                               *)
LEMMA CountersClosed ==
  ASSUME NEW c \in Counters, now \in 1..MaxTime
  PROVE  /\ RefreshLockout(c) \in Counters
         /\ RecordFailure(c) \in Counters
         /\ RecordSuccess(c) \in Counters
         /\ \A s \in Slot, step \in Nat : AcceptStep(c, s, step) \in Counters
         /\ \A file \in Counters : Merged(c, file) \in Counters
BY LockoutAssumption
   DEF Counters, RefreshLockout, RecordFailure, RecordSuccess, AcceptStep, Merged, NewestStep

(* A response leaves counters behind, whatever its outcome.                  *)
LEMMA JudgedType ==
  ASSUME NEW c \in Counters, NEW dirty \in BOOLEAN, TypeOK, Judged(c, dirty),
         guesses' \in Nat
  PROVE  TypeOK'
BY LockoutAssumption DEF TypeOK, Judged

LEMMA BudgetType == ASSUME TypeOK PROVE Budget \in Nat
BY DEF TypeOK, Budget

(* Every step keeps the types.                                               *)
LEMMA TypeStep == TypeOK /\ [Next]_vars => TypeOK'
<1> SUFFICES ASSUME TypeOK, [Next]_vars PROVE TypeOK'
  OBVIOUS
<1> USE LockoutAssumption
<1> DEFINE c == RefreshLockout(live)
<1>c. c \in Counters
  BY CountersClosed DEF TypeOK
<1>b. Budget \in Nat /\ Budget + 1 \in Nat
  BY BudgetType DEF TypeOK
<1>1. CASE Tick
  BY <1>1 DEF TypeOK, Tick
<1>2. CASE Refuse
  BY <1>2, <1>b, <1>c, JudgedType DEF Refuse
<1>3. ASSUME NEW s \in Slot, WrongSignature(s) PROVE TypeOK'
  BY <1>3, <1>b, <1>c, JudgedType DEF WrongSignature, Refuse
<1>4. ASSUME NEW s \in Slot, WrongCode(s) PROVE TypeOK'
  <2>1. RecordFailure(c) \in Counters
    BY <1>c, CountersClosed DEF TypeOK
  <2> QED BY <1>4, <1>b, <2>1, JudgedType DEF WrongCode
<1>5. ASSUME NEW s \in Slot, NEW step \in CurrentSteps, NEW stamped \in BOOLEAN,
             AcceptCode(s, step, stamped)
      PROVE TypeOK'
  <2> DEFINE dirty == step # c.step[s] \/ stamped \/ c.failed # 0 \/ c.until # 0
             accepted == AcceptStep(c, s, step)
  <2>1. step \in Nat
    BY DEF CurrentSteps
  <2>2. accepted \in Counters
    BY <1>c, <2>1, CountersClosed DEF TypeOK
  <2>3. RecordSuccess(accepted) \in Counters
    BY <2>2, CountersClosed DEF TypeOK
  <2>4. CASE StepRefused(c, s, step)
    <3>1. Judged(c, FALSE) /\ guesses' = Budget
      BY <1>5, <2>4 DEF AcceptCode
    <3> QED BY <3>1, <1>b, <1>c, JudgedType
  <2>5. CASE ~StepRefused(c, s, step)
    <3>1. /\ Judged(IF dirty THEN RecordSuccess(accepted) ELSE accepted, dirty)
          /\ guesses' = 0
      BY <1>5, <2>5 DEF AcceptCode
    <3>2. (IF dirty THEN RecordSuccess(accepted) ELSE accepted) \in Counters
      BY <2>2, <2>3
    <3>3. dirty \in BOOLEAN
      OBVIOUS
    <3> HIDE DEF dirty, accepted
    <3> QED BY <3>1, <3>2, <3>3, JudgedType
  <2> QED BY <2>4, <2>5
<1>6. ASSUME NEW s \in Slot, NEW stamped \in BOOLEAN, AcceptKey(s, stamped) PROVE TypeOK'
  <2> DEFINE dirty == stamped \/ c.failed # 0 \/ c.until # 0
  <2>1. Judged(IF dirty THEN RecordSuccess(c) ELSE c, dirty) /\ guesses' = 0
    BY <1>6 DEF AcceptKey
  <2>2. (IF dirty THEN RecordSuccess(c) ELSE c) \in Counters
    BY <1>c, CountersClosed DEF TypeOK
  <2>3. dirty \in BOOLEAN
    OBVIOUS
  <2> HIDE DEF dirty
  <2> QED BY <2>1, <2>2, <2>3, <1>b, JudgedType
<1>7. CASE TakeSnapshot
  BY <1>7 DEF TypeOK, TakeSnapshot
<1>8. CASE StateWritten
  BY <1>8 DEF TypeOK, StateWritten
<1>9. CASE StateNotWritten
  BY <1>9 DEF TypeOK, StateNotWritten
<1>10. CASE ReadState
  BY <1>10 DEF TypeOK, ReadState
<1>11. CASE MergeState
  <2>1. copy \in Counters
    BY <1>11 DEF TypeOK, MergeState
  <2>2. Merged(live, copy) \in Counters
    BY <2>1, CountersClosed DEF TypeOK
  <2> QED BY <1>11, <2>2 DEF TypeOK, MergeState
<1>12. CASE Restart
  <2>1. Forgotten \in Nat
    BY DEF Forgotten, TypeOK, Counters
  <2> QED BY <1>12, <2>1 DEF TypeOK, Restart, Loaded
<1>13. CASE UNCHANGED vars
  BY <1>13 DEF TypeOK, vars
<1> QED
  BY <1>1, <1>2, <1>3, <1>4, <1>5, <1>6, <1>7, <1>8, <1>9, <1>10, <1>11, <1>12, <1>13
     DEF Next, Response

(* Every variable keeps its type.                                            *)
THEOREM TypeCorrect == Spec => []TypeOK
<1>1. Init => TypeOK
  <2> SUFFICES ASSUME Init PROVE TypeOK
    OBVIOUS
  <2>1. Zero \in Counters
    BY DEF Zero, Counters
  <2> QED BY <2>1, LockoutAssumption DEF Init, TypeOK
<1> QED BY <1>1, TypeStep, PTL DEF Spec

-------------------------------------------------------------------------------
(* The budget.                                                               *)

(* Counters that earned a lockout hold one.                                  *)
Sound(c) == c.failed <= Ceiling /\ (c.failed >= Ceiling => c.until # 0)

(* The budget is kept by the counters in memory only because the file, and   *)
(* the snapshot on its way there, keep it: a restart starts from them.       *)
BudgetInv ==
  /\ guesses <= live.failed + lost
  /\ Sound(live)
  /\ Sound(disk)
  /\ writing # NoSnapshot => Sound(writing)

(* A refresh keeps counters sound, and leaves room for one more failure when *)
(* the client is not locked out.                                             *)
LEMMA RefreshSound ==
  ASSUME TypeOK, Sound(live)
  PROVE  /\ Sound(RefreshLockout(live))
         /\ Budget <= RefreshLockout(live).failed + lost \/ ~(guesses <= live.failed + lost)
         /\ ~IsLockedOut(RefreshLockout(live)) =>
              /\ Sound(RecordFailure(RefreshLockout(live)))
              /\ RecordFailure(RefreshLockout(live)).failed = RefreshLockout(live).failed + 1
BY LockoutAssumption
   DEF TypeOK, Counters, Sound, Ceiling, RefreshLockout, RecordFailure, IsLockedOut, Expired, Budget

(* A success clears the count.                                               *)
LEMMA SuccessSound ==
  ASSUME NEW c \in Counters, NEW s \in Slot, NEW step \in Nat, Sound(c)
  PROVE  /\ Sound(RecordSuccess(c))
         /\ Sound(AcceptStep(c, s, step))
         /\ Sound(RecordSuccess(AcceptStep(c, s, step)))
BY LockoutAssumption DEF Counters, Sound, Ceiling, RecordSuccess, AcceptStep

(* A response that leaves sound counters, and no more guesses than they      *)
(* show, keeps the invariant.                                                *)
LEMMA JudgedBudget ==
  ASSUME NEW c \in Counters, NEW dirty \in BOOLEAN, BudgetInv, Judged(c, dirty),
         Sound(c), guesses' <= c.failed + lost
  PROVE  BudgetInv'
BY DEF BudgetInv, Judged, Sound, Ceiling

LEMMA BudgetStep == TypeOK /\ TypeOK' /\ BudgetInv /\ [Next]_vars => BudgetInv'
<1> SUFFICES ASSUME TypeOK, TypeOK', BudgetInv, [Next]_vars PROVE BudgetInv'
  OBVIOUS
<1> USE LockoutAssumption
<1> DEFINE c == RefreshLockout(live)
<1>c. c \in Counters /\ c.failed \in Nat /\ lost \in Nat
  BY CountersClosed DEF TypeOK, Counters
<1>b. Sound(c) /\ Budget <= c.failed + lost /\ Budget \in Nat
  BY RefreshSound, BudgetType DEF BudgetInv
<1>1. CASE Tick
  BY <1>1 DEF BudgetInv, Tick, Sound, Ceiling
<1>2. CASE Refuse
  BY <1>2, <1>b, <1>c, JudgedBudget DEF Refuse
<1>3. ASSUME NEW s \in Slot, WrongSignature(s) PROVE BudgetInv'
  BY <1>3, <1>b, <1>c, JudgedBudget DEF WrongSignature, Refuse
<1>4. ASSUME NEW s \in Slot, WrongCode(s) PROVE BudgetInv'
  <2>1. /\ ~IsLockedOut(c)
        /\ Judged(RecordFailure(c), TRUE)
        /\ guesses' = Budget + 1
    BY <1>4 DEF WrongCode
  <2>2. RecordFailure(c) \in Counters
    BY <1>c, CountersClosed DEF TypeOK
  <2>3. Sound(RecordFailure(c)) /\ RecordFailure(c).failed = c.failed + 1
    BY <2>1, RefreshSound DEF BudgetInv
  <2>4. guesses' <= RecordFailure(c).failed + lost
    <3> HIDE DEF c
    <3> QED BY <2>1, <2>3, <1>b, <1>c
  <2> QED BY <2>1, <2>2, <2>3, <2>4, JudgedBudget
<1>5. ASSUME NEW s \in Slot, NEW step \in CurrentSteps, NEW stamped \in BOOLEAN,
             AcceptCode(s, step, stamped)
      PROVE BudgetInv'
  <2> DEFINE dirty == step # c.step[s] \/ stamped \/ c.failed # 0 \/ c.until # 0
             accepted == AcceptStep(c, s, step)
             after == IF dirty THEN RecordSuccess(accepted) ELSE accepted
  <2>1. step \in Nat
    BY DEF CurrentSteps
  <2>2. accepted \in Counters
    BY <1>c, <2>1, CountersClosed DEF TypeOK
  <2>3. RecordSuccess(accepted) \in Counters
    BY <2>2, CountersClosed DEF TypeOK
  <2>4. CASE StepRefused(c, s, step)
    <3>1. Judged(c, FALSE) /\ guesses' = Budget
      BY <1>5, <2>4 DEF AcceptCode
    <3> QED BY <3>1, <1>b, <1>c, JudgedBudget
  <2>5. CASE ~StepRefused(c, s, step)
    <3>1. Judged(after, dirty) /\ guesses' = 0
      BY <1>5, <2>5 DEF AcceptCode
    <3>2. after \in Counters
      BY <2>2, <2>3
    <3>3. Sound(after)
      BY <1>b, <1>c, <2>1, SuccessSound
    <3>4. dirty \in BOOLEAN
      OBVIOUS
    <3>5. 0 <= after.failed + lost
      <4> HIDE DEF after
      <4> QED BY <3>2, <1>c DEF Counters
    <3> HIDE DEF dirty, after
    <3> QED BY <3>1, <3>2, <3>3, <3>4, <3>5, JudgedBudget
  <2> QED BY <2>4, <2>5
<1>6. ASSUME NEW s \in Slot, NEW stamped \in BOOLEAN, AcceptKey(s, stamped) PROVE BudgetInv'
  <2> DEFINE dirty == stamped \/ c.failed # 0 \/ c.until # 0
             after == IF dirty THEN RecordSuccess(c) ELSE c
  <2>1. Judged(after, dirty) /\ guesses' = 0
    BY <1>6 DEF AcceptKey
  <2>2. after \in Counters
    BY <1>c, CountersClosed DEF TypeOK
  <2>3. Sound(after)
    BY <1>b, <1>c, SuccessSound
  <2>4. dirty \in BOOLEAN
    OBVIOUS
  <2>5. 0 <= after.failed + lost
    <3> HIDE DEF after
    <3> QED BY <2>2, <1>c DEF Counters
  <2> HIDE DEF dirty, after
  <2> QED BY <2>1, <2>2, <2>3, <2>4, <2>5, JudgedBudget
<1>7. CASE TakeSnapshot
  BY <1>7 DEF BudgetInv, TakeSnapshot, Sound, Ceiling
<1>8. CASE StateWritten
  BY <1>8 DEF BudgetInv, StateWritten, Sound, Ceiling
<1>9. CASE StateNotWritten
  BY <1>9 DEF BudgetInv, StateNotWritten, Sound, Ceiling
<1>10. CASE ReadState
  BY <1>10 DEF BudgetInv, ReadState, Sound, Ceiling
<1>11. CASE MergeState
  BY <1>11 DEF BudgetInv, MergeState, Merged, Sound, Ceiling
<1>12. CASE Restart
  BY <1>12 DEF BudgetInv, Restart, Loaded, Forgotten, Sound, Ceiling, TypeOK, Counters
<1>13. CASE UNCHANGED vars
  BY <1>13 DEF BudgetInv, Sound, Ceiling, vars
<1> QED
  BY <1>1, <1>2, <1>3, <1>4, <1>5, <1>6, <1>7, <1>8, <1>9, <1>10, <1>11, <1>12, <1>13
     DEF Next, Response

(* The wrong codes judged since the budget was last renewed never exceed it, *)
(* but for those a restart lost before their write landed.                   *)
THEOREM BudgetIsKept == Spec => []GuessesBounded
<1>1. Init => BudgetInv
  BY LockoutAssumption DEF Init, BudgetInv, Zero, Sound, Ceiling
<1>2. BudgetInv => GuessesBounded
  BY DEF BudgetInv, GuessesBounded, Sound
<1> QED BY <1>1, <1>2, TypeCorrect, BudgetStep, PTL DEF Spec

-------------------------------------------------------------------------------
(* Lockouts across reloads and restarts.                                     *)

(* A lockout in the file is in force only because the snapshot on its way    *)
(* there was: it must not be older than what memory has moved to since.      *)
DurableInv ==
  /\ disk.until > now => live.until >= disk.until
  /\ writing # NoSnapshot /\ writing.until > now => live.until >= writing.until

(* Judging a response shortens no lockout that is in force.                  *)
LEMMA JudgedDurable ==
  ASSUME NEW c \in Counters, NEW dirty \in BOOLEAN, TypeOK, DurableInv, Judged(c, dirty),
         live.until > now => c.until >= live.until
  PROVE  DurableInv'
BY DEF TypeOK, Counters, DurableInv, Judged

(* A refresh lifts no lockout that is in force.                              *)
LEMMA RefreshKeeps ==
  ASSUME TypeOK
  PROVE  /\ live.until > now => RefreshLockout(live).until >= live.until
         /\ ~IsLockedOut(RefreshLockout(live)) => ~(live.until > now)
BY DEF TypeOK, Counters, RefreshLockout, IsLockedOut, Expired

LEMMA DurableStep == TypeOK /\ TypeOK' /\ DurableInv /\ [Next]_vars => DurableInv'
<1> SUFFICES ASSUME TypeOK, TypeOK', DurableInv, [Next]_vars PROVE DurableInv'
  OBVIOUS
<1> USE LockoutAssumption
<1> DEFINE c == RefreshLockout(live)
<1>c. c \in Counters
  BY CountersClosed DEF TypeOK
<1>1. CASE Tick
  BY <1>1 DEF DurableInv, Tick, TypeOK, Counters
<1>2. CASE Refuse
  BY <1>2, <1>c, RefreshKeeps, JudgedDurable DEF Refuse
<1>3. ASSUME NEW s \in Slot, WrongSignature(s) PROVE DurableInv'
  BY <1>3, <1>c, RefreshKeeps, JudgedDurable DEF WrongSignature, Refuse
<1>4. ASSUME NEW s \in Slot, WrongCode(s) PROVE DurableInv'
  <2>1. RecordFailure(c) \in Counters
    BY <1>c, CountersClosed DEF TypeOK
  <2>2. ~(live.until > now)
    BY <1>4, RefreshKeeps DEF WrongCode
  <2> QED BY <1>4, <2>1, <2>2, JudgedDurable DEF WrongCode
<1>5. ASSUME NEW s \in Slot, NEW step \in CurrentSteps, NEW stamped \in BOOLEAN,
             AcceptCode(s, step, stamped)
      PROVE DurableInv'
  <2> DEFINE dirty == step # c.step[s] \/ stamped \/ c.failed # 0 \/ c.until # 0
             accepted == AcceptStep(c, s, step)
             after == IF dirty THEN RecordSuccess(accepted) ELSE accepted
  <2>1. step \in Nat
    BY DEF CurrentSteps
  <2>2. ~(live.until > now)
    BY <1>5, RefreshKeeps DEF AcceptCode
  <2>3. accepted \in Counters
    BY <1>c, <2>1, CountersClosed DEF TypeOK
  <2>4. RecordSuccess(accepted) \in Counters
    BY <2>3, CountersClosed DEF TypeOK
  <2>5. CASE StepRefused(c, s, step)
    <3>1. Judged(c, FALSE)
      BY <1>5, <2>5 DEF AcceptCode
    <3> QED BY <3>1, <1>c, <2>2, JudgedDurable
  <2>6. CASE ~StepRefused(c, s, step)
    <3>1. Judged(after, dirty)
      BY <1>5, <2>6 DEF AcceptCode
    <3>2. after \in Counters /\ dirty \in BOOLEAN
      BY <2>3, <2>4
    <3> HIDE DEF dirty, after
    <3> QED BY <3>1, <3>2, <2>2, JudgedDurable
  <2> QED BY <2>5, <2>6
<1>6. ASSUME NEW s \in Slot, NEW stamped \in BOOLEAN, AcceptKey(s, stamped) PROVE DurableInv'
  <2> DEFINE dirty == stamped \/ c.failed # 0 \/ c.until # 0
             after == IF dirty THEN RecordSuccess(c) ELSE c
  <2>1. Judged(after, dirty)
    BY <1>6 DEF AcceptKey
  <2>2. ~(live.until > now)
    BY <1>6, RefreshKeeps DEF AcceptKey
  <2>3. after \in Counters /\ dirty \in BOOLEAN
    BY <1>c, CountersClosed DEF TypeOK
  <2> HIDE DEF dirty, after
  <2> QED BY <2>1, <2>2, <2>3, JudgedDurable
<1>7. CASE TakeSnapshot
  BY <1>7 DEF DurableInv, TakeSnapshot, TypeOK, Counters
<1>8. CASE StateWritten
  BY <1>8 DEF DurableInv, StateWritten
<1>9. CASE StateNotWritten
  BY <1>9 DEF DurableInv, StateNotWritten
<1>10. CASE ReadState
  BY <1>10 DEF DurableInv, ReadState
<1>11. CASE MergeState
  BY <1>11 DEF DurableInv, MergeState, Merged
<1>12. CASE Restart
  BY <1>12 DEF DurableInv, Restart, Loaded, TypeOK, Counters
<1>13. CASE UNCHANGED vars
  BY <1>13 DEF DurableInv, vars
<1> QED
  BY <1>1, <1>2, <1>3, <1>4, <1>5, <1>6, <1>7, <1>8, <1>9, <1>10, <1>11, <1>12, <1>13
     DEF Next, Response

(* A lockout that reached the state file stays in force until its time is up.*)
THEOREM LockoutsAreDurable == Spec => []LockoutIsDurable
<1>1. Init => DurableInv
  BY DEF Init, DurableInv, Zero
<1>2. DurableInv => LockoutIsDurable
  BY DEF DurableInv, LockoutIsDurable
<1> QED BY <1>1, <1>2, TypeCorrect, DurableStep, PTL DEF Spec

(* No step renews a lockout that has run out, unless it is a mistake and one *)
(* mistake is the whole budget.                                              *)
LEMMA RenewalStep ==
  ASSUME TypeOK, DurableInv, Next, Expired(live), live'.until > now
  PROVE  MaxAttempts <= 1
<1> USE LockoutAssumption
<1> DEFINE c == RefreshLockout(live)
<1>c. c = [failed |-> 0, until |-> 0, step |-> live.step]
  BY DEF RefreshLockout
<1>n. now \in Nat /\ ~(live.until > now)
  BY DEF TypeOK, Counters, Expired
<1>1. ~Tick /\ ~TakeSnapshot /\ ~StateWritten /\ ~StateNotWritten /\ ~ReadState
  BY <1>n DEF Tick, TakeSnapshot, StateWritten, StateNotWritten, ReadState
<1>2. ~MergeState
  BY <1>n DEF MergeState, Merged
<1>3. ~Refuse
  BY <1>c, <1>n DEF Refuse, Judged
<1>4. ASSUME NEW s \in Slot PROVE ~WrongSignature(s)
  BY <1>3 DEF WrongSignature
<1>5. ASSUME NEW s \in Slot, NEW stamped \in BOOLEAN PROVE ~AcceptKey(s, stamped)
  BY <1>c, <1>n DEF AcceptKey, Judged, RecordSuccess
<1>6. ASSUME NEW s \in Slot, NEW step \in CurrentSteps, NEW stamped \in BOOLEAN
      PROVE ~AcceptCode(s, step, stamped)
  BY <1>c, <1>n DEF AcceptCode, Judged, RecordSuccess, AcceptStep
<1>7. ~Restart
  BY <1>n DEF Restart, Loaded, DurableInv, TypeOK, Counters
<1>8. ASSUME NEW s \in Slot, WrongCode(s) PROVE MaxAttempts <= 1
  <2>1. live' = RecordFailure(c)
    BY <1>8 DEF WrongCode, Judged
  <2> QED BY <2>1, <1>c, <1>n DEF RecordFailure
<1> QED BY <1>1, <1>2, <1>3, <1>4, <1>5, <1>6, <1>7, <1>8 DEF Next, Response

(* A lockout that has run out is not renewed by the next mistake: refreshing *)
(* the counters before judging a response gives the whole budget back.       *)
THEOREM BudgetIsRenewed == Spec => ExpiredLockoutRenewsBudget
<1>1. Init => DurableInv
  BY DEF Init, DurableInv, Zero
<1>2. TypeOK /\ DurableInv /\ [Next]_vars =>
        [Expired(live) /\ live'.until > now => MaxAttempts <= 1]_vars
  BY RenewalStep
<1> QED BY <1>1, <1>2, TypeCorrect, DurableStep, PTL DEF Spec, ExpiredLockoutRenewsBudget

-------------------------------------------------------------------------------
(* The step memory.                                                          *)

(* A response never takes a credential's step memory back.                   *)
LEMMA JudgedSteps ==
  ASSUME NEW c \in Counters, NEW dirty \in BOOLEAN, TypeOK, Judged(c, dirty),
         \A s \in Slot : live.step[s] <= c.step[s]
  PROVE  /\ \A s \in Slot : live'.step[s] >= live.step[s]
         /\ StepsNeverBehindTheFile => StepsNeverBehindTheFile'
<1>1. \A s \in Slot : c.step[s] \in Nat /\ live.step[s] \in Nat /\ disk.step[s] \in Nat
  BY DEF TypeOK, Counters
<1>2. /\ writing # NoSnapshot => \A s \in Slot : writing.step[s] \in Nat
      /\ copy # NoSnapshot => \A s \in Slot : copy.step[s] \in Nat
  BY DEF TypeOK, Counters
<1>3. live' = c /\ disk' = disk /\ writing' = writing /\ copy' = copy
  BY DEF Judged
<1> QED BY <1>1, <1>2, <1>3 DEF StepsNeverBehindTheFile

(* The operations on counters that are not about steps leave them alone.     *)
LEMMA StepsKept ==
  ASSUME NEW c \in Counters
  PROVE  RefreshLockout(c).step = c.step /\ RecordFailure(c).step = c.step
         /\ RecordSuccess(c).step = c.step
BY DEF RefreshLockout, RecordFailure, RecordSuccess

(* What a step may do to the step memory: only a restart takes it back.      *)
StepMemory ==
  /\ crashes' = crashes => \A s \in Slot : live'.step[s] >= live.step[s]
  /\ StepsNeverBehindTheFile'

LEMMA StepMemoryStep ==
  TypeOK /\ TypeOK' /\ StepsNeverBehindTheFile /\ [Next]_vars => StepMemory
<1> SUFFICES ASSUME TypeOK, TypeOK', StepsNeverBehindTheFile, [Next]_vars PROVE StepMemory
  OBVIOUS
<1> USE LockoutAssumption
<1> DEFINE c == RefreshLockout(live)
<1>c. c \in Counters /\ live \in Counters
  BY CountersClosed DEF TypeOK
<1>t. \A s \in Slot : live.step[s] \in Nat /\ disk.step[s] \in Nat
  BY DEF TypeOK, Counters
<1>w. /\ writing # NoSnapshot => \A s \in Slot : writing.step[s] \in Nat
      /\ copy # NoSnapshot => \A s \in Slot : copy.step[s] \in Nat
  BY DEF TypeOK, Counters
<1>s. c.step = live.step
  BY <1>c, StepsKept
<1>l. \A s \in Slot : live.step[s] <= c.step[s]
  BY <1>s, <1>t
<1>1. CASE Tick
  BY <1>1, <1>t DEF StepMemory, StepsNeverBehindTheFile, Tick
<1>2. CASE Refuse
  BY <1>2, <1>c, <1>l, JudgedSteps DEF Refuse, StepMemory
<1>3. ASSUME NEW s \in Slot, WrongSignature(s) PROVE StepMemory
  BY <1>3, <1>c, <1>l, JudgedSteps DEF WrongSignature, Refuse, StepMemory
<1>4. ASSUME NEW s \in Slot, WrongCode(s) PROVE StepMemory
  <2>1. RecordFailure(c) \in Counters
    BY <1>c, CountersClosed DEF TypeOK
  <2>2. RecordFailure(c).step = c.step
    BY <1>c, StepsKept
  <2>3. Judged(RecordFailure(c), TRUE)
    BY <1>4 DEF WrongCode
  <2> QED BY <2>1, <2>2, <2>3, <1>l, JudgedSteps DEF StepMemory
<1>5. ASSUME NEW s \in Slot, NEW step \in CurrentSteps, NEW stamped \in BOOLEAN,
             AcceptCode(s, step, stamped)
      PROVE StepMemory
  <2> DEFINE dirty == step # c.step[s] \/ stamped \/ c.failed # 0 \/ c.until # 0
             accepted == AcceptStep(c, s, step)
             after == IF dirty THEN RecordSuccess(accepted) ELSE accepted
  <2>1. step \in Nat
    BY DEF CurrentSteps
  <2>2. CASE StepRefused(c, s, step)
    <3>1. Judged(c, FALSE)
      BY <1>5, <2>2 DEF AcceptCode
    <3> QED BY <3>1, <1>c, <1>l, JudgedSteps DEF StepMemory
  <2>3. CASE ~StepRefused(c, s, step)
    <3>1. Judged(after, dirty)
      BY <1>5, <2>3 DEF AcceptCode
    <3>2. accepted \in Counters
      BY <1>c, <2>1, CountersClosed DEF TypeOK
    <3>3. RecordSuccess(accepted) \in Counters /\ RecordSuccess(accepted).step = accepted.step
      BY <3>2, CountersClosed, StepsKept DEF TypeOK
    <3>4. after \in Counters /\ dirty \in BOOLEAN /\ after.step = accepted.step
      BY <3>2, <3>3
    <3>5. ~(step < live.step[s])
      BY <2>3, <1>s DEF StepRefused
    <3>6. accepted.step = [live.step EXCEPT ![s] = step]
      BY <1>s DEF AcceptStep
    <3>7. live.step \in [Slot -> Nat]
      BY DEF TypeOK, Counters
    <3>8. \A r \in Slot : live.step[r] <= accepted.step[r]
      <4> HIDE DEF accepted, c
      <4> QED BY <3>5, <3>6, <3>7, <2>1
    <3> HIDE DEF dirty, after, accepted
    <3> QED BY <3>1, <3>4, <3>8, JudgedSteps DEF StepMemory
  <2> QED BY <2>2, <2>3
<1>6. ASSUME NEW s \in Slot, NEW stamped \in BOOLEAN, AcceptKey(s, stamped) PROVE StepMemory
  <2> DEFINE dirty == stamped \/ c.failed # 0 \/ c.until # 0
             after == IF dirty THEN RecordSuccess(c) ELSE c
  <2>1. Judged(after, dirty)
    BY <1>6 DEF AcceptKey
  <2>2. after \in Counters /\ dirty \in BOOLEAN /\ after.step = c.step
    BY <1>c, CountersClosed, StepsKept DEF TypeOK
  <2> HIDE DEF dirty, after
  <2> QED BY <2>1, <2>2, <1>l, JudgedSteps DEF StepMemory
<1>7. CASE TakeSnapshot
  BY <1>7, <1>t DEF StepMemory, StepsNeverBehindTheFile, TakeSnapshot
<1>8. CASE StateWritten
  BY <1>8, <1>t DEF StepMemory, StepsNeverBehindTheFile, StateWritten
<1>9. CASE StateNotWritten
  BY <1>9, <1>t DEF StepMemory, StepsNeverBehindTheFile, StateNotWritten
<1>10. CASE ReadState
  BY <1>10, <1>t DEF StepMemory, StepsNeverBehindTheFile, ReadState
<1>11. CASE MergeState
  <2>1. \A s \in Slot : live'.step[s] = NewestStep(live.step[s], copy.step[s])
    BY <1>11 DEF MergeState, Merged
  <2>2. \A s \in Slot : live'.step[s] = live.step[s]
    BY <2>1, <1>11, <1>t, <1>w DEF NewestStep, MergeState, StepsNeverBehindTheFile
  <2> QED BY <1>11, <2>2, <1>t, <1>w DEF StepMemory, StepsNeverBehindTheFile, MergeState
<1>12. CASE Restart
  <2>1. crashes' # crashes
    BY <1>12 DEF Restart, TypeOK
  <2> QED BY <1>12, <2>1, <1>t DEF StepMemory, StepsNeverBehindTheFile, Restart, Loaded
<1>13. CASE UNCHANGED vars
  BY <1>13, <1>t DEF StepMemory, StepsNeverBehindTheFile, vars
<1> QED
  BY <1>1, <1>2, <1>3, <1>4, <1>5, <1>6, <1>7, <1>8, <1>9, <1>10, <1>11, <1>12, <1>13
     DEF Next, Response

(* The step memory in memory is never older than the file's: the claim       *)
(* newest_step rests on, which makes the merge of a reload harmless.         *)
THEOREM StepMemoryLeads == Spec => []StepsNeverBehindTheFile
<1>1. Init => StepsNeverBehindTheFile
  <2> SUFFICES ASSUME Init, NEW s \in Slot
               PROVE  disk.step[s] <= live.step[s] /\ writing = NoSnapshot /\ copy = NoSnapshot
    BY Zenon DEF StepsNeverBehindTheFile
  <2>1. disk.step[s] = 0 /\ live.step[s] = 0
    BY DEF Init, Zero
  <2> QED BY <2>1 DEF Init
<1>2. TypeOK /\ TypeOK' /\ StepsNeverBehindTheFile /\ [Next]_vars => StepsNeverBehindTheFile'
  BY StepMemoryStep DEF StepMemory
<1> QED BY <1>1, <1>2, TypeCorrect, PTL DEF Spec

(* Only a restart makes a credential forget a step it has accepted.          *)
THEOREM OnlyRestartsForget == Spec => StepsOnlyMoveForward
<1>1. TypeOK /\ TypeOK' /\ StepsNeverBehindTheFile /\ [Next]_vars =>
        [crashes' = crashes => \A s \in Slot : live'.step[s] >= live.step[s]]_vars
  BY StepMemoryStep DEF StepMemory
<1> QED BY <1>1, StepMemoryLeads, TypeCorrect, PTL DEF Spec, StepsOnlyMoveForward
===============================================================================

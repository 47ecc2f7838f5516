------------------------- MODULE InviteCounters_proofs -------------------------
(***************************************************************************)
(* Proofs about InviteCounters, for any limit and any number of tokens.    *)
(***************************************************************************)
EXTENDS InviteCounters, TLAPS

(* A counter that is paid for: no more than the guesses at its token, and    *)
(* nothing without a token.                                                  *)
Paid(failed, token) ==
  /\ failed <= guesses[token]
  /\ token = NoToken => failed = 0

PaidInv ==
  /\ Paid(live.failed, live.token)
  /\ Paid(disk.failed, disk.print)
  /\ Paid(writing.failed, writing.print)

LEMMA NoTokenIsToken == NoToken \in Token
BY InviteCountersAssumption DEF Token, NoToken

LEMMA NothingIsState == Nothing \in State
BY NoTokenIsToken DEF Nothing, State

LEMMA TypeInit == Init => TypeOK
<1> SUFFICES ASSUME Init PROVE TypeOK
  OBVIOUS
<1>1. saving \in BOOLEAN
  BY Zenon DEF Init
<1>2. disk = Nothing /\ writing = Nothing
  BY DEF Init
<1>3. disk \in State /\ writing \in State
  BY <1>2, NothingIsState
<1>4. guesses \in [Token -> Nat]
  BY DEF Init
<1>5. file \in Token /\ live \in Live /\ invites \in Token
  BY NoTokenIsToken DEF Init, Live, NoToken
<1> QED BY <1>1, <1>2, <1>3, <1>4, <1>5 DEF TypeOK

(* A snapshot is a state of the state file.                                  *)
LEMMA SnapshotType ==
  ASSUME TypeOK
  PROVE  Snapshot \in State /\ (Snapshot.failed = 0 => Snapshot = Nothing)
BY NothingIsState DEF TypeOK, Snapshot, Live, State

LEMMA TypeStep == TypeOK /\ [Next]_vars => TypeOK'
<1> SUFFICES ASSUME TypeOK, [Next]_vars PROVE TypeOK'
  OBVIOUS
<1> USE InviteCountersAssumption, NoTokenIsToken
<1>1. CASE UNCHANGED vars
  BY <1>1 DEF vars, TypeOK
<1>2. CASE Invite
  BY <1>2 DEF Invite, stateFile, TypeOK, Token
<1>3. CASE Uninvite
  BY <1>3 DEF Uninvite, stateFile, TypeOK
<1>4. CASE Guess
  BY <1>4 DEF Guess, stateFile, TypeOK, Live
<1>5. CASE RefreshEnrollmentLockout
  BY <1>5 DEF RefreshEnrollmentLockout, stateFile, TypeOK, Live
<1>6. CASE Spend
  <2>1. PICK cleared \in BOOLEAN : live' = Spent(cleared)
    BY <1>6 DEF Spend
  <2>2. live' \in Live
    BY <2>1 DEF Spent, TypeOK, Live
  <2> QED BY <1>6, <2>2 DEF Spend, stateFile, TypeOK
<1>7. CASE Reload
  BY <1>7 DEF Reload, Merged, stateFile, TypeOK, Live
<1>8. CASE TakeSnapshot
  <2>1. saving' \in BOOLEAN
    BY <1>8, Zenon DEF TakeSnapshot
  <2> QED BY <1>8, <2>1, SnapshotType DEF TakeSnapshot, TypeOK
<1>9. CASE SnapshotWritten
  <2>1. saving' \in BOOLEAN
    BY <1>9, Zenon DEF SnapshotWritten
  <2> QED BY <1>9, <2>1 DEF SnapshotWritten, TypeOK
<1>10. CASE Restart
  <2>1. saving' \in BOOLEAN
    BY <1>10, Zenon DEF Restart
  <2>2. live' \in Live
    BY <1>10 DEF Restart, Applied, TypeOK, Live, State
  <2> QED BY <1>10, <2>1, <2>2 DEF Restart, TypeOK
<1> QED BY <1>1, <1>2, <1>3, <1>4, <1>5, <1>6, <1>7, <1>8, <1>9, <1>10 DEF Next

(* The variables keep their types, and a fingerprint is never alone.         *)
THEOREM TypeCorrect == Spec => []TypeOK
BY TypeInit, TypeStep, PTL DEF Spec

LEMMA PaidInit == Init => PaidInv
<1> SUFFICES ASSUME Init PROVE PaidInv
  OBVIOUS
<1> QED BY NoTokenIsToken DEF Init, PaidInv, Paid, Nothing

(* What was paid for stays paid for: guesses are never taken back.           *)
LEMMA PaidStays ==
  ASSUME TypeOK, NEW failed \in Nat, NEW token \in Token, Paid(failed, token),
         guesses' \in [Token -> Nat],
         \A t \in Token : guesses'[t] >= guesses[t]
  PROVE  failed <= guesses'[token] /\ (token = NoToken => failed = 0)
BY DEF TypeOK, Paid

LEMMA PaidStep == ~SlowDisk /\ TypeOK /\ PaidInv /\ [Next]_vars => PaidInv'
<1> SUFFICES ASSUME ~SlowDisk, TypeOK, PaidInv, [Next]_vars PROVE PaidInv'
  OBVIOUS
<1> USE NoTokenIsToken
<1>1. CASE UNCHANGED vars
  BY <1>1 DEF vars, PaidInv, Paid
<1>2. CASE Invite
  BY <1>2 DEF Invite, stateFile, PaidInv, Paid
<1>3. CASE Uninvite
  BY <1>3 DEF Uninvite, stateFile, PaidInv, Paid
<1>4. CASE Guess
  <2>1. /\ live' = [token |-> live.token, failed |-> live.failed + 1]
        /\ guesses' = [guesses EXCEPT ![live.token] = @ + 1]
        /\ UNCHANGED <<disk, writing>>
        /\ live.token # NoToken
    BY <1>4 DEF Guess, stateFile
  <2>2. live.token \in Token /\ live.failed \in Nat
    BY DEF TypeOK, Live
  <2>3. guesses' \in [Token -> Nat] /\ \A t \in Token : guesses'[t] >= guesses[t]
    BY <2>1, <2>2 DEF TypeOK
  <2>4. Paid(live.failed, live.token)'
    BY <2>1, <2>2 DEF TypeOK, PaidInv, Paid
  <2>5. Paid(disk.failed, disk.print)'
    BY <2>1, <2>3, PaidStays DEF TypeOK, State, PaidInv, Paid
  <2>6. Paid(writing.failed, writing.print)'
    BY <2>1, <2>3, PaidStays DEF TypeOK, State, PaidInv, Paid
  <2> QED BY <2>4, <2>5, <2>6 DEF PaidInv
<1>5. CASE RefreshEnrollmentLockout
  BY <1>5 DEF RefreshEnrollmentLockout, stateFile, TypeOK, Live, PaidInv, Paid
<1>6. CASE Spend
  <2>1. live' = [token |-> NoToken, failed |-> 0]
    BY <1>6 DEF Spend, Spent
  <2> QED BY <1>6, <2>1 DEF Spend, stateFile, TypeOK, PaidInv, Paid
<1>7. CASE Reload
  BY <1>7 DEF Reload, Merged, stateFile, TypeOK, Live, PaidInv, Paid
<1>8. CASE TakeSnapshot
  <2>1. Paid(Snapshot.failed, Snapshot.print)
    BY DEF TypeOK, Live, Snapshot, Nothing, PaidInv, Paid
  <2> QED BY <1>8, <2>1 DEF TakeSnapshot, PaidInv, Paid
<1>9. CASE SnapshotWritten
  BY <1>9 DEF SnapshotWritten, PaidInv, Paid
<1>10. CASE Restart
  BY <1>10 DEF Restart, Applied, BelongsToThisToken, TypeOK, State, PaidInv, Paid
<1> QED BY <1>1, <1>2, <1>3, <1>4, <1>5, <1>6, <1>7, <1>8, <1>9, <1>10 DEF Next

(* As long as the disk answers before the handshake deadline, a token pays   *)
(* only for the guesses at it, over any number of reloads, late writes of    *)
(* the state file and restarts.                                              *)
THEOREM TokensPayForThemselves ==
  ASSUME ~SlowDisk PROVE Spec => []GuessesArePaidByTheirToken
<1>1. PaidInv => GuessesArePaidByTheirToken
  BY DEF PaidInv, Paid, GuessesArePaidByTheirToken
<1> QED BY <1>1, TypeInit, TypeStep, PaidInit, PaidStep, PTL DEF Spec
===============================================================================

---------------------------- MODULE InviteCounters ----------------------------
(***************************************************************************)
(* Who pays for a wrong guess at an enrollment token.                      *)
(*                                                                         *)
(* A wrong guess moves a counter of the client's that belongs to the       *)
(* pending token, and enough of them lock enrollment for a while.  The     *)
(* counter lives in memory, is written to the state file with a            *)
(* fingerprint of the token, and is applied on the next start.  Tokens are *)
(* replaced in the configuration file, by another process, so the counter  *)
(* must not follow the client from one token to the next: not over a       *)
(* reload, a spent token, a late write of the state file or a restart.     *)
(*                                                                         *)
(* The lockout is the counter at its limit; how long it lasts is the       *)
(* subject of Lockout.  How the token is spent is the subject of           *)
(* Enrollment.                                                             *)
(***************************************************************************)
EXTENDS Naturals

CONSTANTS
  MaxAttempts,   \* [auth] max_attempts
  MaxInvites,    \* bound on the tokens the operator issues
  MaxGuesses,    \* bound on the wrong guesses at each token
  SlowDisk       \* may the handshake deadline fire while a token is being spent

ASSUME InviteCountersAssumption ==
  /\ MaxAttempts \in Nat /\ MaxInvites \in Nat /\ MaxGuesses \in Nat
  /\ SlowDisk \in BOOLEAN

(* Tokens are numbered as they are issued; 0 is no token.                    *)
Token == 0..MaxInvites
NoToken == 0

VARIABLES
  file,      \* pending_enrollment in config.toml
  invites,   \* the tokens issued so far are 1..invites
  live,      \* the pending token in memory and the counter
  disk,      \* the counter in the state file and the fingerprint beside it
  writing,   \* the snapshot on its way there
  saving,    \* is a snapshot on its way
  guesses    \* history: the wrong guesses at each token

vars == <<file, invites, live, disk, writing, saving, guesses>>
stateFile == <<disk, writing, saving>>

Live == [token : Token, failed : Nat]
State == [failed : Nat, print : Token]
Nothing == [failed |-> 0, print |-> NoToken]

(* Every variable has its type.  A fingerprint in the state file is always   *)
(* beside a counter: "a fingerprint without a counter behind it binds        *)
(* nothing".                                                                 *)
TypeOK ==
  /\ file \in Token
  /\ invites \in Token
  /\ live \in Live
  /\ disk \in State
  /\ writing \in State
  /\ saving \in BOOLEAN
  /\ guesses \in [Token -> Nat]
  /\ disk.failed = 0 => disk = Nothing
  /\ writing.failed = 0 => writing = Nothing

Init ==
  /\ file = NoToken
  /\ invites = 0
  /\ live = [token |-> NoToken, failed |-> 0]
  /\ disk = Nothing
  /\ writing = Nothing
  /\ saving = FALSE
  /\ guesses = [t \in Token |-> 0]

-------------------------------------------------------------------------------
(* The operator replaces the pending token, or deletes it.                   *)
Invite ==
  /\ invites < MaxInvites
  /\ invites' = invites + 1
  /\ file' = invites + 1
  /\ UNCHANGED <<live, stateFile, guesses>>

Uninvite ==
  /\ file # NoToken
  /\ file' = NoToken
  /\ UNCHANGED <<invites, live, stateFile, guesses>>

-------------------------------------------------------------------------------
(* ENROLL_START at a pending token that is not locked out.                   *)
IsEnrollmentLockedOut == live.failed # 0 /\ live.failed >= MaxAttempts

(* count_enrollment_failure.                                                 *)
Guess ==
  /\ live.token # NoToken
  /\ ~IsEnrollmentLockedOut
  /\ guesses[live.token] < MaxGuesses
  /\ live' = [token |-> live.token, failed |-> live.failed + 1]
  /\ guesses' = [guesses EXCEPT ![live.token] = @ + 1]
  /\ UNCHANGED <<file, invites, stateFile>>

(* refresh_enrollment_lockout, once the time has run out.                    *)
RefreshEnrollmentLockout ==
  /\ IsEnrollmentLockedOut
  /\ live' = [token |-> live.token, failed |-> 0]
  /\ UNCHANGED <<file, invites, stateFile, guesses>>

(* issue_enrolled_secret drops the token, record_enrollment_success clears   *)
(* its counter, unless the deadline dropped the handshake between the two.   *)
Spent(cleared) == [token |-> NoToken, failed |-> IF cleared THEN 0 ELSE live.failed]

(* The token is spent in memory and in the file.                             *)
Spend ==
  /\ live.token # NoToken
  /\ ~IsEnrollmentLockedOut
  /\ \E cleared \in BOOLEAN : (cleared \/ SlowDisk) /\ live' = Spent(cleared)
  /\ file' = NoToken
  /\ UNCHANGED <<invites, stateFile, guesses>>

-------------------------------------------------------------------------------
(* merge_auth_clients: a token the file replaced starts with nothing spent.  *)
Merged == [token |-> file, failed |-> IF file = live.token THEN live.failed ELSE 0]

Reload ==
  /\ live' = Merged
  /\ UNCHANGED <<file, invites, stateFile, guesses>>

-------------------------------------------------------------------------------
(* The state file.                                                           *)

(* Variant: the fingerprint goes with the token, counter or not.             *)
Snapshot_AlwaysPrint == [failed |-> live.failed, print |-> live.token]

(* snapshot and enrollment_fingerprint: the counter and the token it was     *)
(* paid for, or nothing.                                                     *)
Snapshot == IF live.failed = 0 THEN Nothing ELSE [failed |-> live.failed, print |-> live.token]

(* Any counter of any client that moves has all of them written: a snapshot  *)
(* may be taken at any time, one at a time, and reach the disk later.        *)
TakeSnapshot ==
  /\ ~saving
  /\ saving' = TRUE
  /\ writing' = Snapshot
  /\ UNCHANGED <<file, invites, live, disk, guesses>>

SnapshotWritten ==
  /\ saving
  /\ saving' = FALSE
  /\ disk' = writing
  /\ UNCHANGED <<file, invites, live, writing, guesses>>

(* Variant: the counter is the client's.                                     *)
BelongsToThisToken_Any == TRUE

(* enrollment_counters_belong_to_this_token: the fingerprint names the token *)
(* in the configuration; a state that names none keeps its counter.          *)
BelongsToThisToken == disk.print = NoToken \/ disk.print = file

(* apply: what the next process starts with.                                 *)
Applied == [token |-> file, failed |-> IF BelongsToThisToken THEN disk.failed ELSE 0]

(* The process dies, between any two steps, and the next one starts.         *)
Restart ==
  /\ live' = Applied
  /\ saving' = FALSE
  /\ UNCHANGED <<file, invites, disk, writing, guesses>>

-------------------------------------------------------------------------------
Next ==
  \/ Invite \/ Uninvite
  \/ Guess \/ RefreshEnrollmentLockout \/ Spend
  \/ Reload
  \/ TakeSnapshot \/ SnapshotWritten \/ Restart

Spec == Init /\ [][Next]_vars

-------------------------------------------------------------------------------
(* Properties.                                                               *)

(* A token pays for the guesses at it and for no others: the counter of the  *)
(* pending token never exceeds the wrong guesses made at that very token,    *)
(* over reloads, late writes of the state file and restarts.  The rule of    *)
(* record_enrollment_success: the next invite does not start "one mistake    *)
(* away from a lockout earned by a token that no longer exists".             *)
GuessesArePaidByTheirToken ==
  live.token # NoToken => live.failed <= guesses[live.token]
===============================================================================

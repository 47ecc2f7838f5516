------------------------------ MODULE Enrollment ------------------------------
(***************************************************************************)
(* How a one-time enrollment token is spent.                               *)
(*                                                                         *)
(* One client of [auth.clients], in the file and in memory: its pending    *)
(* token and its credentials, the client's own secret and one row per      *)
(* named device.  Four kinds of actor change it:                           *)
(*   - the operator's CLI, another process, rewrites the file;             *)
(*   - a connection that enrolls changes memory under the auth lock, has a *)
(*     detached job write the file, and bumps the enrollment epoch before  *)
(*     it lets go of the lock;                                             *)
(*   - the watcher samples the epoch, reads the file without a lock, and   *)
(*     merges it under the lock if the epoch has not moved;                *)
(*   - a restart reads the file, if it can.                                *)
(* The auth lock is only its holder here; its queue, and the write gate,   *)
(* are the subject of AuthLocks, and lockouts of Lockout.                  *)
(***************************************************************************)
EXTENDS Naturals

CONSTANTS
  Task,         \* connections that ask to enroll
  Device,       \* device names
  Shared,       \* the slot of the device without a name: the client's secret
  Key,          \* device keys
  None,         \* no credential, nobody
  MaxInvites,   \* bound on the tokens the operator issues
  MaxEdits,     \* bound on the operator's edits
  MaxCrashes,   \* bound on restarts
  MaxOthers,    \* bound on the enrollments of other clients
  SlowDisk      \* may the handshake deadline fire while the file is written

ASSUME EnrollmentAssumption ==
  /\ MaxInvites \in Nat /\ MaxEdits \in Nat /\ MaxCrashes \in Nat /\ MaxOthers \in Nat
  /\ SlowDisk \in BOOLEAN
  /\ Shared \notin Device
  /\ Task \cap (Key \cup Nat) = {}
  /\ None \notin Task \cup Key \cup Nat

Slot == Device \cup {Shared}

(* A credential: a secret the operator wrote (a number), the secret minted   *)
(* for a connection (that connection), or a device key.                      *)
Cred == Nat \cup Task \cup Key
NoToken == 0
Client == [listed : BOOLEAN, token : Nat, cred : [Slot -> Cred \cup {None}]]
Absent == [listed |-> FALSE, token |-> NoToken, cred |-> [s \in Slot |-> None]]

VARIABLES
  file,      \* the client's section of config.toml
  stamp,     \* the file's modification stamp
  edits,     \* how often the operator has written
  invites,   \* the tokens issued so far are 1..invites
  up,        \* is the server running
  crashes,   \* how often it was restarted
  others,    \* how often another client enrolled
  live,      \* the client in the live AuthConfig
  holder,    \* the connection that holds the auth lock over its write
  epoch,     \* enroll_epoch
  loaded,    \* the stamp of the last revision the watcher applied
  watch,     \* the watcher: where it is and what it holds
  pc,        \* where each connection is
  ask,       \* what it enrolls: token, slot and issued credential, and the
             \* credential that was in the slot before
  job        \* its detached write of config.toml

vars == <<file, stamp, edits, invites, up, crashes, others, live, holder, epoch, loaded,
          watch, pc, ask, job>>
fileVars == <<file, stamp>>
operatorVars == <<edits, invites>>
taskVars == <<pc, ask, job>>
processVars == <<up, crashes, others>>

Ask == [token : Nat, slot : Slot, issued : Cred \cup {None}, previous : Cred \cup {None}]
NoAsk == [token |-> NoToken, slot |-> Shared, issued |-> None, previous |-> None]
Asleep == [pc |-> "sleep", stamp |-> 0, epoch |-> 0, second |-> FALSE, snapshot |-> Absent]

(* Every variable has its type, and the auth lock is held exactly by the     *)
(* connection that waits for its write.                                      *)
TypeOK ==
  /\ file \in Client
  /\ stamp \in Nat
  /\ edits \in 0..MaxEdits
  /\ invites \in 0..MaxInvites
  /\ up \in BOOLEAN
  /\ crashes \in 0..MaxCrashes
  /\ others \in 0..MaxOthers
  /\ live \in Client
  /\ holder \in Task \cup {None}
  /\ epoch \in Nat
  /\ loaded \in Nat
  /\ watch \in [pc : {"sleep", "stamped", "sampled", "read"}, stamp : Nat, epoch : Nat,
                second : BOOLEAN, snapshot : Client]
  /\ pc \in [Task -> {"idle", "saving", "saved", "told", "failed", "dropped"}]
  /\ ask \in [Task -> Ask]
  /\ job \in [Task -> {"none", "spawned", "written", "unwritten"}]
  /\ \A t \in Task : holder = t <=> pc[t] = "saving"

(* The loader: a section without a secret does not parse.                    *)
Readable(f) == f.listed => f.cred[Shared] # None

Init ==
  /\ file = [listed |-> TRUE, token |-> NoToken,
             cred |-> [s \in Slot |-> IF s = Shared THEN 0 ELSE None]]
  /\ stamp = 0
  /\ edits = 0
  /\ invites = 0
  /\ up = TRUE
  /\ crashes = 0
  /\ others = 0
  /\ live = file
  /\ holder = None
  /\ epoch = 0
  /\ loaded = 0
  /\ watch = Asleep
  /\ pc = [t \in Task |-> "idle"]
  /\ ask = [t \in Task |-> NoAsk]
  /\ job = [t \in Task |-> "none"]

-------------------------------------------------------------------------------
(* The operator's commands.  Each is one read-modify-write under the file's  *)
(* lock.                                                                     *)

Edit(f) ==
  /\ edits < MaxEdits
  /\ edits' = edits + 1
  /\ file' = f
  /\ stamp' = stamp + 1
  /\ UNCHANGED <<processVars, live, holder, epoch, loaded, watch, taskVars>>

(* write_pending_enrollment: a new token replaces the outstanding one; a     *)
(* client without a secret is refused.                                       *)
Invite ==
  /\ invites < MaxInvites
  /\ file.cred[Shared] # None
  /\ invites' = invites + 1
  /\ Edit([file EXCEPT !.token = invites + 1])

(* write_client_secret, which adds the client or replaces its secret.        *)
WriteClientSecret ==
  /\ Edit([file EXCEPT !.listed = TRUE, !.cred[Shared] = stamp + 1])
  /\ UNCHANGED invites

(* write_device_credential.                                                  *)
WriteDeviceCredential(d) ==
  /\ file.cred[Shared] # None
  /\ Edit([file EXCEPT !.cred[d] = stamp + 1])
  /\ UNCHANGED invites

(* remove_device.                                                            *)
RemoveDevice(d) ==
  /\ file.listed /\ file.cred[d] # None
  /\ Edit([file EXCEPT !.cred[d] = None])
  /\ UNCHANGED invites

(* remove_client.                                                            *)
RemoveClient ==
  /\ file.listed
  /\ Edit(Absent)
  /\ UNCHANGED invites

Operator ==
  \/ Invite \/ WriteClientSecret \/ RemoveClient
  \/ \E d \in Device : WriteDeviceCredential(d) \/ RemoveDevice(d)

-------------------------------------------------------------------------------
(* A connection that enrolls.                                                *)

(* enrollment_verdict and the check that the request can be recorded: the    *)
(* token presented is the pending one, a name that is taken is refused       *)
(* unless the device offers the key on file, and a key needs a name.         *)
Accepts(slot, offer) ==
  /\ live.listed
  /\ live.token # NoToken
  /\ slot = Shared => offer = None
  /\ slot # Shared /\ live.cred[slot] # None => offer \in Key /\ offer = live.cred[slot]

(* issue_enrolled_secret, in memory; the write is handed to a job and the    *)
(* lock is kept.  Without an offered key a secret is minted.                 *)
Issue(t, slot, offer) ==
  /\ up
  /\ holder = None
  /\ pc[t] = "idle"
  /\ Accepts(slot, offer)
  /\ LET issued == IF offer = None THEN t ELSE offer
     IN /\ live' = [live EXCEPT !.token = NoToken, !.cred[slot] = issued]
        /\ ask' = [ask EXCEPT ![t] = [token |-> live.token, slot |-> slot, issued |-> issued,
                                      previous |-> live.cred[slot]]]
  /\ holder' = t
  /\ pc' = [pc EXCEPT ![t] = "saving"]
  /\ job' = [job EXCEPT ![t] = "spawned"]
  /\ UNCHANGED <<fileVars, operatorVars, processVars, epoch, loaded, watch>>

(* complete_enrollment and complete_device_enrollment: the section is        *)
(* created if it is not there, the credential goes in, a token goes out.     *)
Completed(f, a) == [f EXCEPT !.listed = TRUE, !.token = NoToken, !.cred[a.slot] = a.issued]

JobLands(t) ==
  /\ job[t] = "spawned"
  /\ file' = Completed(file, ask[t])
  /\ stamp' = stamp + 1
  /\ job' = [job EXCEPT ![t] = "written"]
  /\ UNCHANGED <<operatorVars, processVars, live, holder, epoch, loaded, watch, pc, ask>>

JobFails(t) ==
  /\ job[t] = "spawned"
  /\ job' = [job EXCEPT ![t] = "unwritten"]
  /\ UNCHANGED <<fileVars, operatorVars, processVars, live, holder, epoch, loaded, watch, pc, ask>>

(* Variant: the epoch is not bumped.                                         *)
Saved_NoBump(t) ==
  /\ pc[t] = "saving" /\ job[t] = "written"
  /\ holder' = None
  /\ pc' = [pc EXCEPT ![t] = "saved"]
  /\ UNCHANGED <<fileVars, operatorVars, processVars, live, epoch, loaded, watch, ask, job>>

(* Variant: the guard outlives the enrollment.                               *)
Saved_KeepsLock(t) ==
  /\ pc[t] = "saving" /\ job[t] = "written"
  /\ epoch' = epoch + 1
  /\ pc' = [pc EXCEPT ![t] = "saved"]
  /\ UNCHANGED <<fileVars, operatorVars, processVars, live, holder, loaded, watch, ask, job>>

(* The file carries the enrollment: the epoch moves and the lock is dropped. *)
Saved(t) ==
  /\ pc[t] = "saving" /\ job[t] = "written"
  /\ epoch' = epoch + 1
  /\ holder' = None
  /\ pc' = [pc EXCEPT ![t] = "saved"]
  /\ UNCHANGED <<fileVars, operatorVars, processVars, live, loaded, watch, ask, job>>

(* Variant: the token is given back and the credential is left.              *)
Undone_TokenOnly(a) == [live EXCEPT !.token = a.token]

(* undo_enrolled_secret: what was in the slot before, and the token.         *)
Undone(a) == [live EXCEPT !.token = a.token, !.cred[a.slot] = a.previous]

NotSaved(t) ==
  /\ pc[t] = "saving" /\ job[t] = "unwritten"
  /\ live' = Undone(ask[t])
  /\ holder' = None
  /\ pc' = [pc EXCEPT ![t] = "failed"]
  /\ UNCHANGED <<fileVars, operatorVars, processVars, epoch, loaded, watch, ask, job>>

(* ENROLL_ISSUE is sent.                                                     *)
Tell(t) ==
  /\ pc[t] = "saved"
  /\ pc' = [pc EXCEPT ![t] = "told"]
  /\ UNCHANGED <<fileVars, operatorVars, processVars, live, holder, epoch, loaded, watch, ask, job>>

(* The handshake deadline, or a reply that cannot be sent, ends the task;    *)
(* the lock goes with it and the job does not.                               *)
Drop(t) ==
  /\ pc[t] = "saved" \/ (SlowDisk /\ pc[t] = "saving")
  /\ pc' = [pc EXCEPT ![t] = "dropped"]
  /\ holder' = IF holder = t THEN None ELSE holder
  /\ UNCHANGED <<fileVars, operatorVars, processVars, live, epoch, loaded, watch, ask, job>>

(* Another client enrolls: the file and the epoch move, this section not.    *)
OtherEnrolls ==
  /\ up /\ holder = None
  /\ others < MaxOthers
  /\ others' = others + 1
  /\ stamp' = stamp + 1
  /\ epoch' = epoch + 1
  /\ UNCHANGED <<file, operatorVars, up, crashes, live, holder, loaded, watch, taskVars>>

-------------------------------------------------------------------------------
(* The watcher.                                                              *)

(* A poll finds a stamp it has not loaded.                                   *)
Poll ==
  /\ up
  /\ watch.pc = "sleep"
  /\ stamp # loaded
  /\ watch' = [watch EXCEPT !.pc = "stamped", !.stamp = stamp]
  /\ UNCHANGED <<fileVars, operatorVars, processVars, live, holder, epoch, loaded, taskVars>>

(* The epoch is sampled before the file is read.                             *)
SampleEpoch ==
  /\ watch.pc = "stamped"
  /\ watch' = [watch EXCEPT !.pc = "sampled", !.epoch = epoch]
  /\ UNCHANGED <<fileVars, operatorVars, processVars, live, holder, epoch, loaded, taskVars>>

(* load_config_with_auth; a file that does not parse ends the reload.        *)
ReadConfig ==
  /\ watch.pc = "sampled"
  /\ watch' = IF Readable(file)
              THEN [watch EXCEPT !.pc = "read", !.snapshot = file]
              ELSE Asleep
  /\ UNCHANGED <<fileVars, operatorVars, processVars, live, holder, epoch, loaded, taskVars>>

(* reload_auth finds that an enrollment landed since the sample: the file is *)
(* read once more, and the second time the reload is left for the next poll. *)
Overtaken ==
  /\ watch.pc = "read" /\ holder = None
  /\ watch.epoch # epoch
  /\ watch' = IF watch.second THEN Asleep ELSE [watch EXCEPT !.pc = "stamped", !.second = TRUE]
  /\ UNCHANGED <<fileVars, operatorVars, processVars, live, holder, epoch, loaded, taskVars>>

(* Variant: the snapshot is merged whatever the epoch says.                  *)
Merge_AnyEpoch ==
  /\ watch.pc = "read" /\ holder = None
  /\ live' = watch.snapshot
  /\ loaded' = watch.stamp
  /\ watch' = Asleep
  /\ UNCHANGED <<fileVars, operatorVars, processVars, holder, epoch, taskVars>>

(* Variant: the revision remembered is the one on disk after the reload.     *)
Merge_LateStamp ==
  /\ watch.pc = "read" /\ holder = None
  /\ watch.epoch = epoch
  /\ live' = watch.snapshot
  /\ loaded' = stamp
  /\ watch' = Asleep
  /\ UNCHANGED <<fileVars, operatorVars, processVars, holder, epoch, taskVars>>

(* merge_auth_clients: the token and the credentials come from the file.     *)
Merge ==
  /\ watch.pc = "read" /\ holder = None
  /\ watch.epoch = epoch
  /\ live' = watch.snapshot
  /\ loaded' = watch.stamp
  /\ watch' = Asleep
  /\ UNCHANGED <<fileVars, operatorVars, processVars, holder, epoch, taskVars>>

-------------------------------------------------------------------------------
(* The process dies, and everything in memory with it: connections, jobs,    *)
(* the watcher, the epoch.  The next one starts on a file it can read.       *)
Crash ==
  /\ up /\ crashes < MaxCrashes
  /\ up' = FALSE
  /\ crashes' = crashes + 1
  /\ holder' = None
  /\ pc' = [t \in Task |-> IF pc[t] \in {"saving", "saved"} THEN "dropped" ELSE pc[t]]
  /\ job' = [t \in Task |-> IF job[t] = "spawned" THEN "unwritten" ELSE job[t]]
  /\ watch' = Asleep
  /\ UNCHANGED <<fileVars, operatorVars, others, live, epoch, loaded, ask>>

Start ==
  /\ ~up
  /\ Readable(file)
  /\ up' = TRUE
  /\ live' = file
  /\ loaded' = stamp
  /\ epoch' = 0
  /\ UNCHANGED <<fileVars, operatorVars, crashes, others, holder, watch, taskVars>>

-------------------------------------------------------------------------------
Enrolls(t) ==
  \/ \E s \in Slot, offer \in Key \cup {None} : Issue(t, s, offer)
  \/ Drop(t)

Progress(t) == JobLands(t) \/ JobFails(t) \/ Saved(t) \/ NotSaved(t) \/ Tell(t)
Watcher == Poll \/ SampleEpoch \/ ReadConfig \/ Overtaken \/ Merge

Next ==
  \/ Operator \/ Watcher \/ OtherEnrolls \/ Crash \/ Start
  \/ \E t \in Task : Enrolls(t) \/ Progress(t)

Spec == Init /\ [][Next]_vars

(* The runtime polls what is ready, the watcher's timer fires and a write    *)
(* ends.  Nothing is assumed of the operator, of peers or of crashes.        *)
Fairness == WF_vars(Watcher) /\ \A t \in Task : WF_vars(Progress(t))
FairSpec == Spec /\ Fairness

-------------------------------------------------------------------------------
(* Properties.                                                               *)

(* A token enrolls once: no two enrollments that reached the file presented  *)
(* the same one, whatever reloads and restarts came between.  The comment on *)
(* EnrollmentSlot: "the first client to present it gets a credential the     *)
(* link never contained while the token is dropped in the same write".       *)
TokenSpentOnce ==
  \A t, u \in Task :
    job[t] = "written" /\ job[u] = "written" /\ ask[t].token = ask[u].token => t = u

(* A credential that was enrolled is in force for as long as the file holds  *)
(* it, but for an enrollment under way: no reload merges a snapshot from     *)
(* before the enrollment over it.                                            *)
EnrollmentStands ==
  \A t \in Task :
    up /\ holder = None /\ pc[t] \in {"saved", "told"} /\ file.cred[ask[t].slot] = ask[t].issued
      => live.cred[ask[t].slot] = ask[t].issued

(* When the watcher has caught up and no enrollment is under way, memory is  *)
(* what a restart would read: nothing in force is missing from disk, and no  *)
(* credential that an undone enrollment issued stays behind.                 *)
LiveIsOnDisk ==
  up /\ loaded = stamp /\ holder = None /\ (\A t \in Task : job[t] # "spawned") => live = file

(* Every edit reaches the running server, enrollments that overtake the      *)
(* reload included, unless the file does not parse.                          *)
EditsAreApplied == <>[](~up \/ ~Readable(file) \/ live = file)

(* The token an enrollment drops from the file is the one it was presented:  *)
(* "Spends the token: writes the issued secret and drops the token".         *)
DropsItsOwnToken ==
  [][\A t \in Task :
       job[t] = "spawned" /\ job'[t] = "written" /\ file.token # NoToken
         => file.token = ask[t].token]_vars

(* The server never writes a configuration that it cannot read again.        *)
ConfigStaysReadable == Readable(file)
===============================================================================

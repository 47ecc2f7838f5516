--------------------------- MODULE Enrollment_proofs ---------------------------
(***************************************************************************)
(* Proofs about Enrollment, for any number of connections, devices, keys,  *)
(* edits, invites and restarts.                                            *)
(***************************************************************************)
EXTENDS Enrollment, TLAPS

-------------------------------------------------------------------------------
(* Types.                                                                    *)

LEMMA AbsentIsClient == Absent \in Client
BY DEF Absent, Client, NoToken

LEMMA AsleepIsWatch ==
  Asleep \in [pc : {"sleep", "stamped", "sampled", "read"}, stamp : Nat, epoch : Nat,
              second : BOOLEAN, snapshot : Client]
BY AbsentIsClient DEF Asleep

(* The three ways a client changes: its token, a credential, its listing.    *)
LEMMA ClientEdits ==
  ASSUME NEW f \in Client, NEW s \in Slot, NEW x \in Cred \cup {None}, NEW n \in Nat
  PROVE  /\ [f EXCEPT !.token = n] \in Client
         /\ [f EXCEPT !.cred[s] = x] \in Client
         /\ [f EXCEPT !.token = n, !.cred[s] = x] \in Client
         /\ [f EXCEPT !.listed = TRUE, !.cred[s] = x] \in Client
         /\ [f EXCEPT !.listed = TRUE, !.token = n, !.cred[s] = x] \in Client
BY DEF Client

(* The tokens after those changes.                                           *)
LEMMA ClientTokens ==
  ASSUME NEW f \in Client, NEW s \in Slot, NEW x \in Cred \cup {None}, NEW n \in Nat
  PROVE  /\ [f EXCEPT !.token = n].token = n
         /\ [f EXCEPT !.cred[s] = x].token = f.token
         /\ [f EXCEPT !.token = n, !.cred[s] = x].token = n
         /\ [f EXCEPT !.listed = TRUE, !.cred[s] = x].token = f.token
         /\ [f EXCEPT !.listed = TRUE, !.token = n, !.cred[s] = x].token = n
BY DEF Client

LEMMA TypeInit == Init => TypeOK
<1> SUFFICES ASSUME Init PROVE TypeOK
  OBVIOUS
<1>1. file \in Client /\ live \in Client
  BY DEF Init, Client, Cred, NoToken, Slot
<1>2. up \in BOOLEAN
  BY Zenon DEF Init
<1>3. ask \in [Task -> Ask]
  BY DEF Init, NoAsk, Ask, NoToken, Slot
<1>4. \A t \in Task : holder = t <=> pc[t] = "saving"
  BY EnrollmentAssumption DEF Init
<1>5. watch \in [pc : {"sleep", "stamped", "sampled", "read"}, stamp : Nat, epoch : Nat,
                 second : BOOLEAN, snapshot : Client]
  BY AsleepIsWatch DEF Init
<1> QED BY <1>1, <1>2, <1>3, <1>4, <1>5, EnrollmentAssumption DEF Init, TypeOK

(* A step of the operator: the file stays a client, and nothing of the       *)
(* process moves.                                                            *)
LEMMA OperatorType ==
  ASSUME TypeOK, Operator
  PROVE  /\ file' \in Client
         /\ stamp' = stamp + 1
         /\ edits' \in 0..MaxEdits
         /\ invites' \in 0..MaxInvites
         /\ UNCHANGED <<processVars, live, holder, epoch, loaded, watch, taskVars>>
<1> USE EnrollmentAssumption
<1>1. file \in Client /\ stamp + 1 \in Cred /\ Shared \in Slot
  BY DEF TypeOK, Cred, Slot
<1>2. ASSUME NEW f, Edit(f)
      PROVE /\ file' = f
            /\ stamp' = stamp + 1
            /\ edits' \in 0..MaxEdits
            /\ UNCHANGED <<processVars, live, holder, epoch, loaded, watch, taskVars>>
  BY <1>2 DEF Edit, TypeOK
<1>3. CASE Invite
  <2>1. [file EXCEPT !.token = invites + 1] \in Client
    BY DEF TypeOK, Client
  <2> QED BY <1>2, <1>3, <2>1 DEF Invite, TypeOK
<1>4. CASE WriteClientSecret
  <2>1. [file EXCEPT !.listed = TRUE, !.cred[Shared] = stamp + 1] \in Client
    BY <1>1, ClientEdits
  <2> QED BY <1>2, <1>4, <2>1 DEF WriteClientSecret, TypeOK
<1>5. CASE RemoveClient
  BY <1>2, <1>5, AbsentIsClient DEF RemoveClient, TypeOK
<1>6. ASSUME NEW d \in Device, WriteDeviceCredential(d)
      PROVE /\ file' \in Client
            /\ stamp' = stamp + 1
            /\ edits' \in 0..MaxEdits
            /\ invites' \in 0..MaxInvites
            /\ UNCHANGED <<processVars, live, holder, epoch, loaded, watch, taskVars>>
  <2>1. [file EXCEPT !.cred[d] = stamp + 1] \in Client
    BY <1>1, ClientEdits DEF Slot
  <2> QED BY <1>2, <1>6, <2>1 DEF WriteDeviceCredential, TypeOK
<1>7. ASSUME NEW d \in Device, RemoveDevice(d)
      PROVE /\ file' \in Client
            /\ stamp' = stamp + 1
            /\ edits' \in 0..MaxEdits
            /\ invites' \in 0..MaxInvites
            /\ UNCHANGED <<processVars, live, holder, epoch, loaded, watch, taskVars>>
  <2>1. [file EXCEPT !.cred[d] = None] \in Client
    BY <1>1, ClientEdits DEF Slot
  <2> QED BY <1>2, <1>7, <2>1 DEF RemoveDevice, TypeOK
<1> QED BY <1>3, <1>4, <1>5, <1>6, <1>7 DEF Operator

LEMMA TypeStep == TypeOK /\ [Next]_vars => TypeOK'
<1> SUFFICES ASSUME TypeOK, [Next]_vars PROVE TypeOK'
  OBVIOUS
<1> USE EnrollmentAssumption
<1>0. CASE UNCHANGED vars
  BY <1>0 DEF vars, TypeOK
<1>1. CASE Operator
  BY <1>1, OperatorType DEF processVars, taskVars, TypeOK
<1>2. ASSUME NEW t \in Task, NEW s \in Slot, NEW offer \in Key \cup {None}, Issue(t, s, offer)
      PROVE TypeOK'
  <2> DEFINE issued == IF offer = None THEN t ELSE offer
  <2>1. issued \in Cred
    BY DEF Cred
  <2>2. live' \in Client
    BY <1>2, <2>1, ClientEdits DEF Issue, TypeOK, NoToken
  <2>3. [token |-> live.token, slot |-> s, issued |-> issued, previous |-> live.cred[s]] \in Ask
    BY <2>1 DEF TypeOK, Client, Ask
  <2>4. ask' \in [Task -> Ask]
    BY <1>2, <2>3 DEF Issue, TypeOK
  <2>5. \A u \in Task : (holder = u <=> pc[u] = "saving")'
    BY <1>2 DEF Issue, TypeOK
  <2>6. pc' \in [Task -> {"idle", "saving", "saved", "told", "failed", "dropped"}]
    BY <1>2 DEF Issue, TypeOK
  <2>7. job' \in [Task -> {"none", "spawned", "written", "unwritten"}]
    BY <1>2 DEF Issue, TypeOK
  <2> HIDE DEF issued
  <2> QED BY <1>2, <2>2, <2>4, <2>5, <2>6, <2>7
          DEF Issue, TypeOK, fileVars, operatorVars, processVars
<1>3. ASSUME NEW t \in Task, JobLands(t) PROVE TypeOK'
  <2>1. file' \in Client
    BY <1>3, ClientEdits DEF JobLands, Completed, TypeOK, Ask, NoToken
  <2> QED BY <1>3, <2>1 DEF JobLands, TypeOK, operatorVars, processVars
<1>4. ASSUME NEW t \in Task, JobFails(t) PROVE TypeOK'
  BY <1>4 DEF JobFails, TypeOK, fileVars, operatorVars, processVars
<1>5. ASSUME NEW t \in Task, Saved(t) PROVE TypeOK'
  BY <1>5 DEF Saved, TypeOK, fileVars, operatorVars, processVars
<1>6. ASSUME NEW t \in Task, NotSaved(t) PROVE TypeOK'
  <2>1. live' \in Client
    BY <1>6, ClientEdits DEF NotSaved, Undone, TypeOK, Ask
  <2> QED BY <1>6, <2>1 DEF NotSaved, TypeOK, fileVars, operatorVars, processVars
<1>7. ASSUME NEW t \in Task, Tell(t) PROVE TypeOK'
  BY <1>7 DEF Tell, TypeOK, fileVars, operatorVars, processVars
<1>8. ASSUME NEW t \in Task, Drop(t) PROVE TypeOK'
  BY <1>8 DEF Drop, TypeOK, fileVars, operatorVars, processVars
<1>9. CASE OtherEnrolls
  BY <1>9 DEF OtherEnrolls, TypeOK, operatorVars, taskVars
<1>10. CASE Poll
  BY <1>10 DEF Poll, TypeOK, fileVars, operatorVars, processVars, taskVars
<1>11. CASE SampleEpoch
  BY <1>11 DEF SampleEpoch, TypeOK, fileVars, operatorVars, processVars, taskVars
<1>12. CASE ReadConfig
  BY <1>12, AsleepIsWatch
     DEF ReadConfig, TypeOK, fileVars, operatorVars, processVars, taskVars
<1>13. CASE Overtaken
  BY <1>13, AsleepIsWatch
     DEF Overtaken, TypeOK, fileVars, operatorVars, processVars, taskVars
<1>14. CASE Merge
  BY <1>14, AsleepIsWatch
     DEF Merge, TypeOK, fileVars, operatorVars, processVars, taskVars
<1>15. CASE Crash
  <2>1. up' \in BOOLEAN
    BY <1>15, Zenon DEF Crash
  <2> QED BY <1>15, <2>1, AsleepIsWatch DEF Crash, TypeOK, fileVars, operatorVars
<1>16. CASE Start
  <2>1. up' \in BOOLEAN
    BY <1>16, Zenon DEF Start
  <2> QED BY <1>16, <2>1 DEF Start, TypeOK, fileVars, operatorVars, taskVars
<1> QED
  BY <1>0, <1>1, <1>2, <1>3, <1>4, <1>5, <1>6, <1>7, <1>8, <1>9, <1>10, <1>11, <1>12, <1>13,
     <1>14, <1>15, <1>16
     DEF Next, Watcher, Enrolls, Progress

(* The variables keep their types, and the auth lock is held exactly by the  *)
(* connection that waits for its write.                                      *)
THEOREM TypeCorrect == Spec => []TypeOK
BY TypeInit, TypeStep, PTL DEF Spec

-------------------------------------------------------------------------------
(* A token enrolls once, as long as the disk answers before the deadline.    *)

(* No enrollment that reached the file presented this token.                 *)
Fresh(n) == \A t \in Task : job[t] = "written" => ask[t].token # n

(* Tokens come from invites, the write belongs to the connection that holds  *)
(* the lock, and while it is held there is no token in memory.               *)
Bookkeeping ==
  /\ \A t \in Task : pc[t] = "idle" => job[t] = "none"
  /\ \A t \in Task : job[t] = "spawned" => pc[t] = "saving"
  /\ \A t \in Task : job[t] # "none" => ask[t].token # NoToken /\ ask[t].token <= invites
  /\ file.token <= invites
  /\ live.token <= invites
  /\ watch.pc = "read" => watch.snapshot.token <= invites
  /\ watch.pc \in {"sampled", "read"} => watch.epoch <= epoch
  /\ holder # None => live.token = NoToken
  /\ ~up => watch.pc = "sleep" /\ holder = None

(* Neither the file nor memory holds a spent token; nor does the snapshot of *)
(* a watcher whose epoch still matches, but for the enrollment that has yet  *)
(* to bump it.                                                               *)
SpentInv ==
  /\ Bookkeeping
  /\ Fresh(file.token)
  /\ Fresh(live.token)
  /\ watch.pc = "read" /\ watch.epoch = epoch
       => \A t \in Task : job[t] = "written" /\ pc[t] # "saving"
                           => ask[t].token # watch.snapshot.token
  /\ \A t, u \in Task : pc[t] = "saving" /\ u # t /\ job[u] = "written"
                         => ask[u].token # ask[t].token
  /\ TokenSpentOnce

LEMMA SpentInit == Init => SpentInv
<1> SUFFICES ASSUME Init PROVE SpentInv
  OBVIOUS
<1>1. file.token = NoToken /\ live.token = NoToken /\ watch.pc = "sleep"
  BY DEF Init, Asleep
<1>2. Bookkeeping
  BY <1>1 DEF Init, Bookkeeping, NoToken
<1> QED BY <1>2 DEF Init, SpentInv, Fresh, TokenSpentOnce, Asleep

(* What an operator's command does to the token in the file.                 *)
LEMMA OperatorToken ==
  ASSUME TypeOK, Operator
  PROVE  \/ invites' = invites + 1 /\ file'.token = invites + 1
         \/ invites' = invites /\ file'.token \in {file.token, NoToken}
<1>1. file \in Client /\ stamp + 1 \in Cred \cup {None} /\ Shared \in Slot
      /\ None \in Cred \cup {None}
  BY DEF TypeOK, Cred, Slot
<1>2. CASE Invite
  BY <1>1, <1>2 DEF Invite, Edit, Client
<1>3. CASE WriteClientSecret
  BY <1>1, <1>3 DEF WriteClientSecret, Edit, Client
<1>4. CASE RemoveClient
  BY <1>4 DEF RemoveClient, Edit, Absent
<1>5. ASSUME NEW d \in Device, WriteDeviceCredential(d) \/ RemoveDevice(d)
      PROVE invites' = invites /\ file'.token = file.token
  BY <1>1, <1>5 DEF WriteDeviceCredential, RemoveDevice, Edit, Client
<1> QED BY <1>2, <1>3, <1>4, <1>5 DEF Operator

LEMMA SpentStep == ~SlowDisk /\ TypeOK /\ SpentInv /\ [Next]_vars => SpentInv'
<1> SUFFICES ASSUME ~SlowDisk, TypeOK, SpentInv, [Next]_vars PROVE SpentInv'
  OBVIOUS
<1> USE EnrollmentAssumption DEF NoToken
<1>0. CASE UNCHANGED vars
  BY <1>0 DEF vars, SpentInv, Bookkeeping, Fresh, TokenSpentOnce
<1>1. CASE Operator
  <2>1. UNCHANGED <<up, live, holder, epoch, watch, pc, ask, job>>
    BY <1>1, OperatorType DEF taskVars, processVars
  <2>2. \/ invites' = invites + 1 /\ file'.token = invites + 1
        \/ invites' = invites /\ file'.token \in {file.token, NoToken}
    BY <1>1, OperatorToken
  <2>3. Bookkeeping'
    BY <2>1, <2>2 DEF SpentInv, Bookkeeping, TypeOK, Client, Ask
  <2>4. Fresh(file.token)'
    BY <2>1, <2>2 DEF SpentInv, Bookkeeping, Fresh, TypeOK, Client, Ask
  <2> QED BY <2>1, <2>3, <2>4 DEF SpentInv, Fresh, TokenSpentOnce
<1>2. ASSUME NEW t \in Task, NEW s \in Slot, NEW offer \in Key \cup {None}, Issue(t, s, offer)
      PROVE SpentInv'
  <2>1. /\ pc[t] = "idle" /\ holder = None /\ live.token # NoToken
        /\ pc' = [pc EXCEPT ![t] = "saving"]
        /\ job' = [job EXCEPT ![t] = "spawned"]
        /\ holder' = t
        /\ UNCHANGED <<file, invites, up, epoch, watch>>
        /\ up
    BY <1>2 DEF Issue, Accepts, fileVars, operatorVars, processVars
  <2>2. live'.token = NoToken
    BY <1>2 DEF Issue, TypeOK, Client
  <2>3. ask'[t].token = live.token /\ \A u \in Task \ {t} : ask'[u] = ask[u]
    BY <1>2 DEF Issue, TypeOK
  <2>4. job[t] = "none" /\ \A u \in Task : job'[u] = "written" <=> job[u] = "written"
    BY <2>1 DEF SpentInv, Bookkeeping, TypeOK
  <2>5. \A u \in Task : pc[u] # "saving"
    BY <2>1 DEF TypeOK
  <2>6. Bookkeeping'
    BY <2>1, <2>2, <2>3, <2>5 DEF SpentInv, Bookkeeping, TypeOK
  <2>7. Fresh(file.token)' /\ Fresh(live.token)'
    BY <2>1, <2>2, <2>3, <2>4 DEF SpentInv, Bookkeeping, Fresh
  <2>8. (watch.pc = "read" /\ watch.epoch = epoch
          => \A u \in Task : job[u] = "written" /\ pc[u] # "saving"
                              => ask[u].token # watch.snapshot.token)'
    BY <2>1, <2>3, <2>4, <2>5 DEF SpentInv
  <2>9. (\A u, v \in Task : pc[u] = "saving" /\ v # u /\ job[v] = "written"
                           => ask[v].token # ask[u].token)'
    BY <2>1, <2>3, <2>4, <2>5 DEF SpentInv, Fresh, TypeOK
  <2>10. TokenSpentOnce'
    BY <2>3, <2>4 DEF SpentInv, TokenSpentOnce
  <2> QED BY <2>6, <2>7, <2>8, <2>9, <2>10 DEF SpentInv
<1>3. ASSUME NEW t \in Task, JobLands(t) PROVE SpentInv'
  <2>1. /\ job[t] = "spawned"
        /\ job' = [job EXCEPT ![t] = "written"]
        /\ UNCHANGED <<invites, up, live, holder, epoch, watch, pc, ask>>
    BY <1>3 DEF JobLands, operatorVars, processVars
  <2>2. file'.token = NoToken
    BY <1>3 DEF JobLands, Completed, TypeOK, Client
  <2>3. pc[t] = "saving" /\ holder = t /\ live.token = NoToken /\ ask[t].token # NoToken
    BY <2>1 DEF SpentInv, Bookkeeping, TypeOK
  <2>4. Bookkeeping'
    BY <2>1, <2>2, <2>3 DEF SpentInv, Bookkeeping, TypeOK
  <2>5. Fresh(file.token)' /\ Fresh(live.token)'
    BY <2>1, <2>2, <2>3 DEF SpentInv, Bookkeeping, Fresh, TypeOK
  <2>6. \A u \in Task : pc[u] = "saving" => u = t
    BY <2>3 DEF TypeOK
  <2> QED BY <2>1, <2>3, <2>4, <2>5, <2>6 DEF SpentInv, TokenSpentOnce, TypeOK
<1>4. ASSUME NEW t \in Task, JobFails(t) PROVE SpentInv'
  BY <1>4 DEF JobFails, fileVars, operatorVars, processVars, SpentInv, Bookkeeping, Fresh,
     TokenSpentOnce, TypeOK
<1>5. ASSUME NEW t \in Task, Saved(t) PROVE SpentInv'
  <2>1. /\ pc[t] = "saving" /\ job[t] = "written"
        /\ pc' = [pc EXCEPT ![t] = "saved"]
        /\ epoch' = epoch + 1 /\ holder' = None
        /\ UNCHANGED <<file, invites, up, live, watch, ask, job>>
    BY <1>5 DEF Saved, fileVars, operatorVars, processVars
  <2>2. Bookkeeping'
    BY <2>1 DEF SpentInv, Bookkeeping, TypeOK
  <2>3. watch.pc = "read" => watch.epoch # epoch'
    BY <2>1 DEF SpentInv, Bookkeeping, TypeOK
  <2> QED BY <2>1, <2>2, <2>3 DEF SpentInv, Fresh, TokenSpentOnce, TypeOK
<1>6. ASSUME NEW t \in Task, NotSaved(t) PROVE SpentInv'
  <2>1. /\ pc[t] = "saving" /\ job[t] = "unwritten"
        /\ pc' = [pc EXCEPT ![t] = "failed"]
        /\ holder' = None
        /\ UNCHANGED <<file, invites, up, epoch, watch, ask, job>>
    BY <1>6 DEF NotSaved, fileVars, operatorVars, processVars
  <2>2. live'.token = ask[t].token
    BY <1>6 DEF NotSaved, Undone, TypeOK, Client
  <2>3. Bookkeeping'
    BY <2>1, <2>2 DEF SpentInv, Bookkeeping, TypeOK
  <2>4. Fresh(live.token)'
    BY <2>1, <2>2 DEF SpentInv, Fresh
  <2> QED BY <2>1, <2>3, <2>4 DEF SpentInv, Fresh, TokenSpentOnce, TypeOK
<1>7. ASSUME NEW t \in Task, Tell(t) \/ Drop(t) PROVE SpentInv'
  <2>1. /\ pc[t] = "saved" /\ pc'[t] \in {"told", "dropped"}
        /\ \A u \in Task \ {t} : pc'[u] = pc[u]
        /\ UNCHANGED <<file, invites, up, live, holder, epoch, watch, ask, job>>
    BY <1>7 DEF Tell, Drop, TypeOK, fileVars, operatorVars, processVars
  <2>2. Bookkeeping'
    BY <2>1 DEF SpentInv, Bookkeeping
  <2> QED BY <2>1, <2>2 DEF SpentInv, Fresh, TokenSpentOnce
<1>8. CASE OtherEnrolls
  BY <1>8 DEF OtherEnrolls, operatorVars, taskVars, SpentInv, Bookkeeping, Fresh, TokenSpentOnce,
     TypeOK
<1>9. CASE Poll
  BY <1>9 DEF Poll, fileVars, operatorVars, processVars, taskVars, SpentInv, Bookkeeping, Fresh,
     TokenSpentOnce, TypeOK
<1>10. CASE SampleEpoch
  BY <1>10 DEF SampleEpoch, fileVars, operatorVars, processVars, taskVars, SpentInv, Bookkeeping, Fresh,
     TokenSpentOnce, TypeOK
<1>11. CASE ReadConfig
  <2>1. \/ watch' = Asleep
        \/ watch'.pc = "read" /\ watch'.snapshot = file /\ watch'.epoch = watch.epoch
    BY <1>11 DEF ReadConfig, TypeOK
  <2>2. watch.pc = "sampled" /\ UNCHANGED <<file, invites, up, live, holder, epoch, pc, ask, job>>
    BY <1>11 DEF ReadConfig, fileVars, operatorVars, processVars, taskVars
  <2>3. Bookkeeping'
    BY <2>1, <2>2 DEF SpentInv, Bookkeeping, Asleep
  <2> QED BY <2>1, <2>2, <2>3 DEF SpentInv, Fresh, TokenSpentOnce, Asleep
<1>12. CASE Overtaken
  <2>1. watch'.pc \in {"sleep", "stamped"}
    BY <1>12 DEF Overtaken, Asleep, TypeOK
  <2>2. /\ watch.pc = "read"
        /\ UNCHANGED <<file, invites, up, live, holder, epoch, pc, ask, job>>
    BY <1>12 DEF Overtaken, fileVars, operatorVars, processVars, taskVars
  <2>3. Bookkeeping'
    BY <2>1, <2>2 DEF SpentInv, Bookkeeping
  <2> QED BY <2>1, <2>2, <2>3 DEF SpentInv, Fresh, TokenSpentOnce
<1>13. CASE Merge
  <2>1. /\ watch.pc = "read" /\ holder = None /\ watch.epoch = epoch
        /\ live' = watch.snapshot /\ watch'.pc = "sleep"
        /\ UNCHANGED <<file, invites, up, holder, epoch, pc, ask, job>>
    BY <1>13 DEF Merge, fileVars, operatorVars, processVars, taskVars, Asleep
  <2>2. \A t \in Task : pc[t] # "saving"
    BY <2>1 DEF TypeOK
  <2>3. Fresh(live.token)'
    BY <2>1, <2>2 DEF SpentInv, Fresh
  <2>4. Bookkeeping'
    BY <2>1 DEF SpentInv, Bookkeeping
  <2> QED BY <2>1, <2>3, <2>4 DEF SpentInv, Fresh, TokenSpentOnce
<1>14. CASE Crash
  <2>1. /\ watch'.pc = "sleep" /\ holder' = None
        /\ pc' = [t \in Task |-> IF pc[t] \in {"saving", "saved"} THEN "dropped" ELSE pc[t]]
        /\ job' = [t \in Task |-> IF job[t] = "spawned" THEN "unwritten" ELSE job[t]]
        /\ UNCHANGED <<file, invites, live, ask>>
    BY <1>14 DEF Crash, fileVars, operatorVars, Asleep
  <2>2. Bookkeeping'
    BY <2>1 DEF SpentInv, Bookkeeping, TypeOK
  <2> QED BY <2>1, <2>2 DEF SpentInv, Fresh, TokenSpentOnce, TypeOK
<1>15. CASE Start
  <2>1. /\ live' = file /\ ~up /\ up'
        /\ UNCHANGED <<file, invites, holder, watch, pc, ask, job>>
    BY <1>15 DEF Start, fileVars, operatorVars, taskVars
  <2>2. watch.pc = "sleep" /\ holder = None
    BY <2>1 DEF SpentInv, Bookkeeping
  <2>3. Bookkeeping'
    BY <2>1, <2>2 DEF SpentInv, Bookkeeping
  <2> QED BY <2>1, <2>2, <2>3 DEF SpentInv, Fresh, TokenSpentOnce
<1> QED
  BY <1>0, <1>1, <1>2, <1>3, <1>4, <1>5, <1>6, <1>7, <1>8, <1>9, <1>10, <1>11, <1>12, <1>13,
     <1>14, <1>15
     DEF Next, Watcher, Enrolls, Progress

(* As long as the disk answers before the handshake deadline, a token        *)
(* enrolls once: no reload, undo or restart puts a spent token back in       *)
(* force.  The epoch is what the proof turns on: a snapshot read before the  *)
(* enrollment's write is never merged after its bump.                        *)
THEOREM TokensAreSpentOnce == ASSUME ~SlowDisk PROVE Spec => []TokenSpentOnce
<1>1. SpentInv => TokenSpentOnce
  BY DEF SpentInv
<1> QED BY <1>1, TypeInit, TypeStep, SpentInit, SpentStep, PTL DEF Spec
===============================================================================

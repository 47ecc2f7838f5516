-------------------------- MODULE Revocation_proofs --------------------------
(***************************************************************************)
(* Revocation is safe for every number of connections, clients, devices    *)
(* and targets, and every sequence of edits of the configuration file.     *)
(***************************************************************************)
EXTENDS Revocation, TLAPS

(* Telling a peer to stop changes nothing else of its registry entry.        *)
LEMMA ToldEntry ==
  ASSUME NEW peer \in PeerEntry
  PROVE  /\ Told(peer) \in PeerEntry
         /\ Told(peer).listed = peer.listed
         /\ Told(peer).client = peer.client
         /\ Told(peer).device = peer.device
         /\ Told(peer).revoked
  BY DEF Told, PeerEntry

(* A step keeps every variable of Revocation in its type and the registry in *)
(* agreement with the connection tasks.                                      *)
LEMMA TypeStep == TypeOK /\ [Next]_vars => TypeOK'
<1> SUFFICES ASSUME TypeOK, [Next]_vars PROVE TypeOK'
  OBVIOUS
<1> USE RevocationAssumption
<1> USE DEF TypeOK, serverVars, liveVars, connVars
<1>1. CASE StartWatch
  BY <1>1 DEF StartWatch
<1>2. CASE BindListeners
  BY <1>2 DEF BindListeners
<1>3. CASE Restart
  BY <1>3 DEF Restart, NoPeer, PeerEntry, Phases, IsContent
<1>4. ASSUME NEW f \in Contents, EditConfig(f) PROVE TypeOK'
  BY <1>4 DEF EditConfig
<1>5. CASE Poll
  BY <1>5 DEF Poll
<1>6. CASE ReadConfig
  BY <1>6 DEF ReadConfig
<1>7. CASE ReloadAuth
  <2>1. loaded' \in 0..MaxEdits /\ watch' \in [pc : {"sleep", "stamped", "read"}, stamp : 0..MaxEdits, snapshot : Contents]
    BY <1>7 DEF ReloadAuth, LoadedStamp
  <2>2. enabled' \in BOOLEAN
    BY <1>7, Zenon DEF ReloadAuth, TurnsOn
  <2>3. IsTable(table')
    BY <1>7 DEF ReloadAuth, IsContent
  <2>4. peers' = peers \/ \E matches : CloseWhere(matches)
    BY <1>7 DEF ReloadAuth
  <2>5. \A c \in Conn : peers'[c] = peers[c] \/ (peers[c].listed /\ peers'[c] = Told(peers[c]))
    BY <2>4, Zenon DEF CloseWhere
  <2>6. DOMAIN peers' = Conn /\ peers' = [c \in Conn |-> peers'[c]]
    BY <2>4, Zenon DEF CloseWhere
  <2>7. \A c \in Conn : Told(peers[c]) \in PeerEntry /\ Told(peers[c]).listed = peers[c].listed
    BY ToldEntry
  <2> QED
    BY <1>7, <2>1, <2>2, <2>3, <2>5, <2>6, <2>7 DEF ReloadAuth
<1>8. ASSUME NEW c \in Conn, CheckGate(c) PROVE TypeOK'
  BY <1>8 DEF CheckGate, Phases
<1>9. ASSUME NEW c \in Conn, NEW id \in Client, NEW d \in Device \cup {NoDevice},
             Authenticate(c, id, d)
      PROVE TypeOK'
  BY <1>9 DEF Authenticate, Credential, Peer, NoPeer, PeerEntry, Phases, IsTable, ClientEntry
<1>10. ASSUME NEW c \in Conn, End(c) PROVE TypeOK'
  BY <1>10 DEF End, NoPeer, PeerEntry, Phases
<1>11. ASSUME NEW c \in Conn, Serve(c) PROVE TypeOK'
  BY <1>11 DEF Serve, Phases
<1>12. ASSUME NEW c \in Conn, RecheckGate(c) PROVE TypeOK'
  BY <1>10, <1>12 DEF RecheckGate, Phases
<1>13. ASSUME NEW c \in Conn, RegisterUngated(c) PROVE TypeOK'
  BY <1>13 DEF RegisterUngated, Peer, NoPeer, PeerEntry, Phases
<1>14. CASE UNCHANGED vars
  BY <1>14 DEF vars
<1> QED
  BY <1>1, <1>2, <1>3, <1>4, <1>5, <1>6, <1>7, <1>8, <1>9, <1>10, <1>11, <1>12, <1>13, <1>14
  DEF Next, Server, Watcher, Connection, HandshakeFails, ReplyLost, CloseRevoked, PeerLeaves

LEMMA TypeInit == Init => TypeOK
<1> SUFFICES ASSUME Init PROVE TypeOK
  OBVIOUS
<1>1. file \in Contents /\ IsContent(file)
  BY RevocationAssumption DEF Init
<1>2. enabled \in BOOLEAN /\ IsTable(table)
  BY <1>1, Zenon DEF Init, IsContent
<1>3. peers \in [Conn -> PeerEntry] /\ \A c \in Conn : ~peers[c].listed /\ peers[c] = NoPeer
  BY DEF Init, NoPeer, PeerEntry
<1>4. watch \in [pc : {"sleep", "stamped", "read"}, stamp : 0..MaxEdits, snapshot : Contents]
  BY <1>1, RevocationAssumption DEF Init
<1> QED
  BY <1>1, <1>2, <1>3, <1>4, RevocationAssumption DEF Init, TypeOK, Phases

(* Revocation's type invariant: the variables have their types, and the      *)
(* registry lists exactly the connections that registered and have not ended.*)
THEOREM TypeCorrect == Spec => []TypeOK
  BY TypeInit, TypeStep, PTL DEF Spec

(* A step of one connection's registration leaves the entries of the others  *)
(* alone, so only the connection that moved needs a look.                    *)
LEMMA ToldStep == TypeOK /\ RevokedAreTold /\ [Next]_vars => RevokedAreTold'
<1> SUFFICES ASSUME TypeOK, RevokedAreTold, [Next]_vars,
                    NEW c \in Conn,
                    peers'[c].listed, peers'[c].client # NoClient, ~peers'[c].revoked
             PROVE  /\ Credential(peers[c].client, peers[c].device)'
                    /\ acl'[c] \subseteq table'[peers'[c].client].acl
  BY DEF RevokedAreTold
<1> USE RevocationAssumption
<1>1. CASE UNCHANGED <<table, peers, acl>>
  BY <1>1 DEF RevokedAreTold, Credential
<1>2. CASE Restart
  BY <1>2 DEF Restart, NoPeer
<1>3. CASE ReloadAuth
  <2>1. CASE watch.snapshot.kind # "auth"
    BY <1>1, <1>3, <2>1 DEF ReloadAuth, liveVars
  <2>2. CASE watch.snapshot.kind = "auth"
    <3> DEFINE new == watch.snapshot.table
    <3>1. /\ table' = new
          /\ acl' = acl
          /\ peers'[c] = IF c \in ClosedBy(new) \cup (IF TurnsOn(watch.snapshot.enabled) THEN Unauthenticated ELSE {})
                            /\ peers[c].listed
                        THEN Told(peers[c]) ELSE peers[c]
      BY <1>3, <2>2 DEF ReloadAuth, CloseWhere
    <3>2. peers[c] \in PeerEntry /\ Told(peers[c]).revoked
      BY ToldEntry DEF TypeOK
    <3>3. peers'[c] = peers[c] /\ c \notin ClosedBy(new)
      BY <3>1, <3>2
    <3>4. /\ peers[c].client \in DOMAIN table
          /\ peers[c].device = NoDevice \/ peers[c].device \in table[peers[c].client].devices
          /\ acl[c] \subseteq table[peers[c].client].acl
      BY <3>3 DEF RevokedAreTold, Credential
    <3>5. /\ peers[c].client \in DOMAIN new
          /\ peers[c].device \notin table[peers[c].client].devices \ new[peers[c].client].devices
          /\ table[peers[c].client].acl \subseteq new[peers[c].client].acl
      BY <3>3, <3>4 DEF ClosedBy, TightenedBy
    <3> QED
      BY <3>1, <3>3, <3>4, <3>5 DEF Credential
  <2> QED
    BY <2>1, <2>2
<1>4. ASSUME NEW b \in Conn, NEW id \in Client, NEW d \in Device \cup {NoDevice},
             Authenticate(b, id, d)
      PROVE  /\ Credential(peers[c].client, peers[c].device)'
             /\ acl'[c] \subseteq table'[peers'[c].client].acl
  BY <1>4 DEF Authenticate, Credential, Peer, RevokedAreTold, TypeOK, liveVars
<1>5. ASSUME NEW b \in Conn, End(b)
      PROVE  /\ Credential(peers[c].client, peers[c].device)'
             /\ acl'[c] \subseteq table'[peers'[c].client].acl
  BY <1>5 DEF End, NoPeer, Credential, RevokedAreTold, TypeOK, liveVars
<1>6. ASSUME NEW b \in Conn, RegisterUngated(b)
      PROVE  /\ Credential(peers[c].client, peers[c].device)'
             /\ acl'[c] \subseteq table'[peers'[c].client].acl
  BY <1>6 DEF RegisterUngated, Peer, Credential, RevokedAreTold, TypeOK, liveVars
<1> QED
  BY <1>1, <1>2, <1>3, <1>4, <1>5, <1>6
  DEF Next, Server, Watcher, Connection, StartWatch, BindListeners, EditConfig, Poll, ReadConfig,
      CheckGate, Serve, RecheckGate, HandshakeFails, ReplyLost, CloseRevoked, PeerLeaves,
      liveVars, connVars, vars

(* No revoked or tightened client stays connected untold: registering under  *)
(* the auth write lock (authenticate) and closing under it (reload_auth) are *)
(* enough, for any number of connections, clients and edits.                 *)
THEOREM RevocationIsComplete == Spec => []RevokedAreTold
<1>1. Init => RevokedAreTold
  BY DEF Init, RevokedAreTold, NoPeer
<1> QED
  BY <1>1, TypeCorrect, ToldStep, PTL DEF Spec

(* What keeps PlaintextNeverBesideGate through a reload and through startup: *)
(* before the listeners are bound no reload has run, so the startup reading  *)
(* of `enabled' is still the live value when the conflict is judged.         *)
GateInv ==
  /\ boot = "watching" => enabledAtStart = enabled
  /\ boot \in {"loaded", "watching"} => watch.pc = "sleep"
  /\ PlaintextNeverBesideGate

(* With the first poll after the listeners are bound (the 5 s sleep that     *)
(* opens start_watch's loop), 2FA and an exposed plaintext listener never    *)
(* run side by side.                                                         *)
THEOREM PlaintextStaysApart ==
  ASSUME ~SlowBind
  PROVE  Spec => []PlaintextNeverBesideGate
<1>1. Init => GateInv
  BY DEF Init, GateInv, PlaintextNeverBesideGate
<1>2. TypeOK /\ GateInv /\ [Next]_vars => GateInv'
  <2> SUFFICES ASSUME TypeOK, GateInv, [Next]_vars PROVE GateInv'
    OBVIOUS
  <2> USE DEF GateInv, PlaintextNeverBesideGate, PlaintextConflict, liveVars, serverVars, connVars
  <2>1. CASE UNCHANGED <<exposed, boot, enabledAtStart, enabled, watch>>
    BY <2>1
  <2>2. CASE StartWatch
    BY <2>2 DEF StartWatch
  <2>3. CASE BindListeners
    BY <2>3 DEF BindListeners
  <2>4. CASE Restart
    BY <2>4 DEF Restart
  <2>5. CASE Poll
    BY <2>5 DEF Poll
  <2>6. CASE ReadConfig
    BY <2>6 DEF ReadConfig, TypeOK
  <2>7. CASE ReloadAuth
    BY <2>7 DEF ReloadAuth, TurnsOn, EnabledRefused, TypeOK
  <2> QED
    BY <2>1, <2>2, <2>3, <2>4, <2>5, <2>6, <2>7
    DEF Next, Server, Watcher, Connection, EditConfig, CheckGate, Authenticate, End, Serve,
        RecheckGate, RegisterUngated, HandshakeFails, ReplyLost, CloseRevoked, PeerLeaves, vars
<1> QED
  BY <1>1, <1>2, TypeCorrect, PTL DEF Spec, GateInv
==============================================================================

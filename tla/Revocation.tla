------------------------------ MODULE Revocation ------------------------------
(***************************************************************************)
(* How a change of the configuration file reaches the connections that are *)
(* already open.                                                           *)
(*                                                                         *)
(* Three actors share the live 2FA configuration and the peer registry:    *)
(*   - the operator, who rewrites config.toml from another process;        *)
(*   - the configuration watcher (config_watcher/mod.rs), which polls the  *)
(*     file's stamp, reads the file without a lock and merges it under the *)
(*     auth write lock;                                                    *)
(*   - one task per connection (conn/mod.rs), which looks at the gate,     *)
(*     authenticates under the auth write lock and registers itself, or    *)
(*     registers itself as unauthenticated when the gate is off.           *)
(*                                                                         *)
(* An authorization is the set of targets it lets a client reach; the host *)
(* patterns and port lists behind that set are the subject of the module   *)
(* Authorization.  Counters and enrollment are the subject of the modules  *)
(* Lockout and Enrollment.                                                 *)
(***************************************************************************)
EXTENDS Naturals

CONSTANTS
  Conn,                 \* connection tasks
  Client,               \* client ids an operator may list under [auth.clients]
  Device,               \* names a client may list under devices
  Target,               \* what an authorization can allow
  NoClient,             \* the identity of a connection that never authenticated
  NoDevice,             \* the unnamed device: the client's own secret
  Contents,             \* the contents the operator writes into config.toml
  MaxEdits,             \* bound on the operator's edits
  EditsDuringStartup,   \* may the operator edit before the watcher's first stamp
  SlowBind              \* may the first poll come before the listeners are bound

ClientEntry == [devices : SUBSET Device, acl : SUBSET Target]

IsTable(t) ==
  /\ DOMAIN t \subseteq Client
  /\ t = [id \in DOMAIN t |-> t[id]]
  /\ \A id \in DOMAIN t : t[id] \in ClientEntry

(***************************************************************************)
(* A revision of config.toml: a file that does not parse, one without an   *)
(* [auth] section, or one with it.  `routes' says whether its route table  *)
(* builds.                                                                 *)
(***************************************************************************)
IsContent(f) ==
  /\ f = [kind |-> f.kind, enabled |-> f.enabled, table |-> f.table, routes |-> f.routes]
  /\ f.kind \in {"unparsable", "no_auth", "auth"}
  /\ f.enabled \in BOOLEAN
  /\ f.routes \in BOOLEAN
  /\ IsTable(f.table)
  /\ f.kind # "auth" => ~f.enabled /\ DOMAIN f.table = {}

ASSUME RevocationAssumption ==
  /\ \A f \in Contents : IsContent(f)
  /\ MaxEdits \in Nat
  /\ NoClient \notin Client
  /\ NoDevice \notin Device
  /\ EditsDuringStartup \in BOOLEAN
  /\ SlowBind \in BOOLEAN

VARIABLES
  file,      \* the revision config.toml holds
  stamp,     \* its modification stamp
  exposed,   \* is the plaintext listener configured on a network address
  boot,      \* how far run_proxy has come
  enabledAtStart, \* run_proxy's startup reading of `enabled'
  enabled,   \* live [auth] enabled
  table,     \* live [auth.clients]
  loaded,    \* WatchState.loaded: the stamp of the last revision applied
  watch,     \* where the watcher is, with the stamp and revision it holds
  phase,     \* where each connection task is
  peers,     \* the registry entry of each connection
  acl        \* the authorization each connection was given at its handshake

vars == <<file, stamp, exposed, boot, enabledAtStart, enabled, table, loaded,
          watch, phase, peers, acl>>

serverVars == <<exposed, boot, enabledAtStart>>
liveVars == <<enabled, table>>
connVars == <<phase, peers, acl>>

PeerEntry == [listed : BOOLEAN, client : Client \cup {NoClient},
              device : Device \cup {NoDevice}, revoked : BOOLEAN]
NoPeer == [listed |-> FALSE, client |-> NoClient, device |-> NoDevice, revoked |-> FALSE]
Peer(id, d) == [listed |-> TRUE, client |-> id, device |-> d, revoked |-> FALSE]

Phases == {"idle", "handshake", "authenticated", "ungated", "admitted", "serving"}

(* Every variable has its type, and a connection is in the registry exactly  *)
(* from its registration (conn/peers.rs insert) to the end of its task       *)
(* (PeerGuard's drop): no entry leaks and none is lost.                      *)
TypeOK ==
  /\ file \in Contents
  /\ stamp \in 0..MaxEdits
  /\ exposed \in BOOLEAN
  /\ boot \in {"loaded", "watching", "bound", "exited"}
  /\ enabledAtStart \in BOOLEAN
  /\ enabled \in BOOLEAN
  /\ IsTable(table)
  /\ loaded \in 0..MaxEdits
  /\ watch \in [pc : {"sleep", "stamped", "read"}, stamp : 0..MaxEdits, snapshot : Contents]
  /\ phase \in [Conn -> Phases]
  /\ peers \in [Conn -> PeerEntry]
  /\ acl \in [Conn -> SUBSET Target]
  /\ \A c \in Conn :
       /\ peers[c].listed <=> phase[c] \in {"authenticated", "serving"}
       /\ ~peers[c].listed => peers[c] = NoPeer

-------------------------------------------------------------------------------
(* Startup: main loads the configuration, run_proxy spawns the watcher and   *)
(* binds the listeners.                                                      *)

(* A file that does not parse, or whose routes do not build, is fatal here.  *)
Startable(f) == f.kind # "unparsable" /\ f.routes

Init ==
  /\ file \in {f \in Contents : Startable(f)}
  /\ stamp = 0
  /\ exposed \in BOOLEAN
  /\ boot = "loaded"
  /\ enabledAtStart = FALSE
  /\ enabled = file.enabled
  /\ table = file.table
  /\ loaded = 0
  /\ watch = [pc |-> "sleep", stamp |-> 0, snapshot |-> file]
  /\ phase = [c \in Conn |-> "idle"]
  /\ peers = [c \in Conn |-> NoPeer]
  /\ acl = [c \in Conn |-> {}]

(* The process dies or is stopped, and its connections with it; the next one *)
(* loads the file as it is now, or does not start on one it cannot use.      *)
Restart ==
  /\ boot # "loaded"
  /\ boot = "exited" => Startable(file)
  /\ boot' = IF Startable(file) THEN "loaded" ELSE "exited"
  /\ exposed' \in BOOLEAN
  /\ enabledAtStart' = FALSE
  /\ enabled' = file.enabled
  /\ table' = file.table
  /\ watch' = [pc |-> "sleep", stamp |-> stamp, snapshot |-> file]
  /\ phase' = [c \in Conn |-> "idle"]
  /\ peers' = [c \in Conn |-> NoPeer]
  /\ acl' = [c \in Conn |-> {}]
  /\ UNCHANGED <<file, stamp, loaded>>

(* start_watch takes its first stamp; run_proxy reads `enabled' for its      *)
(* startup checks.                                                           *)
StartWatch ==
  /\ boot = "loaded"
  /\ boot' = "watching"
  /\ loaded' = stamp
  /\ enabledAtStart' = enabled
  /\ UNCHANGED <<file, stamp, exposed, liveVars, watch, connVars>>

(* plaintext_auth_conflict: a listener the network reaches beside a gate     *)
(* that does not cover it.                                                   *)
PlaintextConflict(gate) == exposed /\ gate

(* run_proxy binds the plaintext listener and tells the watcher about it, or *)
(* refuses to start.                                                         *)
BindListeners ==
  /\ boot = "watching"
  /\ boot' = IF PlaintextConflict(enabledAtStart) THEN "exited" ELSE "bound"
  /\ UNCHANGED <<file, stamp, exposed, enabledAtStart, liveVars, loaded, watch, connVars>>

-------------------------------------------------------------------------------
(* The operator.                                                             *)

EditConfig(f) ==
  /\ stamp < MaxEdits
  /\ boot = "loaded" => EditsDuringStartup
  /\ f # file
  /\ file' = f
  /\ stamp' = stamp + 1
  /\ UNCHANGED <<serverVars, liveVars, loaded, watch, connVars>>

-------------------------------------------------------------------------------
(* The configuration watcher.                                                *)

(* A poll that finds a stamp it has not loaded.  The stamp is taken before   *)
(* the file is read.  The back-off after a failure is a delay and nothing    *)
(* else.                                                                     *)
Poll ==
  /\ boot = "bound" \/ (SlowBind /\ boot = "watching")
  /\ watch.pc = "sleep"
  /\ stamp # loaded
  /\ watch' = [watch EXCEPT !.pc = "stamped", !.stamp = stamp]
  /\ UNCHANGED <<file, stamp, serverVars, liveVars, loaded, connVars>>

(* load_config_with_auth: a file that does not parse fails the reload and    *)
(* leaves the old stamp in place.                                            *)
ReadConfig ==
  /\ boot # "exited"
  /\ watch.pc = "stamped"
  /\ watch' = IF file.kind = "unparsable"
              THEN [watch EXCEPT !.pc = "sleep"]
              ELSE [watch EXCEPT !.pc = "read", !.snapshot = file]
  /\ UNCHANGED <<file, stamp, serverVars, liveVars, loaded, connVars>>

(* Variant: the refusal forgets the plaintext listener.                      *)
EnabledRefused_NoPlaintext(incoming) == enabled # incoming /\ enabled

(* auth_enabled_refusal: a reload never turns the gate off, and turns it on  *)
(* only when no plaintext listener the network reaches has been recorded.    *)
EnabledRefused(incoming) ==
  /\ enabled # incoming
  /\ enabled \/ (boot = "bound" /\ PlaintextConflict(TRUE))

(* apply_auth_enabled, when it reports that 2FA was just switched on.        *)
TurnsOn(incoming) == incoming /\ ~enabled /\ ~EnabledRefused(incoming)

(* ClientAuthorization::tightened_by: something the old one allowed is gone. *)
TightenedBy(old, new) == ~(old \subseteq new)

(* Variant: devices dropped from a client that stayed are not looked for.    *)
ClosedBy_NoDevices(incoming) ==
  {c \in Conn :
     LET id == peers[c].client
     IN /\ id \in DOMAIN table
        /\ \/ id \notin DOMAIN incoming
           \/ TightenedBy(table[id].acl, incoming[id].acl)}

(* The connections the reload hangs up on: those of clients the file dropped,*)
(* of devices dropped from a client that stayed, and of clients whose        *)
(* authorization shrank.                                                     *)
ClosedBy(incoming) ==
  {c \in Conn :
     LET id == peers[c].client
     IN /\ id \in DOMAIN table
        /\ \/ id \notin DOMAIN incoming
           \/ peers[c].device \in table[id].devices \ incoming[id].devices
           \/ TightenedBy(table[id].acl, incoming[id].acl)}

Unauthenticated == {c \in Conn : peers[c].client = NoClient}

(* `revoked.send_replace(true)' on the entry's channel.                      *)
Told(peer) == [peer EXCEPT !.revoked = TRUE]

(* Variant: only connections past their handshake are told.                  *)
CloseWhere_Serving(matches) ==
  peers' = [c \in Conn |->
              IF c \in matches /\ phase[c] = "serving"
              THEN Told(peers[c])
              ELSE peers[c]]

(* close_where: every registered connection that matches is told.            *)
CloseWhere(matches) ==
  peers' = [c \in Conn |->
              IF c \in matches /\ peers[c].listed
              THEN Told(peers[c])
              ELSE peers[c]]

(* Variant: the stamp is taken after the reload.                             *)
LoadedStamp_Late(new) == IF new.routes THEN stamp ELSE loaded

(* The stamp the watcher remembers after a reload: the one taken before the  *)
(* read, and only when both halves were applied.                             *)
LoadedStamp(new) == IF new.routes THEN watch.stamp ELSE loaded

(* reload_auth and the rest of reload_config.  The gate, the merge and the   *)
(* close passes run under one hold of the auth write lock.                   *)
ReloadAuth ==
  /\ boot # "exited"
  /\ watch.pc = "read"
  /\ IF watch.snapshot.kind = "auth"
     THEN /\ enabled' = (enabled \/ TurnsOn(watch.snapshot.enabled))
          /\ table' = watch.snapshot.table
          /\ CloseWhere(ClosedBy(watch.snapshot.table)
                        \cup IF TurnsOn(watch.snapshot.enabled) THEN Unauthenticated ELSE {})
     ELSE UNCHANGED <<liveVars, peers>>
  /\ loaded' = LoadedStamp(watch.snapshot)
  /\ watch' = [watch EXCEPT !.pc = "sleep"]
  /\ UNCHANGED <<file, stamp, serverVars, phase, acl>>

-------------------------------------------------------------------------------
(* A connection task: handle_connection.                                     *)

(* The connection is accepted and reads `enabled' once to decide whether it  *)
(* has to authenticate.                                                      *)
CheckGate(c) ==
  /\ boot = "bound"
  /\ phase[c] = "idle"
  /\ phase' = [phase EXCEPT ![c] = IF enabled THEN "handshake" ELSE "ungated"]
  /\ UNCHANGED <<file, stamp, serverVars, liveVars, loaded, watch, peers, acl>>

(* The credential of client `id' and device `d' is one the live table holds. *)
Credential(id, d) ==
  /\ id \in DOMAIN table
  /\ d = NoDevice \/ d \in table[id].devices

(* authenticate: the response is verified, the authorization snapshotted and *)
(* the connection registered under one hold of the auth write lock.          *)
Authenticate(c, id, d) ==
  /\ phase[c] = "handshake"
  /\ Credential(id, d)
  /\ phase' = [phase EXCEPT ![c] = "authenticated"]
  /\ peers' = [peers EXCEPT ![c] = Peer(id, d)]
  /\ acl' = [acl EXCEPT ![c] = table[id].acl]
  /\ UNCHANGED <<file, stamp, serverVars, liveVars, loaded, watch>>

(* Variant: the registry entry outlives the task.                            *)
End_KeepsPeer(c) ==
  /\ phase' = [phase EXCEPT ![c] = "idle"]
  /\ acl' = [acl EXCEPT ![c] = {}]
  /\ UNCHANGED <<file, stamp, serverVars, liveVars, loaded, watch, peers>>

(* The connection ends: its task returns and the PeerGuard, if it holds one, *)
(* takes the registry entry out.                                             *)
End(c) ==
  /\ phase' = [phase EXCEPT ![c] = "idle"]
  /\ peers' = [peers EXCEPT ![c] = NoPeer]
  /\ acl' = [acl EXCEPT ![c] = {}]
  /\ UNCHANGED <<file, stamp, serverVars, liveVars, loaded, watch>>

(* The handshake is refused or never started.                                *)
HandshakeFails(c) == phase[c] = "handshake" /\ End(c)

(* The reply cannot be written, or the handshake deadline drops the future   *)
(* after the connection was registered.                                      *)
ReplyLost(c) == phase[c] = "authenticated" /\ End(c)

Serve(c) ==
  /\ phase[c] = "authenticated"
  /\ phase' = [phase EXCEPT ![c] = "serving"]
  /\ UNCHANGED <<file, stamp, serverVars, liveVars, loaded, watch, peers, acl>>

(* The second look at the gate, for a connection that skipped the handshake. *)
RecheckGate(c) ==
  /\ phase[c] = "ungated"
  /\ IF enabled
     THEN End(c)
     ELSE /\ phase' = [phase EXCEPT ![c] = "admitted"]
          /\ UNCHANGED <<file, stamp, serverVars, liveVars, loaded, watch, peers, acl>>

(* The registration that follows it, with the read guard already dropped.    *)
RegisterUngated(c) ==
  /\ phase[c] = "admitted"
  /\ phase' = [phase EXCEPT ![c] = "serving"]
  /\ peers' = [peers EXCEPT ![c] = Peer(NoClient, NoDevice)]
  /\ acl' = [acl EXCEPT ![c] = Target]
  /\ UNCHANGED <<file, stamp, serverVars, liveVars, loaded, watch>>

(* The accept loop sees the revocation and hangs up.                         *)
CloseRevoked(c) == phase[c] = "serving" /\ peers[c].revoked /\ End(c)

(* The peer hangs up.                                                        *)
PeerLeaves(c) == phase[c] = "serving" /\ End(c)

-------------------------------------------------------------------------------
Server == StartWatch \/ BindListeners
Watcher == Poll \/ ReadConfig \/ ReloadAuth
Connection(c) ==
  \/ CheckGate(c)
  \/ \E id \in Client, d \in Device \cup {NoDevice} : Authenticate(c, id, d)
  \/ HandshakeFails(c) \/ ReplyLost(c) \/ Serve(c)
  \/ RecheckGate(c) \/ RegisterUngated(c)
  \/ CloseRevoked(c) \/ PeerLeaves(c)

Next ==
  \/ Server \/ Restart
  \/ \E f \in Contents : EditConfig(f)
  \/ Watcher
  \/ \E c \in Conn : Connection(c)

Spec == Init /\ [][Next]_vars

(* run_proxy runs to its accept loop, the watcher's loop never ends, a       *)
(* handshake has a deadline, and a task the runtime can run is run.  Nothing *)
(* is assumed of the operator or of the peers.                               *)
Fairness ==
  /\ WF_vars(Server)
  /\ WF_vars(Watcher)
  /\ \A c \in Conn :
       /\ WF_vars(HandshakeFails(c) \/ Serve(c) \/ ReplyLost(c))
       /\ WF_vars(RecheckGate(c) \/ RegisterUngated(c))
       /\ WF_vars(CloseRevoked(c))

FairSpec == Spec /\ Fairness

-------------------------------------------------------------------------------
(* Properties.                                                               *)

(* Every authenticated connection in the registry that has not been told to  *)
(* stop holds a credential the live table still lists and an authorization   *)
(* the live table still grants: no interleaving of a handshake with a reload *)
(* (authenticate registering under the write lock, reload_auth closing under *)
(* it) leaves a revoked or tightened client connected and untold.            *)
RevokedAreTold ==
  \A c \in Conn :
    peers[c].listed /\ peers[c].client # NoClient /\ ~peers[c].revoked =>
      /\ Credential(peers[c].client, peers[c].device)
      /\ acl[c] \subseteq table[peers[c].client].acl

(* 2FA and a plaintext listener the network reaches never run side by side:  *)
(* run_proxy refuses to start that way, and auth_enabled_refusal keeps a     *)
(* reload from getting there.                                                *)
PlaintextNeverBesideGate == boot = "bound" => ~PlaintextConflict(enabled)

(* Once 2FA gates the listener, every connection that never authenticated    *)
(* has been told to stop (conn/mod.rs: a connection the reload could not     *)
(* find in the registry is refused by the second look at the gate).          *)
GateClosesUnauthenticated ==
  enabled => \A c \in Conn :
               phase[c] = "serving" /\ peers[c].client = NoClient => peers[c].revoked

(* What the operator last wrote reaches the server: once the edits stop on a *)
(* file with an [auth] section, the live client table becomes that file's    *)
(* and stays so.  A stamp taken before the read is what keeps an edit that   *)
(* lands during a reload from being forgotten.                               *)
EditsReachTheServer == <>[](boot = "bound" /\ file.kind = "auth" => table = file.table)

(* A client whose removal is final is eventually served on no connection,    *)
(* whatever handshakes were under way while the reload ran.                  *)
RevocationReachesConnections ==
  \A id \in Client :
    <>[](boot = "bound" /\ file.kind = "auth" /\ id \notin DOMAIN file.table
         => \A c \in Conn : phase[c] = "serving" => peers[c].client # id)
===============================================================================

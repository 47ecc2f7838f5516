---------------------------- MODULE Authorization ----------------------------
(***************************************************************************)
(* What a client may reach, and when a reload takes some of it away.       *)
(*                                                                         *)
(* A connection carries the access list it was given at its handshake      *)
(* (auth/config/acl.rs) and never reads the live one again.  The only      *)
(* thing that stops it from using a permission the operator has withdrawn  *)
(* is the syntactic comparison of the old and the new lists the watcher    *)
(* makes at a reload (ClientAuthorization::tightened_by): when it answers  *)
(* yes the connection is closed, when it answers no the connection keeps   *)
(* its old list.                                                           *)
(*                                                                         *)
(* A host is the sequence of its labels, already folded by normalize_host; *)
(* a pattern is a name, `*.suffix' or the catch-all, already folded by     *)
(* normalize_pattern.  The other spellings (an empty pattern, a leading    *)
(* dot, a `*' with no dot after it) are refused by pattern_error when the  *)
(* file is loaded, so no live or incoming list holds one.                  *)
(***************************************************************************)
EXTENDS Naturals, Sequences

CONSTANTS
  Label,          \* the labels of a host name
  Port,           \* port numbers
  Host,           \* the hosts a request can name
  Lists,          \* the authorizations the operator can write
  Unrestricted    \* an absent allow_hosts or allow_ports: None

\* The patterns of an allow-list.
Name(labels)   == [kind |-> "name", labels |-> labels]
Wild(suffix)   == [kind |-> "wild", labels |-> suffix]
CatchAll       == [kind |-> "all",  labels |-> << >>]

IsPattern(p) == p \in [kind : {"name", "wild", "all"}, labels : Seq(Label)]

(* ClientAuthorization, and the ClientAcl built from the same three fields. *)
IsAuthorization(a) ==
  /\ a = [hosts |-> a.hosts, ports |-> a.ports, strict |-> a.strict]
  /\ a.hosts # Unrestricted => \A p \in a.hosts : IsPattern(p)
  /\ a.ports # Unrestricted => a.ports \subseteq Port
  /\ a.strict \in BOOLEAN

ASSUME AuthorizationAssumption ==
  /\ Host \subseteq Seq(Label)
  /\ \A a \in Lists : IsAuthorization(a)

(***************************************************************************)
(* The matcher: what a request is judged by.                               *)
(***************************************************************************)

(* The label boundary: h ends in the labels of s and has more before them. *)
Under(h, s) ==
  /\ Len(s) < Len(h)
  /\ \A i \in 1..Len(s) : h[(Len(h) - Len(s)) + i] = s[i]

(* host_matches *)
HostMatches(p, h) ==
  \/ p.kind = "name" /\ p.labels = h
  \/ p.kind = "all"
  \/ p.kind = "wild" /\ Under(h, p.labels)

(* ClientAcl::allows *)
Allows(a, h) == a.hosts # Unrestricted => \E p \in a.hosts : HostMatches(p, h)

(* ClientAcl::allows_port *)
AllowsPort(a, port) == a.ports # Unrestricted => port \in a.ports

(* ClientAcl::allows_backend_port *)
AllowsBackendPort(a, port) == a.strict => AllowsPort(a, port)

(* ClientAcl::allows_target, asked of a preface, which names both. *)
AllowsTarget(a, h, port) == Allows(a, h) /\ AllowsPort(a, port)

(***************************************************************************)
(* The comparison: what a reload is judged by.                             *)
(***************************************************************************)

(* Variant: a name is taken to cover the wildcard with its suffix. *)
PatternCovers_Apex(other, p) ==
  \/ other.kind = "all"
  \/ other.kind = "name" /\ p.kind \in {"name", "wild"} /\ other.labels = p.labels
  \/ other.kind = "wild" /\ p.kind = "name" /\ Under(p.labels, other.labels)
  \/ other.kind = "wild" /\ p.kind = "wild"
     /\ (p.labels = other.labels \/ Under(p.labels, other.labels))

(* pattern_covers *)
PatternCovers(other, p) ==
  \/ other.kind = "all"
  \/ other.kind = "name" /\ p.kind = "name" /\ other.labels = p.labels
  \/ other.kind = "wild" /\ p.kind = "name" /\ Under(p.labels, other.labels)
  \/ other.kind = "wild" /\ p.kind = "wild"
     /\ (p.labels = other.labels \/ Under(p.labels, other.labels))

(* hosts_taken_away *)
HostsTakenAway(old, new) ==
  /\ new.hosts # Unrestricted
  /\ \/ old.hosts = Unrestricted
     \/ \E p \in old.hosts : ~\E other \in new.hosts : PatternCovers(other, p)

(* ports_taken_away *)
PortsTakenAway(old, new) ==
  /\ new.ports # Unrestricted
  /\ \/ old.ports = Unrestricted
     \/ \E port \in old.ports : port \notin new.ports

(* ports_checked_stricter *)
PortsCheckedStricter(old, new) ==
  ~old.strict /\ new.strict /\ new.ports # Unrestricted

(* Variant: turning allow_ports_strict on is not seen as a tightening. *)
TightenedBy_NotStrict(old, new) ==
  HostsTakenAway(old, new) \/ PortsTakenAway(old, new)

(* tightened_by *)
TightenedBy(old, new) ==
  \/ HostsTakenAway(old, new)
  \/ PortsTakenAway(old, new)
  \/ PortsCheckedStricter(old, new)

(***************************************************************************)
(* One client, one of its connections, and the reloads it lives through.   *)
(***************************************************************************)
VARIABLES
  live,    \* the client's authorization in the live configuration
  held,    \* the list the connection was given at its handshake
  open     \* whether the connection is open

vars == <<live, held, open>>

Init ==
  /\ live \in Lists
  /\ held = live
  /\ open = FALSE

(* authenticate: the outcome carries ClientAcl::from_hosts_and_ports of the *)
(* entry the code was accepted for.                                         *)
Handshake ==
  /\ ~open
  /\ held' = live
  /\ open' = TRUE
  /\ UNCHANGED live

(* reload_auth, for a client that stays listed with the same credential: the *)
(* entry is replaced, and the connections are told to close when the         *)
(* incoming authorization takes something away.                              *)
Reload(new) ==
  /\ live' = new
  /\ open' = (open /\ ~TightenedBy(live, new))
  /\ UNCHANGED held

Next == Handshake \/ \E new \in Lists : Reload(new)

Spec == Init /\ [][Next]_vars

(***************************************************************************)
(* Properties                                                              *)
(***************************************************************************)

(* The live list and the held one are authorizations. *)
TypeOK ==
  /\ IsAuthorization(live)
  /\ IsAuthorization(held)
  /\ open \in BOOLEAN

\* Everything `a' grants, `b' grants: every tunnel target, and every host
\* served from every backend port.
Within(a, b) ==
  \A h \in Host, port \in Port :
    /\ AllowsTarget(a, h, port) => AllowsTarget(b, h, port)
    /\ Allows(a, h) /\ AllowsBackendPort(a, port) =>
         Allows(b, h) /\ AllowsBackendPort(b, port)

(***************************************************************************)
(* A connection that is still open after any number of reloads reaches     *)
(* nothing the live configuration no longer grants: tightened_by, which    *)
(* compares each pair of neighbouring revisions pattern by pattern, misses *)
(* no host and no port the matcher would have let through.                 *)
(***************************************************************************)
OpenStaysWithinLive == open => Within(held, live)

(***************************************************************************)
(* pattern_covers decides exactly what it claims: `other' covers `p' if    *)
(* and only if every host p matches is matched by other.  The universe of  *)
(* hosts has to reach one label past the longest pattern, or a wildcard    *)
(* would match too little to be told from a name.                          *)
(***************************************************************************)
CoversIsExact ==
  live.hosts # Unrestricted /\ held.hosts # Unrestricted =>
    \A p, other \in live.hosts \cup held.hosts :
      PatternCovers(other, p) <=>
        \A h \in Host : HostMatches(p, h) => HostMatches(other, h)
=============================================================================

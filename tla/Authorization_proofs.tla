------------------------- MODULE Authorization_proofs -------------------------
(***************************************************************************)
(* That an open connection never reaches past the live list, for every set *)
(* of labels, ports and lists.  The argument is pointwise: under the label *)
(* boundary is transitive, so a covering pattern matches what the covered  *)
(* one does; hence a reload that is not a tightening keeps every grant,    *)
(* and grants are kept along any number of such reloads.                   *)
(***************************************************************************)
EXTENDS Authorization, TLAPS

(* The label boundary is transitive: a host under a suffix that is itself  *)
(* under a second one is under the second one too.                         *)
LEMMA UnderTransitive ==
  ASSUME NEW h \in Seq(Label), NEW s \in Seq(Label), NEW t \in Seq(Label),
         Under(h, s), Under(s, t)
  PROVE  Under(h, t)
<1>1. Len(h) \in Nat /\ Len(s) \in Nat /\ Len(t) \in Nat
  OBVIOUS
<1>2. Len(t) < Len(h)
  BY <1>1 DEF Under
<1>3. ASSUME NEW i \in 1..Len(t)
      PROVE  h[(Len(h) - Len(t)) + i] = t[i]
  <2> DEFINE j == (Len(s) - Len(t)) + i
  <2>1. j \in 1..Len(s)
    BY <1>1 DEF Under
  <2>2. h[(Len(h) - Len(s)) + j] = s[j]
    BY <2>1 DEF Under
  <2>3. s[j] = t[i]
    BY DEF Under
  <2>4. (Len(h) - Len(s)) + j = (Len(h) - Len(t)) + i
    BY <1>1
  <2> QED
    BY <2>2, <2>3, <2>4
<1> QED
  BY <1>2, <1>3 DEF Under

(* pattern_covers is sound for host_matches: what a covered pattern matches *)
(* its cover matches.                                                       *)
LEMMA CoversIsSound ==
  ASSUME NEW other, IsPattern(other), NEW p, IsPattern(p), NEW h \in Seq(Label),
         PatternCovers(other, p), HostMatches(p, h)
  PROVE  HostMatches(other, h)
<1>1. other.labels \in Seq(Label) /\ p.labels \in Seq(Label)
  BY DEF IsPattern
<1>2. CASE p.kind = "wild" /\ other.kind = "wild" /\ Under(p.labels, other.labels)
  <2>1. Under(h, p.labels)
    BY <1>2 DEF HostMatches
  <2>2. Under(h, other.labels)
    BY <1>1, <1>2, <2>1, UnderTransitive
  <2> QED
    BY <1>2, <2>2 DEF HostMatches
<1>3. CASE ~(p.kind = "wild" /\ other.kind = "wild" /\ Under(p.labels, other.labels))
  BY <1>3 DEF PatternCovers, HostMatches
<1> QED
  BY <1>2, <1>3

(* A reload that tightened_by does not report takes no host away. *)
LEMMA HostsAreKept ==
  ASSUME NEW old, IsAuthorization(old), NEW new, IsAuthorization(new),
         ~TightenedBy(old, new), NEW h \in Seq(Label), Allows(old, h)
  PROVE  Allows(new, h)
<1>1. CASE new.hosts = Unrestricted
  BY <1>1 DEF Allows
<1>2. CASE new.hosts # Unrestricted
  <2>1. old.hosts # Unrestricted
    BY <1>2 DEF TightenedBy, HostsTakenAway
  <2>2. PICK p \in old.hosts : HostMatches(p, h)
    BY <2>1 DEF Allows
  <2>3. PICK other \in new.hosts : PatternCovers(other, p)
    BY <1>2 DEF TightenedBy, HostsTakenAway
  <2>4. IsPattern(p) /\ IsPattern(other)
    BY <1>2, <2>1 DEF IsAuthorization
  <2>5. HostMatches(other, h)
    BY <2>2, <2>3, <2>4, CoversIsSound
  <2> QED
    BY <2>5 DEF Allows
<1> QED
  BY <1>1, <1>2

(* Nor does it take a port away, where the client names it or where the    *)
(* request is served from.                                                 *)
LEMMA PortsAreKept ==
  ASSUME NEW old, NEW new, ~TightenedBy(old, new), NEW port
  PROVE  /\ AllowsPort(old, port) => AllowsPort(new, port)
         /\ AllowsBackendPort(old, port) => AllowsBackendPort(new, port)
<1>1. AllowsPort(old, port) => AllowsPort(new, port)
  BY DEF TightenedBy, PortsTakenAway, AllowsPort
<1>2. AllowsBackendPort(old, port) => AllowsBackendPort(new, port)
  <2>1. CASE new.strict /\ ~old.strict
    BY <2>1 DEF TightenedBy, PortsCheckedStricter, AllowsBackendPort, AllowsPort
  <2>2. CASE ~(new.strict /\ ~old.strict)
    BY <1>1, <2>2 DEF AllowsBackendPort
  <2> QED
    BY <2>1, <2>2
<1> QED
  BY <1>1, <1>2

(* tightened_by is sound: if it does not report a loss there is none. *)
THEOREM NoLossGoesUnreported ==
  ASSUME NEW old, IsAuthorization(old), NEW new, IsAuthorization(new),
         ~TightenedBy(old, new)
  PROVE  Within(old, new)
<1> SUFFICES ASSUME NEW h \in Host, NEW port \in Port
             PROVE  /\ AllowsTarget(old, h, port) => AllowsTarget(new, h, port)
                    /\ Allows(old, h) /\ AllowsBackendPort(old, port) =>
                         Allows(new, h) /\ AllowsBackendPort(new, port)
  BY DEF Within
<1>1. h \in Seq(Label)
  BY AuthorizationAssumption
<1>2. Allows(old, h) => Allows(new, h)
  BY <1>1, HostsAreKept
<1>3. /\ AllowsPort(old, port) => AllowsPort(new, port)
      /\ AllowsBackendPort(old, port) => AllowsBackendPort(new, port)
  BY PortsAreKept
<1> QED
  BY <1>2, <1>3 DEF AllowsTarget

(* Being within is transitive, which is what carries the comparison of     *)
(* neighbouring revisions along a connection's whole life.                 *)
LEMMA WithinTransitive ==
  ASSUME NEW x, NEW y, NEW z, Within(x, y), Within(y, z)
  PROVE  Within(x, z)
BY DEF Within

(* The live list and the one a connection holds are always lists the       *)
(* operator wrote.                                                         *)
THEOREM TypeCorrect == Spec => []TypeOK
<1>1. Init => TypeOK
  BY AuthorizationAssumption DEF Init, TypeOK
<1>2. TypeOK /\ [Next]_vars => TypeOK'
  <2> SUFFICES ASSUME TypeOK, [Next]_vars
               PROVE  TypeOK'
    OBVIOUS
  <2>1. CASE Handshake
    BY <2>1 DEF Handshake, TypeOK
  <2>2. ASSUME NEW new \in Lists, Reload(new)
        PROVE  TypeOK'
    <3>1. IsAuthorization(new) /\ live' = new /\ held' = held
      BY <2>2, AuthorizationAssumption DEF Reload
    <3>2. open' \in BOOLEAN
      BY <2>2, Zenon DEF Reload, TypeOK
    <3> QED
      BY <3>1, <3>2 DEF TypeOK
  <2>3. CASE UNCHANGED vars
    BY <2>3 DEF vars, TypeOK
  <2> QED
    BY <2>1, <2>2, <2>3 DEF Next
<1> QED
  BY <1>1, <1>2, PTL DEF Spec

(* Whatever lists the operator writes, in whatever order, a connection that *)
(* is still open is granted nothing the live list does not grant.           *)
THEOREM NothingOutlivesItsGrant == Spec => []OpenStaysWithinLive
<1>1. Init => OpenStaysWithinLive
  BY DEF Init, OpenStaysWithinLive
<1>2. TypeOK /\ TypeOK' /\ OpenStaysWithinLive /\ [Next]_vars => OpenStaysWithinLive'
  <2> SUFFICES ASSUME TypeOK, TypeOK', OpenStaysWithinLive, [Next]_vars, open'
               PROVE  Within(held', live')
    BY DEF OpenStaysWithinLive, Within, AllowsTarget, Allows, AllowsPort, AllowsBackendPort
  <2>1. CASE Handshake
    BY <2>1 DEF Handshake, Within
  <2>2. ASSUME NEW new \in Lists, Reload(new)
        PROVE  Within(held', live')
    <3>1. open /\ ~TightenedBy(live, new) /\ live' = new /\ held' = held
      BY <2>2 DEF Reload
    <3>2. Within(held, live)
      BY <3>1 DEF OpenStaysWithinLive
    <3>3. Within(live, new)
      BY <3>1, AuthorizationAssumption, NoLossGoesUnreported DEF TypeOK
    <3>4. Within(held, new)
      BY <3>2, <3>3, WithinTransitive
    <3> QED
      BY <3>1, <3>4
  <2>3. CASE UNCHANGED vars
    BY <2>3 DEF vars, OpenStaysWithinLive
  <2> QED
    BY <2>1, <2>2, <2>3 DEF Next
<1> QED
  BY <1>1, <1>2, TypeCorrect, PTL DEF Spec
=============================================================================

---------------------------- MODULE MCRevocation ----------------------------
(* Small instances of Revocation for TLC.                                  *)
EXTENDS Revocation

CONSTANTS a, d, t1, t2

MCClient == {a}
MCDevice == {d}
MCTarget == {t1, t2}

Entry(devices, targets) == [devices |-> devices, acl |-> targets]
Auth(gate, tab, builds) == [kind |-> "auth", enabled |-> gate, table |-> tab, routes |-> builds]
Other(k) == [kind |-> k, enabled |-> FALSE, table |-> <<>>, routes |-> TRUE]
Only(e) == [id \in {a} |-> e]

(* The revisions the operator writes: the client with everything, with one *)
(* target less, with another one less, without its device, and not at all; *)
(* the gate on and off; a route table that does not build; no [auth]       *)
(* section; a file that does not parse.                                    *)
MCContents ==
  { Auth(TRUE, Only(Entry({d}, {t1, t2})), TRUE),
    Auth(TRUE, Only(Entry({d}, {t1})), TRUE),
    Auth(TRUE, Only(Entry({d}, {t2})), FALSE),
    Auth(TRUE, Only(Entry({}, {t1, t2})), TRUE),
    Auth(TRUE, <<>>, TRUE),
    Auth(FALSE, Only(Entry({d}, {t1, t2})), TRUE),
    Other("no_auth"),
    Other("unparsable") }
=============================================================================

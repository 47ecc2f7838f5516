--------------------------- MODULE MCAuthorization ---------------------------
(***************************************************************************)
(* Two labels, the hosts of up to three of them, and the lists of up to    *)
(* two patterns drawn from names, nested wildcards, a wildcard beside them *)
(* and the catch-all.                                                      *)
(***************************************************************************)
EXTENDS Authorization, FiniteSetsExt

CONSTANTS a, b

MCLabel == {a, b}
MCPort == 1..3          \* one port more than a list can name
MCHost == UNION {[1..n -> MCLabel] : n \in 1..3}

MCPatterns ==
  {CatchAll, Name(<<a>>), Name(<<b, a>>),
   Wild(<<a>>), Wild(<<b, a>>), Wild(<<b>>)}

MCLists ==
  [hosts  : {Unrestricted} \cup UNION {kSubset(n, MCPatterns) : n \in 0..2},
   ports  : {Unrestricted, {1}, {1, 2}},
   strict : BOOLEAN]
=============================================================================

--------------------------- MODULE MCEnvProvision ---------------------------
(***************************************************************************)
(* Instances of EnvProvision for TLC.                                      *)
(***************************************************************************)
EXTENDS EnvProvision, TLC

CONSTANTS p1, p2, s1, s2, w1, w2, c1, c2, c3

Prefixed(s) == [stem |-> s, prefixed |-> TRUE]
Bare(s) == [stem |-> s, prefixed |-> FALSE]
Object(name, marker, state) ==
    [project |-> p1, name |-> name, marker |-> marker, state |-> state,
     deletionProtection |-> FALSE]

Unborn1 == Object(Bare(s1), NoMarker, "unborn")

MCNames == {Prefixed(s1), Bare(s1), Prefixed(s2)}
(* A free slot, and a cluster that was there before: the one that is asked  *)
(* for, or another that counts.                                             *)
MCOrg == {Unborn1, Object(Prefixed(s1), NoMarker, "healthy")}
MCOther == {Unborn1, Object(Prefixed(s2), NoMarker, "healthy")}
MCNothing == {}
MCOneEnv == {Bare(s1)}
MCPrefixedEnv == {Prefixed(s1)}
MCPlain == {{}}
MCAll == {{"cidr", "sample", "scope", "collection", "appService", "appServiceCidr"}}
(* Threads are alike, and so are the ids no setting names: which of those   *)
(* that are still unborn a create draws makes no difference.                *)
MCAlike == Permutations(Workers) \union Permutations({c1, c2})
=============================================================================

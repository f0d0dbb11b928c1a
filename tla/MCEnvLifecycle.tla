--------------------------- MODULE MCEnvLifecycle ---------------------------
(***************************************************************************)
(* Instances of EnvLifecycle for TLC.                                      *)
(***************************************************************************)
EXTENDS EnvLifecycle

CONSTANTS p1, s1, s2, w1, w2

Prefixed(s) == [stem |-> s, prefixed |-> TRUE]
Bare(s) == [stem |-> s, prefixed |-> FALSE]

Object(name, marker, state, protection) ==
    [project |-> p1, name |-> name, marker |-> marker, state |-> state,
     deletionProtection |-> protection]

Marker(env, life) == [env |-> env, life |-> life]

Unborn == Object(Bare(s1), NoMarker, "unborn", FALSE)

(* An expired environment, one that nothing names, and a free slot: those   *)
(* whose time is still running are created meanwhile, under any name.       *)
MCCollectStart ==
    {Object(Prefixed(s1), Marker(Bare(s1), "expired"), "healthy", FALSE),
     Object(Prefixed(s2), Marker(BlankEnv, "expired"), "turnedOff", FALSE),
     Unborn}

(* A running environment, one that is off, one that Capella protects, one   *)
(* on the protected list, and a hand-made cluster.                          *)
MCCallsStart ==
    {Object(Prefixed(s1), Marker(Bare(s1), "expired"), "healthy", FALSE),
     Object(Prefixed(s1), Marker(Bare(s1), "live"), "turnedOff", TRUE),
     Object(Prefixed(s2), Marker(Prefixed(s2), "live"), "turnedOff", FALSE),
     Object(Bare(s1), NoMarker, "healthy", FALSE)}

MCNames == {Prefixed(s1), Bare(s1), Prefixed(s2)}
MCEnvArgs == {Bare(s1)}
MCNothing == {}
MCProjects == {p1}
MCProtectedNames == {Prefixed(s2)}
MCReap == {"reap"}
MCAllOps == {"teardown", "reap", "park", "resume"}
=============================================================================

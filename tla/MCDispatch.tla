----------------------------- MODULE MCDispatch -----------------------------
(* Small instances of Dispatch for TLC.                                    *)
EXTENDS Dispatch

CONSTANTS r1, r2, w1, nobody, anonymous, info, drop, teardown, unloaded, service

(* A workflow's token that may write but was not given the read scope.  Tools: one *)
(* that reads, a gated write, one under the hard ceiling, one that is not loaded.  *)
GrantsOf == [t \in Tokens |-> {"write", "automation"}]
=============================================================================

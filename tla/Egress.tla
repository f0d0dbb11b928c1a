-------------------------------- MODULE Egress --------------------------------
(* Which destinations the cluster may be told to contact (handlers/egress.py):   *)
(* the verdict on one destination, and the walks that find the destinations of a  *)
(* payload.  Parsing a host out of a value is abstracted to the forms below.       *)
EXTENDS Naturals, FiniteSets

CONSTANTS
  Destinations,  \* the values callers give where a destination may stand
  AllowAny,      \* CB_ADMIN_EGRESS_ALLOW_ANY
  SkipDns,       \* CB_ADMIN_EGRESS_SKIP_DNS
  MaxWalkLeaves  \* _MAX_WALK_LEAVES

\* Where an address lies: one of the networks that are never contacted, a private
\* one, or none of these.
Ranges == {"denied", "private", "public"}

\* A value, once split_host has taken the host out of it.  An address has its range;
\* a name of _ALWAYS_DENIED_NAMES is "denied", any other is found in the DNS.
\* listed: an entry of CB_ADMIN_EGRESS_ALLOWED_HOSTS matches.  shaped: it has a
\* scheme, a dot or a colon, or is an address or a name that is never contacted.
ValidDestination(d) ==
  /\ d.form \in {"address", "name", "malformed"} /\ d.listed \in BOOLEAN /\ d.shaped \in BOOLEAN
  /\ d.form = "address" => d.range \in Ranges
  /\ d.form # "address" => d.range \in {"denied", "dns"}
  /\ d.form = "address" \/ d.range = "denied" => d.shaped

ASSUME EgressAssumption ==
  /\ \A d \in Destinations : ValidDestination(d)
  /\ AllowAny \in BOOLEAN /\ SkipDns \in BOOLEAN /\ MaxWalkLeaves \in Nat

Named(d) == d.form = "name" /\ d.range = "dns"

AlwaysDenied(d) == d.range = "denied"

\* Defect: a name is never looked up.
ResolvedUnchecked(d, dns) == TRUE

\* Every address of a name is looked at, unless lookups are switched off; a private
\* one asks for an explicit entry.
ResolvedAllowed(d, dns) ==
  Named(d) /\ ~SkipDns =>
    /\ "denied" \notin dns[d]
    /\ "private" \in dns[d] => d.listed

\* An entry of the operator admits it; ALLOW_ANY admits what could be looked at.
Admitted(d, dns) ==
  \/ d.listed
  \/ (AllowAny /\ (Named(d) /\ ~SkipDns => dns[d] # {}))

\* assert_egress_allowed: does it return?
EgressAllowed(d, dns) ==
  /\ d.form # "malformed"
  /\ ~AlwaysDenied(d)
  /\ d.range = "private" => d.listed
  /\ ResolvedAllowed(d, dns)
  /\ Admitted(d, dns)
--------------------------------------------------------------------------------
(* A leaf of a payload: the kind of key it stands under ("host" contains one of   *)
(* _HOST_LIKE_FRAGMENTS, "exempt" is on the list of exemptions), its depth, and    *)
(* whether it is the payload itself or an element of a payload that is a list.     *)
ValidLeaf(l) ==
  l.key \in {"host", "exempt", "other"} /\ l.atRoot \in BOOLEAN /\ l.dest \in Destinations

Relevant(l) == l.key = "host" \/ (l.atRoot /\ l.dest.shaped)

\* Defect: an exemption lifts every denial.
LeafExempted(l, dns) ==
  IF ~l.atRoot /\ l.key = "exempt" THEN TRUE ELSE Relevant(l) => EgressAllowed(l.dest, dns)

\* An exempted field keeps the denials no setting lifts; what is at the root is looked
\* at whatever its key, if it has the shape of a destination.
LeafAllowed(l, dns) ==
  IF ~l.atRoot /\ l.key = "exempt"
  THEN ~AlwaysDenied(l.dest)
  ELSE Relevant(l) => EgressAllowed(l.dest, dns)

\* guard_host_like_fields: the fields of one object.
GuardFlat(payload, dns) == \A l \in payload : LeafAllowed(l, dns)

\* guard_nested_host_fields: at any depth, but not past the number it may look up.
GuardNested(payload, dns) ==
  /\ Cardinality({l \in payload : Relevant(l)}) <= MaxWalkLeaves
  /\ \A l \in payload : LeafAllowed(l, dns)

\* assert_egress_allowed on the argument itself.
GuardDirect(payload, dns) == \A l \in payload : EgressAllowed(l.dest, dns)
================================================================================

----------------------------- MODULE MCAdminCalls -----------------------------
EXTENDS AdminCalls

Destination(form, range, listed, shaped) ==
  [form |-> form, range |-> range, listed |-> listed, shaped |-> shaped]

\* Literal addresses of every range, a name that is never contacted, and a name found
\* in the DNS, listed or not, dotted or bare.
SomeDestinations ==
  {Destination("address", "denied", TRUE, TRUE), Destination("address", "private", FALSE, TRUE),
   Destination("address", "public", FALSE, TRUE), Destination("name", "denied", TRUE, TRUE),
   Destination("name", "dns", FALSE, TRUE), Destination("name", "dns", TRUE, FALSE),
   Destination("malformed", "dns", FALSE, TRUE)}
MCDestinations == SomeDestinations
Leaf(key, atRoot, dest) == [key |-> key, atRoot |-> atRoot, dest |-> dest]
Leaves ==
  {Leaf(key, atRoot, dest) : key \in {"host", "exempt", "other"}, atRoot \in BOOLEAN,
                              dest \in SomeDestinations}

\* One leaf, or more of them than may be looked up.
SomePayloads ==
  {{l} : l \in Leaves} \union
  {{Leaf("host", FALSE, dest) : dest \in {d \in SomeDestinations : d.range # "private"}}}

MCPayloads == SomePayloads

MCStatements ==
  [does : {"read", "create", "build", "drop", "write"}, single : BOOLEAN, string : {TRUE}]
    \union {[does |-> "read", single |-> TRUE, string |-> FALSE]}

\* One tool of every kind the registry tells apart, and those with rules of their own.
Special ==
  {"alerts_set", "user_change_password", "user_delete", "index_create", "index_drop",
   "kmip_set", "backup_repository_create"}
Kind(name) ==
  [request |-> Request(name), flags |-> CallOf[name].flags, hint |-> HintOf[name],
   alone |-> IF name \in Special THEN name ELSE "no"]
Representatives ==
  {CHOOSE name \in CallNames : Kind(name) = kind : kind \in {Kind(name) : name \in CallNames}}
MCCalls == Representatives
Together ==
  {name \in Representatives :
     \/ UsesSdk(name) /\ Does(name, "gate")
     \/ name \in {"user_change_password", "user_delete"}}
MCOverlapping == Together
================================================================================

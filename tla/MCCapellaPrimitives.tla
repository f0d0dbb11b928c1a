-------------------------- MODULE MCCapellaPrimitives --------------------------
EXTENDS CapellaPrimitives

Name(stem, prefixed) == [stem |-> stem, prefixed |-> prefixed]
MCNames == {Name("a", TRUE), Name("a", FALSE), Name("kept", TRUE)}
MCProtected == {Name("kept", TRUE)}
Live == [env |-> Name("a", TRUE), life |-> "live"]
Object(name, marker, protection, project) ==
  [name |-> name, marker |-> marker, deletionProtection |-> protection, project |-> project]

\* An environment, a hand-made cluster, one on the protected list, one with deletion
\* protection, and one in a project outside the allowlist.
MCStartingClusters ==
  {Object(Name("a", TRUE), Live, FALSE, "p1"), Object(Name("a", FALSE), NoMarker, FALSE, "p1"),
   Object(Name("kept", TRUE), Live, FALSE, "p1"), Object(Name("a", TRUE), NoMarker, TRUE, "p1"),
   Object(Name("a", TRUE), Live, FALSE, "p2")}
MCDescriptions == {NoMarker, Live}
\* One tool of every kind the guardrails and the client tell apart, by the registry.
Kind(name) ==
  [method |-> Method(name), place |-> Place(name), guarded |-> Guarded(name),
   paginated |-> Has(name, "paginated"),
   alone |-> IF name \in WrittenByBody \union
                         {"project_create", "cluster_update", "cluster_delete", "project_delete"}
             THEN name ELSE "no",
   additive |-> name \in Additive]
Representatives ==
  LET names == OpNames \ {"cluster_create"}
  IN  {CHOOSE name \in names : Kind(name) = kind : kind \in {Kind(name) : name \in names}}
MCCalls == Representatives
================================================================================

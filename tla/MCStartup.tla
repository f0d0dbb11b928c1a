------------------------------- MODULE MCStartup -------------------------------
EXTENDS Startup, TLC

Tool(plane, writes, neutral) == [plane |-> plane, writes |-> writes, neutral |-> neutral]
MCTools ==
  {Tool("capella", w, FALSE) : w \in BOOLEAN} \union
  {Tool("self_managed", w, n) : w, n \in BOOLEAN}

\* A laptop, a container on a laptop, an unattended server, its console, and one that
\* manages Capella.
NothingSet == [name \in Names |-> "unset"]
Workstation == [NothingSet EXCEPT !.profile = "workstation"]
Container == [Workstation EXCEPT
  !.transport = "http", !.host = "wild", !.container = "true", !.requireAuth = "true",
  !.tls = "external"]
Unattended == [NothingSet EXCEPT
  !.profile = "enterprise", !.transport = "http", !.host = "wild", !.tls = "external",
  !.issuer = "https", !.audience = "set", !.connection = "other", !.declared = "self_managed"]
WithConsole == [Unattended EXCEPT !.secret = "set", !.guiHost = "wild", !.guiRemote = "true"]
OnCapella == [Unattended EXCEPT
  !.connection = "unset", !.apiKey = "set", !.declared = "capella"]
MCStartingEnvs == {NothingSet, Workstation, Container, Unattended, WithConsole, OnCapella}
================================================================================

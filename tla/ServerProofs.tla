------------------------------ MODULE ServerProofs -----------------------------
(* Whom the server answers, and for what.  For every environment an operator can   *)
(* write: what of the operator's statement is in force in the process that starts. *)
(* For any number of threads, key ids, key sets, windows and budgets: a token      *)
(* whose key is held is never refused by the throttle, which keeps to its budget.  *)
(* For any number of calls, threads, tools and tokens, and whatever the server is  *)
(* configured to load, gate and preview: a handler runs only for a call every gate *)
(* admits, no dead token passes the scope gate, the audit trail tells what         *)
(* happened.                                                                       *)
EXTENDS Startup, TokenThrottle, Dispatch, FiniteSetTheorems, TLAPS

\* The stages in their order; the last two are the ends.
StartupStages == {"edit", "profile", "validate", "snapshot", "load", "audit", "enforce",
           "main", "serving", "refused"}

\* Every variable holds what it may hold.
WellFormed(e) == DOMAIN e = Names /\ \A name \in Names : e[name] \in Choices[name]
EnvsOK == WellFormed(stated) /\ WellFormed(env)

\* What the profile leaves of what was stated.
Profiled ==
  /\ env.gate = stated.gate
  /\ env.profile # "unset" =>
       env.readOnly = IF stated.readOnly = "unset" THEN "false" ELSE stated.readOnly

\* A decision stands as it was taken: the environment does not change after it.
Decided ==
  /\ stage \in {"edit", "profile"} => env = stated
  /\ stage \notin {"edit", "profile"} => Profiled
  /\ stage \notin {"edit", "profile", "validate"} => errors = ~Coherent
  /\ stage \notin {"edit", "profile", "validate", "snapshot"} =>
       snapshot = (env.readOnly = "unset" \/ Truthy("readOnly"))
  /\ stage \notin {"edit", "profile", "validate", "snapshot", "load"} => loaded = Filtered

Bound ==
  serves = "http" =>
    Transport = "http" /\ (Host = "loopback" \/ Listed("requireAuth"))

\* Whoever serves has passed the check of its posture; a worker of the console may
\* not have, and refuses every request.
Posture ==
  /\ stage \in {"main", "serving"} /\ process = "server" => ServerCoherent
  /\ stage # "serving" => serves = "none"
  /\ stage = "main" => process = "server"
  /\ stage = "serving" =>
       IF process = "server" THEN serves \in {"stdio", "http"} /\ Bound
       ELSE process \in Consoles /\ serves = "console" /\ socket \in Sockets

ControlOK ==
  /\ edits \in 0..MaxEdits /\ {errors, snapshot, audited} \subseteq BOOLEAN
  /\ process \in {"none", "server"} \union Consoles /\ loaded \subseteq AllTools
  /\ stage \in StartupStages /\ socket \in {"none", "loopback", "wild"}

StartOK == EnvsOK /\ ControlOK /\ Decided /\ Posture
--------------------------------------------------------------------------------
\* What some of the variables may hold.
LEMMA ChoicesOK ==
  /\ {"profile", "transport", "host", "requireAuth", "insecureGui", "oauth", "allowAny",
      "sinks", "auditFile", "readOnly", "gate", "deployment", "issuer", "jwks"} \subseteq Names
  /\ Choices["profile"] = {"unset", "workstation", "enterprise"}
  /\ Choices["transport"] = {"unset", "stdio", "http", "padded", "other"}
  /\ Choices["host"] = {"unset", "blank", "loopback", "alias", "wild"}
  /\ Choices["requireAuth"] = Spellings /\ Choices["insecureGui"] = Spellings
  /\ Choices["oauth"] = Spellings /\ Choices["allowAny"] = Spellings
  /\ Choices["readOnly"] = Spellings /\ Choices["gate"] = Spellings
  /\ Choices["sinks"] = {"unset", "stderr", "file"}
  /\ Choices["auditFile"] = {"unset", "blank", "path"}
  /\ Choices["deployment"] = {"unset", "junk", "capella", "self_managed", "both"}
  /\ Choices["issuer"] = {"unset", "https", "http", "local"}
  /\ Choices["jwks"] = {"unset", "https", "http", "local"}
BY DEF Choices, Names

\* What a profile fills in may be written there.
LEMMA DefaultsOK ==
  ASSUME NEW name \in DOMAIN Defaults
  PROVE  name \in Names /\ name \notin {"profile", "gate"} /\ Defaults[name] \in Choices[name]
<1>1. CASE env.profile = "workstation"
  <2>1. Defaults = WorkstationDefaults
    BY <1>1 DEF Defaults
  <2>2. name \in {"readOnly", "transport", "host", "requireAuth", "allowAny", "insecureGui"}
    BY <2>1 DEF WorkstationDefaults
  <2> QED BY <2>1, <2>2, ChoicesOK DEF WorkstationDefaults, Spellings
<1>2. CASE env.profile = "enterprise"
  <2>1. Defaults = EnterpriseDefaults
    BY <1>2 DEF Defaults
  <2>2. name \in {"readOnly", "requireAuth", "oauth", "insecureGui", "allowAny", "sinks",
                  "auditFile"}
    BY <2>1 DEF EnterpriseDefaults
  <2> QED BY <2>1, <2>2, ChoicesOK DEF EnterpriseDefaults, Spellings
<1>3. CASE env.profile \notin {"workstation", "enterprise"}
  BY <1>3 DEF Defaults, NoDefaults
<1> QED BY <1>1, <1>2, <1>3

LEMMA ReadOnlyDefault ==
  env.profile \in {"workstation", "enterprise"} =>
    "readOnly" \in DOMAIN Defaults /\ Defaults["readOnly"] = "false"
BY DEF Defaults, WorkstationDefaults, EnterpriseDefaults
--------------------------------------------------------------------------------
LEMMA StartupInitOK == StartupInit => StartOK
<1> SUFFICES ASSUME StartupInit PROVE StartOK
  OBVIOUS
<1>1. EnvsOK
  BY StartupAssumption DEF StartupInit, EnvsOK, WellFormed
<1>2. ControlOK
  <2>1. edits \in 0..MaxEdits
    BY StartupAssumption DEF StartupInit
  <2>2. errors \in BOOLEAN /\ snapshot \in BOOLEAN /\ audited \in BOOLEAN
    BY Zenon DEF StartupInit
  <2>3. loaded \subseteq AllTools
    BY DEF StartupInit
  <2>4. /\ process \in {"none", "server"} \union Consoles /\ stage \in StartupStages
        /\ socket \in {"none", "loopback", "wild"}
    BY DEF StartupInit, StartupStages
  <2> QED BY <2>1, <2>2, <2>3, <2>4 DEF ControlOK
<1>3. Decided /\ Posture
  BY DEF StartupInit, Decided, Posture
<1> QED BY <1>1, <1>2, <1>3 DEF StartOK

LEMMA EditOK == ASSUME StartOK, Edit PROVE StartOK'
<1>1. PICK name \in Names : \E value \in Choices[name] : stated' = [stated EXCEPT ![name] = value]
  BY DEF Edit
<1>2. WellFormed(stated')
  BY <1>1 DEF StartOK, EnvsOK, WellFormed
<1>3. edits' \in 0..MaxEdits
  BY StartupAssumption DEF Edit, StartOK, ControlOK
<1> QED BY <1>2, <1>3 DEF Edit, StartOK, EnvsOK, ControlOK, Decided, Posture, WellFormed

LEMMA LaunchOK == ASSUME StartOK, NEW p \in {"server"} \union Consoles, Launch(p) PROVE StartOK'
BY DEF Launch, StartOK, EnvsOK, WellFormed, ControlOK, StartupStages, Decided, Posture, Consoles

LEMMA ApplyProfileOK == ASSUME StartOK, ApplyProfile PROVE StartOK'
<1>0. /\ stage = "profile" /\ stage' = "validate" /\ env = stated
      /\ UNCHANGED <<stated, edits, process, errors, snapshot, loaded, audited, serves, socket>>
  BY DEF ApplyProfile, StartOK, Decided
<1>1. /\ DOMAIN env' = Names
      /\ \A name \in Names : env'[name] =
           IF name \in DOMAIN Defaults /\ ~IsSet(name) THEN Defaults[name] ELSE env[name]
  BY DEF ApplyProfile
<1>2. EnvsOK'
  BY <1>0, <1>1, DefaultsOK DEF StartOK, EnvsOK, WellFormed
<1>3. env'["gate"] = stated["gate"] /\ env'["profile"] = env["profile"]
  BY <1>0, <1>1, DefaultsOK, ChoicesOK
<1>4. env["readOnly"] \in Spellings /\ env["profile"] \in {"unset", "workstation", "enterprise"}
  BY ChoicesOK DEF StartOK, EnvsOK, WellFormed
<1>5. env["profile"] # "unset" =>
        env'["readOnly"] = IF stated["readOnly"] = "unset" THEN "false" ELSE stated["readOnly"]
  BY <1>0, <1>1, <1>4, ReadOnlyDefault, ChoicesOK DEF IsSet, Spellings
<1>6. Profiled'
  BY <1>0, <1>3, <1>5 DEF Profiled
<1> QED BY <1>0, <1>2, <1>6 DEF StartOK, ControlOK, StartupStages, Decided, Posture

LEMMA ValidateProfileOK == ASSUME StartOK, ValidateProfile PROVE StartOK'
<1>1. Coherent' <=> Coherent
  BY DEF ValidateProfile, Coherent, Truthy, WorkstationIsLocal, Transport, Host, WithDefault,
         EnterpriseCoherent, DurableAudit, IsSet, CleartextKeys
<1>2. errors' = ~Coherent' /\ errors' \in BOOLEAN
  BY <1>1 DEF ValidateProfile
<1> QED BY <1>2 DEF ValidateProfile, StartOK, EnvsOK, WellFormed, ControlOK, StartupStages, Decided, Profiled, Posture

\* Nothing that was decided rests on what is decided later.
LEMMA UnchangedOK ==
  ASSUME UNCHANGED <<stated, env, snapshot>>
  PROVE  /\ Coherent' <=> Coherent
         /\ Filtered' = Filtered
         /\ Profiled' <=> Profiled
         /\ EnvsOK' <=> EnvsOK
<1>1. Coherent' <=> Coherent
  BY DEF Coherent, Truthy, WorkstationIsLocal, Transport, Host, WithDefault,
         EnterpriseCoherent, DurableAudit, IsSet, CleartextKeys
<1>2. Mode' = Mode /\ (Gating' <=> Gating)
  BY DEF Mode, Gating, Listed
<1>3. Filtered' = Filtered
  BY <1>2 DEF Filtered
<1> QED BY <1>1, <1>3 DEF Profiled, EnvsOK, WellFormed

LEMMA SnapshotOK == ASSUME StartOK, Snapshot PROVE StartOK'
<1>1. UNCHANGED <<stated, env, errors>> /\ (Coherent' <=> Coherent) /\ (Profiled' <=> Profiled)
  BY DEF Snapshot, Coherent, Truthy, WorkstationIsLocal, Transport, Host, WithDefault,
         EnterpriseCoherent, DurableAudit, IsSet, CleartextKeys, Profiled
<1>2. /\ snapshot' = (env'.readOnly = "unset" \/ Truthy("readOnly")')
      /\ snapshot' \in BOOLEAN
  BY DEF Snapshot, Truthy
<1>3. Decided'
  BY <1>1, <1>2 DEF Snapshot, StartOK, Decided
<1> QED BY <1>2, <1>3 DEF Snapshot, StartOK, EnvsOK, WellFormed, ControlOK, StartupStages, Posture

LEMMA LoadOK == ASSUME StartOK, Load PROVE StartOK'
<1>1. loaded' = Filtered' /\ loaded' \subseteq AllTools
  BY UnchangedOK DEF Load, Filtered
<1>2. Decided'
  BY <1>1, UnchangedOK DEF Load, StartOK, Decided, Truthy
<1>3. ControlOK'
  BY <1>1 DEF Load, StartOK, ControlOK, StartupStages
<1> QED BY <1>2, <1>3, UnchangedOK DEF Load, StartOK, Posture

LEMMA OpenAuditOK == ASSUME StartOK, OpenAudit PROVE StartOK'
<1>1. audited' \in BOOLEAN
  BY DEF OpenAudit
<1>2. Decided'
  BY UnchangedOK DEF OpenAudit, StartOK, Decided, Truthy
<1>3. ControlOK'
  BY <1>1 DEF OpenAudit, StartOK, ControlOK, StartupStages
<1> QED BY <1>2, <1>3, UnchangedOK DEF OpenAudit, StartOK, Posture

\* The steps that only go on or end.
LEMMA EnforcedOK ==
  ASSUME StartOK, Enforced, stage \in {"enforce", "main"},
         stage' \in {"main", "serving", "refused"}, socket' \in {"none", "loopback", "wild"}
  PROVE  EnvsOK' /\ ControlOK' /\ Decided' /\ (ServerCoherent' <=> ServerCoherent)
<1>1. ServerCoherent' <=> ServerCoherent
  BY DEF Enforced, ServerCoherent, AuditUsable, IsSet, Mode, Transport, Host, WithDefault,
         TlsCoherent
<1>2. Decided'
  BY UnchangedOK DEF Enforced, StartOK, Decided, Truthy
<1> QED BY <1>1, <1>2, UnchangedOK DEF Enforced, StartOK, ControlOK, StartupStages

LEMMA EnforceServerOK == ASSUME StartOK, EnforceServer PROVE StartOK'
BY EnforcedOK DEF EnforceServer, Stop, StartOK, Posture, Enforced, Consoles

LEMMA ConsoleChoices ==
  ASSUME StartOK
  PROVE  env["guiHost"] \in {"unset", "blank", "loopback", "wild"}
<1>1. "guiHost" \in Names /\ Choices["guiHost"] = {"unset", "blank", "loopback", "wild"}
  BY DEF Names, Choices
<1> QED BY <1>1 DEF StartOK, EnvsOK, WellFormed

LEMMA EnforceConsoleOK == ASSUME StartOK, EnforceConsole PROVE StartOK'
<1>1. Sockets \subseteq {"loopback", "wild"}
  BY ConsoleChoices DEF Sockets, GuiHost
<1>2. Sockets' = Sockets /\ process' = process /\ process # "server"
  BY DEF EnforceConsole, Enforced, Sockets, GuiHost, Consoles
<1>3. \/ stage' = "serving" /\ serves' = "console" /\ socket' \in Sockets
      \/ stage' = "refused" /\ serves' = "none" /\ socket' = "none"
  BY DEF EnforceConsole, ServeConsole, Stop
<1>4. Posture'
  BY <1>2, <1>3 DEF EnforceConsole, Posture
<1> QED BY <1>1, <1>3, <1>4, EnforcedOK DEF EnforceConsole, StartOK

LEMMA BindOK == ASSUME StartOK, Bind PROVE StartOK'
<1>1. stage = "main" /\ Enforced /\ process = "server" /\ ServerCoherent
  BY DEF Bind, StartOK, Posture
<1>2. (Transport' = Transport) /\ (Host' = Host) /\ (Listed("requireAuth")' <=> Listed("requireAuth"))
  BY <1>1 DEF Enforced, Transport, Host, WithDefault, Listed
<1>3. \/ Stop("serving", "stdio")
      \/ Stop("refused", "none")
      \/ /\ Transport = "http" /\ (Host = "loopback" \/ Listed("requireAuth"))
         /\ Stop("serving", "http")
  BY DEF Bind
<1>4. stage' \in {"serving", "refused"} /\ socket' = "none"
  BY <1>3 DEF Stop
<1>5. process' = "server" /\ ServerCoherent'
  BY <1>1, <1>4, EnforcedOK DEF Enforced
<1>6. Posture'
  BY <1>2, <1>3, <1>5 DEF Stop, Posture, Bound
<1> QED BY <1>1, <1>4, <1>6, EnforcedOK DEF StartOK

LEMMA StutterOK == ASSUME StartOK, UNCHANGED startupVars PROVE StartOK'
<1>1. Decided'
  BY UnchangedOK DEF startupVars, StartOK, Decided, Truthy
<1>2. Posture'
  BY DEF startupVars, StartOK, Posture, ServerCoherent, AuditUsable, IsSet, Mode, Transport, Host,
         WithDefault, TlsCoherent, Bound, Listed, Sockets, GuiHost
<1> QED BY <1>1, <1>2, UnchangedOK DEF startupVars, StartOK, ControlOK

LEMMA StartupStepOK == StartOK /\ [StartupNext]_startupVars => StartOK'
BY EditOK, LaunchOK, ApplyProfileOK, ValidateProfileOK, SnapshotOK, LoadOK, OpenAuditOK,
   EnforceServerOK, EnforceConsoleOK, BindOK, StutterOK DEF StartupNext

\* The invariant that carries the theorems below.
THEOREM StartsInOrder == StartupSpec => []StartOK
BY StartupInitOK, StartupStepOK, PTL DEF StartupSpec
--------------------------------------------------------------------------------
\* What the variables hold, by name.
LEMMA Held ==
  ASSUME StartOK
  PROVE  /\ env["host"] \in {"unset", "blank", "loopback", "alias", "wild"}
         /\ {env["readOnly"], env["requireAuth"], stated["readOnly"]} \subseteq Spellings
         /\ {env["issuer"], env["jwks"]} \subseteq {"unset", "https", "http", "local"}
         /\ env["profile"] \in {"unset", "workstation", "enterprise"}
         /\ env["deployment"] \in {"unset", "junk", "capella", "self_managed", "both"}
BY ChoicesOK DEF StartOK, EnvsOK, WellFormed

LEMMA TypesHold == StartOK => StartupTypeOK
<1> SUFFICES ASSUME StartOK PROVE StartupTypeOK
  OBVIOUS
<1>1. Mode \in Planes \union {"both"}
  BY Held DEF Mode, Planes
<1>2. serves \in {"none", "stdio", "http", "console"}
  BY DEF StartOK, Posture
<1> QED BY <1>1, <1>2 DEF StartOK, ControlOK, StartupStages, EnvsOK, WellFormed, StartupTypeOK

LEMMA ServingServer ==
  ASSUME StartOK, serves \in {"stdio", "http"}
  PROVE  ServerCoherent /\ Bound /\ errors = ~Coherent
BY DEF StartOK, Posture, Decided

LEMMA AccessFollows == StartOK => AccessInv
<1> SUFFICES ASSUME StartOK PROVE AccessInv
  OBVIOUS
<1>1. ExposedIsGuarded
  <2> SUFFICES ASSUME serves = "http", Host \in {"blank", "wild"}
               PROVE  /\ EdgeDemandsToken /\ ScopeGateDemandsToken
                      /\ env.tls \in {"pair", "external"}
    BY DEF ExposedIsGuarded
  <2>1. Transport = "http" /\ Listed("requireAuth")
    BY ServingServer DEF Bound
  <2>2. TlsCoherent(Host)
    BY <2>1, ServingServer DEF ServerCoherent
  <2> QED BY <2>1, <2>2 DEF TlsCoherent, EdgeDemandsToken, ScopeGateDemandsToken, Listed, Truthy
<1>2. ConsoleIsGuarded
  <2> SUFFICES ASSUME serves = "console", NEW local \in BOOLEAN, NEW signedIn \in BOOLEAN,
                      Admitted(local, signedIn)
               PROVE  /\ ~signedIn => local /\ Literal("insecureGui")
                      /\ ~local /\ (GuiExposed \/ (process = "script" /\ env.guiHost # "blank"))
                           => Listed("guiRemote") /\ env.tls \in {"pair", "external"}
    BY DEF ConsoleIsGuarded
  <2>1. ConsoleCoherent /\ (Literal("insecureGui") => local)
    BY DEF Admitted, ConsoleAnswers
  <2>2. ~signedIn => local /\ Literal("insecureGui")
    BY DEF Admitted, ConsoleAnswers
  <2>3. ASSUME ~local, process = "script", env.guiHost # "blank" PROVE GuiExposed
    <3>1. socket = "wild" /\ socket \in Sockets
      BY <2>3 DEF Admitted, StartOK, Posture
    <3> QED BY <2>3, <3>1 DEF Sockets, GuiExposed
  <2>4. GuiExposed => Listed("guiRemote") /\ env.tls \in {"pair", "external"}
    BY <2>1 DEF ConsoleCoherent, TlsCoherent
  <2> QED BY <2>2, <2>3, <2>4
<1>3. HumanOnlyAtStdio
  <2> SUFFICES ASSUME process = "server", serves # "none", Transport = "stdio"
               PROVE  serves = "stdio"
    BY DEF HumanOnlyAtStdio, HumanIsPresent
  <2> QED BY DEF StartOK, Posture, Bound
<1> QED BY <1>1, <1>2, <1>3, TypesHold DEF AccessInv

LEMMA SettingsFollow == StartOK => SettingsInv
<1> SUFFICES ASSUME StartOK PROVE SettingsInv
  OBVIOUS
<1>1. EnterpriseIsAccountable
  <2> SUFFICES ASSUME Answers, env.profile = "enterprise"
               PROVE  /\ serves = "http" => EdgeDemandsToken
                      /\ ~Literal("skipVerify") /\ env.audience = "set"
                      /\ {env.issuer, env.jwks} \subseteq {"unset", "https", "local"}
                      /\ env.issuer # "unset"
                      /\ ~Truthy("tlsInsecure") /\ ~Listed("allowAny")
                      /\ audited \/ (env.sinks = "file" /\ env.level # "raised")
    BY DEF EnterpriseIsAccountable
  <2>1. ~errors /\ AuditUsable /\ errors = ~Coherent
    <3>1. CASE serves \in {"stdio", "http"}
      BY <3>1, ServingServer DEF ServerCoherent
    <3>2. CASE serves = "console" /\ ConsoleCoherent
      BY <3>2 DEF ConsoleCoherent, StartOK, Posture, Decided
    <3> QED BY <3>1, <3>2 DEF Answers, Admitted, ConsoleAnswers
  <2>2. Coherent
    BY <2>1
  <2>3. EnterpriseCoherent /\ ~Truthy("skipVerify")
    BY <2>2 DEF Coherent
  <2>4. {env.issuer, env.jwks} \subseteq {"unset", "https", "local"}
    BY <2>3, Held DEF EnterpriseCoherent, CleartextKeys
  <2> QED BY <2>1, <2>3, <2>4 DEF EnterpriseCoherent, EdgeDemandsToken, Truthy, Listed, Literal,
             DurableAudit, AuditUsable
<1>2. LoadedAsStated
  <2> SUFFICES ASSUME stage = "serving", env.profile # "unset"
      PROVE  /\ \A tool \in AllTools : tool.writes /\ Available(tool, Mode) =>
                  (tool \in loaded <=> stated.readOnly \in {"unset", "false"})
             /\ \A tool \in loaded :
                  Available(tool, Mode) \/ stated.gate \notin {"unset", "true", "on"}
    BY DEF LoadedAsStated
  <2>1. loaded = Filtered /\ Profiled
    BY DEF StartOK, Decided
  <2>2. snapshot <=> (env.readOnly = "unset" \/ Truthy("readOnly"))
    BY DEF StartOK, Decided, ControlOK
  <2>3. snapshot <=> stated.readOnly \notin {"unset", "false"}
    BY <2>1, <2>2, Held DEF Profiled, Truthy, Spellings
  <2>4. Gating <=> stated.gate \in {"unset", "true", "on"}
    BY <2>1 DEF Profiled, Gating, Listed
  <2> QED BY <2>1, <2>3, <2>4 DEF Filtered
<1> QED BY <1>1, <1>2 DEF SettingsInv

\* _enforce_profile, _main_http and the console's guards together: whoever is answered
\* is somebody the settings let be answered, for every environment there can be; and, as
\* far as the settings name the bind, on one they allow.
THEOREM AccessHolds == StartupSpec => []AccessInv
BY AccessFollows, StartsInOrder, PTL

\* validate_posture and _visible_tools: what the enterprise profile demands and what
\* the operator stated of read-only mode is in force in what serves.
THEOREM SettingsHold == StartupSpec => []SettingsInv
BY SettingsFollow, StartsInOrder, PTL
--------------------------------------------------------------------------------
Asking == {"ask known", "ask resolve", "ask refresh"}
Answering == {"answer known", "answer resolve", "answer refresh"}
PCs == {"idle", "known", "gate", "resolve", "remember", "forget",
        "accepted", "throttled", "failed"} \union Asking \union Answering
Validations == [pc : PCs, kid : Kids, got : SUBSET SUBSET Kids]

Served == {KeySets[i] : i \in 1..rotation}
EverPublished == UNION Served

\* The places a validation comes to only when its key was not held.
Unheld == {"ask known", "answer known", "gate", "throttled"}

ThreadsOK == thread \in [Threads -> Validations] /\ held \subseteq Threads

\* Whatever was fetched, is cached or is recorded was published.
ProvenanceOK ==
  /\ rotation \in DOMAIN KeySets
  /\ keySet \subseteq Served
  /\ OnlyPublishedResolved
  /\ \A t \in Threads :
       /\ thread[t].got \subseteq Served
       /\ At(t, "remember") => thread[t].kid \in EverPublished

\* A thread whose key is held still holds it, and stands clear of the throttle.
HeldOK == \A t \in held : Holds(thread[t].kid) /\ thread[t].pc \notin Unheld

KeysOK == ThreadsOK /\ ProvenanceOK /\ HeldOK
--------------------------------------------------------------------------------
\* The provider never publishes the absence of a key id.
LEMMA PublishedAreKids ==
  ASSUME rotation \in DOMAIN KeySets
  PROVE  /\ Served \subseteq SUBSET (Kids \ {NoKid})
         /\ EverPublished \subseteq Kids \ {NoKid}
         /\ Published \in Served
<1>1. /\ KeySets \in Seq(SUBSET (Kids \ {NoKid}))
      /\ Len(KeySets) \in Nat /\ DOMAIN KeySets = 1..Len(KeySets)
  BY TokenThrottleAssumption
<1>2. \A i \in 1..rotation : KeySets[i] \in SUBSET (Kids \ {NoKid})
  BY <1>1
<1>3. Served \subseteq SUBSET (Kids \ {NoKid})
  BY <1>2 DEF Served
<1>4. Published \in Served
  BY <1>1 DEF Served, Published
<1> QED BY <1>3, <1>4 DEF EverPublished

LEMMA ThrottleInitOK == ThrottleInit => KeysOK
<1> SUFFICES ASSUME ThrottleInit PROVE KeysOK
  OBVIOUS
<1>1. ThreadsOK
  BY TokenThrottleAssumption DEF ThrottleInit, ThreadsOK, Idle, Validations, PCs
<1>2. rotation \in DOMAIN KeySets
  BY TokenThrottleAssumption DEF ThrottleInit
<1>3. ProvenanceOK
  BY <1>2 DEF ThrottleInit, ProvenanceOK, OnlyPublishedResolved, At, Idle
<1> QED BY <1>1, <1>3 DEF ThrottleInit, HeldOK, KeysOK
--------------------------------------------------------------------------------
\* One validation moves: the others keep what they know and what they hold.
LEMMA MoveOK ==
  ASSUME KeysOK, NEW t \in Threads, NEW v \in Validations,
         thread' = [thread EXCEPT ![t] = v],
         UNCHANGED <<rotation, keySet, resolved>>,
         held' \subseteq held \union {t},
         v.got \subseteq Served,
         v.pc = "remember" => v.kid \in EverPublished,
         t \in held' => Holds(v.kid) /\ v.pc \notin Unheld
  PROVE  KeysOK'
<1>1. ThreadsOK'
  BY DEF KeysOK, ThreadsOK
<1>2. ProvenanceOK'
  <2>1. Served' = Served /\ EverPublished' = EverPublished
    BY DEF Served, EverPublished
  <2>2. \A u \in Threads : thread'[u] = IF u = t THEN v ELSE thread[u]
    BY DEF KeysOK, ThreadsOK
  <2> QED BY <2>1, <2>2 DEF KeysOK, ProvenanceOK, OnlyPublishedResolved, At
<1>3. HeldOK'
  <2> SUFFICES ASSUME NEW u \in held' PROVE (Holds(thread[u].kid) /\ thread[u].pc \notin Unheld)'
    BY DEF HeldOK
  <2>1. u \in Threads /\ thread'[u] = IF u = t THEN v ELSE thread[u]
    BY <1>1 DEF KeysOK, ThreadsOK
  <2> QED BY <2>1 DEF KeysOK, HeldOK, Holds, InCache
<1> QED BY <1>1, <1>2, <1>3 DEF KeysOK

\* A validation that keeps its key and its answer, at another place.
LEMMA GotoOK ==
  ASSUME KeysOK, NEW t \in Threads, NEW l \in PCs, Goto(t, l),
         UNCHANGED <<rotation, keySet, resolved, held>>,
         l = "remember" => thread[t].kid \in EverPublished,
         t \in held => l \notin Unheld
  PROVE  KeysOK'
<1> DEFINE v == [thread[t] EXCEPT !.pc = l]
<1>1. thread[t] \in Validations
  BY DEF KeysOK, ThreadsOK
<1>2. v \in Validations /\ v.got = thread[t].got /\ v.kid = thread[t].kid /\ v.pc = l
  BY <1>1 DEF Validations
<1>3. thread' = [thread EXCEPT ![t] = v]
  BY DEF Goto
<1>4. thread[t].got \subseteq Served /\ (t \in held => Holds(thread[t].kid))
  BY DEF KeysOK, ProvenanceOK, HeldOK
<1> HIDE DEF v
<1> QED BY <1>2, <1>3, <1>4, MoveOK
--------------------------------------------------------------------------------
LEMMA BeginOK ==
  ASSUME KeysOK, NEW t \in Threads, NEW k \in Kids, Begin(t, k)
  PROVE  KeysOK'
<1> DEFINE v == [Idle EXCEPT !.pc = "known", !.kid = k]
<1>1. v \in Validations /\ v.got = {} /\ v.kid = k /\ v.pc = "known"
  BY DEF Idle, Validations, PCs
<1>2. thread' = [thread EXCEPT ![t] = v]
  BY DEF Begin
<1>3. held' \subseteq held \union {t} /\ (t \in held' => Holds(k))
  BY DEF Begin
<1> HIDE DEF v
<1> QED BY <1>1, <1>2, <1>3, MoveOK DEF Begin, Unheld

LEMMA KidIsKnownOK ==
  ASSUME KeysOK, NEW t \in Threads, KidIsKnown(t)
  PROVE  KeysOK'
<1>1. t \in held => Holds(thread[t].kid)
  BY DEF KeysOK, HeldOK
<1>2. Holds(thread[t].kid) => thread[t].kid # NoKid
  BY PublishedAreKids DEF KeysOK, ProvenanceOK, OnlyPublishedResolved, Holds, InCache,
                          EverPublished, Served
<1>3. PICK l \in {"resolve", "gate", "ask known"} :
         Goto(t, l) /\ (t \in held => l = "resolve")
  BY <1>1, <1>2 DEF KidIsKnown
<1> QED BY <1>3, GotoOK DEF KidIsKnown, PCs, Asking, Unheld

LEMMA AskOK ==
  ASSUME KeysOK, NEW t \in Threads, Ask(t)
  PROVE  KeysOK'
<1>1. PICK got \in {{Published}, {}}, l \in Answering :
         /\ thread' = [thread EXCEPT ![t].got = got, ![t].pc = l]
         /\ l = "answer known" => At(t, "ask known")
  BY DEF Ask, Asking, Answering, At
<1> DEFINE v == [[thread[t] EXCEPT !.got = got] EXCEPT !.pc = l]
<1>2. thread[t] \in Validations /\ (t \in held => Holds(thread[t].kid) /\ ~At(t, "ask known"))
  BY DEF KeysOK, ThreadsOK, HeldOK, Unheld, At
<1>3. got \subseteq Served /\ got \in SUBSET SUBSET Kids
  BY PublishedAreKids DEF KeysOK, ProvenanceOK
<1>4. v \in Validations /\ v.got = got /\ v.kid = thread[t].kid /\ v.pc = l
  BY <1>2, <1>3 DEF Validations, PCs
<1>5. thread' = [thread EXCEPT ![t] = v]
  BY <1>1 DEF KeysOK, ThreadsOK
<1> HIDE DEF v
<1> QED BY <1>1, <1>2, <1>3, <1>4, <1>5, MoveOK DEF Ask, Answering, Unheld

\* An answer replaces the cached set, so every thread may lose the key it held.
LEMMA AnswerOK ==
  ASSUME KeysOK, NEW t \in Threads, Answer(t)
  PROVE  KeysOK'
<1> DEFINE l == CASE At(t, "answer known") /\ ~Found(t)    -> "gate"
                  [] At(t, "answer known") /\ Found(t)     -> "resolve"
                  [] ~At(t, "answer known") /\ Found(t)    -> "remember"
                  [] At(t, "answer resolve") /\ thread[t].got # {} /\ ~Found(t) -> "ask refresh"
                  [] OTHER                                 -> "failed"
<1>0. /\ l \in {"gate", "resolve", "remember", "ask refresh", "failed"}
      /\ l = "remember" => Found(t)
      /\ l = "gate" => At(t, "answer known")
  OBVIOUS
<1>1. thread' = [thread EXCEPT ![t].got = {}, ![t].pc = l]
  BY DEF Answer
<1> HIDE DEF l
<1> DEFINE v == [[thread[t] EXCEPT !.got = {}] EXCEPT !.pc = l]
<1>2. thread[t] \in Validations /\ thread[t].got \subseteq Served
  BY DEF KeysOK, ThreadsOK, ProvenanceOK
<1>3. v \in Validations /\ v.got = {} /\ v.kid = thread[t].kid /\ v.pc = l
  BY <1>0, <1>2 DEF Validations, PCs, Asking
<1>4. thread' = [thread EXCEPT ![t] = v]
  BY <1>1 DEF KeysOK, ThreadsOK
<1>5. \A u \in Threads : thread'[u] = IF u = t THEN v ELSE thread[u]
  BY <1>4 DEF KeysOK, ThreadsOK
<1> HIDE DEF v
<1>6. ThreadsOK'
  BY <1>3, <1>4 DEF KeysOK, ThreadsOK, Answer
<1>7. ProvenanceOK'
  <2>1. Served' = Served /\ EverPublished' = EverPublished
    BY DEF Served, EverPublished, Answer
  <2>2. l = "remember" => thread[t].kid \in EverPublished
    BY <1>0, <1>2 DEF Found, EverPublished
  <2>3. keySet' \subseteq Served /\ resolved' = resolved /\ rotation' = rotation
    BY <1>2 DEF Answer
  <2> QED BY <1>3, <1>5, <2>1, <2>2, <2>3 DEF KeysOK, ProvenanceOK, OnlyPublishedResolved, At
<1>8. HeldOK'
  <2> SUFFICES ASSUME NEW u \in held' PROVE (Holds(thread[u].kid) /\ thread[u].pc \notin Unheld)'
    BY DEF HeldOK
  <2>1. u \in held /\ u \in Threads /\ thread'[u].kid = thread[u].kid
    BY <1>3, <1>5 DEF Answer, KeysOK, ThreadsOK
  <2>2. thread[u].kid \in resolved \union UNION thread[t].got
    BY <2>1 DEF Answer
  <2>3. Holds(thread[u].kid)'
    <3>1. keySet' = thread[t].got /\ resolved' = resolved
      BY DEF Answer
    <3> QED BY <2>1, <2>2, <3>1 DEF Holds, InCache
  <2>4. thread'[u].pc \notin Unheld
    BY <1>0, <1>3, <1>5, <2>1 DEF KeysOK, HeldOK, Unheld, At
  <2> QED BY <2>3, <2>4
<1> QED BY <1>6, <1>7, <1>8 DEF KeysOK

LEMMA RefuseIfRecentlyMissedOK ==
  ASSUME KeysOK, NEW t \in Threads, RefuseIfRecentlyMissed(t)
  PROVE  KeysOK'
<1>1. t \notin held
  BY DEF RefuseIfRecentlyMissed, KeysOK, HeldOK, Unheld, At
<1>2. PICK l \in {"throttled", "resolve"} : Goto(t, l)
  BY DEF RefuseIfRecentlyMissed
<1> QED BY <1>1, <1>2, GotoOK DEF RefuseIfRecentlyMissed, PCs

LEMMA GetSigningKeyOK ==
  ASSUME KeysOK, NEW t \in Threads, GetSigningKey(t)
  PROVE  KeysOK'
<1>1. InCache(thread[t].kid) => thread[t].kid \in EverPublished
  BY DEF InCache, EverPublished, KeysOK, ProvenanceOK
<1>2. PICK l \in {"ask resolve", "remember", "ask refresh"} :
         Goto(t, l) /\ (l = "remember" => InCache(thread[t].kid))
  BY DEF GetSigningKey
<1> QED BY <1>1, <1>2, GotoOK DEF GetSigningKey, PCs, Asking, Unheld

\* The record may be emptied, so every thread may lose the key it held.
LEMMA RememberResolvedKidOK ==
  ASSUME KeysOK, NEW t \in Threads, RememberResolvedKid(t)
  PROVE  KeysOK'
<1> DEFINE v == [thread[t] EXCEPT !.pc = "forget"]
<1>1. thread[t] \in Validations /\ thread[t].kid \in EverPublished
  BY DEF KeysOK, ThreadsOK, ProvenanceOK, RememberResolvedKid
<1>2. v \in Validations /\ v.got = thread[t].got /\ v.kid = thread[t].kid /\ v.pc = "forget"
  BY <1>1 DEF Validations, PCs
<1>3. thread' = [thread EXCEPT ![t] = v]
  BY DEF RememberResolvedKid, Goto
<1>4. \A u \in Threads : thread'[u] = IF u = t THEN v ELSE thread[u]
  BY <1>3 DEF KeysOK, ThreadsOK
<1> HIDE DEF v
<1>5. ThreadsOK'
  BY <1>2, <1>3 DEF KeysOK, ThreadsOK, RememberResolvedKid
<1>6. ProvenanceOK'
  <2>1. Served' = Served /\ EverPublished' = EverPublished
    BY DEF Served, EverPublished, RememberResolvedKid
  <2>2. resolved' \subseteq resolved \union {thread[t].kid}
    BY DEF RememberResolvedKid
  <2>3. OnlyPublishedResolved'
    BY <1>1, <2>1, <2>2 DEF KeysOK, ProvenanceOK, OnlyPublishedResolved, EverPublished, Served
  <2> QED BY <1>2, <1>4, <2>1, <2>3 DEF KeysOK, ProvenanceOK, At, RememberResolvedKid
<1>7. HeldOK'
  <2> SUFFICES ASSUME NEW u \in held' PROVE (Holds(thread[u].kid) /\ thread[u].pc \notin Unheld)'
    BY DEF HeldOK
  <2>1. u \in held /\ u \in Threads /\ thread'[u].kid = thread[u].kid
    BY <1>2, <1>4 DEF RememberResolvedKid, KeysOK, ThreadsOK
  <2>2. thread[u].kid \in resolved' \union UNION keySet
    BY <2>1 DEF RememberResolvedKid
  <2>3. Holds(thread[u].kid)'
    BY <2>1, <2>2 DEF RememberResolvedKid, Holds, InCache
  <2>4. thread'[u].pc \notin Unheld
    BY <1>2, <1>4, <2>1 DEF KeysOK, HeldOK, Unheld
  <2> QED BY <2>3, <2>4
<1> QED BY <1>5, <1>6, <1>7 DEF KeysOK

LEMMA EndOK ==
  ASSUME KeysOK, NEW t \in Threads, End(t)
  PROVE  KeysOK'
<1>1. Idle \in Validations /\ Idle.got = {} /\ Idle.pc = "idle"
  BY TokenThrottleAssumption DEF Idle, Validations, PCs
<1> QED BY <1>1, MoveOK DEF End

\* What the provider and the clock do.
LEMMA LapseOK ==
  ASSUME KeysOK, Lapse
  PROVE  KeysOK'
BY DEF Lapse, KeysOK, ThreadsOK, ProvenanceOK, OnlyPublishedResolved, HeldOK, Holds, InCache,
       Served, EverPublished, At

LEMMA RotateOK ==
  ASSUME KeysOK, Rotate
  PROVE  KeysOK'
<1>1. rotation \in Nat /\ Len(KeySets) \in Nat /\ DOMAIN KeySets = 1..Len(KeySets)
  BY TokenThrottleAssumption DEF KeysOK, ProvenanceOK
<1>2. rotation' \in DOMAIN KeySets /\ 1..rotation \subseteq 1..rotation'
  BY <1>1 DEF Rotate
<1>3. Served \subseteq Served' /\ EverPublished \subseteq EverPublished'
  BY <1>2 DEF Served, EverPublished
<1>4. OnlyPublishedResolved'
  BY <1>3 DEF KeysOK, ProvenanceOK, OnlyPublishedResolved, Rotate, EverPublished, Served
<1>5. ProvenanceOK'
  BY <1>2, <1>3, <1>4 DEF KeysOK, ProvenanceOK, Rotate, At
<1> QED BY <1>5 DEF KeysOK, ThreadsOK, HeldOK, Holds, InCache, Rotate

LEMMA StillOK ==
  ASSUME KeysOK, UNCHANGED <<rotation, keySet, resolved, thread, held>>
  PROVE  KeysOK'
BY DEF KeysOK, ThreadsOK, ProvenanceOK, OnlyPublishedResolved, HeldOK, Holds, InCache,
       Served, EverPublished, At
--------------------------------------------------------------------------------
LEMMA ThrottleStepOK == KeysOK /\ [ThrottleNext]_throttleVars => KeysOK'
<1> SUFFICES ASSUME KeysOK, [ThrottleNext]_throttleVars PROVE KeysOK'
  OBVIOUS
<1>1. CASE \E t \in Threads : Step(t)
  <2> PICK t \in Threads : Step(t)
    BY <1>1
  <2>1. CASE KidIsKnown(t)
    BY <2>1, KidIsKnownOK
  <2>2. CASE Ask(t)
    BY <2>2, AskOK
  <2>3. CASE Answer(t)
    BY <2>3, AnswerOK
  <2>4. CASE RefuseIfRecentlyMissed(t)
    BY <2>4, RefuseIfRecentlyMissedOK
  <2>5. CASE GetSigningKey(t)
    BY <2>5, GetSigningKeyOK
  <2>6. CASE RememberResolvedKid(t)
    BY <2>6, RememberResolvedKidOK
  <2>7. CASE ForgetUnknownKid(t)
    BY <2>7, GotoOK DEF ForgetUnknownKid, PCs, Unheld
  <2>8. CASE End(t)
    BY <2>8, EndOK
  <2> QED BY <2>1, <2>2, <2>3, <2>4, <2>5, <2>6, <2>7, <2>8 DEF Step
<1>2. CASE \E t \in Threads, k \in Kids : Begin(t, k)
  BY <1>2, BeginOK
<1>3. CASE Tick \/ Switch \/ UNCHANGED throttleVars
  BY <1>3, StillOK DEF Tick, Switch, throttleVars
<1>4. CASE Lapse
  BY <1>4, LapseOK
<1>5. CASE Rotate
  BY <1>5, RotateOK
<1> QED BY <1>1, <1>2, <1>3, <1>4, <1>5 DEF ThrottleNext

\* The invariant that carries the theorems below.
THEOREM KeysAccounted == ThrottleSpec => []KeysOK
BY ThrottleInitOK, ThrottleStepOK, PTL DEF ThrottleSpec

\* _kid_is_known keeps a token whose key is in the record or in the cached set away
\* from _refuse_if_recently_missed, whatever the other threads fetch and forget.
THEOREM HeldNeverThrottled == ThrottleSpec => []HeldKeysNeverThrottled
<1>1. KeysOK => HeldKeysNeverThrottled
  BY DEF KeysOK, HeldOK, HeldKeysNeverThrottled, Unheld, At
<1> QED BY <1>1, KeysAccounted, PTL

\* _forget_unknown_kid records only key ids of key sets the provider has served.
THEOREM ResolvedWerePublished == ThrottleSpec => []OnlyPublishedResolved
<1>1. KeysOK => OnlyPublishedResolved
  BY DEF KeysOK, ProvenanceOK
<1> QED BY <1>1, KeysAccounted, PTL
--------------------------------------------------------------------------------
\* What the gate keeps: the memo and the passes of the last window, which are those
\* the budget counts.
Marked == {k \in Kids : memo[k] # Absent}
Distinct(some) == \A r, s \in some : r.n = s.n => r = s

GateOK ==
  /\ memo \in [Kids -> 0..Absent] /\ IsFiniteSet(Marked) /\ Cardinality(Marked) <= MaxTracked
  /\ refreshes \subseteq Passes /\ Distinct(refreshes)
  /\ IsFiniteSet(refreshes) /\ Cardinality(refreshes) <= Budget
  /\ passes = Recent
  /\ IsFiniteSet(resolved) /\ Cardinality(resolved) <= MaxResolved

LEMMA GateInitOK == ThrottleInit => GateOK
<1> SUFFICES ASSUME ThrottleInit PROVE GateOK
  OBVIOUS
<1>1. Absent \in 0..Absent /\ {Window, Budget, MaxTracked, MaxResolved} \subseteq Nat
  BY TokenThrottleAssumption DEF Absent
<1>2. Marked = {} /\ Recent = {} /\ resolved = {} /\ refreshes = {} /\ passes = {}
  BY DEF ThrottleInit, Marked, Recent
<1>3. IsFiniteSet({}) /\ Cardinality({}) = 0
  BY FS_EmptySet
<1>4. memo \in [Kids -> 0..Absent]
  BY <1>1 DEF ThrottleInit
<1> QED BY <1>1, <1>2, <1>3, <1>4 DEF GateOK, Distinct

\* Fewer elements are marked than before: Purged, and the rest.
LEMMA FewerMarked ==
  ASSUME GateOK, NEW S, S \subseteq Marked
  PROVE  IsFiniteSet(S) /\ Cardinality(S) <= MaxTracked /\ Cardinality(S) \in Nat
<1>1. IsFiniteSet(S) /\ Cardinality(S) <= Cardinality(Marked)
  BY FS_Subset DEF GateOK
<1>2. Cardinality(S) \in Nat /\ Cardinality(Marked) \in Nat /\ MaxTracked \in Nat
  BY <1>1, FS_CardinalityType, TokenThrottleAssumption DEF GateOK
<1> QED BY <1>1, <1>2 DEF GateOK

LEMMA PurgedIs ==
  ASSUME GateOK
  PROVE  Purged \in [Kids -> 0..Absent] /\ Tracked \subseteq Marked
<1>1. Absent \in 0..Absent
  BY TokenThrottleAssumption DEF Absent
<1> QED BY <1>1 DEF GateOK, Purged, Tracked, Marked

\* The passes that still count are few enough for one more, with a number of its own.
LEMMA RecentIs ==
  ASSUME GateOK
  PROVE  /\ Recent \subseteq refreshes /\ IsFiniteSet(Recent)
         /\ Cardinality(Recent) \in Nat /\ Cardinality(Recent) <= Budget
<1>1. Recent \subseteq refreshes
  BY DEF Recent
<1>2. IsFiniteSet(Recent) /\ Cardinality(Recent) <= Cardinality(refreshes)
  BY <1>1, FS_Subset DEF GateOK
<1>3. Cardinality(Recent) \in Nat /\ Cardinality(refreshes) \in Nat /\ Budget \in Nat
  BY <1>2, FS_CardinalityType, TokenThrottleAssumption DEF GateOK
<1> QED BY <1>1, <1>2, <1>3 DEF GateOK

LEMMA NewPassIs ==
  ASSUME GateOK
  PROVE  /\ NewPass \in Passes /\ NewPass.age = 0
         /\ \A r \in Recent : r.n # NewPass.n
<1> DEFINE number == [r \in Recent |-> r.n]
<1>1. Taken = {r.n : r \in Recent}
  BY DEF Taken, GateOK
<1>2. number \in Surjection(Recent, Taken)
  BY <1>1 DEF Surjection
<1>3. IsFiniteSet(Taken) /\ Cardinality(Taken) <= Cardinality(Recent)
  <2> HIDE DEF number
  <2> QED BY <1>2, RecentIs, FS_Surjection
<1>4. Budget \in Nat \ {0}
  BY TokenThrottleAssumption
<1>5. Cardinality(Numbers) = 2 * Budget + 1
  <2>1. Cardinality(0..2 * Budget) = (2 * Budget) - 0 + 1
    BY <1>4, FS_Interval
  <2> QED BY <1>4, <2>1 DEF Numbers
<1>6. ~ (Numbers \subseteq Taken)
  <2> SUFFICES ASSUME Numbers \subseteq Taken PROVE FALSE
    OBVIOUS
  <2>1. Cardinality(Numbers) <= Cardinality(Taken)
    BY <1>3, FS_Subset
  <2>2. Cardinality(Taken) \in Nat
    BY <1>3, FS_CardinalityType
  <2> QED BY <1>3, <1>4, <1>5, <2>1, <2>2, RecentIs
<1>7. NewPass.n \in Numbers /\ NewPass.n \notin Taken /\ NewPass.age = 0
  <2>1. \E n \in Numbers : n \notin Taken
    BY <1>6
  <2>2. (CHOOSE n \in Numbers : n \notin Taken) \in Numbers
        /\ (CHOOSE n \in Numbers : n \notin Taken) \notin Taken
    BY <2>1
  <2> QED BY <2>2 DEF NewPass
<1>8. NewPass \in [n : Numbers, age : 0..Window]
  <2>1. 0 \in 0..Window
    BY TokenThrottleAssumption
  <2> QED BY <1>7, <2>1 DEF NewPass
<1> QED BY <1>1, <1>7, <1>8 DEF Passes

LEMMA GateKept ==
  ASSUME GateOK, UNCHANGED <<memo, refreshes, passes, resolved>> PROVE GateOK'
  BY DEF GateOK, Marked, Recent

LEMMA PassKeeps ==
  ASSUME GateOK, NEW t \in Threads, thread[t].kid \in Kids, UNCHANGED resolved,
         RefuseIfRecentlyMissed(t)
  PROVE  GateOK'
<1> DEFINE k == thread[t].kid
<1>1. Purged \in [Kids -> 0..Absent] /\ Tracked \subseteq Marked
  BY PurgedIs
<1>2. IsFiniteSet(Tracked) /\ Cardinality(Tracked) <= MaxTracked /\ Cardinality(Tracked) \in Nat
  BY <1>1, FewerMarked
<1>3. Recent \subseteq refreshes /\ Recent \subseteq Passes /\ Distinct(Recent)
  BY RecentIs DEF GateOK, Distinct
<1>4. {Window, Budget, MaxTracked} \subseteq Nat \ {0} /\ 0 \in 0..Absent /\ Absent # 0
  BY TokenThrottleAssumption DEF Absent
<1>5. CASE Purged[k] # Absent /\ memo' = Purged /\ UNCHANGED <<refreshes, passes>>
  <2>1. Marked' = Tracked
    BY <1>5 DEF Marked, Tracked
  <2> QED BY <1>1, <1>2, <1>5, <2>1 DEF GateOK, Recent
<1>6. CASE memo' = Purged /\ refreshes' = Recent /\ UNCHANGED passes
  <2>1. Marked' = Tracked
    BY <1>6 DEF Marked, Tracked
  <2>2. Recent' = Recent
    BY <1>6 DEF Recent
  <2>3. memo' \in [Kids -> 0..Absent]
    BY <1>1, <1>6
  <2> QED BY <1>2, <1>3, <1>6, <2>1, <2>2, <2>3, RecentIs DEF GateOK
<1>7. CASE /\ Purged[k] = Absent /\ Cardinality(Recent) < Budget
           /\ memo' = [Forgotten EXCEPT ![k] = 0]
           /\ refreshes' = Recent \union {NewPass} /\ passes' = passes \union {NewPass}
  <2>1. Forgotten \in [Kids -> 0..Absent]
    BY <1>1, <1>4 DEF Forgotten, Absent
  <2>2. memo' \in [Kids -> 0..Absent]
    BY <1>4, <1>7, <2>1
  <2> DEFINE some == {l \in Kids : Forgotten[l] # Absent}
  <2>3. IsFiniteSet(some) /\ Cardinality(some) \in Nat /\ Cardinality(some) < MaxTracked
    <3>1. CASE Cardinality(Tracked) >= MaxTracked
      <4>1. some = {}
        BY <3>1 DEF Forgotten
      <4>2. IsFiniteSet({}) /\ Cardinality({}) = 0
        BY FS_EmptySet
      <4> QED BY <1>4, <4>1, <4>2
    <3>2. CASE ~ (Cardinality(Tracked) >= MaxTracked)
      <4>1. some = Tracked
        BY <3>2 DEF Forgotten, Tracked
      <4> QED BY <1>2, <1>4, <3>2, <4>1
    <3> QED BY <3>1, <3>2
  <2>4. Marked' = some \union {k}
    BY <1>4, <1>7, <2>1 DEF Marked
  <2>5. IsFiniteSet(Marked') /\ Cardinality(Marked') <= MaxTracked
    <3> HIDE DEF some, k
    <3>1. IsFiniteSet(some \union {k})
          /\ Cardinality(some \union {k}) = IF k \in some THEN Cardinality(some) ELSE Cardinality(some) + 1
      BY <2>3, FS_AddElement
    <3> QED BY <1>4, <2>3, <2>4, <3>1
  <2>6. /\ NewPass \in Passes /\ NewPass.age = 0 /\ \A r \in Recent : r.n # NewPass.n
    BY NewPassIs
  <2>7. refreshes' \subseteq Passes /\ Distinct(refreshes')
    BY <1>3, <1>7, <2>6 DEF Distinct
  <2>8. IsFiniteSet(refreshes') /\ Cardinality(refreshes') <= Budget
    <3>1. /\ IsFiniteSet(Recent \union {NewPass})
          /\ Cardinality(Recent \union {NewPass})
               = IF NewPass \in Recent THEN Cardinality(Recent) ELSE Cardinality(Recent) + 1
      BY RecentIs, FS_AddElement
    <3> QED BY <1>4, <1>7, <3>1, RecentIs
  <2>9. Recent' = Recent \union {NewPass}
    BY <1>4, <1>7, <2>6 DEF Recent
  <2>10. passes' = Recent'
    BY <1>7, <2>9 DEF GateOK
  <2> QED BY <2>2, <2>5, <2>7, <2>8, <2>10 DEF GateOK
<1> QED BY <1>5, <1>6, <1>7 DEF RefuseIfRecentlyMissed

LEMMA AgedIs ==
  ASSUME NEW r \in Passes
  PROVE  /\ Aged(r) \in Passes /\ Aged(r).n = r.n
         /\ Aged(r).age < Window <=> r.age + 1 < Window
<1>1. Window \in Nat /\ r.age \in 0..Window
  BY TokenThrottleAssumption DEF Passes
<1>2. Capped(r.age) \in 0..Window /\ (Capped(r.age) < Window <=> r.age + 1 < Window)
  BY <1>1 DEF Capped
<1>3. Aged(r) = [r EXCEPT !.age = Capped(r.age)]
  BY DEF Aged
<1> QED BY <1>2, <1>3 DEF Passes

LEMMA TickKeeps == ASSUME GateOK, Tick PROVE GateOK'
<1>1. Window \in Nat \ {0} /\ MaxTracked \in Nat /\ Absent = Window + 2
  BY TokenThrottleAssumption DEF Absent
<1>2. memo' \in [Kids -> 0..Absent] /\ Marked' = Marked
  <2>1. \A k \in Kids : memo[k] \in 0..Absent
    BY DEF GateOK
  <2>2. \A age \in 0..Absent : age # Absent => Older(age) \in 0..Absent /\ Older(age) # Absent
    BY <1>1 DEF Older
  <2>3. \A k \in Kids : memo'[k] = IF memo[k] = Absent THEN Absent ELSE Older(memo[k])
    BY DEF Tick
  <2>4. \A k \in Kids : memo'[k] \in 0..Absent /\ (memo'[k] = Absent <=> memo[k] = Absent)
    BY <2>1, <2>2, <2>3
  <2>5. memo' = [k \in Kids |-> memo'[k]]
    BY DEF Tick
  <2>6. memo' \in [Kids -> 0..Absent]
    BY <2>4, <2>5
  <2> QED BY <2>4, <2>6 DEF Marked
<1>3. refreshes' = {Aged(r) : r \in refreshes} /\ refreshes \subseteq Passes
  BY DEF Tick, GateOK
<1>4. refreshes' \subseteq Passes /\ Distinct(refreshes')
  BY <1>3, AgedIs DEF GateOK, Distinct
<1>5. IsFiniteSet(refreshes') /\ Cardinality(refreshes') <= Budget
  <2> DEFINE older == [r \in refreshes |-> Aged(r)]
  <2>1. older \in Surjection(refreshes, refreshes')
    BY <1>3 DEF Surjection
  <2> HIDE DEF older
  <2>2. IsFiniteSet(refreshes') /\ Cardinality(refreshes') <= Cardinality(refreshes)
    BY <2>1, FS_Surjection DEF GateOK
  <2>3. Cardinality(refreshes') \in Nat /\ Cardinality(refreshes) \in Nat /\ Budget \in Nat
    BY <2>2, FS_CardinalityType, TokenThrottleAssumption DEF GateOK
  <2> QED BY <2>2, <2>3 DEF GateOK
<1>6. passes' = Recent'
  <2>1. passes' = {Aged(r) : r \in {young \in passes : young.age + 1 < Window}}
    BY DEF Tick
  <2>2. \A r \in refreshes : r \in passes <=> r.age < Window
    BY DEF GateOK, Recent
  <2>3. passes \subseteq refreshes
    BY DEF GateOK, Recent
  <2>4. \A r \in refreshes : r.age \in 0..Window /\ (Aged(r).age < Window <=> r.age + 1 < Window)
    BY <1>3, AgedIs DEF Passes
  <2>5. ASSUME NEW x \in passes' PROVE x \in Recent'
    <3>1. PICK r \in passes : r.age + 1 < Window /\ x = Aged(r)
      BY <2>1
    <3>2. x \in refreshes' /\ x.age < Window
      BY <1>3, <2>3, <2>4, <3>1
    <3> QED BY <3>2 DEF Recent
  <2>6. ASSUME NEW x \in Recent' PROVE x \in passes'
    <3>1. x \in refreshes' /\ x.age < Window
      BY DEF Recent
    <3>2. PICK r \in refreshes : x = Aged(r)
      BY <1>3, <3>1
    <3>3. r.age + 1 < Window /\ r.age < Window
      BY <1>1, <2>4, <3>1, <3>2
    <3> QED BY <2>1, <2>2, <3>2, <3>3
  <2> QED BY <2>5, <2>6
<1>7. resolved' = resolved
  BY DEF Tick
<1> QED BY <1>2, <1>4, <1>5, <1>6, <1>7 DEF GateOK

LEMMA RememberKeeps ==
  ASSUME GateOK, NEW t \in Threads, RememberResolvedKid(t) PROVE GateOK'
<1> DEFINE kept == IF Cardinality(resolved) >= MaxResolved THEN {} ELSE resolved
<1>1. MaxResolved \in Nat \ {0} /\ Cardinality(resolved) \in Nat
  BY TokenThrottleAssumption, FS_CardinalityType DEF GateOK
<1>2. IsFiniteSet(kept) /\ Cardinality(kept) \in Nat /\ Cardinality(kept) < MaxResolved
  <2>1. IsFiniteSet({}) /\ Cardinality({}) = 0
    BY FS_EmptySet
  <2> QED BY <1>1, <2>1 DEF GateOK
<1>3. resolved' = kept \union {thread[t].kid}
  BY DEF RememberResolvedKid
<1> HIDE DEF kept
<1>4. /\ IsFiniteSet(kept \union {thread[t].kid})
      /\ Cardinality(kept \union {thread[t].kid})
           = IF thread[t].kid \in kept THEN Cardinality(kept) ELSE Cardinality(kept) + 1
  BY <1>2, FS_AddElement
<1>5. IsFiniteSet(resolved') /\ Cardinality(resolved') <= MaxResolved
  BY <1>1, <1>2, <1>3, <1>4
<1>6. UNCHANGED <<memo, refreshes, passes>>
  BY DEF RememberResolvedKid
<1> QED BY <1>5, <1>6 DEF GateOK, Marked, Recent

LEMMA ForgetKeeps ==
  ASSUME GateOK, NEW t \in Threads, ForgetUnknownKid(t) PROVE GateOK'
<1>1. memo' = [memo EXCEPT ![thread[t].kid] = Absent] /\ UNCHANGED <<resolved, refreshes, passes>>
  BY DEF ForgetUnknownKid
<1>2. Absent \in 0..Absent
  BY TokenThrottleAssumption DEF Absent
<1>3. memo' \in [Kids -> 0..Absent] /\ Marked' \subseteq Marked
  BY <1>1, <1>2 DEF GateOK, Marked
<1>4. IsFiniteSet(Marked') /\ Cardinality(Marked') <= MaxTracked
  BY <1>3, FewerMarked
<1> QED BY <1>1, <1>3, <1>4 DEF GateOK, Recent

LEMMA GateStepOK == KeysOK /\ GateOK /\ [ThrottleNext]_throttleVars => GateOK'
<1> SUFFICES ASSUME KeysOK, GateOK, [ThrottleNext]_throttleVars PROVE GateOK'
  OBVIOUS
<1>1. ASSUME NEW t \in Threads, Step(t) PROVE GateOK'
  <2>1. thread[t].kid \in Kids
    BY DEF KeysOK, ThreadsOK, Validations
  <2>2. CASE RefuseIfRecentlyMissed(t)
    BY <2>1, <2>2, PassKeeps DEF RefuseIfRecentlyMissed
  <2>3. CASE RememberResolvedKid(t)
    BY <2>3, RememberKeeps
  <2>4. CASE ForgetUnknownKid(t)
    BY <2>4, ForgetKeeps
  <2>5. CASE KidIsKnown(t) \/ Ask(t) \/ Answer(t) \/ GetSigningKey(t) \/ End(t)
    BY <2>5, GateKept DEF KidIsKnown, Ask, Answer, GetSigningKey, End
  <2> QED BY <1>1, <2>2, <2>3, <2>4, <2>5 DEF Step
<1>2. ASSUME NEW t \in Threads, NEW k \in Kids, Begin(t, k) PROVE GateOK'
  BY <1>2, GateKept DEF Begin
<1>3. CASE Tick
  BY <1>3, TickKeeps
<1>4. CASE Lapse \/ Rotate \/ Switch \/ UNCHANGED throttleVars
  BY <1>4, GateKept DEF Lapse, Rotate, Switch, throttleVars
<1> QED BY <1>1, <1>2, <1>3, <1>4 DEF ThrottleNext

\* _refuse_if_recently_missed lets no more through in a window than its budget, and
\* what it and _remember_resolved_kid keep stays within its bounds, for any number of
\* threads and key ids.
THEOREM BudgetIsKept == ThrottleSpec => []ThrottleInv
<1>1. GateOK => BudgetHolds
  BY RecentIs DEF GateOK, BudgetHolds
<1>2. KeysOK /\ GateOK => ThrottleTypeOK
  <2> SUFFICES ASSUME KeysOK, GateOK PROVE ThrottleTypeOK
    OBVIOUS
  <2>1. resolved \subseteq Kids \ {NoKid}
    BY PublishedAreKids DEF KeysOK, ProvenanceOK, OnlyPublishedResolved, EverPublished, Served
  <2>2. keySet \subseteq {KeySets[i] : i \in DOMAIN KeySets}
    <3>1. Len(KeySets) \in Nat /\ DOMAIN KeySets = 1..Len(KeySets) /\ rotation \in DOMAIN KeySets
      BY TokenThrottleAssumption DEF KeysOK, ProvenanceOK
    <3>2. 1..rotation \subseteq DOMAIN KeySets
      BY <3>1
    <3> QED BY <3>2 DEF KeysOK, ProvenanceOK, Served
  <2> QED BY <2>1, <2>2 DEF KeysOK, ThreadsOK, GateOK, Distinct, Marked, ThrottleTypeOK
<1>3. KeysOK => OnlyPublishedResolved
  BY DEF KeysOK, ProvenanceOK
<1>4. ThrottleInit => GateOK
  BY GateInitOK
<1>5. KeysOK /\ GateOK /\ [ThrottleNext]_throttleVars => GateOK'
  BY GateStepOK
<1>6. KeysOK /\ GateOK => ThrottleInv
  BY <1>1, <1>2, <1>3 DEF ThrottleInv
<1> QED BY <1>4, <1>5, <1>6, KeysAccounted, PTL DEF ThrottleSpec
--------------------------------------------------------------------------------
(* The dispatch of a call: Init, Next and Spec are Dispatch's from here on. *)

(* Where a call that has a job may stand: the edge check is not awaited by *)
(* anything the client can withdraw.                                       *)
Awaiting(kind) == IF kind = "edge" THEN {"edge"} ELSE {kind, "cancelled"}

(* A request has at most one job, and waits for it in the stage of that    *)
(* name unless the client has withdrawn the call.                          *)
OneJobEach ==
  /\ \A i \in 1..Len(queue) : pc[queue[i].of] \in Awaiting(queue[i].kind)
  /\ \A w \in Workers : job[w] # Nobody => pc[job[w].of] \in Awaiting(job[w].kind)
  /\ \A i, j \in 1..Len(queue) : queue[i].of = queue[j].of => i = j
  /\ \A v, w \in Workers :
       job[v] # Nobody /\ job[w] # Nobody /\ job[v].of = job[w].of => v = w
  /\ \A i \in 1..Len(queue), w \in Workers : job[w] # Nobody => queue[i].of # job[w].of

(* A job of the handler exists only for a call the gates have admitted.    *)
HandlersAdmitted ==
  /\ \A i \in 1..Len(queue) : queue[i].kind = "handler" => Authorised(call[queue[i].of])
  /\ \A w \in Workers :
       job[w] # Nobody /\ job[w].kind = "handler" => Authorised(call[job[w].of])

(* What the gates passed so far have established about a call.             *)
GatesPassed(r) ==
  /\ pc[r] \in {"scope", "ceiling"} => call[r].tool \in Loaded
  /\ pc[r] = "ceiling" /\ AuthRequired =>
       RequiredScope(call[r].tool) \in Granted(call[r].token)
  /\ Reached(r) => Authorised(call[r])

Ended(r) ==
  /\ outcome[r] # Nobody => pc[r] \in {"returned", "done", "cancelled"}
  /\ pc[r] = "returned" => outcome[r] # Nobody

RecordTrue(r) ==
  /\ Len(records[r]) = IF pc[r] = "done" THEN 1 ELSE 0
  /\ pc[r] = "done" =>
       IF outcome[r] = Nobody THEN records[r][1] \notin Outcomes
       ELSE records[r][1] = outcome[r]

CallOK(r) == GatesPassed(r) /\ Ended(r) /\ RecordTrue(r)

CacheIsLive == \A t \in cached : phase[t] = "live"

IInv ==
  /\ TypeOK
  /\ OneJobEach
  /\ HandlersAdmitted
  /\ \A r \in Requests : CallOK(r)
  /\ CacheIsLive

-----------------------------------------------------------------------------
LEMMA InitOK == Init => IInv
<1> SUFFICES ASSUME Init PROVE IInv
  OBVIOUS
<1>1. NoCall \in Calls
  BY ToolSets DEF NoCall, Calls, Callers
<1>2. TypeOK
  <2>1. records \in [Requests -> Seq(Decisions)] /\ queue \in Seq(Jobs)
    BY DEF Init
  <2>2. keysHeld \in BOOLEAN
    BY DEF Init
  <2> QED BY <1>1, <2>1, <2>2 DEF Init, TypeOK, Stages, Callers
<1>3. OneJobEach /\ HandlersAdmitted
  BY DEF Init, OneJobEach, HandlersAdmitted
<1>4. (\A r \in Requests : CallOK(r)) /\ CacheIsLive
  BY DEF Init, CallOK, GatesPassed, Ended, Reached, RecordTrue, CacheIsLive
<1> QED BY <1>2, <1>3, <1>4 DEF IInv

(* Resolving the caller yields the claims of the token presented or none,  *)
(* and keeps the cache to live tokens.                                     *)
LEMMA ResolveOK ==
  ASSUME TypeOK, CacheIsLive, NEW t \in Callers,
         NEW claims \in Callers, Resolve(t, claims)
  PROVE  /\ claims \in {t, NoToken}
         /\ claims # NoToken => phase[t] # "dead"
         /\ cached' \subseteq Tokens /\ keysHeld' \in BOOLEAN
         /\ \A u \in cached' : phase[u] = "live"
BY TokenGrants DEF TypeOK, CacheIsLive, Callers, Resolve, Validate, CachePut

(* A record made by Conclude, or at the edge, carries a known label.       *)
LEMMA AppendRecord ==
  ASSUME TypeOK, NEW r \in Requests, NEW d \in Decisions
  PROVE  /\ [records EXCEPT ![r] = Append(@, d)] \in [Requests -> Seq(Decisions)]
         /\ Len(Append(records[r], d)) = Len(records[r]) + 1
         /\ Len(records[r]) = 0 => Append(records[r], d)[1] = d
BY DEF TypeOK

-----------------------------------------------------------------------------
LEMMA TypeStep == ASSUME IInv, [Next]_vars PROVE TypeOK'
<1> USE DEF IInv
<1>1. ASSUME NEW r \in Requests, Arrive(r) PROVE TypeOK'
  <2>1. PICK c \in Calls : call' = [call EXCEPT ![r] = c]
    BY <1>1 DEF Arrive
  <2>2. call' \in [Requests -> Calls]
    BY <2>1 DEF TypeOK
  <2>3. \/ Move(r, "edge") /\ Enqueue("edge", r) /\ UNCHANGED records
        \/ /\ Move(r, "done")
           /\ records' = [records EXCEPT ![r] = Append(@, "denied_authentication")]
           /\ UNCHANGED queue
        \/ Move(r, "admitted") /\ UNCHANGED <<records, queue>>
    BY <1>1, Zenon DEF Arrive
  <2>4. /\ pc' \in [Requests -> Stages] /\ queue' \in Seq(Jobs)
        /\ records' \in [Requests -> Seq(Decisions)]
    <3>1. CASE Move(r, "edge") /\ Enqueue("edge", r) /\ UNCHANGED records
      BY <3>1 DEF TypeOK, Move, Enqueue, Stages, Jobs
    <3>2. CASE /\ Move(r, "done")
               /\ records' = [records EXCEPT ![r] = Append(@, "denied_authentication")]
               /\ UNCHANGED queue
      BY <3>2, AppendRecord DEF TypeOK, Move, Stages, Decisions
    <3>3. CASE Move(r, "admitted") /\ UNCHANGED <<records, queue>>
      BY <3>3 DEF TypeOK, Move, Stages
    <3> QED BY <2>3, <3>1, <3>2, <3>3
  <2> QED BY <1>1, <2>2, <2>4 DEF Arrive, TypeOK, tokenVars
<1>2. ASSUME NEW r \in Requests, BeginCall(r) PROVE TypeOK'
  BY <1>2 DEF BeginCall, Move, Enqueue, TypeOK, Stages, Jobs, tokenVars
<1>3. ASSUME NEW r \in Requests, NEW d \in Decisions, Conclude(r, d)
      PROVE  /\ pc' \in [Requests -> Stages] /\ loop' = Nobody
             /\ records' \in [Requests -> Seq(Decisions)]
  BY <1>3, AppendRecord DEF Conclude, Move, TypeOK, Stages
<1>4. ASSUME NEW r \in Requests, LoadGate(r) PROVE TypeOK'
  <2>1. /\ pc' \in [Requests -> Stages] /\ loop' \in Requests \cup {Nobody}
        /\ records' \in [Requests -> Seq(Decisions)]
    BY <1>3, <1>4 DEF LoadGate, Decisions, Move, TypeOK, Stages
  <2> QED BY <1>4, <2>1 DEF LoadGate, TypeOK, poolVars, tokenVars
<1>5. ASSUME NEW r \in Requests, ScopeGate(r) PROVE TypeOK'
  <2>1. PICK claims \in Callers : 
          /\ Resolve(call[r].token, claims)
          /\ IF ScopeDenies(call[r].tool, claims)
             THEN Conclude(r, "denied_scope")
             ELSE Move(r, "ceiling") /\ UNCHANGED <<records, loop>>
    BY <1>5 DEF ScopeGate
  <2>2. /\ pc' \in [Requests -> Stages] /\ loop' \in Requests \cup {Nobody}
        /\ records' \in [Requests -> Seq(Decisions)]
    BY <2>1, <1>3 DEF Decisions, Move, TypeOK, Stages
  <2>3. cached' \subseteq Tokens /\ keysHeld' \in BOOLEAN
    BY <2>1, ResolveOK DEF TypeOK, Calls
  <2> QED BY <1>5, <2>2, <2>3 DEF ScopeGate, TypeOK, poolVars
<1>6. ASSUME NEW r \in Requests, CeilingGate(r) PROVE TypeOK'
  <2>1. PICK claims \in Callers : Resolve(call[r].token, claims)
    BY <1>6 DEF CeilingGate
  <2>2. \/ \E d \in Decisions : Conclude(r, d) /\ UNCHANGED queue
        \/ Move(r, "handler") /\ Enqueue("handler", r) /\ loop' = Nobody /\ UNCHANGED records
    BY <1>6, Zenon DEF CeilingGate, Decisions
  <2>4. /\ pc' \in [Requests -> Stages] /\ loop' \in Requests \cup {Nobody}
        /\ records' \in [Requests -> Seq(Decisions)]
        /\ queue' \in Seq(Jobs)
    <3>1. CASE \E d \in Decisions : Conclude(r, d) /\ UNCHANGED queue
      BY <3>1, <1>3 DEF TypeOK
    <3>2. CASE Move(r, "handler") /\ Enqueue("handler", r) /\ loop' = Nobody /\ UNCHANGED records
      BY <3>2 DEF Move, Enqueue, Jobs, TypeOK, Stages
    <3> QED BY <2>2, <3>1, <3>2
  <2>3. cached' \subseteq Tokens /\ keysHeld' \in BOOLEAN
    BY <2>1, ResolveOK DEF TypeOK, Calls
  <2> QED BY <1>6, <2>3, <2>4 DEF CeilingGate, TypeOK
<1>7. ASSUME NEW r \in Requests, Reply(r) PROVE TypeOK'
  <2>1. outcome[r] \in Decisions
    BY <1>7 DEF Reply, TypeOK, CallOK, Ended, Decisions
  <2> QED BY <1>3, <1>7, <2>1 DEF Reply, TypeOK, poolVars, tokenVars
<1>8. ASSUME NEW r \in Requests, Cancel(r) PROVE TypeOK'
  BY <1>8 DEF Cancel, Move, TypeOK, Stages, poolVars, tokenVars
<1>9. ASSUME NEW w \in Workers, PickUp(w) PROVE TypeOK'
  BY <1>9 DEF PickUp, TypeOK, dispatchVars, tokenVars
<1>10. ASSUME NEW w \in Workers, FinishEdge(w) PROVE TypeOK'
  <2>1. PICK ok \in BOOLEAN : 
          /\ Validate(call[job[w].of].token, ok)
          /\ Move(job[w].of, IF ok THEN "admitted" ELSE "done")
          /\ records' = IF ok THEN records
                        ELSE [records EXCEPT ![job[w].of] = Append(@, "denied_authentication")]
    BY <1>10 DEF FinishEdge
  <2>2. job[w].of \in Requests
    BY <1>10 DEF FinishEdge, Working, TypeOK, Jobs
  <2>3. records' \in [Requests -> Seq(Decisions)]
    BY <2>1, <2>2, AppendRecord DEF Decisions, TypeOK
  <2>4. pc' \in [Requests -> Stages]
    BY <2>1, <2>2 DEF TypeOK, Move, Stages
  <2>5. keysHeld' \in BOOLEAN
    BY <2>1 DEF Validate, TypeOK
  <2> QED BY <1>10, <2>3, <2>4, <2>5 DEF FinishEdge, Free, TypeOK
<1>11. ASSUME NEW w \in Workers, FinishCaller(w) PROVE TypeOK'
  <2>1. PICK r \in Requests : r = job[w].of
    BY <1>11 DEF FinishCaller, Working, TypeOK, Jobs
  <2>2. PICK claims \in Callers :
          /\ Resolve(call[r].token, claims)
          /\ IF pc[r] = "caller"
             THEN Move(r, "resolved")
             ELSE UNCHANGED pc
    BY <1>11, <2>1, Zenon DEF FinishCaller
  <2>3. pc' \in [Requests -> Stages]
    BY <2>2 DEF TypeOK, Move, Stages
  <2>4. cached' \subseteq Tokens /\ keysHeld' \in BOOLEAN
    BY <2>2, ResolveOK DEF TypeOK, Calls
  <2> QED BY <1>11, <2>3, <2>4 DEF FinishCaller, Free, TypeOK
<1>12. ASSUME NEW w \in Workers, FinishHandler(w) PROVE TypeOK'
  <2>1. job[w].of \in Requests
    BY <1>12 DEF FinishHandler, Working, TypeOK, Jobs
  <2>2. outcome' \in [Requests -> Outcomes \cup {Nobody}] /\ pc' \in [Requests -> Stages]
    BY <1>12, <2>1 DEF FinishHandler, TypeOK, Stages
  <2> QED BY <1>12, <2>2 DEF FinishHandler, Free, TypeOK, tokenVars
<1>13. ASSUME Clock PROVE TypeOK'
  BY <1>13 DEF Clock, KeysLapse, TokenAges, CacheEntryLapses, TypeOK, dispatchVars, poolVars
<1>14. ASSUME UNCHANGED vars PROVE TypeOK'
  BY <1>14 DEF vars, TypeOK
<1> QED BY <1>1, <1>2, <1>4, <1>5, <1>6, <1>7, <1>8, <1>9, <1>10, <1>11, <1>12, <1>13, <1>14
        DEF Next, LoopStep, WorkerStep, Rest

-----------------------------------------------------------------------------
(* How the steps treat jobs: a call without a job changes its stage, a     *)
(* call without a job is given one, a thread takes one, a thread ends one. *)
Waiting == {"edge", "caller", "handler", "cancelled"}

LEMMA JobsTyped ==
  ASSUME TypeOK
  PROVE  /\ Len(queue) \in Nat /\ \A i \in 1..Len(queue) : queue[i] \in Jobs /\ queue[i].of \in Requests
         /\ \A w \in Workers : job[w] # Nobody => job[w] \in Jobs /\ job[w].of \in Requests
<1>1. \A j \in Jobs : j.of \in Requests
  BY DEF Jobs
<1>2. Len(queue) \in Nat /\ \A i \in 1..Len(queue) : queue[i] \in Jobs
  BY DEF TypeOK
<1>3. \A w \in Workers : job[w] # Nobody => job[w] \in Jobs
  BY DEF TypeOK
<1> QED BY <1>1, <1>2, <1>3

LEMMA StageMoveJobs ==
  ASSUME IInv, NEW r \in Requests, NEW s, pc[r] \notin Waiting \/ s = "cancelled", pc[r] # "edge",
         Move(r, s), UNCHANGED <<queue, job>>
  PROVE  OneJobEach'
<1>1. pc' = [q \in Requests |-> IF q = r THEN s ELSE pc[q]]
  BY DEF Move, IInv, TypeOK
<1>2. \A i \in 1..Len(queue) : pc'[queue[i].of] \in Awaiting(queue[i].kind)
  <2>1. TAKE i \in 1..Len(queue)
  <2>2. pc[queue[i].of] \in Awaiting(queue[i].kind) /\ queue[i] \in Jobs /\ queue[i].of \in Requests
    BY JobsTyped DEF IInv, OneJobEach
  <2> QED BY <1>1, <2>2 DEF Waiting, Awaiting, Jobs
<1>3. \A w \in Workers : job[w] # Nobody => pc'[job[w].of] \in Awaiting(job[w].kind)
  <2>1. SUFFICES ASSUME NEW w \in Workers, job[w] # Nobody
                 PROVE  pc'[job[w].of] \in Awaiting(job[w].kind)
    OBVIOUS
  <2>2. pc[job[w].of] \in Awaiting(job[w].kind) /\ job[w] \in Jobs /\ job[w].of \in Requests
    BY <2>1, JobsTyped DEF IInv, OneJobEach
  <2> QED BY <1>1, <2>2 DEF Waiting, Awaiting, Jobs
<1> QED BY <1>2, <1>3 DEF IInv, OneJobEach

LEMMA EnqueueJobs ==
  ASSUME IInv, NEW r \in Requests, NEW kind \in {"edge", "caller", "handler"},
         pc[r] \notin Waiting, Move(r, kind), Enqueue(kind, r), UNCHANGED job
  PROVE  OneJobEach'
<1>1. \A i \in 1..Len(queue) : queue[i] \in Jobs /\ queue[i].of \in Requests /\ queue[i].of # r
  <2>1. TAKE i \in 1..Len(queue)
  <2>2. pc[queue[i].of] \in Awaiting(queue[i].kind) /\ queue[i] \in Jobs /\ queue[i].of \in Requests
    BY JobsTyped DEF IInv, OneJobEach
  <2> QED BY <2>2 DEF Waiting, Awaiting, Jobs
<1>2. \A w \in Workers : job[w] # Nobody =>
        job[w] \in Jobs /\ job[w].of \in Requests /\ job[w].of # r
  <2>1. SUFFICES ASSUME NEW w \in Workers, job[w] # Nobody
                 PROVE  job[w] \in Jobs /\ job[w].of \in Requests /\ job[w].of # r
    OBVIOUS
  <2>2. pc[job[w].of] \in Awaiting(job[w].kind) /\ job[w] \in Jobs /\ job[w].of \in Requests
    BY <2>1, JobsTyped DEF IInv, OneJobEach
  <2> QED BY <2>2 DEF Waiting, Awaiting, Jobs
<1>3. /\ Len(queue') = Len(queue) + 1 /\ Len(queue) \in Nat
      /\ \A i \in 1..Len(queue) : queue'[i] = queue[i]
      /\ queue'[Len(queue) + 1] = [kind |-> kind, of |-> r]
  BY DEF IInv, TypeOK, Enqueue
<1>4. \A i \in 1..Len(queue') : i \in 1..Len(queue) \/ i = Len(queue) + 1
  BY <1>3
<1>5. pc'[r] = kind /\ \A q \in Requests : q # r => pc'[q] = pc[q]
  BY DEF Move, IInv, TypeOK
<1>6. \A i \in 1..Len(queue') : pc'[queue'[i].of] \in Awaiting(queue'[i].kind)
  <2>1. kind \in Awaiting(kind)
    BY DEF Awaiting
  <2> QED BY <1>1, <1>3, <1>4, <1>5, <2>1 DEF IInv, OneJobEach
<1>7. \A w \in Workers : job'[w] # Nobody => pc'[job'[w].of] \in Awaiting(job'[w].kind)
  BY <1>2, <1>5 DEF IInv, OneJobEach
<1>8. \A i, j \in 1..Len(queue') : queue'[i].of = queue'[j].of => i = j
  BY <1>1, <1>3, <1>4 DEF IInv, OneJobEach
<1>9. \A i \in 1..Len(queue'), w \in Workers : job'[w] # Nobody => queue'[i].of # job'[w].of
  BY <1>1, <1>2, <1>3, <1>4 DEF IInv, OneJobEach
<1> QED BY <1>6, <1>7, <1>8, <1>9 DEF IInv, OneJobEach

LEMMA PickUpJobs ==
  ASSUME IInv, NEW w \in Workers, PickUp(w)
  PROVE  OneJobEach' /\ HandlersAdmitted'
<1>1. /\ queue \in Seq(Jobs) /\ queue # <<>>
      /\ Len(queue') = Len(queue) - 1 /\ Len(queue') \in Nat
      /\ \A i \in 1..Len(queue') : queue'[i] = queue[i + 1] /\ i + 1 \in 1..Len(queue)
      /\ Head(queue) = queue[1] /\ 1 \in 1..Len(queue)
  BY DEF IInv, TypeOK, PickUp
<1>2. /\ job[w] = Nobody
      /\ \A v \in Workers : v # w => job'[v] = job[v]
      /\ job'[w] = Nobody \/ job'[w] = queue[1]
  BY <1>1 DEF IInv, TypeOK, PickUp
<1>3. UNCHANGED <<pc, call>>
  BY DEF PickUp, dispatchVars
<1>4. \A i \in 1..Len(queue') : i + 1 # 1
  BY <1>1
<1>5. OneJobEach'
  <2>1. \A i, j \in 1..Len(queue') : queue'[i].of = queue'[j].of => i = j
    <3>1. TAKE i, j \in 1..Len(queue')
    <3>2. queue'[i].of = queue'[j].of => i + 1 = j + 1
      BY <1>1 DEF IInv, OneJobEach
    <3> QED BY <3>2, <1>1
  <2>2. \A i \in 1..Len(queue'), v \in Workers : job'[v] # Nobody => queue'[i].of # job'[v].of
    BY <1>1, <1>2, <1>4 DEF IInv, OneJobEach
  <2>3. \A v \in Workers : job'[v] # Nobody => pc'[job'[v].of] \in Awaiting(job'[v].kind)
    BY <1>1, <1>2, <1>3 DEF IInv, OneJobEach
  <2>4. \A v, u \in Workers :
          job'[v] # Nobody /\ job'[u] # Nobody /\ job'[v].of = job'[u].of => v = u
    BY <1>1, <1>2 DEF IInv, OneJobEach
  <2>5. \A i \in 1..Len(queue') : pc'[queue'[i].of] \in Awaiting(queue'[i].kind)
    BY <1>1, <1>3 DEF IInv, OneJobEach
  <2> QED BY <2>1, <2>2, <2>3, <2>4, <2>5 DEF OneJobEach
<1>6. HandlersAdmitted'
  <2>1. \A i \in 1..Len(queue') : queue'[i].kind = "handler" => Authorised(call[queue'[i].of])
    BY <1>1 DEF IInv, HandlersAdmitted
  <2>2. \A v \in Workers : job'[v] # Nobody /\ job'[v].kind = "handler" => Authorised(call[job'[v].of])
    BY <1>1, <1>2 DEF IInv, HandlersAdmitted
  <2> QED BY <1>3, <2>1, <2>2 DEF HandlersAdmitted
<1> QED BY <1>5, <1>6

LEMMA FreeJobs ==
  ASSUME IInv, NEW w \in Workers, job[w] # Nobody, Free(w), UNCHANGED <<queue, call>>,
         \A q \in Requests : q # job[w].of => pc'[q] = pc[q]
  PROVE  OneJobEach' /\ HandlersAdmitted'
<1>1. \A i \in 1..Len(queue) : queue[i].of \in Requests /\ queue[i].of # job[w].of
  BY JobsTyped DEF IInv, OneJobEach
<1>2. \A v \in Workers : job'[v] = IF v = w THEN Nobody ELSE job[v]
  BY DEF IInv, TypeOK, Free
<1>3. \A v \in Workers : v # w /\ job[v] # Nobody => job[v].of \in Requests /\ job[v].of # job[w].of
  BY JobsTyped DEF IInv, OneJobEach
<1>4. \A i \in 1..Len(queue) : pc'[queue[i].of] \in Awaiting(queue[i].kind)
  BY <1>1 DEF IInv, OneJobEach
<1>5. \A v \in Workers : job'[v] # Nobody => pc'[job'[v].of] \in Awaiting(job'[v].kind)
  BY <1>2, <1>3 DEF IInv, OneJobEach
<1>6. OneJobEach'
  BY <1>2, <1>4, <1>5 DEF IInv, OneJobEach
<1>7. HandlersAdmitted'
  BY <1>2 DEF IInv, HandlersAdmitted
<1> QED BY <1>6, <1>7

-----------------------------------------------------------------------------
(* How the steps treat calls: the steps of one call leave the others as    *)
(* they are, and a step that ends a call records what happened to it.      *)
LEMMA OthersKept ==
  ASSUME IInv, NEW r \in Requests, CallOK(r)',
         \A q \in Requests : q # r =>
           /\ pc'[q] = pc[q] /\ call'[q] = call[q]
           /\ outcome'[q] = outcome[q] /\ records'[q] = records[q]
  PROVE  \A q \in Requests : CallOK(q)'
BY DEF IInv, CallOK, GatesPassed, Ended, Reached, RecordTrue

LEMMA ConcludeOK ==
  ASSUME IInv, NEW r \in Requests, NEW d \in Decisions, Conclude(r, d),
         UNCHANGED <<call, outcome, queue, job>>,
         pc[r] \in {"resolved", "scope", "ceiling", "returned"},
         IF outcome[r] = Nobody THEN d \notin Outcomes ELSE d = outcome[r]
  PROVE  OneJobEach' /\ HandlersAdmitted' /\ \A q \in Requests : CallOK(q)'
<1>1. /\ pc' = [q \in Requests |-> IF q = r THEN "done" ELSE pc[q]]
      /\ records' = [q \in Requests |-> IF q = r THEN Append(records[r], d) ELSE records[q]]
  BY DEF Conclude, Move, IInv, TypeOK
<1>2. OneJobEach'
  BY StageMoveJobs DEF Conclude, Waiting
<1>3. HandlersAdmitted'
  BY DEF IInv, HandlersAdmitted
<1>4. Len(records'[r]) = 1 /\ records'[r][1] = d
  BY <1>1, AppendRecord DEF IInv, CallOK, RecordTrue
<1>5. CallOK(r)'
  BY <1>1, <1>4 DEF IInv, CallOK, GatesPassed, Ended, Reached, RecordTrue
<1>6. \A q \in Requests : CallOK(q)'
  BY <1>1, <1>5, OthersKept
<1> QED BY <1>2, <1>3, <1>6

(* A call without a job moves on and leaves no record yet.                 *)
LEMMA StageMoveOK ==
  ASSUME IInv, NEW r \in Requests, NEW s, Move(r, s), s \notin {"done", "handler", "returned"},
         pc[r] \notin Waiting \/ s = "cancelled", pc[r] \notin {"edge", "done"},
         pc[r] = "returned" => s = "cancelled",
         UNCHANGED <<call, outcome, queue, job, records>>,
         s \in {"scope", "ceiling"} => call[r].tool \in Loaded,
         s = "ceiling" /\ AuthRequired => RequiredScope(call[r].tool) \in Granted(call[r].token)
  PROVE  OneJobEach' /\ HandlersAdmitted' /\ \A q \in Requests : CallOK(q)'
<1>1. pc' = [q \in Requests |-> IF q = r THEN s ELSE pc[q]]
  BY DEF Move, IInv, TypeOK
<1>2. OneJobEach'
  BY StageMoveJobs
<1>3. HandlersAdmitted'
  BY DEF IInv, HandlersAdmitted
<1>4. CallOK(r)'
  <2>1. CallOK(r)
    BY DEF IInv
  <2>2. outcome[r] # Nobody => s = "cancelled"
    BY <2>1 DEF CallOK, Ended, Waiting
  <2>3. GatesPassed(r)'
    BY <1>1, <2>1, <2>2 DEF CallOK, GatesPassed, Reached
  <2>4. Ended(r)'
    BY <1>1, <2>1, <2>2 DEF CallOK, Ended
  <2>5. RecordTrue(r)'
    BY <1>1, <2>1 DEF CallOK, RecordTrue
  <2> QED BY <2>3, <2>4, <2>5 DEF CallOK
<1>5. \A q \in Requests : CallOK(q)'
  BY <1>1, <1>4, OthersKept
<1> QED BY <1>2, <1>3, <1>5

(* A call is given a job; only an admitted one is given its handler.       *)
LEMMA EnqueueOK ==
  ASSUME IInv, NEW r \in Requests, NEW kind \in {"edge", "caller", "handler"},
         pc[r] \notin Waiting \cup {"done", "returned"}, Move(r, kind), Enqueue(kind, r),
         UNCHANGED <<call, outcome, job, records>>,
         kind = "handler" => Authorised(call[r])
  PROVE  OneJobEach' /\ HandlersAdmitted' /\ \A q \in Requests : CallOK(q)'
<1>1. pc' = [q \in Requests |-> IF q = r THEN kind ELSE pc[q]]
  BY DEF Move, IInv, TypeOK
<1>2. OneJobEach'
  BY EnqueueJobs
<1>3. HandlersAdmitted'
  <2>1. /\ Len(queue') = Len(queue) + 1 /\ Len(queue) \in Nat
        /\ \A i \in 1..Len(queue) : queue'[i] = queue[i]
        /\ queue'[Len(queue) + 1] = [kind |-> kind, of |-> r]
    BY DEF IInv, TypeOK, Enqueue
  <2>2. \A i \in 1..Len(queue') : i \in 1..Len(queue) \/ i = Len(queue) + 1
    BY <2>1
  <2>3. \A i \in 1..Len(queue') : queue'[i].kind = "handler" => Authorised(call[queue'[i].of])
    BY <2>1, <2>2 DEF IInv, HandlersAdmitted
  <2> QED BY <2>3 DEF IInv, HandlersAdmitted
<1>4. CallOK(r)'
  BY <1>1 DEF IInv, CallOK, GatesPassed, Ended, Reached, RecordTrue, Waiting
<1>5. \A q \in Requests : CallOK(q)'
  BY <1>1, <1>4, OthersKept
<1> QED BY <1>2, <1>3, <1>5

(* A call that has not arrived may be any call: nothing has been           *)
(* established about it.                                                   *)
LEMMA ArriveOK ==
  ASSUME IInv, NEW r \in Requests, Arrive(r)
  PROVE  OneJobEach' /\ HandlersAdmitted' /\ \A q \in Requests : CallOK(q)'
<1>1. /\ pc[r] = "idle" /\ UNCHANGED <<job, outcome>>
      /\ \A q \in Requests : q # r => call'[q] = call[q]
  BY DEF Arrive, IInv, TypeOK
<1>2. outcome[r] = Nobody /\ Len(records[r]) = 0
  BY <1>1 DEF IInv, CallOK, Ended, RecordTrue
<1>3. \A i \in 1..Len(queue) : queue[i].of \in Requests /\ queue[i].of # r
  <2>1. TAKE i \in 1..Len(queue)
  <2>2. queue[i] \in Jobs /\ queue[i].of \in Requests /\ pc[queue[i].of] \in Awaiting(queue[i].kind)
    BY JobsTyped DEF IInv, OneJobEach
  <2> QED BY <1>1, <2>2 DEF Awaiting, Jobs
<1>4. \A w \in Workers : job[w] # Nobody => job[w].of \in Requests /\ job[w].of # r
  <2>1. SUFFICES ASSUME NEW w \in Workers, job[w] # Nobody
                 PROVE  job[w].of \in Requests /\ job[w].of # r
    OBVIOUS
  <2>2. job[w] \in Jobs /\ job[w].of \in Requests /\ pc[job[w].of] \in Awaiting(job[w].kind)
    BY <2>1, JobsTyped DEF IInv, OneJobEach
  <2> QED BY <1>1, <2>2 DEF Awaiting, Jobs
<1>5. \/ Move(r, "edge") /\ Enqueue("edge", r) /\ UNCHANGED records
      \/ /\ Move(r, "done")
         /\ records' = [records EXCEPT ![r] = Append(@, "denied_authentication")]
         /\ UNCHANGED queue
      \/ Move(r, "admitted") /\ UNCHANGED <<records, queue>>
  BY Zenon DEF Arrive
<1>6. \A v \in Workers : job[v] # Nobody /\ job[v].kind = "handler" => Authorised(call'[job[v].of])
  BY <1>1, <1>4 DEF IInv, HandlersAdmitted
<1>7. CASE Move(r, "edge") /\ Enqueue("edge", r) /\ UNCHANGED records
  <2>1. pc' = [q \in Requests |-> IF q = r THEN "edge" ELSE pc[q]]
    BY <1>7 DEF Move, IInv, TypeOK
  <2>2. OneJobEach'
    BY <1>1, <1>7, EnqueueJobs DEF Waiting
  <2>3. HandlersAdmitted'
    <3>1. /\ Len(queue') = Len(queue) + 1 /\ Len(queue) \in Nat
          /\ \A i \in 1..Len(queue) : queue'[i] = queue[i]
          /\ queue'[Len(queue) + 1] = [kind |-> "edge", of |-> r]
      BY <1>7 DEF IInv, TypeOK, Enqueue
    <3>2. \A i \in 1..Len(queue') : i \in 1..Len(queue) \/ i = Len(queue) + 1
      BY <3>1
    <3>3. \A i \in 1..Len(queue') : queue'[i].kind = "handler" => Authorised(call'[queue'[i].of])
      BY <1>1, <1>3, <3>1, <3>2 DEF IInv, HandlersAdmitted
    <3> QED BY <1>1, <1>6, <3>3 DEF HandlersAdmitted
  <2>4. CallOK(r)'
    BY <1>1, <1>2, <1>7, <2>1 DEF CallOK, GatesPassed, Ended, Reached, RecordTrue
  <2>5. \A q \in Requests : CallOK(q)'
    BY <1>1, <1>7, <2>1, <2>4, OthersKept
  <2> QED BY <2>2, <2>3, <2>5
<1>8. ASSUME UNCHANGED queue PROVE HandlersAdmitted'
  <2>1. \A i \in 1..Len(queue) : queue[i].kind = "handler" => Authorised(call'[queue[i].of])
    BY <1>1, <1>3 DEF IInv, HandlersAdmitted
  <2> QED BY <1>1, <1>6, <1>8, <2>1 DEF HandlersAdmitted
<1>9. CASE /\ Move(r, "done")
           /\ records' = [records EXCEPT ![r] = Append(@, "denied_authentication")]
           /\ UNCHANGED queue
  <2>1. /\ pc' = [q \in Requests |-> IF q = r THEN "done" ELSE pc[q]]
        /\ records' = [q \in Requests |->
             IF q = r THEN Append(records[r], "denied_authentication") ELSE records[q]]
    BY <1>9 DEF Move, IInv, TypeOK
  <2>2. OneJobEach'
    BY <1>1, <1>9, StageMoveJobs DEF Waiting
  <2>3. Len(records'[r]) = 1 /\ records'[r][1] = "denied_authentication"
    BY <1>2, <2>1, AppendRecord DEF IInv, Decisions
  <2>4. CallOK(r)'
    BY <1>1, <1>2, <2>1, <2>3 DEF CallOK, GatesPassed, Ended, Reached, RecordTrue, Outcomes
  <2>5. \A q \in Requests : CallOK(q)'
    BY <1>1, <2>1, <2>4, OthersKept
  <2> QED BY <1>8, <1>9, <2>2, <2>5
<1>10. CASE Move(r, "admitted") /\ UNCHANGED <<records, queue>>
  <2>1. pc' = [q \in Requests |-> IF q = r THEN "admitted" ELSE pc[q]]
    BY <1>10 DEF Move, IInv, TypeOK
  <2>2. OneJobEach'
    BY <1>1, <1>10, StageMoveJobs DEF Waiting
  <2>3. CallOK(r)'
    BY <1>1, <1>2, <1>10, <2>1 DEF CallOK, GatesPassed, Ended, Reached, RecordTrue
  <2>4. \A q \in Requests : CallOK(q)'
    BY <1>1, <1>10, <2>1, <2>3, OthersKept
  <2> QED BY <1>8, <1>10, <2>2, <2>4
<1> QED BY <1>5, <1>7, <1>9, <1>10

(* A call that passes the last gate is one every gate admits.              *)
LEMMA CeilingOK ==
  ASSUME IInv, NEW r \in Requests, CeilingGate(r)
  PROVE  OneJobEach' /\ HandlersAdmitted' /\ \A q \in Requests : CallOK(q)'
<1>1. PICK claims \in Callers :
        /\ Resolve(call[r].token, claims)
        /\ IF CeilingRefuses(call[r].tool)
           THEN Conclude(r, "denied_hard_ceiling") /\ UNCHANGED queue
           ELSE IF MustConfirm(call[r].tool, "automation" \in Granted(claims)) /\ ~call[r].confirm
           THEN Conclude(r, "denied_confirmation") /\ UNCHANGED queue
           ELSE IF DryRunInEffect(call[r]) /\ call[r].tool \notin ReadSide
           THEN Conclude(r, "dry_run") /\ UNCHANGED queue
           ELSE Move(r, "handler") /\ Enqueue("handler", r) /\ loop' = Nobody /\ UNCHANGED records
  BY Zenon DEF CeilingGate
<1>2. /\ pc[r] = "ceiling" /\ UNCHANGED <<call, outcome, job>> /\ outcome[r] = Nobody
  BY DEF CeilingGate, IInv, CallOK, Ended
<1>3. call[r].token \in Callers /\ call[r] \in Calls
  BY DEF IInv, TypeOK, Calls
<1>4. claims \in {call[r].token, NoToken}
  BY <1>1, <1>3, ResolveOK DEF IInv
<1>5. ASSUME NEW d \in Decisions \ Outcomes, Conclude(r, d), UNCHANGED queue
      PROVE  OneJobEach' /\ HandlersAdmitted' /\ \A q \in Requests : CallOK(q)'
  BY <1>2, <1>5, ConcludeOK
<1>6. CASE \E d \in Decisions \ Outcomes : Conclude(r, d) /\ UNCHANGED queue
  BY <1>5, <1>6
<1>7. CASE /\ ~CeilingRefuses(call[r].tool)
           /\ ~(MustConfirm(call[r].tool, "automation" \in Granted(claims)) /\ ~call[r].confirm)
           /\ ~(DryRunInEffect(call[r]) /\ call[r].tool \notin ReadSide)
           /\ Move(r, "handler") /\ Enqueue("handler", r) /\ loop' = Nobody /\ UNCHANGED records
  <2>1. /\ call[r].tool \in Loaded
        /\ AuthRequired => RequiredScope(call[r].tool) \in Granted(call[r].token)
    BY <1>2 DEF IInv, CallOK, GatesPassed
  <2>2. "automation" \in Granted(claims) => "automation" \in Granted(call[r].token)
    BY <1>4 DEF Granted
  <2>3. Authorised(call[r])
    BY <1>7, <2>1, <2>2 DEF Authorised, CeilingRefuses, MustConfirm
  <2> QED BY <1>2, <1>7, <2>3, EnqueueOK DEF Waiting
<1>8. {"denied_hard_ceiling", "denied_confirmation", "dry_run"} \subseteq Decisions \ Outcomes
  BY DEF Decisions, Outcomes
<1> QED BY <1>1, <1>6, <1>7, <1>8

(* The steps of the event loop on one call.                                *)
LEMMA LoopOK ==
  ASSUME IInv, NEW r \in Requests, LoopStep(r) \/ Cancel(r)
  PROVE  OneJobEach' /\ HandlersAdmitted' /\ \A q \in Requests : CallOK(q)'
<1>1. CallOK(r)
  BY DEF IInv
<1>2. CASE BeginCall(r)
  BY <1>2, EnqueueOK DEF BeginCall, Waiting, tokenVars
<1>3. CASE LoadGate(r)
  <2>1. /\ pc[r] = "resolved" /\ UNCHANGED <<call, outcome, queue, job>> /\ outcome[r] = Nobody
    BY <1>1, <1>3 DEF LoadGate, poolVars, CallOK, Ended
  <2>2. \/ \E d \in Decisions \ Outcomes : Conclude(r, d)
        \/ call[r].tool \in Loaded /\ Move(r, "scope") /\ UNCHANGED records
    <3>1. {"denied_unknown_tool", "denied_read_only", "denied_deployment"} \subseteq Decisions \ Outcomes
      BY DEF Decisions, Outcomes
    <3> QED BY <1>3, <3>1 DEF LoadGate
  <2>3. CASE \E d \in Decisions \ Outcomes : Conclude(r, d)
    BY <2>1, <2>3, ConcludeOK
  <2>4. CASE call[r].tool \in Loaded /\ Move(r, "scope") /\ UNCHANGED records
    BY <2>1, <2>4, StageMoveOK DEF Waiting
  <2> QED BY <2>2, <2>3, <2>4
<1>4. CASE ScopeGate(r)
  <2>1. PICK claims \in Callers :
          /\ Resolve(call[r].token, claims)
          /\ IF ScopeDenies(call[r].tool, claims)
             THEN Conclude(r, "denied_scope")
             ELSE Move(r, "ceiling") /\ UNCHANGED <<records, loop>>
    BY <1>4 DEF ScopeGate
  <2>2. /\ pc[r] = "scope" /\ UNCHANGED <<call, outcome, queue, job>> /\ outcome[r] = Nobody
        /\ call[r].tool \in Loaded /\ call[r].token \in Callers
    BY <1>1, <1>4 DEF ScopeGate, poolVars, CallOK, Ended, GatesPassed, IInv, TypeOK, Calls
  <2>3. claims \in {call[r].token, NoToken}
    BY <2>1, <2>2, ResolveOK DEF IInv
  <2>4. CASE ScopeDenies(call[r].tool, claims)
    <3>1. "denied_scope" \in Decisions \ Outcomes
      BY DEF Decisions, Outcomes
    <3> QED BY <2>1, <2>2, <2>4, <3>1, ConcludeOK
  <2>5. CASE ~ScopeDenies(call[r].tool, claims)
    <3>1. AuthRequired => RequiredScope(call[r].tool) \in Granted(call[r].token)
      BY <2>3, <2>5 DEF ScopeDenies
    <3> QED BY <2>1, <2>2, <2>5, <3>1, StageMoveOK DEF Waiting
  <2> QED BY <2>4, <2>5
<1>5. CASE CeilingGate(r)
  BY <1>5, CeilingOK
<1>6. CASE Reply(r)
  <2>1. outcome[r] # Nobody /\ outcome[r] \in Decisions
    BY <1>1, <1>6 DEF Reply, CallOK, Ended, IInv, TypeOK, Decisions
  <2> QED BY <1>6, <2>1, ConcludeOK DEF Reply, poolVars
<1>7. CASE Cancel(r)
  BY <1>7, StageMoveOK DEF Cancel, poolVars
<1> QED BY <1>2, <1>3, <1>4, <1>5, <1>6, <1>7 DEF LoopStep

(* The steps of one thread of the executor.                                *)
LEMMA WorkerOK ==
  ASSUME IInv, NEW w \in Workers, WorkerStep(w)
  PROVE  OneJobEach' /\ HandlersAdmitted' /\ \A q \in Requests : CallOK(q)'
<1>1. CASE PickUp(w)
  <2>1. UNCHANGED <<pc, call, records, outcome>>
    BY <1>1 DEF PickUp, dispatchVars
  <2>2. \A q \in Requests : CallOK(q)'
    BY <2>1 DEF IInv, CallOK, GatesPassed, Ended, Reached, RecordTrue
  <2> QED BY <1>1, <2>2, PickUpJobs
<1>2. ASSUME NEW kind \in {"edge", "caller", "handler"}, Working(w, kind)
      PROVE  /\ job[w] # Nobody /\ job[w].kind = kind
             /\ job[w].of \in Requests /\ pc[job[w].of] \in Awaiting(kind)
             /\ CallOK(job[w].of)
  BY <1>2, JobsTyped DEF Working, IInv, OneJobEach
<1>3. CASE FinishEdge(w)
  <2>1. PICK r \in Requests : r = job[w].of /\ job[w] # Nobody /\ pc[r] = "edge" /\ CallOK(r)
    BY <1>2, <1>3 DEF FinishEdge, Awaiting
  <2>2. PICK ok \in BOOLEAN :
          /\ Move(r, IF ok THEN "admitted" ELSE "done")
          /\ records' = IF ok THEN records
                        ELSE [records EXCEPT ![r] = Append(@, "denied_authentication")]
    BY <1>3, <2>1 DEF FinishEdge
  <2>3. Free(w) /\ UNCHANGED <<call, queue, outcome>>
    BY <1>3 DEF FinishEdge
  <2>4. OneJobEach' /\ HandlersAdmitted'
    BY <2>1, <2>2, <2>3, FreeJobs DEF Move, IInv, TypeOK
  <2>5. CallOK(r)'
    <3>1. CASE ok
      BY <2>1, <2>2, <2>3, <3>1 DEF CallOK, GatesPassed, Ended, Reached, RecordTrue, Move, IInv, TypeOK
    <3>2. CASE ~ok
      <4>1. Len(records'[r]) = 1 /\ records'[r][1] = "denied_authentication"
        BY <2>1, <2>2, <3>2, AppendRecord DEF CallOK, RecordTrue, IInv, TypeOK, Decisions
      <4> QED BY <2>1, <2>2, <2>3, <3>2, <4>1
              DEF CallOK, GatesPassed, Ended, Reached, RecordTrue, Move, IInv, TypeOK, Outcomes
    <3> QED BY <3>1, <3>2
  <2> QED BY <2>1, <2>2, <2>3, <2>4, <2>5, OthersKept DEF Move, IInv, TypeOK
<1>4. CASE FinishCaller(w)
  <2>1. PICK r \in Requests : r = job[w].of /\ job[w] # Nobody /\ pc[r] \in {"caller", "cancelled"} /\ CallOK(r)
    BY <1>2, <1>4 DEF FinishCaller, Awaiting
  <2>2. pc' = [q \in Requests |-> IF q = r /\ pc[r] = "caller" THEN "resolved" ELSE pc[q]]
    BY <1>4, <2>1 DEF FinishCaller, Move, IInv, TypeOK
  <2>3. Free(w) /\ UNCHANGED <<call, queue, outcome, records>>
    BY <1>4 DEF FinishCaller
  <2>4. OneJobEach' /\ HandlersAdmitted'
    BY <2>1, <2>2, <2>3, FreeJobs
  <2>5. CallOK(r)'
    BY <2>1, <2>2, <2>3 DEF CallOK, GatesPassed, Ended, Reached, RecordTrue
  <2> QED BY <2>1, <2>2, <2>3, <2>4, <2>5, OthersKept
<1>5. CASE FinishHandler(w)
  <2>1. PICK r \in Requests : r = job[w].of /\ job[w] # Nobody /\ pc[r] \in {"handler", "cancelled"} /\ CallOK(r)
    BY <1>2, <1>5 DEF FinishHandler, Awaiting
  <2>2. pc' = [q \in Requests |-> IF q = r /\ pc[r] = "handler" THEN "returned" ELSE pc[q]]
    BY <1>5, <2>1 DEF FinishHandler, IInv, TypeOK
  <2>3. PICK o \in Outcomes : outcome' = [outcome EXCEPT ![r] = o]
    BY <1>5, <2>1 DEF FinishHandler
  <2>4. outcome' = [q \in Requests |-> IF q = r THEN o ELSE outcome[q]]
    BY <2>3 DEF IInv, TypeOK
  <2>5. Free(w) /\ UNCHANGED <<call, queue, records>>
    BY <1>5 DEF FinishHandler
  <2>6. OneJobEach' /\ HandlersAdmitted'
    BY <2>1, <2>2, <2>5, FreeJobs
  <2>7. Authorised(call[r])
    BY <1>2, <1>5, <2>1 DEF FinishHandler, Working, IInv, HandlersAdmitted
  <2>8. CallOK(r)'
    BY <2>1, <2>2, <2>5, <2>7, <2>4, NobodyElse DEF CallOK, GatesPassed, Ended, Reached, RecordTrue
  <2> QED BY <2>1, <2>2, <2>5, <2>6, <2>8, <2>4, OthersKept
<1> QED BY <1>1, <1>3, <1>4, <1>5 DEF WorkerStep

LEMMA CacheOK == ASSUME IInv, [Next]_vars PROVE CacheIsLive'
<1>1. ASSUME NEW t \in Callers, NEW claims \in Callers,
             Resolve(t, claims), UNCHANGED phase
      PROVE  CacheIsLive'
  BY <1>1, ResolveOK DEF IInv, CacheIsLive
<1>2. ASSUME NEW r \in Requests, Arrive(r) \/ BeginCall(r) \/ LoadGate(r) \/ Reply(r) \/ Cancel(r)
      PROVE  CacheIsLive'
  BY <1>2 DEF Arrive, BeginCall, LoadGate, Reply, Cancel, tokenVars, IInv, CacheIsLive
<1>3. ASSUME NEW r \in Requests, ScopeGate(r) \/ CeilingGate(r)
      PROVE  CacheIsLive'
  <2>1. call[r].token \in Callers
    BY DEF IInv, TypeOK, Calls
  <2>2. UNCHANGED phase /\ \E claims \in Callers : Resolve(call[r].token, claims)
    BY <1>3 DEF ScopeGate, CeilingGate
  <2> QED BY <1>1, <2>1, <2>2
<1>4. ASSUME NEW w \in Workers, PickUp(w) \/ FinishEdge(w) \/ FinishHandler(w)
      PROVE  CacheIsLive'
  BY <1>4 DEF PickUp, FinishEdge, FinishHandler, tokenVars, IInv, CacheIsLive
<1>5. ASSUME NEW w \in Workers, FinishCaller(w)
      PROVE  CacheIsLive'
  <2>1. call[job[w].of].token \in Callers
    BY <1>5, JobsTyped DEF FinishCaller, Working, IInv, TypeOK, Calls
  <2>2. UNCHANGED phase /\ \E claims \in Callers : Resolve(call[job[w].of].token, claims)
    BY <1>5 DEF FinishCaller
  <2> QED BY <1>1, <2>1, <2>2
<1>6. ASSUME Clock PROVE CacheIsLive'
  BY <1>6 DEF Clock, KeysLapse, TokenAges, CacheEntryLapses, IInv, TypeOK, CacheIsLive
<1>7. ASSUME UNCHANGED vars PROVE CacheIsLive'
  BY <1>7 DEF vars, IInv, CacheIsLive
<1> QED BY <1>2, <1>3, <1>4, <1>5, <1>6, <1>7 DEF Next, LoopStep, WorkerStep, Rest

LEMMA IInvStep == ASSUME IInv, [Next]_vars PROVE IInv'
<1>1. OneJobEach' /\ HandlersAdmitted' /\ \A q \in Requests : CallOK(q)'
  <2>1. ASSUME UNCHANGED <<pc, call, records, outcome, queue, job>>
        PROVE  OneJobEach' /\ HandlersAdmitted' /\ \A q \in Requests : CallOK(q)'
    BY <2>1 DEF IInv, OneJobEach, HandlersAdmitted, CallOK, GatesPassed, Ended, Reached, RecordTrue
  <2>2. CASE Clock \/ Rest \/ UNCHANGED vars
    BY <2>1, <2>2 DEF Clock, KeysLapse, TokenAges, CacheEntryLapses, Rest, vars, dispatchVars, poolVars
  <2> QED BY <2>2, ArriveOK, LoopOK, WorkerOK DEF Next
<1> QED BY <1>1, TypeStep, CacheOK DEF IInv

LEMMA Inductive == Spec => []IInv
BY InitOK, IInvStep, PTL DEF Spec

-----------------------------------------------------------------------------
(* Type correctness of every reachable state.                              *)
THEOREM TypeCorrect == Spec => []TypeOK
<1>1. IInv => TypeOK
  BY DEF IInv
<1> QED BY <1>1, Inductive, PTL

(* No handler is reached by a call one of the gates would refuse, in any   *)
(* configuration and under any interleaving of calls, threads and clocks.  *)
THEOREM HandlersRunAuthorised == Spec => []RunsAreAuthorised
<1>1. IInv => RunsAreAuthorised
  BY DEF IInv, CallOK, GatesPassed, RunsAreAuthorised
<1> QED BY <1>1, Inductive, PTL

(* call_tool at every await, with any number of calls, threads, tools and  *)
(* tokens: the types, and no handler run that a gate would refuse.         *)
THEOREM DispatchHolds == Spec => []DispatchInv
BY TypeCorrect, HandlersRunAuthorised, PTL DEF DispatchInv

(* Each call has one record when it is answered and none before, and the   *)
(* record says what happened.                                              *)
THEOREM RecordsAreTrue == Spec => []RecordsTellWhatHappened
<1>1. IInv => RecordsTellWhatHappened
  BY DEF IInv, CallOK, RecordTrue, RecordsTellWhatHappened
<1> QED BY <1>1, Inductive, PTL

(* Only the scope gate takes a call to the ceiling gate.                   *)
LEMMA ScopeGateOnly ==
  ASSUME IInv, [Next]_vars, NEW r \in Requests, pc[r] = "scope", pc'[r] = "ceiling"
  PROVE  ScopeGate(r)
<1>1. ASSUME NEW q \in Requests, Arrive(q) PROVE FALSE
  BY <1>1 DEF Arrive, Move, IInv, TypeOK
<1>2. ASSUME NEW q \in Requests, BeginCall(q) \/ LoadGate(q) \/ Reply(q) \/ Cancel(q) PROVE FALSE
  BY <1>2 DEF BeginCall, LoadGate, Reply, Cancel, Conclude, Move, IInv, TypeOK
<1>3. ASSUME NEW q \in Requests, CeilingGate(q) PROVE FALSE
  BY <1>3 DEF CeilingGate, Conclude, Move, IInv, TypeOK
<1>4. ASSUME NEW q \in Requests, ScopeGate(q) PROVE q = r
  BY <1>4 DEF ScopeGate, Conclude, Move, IInv, TypeOK
<1>5. ASSUME NEW w \in Workers, PickUp(w) PROVE FALSE
  BY <1>5 DEF PickUp, dispatchVars
<1>6. ASSUME NEW w \in Workers, FinishEdge(w) PROVE FALSE
  <2>1. PICK q \in Requests : q = job[w].of
    BY <1>6, JobsTyped DEF FinishEdge, Working, IInv
  <2>2. \E ok \in BOOLEAN : Move(q, IF ok THEN "admitted" ELSE "done")
    BY <1>6, <2>1 DEF FinishEdge
  <2> QED BY <2>2 DEF Move, IInv, TypeOK
<1>7. ASSUME NEW w \in Workers, FinishCaller(w) PROVE FALSE
  BY <1>7, JobsTyped DEF FinishCaller, Working, Move, IInv, TypeOK
<1>8. ASSUME NEW w \in Workers, FinishHandler(w) PROVE FALSE
  BY <1>8, JobsTyped DEF FinishHandler, Working, IInv, TypeOK
<1>9. ASSUME Clock \/ Rest \/ UNCHANGED vars PROVE FALSE
  BY <1>9 DEF Clock, KeysLapse, TokenAges, CacheEntryLapses, Rest, vars, dispatchVars
<1> QED BY <1>1, <1>2, <1>3, <1>4, <1>5, <1>6, <1>7, <1>8, <1>9 DEF Next, LoopStep, WorkerStep

(* Whatever the size of the cache, it lets no dead token through the scope *)
(* gate.                                                                   *)
THEOREM ScopeGateSeesLiveTokens == Spec => DeadTokenPassesNoGate
<1>1. IInv /\ [Next]_vars =>
        [\A r \in Requests :
           pc[r] = "scope" /\ pc'[r] = "ceiling" /\ AuthRequired
             => call[r].token \in Tokens /\ phase[call[r].token] # "dead"]_vars
  <2> SUFFICES ASSUME IInv, [Next]_vars, NEW r \in Requests,
                      pc[r] = "scope", pc'[r] = "ceiling", AuthRequired
               PROVE  call[r].token \in Tokens /\ phase[call[r].token] # "dead"
    OBVIOUS
  <2>1. ScopeGate(r)
    BY ScopeGateOnly
  <2>2. PICK claims \in Callers :
          Resolve(call[r].token, claims) /\ ~ScopeDenies(call[r].tool, claims)
    BY <2>1 DEF ScopeGate, Conclude, Move, IInv, TypeOK
  <2>3. call[r].token \in Callers
    BY DEF IInv, TypeOK, Calls
  <2>4. claims = call[r].token /\ claims # NoToken
    BY <2>2, <2>3, ResolveOK DEF ScopeDenies, IInv
  <2> QED BY <2>2, <2>3, <2>4, ResolveOK DEF IInv, Callers
<1> QED BY <1>1, Inductive, PTL DEF Spec, DeadTokenPassesNoGate
================================================================================

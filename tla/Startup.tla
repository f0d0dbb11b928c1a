-------------------------------- MODULE Startup --------------------------------
(* From the environment an operator writes to a process that serves: the profile *)
(* fills in defaults (profile_config.py), handlers.shared takes its snapshot, the *)
(* tools are chosen (deployment.py), the posture is enforced (server.py, and      *)
(* gui_server.py for the console) and the transport binds.  Several modules read   *)
(* the same variable, each with its own idea of truth; that is kept.               *)
EXTENDS Naturals, FiniteSets

CONSTANTS
  StartingEnvs,  \* environments operators begin with
  MaxEdits,      \* bound: how many variables they then change
  AllTools       \* tools: [plane, writes, neutral]

\* What a variable may hold.  "true" stands for 1, true and yes; "y" for y and t;
\* "blank" is set to nothing; "padded" has a space before it.
Spellings == {"unset", "true", "on", "y", "false"}
Choices == [
  profile      |-> {"unset", "workstation", "enterprise"},
  transport    |-> {"unset", "stdio", "http", "padded", "other"},
  host         |-> {"unset", "blank", "loopback", "alias", "wild"},
  requireAuth  |-> Spellings,
  container    |-> Spellings,
  tls          |-> {"unset", "half", "lost", "pair", "caOnly", "external"},
  skipVerify   |-> Spellings,
  insecureGui  |-> Spellings,
  oauth        |-> Spellings,
  issuer       |-> {"unset", "https", "http", "local"},
  jwks         |-> {"unset", "https", "http", "local"},
  audience     |-> {"unset", "set"},
  allowAny     |-> Spellings,
  tlsInsecure  |-> Spellings,
  auditFile    |-> {"unset", "blank", "path"},
  sinks        |-> {"unset", "stderr", "file"},
  level        |-> {"unset", "raised"},
  readOnly     |-> Spellings,
  secret       |-> {"unset", "set"},
  guiHost      |-> {"unset", "blank", "loopback", "wild"},
  guiRemote    |-> Spellings,
  deployment   |-> {"unset", "junk", "capella", "self_managed", "both"},
  connection   |-> {"unset", "capella", "other"},
  apiKey       |-> {"unset", "set"},
  gate         |-> Spellings,
  declared     |-> {"unset", "capella", "self_managed", "both"}]
Names == DOMAIN Choices

Planes == {"capella", "self_managed"}
Consoles == {"script", "factory", "wsgi"}
ASSUME StartupAssumption ==
  /\ \A env \in StartingEnvs : DOMAIN env = Names /\ \A name \in Names : env[name] \in Choices[name]
  /\ MaxEdits \in Nat
  /\ \A tool \in AllTools : tool.plane \in Planes /\ {tool.writes, tool.neutral} \subseteq BOOLEAN

VARIABLES
  stated,    \* the environment as the operator left it
  env,       \* os.environ of the process
  edits,     \* changes the operator may still make
  process,   \* "server"; the console by __main__ ("script"), under a WSGI server by
             \* create_app ("factory") or as gui_server:app ("wsgi"); or "none"
  stage,     \* how far the process has come
  errors,    \* profile_config.PROFILE_ERRORS is not empty
  snapshot,  \* handlers.shared.READ_ONLY_MODE
  loaded,    \* the tools that are loaded
  audited,   \* the audit file is open
  serves,    \* "stdio", "http", "console" or "none"
  socket     \* where the console really listens: "loopback", "wild"; or "none"

startupVars ==
  <<stated, env, edits, process, stage, errors, snapshot, loaded, audited, serves, socket>>

StartupInit ==
  /\ stated \in StartingEnvs /\ env = stated /\ edits = MaxEdits
  /\ process = "none" /\ stage = "edit" /\ serves = "none" /\ socket = "none"
  /\ errors = FALSE /\ snapshot = TRUE /\ loaded = {} /\ audited = FALSE

Edit ==
  /\ stage = "edit" /\ edits > 0 /\ edits' = edits - 1
  /\ \E name \in Names : \E value \in Choices[name] :
       stated' = [stated EXCEPT ![name] = value]
  /\ env' = stated'
  /\ UNCHANGED <<process, stage, errors, snapshot, loaded, audited, serves, socket>>

Launch(p) ==
  /\ stage = "edit" /\ process' = p /\ stage' = "profile"
  /\ UNCHANGED <<stated, env, edits, errors, snapshot, loaded, audited, serves, socket>>
--------------------------------------------------------------------------------
(* The readers of truth. *)

\* handlers.shared.TRUTHY_VALUES: profile_config, tls_config, env_truthy, get_env_bool.
Truthy(name) == env[name] \in {"true", "on", "y"}
\* _main_http, the scope gate, egress, deployment and most of the console.
Listed(name) == env[name] \in {"true", "on"}
\* The console's acknowledgement, oidc's OAUTH_SKIP_VERIFY.
Literal(name) == env[name] = "true"

WithDefault(value, default) == IF value = "unset" THEN default ELSE value
Transport == WithDefault(env.transport, "stdio")
Host == WithDefault(env.host, "loopback")
GuiHost == IF env.guiHost \in {"unset", "blank"} THEN "loopback" ELSE env.guiHost

--------------------------------------------------------------------------------
(* The profile. *)

WorkstationDefaults == [
  readOnly |-> "false", transport |-> "stdio", host |-> "loopback",
  requireAuth |-> "false", allowAny |-> "false", insecureGui |-> "true"]
EnterpriseDefaults == [
  readOnly |-> "false", requireAuth |-> "true", oauth |-> "true",
  insecureGui |-> "false", allowAny |-> "false", sinks |-> "file", auditFile |-> "path"]
NoDefaults == [name \in {} |-> "unset"]
Defaults ==
  CASE env.profile = "workstation" -> WorkstationDefaults
    [] env.profile = "enterprise"  -> EnterpriseDefaults
    [] OTHER                       -> NoDefaults

IsSet(name) == env[name] \notin {"unset", "blank"}

\* Import of profile_config: what the operator did not set is filled in.
ApplyProfile ==
  /\ stage = "profile" /\ stage' = "validate"
  /\ env' = [name \in Names |->
       IF name \in DOMAIN Defaults /\ ~IsSet(name) THEN Defaults[name] ELSE env[name]]
  /\ UNCHANGED <<stated, edits, process, errors, snapshot, loaded, audited, serves, socket>>

\* A workstation that is reached over the network must say it is a container.
WorkstationIsLocal ==
  Transport = "stdio" \/ Host \in {"loopback", "alias"} \/ Truthy("container")

CleartextKeys == "http" \in {env.issuer, env.jwks}
DurableAudit == IsSet("auditFile") \/ (env.sinks = "file" /\ env.level # "raised")

\* Defect: the narrower reading of truth.
EnterpriseCoherentLiterally ==
  /\ Literal("requireAuth") /\ DurableAudit /\ ~Literal("insecureGui")
  /\ env.issuer # "unset" /\ ~CleartextKeys /\ env.audience = "set"
  /\ ~Literal("allowAny") /\ ~Literal("tlsInsecure")

EnterpriseCoherent ==
  /\ Truthy("requireAuth") /\ DurableAudit /\ ~Truthy("insecureGui")
  /\ env.issuer # "unset" /\ ~CleartextKeys /\ env.audience = "set"
  /\ ~Truthy("allowAny") /\ ~Truthy("tlsInsecure")

\* validate: no problem that is fatal.
Coherent ==
  /\ env.profile # "unset" /\ ~Truthy("skipVerify")
  /\ env.profile = "workstation" => WorkstationIsLocal
  /\ env.profile = "enterprise" => EnterpriseCoherent

ValidateProfile ==
  /\ stage = "validate" /\ stage' = "snapshot" /\ errors' = ~Coherent
  /\ UNCHANGED <<stated, env, edits, process, snapshot, loaded, audited, serves, socket>>

--------------------------------------------------------------------------------
(* What is loaded. *)

\* Defect: the snapshot is taken of what the operator set, before the profile.
SnapshotUnprofiled ==
  /\ stage = "snapshot" /\ stage' = "load"
  /\ snapshot' = (stated.readOnly \in {"unset", "true", "on", "y"})
  /\ UNCHANGED <<stated, env, edits, process, errors, loaded, audited, serves, socket>>

\* Import of handlers.shared.
Snapshot ==
  /\ stage = "snapshot" /\ stage' = "load"
  /\ snapshot' = (env.readOnly = "unset" \/ Truthy("readOnly"))
  /\ UNCHANGED <<stated, env, edits, process, errors, loaded, audited, serves, socket>>

\* Defect: a name that is no mode is taken as it stands.
ModeAsWritten ==
  IF env.deployment # "unset" THEN env.deployment
  ELSE IF env.connection = "capella" THEN "capella"
  ELSE IF env.apiKey = "unset" THEN "self_managed"
  ELSE IF env.connection = "unset" THEN "capella" ELSE "both"

\* detect_mode
Mode ==
  IF env.deployment \notin {"unset", "junk"} THEN env.deployment
  ELSE IF env.connection = "capella" THEN "capella"
  ELSE IF env.apiKey = "unset" THEN "self_managed"
  ELSE IF env.connection = "unset" THEN "capella" ELSE "both"

Available(tool, mode) == mode = "both" \/ tool.plane = mode \/ tool.neutral
Gating == env.gate = "unset" \/ Listed("gate")

\* _filter_tools, _visible_tools
Filtered ==
  {tool \in AllTools : /\ Gating => Available(tool, Mode)
                       /\ tool.writes => ~snapshot}

Load ==
  /\ stage = "load" /\ stage' = "audit" /\ loaded' = Filtered
  /\ UNCHANGED <<stated, env, edits, process, errors, snapshot, audited, serves, socket>>

\* audit_sink_error opens the file; a symbolic link, a missing directory or a
\* missing right stops it.
OpenAudit ==
  /\ stage = "audit" /\ stage' = "enforce"
  /\ audited' \in IF IsSet("auditFile") THEN BOOLEAN ELSE {FALSE}
  /\ UNCHANGED <<stated, env, edits, process, errors, snapshot, loaded, serves, socket>>

AuditUsable == IsSet("auditFile") => audited
--------------------------------------------------------------------------------
(* The posture. *)

\* tls_config.validate, for a bind of the HTTP transport.
TlsCoherent(host) ==
  /\ env.tls \notin {"half", "lost", "caOnly"}
  /\ host \notin {"loopback", "alias"} => env.tls \in {"pair", "external"}

ServerCoherent ==
  /\ ~errors /\ AuditUsable
  /\ env.declared \in {"unset", Mode}
  /\ Transport = "http" => TlsCoherent(Host)

\* As far as the check of the posture can see: GUI_HOST, not the socket.
GuiExposed == GuiHost = "wild"
SignInPossible == Listed("oauth") => env.secret = "set"
\* Defect: the console checks the encryption of no bind of its own.
ConsoleCoherentInClear ==
  /\ ~errors /\ AuditUsable /\ SignInPossible
  /\ GuiExposed => ~Literal("insecureGui") /\ Listed("guiRemote")

ConsoleCoherent ==
  /\ ~errors /\ AuditUsable /\ SignInPossible
  /\ GuiExposed => ~Literal("insecureGui") /\ Listed("guiRemote") /\ TlsCoherent("wild")

Stop(next, how) == stage' = next /\ serves' = how /\ socket' = "none"
Enforced == UNCHANGED <<stated, env, edits, process, errors, snapshot, loaded, audited>>

\* _enforce_profile
EnforceServer ==
  /\ stage = "enforce" /\ process = "server" /\ Enforced
  /\ IF ServerCoherent THEN Stop("main", "none") ELSE Stop("refused", "none")

\* A WSGI server binds what its own command line says and leaves GUI_HOST alone;
\* app.run binds GUI_HOST, and set to nothing its own choice.
Sockets ==
  IF process = "script" /\ env.guiHost # "blank" THEN {GuiHost} ELSE {"loopback", "wild"}

ServeConsole == stage' = "serving" /\ serves' = "console" /\ socket' \in Sockets

\* create_app ends the process; a worker that imports the app goes on and has every
\* request refused.
EnforceConsole ==
  /\ stage = "enforce" /\ process \in Consoles /\ Enforced
  /\ IF ConsoleCoherent \/ process = "wsgi" THEN ServeConsole ELSE Stop("refused", "none")

\* Defect: the gate of the transport takes every spelling of truth.
BindAnySpelling ==
  /\ stage = "main" /\ Enforced
  /\ \/ Transport # "http" /\ Stop("serving", "stdio")
     \/ Transport = "http" /\ Stop("serving", "stdio")
     \/ /\ Transport = "http"
        /\ IF Host # "loopback" /\ ~Truthy("requireAuth") THEN Stop("refused", "none")
           ELSE Stop("serving", "http")

\* _async_main and _main_http.  Without the libraries it needs HTTP becomes stdio,
\* before or after that check.
Bind ==
  /\ stage = "main" /\ Enforced
  /\ \/ Transport # "http" /\ Stop("serving", "stdio")
     \/ Transport = "http" /\ Stop("serving", "stdio")
     \/ /\ Transport = "http"
        /\ IF Host # "loopback" /\ ~Listed("requireAuth") THEN Stop("refused", "none")
           ELSE Stop("serving", "http")

StartupNext ==
  \/ Edit \/ \E p \in {"server"} \union Consoles : Launch(p)
  \/ ApplyProfile \/ ValidateProfile \/ Snapshot \/ Load \/ OpenAudit
  \/ EnforceServer \/ EnforceConsole \/ Bind

StartupSpec == StartupInit /\ [][StartupNext]_startupVars
--------------------------------------------------------------------------------
(* How a process that serves answers. *)

\* Defect: believed for the profile's name.
HumanByProfile == env.profile = "workstation"

\* authz.human_is_present, outside the console.
HumanIsPresent == env.profile = "workstation" /\ Transport = "stdio"

EdgeDemandsToken == Truthy("requireAuth")      \* _ScopeAuthMiddleware
ScopeGateDemandsToken == Listed("requireAuth") \* scope_gate._auth_required

\* Defect: with sign-in off, what is not acknowledged is let through.
ConsoleAnswersOpen(local, signedIn) ==
  /\ ConsoleCoherent
  /\ Literal("insecureGui") => local
  /\ Listed("oauth") => signedIn

\* _posture_guard and global_auth_check, for /api/.
ConsoleAnswers(local, signedIn) ==
  /\ ConsoleCoherent
  /\ Literal("insecureGui") => local
  /\ IF Listed("oauth") THEN signedIn ELSE Literal("insecureGui")
--------------------------------------------------------------------------------
StartupTypeOK ==
  /\ \A name \in Names : stated[name] \in Choices[name] /\ env[name] \in Choices[name]
  /\ edits \in 0..MaxEdits /\ {errors, snapshot, audited} \subseteq BOOLEAN
  /\ process \in {"none", "server"} \union Consoles /\ loaded \subseteq AllTools
  /\ Mode \in Planes \union {"both"}
  /\ stage \in {"edit", "profile", "validate", "snapshot", "load", "audit", "enforce",
                "main", "serving", "refused"}
  /\ serves \in {"none", "stdio", "http", "console"} /\ socket \in {"none", "loopback", "wild"}

\* Another machine reaches only a socket that listens to others.
Admitted(local, signedIn) == (local \/ socket = "wild") /\ ConsoleAnswers(local, signedIn)

Answers ==
  \/ serves \in {"stdio", "http"}
  \/ serves = "console" /\ \E local, signedIn \in BOOLEAN : Admitted(local, signedIn)

\* A transport that other machines reach demands a token at the edge and again at the
\* scope gate, and its traffic is encrypted or said to be, whatever was spelled how.
ExposedIsGuarded ==
  serves = "http" /\ Host \in {"blank", "wild"} =>
    /\ EdgeDemandsToken /\ ScopeGateDemandsToken
    /\ env.tls \in {"pair", "external"}

\* Under the enterprise profile whatever answers has, for the code that acts on it
\* and not only for the check, a token where a socket is served, verified against keys
\* that did not travel in the clear, an audience, certificates checked on the way to
\* the cluster, an egress list in force, and a record that outlives the process.
EnterpriseIsAccountable ==
  Answers /\ env.profile = "enterprise" =>
    /\ serves = "http" => EdgeDemandsToken
    /\ ~Literal("skipVerify") /\ env.audience = "set"
    /\ {env.issuer, env.jwks} \subseteq {"unset", "https", "local"} /\ env.issuer # "unset"
    /\ ~Truthy("tlsInsecure") /\ ~Listed("allowAny")
    /\ audited \/ (env.sinks = "file" /\ env.level # "raised")

\* A confirmation is taken for a person's only where no socket is served.
HumanOnlyAtStdio == process = "server" /\ serves # "none" /\ HumanIsPresent => serves = "stdio"

\* However the console was launched and wherever it listens, it answers a caller
\* without a session only where that was acknowledged and the caller is local.  Where
\* GUI_HOST names the bind, another machine is answered only on one that was allowed
\* and is encrypted or said to be.  Of a bind only the WSGI server knows it says nothing:
\* the code cannot see it, and such a console answers other machines in clear text.
ConsoleIsGuarded ==
  serves = "console" =>
    \A local, signedIn \in BOOLEAN : Admitted(local, signedIn) =>
      /\ ~signedIn => local /\ Literal("insecureGui")
      /\ ~local /\ (GuiExposed \/ (process = "script" /\ env.guiHost # "blank")) =>
           Listed("guiRemote") /\ env.tls \in {"pair", "external"}

\* Write tools are loaded exactly where the operator, or else the profile, turned
\* read-only mode off; and a tool that cannot work on the plane the process manages
\* only where gating was turned off.
LoadedAsStated ==
  stage = "serving" /\ env.profile # "unset" =>
    /\ \A tool \in AllTools : tool.writes /\ Available(tool, Mode) =>
         (tool \in loaded <=> stated.readOnly \in {"unset", "false"})
    /\ \A tool \in loaded : Available(tool, Mode) \/ stated.gate \notin {"unset", "true", "on"}

\* Whoever is answered, by the server or the console and however it was started, is
\* somebody the settings let be answered; on which bind, as far as the settings name it.
AccessInv == StartupTypeOK /\ ExposedIsGuarded /\ ConsoleIsGuarded /\ HumanOnlyAtStdio

\* What the operator stated and what the profile demands is in force in what serves.
SettingsInv == EnterpriseIsAccountable /\ LoadedAsStated
================================================================================

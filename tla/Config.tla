-------------------------------- MODULE Config --------------------------------
(***************************************************************************)
(* Configuration loading and hot reload.                                   *)
(*                                                                         *)
(* config.Manager (src/internal/auth/jwt.go 470-615) holds the current     *)
(* *Config.  Load runs entirely under m.mu: it reads the file, unmarshals  *)
(* it over the defaults, validates it and only then swaps m.config, so it  *)
(* is one step here; Get is a read under the read lock.  Two processes own *)
(* a Manager over the same file: the gateway (src/cmd/gateway/main.go) and *)
(* the configuration server (src/cmd/config-server/main.go).               *)
(*                                                                         *)
(* The gateway builds every component (JWTAuth, the rate limiter, the      *)
(* middleware manager, the Gateway's g.config) from the one cfg it Gets at *)
(* startup: `live` is what those components hold, `gcfg` is g.config.      *)
(* Reloads come from the file watcher (Manager.Watch, viper's WatchConfig  *)
(* and fsnotify) and from the admin handler Gateway.reloadConfig, whose    *)
(* Reload, Get and assignment to g.config are three steps with no lock     *)
(* held between them.                                                      *)
(*                                                                         *)
(* Data: a file is a record of the settings validateConfig and the         *)
(* startup wiring read (unset fields take setDefaults' values), or a file  *)
(* viper cannot parse (Broken), or one whose values do not decode into     *)
(* the Config struct (Mistyped); Absent is a removed file.                 *)
(***************************************************************************)
EXTENDS Integers, Sequences, FiniteSets

CONSTANTS
    Contents,   \* the file contents the operator may write
    Admins,     \* concurrent reloadConfig requests to the gateway
    MaxWrites,  \* bound: writes and removals of the file
    Unset,      \* a key the file does not set
    Broken,     \* a file ReadInConfig cannot parse
    Mistyped,   \* a file whose values Unmarshal cannot decode
    Absent,     \* no file at the path
    None        \* a nil *Config

G  == "gateway"
CS == "configsrv"
Procs == {G, CS}

\* The file contents that read and unmarshal; the others fail in Load.
Records == Contents \ {Broken, Mistyped}

ASSUME MaxWrites \in Nat

\* setDefaults followed by viper.Unmarshal: a key absent from the file takes
\* its default (server.port 8080, rate_limit.enabled true,
\* rate_limit.default.requests 100, auth.jwt.expiration_time 1h); the JWT
\* secret has no default and stays "".
Decode(c) ==
    [port      |-> IF c.port = Unset THEN 8080 ELSE c.port,
     secret    |-> IF c.secret = Unset THEN "" ELSE c.secret,
     rlEnabled |-> IF c.rlEnabled = Unset THEN TRUE ELSE c.rlEnabled,
     requests  |-> IF c.requests = Unset THEN 100 ELSE c.requests,
     expiry    |-> IF c.expiry = Unset THEN 60 ELSE c.expiry]

Configs == {Decode(c) : c \in Records}

\* Manager.validateConfig.
ValidateConfig(cfg) ==
    /\ cfg.port > 0 /\ cfg.port <= 65535
    /\ cfg.secret # ""
    /\ cfg.rlEnabled => cfg.requests > 0

VARIABLES
    file,       \* the contents of configs/config.yaml (or Absent)
    writes,     \* file writes and removals so far
    events,     \* fsnotify events queued to viper's watcher goroutine
    watch,      \* "off", "armed" (WatchConfig), "registered" (OnConfigChange), "stopped"
    phase,      \* per process: "starting", "serving", "exited" (Fatal), "stopped"
    snapshot,   \* per process: Manager.config (None before the first Load)
    live,       \* the cfg the gateway's components were built from
    gcfg,       \* Gateway.config
    adm         \* per reloadConfig request: pc and the value Get returned

vars == <<file, writes, events, watch, phase, snapshot, live, gcfg, adm>>

-----------------------------------------------------------------------------

\* Load's outcome for the current file: ReadInConfig, Unmarshal and
\* validateConfig all succeed.
LoadsOk == file \in Records /\ ValidateConfig(Decode(file))

\* A Load that drops the previous snapshot before reading the file.
LoadedResetFirst(p) ==
    IF LoadsOk THEN [snapshot EXCEPT ![p] = Decode(file)]
               ELSE [snapshot EXCEPT ![p] = None]

\* Manager.Load(path) of process p: on any error m.config is left as it was.
Loaded(p) ==
    IF LoadsOk THEN [snapshot EXCEPT ![p] = Decode(file)] ELSE snapshot

\* Manager.Reload: Load(m.viper.ConfigFileUsed()), the same path.
Reload(p) == Loaded(p)

\* Manager.Get: m.config under the read lock.
Get(p) == snapshot[p]

\* The watcher's callback only logging the change.
OnWriteLogsOnly == snapshot

\* viper's watcher on a Write or Create event: it calls onConfigChange if
\* one is registered; Manager.Watch's callback calls Reload, whose error is
\* only logged.
OnWrite == IF watch = "registered" THEN Reload(G) ELSE snapshot

Watching == watch \in {"armed", "registered"} /\ phase[G] = "serving"

\* fsnotify reports a change only once WatchConfig has added the directory.
Notify(e) == IF Watching THEN Append(events, e) ELSE events

-----------------------------------------------------------------------------

Init ==
    /\ file \in Contents
    /\ writes = 0
    /\ events = <<>>
    /\ watch = "off"
    /\ phase = [p \in Procs |-> "starting"]
    /\ snapshot = [p \in Procs |-> None]
    /\ live = None
    /\ gcfg = None
    /\ adm = [a \in Admins |-> [pc |-> "idle", val |-> None]]

\* The operator writes (or creates) the file.
WriteFile(c) ==
    /\ writes < MaxWrites
    /\ file' = c
    /\ writes' = writes + 1
    /\ events' = Notify("write")
    /\ UNCHANGED <<watch, phase, snapshot, live, gcfg, adm>>

\* The operator removes the file.
RemoveFile ==
    /\ writes < MaxWrites
    /\ file # Absent
    /\ file' = Absent
    /\ writes' = writes + 1
    /\ events' = Notify("remove")
    /\ UNCHANGED <<watch, phase, snapshot, live, gcfg, adm>>

\* gateway main: Load (Fatal on error), cfg := Get(), the components and
\* NewGateway built from cfg, SetupRoutes, the servers started.
GatewayStartup ==
    /\ phase[G] = "starting"
    /\ IF LoadsOk
         THEN /\ phase' = [phase EXCEPT ![G] = "serving"]
              /\ snapshot' = Loaded(G)
              /\ live' = Decode(file)
              /\ gcfg' = Decode(file)
         ELSE /\ phase' = [phase EXCEPT ![G] = "exited"]
              /\ UNCHANGED <<snapshot, live, gcfg>>
    /\ UNCHANGED <<file, writes, events, watch, adm>>

\* `go configManager.Watch()`: WatchConfig returns once the watcher is on
\* the directory ...
ArmWatch ==
    /\ phase[G] = "serving"
    /\ watch = "off"
    /\ watch' = "armed"
    /\ UNCHANGED <<file, writes, events, phase, snapshot, live, gcfg, adm>>

\* ... and only then is the reload callback registered.
RegisterCallback ==
    /\ watch = "armed"
    /\ watch' = "registered"
    /\ UNCHANGED <<file, writes, events, phase, snapshot, live, gcfg, adm>>

\* viper's watcher goroutine takes the next event: a write reloads through
\* the callback; a remove of the config file ends the goroutine.
HandleEvent ==
    /\ Watching
    /\ events # <<>>
    /\ IF Head(events) = "write"
         THEN /\ snapshot' = OnWrite
              /\ events' = Tail(events)
              /\ UNCHANGED watch
         ELSE /\ watch' = "stopped"
              /\ events' = <<>>
              /\ UNCHANGED snapshot
    /\ UNCHANGED <<file, writes, phase, live, gcfg, adm>>

\* Gateway.reloadConfig: configManager.Reload(); a failure answers 500.
AdminReload(a) ==
    /\ phase[G] = "serving"
    /\ adm[a].pc = "idle"
    /\ snapshot' = Reload(G)
    /\ adm' = [adm EXCEPT ![a].pc = IF LoadsOk THEN "reloaded" ELSE "idle"]
    /\ UNCHANGED <<file, writes, events, watch, phase, live, gcfg>>

\* ... then g.configManager.Get() ...
AdminGet(a) ==
    /\ adm[a].pc = "reloaded"
    /\ adm' = [adm EXCEPT ![a] = [pc |-> "got", val |-> Get(G)]]
    /\ UNCHANGED <<file, writes, events, watch, phase, snapshot, live, gcfg>>

\* ... stored into g.config without a lock, and 200.
AdminAssign(a) ==
    /\ adm[a].pc = "got"
    /\ gcfg' = adm[a].val
    /\ adm' = [adm EXCEPT ![a] = [pc |-> "idle", val |-> None]]
    /\ UNCHANGED <<file, writes, events, watch, phase, snapshot, live>>

\* SIGINT/SIGTERM: server.Shutdown lets in-flight handlers finish.
Shutdown(p) ==
    /\ phase[p] = "serving"
    /\ \A a \in Admins : p = G => adm[a].pc = "idle"
    /\ phase' = [phase EXCEPT ![p] = "stopped"]
    /\ UNCHANGED <<file, writes, events, watch, snapshot, live, gcfg, adm>>

\* config-server main: Load, Fatal on error.
ConfigServerStartup ==
    /\ phase[CS] = "starting"
    /\ phase' = [phase EXCEPT ![CS] = IF LoadsOk THEN "serving" ELSE "exited"]
    /\ snapshot' = Loaded(CS)
    /\ UNCHANGED <<file, writes, events, watch, live, gcfg, adm>>

\* ConfigServer.reloadConfig: Reload of its own Manager; 500 on error.
ConfigServerReload ==
    /\ phase[CS] = "serving"
    /\ snapshot' = Reload(CS)
    /\ UNCHANGED <<file, writes, events, watch, phase, live, gcfg, adm>>

Next ==
    \/ \E c \in Contents : WriteFile(c)
    \/ RemoveFile
    \/ GatewayStartup
    \/ ArmWatch
    \/ RegisterCallback
    \/ HandleEvent
    \/ \E a \in Admins : AdminReload(a) \/ AdminGet(a) \/ AdminAssign(a)
    \/ \E p \in Procs : Shutdown(p)
    \/ ConfigServerStartup
    \/ ConfigServerReload

\* viper's watcher is a goroutine of its own blocked on the event channel:
\* once an event is queued it eventually runs.
Fairness == WF_vars(HandleEvent)

Spec == Init /\ [][Next]_vars /\ Fairness

-----------------------------------------------------------------------------
(* Properties                                                              *)

TypeOK ==
    /\ file \in Contents \cup {Absent}
    /\ writes \in 0..MaxWrites
    /\ events \in Seq({"write", "remove"})
    /\ watch \in {"off", "armed", "registered", "stopped"}
    /\ phase \in [Procs -> {"starting", "serving", "exited", "stopped"}]
    /\ snapshot \in [Procs -> Configs \cup {None}]
    /\ \A p \in Procs : phase[p] = "serving" => snapshot[p] \in Configs
    /\ live \in Configs \cup {None} /\ gcfg \in Configs \cup {None}
    /\ adm \in [Admins -> [pc : {"idle", "reloaded", "got"},
                           val : Configs \cup {None}]]

\* Manager.Watch: once the callback is registered and the next queued
\* fsnotify event is a write of a valid file, the gateway's Manager ends
\* up holding that file's contents, unless the file changes again or the
\* gateway stops first.
WatchedWriteApplied ==
    \A c \in Records :
        (/\ phase[G] = "serving" /\ watch = "registered"
         /\ events # <<>> /\ Head(events) = "write"
         /\ file = c /\ ValidateConfig(Decode(c)))
        ~> (snapshot[G] = Decode(c) \/ file # c \/ phase[G] # "serving")

\* spec.md 4.7 / property 8: a request arriving after a configuration swap
\* observes the new snapshot.  In the gateway a new request reads the
\* components built at startup (JWTAuth, the middleware manager's config,
\* the rate limiter) and Gateway.config (login's "expires", getConfig).
RequestSeesCurrentSnapshot ==
    phase[G] = "serving" => live = snapshot[G] /\ gcfg = snapshot[G]

=============================================================================

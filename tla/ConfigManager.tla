--------------------------- MODULE ConfigManager ---------------------------
(***************************************************************************)
(* ConfigManager.Apply (internal/manager/config_manager.go) together with  *)
(* what it writes through: the state file (internal/store/state_store.go), *)
(* the cloud address kept in memory and in daemon.json                     *)
(* (internal/config/config.go), OpenClaw's .env and openclaw.json, and the *)
(* OpenClaw gateway it restarts and probes.                                *)
(*                                                                         *)
(* Apply runs on the goroutine that read the sys_config message.  Several  *)
(* goroutines can be inside it at once (module Daemon says when), so the   *)
(* steps of Handlers interleave: Apply takes no lock of its own, and the   *)
(* locks of FileStore and Config are released between the steps.           *)
(*                                                                         *)
(* Of a file's content is kept the config_version it was written from, and *)
(* for openclaw.json, which is merged and not replaced, the variables its  *)
(* ${...} placeholders name: .env has to set them, or the gateway does not *)
(* start.  Every write is a temporary file and a rename, hence one step.   *)
(***************************************************************************)
EXTENDS Integers

CONSTANTS
    Handlers,    \* goroutines that may run Apply
    Versions,    \* the config_version values the cloud issues
    URLs,        \* cloud addresses
    NoURL,       \* no address: an absent key, an unset environment variable
    URLOf,       \* the CLOUD_WS_URL (or EDGE_GATEWAY_WS_URL) of each version
    SetsModel,   \* the versions whose config names a chat model
    BootURL,     \* cloud.ws_url of the installed daemon.json
    EnvURL,      \* OPENCLAW_CLOUD_WS_URL of the service, or NoURL
    HasRestart,  \* restart_command is configured
    HasHealth,   \* gateway_health_url is configured
    Keys,        \* the variables of .env that secrets are taken from
    NoKey,       \* no such variable
    Carries,     \* the Keys that the config of each version sets
    Providers,   \* model providers
    ProvidersOf, \* the providers of the models each version names
    KeyOf,       \* PROVIDER_API_KEY_ENV of each version, or NoKey
    BootKeys,    \* the Keys that the installed .env sets
    BootRefs,    \* the placeholders of the installed openclaw.json
    Devices,     \* device token and identity, opaque to Apply
    NoDevice     \* nothing persisted by the gateway adapter yet

ASSUME VersionsAssumption == Versions \subseteq Nat
ASSUME URLAssumption ==
    /\ NoURL \notin URLs
    /\ BootURL \in URLs
    /\ EnvURL \in URLs \cup {NoURL}
    /\ URLOf \in [Versions -> URLs \cup {NoURL}]
ASSUME OptionsAssumption == SetsModel \subseteq Versions /\ HasRestart \in BOOLEAN /\ HasHealth \in BOOLEAN
ASSUME DeviceAssumption == NoDevice \in Devices

\* where openclaw.json takes a secret from a placeholder: the apiKey of a provider,
\* and gateway.auth.token
Slots == Providers \cup {"gateway"}

APIKey     == "API_KEY"
TokenKey   == "OPENCLAW_GATEWAY_TOKEN"
Backfilled == {"VORTEX_OPENAI_API_KEY", "MINIMAX_API_KEY"}

ASSUME KeyAssumption ==
    /\ {APIKey, TokenKey} \cup Backfilled \subseteq Keys
    /\ NoKey \notin Keys
    /\ "gateway" \notin Providers
    /\ Carries \in [Versions -> SUBSET Keys]
    /\ ProvidersOf \in [Versions -> SUBSET Providers]
    /\ KeyOf \in [Versions -> Keys \cup {NoKey}]
    /\ BootKeys \subseteq Keys
    /\ BootRefs \in [Slots -> BootKeys \cup {NoKey}]  \* the installed gateway starts

VARIABLES
    step,       \* where each handler is in Apply
    req,        \* the version each handler is applying
    loaded,     \* the State each handler's Apply loaded from the state file
    result,     \* the status or error code of the acknowledgement Apply built
    stateFile,  \* the state file: last config version and device fields
    memURL,     \* Config.Cloud.WSURL, what the next dial uses
    snapURL,    \* the address each handler's persist() copied under RLock
    diskURL,    \* cloud.ws_url in daemon.json
    envFile,    \* version .env was generated from; 0: as installed
    jsonFile,   \* openclaw.json: the version its primary model is of, its placeholders
    jsonRead,   \* what each handler's ensureJSONConfig read
    jsonReads,  \* history: "failed" once a read of openclaw.json has failed
    gw          \* the gateway: whether it serves, and the files it started with

applyVars  == <<step, req, loaded, result, snapURL, jsonRead, jsonReads>>
sharedVars == <<stateFile, memURL, diskURL, envFile, jsonFile, gw>>
vars == <<step, req, loaded, result, stateFile, memURL, snapURL, diskURL,
          envFile, jsonFile, jsonRead, jsonReads, gw>>

FileVersions == Versions \cup {0}
States == [ver : FileVersions, device : Devices]
EmptyState == [ver |-> 0, device |-> NoDevice]

Fallible == {"load", "mkdir", "writeURL", "writeEnv", "readJSON", "writeJSON", "save"}
Steps == {"idle", "setURL", "persist", "restart", "health", "ack"} \cup Fallible
Codes == {"INTERNAL_ERROR", "CONFIG_APPLY_FAILED", "GATEWAY_UNAVAILABLE"}
Results == {"none", "success", "ignored"} \cup Codes

JSONs     == [model : FileVersions, refs : [Slots -> Keys \cup {NoKey}]]
EmptyJSON == [model |-> 0, refs |-> [s \in Slots |-> NoKey]]
BootJSON  == [model |-> 0, refs |-> BootRefs]

Gateways == [st : {"down", "starting", "up"}, env : FileVersions, json : JSONs]

Init ==
    /\ step = [h \in Handlers |-> "idle"]
    /\ req = [h \in Handlers |-> 0]
    /\ loaded = [h \in Handlers |-> EmptyState]
    /\ result = [h \in Handlers |-> "none"]
    /\ stateFile = EmptyState
    /\ memURL = (IF EnvURL # NoURL THEN EnvURL ELSE BootURL)
    /\ snapURL = [h \in Handlers |-> BootURL]
    /\ diskURL = BootURL
    /\ envFile = 0
    /\ jsonFile = BootJSON
    /\ jsonRead = [h \in Handlers |-> EmptyJSON]
    /\ jsonReads = "sound"
    /\ gw = [st |-> "up", env |-> 0, json |-> BootJSON]

----------------------------------------------------------------------------
(* Apply, one action per call it makes. *)

Goto(h, s)      == step' = [step EXCEPT ![h] = s]
Finish(h, code) == Goto(h, "ack") /\ result' = [result EXCEPT ![h] = code]

\* the router hands a sys_config of version v to Apply
Receive(h, v) ==
    /\ step[h] = "idle"
    /\ Goto(h, "load")
    /\ req' = [req EXCEPT ![h] = v]
    /\ UNCHANGED <<loaded, result, snapURL, jsonRead, jsonReads, sharedVars>>

\* mutants: any other version; the same version again
IsNewerDiffers(v, state) == v # state.ver
IsNewerOrSame(v, state)  == v >= state.ver

\* the version of a configuration is new to the state that was read
IsNewer(v, state) == v > state.ver

\* mutant: the version is recorded before it is applied
LoadStateRecords(h) ==
    /\ step[h] = "load"
    /\ IF IsNewer(req[h], stateFile)
         THEN /\ Goto(h, "mkdir")
              /\ stateFile' = [stateFile EXCEPT !.ver = req[h]]
              /\ loaded' = [loaded EXCEPT ![h] = stateFile']
              /\ UNCHANGED result
         ELSE /\ Finish(h, "ignored")
              /\ UNCHANGED <<loaded, stateFile>>
    /\ UNCHANGED <<req, snapURL, jsonRead, jsonReads, memURL, diskURL, envFile, jsonFile, gw>>

\* load the state and drop a version that is not newer than the recorded one
LoadState(h) ==
    /\ step[h] = "load"
    /\ IF IsNewer(req[h], stateFile)
         THEN /\ Goto(h, "mkdir")
              /\ loaded' = [loaded EXCEPT ![h] = stateFile]
              /\ UNCHANGED result
         ELSE /\ Finish(h, "ignored")
              /\ UNCHANGED loaded
    /\ UNCHANGED <<req, snapURL, jsonRead, jsonReads, sharedVars>>

\* MkdirAll of the work directory; without an address there is no URL to update
MakeWorkDir(h) ==
    /\ step[h] = "mkdir"
    /\ Goto(h, IF URLOf[req[h]] = NoURL THEN "writeEnv" ELSE "setURL")
    /\ UNCHANGED <<req, loaded, result, snapURL, jsonRead, jsonReads, sharedVars>>

\* UpdateCloudWSURL: the address in memory changes first ...
SetURL(h) ==
    /\ step[h] = "setURL"
    /\ memURL' = URLOf[req[h]]
    /\ Goto(h, "persist")
    /\ UNCHANGED <<req, loaded, result, snapURL, jsonRead, jsonReads, stateFile, diskURL, envFile, jsonFile, gw>>

\* ... then persist() copies the configuration under the read lock ...
SnapshotURL(h) ==
    /\ step[h] = "persist"
    /\ snapURL' = [snapURL EXCEPT ![h] = memURL]
    /\ Goto(h, "writeURL")
    /\ UNCHANGED <<req, loaded, result, jsonRead, jsonReads, sharedVars>>

\* ... and writes daemon.json after releasing it
WriteURL(h) ==
    /\ step[h] = "writeURL"
    /\ diskURL' = snapURL[h]
    /\ Goto(h, "writeEnv")
    /\ UNCHANGED <<req, loaded, result, snapURL, jsonRead, jsonReads,
                   stateFile, memURL, envFile, jsonFile, gw>>

\* mutant: no variable is derived from another one
EnvKeysAsCarried(v) == IF v = 0 THEN BootKeys ELSE Carries[v]

\* the variables of a .env: those of the payload, and the old ones that API_KEY
\* stands in for
EnvKeys(v) ==
    IF v = 0 THEN BootKeys
             ELSE Carries[v] \cup {k \in Backfilled : APIKey \in Carries[v]}

\* .env is regenerated from the payload alone
WriteEnv(h) ==
    /\ step[h] = "writeEnv"
    /\ envFile' = req[h]
    /\ Goto(h, "readJSON")
    /\ UNCHANGED <<req, loaded, result, snapURL, jsonRead, jsonReads, stateFile, memURL, diskURL, jsonFile, gw>>

\* openclaw.json is read, merged with the payload and written back
ReadJSON(h) ==
    /\ step[h] = "readJSON"
    /\ jsonRead' = [jsonRead EXCEPT ![h] = jsonFile]
    /\ Goto(h, "writeJSON")
    /\ UNCHANGED <<req, loaded, result, snapURL, jsonReads, sharedVars>>

\* a file that cannot be read, or is empty, counts as one without settings
ReadJSONFails(h) ==
    /\ step[h] = "readJSON"
    /\ jsonRead' = [jsonRead EXCEPT ![h] = EmptyJSON]
    /\ jsonReads' = "failed"
    /\ Goto(h, "writeJSON")
    /\ UNCHANGED <<req, loaded, result, snapURL, sharedVars>>

\* a missing gateway token refers to .env; a config that names a chat model points
\* the providers of its models to its key; every other provider stays
MergedRefs(v, refs) ==
    [s \in Slots |->
        IF s = "gateway" THEN (IF refs[s] = NoKey THEN TokenKey ELSE refs[s])
        ELSE IF v \in SetsModel /\ s \in ProvidersOf[v] /\ KeyOf[v] # NoKey THEN KeyOf[v]
        ELSE refs[s]]

\* mutant: a model that is set already is kept
MergedJSONKeeps(v, base) ==
    [model |-> IF v \in SetsModel /\ base.model = 0 THEN v ELSE base.model,
     refs  |-> MergedRefs(v, base.refs)]

MergedJSON(v, base) ==
    [model |-> IF v \in SetsModel THEN v ELSE base.model,
     refs  |-> MergedRefs(v, base.refs)]

WriteJSON(h) ==
    /\ step[h] = "writeJSON"
    /\ jsonFile' = MergedJSON(req[h], jsonRead[h])
    /\ jsonRead' = [jsonRead EXCEPT ![h] = EmptyJSON]
    /\ Goto(h, "restart")
    /\ UNCHANGED <<req, loaded, result, snapURL, jsonReads, stateFile, memURL, diskURL, envFile, gw>>

\* what a gateway that starts now runs with
Started == [st |-> "starting", env |-> envFile, json |-> jsonFile]

\* the restart command exits 0, or none is configured
Restart(h) ==
    /\ step[h] = "restart"
    /\ gw' = IF HasRestart THEN Started ELSE gw
    /\ Goto(h, "health")
    /\ UNCHANGED <<req, loaded, result, snapURL, jsonRead, jsonReads, stateFile, memURL, diskURL, envFile, jsonFile>>

\* it cannot run, exits non-zero or times out, whatever it did by then
RestartFails(h) ==
    /\ step[h] = "restart"
    /\ HasRestart
    /\ gw' \in {gw, Started, [gw EXCEPT !.st = "down"]}
    /\ Finish(h, "CONFIG_APPLY_FAILED")
    /\ UNCHANGED <<req, loaded, snapURL, jsonRead, jsonReads, stateFile, memURL, diskURL, envFile, jsonFile>>

\* one probe, without a retry
HealthOK(h) ==
    /\ step[h] = "health"
    /\ HasHealth => gw.st = "up"
    /\ Goto(h, "save")
    /\ UNCHANGED <<req, loaded, result, snapURL, jsonRead, jsonReads, sharedVars>>

\* mutant: restart and probe until the gateway answers
HealthFailsRetries(h) ==
    /\ step[h] = "health"
    /\ HasHealth
    /\ Goto(h, "restart")
    /\ UNCHANGED <<req, loaded, result, snapURL, jsonRead, jsonReads, sharedVars>>

HealthFails(h) ==
    /\ step[h] = "health"
    /\ HasHealth
    /\ Finish(h, "GATEWAY_UNAVAILABLE")
    /\ UNCHANGED <<req, loaded, snapURL, jsonRead, jsonReads, sharedVars>>

\* the State loaded at the start is saved with the new version
Save(h) ==
    /\ step[h] = "save"
    /\ stateFile' = [loaded[h] EXCEPT !.ver = req[h]]
    /\ Finish(h, "success")
    /\ UNCHANGED <<req, loaded, snapURL, jsonRead, jsonReads, memURL, diskURL, envFile, jsonFile, gw>>

ErrorCode(s) == IF s \in {"load", "save"} THEN "INTERNAL_ERROR" ELSE "CONFIG_APPLY_FAILED"

\* mutants: the error of a write is logged and Apply goes on; a state that could
\* not be saved is acknowledged
FileErrorIgnored(h) ==
    /\ step[h] \in Fallible
    /\ CASE step[h] = "writeURL" -> Goto(h, "writeEnv") /\ UNCHANGED result
         [] step[h] = "writeEnv" -> Goto(h, "readJSON") /\ UNCHANGED result
         [] step[h] = "writeJSON" -> Goto(h, "restart") /\ UNCHANGED result
         [] OTHER -> Finish(h, ErrorCode(step[h]))
    /\ UNCHANGED <<req, loaded, snapURL, jsonRead, jsonReads, sharedVars>>

FileErrorHidden(h) ==
    /\ step[h] \in Fallible
    /\ Finish(h, IF step[h] = "save" THEN "success" ELSE ErrorCode(step[h]))
    /\ UNCHANGED <<req, loaded, snapURL, jsonRead, jsonReads, sharedVars>>

\* a file operation fails; the rename is its last call, so nothing changed on disk
FileError(h) ==
    /\ step[h] \in Fallible
    /\ Finish(h, ErrorCode(step[h]))
    /\ UNCHANGED <<req, loaded, snapURL, jsonRead, jsonReads, sharedVars>>

\* Apply returned; the router sends sys_config_ack and the handler is free, without
\* what Apply held in its local variables
Ack(h) ==
    /\ step[h] = "ack"
    /\ Goto(h, "idle")
    /\ req' = [req EXCEPT ![h] = 0]
    /\ loaded' = [loaded EXCEPT ![h] = EmptyState]
    /\ result' = [result EXCEPT ![h] = "none"]
    /\ snapURL' = [snapURL EXCEPT ![h] = BootURL]
    /\ jsonRead' = [jsonRead EXCEPT ![h] = EmptyJSON]
    /\ UNCHANGED <<jsonReads, sharedVars>>

----------------------------------------------------------------------------
(* The surroundings: the gateway process, and a crash of the daemon. *)

\* every placeholder names a variable of .env
Resolves(v, refs) == \A s \in Slots : refs[s] \in EnvKeys(v) \cup {NoKey}

\* a gateway with a placeholder that does not resolve fails at startup
GatewayServes ==
    /\ gw.st = "starting"
    /\ Resolves(gw.env, gw.json.refs)
    /\ gw' = [gw EXCEPT !.st = "up"]
    /\ UNCHANGED <<applyVars, stateFile, memURL, diskURL, envFile, jsonFile>>

GatewayDies ==
    /\ gw.st # "down"
    /\ gw' = [gw EXCEPT !.st = "down"]
    /\ UNCHANGED <<applyVars, stateFile, memURL, diskURL, envFile, jsonFile>>

\* its supervisor starts it again, with the files as they are now
GatewayStarts ==
    /\ gw.st = "down"
    /\ gw' = Started
    /\ UNCHANGED <<applyVars, stateFile, memURL, diskURL, envFile, jsonFile>>

\* no handler is in Apply
NoCalls ==
    /\ step' = [h \in Handlers |-> "idle"]
    /\ req' = [h \in Handlers |-> 0]
    /\ loaded' = [h \in Handlers |-> EmptyState]
    /\ result' = [h \in Handlers |-> "none"]
    /\ snapURL' = [h \in Handlers |-> BootURL]
    /\ jsonRead' = [h \in Handlers |-> EmptyJSON]

\* mutant: the environment's address is taken although it is not set
CrashForgetsURL ==
    /\ NoCalls
    /\ memURL' = EnvURL
    /\ UNCHANGED <<jsonReads, stateFile, diskURL, envFile, jsonFile, gw>>

\* the daemon dies and systemd starts it again: Load reads daemon.json and the
\* environment overrides the address; a restart command may have run or not
Crash ==
    /\ NoCalls
    /\ memURL' = (IF EnvURL # NoURL THEN EnvURL ELSE diskURL)
    /\ gw' \in {gw} \cup (IF HasRestart /\ \E h \in Handlers : step[h] = "restart"
                            THEN {Started, [gw EXCEPT !.st = "down"]} ELSE {})
    /\ UNCHANGED <<jsonReads, stateFile, diskURL, envFile, jsonFile>>

ApplyStep(h) ==
    \/ LoadState(h) \/ MakeWorkDir(h)
    \/ SetURL(h) \/ SnapshotURL(h) \/ WriteURL(h)
    \/ WriteEnv(h) \/ ReadJSON(h) \/ ReadJSONFails(h) \/ WriteJSON(h)
    \/ Restart(h) \/ RestartFails(h)
    \/ HealthOK(h) \/ HealthFails(h)
    \/ Save(h) \/ FileError(h)

GatewayStep == GatewayServes \/ GatewayDies \/ GatewayStarts

Next ==
    \/ \E h \in Handlers :
         \/ \E v \in Versions : Receive(h, v)
         \/ ApplyStep(h)
         \/ Ack(h)
    \/ GatewayStep
    \/ Crash

Spec == Init /\ [][Next]_vars

(* A goroutine that is runnable runs; every call of Apply has a timeout      *)
(* (RestartTimeoutSec, the http client's Timeout), and the gateway's         *)
(* supervisor starts it again.  The restart command runs in ExecRunner: that *)
(* its timeout ends it needs that it leaves nothing behind which holds its   *)
(* output open (CommandEnds of module RemoteCommand).  Nothing is assumed of *)
(* the cloud, of crashes or of errors.                                       *)
Fairness ==
    /\ \A h \in Handlers : WF_vars(ApplyStep(h)) /\ WF_vars(Ack(h))
    /\ WF_vars(GatewayServes) /\ WF_vars(GatewayStarts)

FairSpec == Spec /\ Fairness

----------------------------------------------------------------------------
(* Properties.  Those marked (one handler) hold while calls of Apply do not  *)
(* overlap; module Daemon shows when they do and what is lost.               *)

\* Every variable stays in its set.
TypeOK ==
    /\ step \in [Handlers -> Steps]
    /\ req \in [Handlers -> FileVersions]
    /\ loaded \in [Handlers -> States]
    /\ result \in [Handlers -> Results]
    /\ stateFile \in States
    /\ memURL \in URLs /\ diskURL \in URLs
    /\ snapURL \in [Handlers -> URLs]
    /\ envFile \in FileVersions /\ jsonFile \in JSONs
    /\ jsonRead \in [Handlers -> JSONs]
    /\ jsonReads \in {"sound", "failed"}
    /\ gw \in Gateways

AfterCheck  == {"mkdir", "setURL", "persist", "writeURL", "writeEnv", "readJSON",
                "writeJSON", "restart", "health", "save"}
AfterURL    == {"writeEnv", "readJSON", "writeJSON", "restart", "health", "save"}
AfterEnv    == {"readJSON", "writeJSON", "restart", "health", "save"}
AfterJSON   == {"restart", "health", "save"}
AfterStart  == {"health", "save"}
Succeeded(h) == step[h] = "ack" /\ result[h] = "success"

\* daemon.json, .env and openclaw.json hold what the version asks for
URLInstalled(v)  == URLOf[v] # NoURL => diskURL = URLOf[v]
JSONInstalled(v) == v \in SetsModel => jsonFile.model = v

\* (one handler) When Apply reports success its version is recorded, the three
\* files hold it, and the gateway was started from them: no failed or skipped
\* step, and no crash before it, hides behind the acknowledgement.
SuccessIsInstalled ==
    \A h \in Handlers : Succeeded(h) =>
        /\ stateFile.ver = req[h]
        /\ URLInstalled(req[h]) /\ JSONInstalled(req[h])
        /\ envFile = req[h]
        /\ HasRestart => gw.env = req[h] /\ (req[h] \in SetsModel => gw.json.model = req[h])

\* (one handler) The files are never older than the recorded version, across
\* failed applications and crashes: a redelivery that is answered "ignored"
\* finds its configuration, or a newer one, in place.  (The model setting is lost
\* if openclaw.json cannot be read: a later version then writes it anew.)
RecordedIsInstalled ==
    LET v == stateFile.ver IN
    v > 0 =>
        /\ envFile >= v
        /\ v \in SetsModel /\ jsonReads = "sound" => jsonFile.model >= v
        /\ URLOf[v] # NoURL => \E w \in Versions : w >= v /\ diskURL = URLOf[w]

\* (one handler) The next dial uses the address of the recorded version, or of a
\* newer one that was tried, after a restart of the daemon too.  This needs that
\* the environment does not override the address.
AddressInUse ==
    LET v == stateFile.ver IN
    v > 0 /\ URLOf[v] # NoURL => \E w \in Versions : w >= v /\ memURL = URLOf[w]

\* (one handler) A configuration whose application failed is still newer than
\* the recorded one, so its redelivery is applied and not ignored.
FailedStaysRetryable ==
    \A h \in Handlers :
        step[h] = "ack" /\ result[h] \in {"CONFIG_APPLY_FAILED", "GATEWAY_UNAVAILABLE"}
            => req[h] > stateFile.ver

\* Every config carries API_KEY and the gateway's token, and takes its provider's
\* key from API_KEY or a variable that API_KEY stands in for.
KeysCarried ==
    /\ \A v \in Versions : {APIKey, TokenKey} \subseteq Carries[v]
    /\ \A v \in Versions : KeyOf[v] \in Backfilled \cup {APIKey, NoKey}
    /\ \A s \in Slots : BootRefs[s] \in Backfilled \cup {APIKey, TokenKey, NoKey}

\* If the configs are such, the gateway can start at any moment, also between two
\* writes or after a failed one: .env sets what openclaw.json refers to, though
\* the providers of all earlier configs stay in openclaw.json and .env is made of
\* the last payload alone.
PlaceholdersResolve ==
    KeysCarried => Resolves(envFile, jsonFile.refs) /\ Resolves(gw.env, gw.json.refs)

\* (one handler) Apply is a register of versions (module ConfigRegister): its
\* version rises in the step that makes the answer "success" and in no other,
\* "ignored" is said of a version that is not newer, and no failure or crash
\* moves it.
Register == INSTANCE ConfigRegister WITH
    recorded <- stateFile.ver,
    phase    <- [h \in Handlers |-> CASE step[h] = "idle" -> "idle"
                                      [] step[h] = "ack" -> "answered"
                                      [] OTHER -> "busy"],
    asked    <- req,
    answer   <- [h \in Handlers |-> IF result[h] \in Codes THEN "failed" ELSE result[h]]

ImplementsRegister == Register!Spec

\* (one handler) The recorded version never goes back.
VersionNeverFalls == [][stateFile'.ver >= stateFile.ver]_vars

\* (one handler) An Apply that reports success raised the recorded version:
\* no version is applied, and the gateway restarted for it, a second time.
SuccessIsNew ==
    [][\A h \in Handlers : ~Succeeded(h) /\ Succeeded(h)' => stateFile.ver < req[h]]_vars

\* Every sys_config is answered, unless the daemon crashes under it.
EveryConfigAnswered == \A h \in Handlers : step[h] # "idle" ~> step[h] = "idle"

Newest(v) == \A w \in Versions : w <= v

\* an error of the surroundings; a gateway that cannot start is not one of them
Fault ==
    \/ \E h \in Handlers : FileError(h) \/ RestartFails(h)
                            \/ (HealthFails(h) /\ Resolves(gw.env, gw.json.refs))
    \/ Crash \/ GatewayDies

\* If the cloud keeps sending its newest configuration and errors end, it gets
\* applied for good, whatever a failed attempt or a crash left half done.  This
\* needs KeysCarried: else the gateway may never start again.
Converges ==
    \A v \in Versions : Newest(v) /\ v > 0 /\ KeysCarried => (
        ( /\ []<>(\E h \in Handlers : step[h] = "load" /\ req[h] = v)
          /\ <>[][~Fault]_vars )
        => <>[](stateFile.ver = v /\ envFile = v /\ URLInstalled(v) /\ JSONInstalled(v)))
----------------------------------------------------------------------------
(* The inductive invariants: TypeInv for any handlers, OneHandlerInv for the  *)
(* safety properties of one handler.                                          *)

OneHandler == \A g, h \in Handlers : g = h

\* a busy handler applies a version, and sets an address only if it carries one
TargetInv(h) ==
    /\ step[h] # "idle" => req[h] \in Versions
    /\ step[h] \in {"setURL", "persist", "writeURL"} => URLOf[req[h]] # NoURL

TypeInv == TypeOK /\ \A h \in Handlers : TargetInv(h)

\* what is known of a handler at each step of Apply
StepInv(h) ==
    /\ step[h] \in AfterCheck => req[h] > stateFile.ver /\ loaded[h] = stateFile
    /\ step[h] = "persist" => memURL = URLOf[req[h]]
    /\ step[h] = "writeURL" => snapURL[h] = URLOf[req[h]]
    /\ step[h] \in AfterURL => URLInstalled(req[h])
    /\ step[h] \in AfterEnv => envFile = req[h]
    /\ step[h] = "writeJSON" /\ jsonReads = "sound" => jsonRead[h] = jsonFile
    /\ step[h] \in AfterJSON => JSONInstalled(req[h])
    /\ step[h] \in AfterStart /\ HasRestart =>
           gw.env = req[h] /\ (req[h] \in SetsModel => gw.json.model = req[h])

OneHandlerInv ==
    /\ TypeInv
    /\ \A h \in Handlers : StepInv(h)
    /\ SuccessIsInstalled
    /\ RecordedIsInstalled
    /\ FailedStaysRetryable

\* once SetURL was taken the address is the one of the version being applied
AddressInv ==
    /\ \A h \in Handlers : step[h] \in {"persist", "writeURL"} \cup AfterURL /\ URLOf[req[h]] # NoURL
                            => memURL = URLOf[req[h]]
    /\ AddressInUse

\* (any handlers) openclaw.json refers to variables that every .env Apply writes
\* sets, and it is written only after such a .env was
CarriedRefs(refs) == \A s \in Slots : refs[s] \in Backfilled \cup {APIKey, TokenKey, NoKey}

KeysInv ==
    /\ CarriedRefs(jsonFile.refs)
    /\ \A h \in Handlers :
         /\ CarriedRefs(jsonRead[h].refs)
         /\ step[h] \in AfterCheck => req[h] # 0
         /\ step[h] \in AfterEnv => envFile # 0
    /\ Resolves(envFile, jsonFile.refs)
    /\ Resolves(gw.env, gw.json.refs)
=============================================================================

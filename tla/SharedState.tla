----------------------------- MODULE SharedState -----------------------------
(***************************************************************************)
(* The state file has two writers, which app.New gives the same FileStore: *)
(* ConfigManager.Apply keeps the config version in it, the gateway adapter *)
(* its identity and its device token.  Both load the whole State, change   *)
(* one field and save the whole State, with other steps in between: for    *)
(* Apply the restart of the gateway and the probe.                         *)
(*                                                                         *)
(* Two goroutines that read cloud messages can be at work, after a         *)
(* heartbeat failed under a busy reader (module Daemon).  saves remembers  *)
(* that one of them saved the State while the other held an older one that *)
(* it was to save.  What else the gateway process does, nothing here reads. *)
(***************************************************************************)
EXTENDS Integers

CONSTANTS
    Readers,     \* goroutines that read cloud messages
    Versions, URLs, NoURL, URLOf, SetsModel, BootURL, EnvURL, HasRestart, HasHealth,
    Keys, NoKey, Carries, Providers, ProvidersOf, KeyOf, BootKeys, BootRefs,
    Identities,  \* key pairs the adapter may make
    None         \* no identity, no device token

ASSUME NoneAssumption == None \notin Identities
ASSUME VersionsAssumption == Versions \subseteq Nat

VARIABLES
    step, req, loaded, result, stateFile, memURL, snapURL, diskURL,
    envFile, jsonFile, jsonRead, jsonReads, gw,
    turn, presented,
    saves   \* history: "raced" once a save fell between another reader's load and save

GH == INSTANCE GatewayHandshake WITH Handlers <- Readers
CM == INSTANCE ConfigManager WITH
    Handlers <- Readers, Devices <- GH!Devices, NoDevice <- GH!NoDevice

\* what Apply assumes of its configurations
ASSUME ConfigAssumption ==
    /\ NoURL \notin URLs
    /\ BootURL \in URLs
    /\ EnvURL \in URLs \cup {NoURL}
    /\ URLOf \in [Versions -> URLs \cup {NoURL}]
    /\ SetsModel \subseteq Versions /\ HasRestart \in BOOLEAN /\ HasHealth \in BOOLEAN
ASSUME KeyAssumption ==
    /\ {CM!APIKey, CM!TokenKey} \cup CM!Backfilled \subseteq Keys
    /\ NoKey \notin Keys
    /\ "gateway" \notin Providers
    /\ Carries \in [Versions -> SUBSET Keys]
    /\ ProvidersOf \in [Versions -> SUBSET Providers]
    /\ KeyOf \in [Versions -> Keys \cup {NoKey}]
    /\ BootKeys \subseteq Keys
    /\ BootRefs \in [CM!Slots -> BootKeys \cup {NoKey}]

configVars == <<step, req, loaded, result, memURL, snapURL, diskURL,
                envFile, jsonFile, jsonRead, jsonReads, gw>>
turnVars == <<turn, presented>>
vars == <<configVars, turnVars, stateFile, saves>>

Init == CM!Init /\ GH!Init /\ saves = "apart"

Free(r) == step[r] = "idle" /\ turn[r].at = "none"

\* mutant: a reader goes on to the next message before Apply has returned
HandleChatAlways(r) == turn[r].at = "none" /\ GH!StartTurn(r) /\ UNCHANGED <<configVars, saves>>

\* the reader hands a sys_config to Apply, or a chat message to the adapter
HandleConfig(r, v) == Free(r) /\ CM!Receive(r, v) /\ UNCHANGED <<turnVars, saves>>
HandleChat(r)      == Free(r) /\ GH!StartTurn(r) /\ UNCHANGED <<configVars, saves>>

\* the reader holds a State that it has loaded and is going to save
HoldsState(r) == step[r] \in CM!AfterCheck \/ turn[r].at \in {"saveIdentity", "saveToken"}

Witness(r) ==
    saves' = IF stateFile' # stateFile /\ \E q \in Readers \ {r} : HoldsState(q)
               THEN "raced" ELSE saves

ConfigStep(r) == (CM!ApplyStep(r) \/ CM!Ack(r)) /\ Witness(r) /\ UNCHANGED turnVars
TurnStep(r)   == GH!TurnStep(r) /\ Witness(r) /\ UNCHANGED configVars

\* all local variables are gone, the file stays as it is
Crash == CM!Crash /\ GH!Crash /\ UNCHANGED saves

Next ==
    \/ \E r \in Readers :
         \/ \E v \in Versions : HandleConfig(r, v)
         \/ HandleChat(r)
         \/ ConfigStep(r) \/ TurnStep(r)
    \/ Crash

Spec == Init /\ [][Next]_vars

----------------------------------------------------------------------------
(* Properties.  None of them survives a race.                                *)

InOneHandler(r) == step[r] = "idle" \/ turn[r].at = "none"

\* Every variable stays in its set, and a reader is in one handler at most.
TypeOK ==
    /\ CM!TypeOK /\ GH!TypeOK /\ saves \in {"apart", "raced"}
    /\ \A r \in Readers : InOneHandler(r)

\* Unless saves race, the adapter keeps its one identity and a token that fits
\* it, whatever configurations are applied meanwhile, and whatever fails or
\* crashes at any step.
IdentityIsKept == saves = "apart" => GH!SeenIdentityIsStored /\ GH!TokenFitsIdentity

\* Unless saves race, none undoes another: the version does not fall, the
\* identity stays and the token is not dropped.
NothingStoredIsLost ==
    [][saves' = "apart" =>
        /\ stateFile'.ver >= stateFile.ver
        /\ stateFile.device.ident # None => stateFile'.device.ident = stateFile.device.ident
        /\ stateFile.device.token # None => stateFile'.device.token # None]_vars
----------------------------------------------------------------------------
(* The inductive invariant: while saves do not race, whoever is to save holds *)
(* what the file says, and each turn's identity and token are the file's.     *)

\* the part of TypeOK that matters to the file
FileTypes ==
    /\ turn \in [Readers -> GH!Turns]
    /\ stateFile \in GH!States
    /\ step \in [Readers -> CM!Steps]
    /\ req \in [Readers -> CM!FileVersions]
    /\ loaded \in [Readers -> CM!States]

ConfigHolds(r) ==
    step[r] \in CM!AfterCheck => loaded[r] = stateFile /\ req[r] > stateFile.ver

TurnHolds(r) ==
    /\ turn[r].at \in {"saveIdentity", "saveToken"} => turn[r].held = stateFile
    /\ turn[r].at = "saveIdentity" => stateFile.device.ident = None /\ turn[r].ident # None
    /\ turn[r].at \in {"dial", "connect", "open", "loadState", "saveToken"} =>
         stateFile.device.ident # None /\ turn[r].ident = stateFile.device.ident
    /\ turn[r].at \in {"identity", "saveIdentity", "dial", "connect"} =>
         turn[r].auth \in {None, stateFile.device.ident}

DeviceHolds ==
    /\ presented \subseteq {stateFile.device.ident} \ {None}
    /\ stateFile.device.token \in {None, stateFile.device.ident}

FileInv ==
    /\ FileTypes
    /\ \A r \in Readers : InOneHandler(r)
    /\ saves = "apart" => DeviceHolds /\ \A r \in Readers : ConfigHolds(r) /\ TurnHolds(r)

\* raced or not, a turn has an identity by the time it saves or presents it
MadeInv ==
    /\ \A r \in Readers : turn[r].at \in {"saveIdentity", "dial", "connect"} => turn[r].ident # None
    /\ presented \subseteq Identities
    /\ saves \in {"apart", "raced"}

TypeInv == CM!TypeInv /\ MadeInv
=============================================================================

------------------------------- MODULE Daemon -------------------------------
(***************************************************************************)
(* The daemon as app.New wires it, for configuration messages: the readers *)
(* of CloudClient call the router, which runs ConfigManager.Apply on the   *)
(* reader's goroutine and replies with its acknowledgement.  The cloud may *)
(* push any version on any connection, again and again.                    *)
(***************************************************************************)
EXTENDS Integers, Sequences

CONSTANTS
    MaxConns, MaxFrames, ReconnectMin, ReconnectMax,
    Versions, URLs, NoURL, URLOf, SetsModel, BootURL, EnvURL,
    HasRestart, HasHealth,
    Keys, NoKey, Carries, Providers, ProvidersOf, KeyOf, BootKeys, BootRefs, Devices, NoDevice

VARIABLES
    ctxDone, run, gen, conn, authed, backoff, sock, arrived, taken, reader,
    replied, readErr, target, sent,
    step, req, loaded, result, stateFile, memURL, snapURL, diskURL,
    envFile, jsonFile, jsonRead, jsonReads, gw,
    frames,   \* the version each frame of each connection carries
    acked,    \* history: the versions whose success was written to the cloud
    orphaned  \* history: runOnce has left a reader that had not ended

\* a sys_config is answered once
CC == INSTANCE CloudClient WITH MaxReplies <- 1
CM == INSTANCE ConfigManager WITH Handlers <- 1..MaxConns

clientVars == <<ctxDone, run, gen, conn, authed, backoff, sock, arrived, taken, reader,
                replied, readErr, target, sent>>
configVars == <<step, req, loaded, result, stateFile, memURL, snapURL, diskURL,
                envFile, jsonFile, jsonRead, jsonReads, gw>>
ownVars == <<frames, acked, orphaned>>
vars == <<clientVars, configVars, ownVars>>

\* what the two components assume of their constants
ASSUME ClientAssumption ==
    /\ MaxConns \in Nat /\ MaxFrames \in Nat
    /\ ReconnectMin \in Nat \ {0} /\ ReconnectMax \in Nat
    /\ ReconnectMin <= ReconnectMax
ASSUME ConfigAssumption ==
    /\ Versions \subseteq Nat
    /\ NoURL \notin URLs
    /\ BootURL \in URLs
    /\ EnvURL \in URLs \cup {NoURL}
    /\ URLOf \in [Versions -> URLs \cup {NoURL}]
    /\ SetsModel \subseteq Versions /\ HasRestart \in BOOLEAN /\ HasHealth \in BOOLEAN
    /\ NoDevice \in Devices
ASSUME KeyAssumption ==
    /\ {CM!APIKey, CM!TokenKey} \cup CM!Backfilled \subseteq Keys
    /\ NoKey \notin Keys
    /\ "gateway" \notin Providers
    /\ Carries \in [Versions -> SUBSET Keys]
    /\ ProvidersOf \in [Versions -> SUBSET Providers]
    /\ KeyOf \in [Versions -> Keys \cup {NoKey}]
    /\ BootKeys \subseteq Keys
    /\ BootRefs \in [CM!Slots -> BootKeys \cup {NoKey}]

Conns == 1..MaxConns

Init ==
    /\ CC!Init /\ CM!Init
    /\ frames = [g \in Conns |-> <<>>]
    /\ acked = {}
    /\ orphaned = FALSE

Alive(g) == reader[g] \notin {"none", "exit", "done"}

\* the cloud pushes a configuration
Push(g, v) ==
    /\ CC!Arrive(g)
    /\ frames' = [frames EXCEPT ![g] = Append(@, v)]
    /\ UNCHANGED <<configVars, acked, orphaned>>

\* handleSysConfig: the reader enters Apply with the frame it read ...
HandleConfig(g) ==
    /\ CC!TakeRequest(g)
    /\ CM!Receive(g, frames[g][taken'[g]])
    /\ UNCHANGED ownVars

\* ... goes through it ...
ApplyStep(g) ==
    /\ reader[g] = "handle"
    /\ CM!ApplyStep(g)
    /\ UNCHANGED <<clientVars, ownVars>>

\* ... and replies once it has returned
Reply(g) ==
    /\ step[g] = "ack"
    /\ \/ CC!BeginReply(g) /\ UNCHANGED acked
       \/ CC!DropReply(g) /\ UNCHANGED acked
       \/ CC!SendFails(g) /\ UNCHANGED acked
       \/ CC!SendOK(g) /\ acked' = acked \cup {v \in {req[g]} : result[g] = "success"}
    /\ UNCHANGED <<configVars, frames, orphaned>>

HandlerReturns(g) == CC!HandlerReturns(g) /\ CM!Ack(g) /\ UNCHANGED ownVars

\* what else a reader does
Read(g) ==
    /\ CC!LoopHead(g) \/ CC!ReadFails(g) \/ CC!ExitReader(g)
    /\ UNCHANGED <<configVars, ownVars>>

MainStep ==
    /\ CC!MainStep
    /\ orphaned' = (orphaned \/ (run' = "unset" /\ run = "ping" /\ Alive(gen)))
    /\ UNCHANGED <<configVars, frames, acked>>

Network(g) == CC!Break(g) /\ UNCHANGED <<configVars, ownVars>>

Signal == CC!Cancel /\ UNCHANGED <<configVars, ownVars>>

\* the process is killed, or panics
Crash == CC!Die /\ CM!Crash /\ UNCHANGED ownVars

Stopped == run = "stopped" /\ UNCHANGED vars

Next ==
    \/ Stopped
    \/ /\ run # "stopped"
       /\ \/ MainStep
          \/ \E g \in Conns :
               \/ \E v \in Versions : Push(g, v)
               \/ HandleConfig(g) \/ ApplyStep(g) \/ Reply(g) \/ HandlerReturns(g)
               \/ Read(g) \/ Network(g)
          \/ Signal
          \/ Crash

Spec == Init /\ [][Next]_vars

----------------------------------------------------------------------------
(* Properties. *)

\* A reader is in a handler exactly while Apply and its acknowledgement run.
TypeOK ==
    /\ CC!TypeOK /\ CM!TypeOK
    /\ \A g \in Conns : (reader[g] \in {"handle", "send"}) = (step[g] # "idle")

\* Handlers overlap only if a heartbeat failed under a reader that had not
\* ended: as long as runOnce leaves for the reader's own error, one follows the
\* other.
OverlapNeedsOrphan ==
    ~orphaned => \A g, h \in Conns : Alive(g) /\ Alive(h) => g = h

\* Until then everything Apply promises one caller holds of the whole daemon.
SafeUntilOrphaned ==
    ~orphaned =>
        /\ CM!SuccessIsInstalled /\ CM!RecordedIsInstalled /\ CM!FailedStaysRetryable

\* Until then the daemon is the register of versions that one caller of Apply is
\* (module ConfigRegister), over crashes, reconnections and redeliveries: the recorded
\* version rises in the step that answers "success", and in no other does it move.
RegisterUntilOrphaned == [][~orphaned => [CM!Register!Next]_(CM!Register!vars)]_vars

\* Until then what the cloud was told is recorded stays recorded: an acknowledged
\* version is never forgotten, even if the daemon crashes right after the reply.
AckedIsRecorded == ~orphaned => \A v \in acked : v <= stateFile.ver

\* Until then the cloud is told "success" of a version once at most, and of later ones
\* in rising order: an answer that is due is of a version above all it was told of.
Pending(g) == step[g] = "ack" /\ (reader[g] = "send" \/ replied[g] = 0)
SuccessIsNews ==
    ~orphaned => \A g \in Conns : Pending(g) /\ result[g] = "success" =>
        \A v \in acked : v < req[g]

\* Both: an acknowledgement is neither forgotten nor given again, whatever is
\* redelivered and whenever the daemon dies.
AcksAreSound == AckedIsRecorded /\ SuccessIsNews

\* "Configuration versions are idempotent": an Apply that saves its version finds
\* an older one recorded.  Does not hold: two readers may apply the same version.
VersionsAreIdempotent ==
    [][\A g \in Conns : step[g] = "save" /\ step'[g] = "ack" /\ result'[g] = "success"
          => stateFile.ver < req[g]]_vars
----------------------------------------------------------------------------
(* The inductive invariants: WiringInv always, AloneInv until a reader is left. *)

\* a reader is inside Apply exactly while it handles a frame, and a frame carries a version
CoupledInv ==
    /\ \A g \in Conns : (reader[g] \in {"handle", "send"}) = (step[g] # "idle")
    /\ frames \in [Conns -> Seq(Versions)]
    /\ \A g \in Conns : taken[g] <= arrived[g] /\ arrived[g] = Len(frames[g])

\* a reader starts with its connection authenticated, and its error is its last word
ReaderInv ==
    /\ \A g \in Conns : readErr[g] > 0 => reader[g] = "done"
    /\ \A g \in Conns : g > gen \/ (g = gen /\ run = "auth") => reader[g] = "none"

WiringInv ==
    /\ CC!TypeInv /\ CM!TypeInv
    /\ orphaned \in BOOLEAN /\ acked \subseteq Versions
    /\ CoupledInv
    /\ ReaderInv

\* the one reader that lives is the current connection's, which runOnce has not left,
\* or has left because the context was cancelled: then there is no next one
CurrentInv ==
    \A g \in Conns : Alive(g) =>
        /\ g = gen
        /\ run \in {"select", "ping"} \/ (ctxDone /\ run \in {"unset", "close", "stopped"})

AloneInv ==
    ~orphaned =>
        /\ CurrentInv
        /\ CM!OneHandlerInv
        /\ \A v \in acked : v <= stateFile.ver

\* a reply that is being sent was counted
RepliedInv == \A g \in Conns : reader[g] = "send" => replied[g] > 0
=============================================================================

---------------------------- MODULE Daemon_proofs ----------------------------
(***************************************************************************)
(* The properties of Daemon, for any number of connections, frames and     *)
(* versions.  What the two components keep by themselves is taken from     *)
(* their own proofs, instantiated: every step of the daemon is a step of   *)
(* Apply or none (ConfigSteps), and a step of the client, or its death, or *)
(* none (ClientSteps).  What is left is how they meet: WiringInv, and that *)
(* one reader at most lives until runOnce leaves another one behind.       *)
(***************************************************************************)
EXTENDS Daemon, TLAPS

\* the proofs of the two components
CCP == INSTANCE CloudClient_proofs WITH MaxReplies <- 1
CMP == INSTANCE ConfigManager_proofs WITH Handlers <- 1..MaxConns

----------------------------------------------------------------------------
(* The definitions the proofs speak of are those of the model.               *)

LEMMA SameConstants ==
    /\ {CMP!APIKey, CMP!TokenKey} \cup CMP!Backfilled \subseteq Keys
    /\ BootRefs \in [CMP!Slots -> BootKeys \cup {NoKey}]
BY KeyAssumption DEF CM!APIKey, CMP!APIKey, CM!TokenKey, CMP!TokenKey, CM!Backfilled, CMP!Backfilled,
    CM!Slots, CMP!Slots

LEMMA SameInit == CM!Init <=> CMP!Init
BY DEF CM!Init, CMP!Init, CM!EmptyState, CMP!EmptyState, CM!EmptyJSON, CMP!EmptyJSON, CM!BootJSON,
    CMP!BootJSON, CM!Slots, CMP!Slots

LEMMA SameApply == \A h : CM!ApplyStep(h) <=> CMP!ApplyStep(h)
BY DEF CM!ApplyStep, CMP!ApplyStep, CM!Goto, CMP!Goto, CM!Finish, CMP!Finish, CM!sharedVars, CMP!sharedVars,
    CM!LoadState, CMP!LoadState, CM!IsNewer, CMP!IsNewer, CM!MakeWorkDir, CMP!MakeWorkDir,
    CM!SetURL, CMP!SetURL, CM!SnapshotURL, CMP!SnapshotURL, CM!WriteURL, CMP!WriteURL,
    CM!WriteEnv, CMP!WriteEnv, CM!ReadJSON, CMP!ReadJSON, CM!ReadJSONFails, CMP!ReadJSONFails,
    CM!WriteJSON, CMP!WriteJSON, CM!MergedJSON, CMP!MergedJSON, CM!MergedRefs, CMP!MergedRefs,
    CM!Slots, CMP!Slots, CM!TokenKey, CMP!TokenKey, CM!EmptyJSON, CMP!EmptyJSON,
    CM!Started, CMP!Started, CM!Restart, CMP!Restart,
    CM!RestartFails, CMP!RestartFails, CM!HealthOK, CMP!HealthOK, CM!HealthFails, CMP!HealthFails,
    CM!Save, CMP!Save, CM!FileError, CMP!FileError, CM!Fallible, CMP!Fallible, CM!ErrorCode, CMP!ErrorCode

LEMMA SameNext == [CM!Next]_(CM!vars) <=> [CMP!Next]_(CMP!vars)
BY SameApply DEF CM!vars, CMP!vars, CM!Next, CMP!Next, CM!Receive, CMP!Receive, CM!Ack, CMP!Ack,
    CM!GatewayStep, CMP!GatewayStep, CM!Crash, CMP!Crash, CM!NoCalls, CMP!NoCalls,
    CM!Goto, CMP!Goto, CM!sharedVars, CMP!sharedVars, CM!applyVars, CMP!applyVars,
    CM!EmptyState, CMP!EmptyState, CM!EmptyJSON, CMP!EmptyJSON, CM!Slots, CMP!Slots, CM!Started, CMP!Started,
    CM!GatewayServes, CMP!GatewayServes, CM!GatewayDies, CMP!GatewayDies,
    CM!GatewayStarts, CMP!GatewayStarts, CM!Resolves, CMP!Resolves, CM!EnvKeys, CMP!EnvKeys,
    CM!Backfilled, CMP!Backfilled, CM!APIKey, CMP!APIKey

LEMMA SameTypes == (CM!TypeInv <=> CMP!TypeInv) /\ (CM!TypeInv' <=> CMP!TypeInv')
BY DEF CM!TypeInv, CMP!TypeInv, CM!TypeOK, CMP!TypeOK, CM!TargetInv, CMP!TargetInv, CM!Steps, CMP!Steps,
    CM!Results, CMP!Results, CM!Codes, CMP!Codes, CM!Fallible, CMP!Fallible, CM!States, CMP!States,
    CM!FileVersions, CMP!FileVersions, CM!JSONs, CMP!JSONs, CM!Slots, CMP!Slots, CM!Gateways, CMP!Gateways

LEMMA SameOne == (CM!OneHandlerInv <=> CMP!OneHandlerInv) /\ (CM!OneHandlerInv' <=> CMP!OneHandlerInv')
<1> USE DEF CM!StepInv, CMP!StepInv, CM!SuccessIsInstalled, CMP!SuccessIsInstalled,
    CM!RecordedIsInstalled, CMP!RecordedIsInstalled, CM!FailedStaysRetryable, CMP!FailedStaysRetryable,
    CM!Succeeded, CMP!Succeeded, CM!URLInstalled, CMP!URLInstalled, CM!JSONInstalled, CMP!JSONInstalled,
    CM!AfterCheck, CMP!AfterCheck, CM!AfterURL, CMP!AfterURL, CM!AfterEnv, CMP!AfterEnv,
    CM!AfterJSON, CMP!AfterJSON, CM!AfterStart, CMP!AfterStart
<1>1. CM!OneHandlerInv <=> CMP!OneHandlerInv
    BY SameTypes DEF CM!OneHandlerInv, CMP!OneHandlerInv
<1>2. CM!OneHandlerInv' <=> CMP!OneHandlerInv'
    BY SameTypes DEF CM!OneHandlerInv, CMP!OneHandlerInv
<1> QED BY <1>1, <1>2

LEMMA SameRegister ==
    [CM!Register!Next]_(CM!Register!vars) <=> [CMP!Register!Next]_(CMP!Register!vars)
BY DEF CM!Register!Next, CMP!Register!Next, CM!Register!Request, CMP!Register!Request, CM!Register!Answer,
    CMP!Register!Answer, CM!Register!Raise, CMP!Register!Raise, CM!Register!Ignore, CMP!Register!Ignore,
    CM!Register!Fail, CMP!Register!Fail, CM!Register!Return, CMP!Register!Return, CM!Register!Crash,
    CMP!Register!Crash, CM!Register!vars, CMP!Register!vars, CM!Codes, CMP!Codes

LEMMA SameClient ==
    /\ CC!Init <=> CCP!Init
    /\ (CC!TypeInv <=> CCP!TypeInv) /\ (CC!TypeInv' <=> CCP!TypeInv')
    /\ UNCHANGED clientVars <=> UNCHANGED CCP!vars
    /\ CCP!Conns = Conns
<1> USE DEF CC!Conns, CCP!Conns, CC!Main, CCP!Main, CC!Writers, CCP!Writers, CC!None, CCP!None,
    CC!Auth, CCP!Auth, CC!Sendable, CCP!Sendable, CC!RunSteps, CCP!RunSteps, CC!ReaderSteps, CCP!ReaderSteps
<1>1. CC!Init <=> CCP!Init
    BY DEF CC!Init, CCP!Init
<1>2. (CC!TypeInv <=> CCP!TypeInv) /\ (CC!TypeInv' <=> CCP!TypeInv')
    BY DEF CC!TypeInv, CCP!TypeInv, CC!TypeOK, CCP!TypeOK
<1>3. UNCHANGED clientVars <=> UNCHANGED CCP!vars
    BY DEF clientVars, CCP!vars
<1> QED BY <1>1, <1>2, <1>3 DEF Conns

LEMMA SameMain == CC!MainStep <=> CCP!MainStep
BY DEF CC!MainStep, CCP!MainStep, CC!DialFails, CCP!DialFails, CC!DialOK, CCP!DialOK, CC!BeginMain, CCP!BeginMain,
    CC!AuthOK, CCP!AuthOK, CC!PingOK, CCP!PingOK, CC!MainWriteFails, CCP!MainWriteFails,
    CC!SelectDone, CCP!SelectDone, CC!SelectErr, CCP!SelectErr, CC!SelectTick, CCP!SelectTick,
    CC!Unset, CCP!Unset, CC!Close, CCP!Close, CC!Retry, CCP!Retry, CC!GiveUp, CCP!GiveUp,
    CC!AfterReturn, CCP!AfterReturn, CC!BeginWrite, CCP!BeginWrite, CC!WriteOK, CCP!WriteOK,
    CC!WriteFails, CCP!WriteFails, CC!Overlaps, CCP!Overlaps, CC!mainVars, CCP!mainVars, CC!netVars, CCP!netVars,
    CC!Conns, CCP!Conns, CC!Main, CCP!Main, CC!Writers, CCP!Writers, CC!None, CCP!None, CC!Auth, CCP!Auth

LEMMA SameReader == \A g : CC!ReaderStep(g) <=> CCP!ReaderStep(g)
BY DEF CC!ReaderStep, CCP!ReaderStep, CC!LoopHead, CCP!LoopHead, CC!SkipFrame, CCP!SkipFrame,
    CC!AuthResp, CCP!AuthResp, CC!TakeRequest, CCP!TakeRequest, CC!ReadFails, CCP!ReadFails,
    CC!BeginReply, CCP!BeginReply, CC!DropReply, CCP!DropReply, CC!SendOK, CCP!SendOK,
    CC!SendFails, CCP!SendFails, CC!HandlerReturns, CCP!HandlerReturns, CC!ExitReader, CCP!ExitReader,
    CC!NextFrame, CCP!NextFrame, CC!MayReply, CCP!MayReply, CC!ReaderGoto, CCP!ReaderGoto,
    CC!BeginWrite, CCP!BeginWrite, CC!WriteOK, CCP!WriteOK, CC!WriteFails, CCP!WriteFails,
    CC!Overlaps, CCP!Overlaps, CC!mainVars, CCP!mainVars, CC!netVars, CCP!netVars,
    CC!Conns, CCP!Conns, CC!Main, CCP!Main, CC!Writers, CCP!Writers, CC!None, CCP!None

LEMMA SameSurroundings ==
    CCP!Surroundings <=> (\E g \in Conns : CC!Arrive(g) \/ CC!Break(g)) \/ CC!Cancel \/ CC!Die
BY DEF CCP!Surroundings, CC!Arrive, CCP!Arrive, CC!Break, CCP!Break, CC!Cancel, CCP!Cancel, CC!Die, CCP!Die,
    CC!mainVars, CCP!mainVars, CC!netVars, CCP!netVars, CC!Conns, CCP!Conns, CC!Main, CCP!Main,
    CC!Writers, CCP!Writers, CC!None, CCP!None, Conns

----------------------------------------------------------------------------
(* Steps of the daemon are steps of its components.                          *)

\* Only Receive, ApplyStep, Ack and Crash of Apply are taken, with a version that the
\* cloud pushed.
LEMMA ConfigSteps == WiringInv /\ [Next]_vars => [CM!Next]_(CM!vars)
<1> SUFFICES ASSUME WiringInv, [Next]_vars PROVE [CM!Next]_(CM!vars)
    OBVIOUS
<1>1. CASE UNCHANGED configVars
    BY <1>1 DEF configVars, CM!vars
<1>2. ASSUME NEW g \in Conns, HandleConfig(g)
      PROVE  CM!Next
    <2>1. frames[g][taken'[g]] \in Versions
        <3>1. /\ taken[g] < arrived[g] /\ taken'[g] = taken[g] + 1
              /\ taken[g] \in Nat /\ arrived[g] \in Nat
            BY <1>2, ClientAssumption DEF HandleConfig, CC!TakeRequest, CC!NextFrame, WiringInv, CC!TypeInv,
                CC!TypeOK, CC!Conns, Conns
        <3>2. frames[g] \in Seq(Versions) /\ arrived[g] = Len(frames[g])
            BY DEF WiringInv, CoupledInv
        <3>3. taken'[g] \in 1..Len(frames[g])
            BY <3>1, <3>2
        <3> QED BY <3>2, <3>3
    <2>2. CM!Receive(g, frames[g][taken'[g]])
        BY <1>2 DEF HandleConfig
    <2> QED BY <2>1, <2>2 DEF CM!Next, Conns
<1>3. ASSUME NEW g \in Conns, ApplyStep(g) \/ HandlerReturns(g)
      PROVE  CM!Next
    BY <1>3 DEF ApplyStep, HandlerReturns, CM!Next, Conns
<1>4. CASE Crash
    BY <1>4 DEF Crash, CM!Next
<1> QED BY <1>1, <1>2, <1>3, <1>4 DEF Next, vars, Stopped, MainStep, Push, Reply, Read, Network, Signal

LEMMA ClientSteps ==
    [Next]_vars => \/ CC!MainStep
                   \/ \E g \in Conns : CC!ReaderStep(g)
                   \/ CCP!Surroundings
                   \/ UNCHANGED clientVars
BY SameSurroundings DEF Next, vars, Stopped, MainStep, Push, HandleConfig, ApplyStep, Reply, HandlerReturns, Read,
    Network, Signal, Crash, CC!ReaderStep

LEMMA ClientAny == [Next]_vars => CCP!AnyStep
BY ClientSteps, SameMain, SameReader, SameClient DEF CCP!AnyStep

----------------------------------------------------------------------------
(* What the client's steps mean to its readers.                              *)

LEMMA ConnsAreNat == \A g \in Conns : g \in Nat /\ g > 0
BY DEF Conns

\* A reader's step is its own, begins while it has not ended, and leaves an error
\* only as it ends.
LEMMA ReaderEffect ==
    ASSUME CC!TypeOK, NEW g \in Conns, CC!ReaderStep(g)
    PROVE  /\ UNCHANGED <<ctxDone, run, gen>>
           /\ reader[g] \notin {"none", "done"} /\ reader'[g] # "none"
           /\ reader[g] = "exit" => reader'[g] = "done"
           /\ readErr'[g] = readErr[g] \/ reader'[g] = "done"
           /\ \A h \in Conns : h # g => reader'[h] = reader[h] /\ readErr'[h] = readErr[h]
<1> USE DEF CC!TypeOK, CC!ReaderGoto, CC!mainVars, CC!Conns, Conns
<1>1. CASE CC!LoopHead(g) \/ CC!ReadFails(g)
    BY <1>1 DEF CC!LoopHead, CC!ReadFails
<1>2. CASE CC!SkipFrame(g) \/ CC!AuthResp(g) \/ CC!TakeRequest(g)
    BY <1>2 DEF CC!SkipFrame, CC!AuthResp, CC!TakeRequest, CC!NextFrame
<1>3. CASE CC!BeginReply(g) \/ CC!DropReply(g) \/ CC!HandlerReturns(g)
    BY <1>3 DEF CC!BeginReply, CC!DropReply, CC!HandlerReturns, CC!MayReply
<1>4. CASE CC!SendOK(g) \/ CC!SendFails(g)
    BY <1>4 DEF CC!SendOK, CC!SendFails
<1>5. CASE CC!ExitReader(g)
    BY <1>5 DEF CC!ExitReader
<1> QED BY <1>1, <1>2, <1>3, <1>4, <1>5 DEF CC!ReaderStep

\* A step of Run starts one reader, behind the auth_req, and takes at most an error.
LEMMA MainEffect ==
    ASSUME CC!TypeOK, CC!MainStep
    PROVE  /\ ctxDone' = ctxDone
           /\ \/ reader' = reader
              \/ run = "auth" /\ run' = "select" /\ gen' = gen /\ reader' = [reader EXCEPT ![gen] = "head"]
           /\ \A g \in Conns : readErr'[g] > 0 => readErr[g] > 0
           /\ \/ gen' = gen /\ (run' = "auth" => run = "auth")
              \/ run = "dial" /\ run' = "auth" /\ gen' = gen + 1 /\ reader' = reader
           /\ run = "select" => \/ run' = "ping"
                                \/ run' = "unset" /\ (ctxDone \/ readErr[gen] > 0)
           /\ run = "ping" => run' \in {"ping", "select", "unset"}
           /\ run = "unset" => run' = "close"
           /\ run = "close" => run' = IF ctxDone THEN "stopped" ELSE "backoff"
           /\ run # "stopped"
<1> USE DEF CC!TypeOK, CC!Conns, Conns, CC!mainVars, CC!AfterReturn
<1>1. CASE CC!DialFails \/ CC!DialOK
    BY <1>1 DEF CC!DialFails, CC!DialOK
<1>2. CASE CC!BeginMain \/ CC!PingOK \/ CC!MainWriteFails
    BY <1>2 DEF CC!BeginMain, CC!PingOK, CC!MainWriteFails
<1>3. CASE CC!AuthOK
    BY <1>3 DEF CC!AuthOK
<1>4. CASE CC!SelectDone \/ CC!SelectTick \/ CC!Unset \/ CC!Close \/ CC!Retry \/ CC!GiveUp
    BY <1>4 DEF CC!SelectDone, CC!SelectTick, CC!Unset, CC!Close, CC!Retry, CC!GiveUp
<1>5. CASE CC!SelectErr
    <2>1. \A g \in Conns : readErr'[g] > 0 => readErr[g] > 0
        <3>1. \A n \in 0..1 : n - 1 > 0 => n > 0
            OBVIOUS
        <3>2. readErr' = [readErr EXCEPT ![gen] = readErr[gen] - 1]
            BY <1>5 DEF CC!SelectErr
        <3> QED BY <3>1, <3>2
    <2> QED BY <1>5, <2>1 DEF CC!SelectErr
<1> QED BY <1>1, <1>2, <1>3, <1>4, <1>5 DEF CC!MainStep

\* The surroundings start no reader; a crash ends them all.
LEMMA SurroundingsEffect ==
    ASSUME CC!TypeOK, CCP!Surroundings
    PROVE  /\ gen' = gen
           /\ \/ UNCHANGED <<run, reader, readErr>> /\ (ctxDone => ctxDone')
              \/ /\ run' = "dial"
                 /\ \A g \in Conns : reader'[g] = "none" /\ readErr'[g] = 0
<1>1. CASE \E g \in Conns : CC!Arrive(g) \/ CC!Break(g)
    BY <1>1 DEF CC!Arrive, CC!Break, CC!mainVars
<1>2. CASE CC!Cancel
    BY <1>2 DEF CC!Cancel
<1>3. CASE CC!Die
    BY <1>3 DEF CC!Die, CC!Conns, Conns
<1> QED BY <1>1, <1>2, <1>3, SameSurroundings

LEMMA ReaderStepInv == CC!TypeOK /\ CC!TypeOK' /\ ReaderInv /\ [Next]_vars => ReaderInv'
<1> SUFFICES ASSUME CC!TypeOK, CC!TypeOK', ReaderInv, [Next]_vars PROVE ReaderInv'
    OBVIOUS
<1>n. gen \in Nat /\ \A g \in Conns : g \in Nat
    BY ConnsAreNat, ClientAssumption DEF CC!TypeOK
<1>1. CASE CC!MainStep
    <2>1. CASE reader' = reader
        <3>1. \A g \in Conns : readErr'[g] > 0 => reader'[g] = "done"
            BY <1>1, <2>1, MainEffect DEF ReaderInv
        <3>2. ASSUME NEW g \in Conns, g > gen' \/ (g = gen' /\ run' = "auth")
              PROVE  reader'[g] = "none"
            <4>1. g > gen \/ (g = gen /\ run = "auth")
                BY <1>1, <1>n, <3>2, MainEffect
            <4> QED BY <2>1, <4>1 DEF ReaderInv
        <3> QED BY <3>1, <3>2 DEF ReaderInv
    <2>2. CASE reader' # reader
        <3>1. /\ run = "auth" /\ run' = "select" /\ gen' = gen
              /\ reader' = [reader EXCEPT ![gen] = "head"]
            BY <1>1, <2>2, MainEffect
        <3>2. gen \in Conns => reader[gen] = "none" /\ ~(readErr[gen] > 0)
            BY <3>1 DEF ReaderInv
        <3>3. \A g \in Conns : readErr'[g] > 0 => g # gen /\ reader[g] = "done"
            BY <1>1, <3>2, MainEffect DEF ReaderInv
        <3>4. \A g \in Conns : g # gen => reader'[g] = reader[g]
            BY <3>1 DEF CC!TypeOK, CC!Conns, Conns
        <3>5. \A g \in Conns : g > gen => g # gen
            BY <1>n
        <3> QED BY <3>1, <3>3, <3>4, <3>5 DEF ReaderInv
    <2> QED BY <2>1, <2>2
<1>2. ASSUME NEW g \in Conns, CC!ReaderStep(g)
      PROVE  ReaderInv'
    <2>1. reader[g] \notin {"none", "done"} /\ ~(g > gen \/ (g = gen /\ run = "auth"))
        BY <1>2, ReaderEffect DEF ReaderInv
    <2>2. readErr'[g] > 0 => reader'[g] = "done"
        BY <1>2, <2>1, ReaderEffect DEF ReaderInv
    <2> QED BY <1>2, <2>1, <2>2, ReaderEffect DEF ReaderInv
<1>3. CASE CCP!Surroundings
    BY <1>3, SurroundingsEffect DEF ReaderInv
<1>4. CASE UNCHANGED clientVars
    BY <1>4 DEF clientVars, ReaderInv
<1> QED BY <1>1, <1>2, <1>3, <1>4, ClientSteps

----------------------------------------------------------------------------
(* WiringInv.                                                                *)

LEMMA InitWiring == Init => WiringInv
<1> SUFFICES ASSUME Init PROVE WiringInv
    OBVIOUS
<1>1. CC!TypeInv
    BY SameClient, ClientAssumption, CCP!InitType DEF Init
<1>2. CM!TypeInv
    BY SameInit, SameTypes, SameConstants, ConfigAssumption, KeyAssumption, CMP!InitType DEF Init
<1>3. CoupledInv
    <2>1. \A g \in Conns : reader[g] = "none" /\ step[g] = "idle" /\ taken[g] = 0 /\ arrived[g] = 0
                            /\ frames[g] = <<>>
        BY DEF Init, CC!Init, CM!Init, CC!Conns, Conns
    <2>2. frames \in [Conns -> Seq(Versions)]
        BY DEF Init
    <2> QED BY <2>1, <2>2 DEF CoupledInv
<1>4. ReaderInv
    BY DEF ReaderInv, Init, CC!Init, CC!Conns, Conns
<1> QED BY <1>1, <1>2, <1>3, <1>4 DEF WiringInv, Init

\* The types of the two components are kept by their own steps.
LEMMA ClientTypes == CC!TypeInv /\ [Next]_vars => CC!TypeInv'
BY ClientAny, SameClient, ClientAssumption, CCP!StepType

LEMMA ConfigTypes == WiringInv /\ [Next]_vars => CM!TypeInv'
BY ConfigSteps, SameNext, SameTypes, SameConstants, ConfigAssumption, KeyAssumption, CMP!NextType
   DEF WiringInv

\* The reader enters Apply as it takes a frame and leaves it as it returns to its loop.
LEMMA CoupledStep == WiringInv /\ [Next]_vars => CoupledInv'
<1> SUFFICES ASSUME WiringInv, [Next]_vars PROVE CoupledInv'
    OBVIOUS
<1>t. CC!TypeOK /\ CMP!TypeOK /\ CoupledInv /\ ReaderInv
    BY SameTypes DEF WiringInv, CC!TypeInv, CMP!TypeInv
<1>n. \A g \in Conns : taken[g] \in Nat /\ arrived[g] \in Nat
    BY <1>t, ClientAssumption DEF CC!TypeOK, CC!Conns, Conns
<1>c. /\ reader \in [Conns -> CC!ReaderSteps]
      /\ arrived \in [Conns -> 0..MaxFrames] /\ taken \in [Conns -> 0..MaxFrames]
    BY <1>t DEF CC!TypeOK, CC!Conns, Conns
<1> USE <1>t, <1>n, <1>c DEF CoupledInv
\* a step that moves only what a reader does outside of handlers
<1>q. ASSUME UNCHANGED <<step, frames, taken, arrived>>,
             \A g \in Conns : reader'[g] \in {"handle", "send"} <=> reader[g] \in {"handle", "send"}
      PROVE  CoupledInv'
    BY <1>q
<1>1. ASSUME NEW g \in Conns, NEW v \in Versions, Push(g, v)
      PROVE  CoupledInv'
    <2>1. /\ frames' = [frames EXCEPT ![g] = Append(frames[g], v)]
          /\ arrived' = [arrived EXCEPT ![g] = arrived[g] + 1]
          /\ UNCHANGED <<step, reader, taken>>
        BY <1>1 DEF Push, CC!Arrive, configVars
    <2>2. Append(frames[g], v) \in Seq(Versions) /\ Len(Append(frames[g], v)) = Len(frames[g]) + 1
        OBVIOUS
    <2>3. frames' \in [Conns -> Seq(Versions)]
        BY <2>1, <2>2
    <2>4. \A h \in Conns : taken'[h] <= arrived'[h] /\ arrived'[h] = Len(frames'[h])
        BY <2>1, <2>2
    <2> QED BY <2>1, <2>3, <2>4
<1>2. ASSUME NEW g \in Conns, HandleConfig(g)
      PROVE  CoupledInv'
    <2>1. /\ taken[g] < arrived[g] /\ taken' = [taken EXCEPT ![g] = taken[g] + 1]
          /\ reader' = [reader EXCEPT ![g] = "handle"]
          /\ UNCHANGED <<frames, arrived>>
        BY <1>2 DEF HandleConfig, CC!TakeRequest, CC!NextFrame, CC!ReaderGoto, CC!netVars, ownVars
    <2>2. step' = [step EXCEPT ![g] = "load"]
        BY <1>2 DEF HandleConfig, CM!Receive, CM!Goto
    <2>3. step \in [Conns -> CMP!Steps]
        BY DEF CMP!TypeOK, Conns
    <2>4. \A h \in Conns : taken'[h] <= arrived[h]
        BY <2>1
    <2> QED BY <2>1, <2>2, <2>3, <2>4
<1>3. ASSUME NEW g \in Conns, ApplyStep(g)
      PROVE  CoupledInv'
    <2>1. CMP!ApplyStep(g) /\ g \in 1..MaxConns /\ UNCHANGED <<frames, taken, arrived, reader>>
        BY <1>3, SameApply DEF ApplyStep, clientVars, ownVars, Conns
    <2>2. \A h \in 1..MaxConns : h # g => step'[h] = step[h]
        BY <2>1, SameConstants, ConfigAssumption, KeyAssumption, CMP!HandlerFrame
    <2>3. step[g] # "idle" /\ step'[g] # "idle"
        BY <2>1, SameConstants, ConfigAssumption, KeyAssumption, CMP!HandlerInside
    <2> QED BY <2>1, <2>2, <2>3 DEF Conns
<1>4. ASSUME NEW g \in Conns, Reply(g)
      PROVE  CoupledInv'
    <2>1. UNCHANGED <<step, frames, taken, arrived>>
        BY <1>4 DEF Reply, configVars, CC!BeginReply, CC!DropReply, CC!SendFails, CC!SendOK, CC!netVars
    <2>2. \A h \in Conns : reader'[h] \in {"handle", "send"} <=> reader[h] \in {"handle", "send"}
        BY <1>4 DEF Reply, CC!BeginReply, CC!DropReply, CC!SendFails, CC!SendOK, CC!MayReply, CC!ReaderGoto
    <2> QED BY <1>q, <2>1, <2>2
<1>5. ASSUME NEW g \in Conns, HandlerReturns(g)
      PROVE  CoupledInv'
    <2>1. step' = [step EXCEPT ![g] = "idle"] /\ reader' = [reader EXCEPT ![g] = "head"]
        BY <1>5 DEF HandlerReturns, CC!HandlerReturns, CC!ReaderGoto, CM!Ack, CM!Goto
    <2>2. UNCHANGED <<frames, taken, arrived>>
        BY <1>5 DEF HandlerReturns, CC!HandlerReturns, CC!netVars, ownVars
    <2>3. step \in [Conns -> CMP!Steps]
        BY DEF CMP!TypeOK, Conns
    <2> QED BY <2>1, <2>2, <2>3
<1>6. ASSUME NEW g \in Conns, Read(g)
      PROVE  CoupledInv'
    <2>1. UNCHANGED <<step, frames, taken, arrived>>
        BY <1>6 DEF Read, configVars, ownVars, CC!LoopHead, CC!ReadFails, CC!ExitReader, CC!netVars
    <2>2. \A h \in Conns : reader'[h] \in {"handle", "send"} <=> reader[h] \in {"handle", "send"}
        BY <1>6 DEF Read, CC!LoopHead, CC!ReadFails, CC!ExitReader, CC!ReaderGoto
    <2> QED BY <1>q, <2>1, <2>2
<1>7. CASE MainStep
    <2>1. UNCHANGED <<step, frames>> /\ CC!MainStep
        BY <1>7 DEF MainStep, configVars
    <2>2. UNCHANGED <<taken, arrived>>
        BY <2>1 DEF CC!MainStep, CC!DialFails, CC!DialOK, CC!BeginMain, CC!AuthOK, CC!PingOK, CC!MainWriteFails,
            CC!SelectDone, CC!SelectErr, CC!SelectTick, CC!Unset, CC!Close, CC!Retry, CC!GiveUp, CC!netVars
    <2>3. \A h \in Conns : reader'[h] \in {"handle", "send"} <=> reader[h] \in {"handle", "send"}
        <3>1. gen \in Conns /\ run = "auth" => reader[gen] = "none"
            BY DEF ReaderInv
        <3> QED BY <2>1, <3>1, MainEffect
    <2> QED BY <1>q, <2>1, <2>2, <2>3
<1>8. ASSUME NEW g \in Conns, Network(g)
      PROVE  CoupledInv'
    BY <1>8, <1>q DEF Network, configVars, ownVars, CC!Break
<1>9. CASE Signal
    BY <1>9, <1>q DEF Signal, configVars, ownVars, CC!Cancel, CC!netVars
<1>10. CASE Crash
    BY <1>10 DEF Crash, CC!Die, CM!Crash, CM!NoCalls, ownVars, CC!Conns, Conns
<1>11. CASE UNCHANGED vars
    BY <1>11, <1>q DEF vars, clientVars, configVars, ownVars
<1> QED
    BY <1>1, <1>2, <1>3, <1>4, <1>5, <1>6, <1>7, <1>8, <1>9, <1>10, <1>11 DEF Next, Stopped

LEMMA WiringStep == WiringInv /\ [Next]_vars => WiringInv'
<1> SUFFICES ASSUME WiringInv, [Next]_vars PROVE WiringInv'
    OBVIOUS
<1>1. CC!TypeInv' /\ CM!TypeInv' /\ CoupledInv'
    BY ClientTypes, ConfigTypes, CoupledStep DEF WiringInv
<1>2. ReaderInv'
    BY <1>1, ReaderStepInv DEF WiringInv, CC!TypeInv
<1>3. orphaned' \in BOOLEAN
    BY DEF WiringInv, Next, Stopped, vars, ownVars, MainStep, Push, HandleConfig, ApplyStep, Reply,
        HandlerReturns, Read, Network, Signal, Crash
<1>4. acked' \subseteq Versions
    <2>1. ASSUME NEW g \in Conns, Reply(g)
          PROVE  acked' \subseteq Versions
        <3>1. req[g] \in Versions
            BY <2>1 DEF Reply, WiringInv, CM!TypeInv, CM!TargetInv, Conns
        <3> QED BY <2>1, <3>1 DEF Reply, WiringInv
    <2> QED BY <2>1 DEF WiringInv, Next, Stopped, vars, ownVars, MainStep, Push, HandleConfig, ApplyStep,
            HandlerReturns, Read, Network, Signal, Crash
<1> QED BY <1>1, <1>2, <1>3, <1>4 DEF WiringInv

LEMMA WiringInvariance == Spec => []WiringInv
BY InitWiring, WiringStep, PTL DEF Spec

\* Every variable keeps its type, and a reader is in a handler exactly while its call of
\* Apply is, whatever overlaps.
THEOREM TypeCorrect == Spec => []TypeOK
<1>1. WiringInv => TypeOK
    BY DEF WiringInv, CoupledInv, TypeOK, CC!TypeInv, CM!TypeInv
<1> QED BY WiringInvariance, <1>1, PTL

\* The daemon uses Apply as module ConfigManager says: what is proved there of any
\* handlers holds of the readers.
THEOREM UsesConfigManager == Spec => CM!Spec
<1>1. Init => CM!Init
    BY DEF Init
<1> QED BY WiringInvariance, <1>1, ConfigSteps, PTL DEF Spec, CM!Spec

\* So the daemon never writes files that keep the gateway from starting, whichever
\* readers overlap.
THEOREM GatewayCanStart == Spec => []CM!PlaceholdersResolve
<1>1. CM!PlaceholdersResolve <=> CMP!PlaceholdersResolve
    BY DEF CM!PlaceholdersResolve, CMP!PlaceholdersResolve, CM!KeysCarried, CMP!KeysCarried,
        CM!Resolves, CMP!Resolves, CM!EnvKeys, CMP!EnvKeys, CM!Slots, CMP!Slots, CM!APIKey, CMP!APIKey,
        CM!TokenKey, CMP!TokenKey, CM!Backfilled, CMP!Backfilled
<1>2. CMP!Spec => []CMP!PlaceholdersResolve
    BY SameConstants, ConfigAssumption, KeyAssumption, CMP!GatewayCanStart
<1>3. CMP!Init /\ [][CMP!Next]_(CMP!vars) => CMP!Spec
    BY DEF CMP!Spec
<1>4. CM!Init => CMP!Init
    BY SameInit
<1>5. [CM!Next]_(CM!vars) => [CMP!Next]_(CMP!vars)
    BY SameNext
<1> QED BY UsesConfigManager, <1>1, <1>2, <1>3, <1>4, <1>5, PTL DEF CM!Spec

----------------------------------------------------------------------------
(* Until a reader is left behind: AloneInv.                                  *)

LEMMA InitAlone == Init => AloneInv
<1> SUFFICES ASSUME Init PROVE AloneInv
    OBVIOUS
<1>1. CurrentInv
    BY DEF Init, CC!Init, CC!Conns, Conns, CurrentInv, Alive
<1>2. CM!OneHandlerInv
    BY SameInit, SameOne, SameConstants, ConfigAssumption, KeyAssumption, CMP!InitOne DEF Init
<1> QED BY <1>1, <1>2 DEF AloneInv, Init

\* runOnce is left by the reader's own error, which ends that reader, by the context,
\* after which nothing is dialled, or by a failed heartbeat, which is what orphaned
\* remembers.
LEMMA CurrentStep ==
    ASSUME WiringInv, CurrentInv, ~orphaned, ~orphaned', [Next]_vars
    PROVE  CurrentInv'
<1>t. CC!TypeOK /\ ReaderInv
    BY DEF WiringInv, CC!TypeInv
<1>1. CASE MainStep
    <2>1. CC!MainStep /\ ~(run' = "unset" /\ run = "ping" /\ Alive(gen))
        BY <1>1 DEF MainStep
    <2>2. SUFFICES ASSUME NEW g \in Conns, Alive(g)'
                   PROVE  /\ g = gen'
                          /\ run' \in {"select", "ping"} \/ (ctxDone' /\ run' \in {"unset", "close", "stopped"})
        BY DEF CurrentInv
    <2>3. CASE reader' = reader
        <3>1. Alive(g) /\ g = gen
            BY <2>2, <2>3 DEF Alive, CurrentInv
        <3>2. run \in {"select", "ping"} \/ (ctxDone /\ run \in {"unset", "close", "stopped"})
            BY <3>1 DEF CurrentInv
        <3>3. ~(readErr[gen] > 0)
            BY <1>t, <3>1 DEF ReaderInv, Alive
        <3> QED BY <1>t, <2>1, <3>1, <3>2, <3>3, MainEffect
    <2>4. CASE reader' # reader
        <3>1. /\ run = "auth" /\ run' = "select" /\ gen' = gen
              /\ reader' = [reader EXCEPT ![gen] = "head"]
            BY <1>t, <2>1, <2>4, MainEffect
        <3>2. g # gen => Alive(g)
            BY <1>t, <2>2, <3>1 DEF Alive, CC!TypeOK, CC!Conns, Conns
        <3> QED BY <3>1, <3>2 DEF CurrentInv
    <2> QED BY <2>3, <2>4
<1>2. ASSUME NEW g \in Conns, CC!ReaderStep(g)
      PROVE  CurrentInv'
    <2>1. \A h \in Conns : Alive(h)' => Alive(h)
        BY <1>t, <1>2, ReaderEffect DEF Alive
    <2>2. UNCHANGED <<ctxDone, run, gen>>
        BY <1>t, <1>2, ReaderEffect
    <2> QED BY <2>1, <2>2 DEF CurrentInv
<1>3. CASE CCP!Surroundings
    <2>1. CASE UNCHANGED <<run, reader>> /\ (ctxDone => ctxDone')
        BY <1>t, <1>3, <2>1, SurroundingsEffect DEF CurrentInv, Alive
    <2>2. CASE \A g \in Conns : reader'[g] = "none"
        BY <2>2 DEF CurrentInv, Alive
    <2> QED BY <1>t, <1>3, <2>1, <2>2, SurroundingsEffect
<1>4. CASE UNCHANGED clientVars
    BY <1>4 DEF clientVars, CurrentInv, Alive
<1>5. \/ MainStep \/ (\E g \in Conns : CC!ReaderStep(g)) \/ CCP!Surroundings \/ UNCHANGED clientVars
    BY SameSurroundings DEF Next, vars, Stopped, Push, HandleConfig, ApplyStep, Reply, HandlerReturns, Read,
        Network, Signal, Crash, CC!ReaderStep
<1> QED BY <1>1, <1>2, <1>3, <1>4, <1>5

\* one living reader makes one call of Apply
LEMMA LivingIsApart == CoupledInv /\ CurrentInv => CMP!Apart
BY DEF CoupledInv, CurrentInv, Alive, CMP!Apart, Conns

LEMMA LivingIsApartNext == CoupledInv' /\ CurrentInv' => CMP!Apart'
BY DEF CoupledInv, CurrentInv, Alive, CMP!Apart, Conns

\* Only a reader left behind could take the recorded version back.
LEMMA VersionRises == WiringInv /\ AloneInv /\ [Next]_vars /\ ~orphaned => stateFile'.ver >= stateFile.ver
<1> SUFFICES ASSUME WiringInv, AloneInv, [Next]_vars, ~orphaned PROVE stateFile'.ver >= stateFile.ver
    OBVIOUS
<1>1. CMP!OneHandlerInv /\ [CMP!Next]_(CMP!vars)
    BY ConfigSteps, SameNext, SameOne DEF AloneInv
<1> QED BY <1>1, SameConstants, ConfigAssumption, KeyAssumption, CMP!VersionRises

LEMMA AloneStep == WiringInv /\ WiringInv' /\ AloneInv /\ [Next]_vars => AloneInv'
<1> SUFFICES ASSUME WiringInv, WiringInv', AloneInv, [Next]_vars, ~orphaned'
             PROVE  CurrentInv' /\ CM!OneHandlerInv' /\ \A v \in acked' : v <= stateFile'.ver
    BY DEF AloneInv
<1>1. ~orphaned
    BY DEF Next, Stopped, vars, ownVars, MainStep, Push, HandleConfig, ApplyStep, Reply,
        HandlerReturns, Read, Network, Signal, Crash
<1>2. CurrentInv /\ CM!OneHandlerInv /\ \A v \in acked : v <= stateFile.ver
    BY <1>1 DEF AloneInv
<1>3. CurrentInv'
    BY <1>1, <1>2, CurrentStep
<1>4. CM!OneHandlerInv'
    <2>1. CMP!Apart /\ CMP!Apart'
        BY <1>2, <1>3, LivingIsApart, LivingIsApartNext DEF WiringInv
    <2>2. CMP!OneHandlerInv /\ [CMP!Next]_(CMP!vars)
        BY <1>2, ConfigSteps, SameNext, SameOne
    <2> QED BY <2>1, <2>2, SameOne, SameConstants, ConfigAssumption, KeyAssumption, CMP!NextOne
<1>5. \A v \in acked' : v <= stateFile'.ver
    <2>1. /\ stateFile.ver \in Versions \cup {0} /\ stateFile'.ver \in Versions \cup {0}
          /\ \A g \in Conns : req[g] \in Versions \cup {0}
        BY DEF WiringInv, CM!TypeInv, CM!TypeOK, CM!States, CM!FileVersions, Conns
    <2>2. \A m \in Versions \cup {0} : m \in Nat
        BY ConfigAssumption
    <2>3. stateFile.ver <= stateFile'.ver
        BY <1>1, <2>1, <2>2, VersionRises
    <2>4. acked' = acked => \A v \in acked' : v <= stateFile'.ver
        BY <1>2, <2>1, <2>2, <2>3 DEF WiringInv
    <2>5. ASSUME NEW g \in Conns, Reply(g)
          PROVE  \A v \in acked' : v <= stateFile'.ver
        <3>1. stateFile' = stateFile /\ step[g] = "ack"
            BY <2>5 DEF Reply, configVars
        <3>2. result[g] = "success" => req[g] = stateFile.ver
            BY <1>2, <3>1 DEF CM!OneHandlerInv, CM!SuccessIsInstalled, CM!Succeeded, Conns
        <3>3. acked' \subseteq acked \cup {v \in {req[g]} : result[g] = "success"}
            BY <2>5 DEF Reply
        <3> QED BY <1>2, <2>1, <2>2, <3>1, <3>2, <3>3
    <2> QED BY <2>4, <2>5 DEF Next, Stopped, vars, ownVars, MainStep, Push, HandleConfig, ApplyStep,
            HandlerReturns, Read, Network, Signal, Crash
<1> QED BY <1>3, <1>4, <1>5

LEMMA AloneInvariance == Spec => []AloneInv
BY InitAlone, AloneStep, WiringInvariance, PTL DEF Spec

\* Two readers live at once only behind a heartbeat that failed under one of them.
THEOREM OneReader == Spec => []OverlapNeedsOrphan
<1>1. AloneInv => OverlapNeedsOrphan
    BY DEF AloneInv, CurrentInv, OverlapNeedsOrphan
<1> QED BY AloneInvariance, <1>1, PTL

\* Until then the daemon keeps what Apply promises one caller, over reconnections,
\* redeliveries and crashes.
THEOREM SafeAlone == Spec => []SafeUntilOrphaned
<1>1. AloneInv => SafeUntilOrphaned
    BY DEF AloneInv, SafeUntilOrphaned, CM!OneHandlerInv
<1> QED BY AloneInvariance, <1>1, PTL

\* Until then what the cloud was told is recorded stays recorded.
LEMMA AckedStays == Spec => []AckedIsRecorded
<1>1. AloneInv => AckedIsRecorded
    BY DEF AloneInv, AckedIsRecorded
<1> QED BY AloneInvariance, <1>1, PTL

\* Until then the daemon implements the register of versions, crashes included.
THEOREM RegisterAlone == Spec => RegisterUntilOrphaned
<1>1. WiringInv /\ AloneInv /\ [Next]_vars => [~orphaned => [CM!Register!Next]_(CM!Register!vars)]_vars
    <2> SUFFICES ASSUME WiringInv, AloneInv, [Next]_vars, ~orphaned
                 PROVE  [CM!Register!Next]_(CM!Register!vars)
        OBVIOUS
    <2>1. CMP!OneHandlerInv /\ [CMP!Next]_(CMP!vars)
        BY ConfigSteps, SameNext, SameOne DEF AloneInv
    <2>2. [CMP!Register!Next]_(CMP!Register!vars)
        BY <2>1, SameConstants, ConfigAssumption, KeyAssumption, CMP!RegisterStep
    <2> QED BY <2>2, SameRegister
<1> QED BY <1>1, WiringInvariance, AloneInvariance, PTL DEF Spec, RegisterUntilOrphaned

\* A reply is counted before it is sent.
LEMMA RepliedStep == WiringInv /\ RepliedInv /\ [Next]_vars => RepliedInv'
<1> SUFFICES ASSUME WiringInv, RepliedInv, [Next]_vars PROVE RepliedInv'
    OBVIOUS
<1>t. CC!TypeOK /\ ReaderInv
    BY DEF WiringInv, CC!TypeInv
<1>n. \A g \in Conns : replied[g] \in 0..1
    BY <1>t DEF CC!TypeOK, CC!Conns, Conns
<1>1. CASE CC!MainStep
    <2>1. \A g \in Conns : reader'[g] = reader[g] \/ reader'[g] = "head"
        BY <1>t, <1>1, MainEffect DEF CC!TypeOK, CC!Conns, Conns
    <2>2. replied' = replied
        BY <1>1 DEF CC!MainStep, CC!DialFails, CC!DialOK, CC!BeginMain, CC!AuthOK, CC!PingOK, CC!MainWriteFails,
            CC!SelectDone, CC!SelectErr, CC!SelectTick, CC!Unset, CC!Close, CC!Retry, CC!GiveUp
    <2> QED BY <2>1, <2>2 DEF RepliedInv
<1>2. ASSUME NEW g \in Conns, CC!ReaderStep(g)
      PROVE  RepliedInv'
    <2> USE <1>t, <1>n DEF CC!TypeOK, CC!Conns, Conns, CC!ReaderGoto, RepliedInv
    <2>1. CASE CC!BeginReply(g)
        BY <2>1 DEF CC!BeginReply
    <2>2. CASE CC!LoopHead(g) \/ CC!ReadFails(g) \/ CC!HandlerReturns(g) \/ CC!ExitReader(g)
        BY <2>2 DEF CC!LoopHead, CC!ReadFails, CC!HandlerReturns, CC!ExitReader
    <2>3. CASE CC!SkipFrame(g) \/ CC!AuthResp(g) \/ CC!TakeRequest(g)
        BY <2>3 DEF CC!SkipFrame, CC!AuthResp, CC!TakeRequest
    <2>4. CASE CC!DropReply(g) \/ CC!SendOK(g) \/ CC!SendFails(g)
        BY <2>4 DEF CC!DropReply, CC!SendOK, CC!SendFails, CC!MayReply
    <2> QED BY <1>2, <2>1, <2>2, <2>3, <2>4 DEF CC!ReaderStep
<1>3. CASE CCP!Surroundings
    <2>1. CASE \E g \in Conns : CC!Arrive(g) \/ CC!Break(g)
        BY <2>1 DEF CC!Arrive, CC!Break, RepliedInv
    <2>2. CASE CC!Cancel
        BY <2>2 DEF CC!Cancel, RepliedInv
    <2>3. CASE CC!Die
        BY <2>3 DEF CC!Die, RepliedInv, CC!Conns, Conns
    <2> QED BY <1>3, <2>1, <2>2, <2>3, SameSurroundings
<1>4. CASE UNCHANGED clientVars
    BY <1>4 DEF clientVars, RepliedInv
<1> QED BY <1>1, <1>2, <1>3, <1>4, ClientSteps

\* An answer becomes due when Apply ends, which records a newer version than any that
\* was acknowledged, and is no longer due once it is written; there is one reader.
LEMMA NewsStep ==
    WiringInv /\ WiringInv' /\ AloneInv /\ AloneInv' /\ RepliedInv /\ SuccessIsNews /\ [Next]_vars
        => SuccessIsNews'
<1> SUFFICES ASSUME WiringInv, WiringInv', AloneInv, AloneInv', RepliedInv, SuccessIsNews, [Next]_vars,
                    ~orphaned', NEW h \in Conns, Pending(h)', result'[h] = "success"
             PROVE  \A v \in acked' : v < req'[h]
    BY DEF SuccessIsNews
<1>1. ~orphaned
    BY DEF Next, Stopped, vars, ownVars, MainStep, Push, HandleConfig, ApplyStep, Reply,
        HandlerReturns, Read, Network, Signal, Crash
<1>t. /\ CC!TypeOK /\ CM!TypeOK /\ CoupledInv /\ ReaderInv
      /\ CurrentInv /\ CM!OneHandlerInv /\ \A v \in acked : v <= stateFile.ver
    BY <1>1 DEF WiringInv, CC!TypeInv, CM!TypeInv, AloneInv
<1>c. /\ step \in [Conns -> CM!Steps] /\ reader \in [Conns -> CC!ReaderSteps] /\ replied \in [Conns -> 0..1]
    BY <1>t DEF CC!TypeOK, CM!TypeOK, CC!Conns, Conns
\* an answer that was due before, or none was due
<1>q. ASSUME UNCHANGED <<step, req, result, acked>>, reader'[h] = "send" \/ replied'[h] = 0 => Pending(h)
      PROVE  \A v \in acked' : v < req'[h]
    BY <1>1, <1>q DEF SuccessIsNews, Pending
<1>2. ASSUME NEW g \in Conns, ApplyStep(g)
      PROVE  \A v \in acked' : v < req'[h]
    <2>1. CMP!ApplyStep(g) /\ g \in 1..MaxConns /\ UNCHANGED <<reader, replied, acked>> /\ Alive(g)
        BY <1>2, SameApply DEF ApplyStep, clientVars, ownVars, Conns, Alive
    <2>2. h = g
        <3>1. step'[h] = "ack" /\ reader[h] \in {"handle", "send"}
            BY <2>1 DEF Pending, WiringInv, CoupledInv
        <3> QED BY <1>t, <2>1, <3>1 DEF CurrentInv, Alive
    <2>3. step'[g] = "ack" /\ result'[g] = "success" /\ CMP!OneHandlerInv
        BY <1>t, <2>2, SameOne DEF Pending
    <2>4. req'[g] = req[g] /\ req[g] > stateFile.ver
        BY <2>1, <2>3, SameConstants, ConfigAssumption, KeyAssumption, CMP!HandlerSucceeds
    <2>5. req[g] \in Versions \cup {0} /\ stateFile.ver \in Versions \cup {0} /\ acked \subseteq Versions
        BY DEF WiringInv, CM!TypeInv, CM!TypeOK, CM!States, CM!FileVersions, Conns
    <2>6. \A m \in Versions \cup {0} : m \in Nat
        BY ConfigAssumption
    <2>7. \A v \in acked : v < req[g]
        BY <1>t, <2>4, <2>5, <2>6
    <2> QED BY <2>1, <2>2, <2>4, <2>7
<1>3. ASSUME NEW g \in Conns, Reply(g)
      PROVE  \A v \in acked' : v < req'[h]
    <2>1. UNCHANGED <<step, req, result>> /\ step[g] = "ack" /\ reader[g] \in {"handle", "send"}
        BY <1>3, <1>t DEF Reply, configVars, CoupledInv
    <2>2. CASE CC!BeginReply(g) /\ UNCHANGED acked
        <3>1. replied[g] = 0 /\ replied' = [replied EXCEPT ![g] = replied[g] + 1]
              /\ reader' = [reader EXCEPT ![g] = "send"]
            BY <2>2, <1>c DEF CC!BeginReply, CC!MayReply, CC!ReaderGoto
        <3> QED BY <1>c, <1>q, <2>1, <2>2, <3>1 DEF Pending
    <2>3. CASE CC!DropReply(g) /\ UNCHANGED acked
        <3>1. replied[g] = 0 /\ replied' = [replied EXCEPT ![g] = replied[g] + 1] /\ reader' = reader
            BY <2>3, <1>c DEF CC!DropReply, CC!MayReply
        <3> QED BY <1>c, <1>q, <2>1, <2>3, <3>1 DEF Pending
    <2>4. CASE CC!SendFails(g) \/ CC!SendOK(g)
        <3>1. reader[g] = "send" /\ replied' = replied /\ reader' = [reader EXCEPT ![g] = "handle"]
            BY <2>4 DEF CC!SendFails, CC!SendOK, CC!ReaderGoto
        <3>2. h = g
            <4>1. step[h] = "ack" /\ reader[h] \in {"handle", "send"}
                BY <2>1, <1>t DEF Pending, CoupledInv
            <4> QED BY <1>t, <2>1, <4>1 DEF CurrentInv, Alive
        <3>3. reader'[h] = "handle" /\ replied'[h] > 0
            BY <1>c, <3>1, <3>2 DEF RepliedInv
        <3> QED BY <3>3 DEF Pending
    <2> QED BY <1>3, <2>2, <2>3, <2>4 DEF Reply
<1>4. ASSUME NEW g \in Conns, HandleConfig(g) \/ HandlerReturns(g)
      PROVE  \A v \in acked' : v < req'[h]
    <2>1. step'[g] # "ack"
        BY <1>4, <1>c DEF HandleConfig, HandlerReturns, CM!Receive, CM!Ack, CM!Goto
    <2>2. h # g
        BY <2>1 DEF Pending
    <2>3. UNCHANGED <<step[h], req[h], result[h], reader[h], replied[h], acked>>
        BY <1>4, <1>c, <1>t, <2>2 DEF HandleConfig, HandlerReturns, CM!Receive, CM!Ack, CM!Goto, CC!TakeRequest,
            CC!HandlerReturns, CC!ReaderGoto, ownVars, CM!TypeOK, Conns
    <2> QED BY <1>1, <2>3 DEF Pending, SuccessIsNews
<1>5. ASSUME NEW g \in Conns, Read(g)
      PROVE  \A v \in acked' : v < req'[h]
    <2>1. UNCHANGED <<step, req, result, acked, replied>>
        BY <1>5 DEF Read, configVars, ownVars, CC!LoopHead, CC!ReadFails, CC!ExitReader
    <2>2. reader'[h] = "send" => reader[h] = "send"
        BY <1>5, <1>c DEF Read, CC!LoopHead, CC!ReadFails, CC!ExitReader, CC!ReaderGoto
    <2> QED BY <1>q, <2>1, <2>2 DEF Pending
<1>6. CASE MainStep
    <2>1. UNCHANGED <<step, req, result, acked, replied>> /\ CC!MainStep
        BY <1>6 DEF MainStep, configVars, CC!MainStep, CC!DialFails, CC!DialOK, CC!BeginMain, CC!AuthOK,
            CC!PingOK, CC!MainWriteFails, CC!SelectDone, CC!SelectErr, CC!SelectTick, CC!Unset, CC!Close,
            CC!Retry, CC!GiveUp
    <2>2. reader'[h] = "send" => reader[h] = "send"
        BY <1>t, <1>c, <2>1, MainEffect
    <2> QED BY <1>q, <2>1, <2>2 DEF Pending
<1>7. ASSUME (\E g \in Conns : Network(g) \/ \E v \in Versions : Push(g, v)) \/ Signal \/ UNCHANGED vars
      PROVE  \A v \in acked' : v < req'[h]
    <2>1. UNCHANGED <<step, req, result, acked, replied, reader>>
        BY <1>7 DEF Network, Push, Signal, CC!Break, CC!Arrive, CC!Cancel, configVars, ownVars, clientVars, vars
    <2> QED BY <1>q, <2>1 DEF Pending
<1>8. CASE Crash
    BY <1>8 DEF Crash, CM!Crash, CM!NoCalls, Pending, Conns
<1> QED BY <1>2, <1>3, <1>4, <1>5, <1>6, <1>7, <1>8 DEF Next, Stopped

\* Until then the cloud never hears "success" twice of a version, nor of an older one
\* after a newer one.
LEMMA SuccessesRise == Spec => []SuccessIsNews
<1>1. Init => RepliedInv /\ SuccessIsNews
    BY DEF Init, CC!Init, CM!Init, RepliedInv, SuccessIsNews, CC!Conns, Conns
<1> QED BY <1>1, RepliedStep, NewsStep, WiringInvariance, AloneInvariance, PTL DEF Spec

\* Until then an acknowledgement is neither forgotten nor given again.
THEOREM AcksSound == Spec => []AcksAreSound
BY AckedStays, SuccessesRise, PTL DEF AcksAreSound

----------------------------------------------------------------------------
(* The client in the daemon: its safety properties, by its own invariants.  Here *)
(* the process may die at any moment, not only in a panic.                       *)

LEMMA SameLogs ==
    /\ (CC!ConnInv <=> CCP!ConnInv) /\ (CC!AuthInv <=> CCP!AuthInv) /\ (CC!OrderInv <=> CCP!OrderInv)
    /\ (CC!ConnInv' <=> CCP!ConnInv') /\ (CC!AuthInv' <=> CCP!AuthInv') /\ (CC!OrderInv' <=> CCP!OrderInv')
    /\ CC!ConnIsLive <=> CCP!ConnIsLive
BY DEF CC!ConnInv, CCP!ConnInv, CC!AuthInv, CCP!AuthInv, CC!OrderInv, CCP!OrderInv, CC!AuthFirst, CCP!AuthFirst,
    CC!WrittenBefore, CCP!WrittenBefore, CC!RepliesInOrder, CCP!RepliesInOrder, CC!Precedes, CCP!Precedes,
    CC!ConnIsLive, CCP!ConnIsLive, CC!Auth, CCP!Auth, CC!Main, CCP!Main, CC!None, CCP!None, CC!Conns, CCP!Conns

LogInv == CC!ConnInv /\ CC!AuthInv /\ CC!OrderInv

\* In the daemon, too, c.conn is never a closed connection, the auth_req comes before the
\* replies, and the acknowledgements leave in the order of the configs.
THEOREM ClientKeepsItsWord == Spec => [](CC!ConnIsLive /\ CC!AuthFirst /\ CC!RepliesInOrder)
<1>1. Init => LogInv
    BY SameClient, SameLogs, ClientAssumption, CCP!InitConn, CCP!InitAuth, CCP!InitOrder DEF Init, LogInv
<1>2. WiringInv /\ WiringInv' /\ LogInv /\ [Next]_vars => LogInv'
    <2> SUFFICES ASSUME WiringInv, WiringInv', LogInv, [Next]_vars PROVE LogInv'
        OBVIOUS
    <2>1. CCP!AnyStep /\ CCP!TypeInv /\ CCP!TypeInv' /\ CCP!ConnInv /\ CCP!AuthInv /\ CCP!OrderInv
        BY ClientAny, SameClient, SameLogs DEF WiringInv, LogInv
    <2>2. CCP!ConnInv'
        BY <2>1, ClientAssumption, CCP!ConnStep
    <2>3. CCP!AuthInv'
        BY <2>1, ClientAssumption, CCP!AuthStep
    <2>4. CCP!OrderInv'
        BY <2>1, ClientAssumption, CCP!OrderStep
    <2> QED BY <2>2, <2>3, <2>4, SameLogs DEF LogInv
<1>3. WiringInv /\ LogInv => CC!ConnIsLive /\ CC!AuthFirst /\ CC!RepliesInOrder
    BY SameClient, SameLogs, ClientAssumption, CCP!ConnLives DEF WiringInv, LogInv, CC!AuthInv, CC!OrderInv
<1> QED BY <1>1, <1>2, <1>3, WiringInvariance, PTL DEF Spec
=============================================================================

------------------------ MODULE ConfigManager_proofs ------------------------
(***************************************************************************)
(* Proofs about ConfigManager, for any sets of versions, addresses and     *)
(* handlers.  TypeOK holds whatever overlaps; the other theorems assume    *)
(* OneHandler, which is what module Daemon shows to be necessary.          *)
(***************************************************************************)
EXTENDS ConfigManager, TLAPS

USE DEF FileVersions, States, EmptyState, Fallible, Steps, Codes, Results, Gateways

----------------------------------------------------------------------------
(* Type correctness.  SetURL stays in URLs only because MakeWorkDir checked    *)
(* that the version carries an address: TypeInv says so.                       *)

\* openclaw.json stays a version and placeholders when it is written anew or merged
LEMMA JSONTypes ==
    /\ EmptyJSON \in JSONs /\ BootJSON \in JSONs
    /\ \A v \in Versions, base \in JSONs : MergedJSON(v, base) \in JSONs
<1>1. EmptyJSON \in JSONs
    BY DEF EmptyJSON, JSONs
<1>2. BootJSON \in JSONs
    BY KeyAssumption DEF BootJSON, JSONs
<1>3. ASSUME NEW v \in Versions, NEW base \in JSONs
      PROVE  MergedJSON(v, base) \in JSONs
    <2>1. base.refs \in [Slots -> Keys \cup {NoKey}] /\ base.model \in FileVersions
        BY DEF JSONs
    <2>2. MergedRefs(v, base.refs) \in [Slots -> Keys \cup {NoKey}]
        BY <2>1, KeyAssumption DEF MergedRefs
    <2>3. QED BY <2>1, <2>2 DEF MergedJSON, JSONs
<1>4. QED BY <1>1, <1>2, <1>3

LEMMA InitType == Init => TypeInv
<1> SUFFICES ASSUME Init PROVE TypeInv
    OBVIOUS
<1>1. gw \in Gateways
    BY JSONTypes DEF Init
<1>2. QED
    BY <1>1, JSONTypes, VersionsAssumption, URLAssumption, DeviceAssumption DEF Init, TypeOK, TypeInv, TargetInv

\* what a gateway starts with has the right type
LEMMA StartedType == TypeOK => Started \in Gateways
BY DEF TypeOK, Started

\* Every step of a handler keeps the types.
LEMMA HandlerType ==
    ASSUME TypeInv, NEW h \in Handlers,
           (\E v \in Versions : Receive(h, v)) \/ ApplyStep(h) \/ Ack(h)
    PROVE  TypeInv'
<1> USE VersionsAssumption, URLAssumption
    DEF TypeInv, TypeOK, TargetInv, Goto, Finish, applyVars, sharedVars
<1>1. CASE \E v \in Versions : Receive(h, v)
    BY <1>1 DEF Receive
<1>2. CASE LoadState(h)
    <2>1. loaded' \in [Handlers -> States]
        BY <1>2 DEF LoadState
    <2>2. step' \in [Handlers -> Steps] /\ result' \in [Handlers -> Results]
        BY <1>2 DEF LoadState
    <2>3. \A g \in Handlers : TargetInv(g)'
        BY <1>2 DEF LoadState
    <2>4. QED BY <1>2, <2>1, <2>2, <2>3 DEF LoadState
<1>3. CASE MakeWorkDir(h)
    BY <1>3 DEF MakeWorkDir
<1>4. CASE SetURL(h)
    <2>1. URLOf[req[h]] \in URLs
        BY <1>4 DEF SetURL
    <2>2. QED BY <1>4, <2>1 DEF SetURL
<1>5. CASE SnapshotURL(h)
    BY <1>5 DEF SnapshotURL
<1>6. CASE WriteURL(h)
    BY <1>6 DEF WriteURL
<1>7. CASE WriteEnv(h)
    BY <1>7 DEF WriteEnv
<1>8. CASE ReadJSON(h) \/ ReadJSONFails(h)
    <2>1. jsonRead' \in [Handlers -> JSONs]
        BY <1>8, JSONTypes DEF ReadJSON, ReadJSONFails
    <2>2. step' \in [Handlers -> Steps] /\ \A g \in Handlers : TargetInv(g)'
        BY <1>8 DEF ReadJSON, ReadJSONFails
    <2>3. QED BY <1>8, <2>1, <2>2 DEF ReadJSON, ReadJSONFails
<1>9. CASE WriteJSON(h)
    <2>1. jsonFile' \in JSONs /\ jsonRead' \in [Handlers -> JSONs]
        BY <1>9, JSONTypes DEF WriteJSON
    <2>2. QED BY <1>9, <2>1 DEF WriteJSON
<1>10. CASE Restart(h)
    BY <1>10, StartedType, OptionsAssumption DEF Restart
<1>11. CASE RestartFails(h)
    BY <1>11, StartedType DEF RestartFails
<1>12. CASE HealthOK(h)
    BY <1>12 DEF HealthOK
<1>13. CASE HealthFails(h)
    BY <1>13 DEF HealthFails
<1>14. CASE Save(h)
    BY <1>14 DEF Save
<1>15. CASE FileError(h)
    BY <1>15 DEF FileError, ErrorCode
<1>16. CASE Ack(h)
    <2>1. jsonRead' \in [Handlers -> JSONs] /\ loaded' \in [Handlers -> States]
        BY <1>16, JSONTypes, DeviceAssumption DEF Ack
    <2>2. QED BY <1>16, <2>1 DEF Ack
<1>17. QED
    BY <1>1, <1>2, <1>3, <1>4, <1>5, <1>6, <1>7, <1>8, <1>9, <1>10, <1>11, <1>12, <1>13, <1>14, <1>15, <1>16 DEF ApplyStep

\* So do the gateway's own steps and a crash.
LEMMA EnvironmentType ==
    ASSUME TypeInv, GatewayStep \/ Crash
    PROVE  TypeInv'
<1> USE DEF TypeInv, TypeOK, TargetInv, applyVars, sharedVars
<1>1. CASE GatewayServes \/ GatewayDies \/ GatewayStarts
    BY <1>1, StartedType DEF GatewayServes, GatewayDies, GatewayStarts
<1>2. CASE Crash
    <2>1. gw' \in Gateways
        BY <1>2, StartedType DEF Crash
    <2>2. memURL' \in URLs
        BY <1>2, URLAssumption DEF Crash
    <2>3. jsonRead' \in [Handlers -> JSONs] /\ loaded' \in [Handlers -> States]
        BY <1>2, JSONTypes, DeviceAssumption DEF Crash, NoCalls
    <2>4. QED BY <1>2, <2>1, <2>2, <2>3, URLAssumption DEF Crash, NoCalls
<1>3. QED BY <1>1, <1>2 DEF GatewayStep

LEMMA NextType == TypeInv /\ [Next]_vars => TypeInv'
<1> SUFFICES ASSUME TypeInv, [Next]_vars PROVE TypeInv'
    OBVIOUS
<1>1. CASE Next
    BY <1>1, HandlerType, EnvironmentType DEF Next
<1>2. CASE UNCHANGED vars
    BY <1>2 DEF vars, TypeInv, TypeOK, TargetInv
<1>3. QED BY <1>1, <1>2

\* Every variable stays in its set, for any constants and any overlap of calls.
THEOREM TypeCorrect == Spec => []TypeOK
<1>1. TypeInv => TypeOK
    BY DEF TypeInv
<1>2. QED BY InitType, NextType, <1>1, PTL DEF Spec

----------------------------------------------------------------------------
(* One handler at a time. *)

USE DEF AfterCheck, AfterURL, AfterEnv, AfterJSON, AfterStart

LEMMA InitOne == Init => OneHandlerInv
BY InitType, VersionsAssumption DEF Init, OneHandlerInv, StepInv, SuccessIsInstalled, Succeeded,
    RecordedIsInstalled, FailedStaysRetryable

\* versions are natural numbers, the recorded one too
LEMMA VersionsAreNat ==
    /\ \A v \in FileVersions : v \in Nat
    /\ TypeOK => stateFile.ver \in FileVersions /\ \A h \in Handlers : req[h] \in FileVersions
BY VersionsAssumption DEF TypeOK

LEMMA GreaterIsAtLeast == \A m, n \in Nat : m >= m /\ (m > n => m >= n)
OBVIOUS

\* A handler's step moves no other one.
LEMMA HandlerFrame ==
    ASSUME TypeOK, NEW h \in Handlers,
           (\E v \in Versions : Receive(h, v)) \/ ApplyStep(h) \/ Ack(h)
    PROVE  \A g \in Handlers : g # h => step'[g] = step[g]
<1>1. \E s : Goto(h, s)
    BY DEF ApplyStep, Receive, LoadState, MakeWorkDir, SetURL, SnapshotURL, WriteURL, WriteEnv,
        ReadJSON, ReadJSONFails, WriteJSON, Restart, RestartFails, HealthOK, HealthFails, Save,
        FileError, Ack, Finish
<1>2. QED BY <1>1 DEF Goto, TypeOK

\* A call goes into Apply with Receive and leaves it with Ack.
LEMMA HandlerInside ==
    ASSUME TypeOK, NEW h \in Handlers
    PROVE  /\ \A v : Receive(h, v) => step[h] = "idle" /\ step'[h] # "idle"
           /\ ApplyStep(h) => step[h] # "idle" /\ step'[h] # "idle"
           /\ Ack(h) => step[h] # "idle" /\ step'[h] = "idle"
<1> USE DEF TypeOK, Goto
<1>1. \A v : Receive(h, v) => step[h] = "idle" /\ step'[h] # "idle"
    BY DEF Receive
<1>2. ApplyStep(h) => step[h] # "idle" /\ step'[h] # "idle"
    BY DEF ApplyStep, LoadState, MakeWorkDir, SetURL, SnapshotURL, WriteURL, WriteEnv,
        ReadJSON, ReadJSONFails, WriteJSON, Restart, RestartFails, HealthOK, HealthFails, Save,
        FileError, Finish
<1>3. Ack(h) => step[h] # "idle" /\ step'[h] = "idle"
    BY DEF Ack
<1>4. QED BY <1>1, <1>2, <1>3

\* Apply succeeds by recording a version that is newer than the recorded one.
LEMMA HandlerSucceeds ==
    ASSUME OneHandlerInv, NEW h \in Handlers, ApplyStep(h), step'[h] = "ack", result'[h] = "success"
    PROVE  req'[h] = req[h] /\ req[h] > stateFile.ver
<1> USE DEF OneHandlerInv, TypeInv, TypeOK, Goto, Finish
<1>1. CASE Save(h)
    BY <1>1 DEF Save, StepInv, AfterCheck
<1>2. CASE ~Save(h)
    <2>1. step'[h] = "ack" => result'[h] # "success"
        BY <1>2 DEF ApplyStep, LoadState, MakeWorkDir, SetURL, SnapshotURL, WriteURL, WriteEnv,
            ReadJSON, ReadJSONFails, WriteJSON, Restart, RestartFails, HealthOK, HealthFails,
            FileError, ErrorCode, Codes
    <2> QED BY <2>1
<1> QED BY <1>1, <1>2

\* no other handler is inside Apply
Alone(h) == \A g \in Handlers : g # h => step[g] = "idle"

\* Every step of a handler keeps the invariant if no other one is inside Apply.
LEMMA HandlerOne ==
    ASSUME OneHandlerInv, TypeInv', NEW h \in Handlers, Alone(h),
           (\E v \in Versions : Receive(h, v)) \/ ApplyStep(h) \/ Ack(h)
    PROVE  OneHandlerInv'
<1> DEFINE Here == /\ StepInv(h)
                   /\ Succeeded(h) =>
                        /\ stateFile.ver = req[h]
                        /\ URLInstalled(req[h]) /\ JSONInstalled(req[h])
                        /\ envFile = req[h]
                        /\ HasRestart => gw.env = req[h] /\ (req[h] \in SetsModel => gw.json.model = req[h])
                   /\ step[h] = "ack" /\ result[h] \in {"CONFIG_APPLY_FAILED", "GATEWAY_UNAVAILABLE"}
                        => req[h] > stateFile.ver
<1>0. Here
    BY DEF OneHandlerInv, SuccessIsInstalled, FailedStaysRetryable
<1>r. RecordedIsInstalled
    BY DEF OneHandlerInv
<1>t. TypeOK /\ TargetInv(h)
    BY DEF OneHandlerInv, TypeInv
<1>n. stateFile.ver \in Nat /\ req[h] \in Nat /\ (req[h] > stateFile.ver => req[h] >= stateFile.ver)
    <2>1. stateFile.ver \in Nat /\ req[h] \in Nat
        BY <1>t, VersionsAreNat
    <2>2. QED BY <2>1, GreaterIsAtLeast
<1>h. \A g \in Handlers : g # h => step'[g] = "idle"
    BY <1>t, HandlerFrame DEF Alone
<1>o. \A g \in Handlers : g # h => StepInv(g)' /\ step'[g] # "ack"
    BY <1>h DEF StepInv
<1>s. SUFFICES Here' /\ RecordedIsInstalled'
    BY <1>o, <1>s DEF OneHandlerInv, SuccessIsInstalled, Succeeded, FailedStaysRetryable
<1> USE VersionsAssumption, <1>0, <1>r, <1>t
    DEF TypeOK, TargetInv, StepInv, Succeeded, URLInstalled, JSONInstalled, RecordedIsInstalled,
        Goto, Finish, applyVars, sharedVars
<1>1. CASE \E v \in Versions : Receive(h, v)
    <2>1. Here'
        BY <1>1 DEF Receive
    <2>2. RecordedIsInstalled'
        BY <1>1 DEF Receive
    <2>3. QED BY <2>1, <2>2
<1>2. CASE LoadState(h)
    <2>1. Here'
        BY <1>2 DEF LoadState, IsNewer
    <2>2. RecordedIsInstalled'
        BY <1>2 DEF LoadState, IsNewer
    <2>3. QED BY <2>1, <2>2
<1>3. CASE MakeWorkDir(h)
    <2>1. Here'
        BY <1>3 DEF MakeWorkDir
    <2>2. RecordedIsInstalled'
        BY <1>3 DEF MakeWorkDir
    <2>3. QED BY <2>1, <2>2
<1>4. CASE SetURL(h)
    <2>1. Here'
        BY <1>4 DEF SetURL
    <2>2. RecordedIsInstalled'
        BY <1>4 DEF SetURL
    <2>3. QED BY <2>1, <2>2
<1>5. CASE SnapshotURL(h)
    <2>1. Here'
        BY <1>5 DEF SnapshotURL
    <2>2. RecordedIsInstalled'
        BY <1>5 DEF SnapshotURL
    <2>3. QED BY <2>1, <2>2
<1>6. CASE WriteURL(h)
    <2>1. Here'
        BY <1>6 DEF WriteURL
    <2>2. RecordedIsInstalled'
        <3>1. req[h] \in Versions /\ req[h] > stateFile.ver /\ diskURL' = URLOf[req[h]]
            BY <1>6 DEF WriteURL
        <3>2. req[h] >= stateFile.ver
            BY <3>1, <1>n
        <3>3. UNCHANGED <<stateFile, envFile, jsonFile, jsonReads>>
            BY <1>6 DEF WriteURL
        <3>4. QED BY <3>1, <3>2, <3>3
    <2>3. QED BY <2>1, <2>2
<1>7. CASE WriteEnv(h)
    <2>1. Here'
        BY <1>7 DEF WriteEnv
    <2>2. RecordedIsInstalled'
        <3>1. req[h] \in Nat /\ req[h] > stateFile.ver /\ envFile' = req[h]
            BY <1>7 DEF WriteEnv
        <3>2. envFile' >= stateFile.ver
            BY <3>1, <1>n
        <3>3. UNCHANGED <<stateFile, jsonFile, diskURL, jsonReads>>
            BY <1>7 DEF WriteEnv
        <3>4. QED BY <3>2, <3>3
    <2>3. QED BY <2>1, <2>2
<1>8. CASE ReadJSON(h) \/ ReadJSONFails(h)
    <2>1. Here'
        BY <1>8 DEF ReadJSON, ReadJSONFails
    <2>2. RecordedIsInstalled'
        BY <1>8 DEF ReadJSON, ReadJSONFails
    <2>3. QED BY <2>1, <2>2
<1>9. CASE WriteJSON(h)
    <2>1. Here'
        BY <1>9 DEF WriteJSON, MergedJSON
    <2>2. RecordedIsInstalled'
        BY <1>9 DEF WriteJSON, MergedJSON
    <2>3. QED BY <2>1, <2>2
<1>10. CASE Restart(h)
    <2>1. Here'
        BY <1>10 DEF Restart, Started
    <2>2. RecordedIsInstalled'
        BY <1>10 DEF Restart, Started
    <2>3. QED BY <2>1, <2>2
<1>11. CASE RestartFails(h)
    <2>1. Here'
        BY <1>11 DEF RestartFails
    <2>2. RecordedIsInstalled'
        BY <1>11 DEF RestartFails
    <2>3. QED BY <2>1, <2>2
<1>12. CASE HealthOK(h)
    <2>1. Here'
        BY <1>12 DEF HealthOK
    <2>2. RecordedIsInstalled'
        BY <1>12 DEF HealthOK
    <2>3. QED BY <2>1, <2>2
<1>13. CASE HealthFails(h)
    <2>1. Here'
        BY <1>13 DEF HealthFails
    <2>2. RecordedIsInstalled'
        BY <1>13 DEF HealthFails
    <2>3. QED BY <2>1, <2>2
<1>14. CASE Save(h)
    <2>1. Here'
        BY <1>14 DEF Save
    <2>2. RecordedIsInstalled'
        BY <1>14 DEF Save
    <2>3. QED BY <2>1, <2>2
<1>15. CASE FileError(h)
    <2>1. Here'
        BY <1>15 DEF FileError, ErrorCode
    <2>2. RecordedIsInstalled'
        BY <1>15 DEF FileError, ErrorCode
    <2>3. QED BY <2>1, <2>2
<1>16. CASE Ack(h)
    <2>1. Here'
        BY <1>16 DEF Ack
    <2>2. RecordedIsInstalled'
        BY <1>16 DEF Ack
    <2>3. QED BY <2>1, <2>2
<1>17. QED
    BY <1>1, <1>2, <1>3, <1>4, <1>5, <1>6, <1>7, <1>8, <1>9, <1>10, <1>11, <1>12, <1>13, <1>14, <1>15, <1>16 DEF ApplyStep

LEMMA EnvironmentOne ==
    ASSUME OneHandlerInv, TypeInv', GatewayStep \/ Crash
    PROVE  OneHandlerInv'
<1>1. CASE GatewayServes \/ GatewayDies
    BY <1>1 DEF GatewayServes, GatewayDies, OneHandlerInv, TypeInv, TypeOK, TargetInv, StepInv,
        SuccessIsInstalled, Succeeded, RecordedIsInstalled, FailedStaysRetryable, URLInstalled,
        JSONInstalled, applyVars
<1>2. CASE GatewayStarts
    BY <1>2 DEF GatewayStarts, Started, OneHandlerInv, TypeInv, TypeOK, TargetInv, StepInv,
        SuccessIsInstalled, Succeeded, RecordedIsInstalled, FailedStaysRetryable, URLInstalled,
        JSONInstalled, applyVars
<1>3. CASE Crash
    BY <1>3 DEF Crash, NoCalls, OneHandlerInv, TypeInv, TypeOK, TargetInv, StepInv,
        SuccessIsInstalled, Succeeded, RecordedIsInstalled, FailedStaysRetryable
<1>4. QED BY <1>1, <1>2, <1>3 DEF GatewayStep

\* calls of Apply do not overlap, whoever makes the next one
Apart == \A g, h \in Handlers : step[g] # "idle" /\ step[h] # "idle" => g = h

LEMMA NextOne == Apart /\ Apart' /\ OneHandlerInv /\ [Next]_vars => OneHandlerInv'
<1> SUFFICES ASSUME Apart, Apart', OneHandlerInv, [Next]_vars PROVE OneHandlerInv'
    OBVIOUS
<1>1. TypeInv' /\ TypeOK
    BY NextType DEF OneHandlerInv, TypeInv
<1>2. ASSUME NEW h \in Handlers,
             (\E v \in Versions : Receive(h, v)) \/ ApplyStep(h) \/ Ack(h)
      PROVE  OneHandlerInv'
    <2>1. step[h] # "idle" \/ step'[h] # "idle"
        BY <1>1, <1>2, HandlerInside
    <2>2. \A g \in Handlers : g # h => step'[g] = step[g]
        BY <1>1, <1>2, HandlerFrame
    <2>3. Alone(h)
        BY <2>1, <2>2 DEF Apart, Alone
    <2>4. QED BY <1>1, <1>2, <2>3, HandlerOne
<1>3. CASE GatewayStep \/ Crash
    BY <1>1, <1>3, EnvironmentOne
<1>4. CASE UNCHANGED vars
    BY <1>1, <1>4 DEF vars, OneHandlerInv, StepInv, SuccessIsInstalled, Succeeded,
        RecordedIsInstalled, FailedStaysRetryable, URLInstalled, JSONInstalled
<1>5. QED BY <1>2, <1>3, <1>4 DEF Next

LEMMA OneInv == OneHandler => (Spec => []OneHandlerInv)
<1> SUFFICES ASSUME OneHandler PROVE Spec => []OneHandlerInv
    OBVIOUS
<1>1. OneHandlerInv /\ [Next]_vars => OneHandlerInv'
    BY NextOne DEF OneHandler, Apart
<1>2. QED BY InitOne, <1>1, PTL DEF Spec

\* While calls of Apply do not overlap, a success acknowledgement means that the
\* version is recorded, installed in every file and loaded by the gateway.
THEOREM AckIsSound == OneHandler => (Spec => []SuccessIsInstalled)
<1>1. OneHandlerInv => SuccessIsInstalled
    BY DEF OneHandlerInv
<1>2. QED BY OneInv, <1>1, PTL

\* The files are never older than the recorded version, whatever failed or
\* crashed, so a redelivered version is "ignored" only when it is in place.
THEOREM FilesFollowVersion == OneHandler => (Spec => []RecordedIsInstalled)
<1>1. OneHandlerInv => RecordedIsInstalled
    BY DEF OneHandlerInv
<1>2. QED BY OneInv, <1>1, PTL

\* Without an address in the environment the next dial uses the address of the
\* recorded version or of a newer one, also after a crash: daemon.json has it.
THEOREM AddressSurvives == OneHandler /\ EnvURL = NoURL => (Spec => []AddressInUse)
<1> SUFFICES ASSUME OneHandler, EnvURL = NoURL PROVE Spec => []AddressInUse
    OBVIOUS
<1>1. Init => AddressInv
    BY DEF Init, AddressInv, AddressInUse
<1>2. OneHandlerInv /\ AddressInv /\ [Next]_vars => AddressInv'
    <2> SUFFICES ASSUME OneHandlerInv, AddressInv, [Next]_vars PROVE AddressInv'
        OBVIOUS
    <2>t. TypeOK /\ \A g \in Handlers : TargetInv(g) /\ StepInv(g)
        BY DEF OneHandlerInv, TypeInv
    <2>1. ASSUME NEW h \in Handlers,
                 (\E v \in Versions : Receive(h, v)) \/ ApplyStep(h) \/ Ack(h)
          PROVE  AddressInv'
        <3>h. \A g \in Handlers : g = h
            BY DEF OneHandler
        <3> USE <2>t, <3>h DEF AddressInv, AddressInUse, TypeOK, TargetInv, StepInv, Goto, Finish,
                               applyVars, sharedVars
        <3>1. CASE SetURL(h)
            <4>1. req[h] \in Versions /\ req[h] >= stateFile.ver /\ memURL' = URLOf[req[h]]
                BY <3>1, VersionsAreNat, GreaterIsAtLeast DEF SetURL
            <4>2. QED BY <3>1, <4>1 DEF SetURL
        <3>2. CASE Save(h)
            <4>1. req[h] \in Versions /\ req[h] >= req[h] /\ stateFile'.ver = req[h]
                BY <3>2, VersionsAreNat, GreaterIsAtLeast DEF Save
            <4>2. URLOf[req[h]] # NoURL => memURL = URLOf[req[h]]
                BY <3>2 DEF Save
            <4>3. QED BY <3>2, <4>1, <4>2 DEF Save
        <3>3. CASE ~SetURL(h) /\ ~Save(h)
            <4>1. UNCHANGED <<memURL, stateFile>>
                BY <2>1, <3>3 DEF ApplyStep, Receive, LoadState, MakeWorkDir, SnapshotURL, WriteURL,
                    WriteEnv, ReadJSON, ReadJSONFails, WriteJSON, Restart, RestartFails, HealthOK,
                    HealthFails, FileError, Ack
            <4>2. step'[h] \in {"persist", "writeURL"} \cup AfterURL /\ URLOf[req'[h]] # NoURL
                     => /\ step[h] \in {"persist", "writeURL"} \cup AfterURL
                        /\ req'[h] = req[h]
                BY <2>1, <3>3 DEF ApplyStep, Receive, LoadState, MakeWorkDir, SnapshotURL, WriteURL,
                    WriteEnv, ReadJSON, ReadJSONFails, WriteJSON, Restart, RestartFails, HealthOK,
                    HealthFails, FileError, Ack
            <4>3. QED BY <4>1, <4>2
        <3>4. QED BY <3>1, <3>2, <3>3
    <2>2. CASE GatewayStep
        BY <2>2 DEF GatewayStep, GatewayServes, GatewayDies, GatewayStarts, applyVars, AddressInv,
            AddressInUse
    <2>3. CASE Crash
        BY <2>3, <2>t DEF Crash, NoCalls, AddressInv, AddressInUse, OneHandlerInv, RecordedIsInstalled, TypeOK
    <2>4. CASE UNCHANGED vars
        BY <2>4 DEF vars, AddressInv, AddressInUse
    <2>5. QED BY <2>1, <2>2, <2>3, <2>4 DEF Next
<1>3. AddressInv => AddressInUse
    BY DEF AddressInv
<1>4. QED BY OneInv, <1>1, <1>2, <1>3, PTL DEF Spec

\* A failed configuration is still newer than the recorded one.
THEOREM FailureIsRetryable == OneHandler => (Spec => []FailedStaysRetryable)
<1>1. OneHandlerInv => FailedStaysRetryable
    BY DEF OneHandlerInv
<1>2. QED BY OneInv, <1>1, PTL

\* No step takes the recorded version back: only Save changes it.
LEMMA VersionRises == OneHandlerInv /\ [Next]_vars => stateFile'.ver >= stateFile.ver
<1> SUFFICES ASSUME OneHandlerInv, [Next]_vars PROVE stateFile'.ver >= stateFile.ver
    OBVIOUS
<1>0. stateFile.ver \in Nat /\ stateFile.ver >= stateFile.ver
    BY VersionsAreNat, GreaterIsAtLeast DEF OneHandlerInv, TypeInv
<1>1. CASE \E h \in Handlers : Save(h)
    <2>1. PICK h \in Handlers : Save(h)
        BY <1>1
    <2>2. req[h] \in Nat /\ req[h] > stateFile.ver
        BY <2>1, VersionsAssumption DEF Save, OneHandlerInv, TypeInv, TypeOK, StepInv
    <2>3. stateFile'.ver = req[h]
        BY <2>1 DEF Save, OneHandlerInv, TypeInv, TypeOK
    <2>4. QED BY <1>0, <2>2, <2>3
<1>2. CASE ~ \E h \in Handlers : Save(h)
    <2>1. UNCHANGED stateFile
        BY <1>2 DEF Next, ApplyStep, GatewayStep, Receive, LoadState, MakeWorkDir, SetURL,
            SnapshotURL, WriteURL, WriteEnv, ReadJSON, ReadJSONFails, WriteJSON, Restart, RestartFails,
            HealthOK, HealthFails, FileError, Ack, GatewayServes, GatewayDies,
            GatewayStarts, Crash, sharedVars, vars
    <2>2. QED BY <1>0, <2>1
<1>3. QED BY <1>1, <1>2

\* The recorded version never goes back.
THEOREM VersionMonotone == OneHandler => (Spec => VersionNeverFalls)
<1> SUFFICES ASSUME OneHandler PROVE Spec => VersionNeverFalls
    OBVIOUS
<1>1. OneHandlerInv /\ [Next]_vars => [stateFile'.ver >= stateFile.ver]_vars
    BY VersionRises
<1>2. QED BY OneInv, <1>1, PTL DEF Spec, VersionNeverFalls

\* An Apply that reports success raised the recorded version: no version is
\* applied twice.
THEOREM ApplyIsIdempotent == OneHandler => (Spec => SuccessIsNew)
<1> SUFFICES ASSUME OneHandler PROVE Spec => SuccessIsNew
    OBVIOUS
<1> DEFINE New == \A h \in Handlers : ~Succeeded(h) /\ Succeeded(h)' => stateFile.ver < req[h]
<1>1. OneHandlerInv /\ [Next]_vars => [New]_vars
    <2> SUFFICES ASSUME OneHandlerInv, Next, NEW h \in Handlers, ~Succeeded(h), Succeeded(h)'
                 PROVE  stateFile.ver < req[h]
        OBVIOUS
    <2> USE VersionsAssumption DEF OneHandlerInv, TypeInv, TypeOK, StepInv, Succeeded, Goto, Finish
    <2>1. PICK g \in Handlers : (\E v \in Versions : Receive(g, v)) \/ ApplyStep(g) \/ Ack(g)
        BY DEF Next, GatewayStep, GatewayServes, GatewayDies, GatewayStarts, Crash, NoCalls, applyVars
    <2>2. CASE Save(g)
        BY <2>2 DEF Save, TargetInv
    <2>3. CASE ~Save(g)
        BY <2>1, <2>3 DEF ApplyStep, Receive, LoadState, MakeWorkDir, SetURL,
            SnapshotURL, WriteURL, WriteEnv, ReadJSON, ReadJSONFails, WriteJSON, Restart, RestartFails,
            HealthOK, HealthFails, FileError, ErrorCode, Ack
    <2>4. QED BY <2>2, <2>3
<1>2. QED BY OneInv, <1>1, PTL DEF Spec, SuccessIsNew

----------------------------------------------------------------------------
(* Apply implements the register of versions. *)

\* Every step of Apply is a step of the register, or none: LoadState may answer
\* "ignored", Save answers "success", an error "failed".
LEMMA HandlerImplements ==
    ASSUME OneHandlerInv, NEW h \in Handlers,
           (\E v \in Versions : Receive(h, v)) \/ ApplyStep(h) \/ Ack(h)
    PROVE  [Register!Next]_(Register!vars)
<1>t. TypeOK
    BY DEF OneHandlerInv, TypeInv
<1> USE <1>t DEF TypeOK, Goto, Finish, sharedVars
<1>1. CASE \E v \in Versions : Receive(h, v)
    <2>1. PICK v \in Versions : Receive(h, v)
        BY <1>1
    <2>2. Register!Request(h, v)
        BY <2>1 DEF Receive, Register!Request
    <2>3. QED BY <2>2 DEF Register!Next
<1>2. CASE LoadState(h)
    <2>1. CASE IsNewer(req[h], stateFile)
        BY <1>2, <2>1 DEF LoadState, Register!vars
    <2>2. CASE ~IsNewer(req[h], stateFile)
        <3>1. req[h] <= stateFile.ver
            BY <2>2, VersionsAreNat DEF IsNewer
        <3>2. Register!Ignore(h)
            BY <1>2, <2>2, <3>1 DEF LoadState, Register!Ignore, Register!Answer
        <3>3. QED BY <3>2 DEF Register!Next
    <2>3. QED BY <2>1, <2>2
<1>3. CASE MakeWorkDir(h) \/ SetURL(h) \/ SnapshotURL(h) \/ WriteURL(h)
    BY <1>3 DEF MakeWorkDir, SetURL, SnapshotURL, WriteURL, Register!vars
<1>4. CASE WriteEnv(h) \/ ReadJSON(h) \/ ReadJSONFails(h) \/ WriteJSON(h)
    BY <1>4 DEF WriteEnv, ReadJSON, ReadJSONFails, WriteJSON, Register!vars
<1>5. CASE Restart(h) \/ HealthOK(h)
    BY <1>5 DEF Restart, HealthOK, Register!vars
<1>6. CASE RestartFails(h) \/ HealthFails(h)
    <2>1. PICK code \in Codes : Finish(h, code) /\ step[h] \in {"restart", "health"}
        BY <1>6 DEF RestartFails, HealthFails
    <2>2. UNCHANGED <<stateFile, req>>
        BY <1>6 DEF RestartFails, HealthFails
    <2>3. Register!Fail(h)
        BY <2>1, <2>2 DEF Register!Fail, Register!Answer
    <2>4. QED BY <2>3 DEF Register!Next
<1>7. CASE FileError(h)
    <2>1. Register!Fail(h)
        BY <1>7 DEF FileError, ErrorCode, Register!Fail, Register!Answer
    <2>2. QED BY <2>1 DEF Register!Next
<1>8. CASE Save(h)
    <2>1. req[h] > stateFile.ver
        BY <1>8 DEF Save, OneHandlerInv, StepInv
    <2>2. Register!Raise(h)
        BY <1>8, <2>1 DEF Save, Register!Raise, Register!Answer
    <2>3. QED BY <2>2 DEF Register!Next
<1>9. CASE Ack(h)
    <2>1. Register!Return(h)
        BY <1>9 DEF Ack, Register!Return
    <2>2. QED BY <2>1 DEF Register!Next
<1>10. QED
    BY <1>1, <1>2, <1>3, <1>4, <1>5, <1>6, <1>7, <1>8, <1>9 DEF ApplyStep

\* Every step of handlers that take turns is a step of the register, or none.
LEMMA RegisterStep == OneHandlerInv /\ [Next]_vars => [Register!Next]_(Register!vars)
<1> SUFFICES ASSUME OneHandlerInv, [Next]_vars PROVE [Register!Next]_(Register!vars)
    OBVIOUS
<1>1. CASE \E h \in Handlers : (\E v \in Versions : Receive(h, v)) \/ ApplyStep(h) \/ Ack(h)
    BY <1>1, HandlerImplements
<1>2. CASE GatewayStep
    BY <1>2 DEF GatewayStep, GatewayServes, GatewayDies, GatewayStarts, applyVars, Register!vars
<1>3. CASE Crash
    <2>1. Register!Crash
        BY <1>3 DEF Crash, NoCalls, Register!Crash
    <2>2. QED BY <2>1 DEF Register!Next
<1>4. CASE UNCHANGED vars
    BY <1>4 DEF vars, Register!vars
<1> QED BY <1>1, <1>2, <1>3, <1>4 DEF Next

\* While calls of Apply do not overlap, they implement the register of versions:
\* the version rises exactly when "success" is answered, and "ignored", a failure
\* or a crash takes nothing.
THEOREM ApplyIsARegister == OneHandler => (Spec => ImplementsRegister)
<1> SUFFICES ASSUME OneHandler PROVE Spec => ImplementsRegister
    OBVIOUS
<1>1. Init => Register!Init
    BY DEF Init, Register!Init
<1> QED BY OneInv, <1>1, RegisterStep, PTL DEF Spec, ImplementsRegister, Register!Spec
----------------------------------------------------------------------------
(* Placeholders, for any number of handlers.                                  *)

\* a .env that Apply writes sets whatever openclaw.json may refer to
LEMMA EnvCarries ==
    ASSUME KeysCarried, NEW v \in Versions, v # 0, NEW refs, CarriedRefs(refs)
    PROVE  Resolves(v, refs)
BY DEF KeysCarried, CarriedRefs, Resolves, EnvKeys

\* merging a config adds no other reference
LEMMA MergeCarries ==
    ASSUME KeysCarried, NEW v \in Versions, NEW base, CarriedRefs(base.refs)
    PROVE  CarriedRefs(MergedJSON(v, base).refs)
<1>1. CarriedRefs(MergedRefs(v, base.refs))
    BY DEF KeysCarried, CarriedRefs, MergedRefs
<1>2. QED BY <1>1 DEF MergedJSON

LEMMA EmptyCarries == CarriedRefs(EmptyJSON.refs) /\ (KeysCarried => CarriedRefs(BootJSON.refs))
BY DEF CarriedRefs, EmptyJSON, BootJSON, KeysCarried

LEMMA BootResolves == Resolves(0, BootJSON.refs)
BY KeyAssumption DEF Resolves, BootJSON, EnvKeys

LEMMA InitKeys == KeysCarried /\ Init => KeysInv
BY EmptyCarries, BootResolves DEF Init, KeysInv

\* Every step of a handler keeps the invariant, whatever the others do: WriteEnv
\* and WriteJSON are the ones that matter.
LEMMA HandlerKeys ==
    ASSUME KeysCarried, TypeInv, KeysInv, NEW h \in Handlers,
           (\E v \in Versions : Receive(h, v)) \/ ApplyStep(h) \/ Ack(h)
    PROVE  KeysInv'
<1> USE DEF TypeInv, TypeOK, TargetInv, KeysInv, Goto, Finish, sharedVars
<1>1. CASE \E v \in Versions : Receive(h, v)
    BY <1>1 DEF Receive
<1>2. CASE LoadState(h)
    <2>1. IsNewer(req[h], stateFile) => req[h] # 0
        BY VersionsAreNat DEF IsNewer
    <2>2. QED BY <1>2, <2>1 DEF LoadState
<1>3. CASE MakeWorkDir(h) \/ SetURL(h) \/ SnapshotURL(h) \/ WriteURL(h)
    BY <1>3 DEF MakeWorkDir, SetURL, SnapshotURL, WriteURL
<1>4. CASE WriteEnv(h)
    <2>1. envFile' = req[h] /\ req[h] \in Versions /\ req[h] # 0 /\ UNCHANGED <<jsonFile, gw>>
        BY <1>4 DEF WriteEnv
    <2>2. Resolves(envFile', jsonFile.refs)
        BY <2>1, EnvCarries
    <2>3. Resolves(envFile, jsonFile.refs)'
        BY <2>1, <2>2 DEF Resolves, EnvKeys
    <2>4. QED BY <1>4, <2>1, <2>3 DEF WriteEnv, Resolves
<1>5. CASE ReadJSON(h) \/ ReadJSONFails(h)
    BY <1>5, EmptyCarries DEF ReadJSON, ReadJSONFails
<1>6. CASE WriteJSON(h)
    <2>1. /\ jsonFile' = MergedJSON(req[h], jsonRead[h])
          /\ req[h] \in Versions /\ envFile # 0 /\ envFile \in Versions
          /\ UNCHANGED <<envFile, gw>>
        BY <1>6 DEF WriteJSON
    <2>2. CarriedRefs(jsonFile'.refs)
        BY <2>1, MergeCarries
    <2>3. Resolves(envFile', jsonFile'.refs)
        BY <2>1, <2>2, EnvCarries
    <2>4. Resolves(envFile, jsonFile.refs)' /\ Resolves(gw.env, gw.json.refs)'
        BY <2>1, <2>3 DEF Resolves
    <2>5. \A g \in Handlers : CarriedRefs(jsonRead[g].refs)'
        BY <1>6, EmptyCarries DEF WriteJSON
    <2>6. QED BY <1>6, <2>1, <2>2, <2>4, <2>5 DEF WriteJSON, CarriedRefs
<1>7. CASE Restart(h) \/ RestartFails(h)
    <2>1. gw' \in {gw, Started, [gw EXCEPT !.st = "down"]}
        BY <1>7 DEF Restart, RestartFails
    <2>2. Resolves(gw'.env, gw'.json.refs)
        <3>1. CASE gw' = Started
            BY <3>1 DEF Started
        <3>2. CASE gw' # Started
            <4>1. gw'.env = gw.env /\ gw'.json = gw.json
                BY <2>1, <3>2
            <4>2. QED BY <4>1
        <3>3. QED BY <3>1, <3>2
    <2>3. UNCHANGED <<jsonFile, jsonRead, envFile, req>>
        BY <1>7 DEF Restart, RestartFails
    <2>4. Resolves(gw.env, gw.json.refs)' /\ Resolves(envFile, jsonFile.refs)'
        BY <2>2, <2>3 DEF Resolves
    <2>5. QED BY <1>7, <2>3, <2>4 DEF Restart, RestartFails
<1>8. CASE HealthOK(h) \/ HealthFails(h) \/ FileError(h)
    BY <1>8 DEF HealthOK, HealthFails, FileError, ErrorCode
<1>9. CASE Save(h)
    BY <1>9 DEF Save
<1>10. CASE Ack(h)
    BY <1>10, EmptyCarries DEF Ack
<1>11. QED
    BY <1>1, <1>2, <1>3, <1>4, <1>5, <1>6, <1>7, <1>8, <1>9, <1>10 DEF ApplyStep

\* The gateway starts with the files of one moment, and a crash leaves them.
LEMMA EnvironmentKeys ==
    ASSUME KeysInv, TypeInv, GatewayStep \/ Crash
    PROVE  KeysInv'
<1>1. UNCHANGED <<envFile, jsonFile>>
    BY DEF GatewayStep, GatewayServes, GatewayDies, GatewayStarts, Crash
<1>2. gw' \in {gw, Started, [gw EXCEPT !.st = "down"], [gw EXCEPT !.st = "up"]}
    BY DEF GatewayStep, GatewayServes, GatewayDies, GatewayStarts, Crash
<1>3. Resolves(gw'.env, gw'.json.refs)
    BY <1>2 DEF Started, KeysInv, TypeInv, TypeOK
<1>4. Resolves(gw.env, gw.json.refs)' /\ Resolves(envFile, jsonFile.refs)' /\ CarriedRefs(jsonFile.refs)'
    BY <1>1, <1>3 DEF Resolves, CarriedRefs, KeysInv
<1>5. ASSUME NEW h \in Handlers
      PROVE  /\ CarriedRefs(jsonRead[h].refs)'
             /\ (step[h] \in AfterCheck => req[h] # 0)'
             /\ (step[h] \in AfterEnv => envFile # 0)'
    <2>1. CASE GatewayStep
        BY <2>1, <1>1 DEF GatewayStep, GatewayServes, GatewayDies, GatewayStarts, applyVars, KeysInv, CarriedRefs
    <2>2. CASE Crash
        BY <2>2, EmptyCarries DEF Crash, NoCalls, CarriedRefs
    <2>3. QED BY <2>1, <2>2
<1>6. QED BY <1>4, <1>5 DEF KeysInv

\* Whatever overlaps, fails or crashes, the files never keep the gateway from
\* starting, if every config carries API_KEY and the gateway's token.
THEOREM GatewayCanStart == Spec => []PlaceholdersResolve
<1>1. CASE ~KeysCarried
    <2>1. PlaceholdersResolve
        BY <1>1 DEF PlaceholdersResolve
    <2>2. QED BY <2>1, PTL
<1>2. CASE KeysCarried
    <2>1. Init => KeysInv
        BY <1>2, InitKeys
    <2>2. TypeInv /\ KeysInv /\ [Next]_vars => KeysInv'
        <3> SUFFICES ASSUME TypeInv, KeysInv, [Next]_vars PROVE KeysInv'
            OBVIOUS
        <3>1. CASE Next
            BY <1>2, <3>1, HandlerKeys, EnvironmentKeys DEF Next
        <3>2. CASE UNCHANGED vars
            BY <3>2 DEF vars, KeysInv, CarriedRefs, Resolves
        <3>3. QED BY <3>1, <3>2
    <2>3. KeysInv => PlaceholdersResolve
        BY DEF KeysInv, PlaceholdersResolve
    <2>4. QED BY InitType, NextType, <2>1, <2>2, <2>3, PTL DEF Spec
<1>3. QED BY <1>1, <1>2
=============================================================================

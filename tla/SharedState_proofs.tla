------------------------- MODULE SharedState_proofs -------------------------
(***************************************************************************)
(* The properties of SharedState, for any number of readers, configurations *)
(* and identities.  A step of one reader reaches the others only through    *)
(* the state file, and a save that another reader does not expect is what   *)
(* saves remembers; so each reader's part of FileInv needs the file and the *)
(* reader itself alone.                                                     *)
(***************************************************************************)
EXTENDS SharedState, TLAPS

\* Nothing is loaded, held or presented at the start.
LEMMA InitInv == Init => FileInv
BY DEF Init, FileInv, FileTypes, InOneHandler, DeviceHolds, ConfigHolds, TurnHolds,
       GH!Init, GH!NoTurn, GH!Turns, GH!Ats, GH!EmptyState, GH!NoDevice, GH!States, GH!Devices,
       CM!Init, CM!Steps, CM!FileVersions, CM!States, CM!EmptyState, CM!AfterCheck

\* What a step of Apply, or of its caller, means to the state file: it leaves the
\* file alone and carries the State it loaded, or loads it, or saves it.
LEMMA ConfigStepEffect ==
    ASSUME FileTypes, NEW r \in Readers,
           (\E v \in Versions : CM!Receive(r, v)) \/ CM!ApplyStep(r) \/ CM!Ack(r)
    PROVE  /\ step' \in [Readers -> CM!Steps]
           /\ req' \in [Readers -> CM!FileVersions]
           /\ loaded' \in [Readers -> CM!States]
           /\ \A q \in Readers \ {r} :
                step'[q] = step[q] /\ loaded'[q] = loaded[q] /\ req'[q] = req[q]
           /\ \/ /\ stateFile' = stateFile
                 /\ step'[r] \in CM!AfterCheck =>
                      \/ step[r] \in CM!AfterCheck /\ loaded'[r] = loaded[r] /\ req'[r] = req[r]
                      \/ loaded'[r] = stateFile /\ req'[r] > stateFile.ver
              \/ /\ stateFile' = [loaded[r] EXCEPT !.ver = req[r]]
                 /\ step[r] \in CM!AfterCheck /\ step'[r] \notin CM!AfterCheck
<1> USE DEF FileTypes, CM!Goto, CM!Steps, CM!Fallible, CM!AfterCheck
<1>0. GH!States = CM!States
  BY DEF GH!States, CM!States, CM!FileVersions
<1>1. CASE \E v \in Versions : CM!Receive(r, v)
  BY <1>1 DEF CM!Receive, CM!FileVersions, CM!sharedVars
<1>2. CASE CM!Ack(r)
  BY <1>2 DEF CM!Ack, CM!FileVersions, CM!States, CM!EmptyState, CM!sharedVars, GH!NoDevice, GH!Devices
<1>3. CASE CM!LoadState(r)
  BY <1>3, <1>0 DEF CM!LoadState, CM!IsNewer, CM!Finish, CM!sharedVars
<1>4. CASE CM!Save(r)
  BY <1>4 DEF CM!Save, CM!Finish
<1>5. CASE CM!MakeWorkDir(r) \/ CM!SetURL(r) \/ CM!SnapshotURL(r) \/ CM!WriteURL(r) \/ CM!WriteEnv(r)
  BY <1>5 DEF CM!MakeWorkDir, CM!SetURL, CM!SnapshotURL, CM!WriteURL, CM!WriteEnv, CM!sharedVars
<1>6. CASE CM!ReadJSON(r) \/ CM!ReadJSONFails(r) \/ CM!WriteJSON(r)
  BY <1>6 DEF CM!ReadJSON, CM!ReadJSONFails, CM!WriteJSON, CM!sharedVars
<1>7. CASE CM!Restart(r) \/ CM!RestartFails(r) \/ CM!HealthOK(r) \/ CM!HealthFails(r)
  BY <1>7 DEF CM!Restart, CM!RestartFails, CM!HealthOK, CM!HealthFails, CM!Finish, CM!sharedVars
<1>8. CASE CM!FileError(r)
  BY <1>8 DEF CM!FileError, CM!Finish, CM!sharedVars
<1> QED BY <1>1, <1>2, <1>3, <1>4, <1>5, <1>6, <1>7, <1>8 DEF CM!ApplyStep

\* A turn that moves on, or changes as a whole, stays a turn and is the only one.
LEMMA GotoTypes ==
    ASSUME turn \in [Readers -> GH!Turns], NEW r \in Readers, NEW place \in GH!Ats, GH!Goto(r, place)
    PROVE  /\ turn' \in [Readers -> GH!Turns]
           /\ turn'[r] = [turn[r] EXCEPT !.at = place]
           /\ \A q \in Readers \ {r} : turn'[q] = turn[q]
BY DEF GH!Goto, GH!Turns

LEMMA BecomeTypes ==
    ASSUME turn \in [Readers -> GH!Turns], NEW r \in Readers, NEW record \in GH!Turns, GH!Become(r, record)
    PROVE  /\ turn' \in [Readers -> GH!Turns]
           /\ turn'[r] = record
           /\ \A q \in Readers \ {r} : turn'[q] = turn[q]
BY DEF GH!Become

\* What a step of a turn means to the types and to the other readers.
LEMMA TurnStepEffect ==
    ASSUME FileTypes, NEW r \in Readers, GH!StartTurn(r) \/ GH!TurnStep(r)
    PROVE  /\ turn' \in [Readers -> GH!Turns]
           /\ stateFile' \in GH!States
           /\ \A q \in Readers \ {r} : turn'[q] = turn[q]
<1>0. /\ turn \in [Readers -> GH!Turns] /\ turn[r] \in GH!Turns /\ stateFile \in GH!States
  BY DEF FileTypes
<1>1. CASE GH!StartTurn(r) \/ GH!SendConnect(r) \/ GH!Connected(r) \/ GH!HelloOK(r) \/ GH!TokenNotKept(r)
  <2>1. stateFile' = stateFile /\ \E place \in GH!Ats : GH!Goto(r, place)
    BY <1>1 DEF GH!StartTurn, GH!SendConnect, GH!Connected, GH!HelloOK, GH!TokenNotKept, GH!Ats
  <2> QED BY <1>0, <2>1, GotoTypes
<1>2. CASE GH!ResolveAuth(r)
  <2>1. PICK token \in {stateFile.device.token, None} :
          GH!Become(r, [turn[r] EXCEPT !.at = "identity", !.auth = token])
    BY <1>2 DEF GH!ResolveAuth
  <2>2. [turn[r] EXCEPT !.at = "identity", !.auth = token] \in GH!Turns
    BY <1>0 DEF GH!Turns, GH!Ats, GH!States, GH!Devices
  <2> QED BY <1>0, <1>2, <2>1, <2>2, BecomeTypes DEF GH!ResolveAuth
<1>3. CASE GH!LoadIdentity(r)
  <2>1. \E record \in GH!Turns : GH!Become(r, record)
    <3>1. CASE stateFile.device.ident # None
      <4>1. [turn[r] EXCEPT !.at = "dial", !.ident = stateFile.device.ident] \in GH!Turns
        BY <1>0 DEF GH!Turns, GH!Ats, GH!States, GH!Devices
      <4> QED BY <1>3, <3>1, <4>1 DEF GH!LoadIdentity
    <3>2. CASE stateFile.device.ident = None
      <4>1. PICK fresh \in Identities :
              GH!Become(r, [turn[r] EXCEPT !.at = "saveIdentity", !.ident = fresh, !.held = stateFile])
        BY <1>3, <3>2 DEF GH!LoadIdentity
      <4>2. [turn[r] EXCEPT !.at = "saveIdentity", !.ident = fresh, !.held = stateFile] \in GH!Turns
        BY <1>0 DEF GH!Turns, GH!Ats
      <4> QED BY <4>1, <4>2
    <3> QED BY <3>1, <3>2
  <2> QED BY <1>0, <1>3, <2>1, BecomeTypes DEF GH!LoadIdentity
<1>4. CASE GH!SaveIdentity(r)
  <2>1. GH!Goto(r, "dial") /\ stateFile' = [turn[r].held EXCEPT !.device.ident = turn[r].ident]
    BY <1>4 DEF GH!SaveIdentity
  <2>2. stateFile' \in GH!States
    BY <1>0, <2>1 DEF GH!Turns, GH!States, GH!Devices
  <2> QED BY <1>0, <2>1, <2>2, GotoTypes DEF GH!Ats
<1>5. CASE GH!LoadForToken(r)
  <2>1. [turn[r] EXCEPT !.at = "saveToken", !.held = stateFile] \in GH!Turns
    BY <1>0 DEF GH!Turns, GH!Ats
  <2> QED BY <1>0, <1>5, <2>1, BecomeTypes DEF GH!LoadForToken
<1>6. CASE GH!SaveToken(r)
  <2>1. GH!Goto(r, "open") /\ stateFile' = [turn[r].held EXCEPT !.device.token = turn[r].ident]
    BY <1>6 DEF GH!SaveToken
  <2>2. stateFile' \in GH!States
    BY <1>0, <2>1 DEF GH!Turns, GH!States, GH!Devices
  <2> QED BY <1>0, <2>1, <2>2, GotoTypes DEF GH!Ats
<1>7. CASE GH!EndTurn(r)
  <2>1. GH!NoTurn \in GH!Turns
    BY DEF GH!NoTurn, GH!Turns, GH!Ats, GH!EmptyState, GH!NoDevice, GH!States, GH!Devices
  <2> QED BY <1>0, <1>7, <2>1, BecomeTypes DEF GH!EndTurn
<1> QED BY <1>1, <1>2, <1>3, <1>4, <1>5, <1>6, <1>7 DEF GH!TurnStep

\* What is known of a reader that does not move stays true, if the file stays, or
\* if the reader is not about to save and the identity, once there, stays.
LEMMA OthersHold ==
    ASSUME NEW q \in Readers, ConfigHolds(q), TurnHolds(q),
           step'[q] = step[q], req'[q] = req[q], loaded'[q] = loaded[q], turn'[q] = turn[q],
           \/ stateFile' = stateFile
           \/ /\ ~HoldsState(q)
              /\ stateFile.device.ident # None => stateFile'.device.ident = stateFile.device.ident
    PROVE  ConfigHolds(q)' /\ TurnHolds(q)'
<1>1. CASE stateFile' = stateFile
  BY <1>1 DEF ConfigHolds, TurnHolds
<1>2. CASE stateFile' # stateFile
  BY <1>2 DEF ConfigHolds, TurnHolds, HoldsState
<1> QED BY <1>1, <1>2

\* While saves do not race, a step of Apply changes the version in the file alone,
\* and to a newer one.
LEMMA ConfigStepSaves ==
    ASSUME FileInv, saves = "apart", NEW r \in Readers,
           (\E v \in Versions : CM!Receive(r, v)) \/ CM!ApplyStep(r) \/ CM!Ack(r)
    PROVE  /\ stateFile' \in GH!States
           /\ stateFile'.device = stateFile.device
           /\ stateFile'.ver >= stateFile.ver
           /\ ConfigHolds(r)'
<1>1. FileTypes /\ ConfigHolds(r)
  BY DEF FileInv
<1>2. stateFile.ver \in Nat /\ req[r] \in Nat /\ req[r] \in Versions \cup {0}
  <2>1. stateFile.ver \in Versions \cup {0}
    BY <1>1 DEF FileTypes, GH!States
  <2>2. req[r] \in Versions \cup {0}
    BY <1>1 DEF FileTypes, CM!FileVersions
  <2>3. \A v \in Versions \cup {0} : v \in Nat
    BY VersionsAssumption
  <2> QED BY <2>1, <2>2, <2>3
<1>3. CASE stateFile' = stateFile
  BY <1>1, <1>2, <1>3, ConfigStepEffect DEF ConfigHolds, FileTypes
<1>4. CASE stateFile' # stateFile
  <2>1. /\ stateFile' = [loaded[r] EXCEPT !.ver = req[r]]
        /\ step[r] \in CM!AfterCheck /\ step'[r] \notin CM!AfterCheck
    BY <1>1, <1>4, ConfigStepEffect
  <2>2. loaded[r] = stateFile /\ req[r] > stateFile.ver
    BY <1>1, <2>1 DEF ConfigHolds
  <2> QED BY <1>1, <1>2, <2>1, <2>2 DEF ConfigHolds, FileTypes, GH!States
<1> QED BY <1>3, <1>4

\* While saves do not race, a step of a turn leaves the version, adds an identity
\* only where there is none, and stores no token but its identity's.
LEMMA TurnStepSaves ==
    ASSUME FileInv, saves = "apart", NEW r \in Readers,
           GH!StartTurn(r) \/ GH!TurnStep(r)
    PROVE  /\ stateFile'.ver = stateFile.ver
           /\ stateFile.device.ident # None => stateFile'.device.ident = stateFile.device.ident
           /\ stateFile.device.token # None => stateFile'.device.token # None
           /\ DeviceHolds'
           /\ TurnHolds(r)'
<1>0. /\ turn \in [Readers -> GH!Turns] /\ turn[r] \in GH!Turns /\ stateFile \in GH!States
      /\ DeviceHolds /\ TurnHolds(r)
  BY DEF FileInv, FileTypes
<1> USE DEF GH!At, DeviceHolds, TurnHolds
<1>1. CASE GH!StartTurn(r) \/ GH!SendConnect(r) \/ GH!Connected(r) \/ GH!HelloOK(r) \/ GH!TokenNotKept(r)
  BY <1>0, <1>1 DEF GH!StartTurn, GH!SendConnect, GH!Connected, GH!HelloOK, GH!TokenNotKept,
                    GH!Goto, GH!Turns
<1>2. CASE GH!ResolveAuth(r)
  BY <1>0, <1>2 DEF GH!ResolveAuth, GH!Become, GH!Turns
<1>3. CASE GH!LoadIdentity(r)
  <2>1. CASE stateFile.device.ident # None
    <3>1. /\ turn[r].at = "identity" /\ stateFile' = stateFile /\ presented' = presented
          /\ turn'[r] = [turn[r] EXCEPT !.at = "dial", !.ident = stateFile.device.ident]
      BY <1>0, <1>3, <2>1 DEF GH!LoadIdentity, GH!Become
    <3>2. /\ turn'[r].at = "dial" /\ turn'[r].ident = stateFile.device.ident
          /\ turn'[r].auth = turn[r].auth
      BY <1>0, <3>1 DEF GH!Turns
    <3> QED BY <1>0, <2>1, <3>1, <3>2
  <2>2. CASE stateFile.device.ident = None
    <3>1. PICK fresh \in Identities :
            GH!Become(r, [turn[r] EXCEPT !.at = "saveIdentity", !.ident = fresh, !.held = stateFile])
      BY <1>3, <2>2 DEF GH!LoadIdentity
    <3>2. fresh # None /\ stateFile' = stateFile /\ presented' = presented
      BY <1>3, NoneAssumption DEF GH!LoadIdentity
    <3>3. turn'[r] = [turn[r] EXCEPT !.at = "saveIdentity", !.ident = fresh, !.held = stateFile]
      BY <1>0, <3>1 DEF GH!Become
    <3> QED BY <1>0, <1>3, <2>2, <3>2, <3>3 DEF GH!LoadIdentity, GH!Turns
  <2> QED BY <2>1, <2>2
<1>4. CASE GH!SaveIdentity(r)
  <2>1. /\ turn[r].at = "saveIdentity" /\ presented' = presented
        /\ turn'[r] = [turn[r] EXCEPT !.at = "dial"]
        /\ stateFile' = [turn[r].held EXCEPT !.device.ident = turn[r].ident]
    BY <1>0, <1>4 DEF GH!SaveIdentity, GH!Goto
  <2>2. turn[r].held = stateFile /\ stateFile.device.ident = None /\ turn[r].ident # None
    BY <1>0, <2>1
  <2>3. /\ stateFile'.ver = stateFile.ver
        /\ stateFile'.device.ident = turn[r].ident
        /\ stateFile'.device.token = stateFile.device.token
    BY <1>0, <2>1, <2>2 DEF GH!States, GH!Devices
  <2>4. /\ turn'[r].at = "dial" /\ turn'[r].ident = turn[r].ident
        /\ turn'[r].auth = turn[r].auth
    BY <1>0, <2>1 DEF GH!Turns
  <2>5. stateFile.device.token = None /\ turn[r].auth = None /\ presented = {}
    BY <1>0, <2>1, <2>2
  <2> QED BY <2>1, <2>2, <2>3, <2>4, <2>5
<1>5. CASE GH!LoadForToken(r)
  BY <1>0, <1>5 DEF GH!LoadForToken, GH!Become, GH!Turns
<1>6. CASE GH!SaveToken(r)
  <2>1. /\ turn[r].at = "saveToken" /\ presented' = presented
        /\ turn'[r] = [turn[r] EXCEPT !.at = "open"]
        /\ stateFile' = [turn[r].held EXCEPT !.device.token = turn[r].ident]
    BY <1>0, <1>6 DEF GH!SaveToken, GH!Goto
  <2>2. turn[r].held = stateFile /\ stateFile.device.ident # None /\ turn[r].ident = stateFile.device.ident
    BY <1>0, <2>1
  <2>3. /\ stateFile'.ver = stateFile.ver
        /\ stateFile'.device.ident = stateFile.device.ident
        /\ stateFile'.device.token = turn[r].ident
    BY <1>0, <2>1, <2>2 DEF GH!States, GH!Devices
  <2>4. turn'[r].at = "open" /\ turn'[r].ident = turn[r].ident
    BY <1>0, <2>1 DEF GH!Turns
  <2> QED BY <1>0, <2>1, <2>2, <2>3, <2>4
<1>7. CASE GH!EndTurn(r)
  BY <1>0, <1>7 DEF GH!EndTurn, GH!Become, GH!NoTurn
<1> QED BY <1>1, <1>2, <1>3, <1>4, <1>5, <1>6, <1>7 DEF GH!TurnStep
\* What a reader does inside a handler it does in that handler.
LEMMA InsideHandler ==
    ASSUME NEW r \in Readers
    PROVE  /\ CM!ApplyStep(r) \/ CM!Ack(r) => step[r] # "idle"
           /\ GH!TurnStep(r) => turn[r].at # "none"
<1>1. CM!ApplyStep(r) \/ CM!Ack(r) => step[r] # "idle"
  BY DEF CM!ApplyStep, CM!Ack, CM!LoadState, CM!Save, CM!MakeWorkDir, CM!SetURL, CM!SnapshotURL, CM!WriteURL,
         CM!WriteEnv, CM!ReadJSON, CM!ReadJSONFails, CM!WriteJSON, CM!Restart, CM!RestartFails,
         CM!HealthOK, CM!HealthFails, CM!FileError, CM!Fallible
<1>2. GH!TurnStep(r) => turn[r].at # "none"
  BY DEF GH!TurnStep, GH!At, GH!ResolveAuth, GH!LoadIdentity, GH!SaveIdentity, GH!SendConnect,
         GH!Connected, GH!HelloOK, GH!LoadForToken, GH!SaveToken, GH!TokenNotKept, GH!EndTurn
<1> QED BY <1>1, <1>2

\* what NothingStoredIsLost asks of a step
Kept ==
    /\ stateFile'.ver >= stateFile.ver
    /\ stateFile.device.ident # None => stateFile'.device.ident = stateFile.device.ident
    /\ stateFile.device.token # None => stateFile'.device.token # None

\* A reader that takes a configuration, or moves on in Apply, keeps FileInv, and
\* while saves do not race it undoes nothing.
LEMMA ConfigInv ==
    ASSUME FileInv, NEW r \in Readers,
           (\E v \in Versions : HandleConfig(r, v)) \/ ConfigStep(r)
    PROVE  FileInv' /\ (saves' = "apart" => Kept)
<1>1. (\E v \in Versions : CM!Receive(r, v)) \/ CM!ApplyStep(r) \/ CM!Ack(r)
  BY DEF HandleConfig, ConfigStep
<1>2. turn' = turn /\ presented' = presented
  BY DEF HandleConfig, ConfigStep, turnVars
<1>3. FileTypes
  BY DEF FileInv
<1>4. /\ step' \in [Readers -> CM!Steps]
      /\ req' \in [Readers -> CM!FileVersions]
      /\ loaded' \in [Readers -> CM!States]
      /\ \A q \in Readers \ {r} : step'[q] = step[q] /\ loaded'[q] = loaded[q] /\ req'[q] = req[q]
  BY <1>1, <1>3, ConfigStepEffect
<1>5. stateFile' \in GH!States
  <2>1. CASE stateFile' = stateFile
    BY <1>3, <2>1 DEF FileTypes
  <2>2. CASE stateFile' = [loaded[r] EXCEPT !.ver = req[r]]
    <3>1. loaded[r] \in CM!States /\ req[r] \in CM!FileVersions
      BY <1>3 DEF FileTypes
    <3> QED BY <2>2, <3>1 DEF GH!States, CM!States, CM!FileVersions
  <2> QED BY <1>1, <1>3, <2>1, <2>2, ConfigStepEffect
<1>6. FileTypes'
  BY <1>2, <1>3, <1>4, <1>5 DEF FileTypes
<1>7. turn[r].at = "none"
  BY InsideHandler DEF HandleConfig, ConfigStep, Free, FileInv, InOneHandler
<1>8. \A q \in Readers : InOneHandler(q)'
  BY <1>2, <1>4, <1>7 DEF FileInv, InOneHandler
<1>9. ASSUME saves' = "apart"
      PROVE  DeviceHolds' /\ (\A q \in Readers : ConfigHolds(q)' /\ TurnHolds(q)') /\ Kept
  <2>1. saves = "apart" /\ (stateFile' = stateFile \/ \A q \in Readers \ {r} : ~HoldsState(q))
    <3>1. CASE \E v \in Versions : HandleConfig(r, v)
      BY <1>9, <3>1 DEF HandleConfig, CM!Receive, CM!sharedVars
    <3>2. CASE ConfigStep(r)
      BY <1>9, <3>2 DEF ConfigStep, Witness
    <3> QED BY <3>1, <3>2
  <2>2. DeviceHolds /\ \A q \in Readers : ConfigHolds(q) /\ TurnHolds(q)
    BY <2>1 DEF FileInv
  <2>3. /\ stateFile'.device = stateFile.device /\ stateFile'.ver >= stateFile.ver
        /\ ConfigHolds(r)'
    BY <1>1, <2>1, ConfigStepSaves
  <2>4. DeviceHolds'
    BY <1>2, <2>2, <2>3 DEF DeviceHolds
  <2>5. TurnHolds(r)'
    <3>1. turn'[r] = turn[r] /\ TurnHolds(r)
      BY <1>2, <2>2
    <3>2. turn[r].at = "none"
      BY <1>7
    <3> QED BY <3>1, <3>2 DEF TurnHolds
  <2>6. \A q \in Readers \ {r} : ConfigHolds(q)' /\ TurnHolds(q)'
    <3> SUFFICES ASSUME NEW q \in Readers \ {r} PROVE ConfigHolds(q)' /\ TurnHolds(q)'
      OBVIOUS
    <3>1. step'[q] = step[q] /\ req'[q] = req[q] /\ loaded'[q] = loaded[q] /\ turn'[q] = turn[q]
      BY <1>2, <1>4
    <3>2. \/ stateFile' = stateFile
          \/ /\ ~HoldsState(q)
             /\ stateFile.device.ident # None => stateFile'.device.ident = stateFile.device.ident
      BY <2>1, <2>3
    <3> QED BY <2>2, <3>1, <3>2, OthersHold
  <2> QED BY <2>3, <2>4, <2>5, <2>6 DEF Kept
<1> QED BY <1>6, <1>8, <1>9 DEF FileInv

\* So does one that takes a chat message, or moves on in its turn.
LEMMA TurnInv ==
    ASSUME FileInv, NEW r \in Readers, HandleChat(r) \/ TurnStep(r)
    PROVE  FileInv' /\ (saves' = "apart" => Kept)
<1>1. GH!StartTurn(r) \/ GH!TurnStep(r)
  BY DEF HandleChat, TurnStep
<1>2. step' = step /\ req' = req /\ loaded' = loaded
  BY DEF HandleChat, TurnStep, configVars
<1>3. FileTypes
  BY DEF FileInv
<1>4. /\ turn' \in [Readers -> GH!Turns] /\ stateFile' \in GH!States
      /\ \A q \in Readers \ {r} : turn'[q] = turn[q]
  BY <1>1, <1>3, TurnStepEffect
<1>5. FileTypes'
  BY <1>2, <1>3, <1>4 DEF FileTypes
<1>6. step[r] = "idle"
  BY InsideHandler DEF HandleChat, TurnStep, Free, FileInv, InOneHandler
<1>7. \A q \in Readers : InOneHandler(q)'
  BY <1>2, <1>4, <1>6 DEF FileInv, InOneHandler
<1>8. ASSUME saves' = "apart"
      PROVE  DeviceHolds' /\ (\A q \in Readers : ConfigHolds(q)' /\ TurnHolds(q)') /\ Kept
  <2>1. saves = "apart" /\ (stateFile' = stateFile \/ \A q \in Readers \ {r} : ~HoldsState(q))
    <3>1. CASE HandleChat(r)
      BY <1>8, <3>1 DEF HandleChat, GH!StartTurn
    <3>2. CASE TurnStep(r)
      BY <1>8, <3>2 DEF TurnStep, Witness
    <3> QED BY <3>1, <3>2
  <2>2. \A q \in Readers : ConfigHolds(q) /\ TurnHolds(q)
    BY <2>1 DEF FileInv
  <2>3. /\ stateFile'.ver = stateFile.ver
        /\ stateFile.device.ident # None => stateFile'.device.ident = stateFile.device.ident
        /\ stateFile.device.token # None => stateFile'.device.token # None
        /\ DeviceHolds' /\ TurnHolds(r)'
    BY <1>1, <2>1, TurnStepSaves
  <2>4. ConfigHolds(r)'
    BY <1>2, <1>6 DEF ConfigHolds, CM!AfterCheck
  <2>5. \A q \in Readers \ {r} : ConfigHolds(q)' /\ TurnHolds(q)'
    <3> SUFFICES ASSUME NEW q \in Readers \ {r} PROVE ConfigHolds(q)' /\ TurnHolds(q)'
      OBVIOUS
    <3>1. step'[q] = step[q] /\ req'[q] = req[q] /\ loaded'[q] = loaded[q] /\ turn'[q] = turn[q]
      BY <1>2, <1>4
    <3>2. \/ stateFile' = stateFile
          \/ /\ ~HoldsState(q)
             /\ stateFile.device.ident # None => stateFile'.device.ident = stateFile.device.ident
      BY <2>1, <2>3
    <3> QED BY <2>2, <3>1, <3>2, OthersHold
  <2>6. stateFile'.ver >= stateFile.ver
    <3>1. stateFile.ver \in Versions \cup {0}
      BY <1>3 DEF FileTypes, GH!States
    <3>2. \A v \in Versions \cup {0} : v >= v
      BY VersionsAssumption
    <3> QED BY <2>3, <3>1, <3>2
  <2> QED BY <2>3, <2>4, <2>5, <2>6 DEF Kept
<1> QED BY <1>5, <1>7, <1>8 DEF FileInv

\* A crash takes every local variable and leaves the file.
LEMMA CrashInv ==
    ASSUME FileInv, Crash
    PROVE  FileInv' /\ stateFile' = stateFile
<1>1. stateFile' = stateFile /\ presented' = presented /\ saves' = saves
  BY DEF Crash, GH!Crash
<1>2. /\ step' = [h \in Readers |-> "idle"] /\ req' = [h \in Readers |-> 0]
      /\ loaded' = [h \in Readers |-> CM!EmptyState]
      /\ turn' = [h \in Readers |-> GH!NoTurn]
  BY DEF Crash, GH!Crash, CM!Crash, CM!NoCalls
<1>3. CM!EmptyState \in CM!States /\ GH!NoTurn \in GH!Turns
  BY DEF CM!EmptyState, CM!States, CM!FileVersions, GH!NoTurn, GH!Turns, GH!Ats,
         GH!EmptyState, GH!NoDevice, GH!States, GH!Devices
<1>4. FileTypes'
  BY <1>1, <1>2, <1>3 DEF FileInv, FileTypes, CM!Steps, CM!FileVersions
<1>5. \A r \in Readers : InOneHandler(r)' /\ ConfigHolds(r)' /\ TurnHolds(r)'
  BY <1>2 DEF InOneHandler, ConfigHolds, TurnHolds, CM!AfterCheck, GH!NoTurn
<1>6. saves' = "apart" => DeviceHolds'
  BY <1>1 DEF FileInv, DeviceHolds
<1> QED BY <1>1, <1>4, <1>5, <1>6 DEF FileInv

\* Every step keeps FileInv and, while saves do not race, undoes nothing.
LEMMA NextInv ==
    ASSUME FileInv, [Next]_vars
    PROVE  FileInv' /\ (saves' = "apart" => Kept)
<1>1. ASSUME NEW r \in Readers, NEW v \in Versions, HandleConfig(r, v)
      PROVE  FileInv' /\ (saves' = "apart" => Kept)
  BY <1>1, ConfigInv
<1>2. ASSUME NEW r \in Readers, ConfigStep(r)
      PROVE  FileInv' /\ (saves' = "apart" => Kept)
  BY <1>2, ConfigInv
<1>3. ASSUME NEW r \in Readers, HandleChat(r) \/ TurnStep(r)
      PROVE  FileInv' /\ (saves' = "apart" => Kept)
  BY <1>3, TurnInv
<1>4. stateFile' = stateFile => Kept
  <2>1. stateFile.ver \in Versions \cup {0}
    BY DEF FileInv, FileTypes, GH!States
  <2>2. \A v \in Versions \cup {0} : v >= v
    BY VersionsAssumption
  <2> QED BY <2>1, <2>2 DEF Kept
<1>5. CASE Crash
  BY <1>4, <1>5, CrashInv
<1>6. CASE UNCHANGED vars
  BY <1>4, <1>6 DEF vars, configVars, turnVars, FileInv, FileTypes, InOneHandler, DeviceHolds,
                    ConfigHolds, TurnHolds
<1> QED BY <1>1, <1>2, <1>3, <1>5, <1>6 DEF Next

\* FileInv holds in every reachable state.
THEOREM Invariance == Spec => []FileInv
<1>1. FileInv /\ [Next]_vars => FileInv'
  BY NextInv
<1> QED BY InitInv, <1>1, PTL DEF Spec

\* The adapter keeps its one identity, and a token that fits it, unless two
\* readers save the State over each other.
THEOREM IdentityKept == Spec => []IdentityIsKept
<1>1. FileInv => IdentityIsKept
  <2> SUFFICES ASSUME FileInv, saves = "apart"
               PROVE  GH!SeenIdentityIsStored /\ GH!TokenFitsIdentity
    BY DEF IdentityIsKept
  <2>1. DeviceHolds /\ \A r \in Readers : TurnHolds(r)
    BY DEF FileInv
  <2> QED BY <2>1 DEF DeviceHolds, TurnHolds, GH!SeenIdentityIsStored, GH!TokenFitsIdentity, GH!Accepts
<1> QED BY Invariance, <1>1, PTL

\* No save undoes another: version, identity and token outlive the saves of the
\* other writer, unless two readers save the State over each other.
THEOREM NothingLost == Spec => NothingStoredIsLost
<1>1. FileInv /\ [Next]_vars => (saves' = "apart" => Kept)
  BY NextInv
<1> QED BY Invariance, <1>1, PTL DEF Spec, NothingStoredIsLost, Kept

----------------------------------------------------------------------------
(* Type correctness, whether saves race or not.  The variables of Apply keep  *)
(* their types by its own proofs, instantiated; the identity a turn presents  *)
(* is one, because LoadIdentity does not let a turn go on without it.         *)

CMP == INSTANCE ConfigManager_proofs WITH
    Handlers <- Readers, Devices <- GH!Devices, NoDevice <- GH!NoDevice

\* the assumptions of Apply, of the constants it has here
LEMMA SameConstants ==
    /\ {CMP!APIKey, CMP!TokenKey} \cup CMP!Backfilled \subseteq Keys
    /\ BootRefs \in [CMP!Slots -> BootKeys \cup {NoKey}]
    /\ GH!NoDevice \in GH!Devices
BY KeyAssumption DEF CM!APIKey, CMP!APIKey, CM!TokenKey, CMP!TokenKey, CM!Backfilled, CMP!Backfilled,
    CM!Slots, CMP!Slots, GH!NoDevice, GH!Devices

\* the definitions its proofs speak of are those of the model
LEMMA SameTypes == (CM!TypeInv <=> CMP!TypeInv) /\ (CM!TypeInv' <=> CMP!TypeInv')
BY DEF CM!TypeInv, CMP!TypeInv, CM!TypeOK, CMP!TypeOK, CM!TargetInv, CMP!TargetInv, CM!Steps, CMP!Steps,
    CM!Results, CMP!Results, CM!Codes, CMP!Codes, CM!Fallible, CMP!Fallible, CM!States, CMP!States,
    CM!FileVersions, CMP!FileVersions, CM!JSONs, CMP!JSONs, CM!Slots, CMP!Slots, CM!Gateways, CMP!Gateways

LEMMA SameInit == CM!Init <=> CMP!Init
BY DEF CM!Init, CMP!Init, CM!EmptyState, CMP!EmptyState, CM!EmptyJSON, CMP!EmptyJSON, CM!BootJSON,
    CMP!BootJSON, CM!Slots, CMP!Slots

LEMMA SameHandler ==
    ASSUME NEW r \in Readers
    PROVE  /\ \A v : CM!Receive(r, v) <=> CMP!Receive(r, v)
           /\ CM!ApplyStep(r) <=> CMP!ApplyStep(r)
           /\ CM!Ack(r) <=> CMP!Ack(r)
<1> USE DEF CM!Goto, CMP!Goto, CM!Finish, CMP!Finish, CM!sharedVars, CMP!sharedVars,
    CM!EmptyJSON, CMP!EmptyJSON, CM!EmptyState, CMP!EmptyState, CM!Slots, CMP!Slots
<1>1. \A v : CM!Receive(r, v) <=> CMP!Receive(r, v)
  BY DEF CM!Receive, CMP!Receive
<1>2. CM!ApplyStep(r) <=> CMP!ApplyStep(r)
  BY DEF CM!ApplyStep, CMP!ApplyStep, CM!LoadState, CMP!LoadState, CM!IsNewer, CMP!IsNewer,
         CM!MakeWorkDir, CMP!MakeWorkDir, CM!SetURL, CMP!SetURL, CM!SnapshotURL, CMP!SnapshotURL,
         CM!WriteURL, CMP!WriteURL, CM!WriteEnv, CMP!WriteEnv, CM!ReadJSON, CMP!ReadJSON,
         CM!ReadJSONFails, CMP!ReadJSONFails, CM!WriteJSON, CMP!WriteJSON, CM!MergedJSON, CMP!MergedJSON,
         CM!MergedRefs, CMP!MergedRefs, CM!TokenKey, CMP!TokenKey, CM!Started, CMP!Started,
         CM!Restart, CMP!Restart, CM!RestartFails, CMP!RestartFails, CM!HealthOK, CMP!HealthOK,
         CM!HealthFails, CMP!HealthFails, CM!Save, CMP!Save, CM!FileError, CMP!FileError,
         CM!Fallible, CMP!Fallible, CM!ErrorCode, CMP!ErrorCode
<1>3. CM!Ack(r) <=> CMP!Ack(r)
  BY DEF CM!Ack, CMP!Ack
<1> QED BY <1>1, <1>2, <1>3

LEMMA SameCrash == CM!Crash <=> CMP!Crash
BY DEF CM!Crash, CMP!Crash, CM!NoCalls, CMP!NoCalls, CM!EmptyJSON, CMP!EmptyJSON, CM!EmptyState, CMP!EmptyState,
       CM!Slots, CMP!Slots, CM!Started, CMP!Started

LEMMA InitTypes == Init => TypeInv
<1> SUFFICES ASSUME Init PROVE TypeInv
  OBVIOUS
<1>1. CM!TypeInv
  BY SameInit, SameTypes, SameConstants, VersionsAssumption, ConfigAssumption, KeyAssumption, CMP!InitType DEF Init
<1>2. MadeInv
  BY DEF Init, GH!Init, GH!NoTurn, MadeInv
<1> QED BY <1>1, <1>2 DEF TypeInv

\* Apply keeps its types by itself; a turn touches of its variables the file alone.
LEMMA ConfigTypes ==
    ASSUME FileInv', CM!TypeInv, [Next]_vars
    PROVE  CM!TypeInv'
<1>0. CMP!TypeInv
  BY SameTypes
<1>1. ASSUME NEW r \in Readers, (\E v \in Versions : HandleConfig(r, v)) \/ ConfigStep(r)
      PROVE  CM!TypeInv'
  <2>1. (\E v \in Versions : CMP!Receive(r, v)) \/ CMP!ApplyStep(r) \/ CMP!Ack(r)
    BY <1>1, SameHandler DEF HandleConfig, ConfigStep
  <2> QED BY <1>0, <2>1, SameTypes, SameConstants, VersionsAssumption, ConfigAssumption, KeyAssumption, CMP!HandlerType
<1>2. CASE UNCHANGED configVars
  <2>1. stateFile' \in CM!States
    BY DEF FileInv, FileTypes, GH!States, CM!States, CM!FileVersions
  <2> QED BY <1>2, <2>1 DEF configVars, CM!TypeInv, CM!TypeOK, CM!TargetInv
<1>3. CASE Crash
  BY <1>0, <1>3, SameTypes, SameCrash, SameConstants, VersionsAssumption, ConfigAssumption, KeyAssumption,
     CMP!EnvironmentType DEF Crash
<1> QED BY <1>1, <1>2, <1>3 DEF Next, vars, HandleChat, TurnStep

LEMMA MadeStep == ASSUME FileInv, MadeInv, [Next]_vars PROVE MadeInv'
<1>0. turn \in [Readers -> GH!Turns] /\ stateFile \in GH!States
  BY DEF FileInv, FileTypes
<1>1. saves' \in {"apart", "raced"}
  BY DEF MadeInv, Next, vars, HandleConfig, HandleChat, ConfigStep, TurnStep, Witness, Crash
<1>2. ASSUME NEW r \in Readers, HandleChat(r) \/ TurnStep(r)
      PROVE  MadeInv'
  <2>1. GH!StartTurn(r) \/ GH!TurnStep(r)
    BY <1>2 DEF HandleChat, TurnStep
  <2>2. \A q \in Readers : q # r => turn'[q] = turn[q]
    BY <2>1, TurnStepEffect DEF FileInv
  <2>3. turn[r] \in GH!Turns
    BY <1>0
  <2>4. /\ presented' \subseteq Identities
        /\ turn'[r].at \in {"saveIdentity", "dial", "connect"} => turn'[r].ident # None
    <3>1. CASE \/ GH!StartTurn(r) \/ GH!Connected(r) \/ GH!HelloOK(r) \/ GH!TokenNotKept(r)
               \/ GH!SaveIdentity(r) \/ GH!SaveToken(r)
      BY <1>0, <2>3, <3>1 DEF MadeInv, GH!StartTurn, GH!Connected, GH!HelloOK, GH!TokenNotKept, GH!SaveIdentity,
           GH!SaveToken, GH!Goto, GH!At, GH!Turns
    <3>2. CASE GH!ResolveAuth(r) \/ GH!LoadForToken(r)
      BY <1>0, <2>3, <3>2 DEF MadeInv, GH!ResolveAuth, GH!LoadForToken, GH!Become, GH!At, GH!Turns
    <3>3. CASE GH!LoadIdentity(r)
      <4>1. turn'[r].ident # None
        <5>1. CASE stateFile.device.ident # None
          <6>1. turn'[r] = [turn[r] EXCEPT !.at = "dial", !.ident = stateFile.device.ident]
            BY <1>0, <3>3, <5>1 DEF GH!LoadIdentity, GH!Become
          <6> QED BY <2>3, <5>1, <6>1 DEF GH!Turns
        <5>2. CASE stateFile.device.ident = None
          <6>1. PICK fresh \in Identities :
                  GH!Become(r, [turn[r] EXCEPT !.at = "saveIdentity", !.ident = fresh, !.held = stateFile])
            BY <3>3, <5>2 DEF GH!LoadIdentity
          <6>2. turn'[r] = [turn[r] EXCEPT !.at = "saveIdentity", !.ident = fresh, !.held = stateFile]
            BY <1>0, <6>1 DEF GH!Become
          <6> QED BY <2>3, <6>2, NoneAssumption DEF GH!Turns
        <5> QED BY <5>1, <5>2
      <4> QED BY <3>3, <4>1 DEF MadeInv, GH!LoadIdentity
    <3>4. CASE GH!SendConnect(r)
      <4>1. turn[r].ident \in Identities
        BY <2>3, <3>4 DEF MadeInv, GH!SendConnect, GH!At, GH!Turns
      <4> QED BY <1>0, <2>3, <3>4, <4>1 DEF MadeInv, GH!SendConnect, GH!At, GH!Goto, GH!Turns
    <3>5. CASE GH!EndTurn(r)
      BY <1>0, <3>5 DEF MadeInv, GH!EndTurn, GH!Become, GH!NoTurn
    <3> QED BY <2>1, <3>1, <3>2, <3>3, <3>4, <3>5 DEF GH!TurnStep
  <2> QED BY <1>1, <2>2, <2>4 DEF MadeInv
<1>3. CASE UNCHANGED turnVars
  BY <1>1, <1>3 DEF turnVars, MadeInv
<1>4. CASE Crash
  BY <1>1, <1>4 DEF Crash, GH!Crash, GH!NoTurn, MadeInv
<1> QED BY <1>2, <1>3, <1>4 DEF Next, vars, HandleConfig, ConfigStep

\* Every variable stays in its set and no reader is in both handlers, raced or not.
THEOREM TypeCorrect == Spec => []TypeOK
<1>1. FileInv' /\ FileInv /\ TypeInv /\ [Next]_vars => TypeInv'
  BY ConfigTypes, MadeStep DEF TypeInv
<1>2. FileInv /\ TypeInv => TypeOK
  BY DEF FileInv, FileTypes, TypeInv, MadeInv, TypeOK, CM!TypeInv, GH!TypeOK
<1> QED BY InitTypes, Invariance, <1>1, <1>2, PTL DEF Spec
=============================================================================

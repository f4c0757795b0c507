-------------------------- MODULE GatewayHandshake --------------------------
(***************************************************************************)
(* How a chat turn connects to the OpenClaw gateway                        *)
(* (internal/gateway/adapter.go, connect) and what it keeps of that in the *)
(* state file: the device identity it makes on first use, and the device   *)
(* token the gateway gives to that identity.  Every turn dials anew.       *)
(*                                                                         *)
(* A token is abstracted to the identity it was issued to.  FileStore      *)
(* locks each Load and each Save, never the two together.  Frames that     *)
(* change nothing are left out: a hello-ok ahead of the connect response   *)
(* is one of them, its token is skipped like any frame of another type.    *)
(***************************************************************************)
EXTENDS Integers

CONSTANTS
    Handlers,    \* goroutines that may run a turn
    Versions,    \* config versions, opaque here
    Identities,  \* key pairs; a new one differs from those in use
    None         \* no identity, no device token

Devices    == [token : Identities \cup {None}, ident : Identities \cup {None}]
NoDevice   == [token |-> None, ident |-> None]
States     == [ver : Versions \cup {0}, device : Devices]
EmptyState == [ver |-> 0, device |-> NoDevice]

VARIABLES
    turn,       \* where each handler's turn is, with its local variables
    stateFile,  \* the state file
    presented   \* history: the identities the gateway was shown

vars == <<turn, stateFile, presented>>

Ats == {"none", "auth", "identity", "saveIdentity", "dial", "connect", "open",
        "loadState", "saveToken"}
\* auth: the device token presented, None for the gateway's own; held: the State
\* between a Load and the Save that follows it
Turns == [at : Ats, auth : Identities \cup {None}, ident : Identities \cup {None}, held : States]
NoTurn == [at |-> "none", auth |-> None, ident |-> None, held |-> EmptyState]

Init ==
    /\ turn = [h \in Handlers |-> NoTurn]
    /\ stateFile = EmptyState
    /\ presented = {}

----------------------------------------------------------------------------

At(h, place)      == turn[h].at = place
Goto(h, place)    == turn' = [turn EXCEPT ![h].at = place]
Become(h, record) == turn' = [turn EXCEPT ![h] = record]

\* the turn ends: connect returned an error, or Chat closed the connection
EndTurn(h) ==
    /\ turn[h].at \in Ats \ {"none", "loadState", "saveToken"}
    /\ Become(h, NoTurn)
    /\ UNCHANGED <<stateFile, presented>>

StartTurn(h) ==
    /\ At(h, "none")
    /\ Goto(h, "auth")
    /\ UNCHANGED <<stateFile, presented>>

\* resolveConnectAuth: the stored device token if there is one, even one that was
\* refused before; without it, or if the state cannot be loaded, the token of the
\* environment or .env.  With neither the turn fails (EndTurn).
ResolveAuth(h) ==
    /\ At(h, "auth")
    /\ \E token \in {stateFile.device.token, None} :
          Become(h, [turn[h] EXCEPT !.at = "identity", !.auth = token])
    /\ UNCHANGED <<stateFile, presented>>

InUse == {stateFile.device.ident} \cup presented \cup {turn[g].ident : g \in Handlers}

\* mutant: a state that cannot be loaded counts as one without an identity
LoadIdentityStartsOver(h) ==
    /\ At(h, "identity")
    /\ \E fresh \in Identities \ InUse, held \in {stateFile, EmptyState} :
          Become(h, IF held.device.ident # None
                      THEN [turn[h] EXCEPT !.at = "dial", !.ident = held.device.ident]
                      ELSE [turn[h] EXCEPT !.at = "saveIdentity", !.ident = fresh, !.held = held])
    /\ UNCHANGED <<stateFile, presented>>

\* mutant: the identity is used before it is saved
LoadIdentityUsesFirst(h) ==
    /\ At(h, "identity")
    /\ IF stateFile.device.ident # None
         THEN Become(h, [turn[h] EXCEPT !.at = "dial", !.ident = stateFile.device.ident])
         ELSE \E fresh \in Identities \ InUse :
                Become(h, [turn[h] EXCEPT !.at = "dial", !.ident = fresh])
    /\ UNCHANGED <<stateFile, presented>>

\* loadOrCreateGatewayIdentity: a state without an identity gets a new one ...
LoadIdentity(h) ==
    /\ At(h, "identity")
    /\ IF stateFile.device.ident # None
         THEN Become(h, [turn[h] EXCEPT !.at = "dial", !.ident = stateFile.device.ident])
         ELSE \E fresh \in Identities \ InUse :
                Become(h, [turn[h] EXCEPT !.at = "saveIdentity", !.ident = fresh, !.held = stateFile])
    /\ UNCHANGED <<stateFile, presented>>

\* ... which is saved before it is used; if that fails, the turn does (EndTurn)
SaveIdentity(h) ==
    /\ At(h, "saveIdentity")
    /\ stateFile' = [turn[h].held EXCEPT !.device.ident = turn[h].ident]
    /\ Goto(h, "dial")
    /\ UNCHANGED presented

\* dialled and challenged, it signs with its key and sends the connect request
SendConnect(h) ==
    /\ At(h, "dial")
    /\ presented' = presented \cup {turn[h].ident}
    /\ Goto(h, "connect")
    /\ UNCHANGED stateFile

\* the gateway knows its own token, and a device token only from its device
Accepts(token, ident) == token \in {None, ident}

\* the connect response is ok; any other answer, or none, ends the turn (EndTurn)
Connected(h) ==
    /\ At(h, "connect")
    /\ Accepts(turn[h].auth, turn[h].ident)
    /\ Goto(h, "open")
    /\ UNCHANGED <<stateFile, presented>>

\* a hello-ok with a device token is read while the turn waits for something else
HelloOK(h) ==
    /\ At(h, "open")
    /\ Goto(h, "loadState")
    /\ UNCHANGED <<stateFile, presented>>

\* mutant: the state is not loaded again for the token
LoadForTokenKeeps(h) ==
    /\ At(h, "loadState")
    /\ Goto(h, "saveToken")
    /\ UNCHANGED <<stateFile, presented>>

\* persistGatewayDeviceToken loads the state ...
LoadForToken(h) ==
    /\ At(h, "loadState")
    /\ Become(h, [turn[h] EXCEPT !.at = "saveToken", !.held = stateFile])
    /\ UNCHANGED <<stateFile, presented>>

\* ... and saves it with the token
SaveToken(h) ==
    /\ At(h, "saveToken")
    /\ stateFile' = [turn[h].held EXCEPT !.device.token = turn[h].ident]
    /\ Goto(h, "open")
    /\ UNCHANGED presented

\* an error of either is logged, and the turn goes on without the token
TokenNotKept(h) ==
    /\ turn[h].at \in {"loadState", "saveToken"}
    /\ Goto(h, "open")
    /\ UNCHANGED <<stateFile, presented>>

TurnStep(h) ==
    \/ ResolveAuth(h)
    \/ LoadIdentity(h) \/ SaveIdentity(h)
    \/ SendConnect(h) \/ Connected(h)
    \/ HelloOK(h) \/ LoadForToken(h) \/ SaveToken(h) \/ TokenNotKept(h)
    \/ EndTurn(h)

\* the process dies: local variables are gone, the file stays
Crash ==
    /\ turn' = [h \in Handlers |-> NoTurn]
    /\ UNCHANGED <<stateFile, presented>>

Next == (\E h \in Handlers : StartTurn(h) \/ TurnStep(h)) \/ Crash

Spec == Init /\ [][Next]_vars

----------------------------------------------------------------------------
(* Properties, of turns that do not overlap (module SharedState says what     *)
(* else shares the file).                                                     *)

\* Every variable stays in its set.
TypeOK ==
    /\ turn \in [Handlers -> Turns]
    /\ stateFile \in States
    /\ presented \subseteq Identities

\* Whatever identity the gateway was shown, and may have paired and given a token
\* to, is the one in the state file: neither an error nor a crash between making
\* it and using it brings up a second one.
SeenIdentityIsStored == presented \subseteq {stateFile.device.ident}

\* A stored token belongs to the stored identity, and a turn presents no token of
\* another identity than its own: since a stored token is preferred and is never
\* dropped when it is refused, a pair that does not fit shuts the daemon out.
TokenFitsIdentity ==
    /\ stateFile.device.token \in {None, stateFile.device.ident}
    /\ \A h \in Handlers : turn[h].at \in {"dial", "connect"} => Accepts(turn[h].auth, turn[h].ident)
=============================================================================

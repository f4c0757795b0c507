# A TLA+ development for the OpenClaw device daemon

The daemon runs on an Ubuntu device. It keeps a WebSocket connection to a cloud
gateway, applies the configurations the cloud sends, runs remote commands, and
turns chat messages into turns of the local OpenClaw gateway or into generated
videos. This directory holds TLA+ models of its core, the TLC configurations that
check them, and proofs checked by TLAPS. All paths below are relative to the
repository's root.

Run a check with `tlc -config MCDaemon.cfg MCDaemon`, a proof with
`tlapm SharedState_proofs.tla`. `PROJECT.json` lists the runs, the source lines
every definition stands for, a mutant per property, findings, hazards and theorems.

## 1. Inventory

| Part | Source | State it keeps | Operations |
|---|---|---|---|
| Cloud client | `internal/cloud/client.go` | `conn`, `authenticated`, backoff; one reader goroutine per connection | Run, runOnce, readLoop, sendAuth, sendPing, SendEnvelope/writeJSON |
| Config manager | `internal/manager/config_manager.go` | none of its own; writes the state file, `.env`, `openclaw.json`, restarts the gateway | Apply |
| Daemon configuration | `internal/config/config.go` | the cloud address in memory and in `daemon.json` | Load, UpdateCloudWSURL, persist |
| State store | `internal/store/state_store.go` | the state file: config version, device token, device identity | Load, Save |
| Router | `internal/router/router.go` | none | HandleMessage: sys_config, remote_cmd, chat_msg; reply |
| Gateway adapter | `internal/gateway/adapter.go` | one connection per turn; token and identity through the state store | Chat, handshake, collectChatReplies, transcript lookup, uploads |
| Video service | `internal/video/service.go` | `results`: one entry per message, with a channel | Generate |
| MiniMax client | `internal/video/minimax_client.go` | none | create, query, retrieve |
| Remote commands | `internal/runner/` | none; one operating-system process per command | Execute, ExecRunner.Run: whitelist, timeout, truncation |
| Wiring | `internal/app`, `cmd/openclaw-daemon`, `deploy/` | the context SIGTERM cancels | start, shutdown, restart by systemd |

**How they interact.** The goroutine of `Client.Run` dials, authenticates, starts a
reader and then sends heartbeats. The reader calls the router for each message and
the router does the whole work on that goroutine: Apply with its restart and probe,
a remote command, a chat turn, a video of several minutes. Replies go to whatever
connection `Client.conn` points to when they are written. `Apply` and the adapter
share the state file, `Apply` and the video service share `.env`, `Apply` restarts the
gateway through the executor of remote commands, and the client reads the address that
`Apply` changes.

**What is hard here.**

* When `runOnce` leaves because a heartbeat failed, the reader of the old connection
  is not joined. From then on two readers can be in the router, in Apply, in the
  video service. Nothing but the video service's mutex is prepared for that.
* Apply is a sequence of writes to four files and a process, without a lock over the
  sequence; any of them may fail, and the daemon may be killed in between.
* The state file is loaded, changed in one field and saved whole, by Apply around a
  restart of the gateway and by the adapter around the making of a key. The store locks
  each call and not the pair.
* openclaw.json is merged and keeps what earlier configurations put there; .env, which
  its placeholders refer to, is replaced by each one.
* Both goroutines write to one connection after releasing the lock that protects the
  pointer to it.
* A chat turn is put together from deltas, cumulative texts, snapshots and a file the
  gateway is writing at the same time, told apart by prefixes and timestamps.
* A command may end, be killed, run into its deadline and lose its daemon at nearly the
  same time, and what it started may hold its output open long after it.
* Video generation is paid for, slow, and may be asked for again while it runs.

**What makes each part correct.**

* Client: the connection in use is the newest one, auth_req comes first, replies keep
  the order of their messages, no goroutine stays behind but one whose handler never
  returns, SIGTERM ends it, a dead connection is replaced.
* Config manager: success means recorded, installed and loaded; what failed can be
  tried again; versions are a register that takes newer ones only; the gateway finds
  the secrets it refers to; the newest configuration is reached.
* State file: neither writer undoes the other; the device keeps one identity, and a
  token that belongs to it.
* Remote command: the status is true, the process is gone when it is sent, and the
  reader gets on.
* Chat turn: numbered chunks, one final one, whose texts together lose nothing that was
  told in this turn and hold nothing of another.
* Video: one task per message, one answer for all calls, an answer that is true.

## 2. Modules

| Module | Models | Notes |
|---|---|---|
| `ConfigRegister` | what the cloud may rely on when it sends configurations | abstract specification |
| `ConfigManager` | Apply, the files, the address, the gateway process, a crash | `Handlers` may run Apply at once; one of them implements `ConfigRegister` |
| `GatewayHandshake` | the adapter's connect: token, identity, what it keeps of them | a token is the identity it was issued to |
| `SharedState` | ConfigManager and GatewayHandshake composed on one state file | two readers |
| `RemoteCommand` | Execute, ExecRunner and the process they run | exec.Cmd is external |
| `CloudClient` | Run, runOnce, readLoop, writeJSON | connections are numbered in dialling order |
| `Daemon` | CloudClient and ConfigManager composed through the router | readers are Apply's handlers |
| `GatewayChat` | Adapter.Chat and collectChatReplies | text is a sequence of letters |
| `VideoAnswers` | what Generate promises its callers | abstract specification |
| `VideoService` | Generate with the router's video branch | implements `VideoAnswers` |
| `*_proofs` | theorems about the module they extend | `Daemon_proofs` instantiates those of its two components |
| `MC*` | values for TLC | one `.cfg` per question |

### ConfigRegister and ConfigManager

`step[h]` is the next call handler `h` makes in Apply; each action is one call and
its early return. `stateFile`, `envFile`, `jsonFile`, `diskURL` are the four files.
Writes are a temporary file and a rename, hence one step, and `FileError` is any error
before the rename. `openclaw.json` is read and written in two steps; `ReadJSONFails` is
the code's treatment of an unreadable file as an empty one, and `jsonReads` remembers
it. UpdateCloudWSURL is three steps: the address in memory, the copy under the read
lock (`snapURL`), the write after it. Save writes back the State that was loaded at the
start (`loaded`). `Crash` may come anywhere and sets the address as Load does.

Of .env and openclaw.json the model keeps the version they were written from, and what
connects them: `jsonFile.refs` is the variable each provider's `apiKey` and the
gateway's token name in their `${...}` placeholders, `EnvKeys` the variables of the .env
of a version, those of its payload and the two that `API_KEY` is copied to.
`MergedRefs` is applyProviderConfig: the providers of the models a configuration names
are pointed to its key, all others keep theirs. `gw` holds the files the gateway was
started with; it serves only if its placeholders resolve. The gateway and its
supervisor (pm2) are outside the repository and marked external in the map.

`ConfigRegister` has a recorded version and three answers. The refinement mapping takes
the version of the state file for `recorded`, every step between Receive and the
acknowledgement for "busy", and all error codes for "failed".

### GatewayHandshake and SharedState

`turn[h]` is where a chat turn is in connect, with its local variables: the token it
presents, its identity, and the State between a load and the save that follows.
LoadIdentity, SaveIdentity, LoadForToken and SaveToken are the separate calls of the
store; ResolveAuth falls back to the configured token when the state cannot be loaded;
`EndTurn` is every error return of connect, and the end of Chat. `presented` remembers
the identities the gateway has seen. A hello-ok frame is taken only where the code
takes one: after the connect response, while another frame is waited for.

`SharedState` gives both the same `stateFile`, as app.New does, and lets a reader be in
one of the two handlers. `saves` is a history variable: it becomes "raced" when a
reader saves while another holds an older State that it is to save. The two properties
are stated up to that moment. That there are two readers at all needs a failed
heartbeat under a busy reader, which `Daemon` shows.

### RemoteCommand

`at` is where the reader is between Receive and Reply. `proc`, `exit` and `output` are
the process, how it ended, and whether something it started still holds its output;
`runCtx` is the context with the deadline that shutdown also ends. `Kill` is exec.Cmd's
watcher: it kills the process and not its descendants, and it may come when the process
has exited but was not yet waited for, which makes Run return the context's error.
`Reap` and `Drain` are the two things Run waits for; the second has no time limit, since
WaitDelay is not set. `Verdict` is the order of tests at the end of Execute.

### CloudClient

`run` is where the goroutine of Run is, `reader[g]` where the reader of connection `g`
is, `target[w]` the connection writer `w` is inside WriteJSON of. `sock[g]` is the
socket: `broken` when the peer is gone (writes may then fail or be lost), `closed`
when runOnce closed it. The deferred calls are the steps `unset` and `close`, in
that order. A reader of a dead socket may still read what was buffered, or fail at
once. gorilla/websocket detects two writers at once by a panic, which kills the
process (`Panic`); undetected, a write may fail or get through. `sent[c]` is the log
of what was written on a connection. The ticker and heartbeats are steps that may
come at any time.

### Daemon

Both modules instantiated over one state. `HandleConfig` takes a frame and enters
Apply with the version in it, `Reply` sends the acknowledgement Apply built, any
number of versions may be pushed again and in any order. Two history variables:
`acked`, the versions whose success was written to the cloud, and `orphaned`, that
runOnce has left a reader that had not ended because of a failed heartbeat. Up to that
moment the daemon is the register of `ConfigRegister`, whatever is redelivered, dropped
or killed (`RegisterUntilOrphaned`), and what it acknowledged is neither forgotten nor
acknowledged again (`AcksAreSound`).

### GatewayChat

`HandleEvent` is one pass through the loop of collectChatReplies. An event is a record
of what the helper functions read from a payload: whether it names the run, the
session or the gateway's session file, the text and whether it is a delta or a
snapshot, timestamps, attachments, the finish reason. `PollTranscript` is one pass of
the wait for the transcript; `WriteTranscript` the gateway appending an entry.
`Finish` is everything from the transcript merge to the final reply.
`IncrementalReplyText` and `Trim` are the code's text comparisons, as operators over
sequences; `Turn` is the loop over the lines of the transcript, as a recursive function
of their number, and `Reading` what it returns. `told`, a history variable, is the set
of texts that deltas told: `assembled` is the code's own account of them, and
`StreamIsWhole` compares the chunks with both. It asks that each text can be read in the
joined chunks. It does not ask that each is said once: the code repeats a text that does
not continue what it has, and drops newlines at the ends of a delta. Named differently from the code: `pending` is
pendingSnapshotText, `minAfter` transcriptMinAssistantAfterMs, `known` a non-empty
openClawSessionID. Left out: rewriting of links and the notice about failed uploads
appended to the text, and the extraction of fields from the payload shapes.

### VideoAnswers and VideoService

`entry[r]` is the map entry of message `r`: none, with an open channel, with a closed
one. `answer[r]` is `requestResult.replies`, assigned one step before the channel is
closed. The steps from `config` to `publish` are generate; each has its failure,
and a request that fails may have reached the provider or the backend nevertheless.
`enabled` is read again by each use, and changes when a configuration is applied.
The refinement mapping takes `req` for `asked`, and `given` and `answer` for
themselves.

## 3. Runs

| Run | Bounds | Distinct states | Shows |
|---|---|---|---|
| `config_manager` | 3 versions, 3 addresses, 2 providers, 4 variables, 1 handler | 116 583 | Apply alone, with errors and crashes everywhere |
| `config_manager_env_url` | the same, address in the environment | violation | the address moved to is lost by a restart |
| `cloud_client` | 2 connections, 2 frames each, 1 reply | 953 117 | order, authentication, the connection in use |
| `cloud_client_live` | 2 connections, 1 frame each | 35 278 | shutdown and reconnection under any handler, readers end if theirs return |
| `daemon` | 2 connections, 1 frame each, 2 versions, up to the first reader left behind | 510 036 | overlap only after a failed heartbeat; safe until then |
| `daemon_idempotent` | the same, and on after it | violation | a version applied twice, or going back |
| `shared_state` | 2 readers, 2 versions, 3 identities | 762 058 | what the two writers of the state file keep |
| `remote_command` | 3 commands, one of them not allowed | 229 | true status, no process left, the reader gets on |
| `gateway_chat` | 13 kinds of events, 5 per turn, 6 transcript entries | 95 151 | chunks, whole text, no stale text, the wait ends |
| `gateway_chat_final_text` | the same | violation | final text from the transcript sent in part |
| `gateway_chat_missing` | the same | violation | a blank last delta hides the reply |
| `video_service` | 3 callers, 1 message, 2 tasks | 83 thousand | one task, one true answer, all calls end |

**Why the bounds are enough.** Apply compares a version with one recorded version, so
three versions give older, same and newer with one more to come; the second of them
carries no address and the third no model, so both early returns are taken between
versions that do set them. The first two point different providers to two different
variables that their payloads do not carry, and the installed .env knows neither, so a
placeholder outlives the configuration that made it. Two connections are the least with
an old and a new reader; overlap, late replies and a second panic all happen. Two frames
make a reader that handles its second message after the reconnection. In `daemon`
the constraint `NotOrphaned` ends the search behind the states in which a reader was
left: all its properties but the types speak of what comes before (those states
themselves are still checked), and the search without it finds nothing else in 4.4
million states. In `shared_state` two readers are the most the daemon has at once
within one reconnection; three identities are the stored one and one more for each of
them; restart and probe touch the state file in no way and are left out by the
configuration (`HasRestart = FALSE`). Readers and identities are interchangeable there,
hence the symmetry, which is sound because the run checks no liveness. A remote command
shares nothing with another one. In a turn, five events are enough for a delta, a
repetition, a cumulative text, the user's message and the end; the transcript holds an
earlier turn, an answer, a tool call and a follow-up. What belongs to an earlier turn is
marked by a letter of its own (`Stale`), and `TurnAssumption` says where the gateway may
use it: in no event of our run, in none later than the user's message (`Asked`), and in
no transcript entry from that message on. Three callers are one that
generates, one that waits and one that comes after the answer; messages do not share
state, except the switch, so one is enough for TLC, and the proofs cover any number.
`MaxTasks` is 2, so that a second task can happen and be seen.

**Bounds in guards.** `MaxConns` in DialOK, `MaxFrames` in Arrive, `MaxReplies` in the
reply actions, `MaxEvents` in HandleEvent and SkipEvent, `MaxTasks` in CreateTask and
CreateFails. Dialling may always fail instead, so no run stops at a bound. Each cfg
leaves the deadlock check on: the only states without a successor but themselves are
`Stopped` (Run returned) and `Done` (the turn returned), both explicit.

**Fairness.** ConfigManager: weak fairness of the steps of a handler, because a runnable
goroutine runs and every call in Apply has a timeout; of the gateway's start, which its
supervisor makes. That the restart's timeout ends it needs that the restart command
leaves nothing behind that holds its output, because it runs in the executor that
`RemoteCommand` models. RemoteCommand: the reader and the watcher run, and the deadline
comes; the command need not end, and that what it started lets go of the output is a
premise of `CommandEnds`, not a fairness assumption. CloudClient: weak fairness of the goroutine of Run and of each
reader, in its loop and while it writes, but not of a handler's end (`LoopStep` leaves
`HandlerReturns` out): `cmd.Run` may wait for ever for an output that is held open, and
`collectChatReplies` has a deadline for each frame only, not for the turn. That the
handlers return is the premise of `ReadersEnd` (`HandlersReturn`); `ShutsDown` and
`Reconnects` hold without it, the latter by the heartbeat. Strong fairness of two cases
of the select, since Go picks at random among the ready ones and the ticker is ready
only now and then; and of a heartbeat on a broken socket failing in the end, since the
kernel answers the first one with a reset, or gives up resending it, and fails the next. GatewayChat: the deadline of the
transcript wait comes. VideoService: weak fairness of the callers' steps; polling ends
by its own deadline. Nothing is assumed of the cloud, the network, the provider,
or of errors; `Converges` states its two conditions (the newest configuration keeps
arriving, faults stop) itself.

## 4. Findings

1. `OPENCLAW_CLOUD_WS_URL` in the service's environment overrides the address a
   configuration persisted, at every start (`AddressInUse`); `README.md:94` promises
   otherwise.
2. Configuration versions are not idempotent after a failed heartbeat
   (`VersionsAreIdempotent`): two readers are inside Apply at once.
3. A turn told in snapshots that is completed by the transcript is answered by a part of
   its text, or by it twice (`FinalTextIsSaid`; `TranscriptSaid` proves which, and when
   all of it is sent once).
4. A turn whose last delta is blank, such as a single space, ends in ASSISTANT_REPLY_MISSING although it was
   answered (`MissingMeansNothingSaid`).

## 5. Proofs

TLAPS proves the following for all values of the constants that satisfy the modules'
named assumptions.

* **`ConfigManager_proofs`.** TypeCorrect and GatewayCanStart hold for any number of
  handlers. The other theorems assume `OneHandler` (calls of Apply do not overlap;
  `Daemon` shows when that is so). The properties are not inductive: success is claimed
  at the end of a sequence of steps, each of which established a part of it. `StepInv`
  says for each step what is already true: the version is newer than the recorded one
  and `loaded` is the state file; after the address step `daemon.json` has the address;
  after the .env step .env has the version, and so on. `OneHandlerInv` adds the
  properties themselves. Its induction has two parts, steps of the handler and steps of
  the gateway or a crash. AddressSurvives also assumes `EnvURL = NoURL`, and
  `AddressInv` says where memory follows the version being applied; a crash needs that
  the same holds of the disk, which RecordedIsInstalled gives. VersionMonotone and
  ApplyIsIdempotent are action properties that follow from OneHandlerInv, and so does
  ApplyIsARegister: each action maps to Request, Raise, Ignore, Fail, Return, Crash of
  `ConfigRegister` or to a stutter. GatewayCanStart rests on `KeysInv`: every
  placeholder, in the file, in what a handler read, and in the gateway, names one of
  four variables, and every .env the daemon writes sets all four, so it does not matter
  which version wrote which file.
* **`SharedState_proofs`.** For any number of readers. `FileInv` says, while saves have
  not raced, that whoever holds a State holds what the file says, that a turn behind
  LoadIdentity has the file's identity, and that the gateway has seen no other. A
  reader's part of it speaks of the file and of this reader only. So a step has to be
  looked at for the reader that makes it; for the others it matters only if it changes
  the file, and then either they hold no State or the saves have raced. IdentityKept and
  NothingLost follow. The proof takes from ConfigManager what each action does to the
  state file and to `step`, `req`, `loaded`, in lemmas of its own.
  TypeCorrect holds whether saves raced or not: `MadeInv` adds that a turn has an
  identity by the time it saves or presents one.
* **`RemoteCommand_proofs`.** `Inv` says what is known at each place of Execute, above
  all that an exit status of 0 comes with an error only if the context has ended.
  TypeCorrect, StatusIsTrue and NothingRunsOn follow from it.
* **`CloudClient_proofs`.** No assumption beyond the bounds. `TypeInv` adds that a
  handler has a frame. `ConnInv` says that `conn` is set exactly between dial and the
  deferred calls, and that Run's goroutine writes on the connection it dialled.
  `AuthInv`: a reader exists only behind an auth_req in its connection's log.
  `OrderInv` (with `WrittenBefore`): whatever a reader has written lies on connections
  up to the one it writes on, and answers frames up to the one it handles. The lemma
  `LogCases` reduces the two order theorems to three cases: Run wrote auth_req, one
  reader wrote one reply, or no log changed.
* **`Daemon_proofs`.** For any number of connections, frames and versions, under what
  the two components assume. Their lemmas are instantiated, not repeated: `ConfigSteps`
  shows that every step of the daemon is a step of Apply or none, `ClientAny` that it is
  a step of the client, its death, or none; the `Same...` lemmas only match the two
  instances. `WiringInv` says how the components meet: a reader is in a handler exactly
  while its call of Apply runs, every frame carries a version, a reader whose error was
  sent has ended, and no reader exists before its auth_req. It holds always, and gives
  TypeCorrect, UsesConfigManager (the daemon is a ConfigManager whose handlers are the
  readers) and GatewayCanStart. `AloneInv` holds until `orphaned`: one reader lives at
  most, that of the current connection, while runOnce has not left, or has left because
  the context was cancelled and nothing is dialled any more (`CurrentInv`); hence calls
  of Apply do not overlap, which is what ConfigManager's `NextOne` needs in place of
  OneHandler, step by step; and acknowledged versions are recorded. OneReader and
  SafeAlone follow, RegisterAlone by ConfigManager's `RegisterStep`, and AcksSound
  by `HandlerSucceeds`: a success is due only of a version above the one recorded.
  ClientKeepsItsWord carries the three safety theorems of the client over to the daemon,
  where the process may die at any step.
* **`GatewayChat_proofs`.** For any letters, events and transcript that satisfy the
  assumptions. `ChunkInv`: until the turn ends, the texts of the chunks, joined, are
  `assembled`, and so is `stream`. Each event keeps this because IncrementalReplyText
  returns a `delta` by which `next` extends what was known, or changes nothing
  (`IncrementalText`), and the merged text can be read in `next` (`IncrementalSays`).
  What could be read in the chunks stays readable when they grow (`ReadsOn`), so every
  text in `told` still is. Finish adds to the chunks in three places and marks the last, and
  each place is a lemma on the record it passes on (`MergeTranscriptFits`,
  `MergeSnapshotFits`, `NonEmptyFits`, `MarkFinalSays`). ChunksNumbered, StreamWhole and
  SnapshotWhole follow. TranscriptSaid computes what Finish sends in the case that
  FinalTextIsSaid refutes (`SnapshotThenTranscript`): with no visible snapshot before it,
  or the same text, the transcript's text; of a text that extends the snapshot, the
  rest; any other, twice. `CleanInv`, for NoStale: a snapshot that was taken before the
  time of the user's message is known is of our run, the transcript is read only after
  the last event, and what is found in it later than the message is of this turn, by
  `TurnClean`, an induction over the loop of the transcript reader. The library's
  induction theorems cannot be used here, so both inductions over data, that one and the
  one over the joined texts (`FlattenIsFlat`), take the least counterexample (`Least`,
  from the library's theorem that < is well-founded on the naturals).
* **`VideoService_proofs`.** `ServiceInv`: a message's entry is open exactly while one
  caller makes its video; what that caller knows at each step (task ended well, file
  whole); an answer is set once, before the channel is closed. From it follow PaidOnce,
  NoPartialMedia, AnswersAreTrue and GenerateKeepsPromise, the refinement of
  `VideoAnswers`: each action maps to Ask, Decide, Give, Refuse, Leave, Forget or to a
  stutter.

**Only model-checked.** Liveness (`EveryConfigAnswered`, `Converges`, `ReadersEnd`,
`ShutsDown`, `Reconnects`, `LookupEnds`, `EveryChatAnswered`, `CommandEnds`), since
fairness and ENABLED are out of the prover's reach. Every other property of a passing
run is proved. The four that are violated are refuted by their runs.

## 6. Not modelled, and why

* The prompt parser, the protocol types, defaults and validation of the configuration,
  the extraction of text from the gateway's payload shapes: data and string tests
  without state. Which message asks for a video, and what an event says, are inputs.
* The source of the device id. `persist` writes the id in effect into daemon.json, so
  one taken from a network card is fixed with the first address that arrives; no
  document says whether it should be.
* Payloads of a configuration or a command that do not decode: they are answered
  INVALID_PAYLOAD at once and change no state.
* A download that ends early without an error. `io.Copy` reports the end of the body
  as success, and the code compares no length, so `MediaIsWhole` knows a part only by
  the error or the crash that left it.
* The length of timeouts and of the output of a command, and its truncation.
* The wording of replies, the quoting of values in .env, the building of the address
  from host, port and path.
* The numbers of the chunks the router sends before and after a video. Two are
  numbered 1 when the service refuses; nothing in the repository says how they should be.
* The image service: its package is not part of the repository.
* `wsprobe`: a tool.
* Time: ticks, deadlines and backoff are steps that may come at any time (the backoff's
  value is kept, not waited for).

## 7. Plan

Done: ConfigManager with ConfigRegister, GatewayHandshake, SharedState, CloudClient,
Daemon, RemoteCommand, GatewayChat, VideoAnswers, VideoService, with the proofs above.

Next:

* An abstract stream of numbered chunks with one final one, implemented by GatewayChat,
  and by VideoService where the router wraps its answer.

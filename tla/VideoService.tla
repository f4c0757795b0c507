---------------------------- MODULE VideoService ----------------------------
(***************************************************************************)
(* video.Service (internal/video/service.go) with the branch of the        *)
(* router's handleChat that calls it: a chat message that asks for a video *)
(* makes a task at the video provider, polls it, fetches the file, uploads *)
(* it and is answered.  Calls come from the readers of CloudClient, of     *)
(* which more than one can run; the cloud may deliver a message again.     *)
(*                                                                         *)
(* The map results, under the mutex, makes one caller generate and the     *)
(* others of the same message wait for its channel.  It is never emptied   *)
(* while the process lives, failures included.                             *)
(*                                                                         *)
(* A reply is the code it carries: its text, attachment and chunk number   *)
(* follow from that.  A cancelled context is one more reason to fail.      *)
(***************************************************************************)
EXTENDS Integers

CONSTANTS
    Callers,   \* reader goroutines that may be inside handleChat
    Requests,  \* the msg_ids of chat messages that ask for a video
    Nothing,   \* no request, no reply
    MaxTasks   \* bound on the tasks the provider is asked for, per request

ASSUME MaxTasksAssumption == MaxTasks \in Nat

VARIABLES
    step,     \* where each caller is in Generate
    req,      \* the message it handles
    entry,    \* results: no entry, an open channel, a closed one
    answer,   \* requestResult.replies of each message
    outcome,  \* what the caller's generate returned
    given,    \* what Generate returned to the caller
    enabled,  \* VIDEO_GENERATION_ENABLED, read from .env on each use
    task,     \* the provider's task, the newest one of each message
    tasks,    \* history: tasks created for each message by this process
    file,     \* <msg_id>.mp4 in the temporary directory
    media     \* what the backend has of it

local == <<step, req, outcome, given>>
vars  == <<step, req, entry, answer, outcome, given, enabled, task, tasks, file, media>>

Refusal  == "VIDEO_REQUEST_UNSUPPORTED"
Failures == {"VIDEO_TASK_CREATE_FAILED", "VIDEO_TASK_TIMEOUT", "VIDEO_TASK_FAILED",
             "VIDEO_FILE_RETRIEVE_FAILED", "VIDEO_DOWNLOAD_FAILED", "VIDEO_UPLOAD_FAILED"}
Replies  == {"video", Refusal} \cup Failures

ASSUME NothingAssumption == Nothing \notin Requests /\ Nothing \notin Replies

Making   == {"config", "create", "poll", "retrieve", "download", "copy", "upload", "publish"}
Steps    == {"idle", "check", "lookup", "wait", "close", "answered"} \cup Making

Init ==
    /\ step = [c \in Callers |-> "idle"]
    /\ req = [c \in Callers |-> Nothing]
    /\ entry = [r \in Requests |-> "none"]
    /\ answer = [r \in Requests |-> Nothing]
    /\ outcome = [c \in Callers |-> Nothing]
    /\ given = [c \in Callers |-> Nothing]
    /\ enabled \in BOOLEAN
    /\ task = [r \in Requests |-> "none"]
    /\ tasks = [r \in Requests |-> 0]
    /\ file = [r \in Requests |-> "none"]
    /\ media = [r \in Requests |-> "none"]

Goto(c, s) == step' = [step EXCEPT ![c] = s]

----------------------------------------------------------------------------
(* handleChat and Generate. *)

\* the router finds the service enabled and says that it is working on it
HandleChat(c, r) ==
    /\ step[c] = "idle"
    /\ enabled
    /\ Goto(c, "check")
    /\ req' = [req EXCEPT ![c] = r]
    /\ UNCHANGED <<entry, answer, outcome, given, enabled, task, tasks, file, media>>

\* Generate asks again: .env may have been regenerated in between
CheckEnabled(c) ==
    /\ step[c] = "check"
    /\ IF enabled THEN Goto(c, "lookup") /\ UNCHANGED given
       ELSE Goto(c, "answered") /\ given' = [given EXCEPT ![c] = Refusal]
    /\ UNCHANGED <<req, entry, answer, outcome, enabled, task, tasks, file, media>>

\* mutant: a failure is not kept for the next call
LookUpRetries(c) ==
    /\ step[c] = "lookup"
    /\ IF entry[req[c]] = "none" \/ (entry[req[c]] = "done" /\ answer[req[c]] # "video")
         THEN Goto(c, "config") /\ entry' = [entry EXCEPT ![req[c]] = "open"]
         ELSE Goto(c, "wait") /\ UNCHANGED entry
    /\ UNCHANGED <<req, answer, outcome, given, enabled, task, tasks, file, media>>

\* mutant: only a finished generation is found
LookUpDone(c) ==
    /\ step[c] = "lookup"
    /\ IF entry[req[c]] # "done"
         THEN Goto(c, "config") /\ entry' = [entry EXCEPT ![req[c]] = "open"]
         ELSE Goto(c, "wait") /\ UNCHANGED entry
    /\ UNCHANGED <<req, answer, outcome, given, enabled, task, tasks, file, media>>

\* under the mutex: the first caller of a message makes its entry
LookUp(c) ==
    /\ step[c] = "lookup"
    /\ IF entry[req[c]] = "none"
         THEN Goto(c, "config") /\ entry' = [entry EXCEPT ![req[c]] = "open"]
         ELSE Goto(c, "wait") /\ UNCHANGED entry
    /\ UNCHANGED <<req, answer, outcome, given, enabled, task, tasks, file, media>>

\* the channel was closed
Wait(c) ==
    /\ step[c] = "wait" /\ entry[req[c]] = "done"
    /\ Goto(c, "answered")
    /\ given' = [given EXCEPT ![c] = answer[req[c]]]
    /\ UNCHANGED <<req, entry, answer, outcome, enabled, task, tasks, file, media>>

\* entry.replies is assigned ...
Publish(c) ==
    /\ step[c] = "publish"
    /\ answer' = [answer EXCEPT ![req[c]] = outcome[c]]
    /\ Goto(c, "close")
    /\ UNCHANGED <<req, entry, outcome, given, enabled, task, tasks, file, media>>

\* ... before the channel is closed
CloseDone(c) ==
    /\ step[c] = "close"
    /\ entry' = [entry EXCEPT ![req[c]] = "done"]
    /\ Goto(c, "answered")
    /\ given' = [given EXCEPT ![c] = answer[req[c]]]
    /\ UNCHANGED <<req, answer, outcome, enabled, task, tasks, file, media>>

\* the router sends the replies
SendReplies(c) ==
    /\ step[c] = "answered"
    /\ Goto(c, "idle")
    /\ req' = [req EXCEPT ![c] = Nothing]
    /\ outcome' = [outcome EXCEPT ![c] = Nothing]
    /\ given' = [given EXCEPT ![c] = Nothing]
    /\ UNCHANGED <<entry, answer, enabled, task, tasks, file, media>>

----------------------------------------------------------------------------
(* generate: every error is an answer. *)

\* generate returns
Produce(c, reply) == Goto(c, "publish") /\ outcome' = [outcome EXCEPT ![c] = reply]

\* resolveRuntimeConfig finds an API key, and the prompt is not empty
Configure(c) ==
    /\ step[c] = "config"
    /\ Goto(c, "create")
    /\ UNCHANGED <<req, entry, answer, outcome, given, enabled, task, tasks, file, media>>

\* mutant: an early return that leaves the channel open
NotConfiguredReturns(c) ==
    /\ step[c] = "config"
    /\ Goto(c, "answered")
    /\ given' = [given EXCEPT ![c] = Refusal]
    /\ UNCHANGED <<req, entry, answer, outcome, enabled, task, tasks, file, media>>

NotConfigured(c) ==
    /\ step[c] = "config"
    /\ Produce(c, Refusal)
    /\ UNCHANGED <<req, entry, answer, given, enabled, task, tasks, file, media>>

NewTask(r) == task' = [task EXCEPT ![r] = "running"] /\ tasks' = [tasks EXCEPT ![r] = @ + 1]

CreateTask(c) ==
    /\ step[c] = "create" /\ tasks[req[c]] < MaxTasks
    /\ NewTask(req[c])
    /\ Goto(c, "poll")
    /\ UNCHANGED <<req, entry, answer, outcome, given, enabled, file, media>>

\* mutant: a lost response makes the request again
CreateFailsRetries(c) ==
    /\ step[c] = "create"
    /\ NewTask(req[c])
    /\ UNCHANGED <<local, entry, answer, enabled, file, media>>

\* refused, or the response was lost and the task is there nevertheless
CreateFails(c) ==
    /\ step[c] = "create"
    /\ UNCHANGED <<task, tasks>> \/ (tasks[req[c]] < MaxTasks /\ NewTask(req[c]))
    /\ Produce(c, "VIDEO_TASK_CREATE_FAILED")
    /\ UNCHANGED <<req, entry, answer, given, enabled, file, media>>

\* mutant: any status but a failure ends the polling
QueryTaskAnyStatus(c) ==
    /\ step[c] = "poll"
    /\ \/ task[req[c]] # "failed" /\ Goto(c, "retrieve") /\ UNCHANGED outcome
       \/ task[req[c]] = "failed" /\ Produce(c, "VIDEO_TASK_FAILED")
    /\ UNCHANGED <<req, entry, answer, given, enabled, task, tasks, file, media>>

\* the task has ended; a query that fails, or finds it running, changes nothing
QueryTask(c) ==
    /\ step[c] = "poll"
    /\ \/ task[req[c]] = "success" /\ Goto(c, "retrieve") /\ UNCHANGED outcome
       \/ task[req[c]] = "failed" /\ Produce(c, "VIDEO_TASK_FAILED")
    /\ UNCHANGED <<req, entry, answer, given, enabled, task, tasks, file, media>>

\* TaskTimeoutSec have passed, whatever the task does by now
PollTimeout(c) ==
    /\ step[c] = "poll"
    /\ Produce(c, "VIDEO_TASK_TIMEOUT")
    /\ UNCHANGED <<req, entry, answer, given, enabled, task, tasks, file, media>>

RetrieveFile(c) ==
    /\ step[c] = "retrieve"
    /\ Goto(c, "download")
    /\ UNCHANGED <<req, entry, answer, outcome, given, enabled, task, tasks, file, media>>

\* without a file_id, too
RetrieveFails(c) ==
    /\ step[c] = "retrieve"
    /\ Produce(c, "VIDEO_FILE_RETRIEVE_FAILED")
    /\ UNCHANGED <<req, entry, answer, given, enabled, task, tasks, file, media>>

\* os.Create truncates what an earlier process may have left
CreateFile(c) ==
    /\ step[c] = "download"
    /\ file' = [file EXCEPT ![req[c]] = "partial"]
    /\ Goto(c, "copy")
    /\ UNCHANGED <<req, entry, answer, outcome, given, enabled, task, tasks, media>>

CopyFile(c) ==
    /\ step[c] = "copy"
    /\ file' = [file EXCEPT ![req[c]] = "whole"]
    /\ Goto(c, "upload")
    /\ UNCHANGED <<req, entry, answer, outcome, given, enabled, task, tasks, media>>

\* mutant: the error of io.Copy is ignored
DownloadFailsGoesOn(c) ==
    /\ step[c] \in {"download", "copy"}
    /\ \/ step[c] = "download" /\ Produce(c, "VIDEO_DOWNLOAD_FAILED")
       \/ step[c] = "copy" /\ Goto(c, "upload") /\ UNCHANGED outcome
    /\ UNCHANGED <<req, entry, answer, given, enabled, task, tasks, file, media>>

\* before or after the file was created; a partial file stays
DownloadFails(c) ==
    /\ step[c] \in {"download", "copy"}
    /\ Produce(c, "VIDEO_DOWNLOAD_FAILED")
    /\ UNCHANGED <<req, entry, answer, given, enabled, task, tasks, file, media>>

Upload(c) ==
    /\ step[c] = "upload"
    /\ media' = [media EXCEPT ![req[c]] = file[req[c]]]
    /\ Produce(c, "video")
    /\ UNCHANGED <<req, entry, answer, given, enabled, task, tasks, file>>

\* at any of its three requests: the backend may have the file without saying so
UploadFails(c) ==
    /\ step[c] = "upload"
    /\ media' = media \/ media' = [media EXCEPT ![req[c]] = file[req[c]]]
    /\ Produce(c, "VIDEO_UPLOAD_FAILED")
    /\ UNCHANGED <<req, entry, answer, given, enabled, task, tasks, file>>

CallerStep(c) ==
    \/ CheckEnabled(c) \/ LookUp(c) \/ Wait(c) \/ Publish(c) \/ CloseDone(c) \/ SendReplies(c)
    \/ Configure(c) \/ NotConfigured(c) \/ CreateTask(c) \/ CreateFails(c)
    \/ QueryTask(c) \/ PollTimeout(c) \/ RetrieveFile(c) \/ RetrieveFails(c)
    \/ CreateFile(c) \/ CopyFile(c) \/ DownloadFails(c) \/ Upload(c) \/ UploadFails(c)

----------------------------------------------------------------------------
(* The surroundings. *)

\* the provider finishes a task
TaskEnds(r) ==
    /\ task[r] = "running"
    /\ \E s \in {"success", "failed"} : task' = [task EXCEPT ![r] = s]
    /\ UNCHANGED <<local, entry, answer, enabled, tasks, file, media>>

\* a sys_config rewrites .env
SwitchVideo ==
    /\ enabled' = ~enabled
    /\ UNCHANGED <<local, entry, answer, task, tasks, file, media>>

\* the process dies and is started again: the map is empty, the rest stays
Crash ==
    /\ step' = [c \in Callers |-> "idle"]
    /\ req' = [c \in Callers |-> Nothing]
    /\ outcome' = [c \in Callers |-> Nothing]
    /\ given' = [c \in Callers |-> Nothing]
    /\ entry' = [r \in Requests |-> "none"]
    /\ answer' = [r \in Requests |-> Nothing]
    /\ tasks' = [r \in Requests |-> 0]
    /\ UNCHANGED <<enabled, task, file, media>>

Next ==
    \/ \E c \in Callers : CallerStep(c) \/ \E r \in Requests : HandleChat(c, r)
    \/ \E r \in Requests : TaskEnds(r)
    \/ SwitchVideo
    \/ Crash

Spec == Init /\ [][Next]_vars

\* Goroutines run, and each call of generate ends by its own timeout; the provider
\* need not finish, nor the cloud send.
FairSpec == Spec /\ \A c \in Callers : WF_vars(CallerStep(c))

----------------------------------------------------------------------------
(* Properties. *)

\* Every variable stays in its set.
TypeOK ==
    /\ step \in [Callers -> Steps]
    /\ req \in [Callers -> Requests \cup {Nothing}]
    /\ entry \in [Requests -> {"none", "open", "done"}]
    /\ answer \in [Requests -> Replies \cup {Nothing}]
    /\ outcome \in [Callers -> Replies \cup {Nothing}]
    /\ given \in [Callers -> Replies \cup {Nothing}]
    /\ enabled \in BOOLEAN
    /\ task \in [Requests -> {"none", "running", "success", "failed"}]
    /\ tasks \in [Requests -> 0..MaxTasks]
    /\ file \in [Requests -> {"none", "partial", "whole"}]
    /\ media \in [Requests -> {"none", "partial", "whole"}]

\* A message is paid for once: however often it is delivered, and whatever becomes
\* of it, one process asks the provider for one task.
OneTask == \A r \in Requests : tasks[r] <= 1

\* What is uploaded was downloaded completely, although the file has the same name
\* for every caller and an earlier process may have left a part of it.
MediaIsWhole == \A r \in Requests : media[r] # "partial"

\* A message answered with a video has one: its task succeeded and the backend got
\* the file.
VideoIsReal ==
    \A r \in Requests : answer[r] = "video" => task[r] = "success" /\ media[r] = "whole"

\* Every message that was taken is answered: no caller waits for a channel that is
\* never closed.
EveryChatAnswered == \A c \in Callers : step[c] # "idle" ~> step[c] = "idle"

\* Generate keeps the promise of VideoAnswers: one answer for all calls.
Promise == INSTANCE VideoAnswers WITH asked <- req
OneAnswer == Promise!Spec
----------------------------------------------------------------------------
(* The inductive invariant: a message has one caller that makes its video,    *)
(* exactly while its entry is open.                                           *)

Makes(c, r) == req[c] = r /\ step[c] \in Making \cup {"close"}

CallerInv(c) ==
    /\ (step[c] = "idle") = (req[c] = Nothing)
    /\ (step[c] = "answered") = (given[c] # Nothing)
    /\ step[c] = "publish" => outcome[c] # Nothing
    /\ step[c] = "publish" /\ outcome[c] = "video" =>
           task[req[c]] = "success" /\ media[req[c]] = "whole"
    /\ step[c] \in {"retrieve", "download", "copy", "upload"} => task[req[c]] = "success"
    /\ step[c] = "upload" => file[req[c]] = "whole"
    /\ step[c] \in {"config", "create"} => tasks[req[c]] = 0

EntryInv(r) ==
    /\ \A c, d \in Callers : Makes(c, r) /\ Makes(d, r) => c = d
    /\ \A c \in Callers : Makes(c, r) => entry[r] = "open"
    /\ entry[r] = "none" => tasks[r] = 0
    /\ entry[r] = "done" => answer[r] # Nothing
    /\ \A c \in Callers : req[c] = r /\ step[c] = "close" => answer[r] # Nothing
    /\ \A c \in Callers : Makes(c, r) /\ step[c] # "close" => answer[r] = Nothing
    /\ entry[r] = "none" => answer[r] = Nothing

ServiceInv ==
    /\ TypeOK
    /\ \A c \in Callers : CallerInv(c)
    /\ \A r \in Requests : EntryInv(r)
    /\ OneTask /\ MediaIsWhole /\ VideoIsReal
=============================================================================

---------------------------- MODULE RemoteCommand ----------------------------
(***************************************************************************)
(* remote_cmd: RemoteCommandRunner.Execute (internal/runner) on the        *)
(* goroutine that read the message, the operating-system process it starts *)
(* through ExecRunner, and the router's reply.  Commands share nothing, so *)
(* one reader is enough.                                                   *)
(*                                                                         *)
(* exec.Cmd is external.  Its Run starts the process; a watcher kills it   *)
(* when the context ends; Run returns when the process was waited for AND  *)
(* its output has ended.  The output is a pipe, which whatever the command *)
(* started may hold open after the command itself is gone.  The time limit *)
(* is positive for every request (Execute replaces one that is not, and    *)
(* normalize sees to the default), so a deadline always comes; how far     *)
(* away it is, and the text of the output, are left out.                   *)
(***************************************************************************)
EXTENDS Integers

CONSTANTS
    Commands,    \* commands the cloud sends
    Base,        \* the last element of each command's path
    AllowAll,    \* allow_all
    Whitelist,   \* whitelist: commands or last elements; empty: no restriction
    None         \* no command

ASSUME NoneAssumption == None \notin Commands

VARIABLES
    at,       \* where the reader is
    command,  \* the command it was asked to run, or none
    proc,     \* the command's process, until Wait has reaped it
    exit,     \* how that process ended
    err,      \* the error Run returns
    output,   \* "held" while something the command started keeps the pipe open
    runCtx,   \* the command's context; shutdown ends it too
    daemon,   \* whether SIGTERM has cancelled the daemon's context
    status    \* the status of the reply

vars == <<at, command, proc, exit, err, output, runCtx, daemon, status>>

Places   == {"idle", "start", "wait", "drain", "judge", "reply"}
Statuses == {"rejected", "timeout", "failed", "success"}

\* no command in hand
Fresh ==
    /\ at' = "idle" /\ command' = None
    /\ proc' = "none" /\ exit' = "none" /\ err' = "none" /\ output' = "free"
    /\ runCtx' = "live" /\ status' = "none"

Init ==
    /\ at = "idle" /\ command = None
    /\ proc = "none" /\ exit = "none" /\ err = "none" /\ output = "free"
    /\ runCtx = "live" /\ daemon = "runs" /\ status = "none"

----------------------------------------------------------------------------
(* Execute.                                                                  *)

\* validate
Allowed(c) == AllowAll \/ Whitelist = {} \/ c \in Whitelist \/ Base[c] \in Whitelist

\* handleRemoteCmd passes the request to Execute; a payload that does not parse,
\* like a command that may not run, is answered at once
Receive(c) ==
    /\ at = "idle"
    /\ command' = c
    /\ \/ Allowed(c) /\ at' = "start" /\ UNCHANGED status
       \/ at' = "reply" /\ status' = "rejected"
    /\ runCtx' = (IF daemon = "runs" THEN "live" ELSE "canceled")
    /\ UNCHANGED <<proc, exit, err, output, daemon>>

Start ==
    /\ at = "start" /\ runCtx = "live"
    /\ at' = "wait" /\ proc' = "running"
    /\ UNCHANGED <<command, exit, err, output, runCtx, daemon, status>>

\* there is no such file or directory, or the context has ended by now
StartFails ==
    /\ at = "start"
    /\ at' = "judge" /\ err' = "start"
    /\ UNCHANGED <<command, proc, exit, output, runCtx, daemon, status>>

\* mutant: Run returns when its context ends
ReapAbandons ==
    /\ at = "wait" /\ (proc = "exited" \/ runCtx # "live")
    /\ at' = "drain"
    /\ err' = (IF exit \in {"nonzero", "killed"} THEN "exit" ELSE err)
    /\ UNCHANGED <<command, proc, exit, output, runCtx, daemon, status>>

\* Wait returns the process's state; an exit status other than 0 is an error
Reap ==
    /\ at = "wait" /\ proc = "exited"
    /\ at' = "drain" /\ proc' = "reaped"
    /\ err' = (IF exit \in {"nonzero", "killed"} THEN "exit" ELSE err)
    /\ UNCHANGED <<command, exit, output, runCtx, daemon, status>>

\* cmd.WaitDelay is not set: the rest of the output is awaited without a limit
Drain ==
    /\ at = "drain" /\ output = "free"
    /\ at' = "judge"
    /\ UNCHANGED <<command, proc, exit, err, output, runCtx, daemon, status>>

\* ProcessState.ExitCode(), or 0 without a process
ExitCode == IF exit \in {"none", "zero"} THEN 0 ELSE IF exit = "killed" THEN -1 ELSE 1

\* mutants: the exit code alone decides; the end of the context is a status
VerdictByCode  == IF runCtx = "deadline" THEN "timeout" ELSE IF ExitCode # 0 THEN "failed" ELSE "success"
VerdictOfCtx   == IF runCtx # "live" THEN runCtx
                  ELSE IF err # "none" \/ ExitCode # 0 THEN "failed" ELSE "success"

\* the deadline is looked at first, and it may have passed after the process ended
Verdict ==
    IF runCtx = "deadline" THEN "timeout"
    ELSE IF err # "none" \/ ExitCode # 0 THEN "failed"
    ELSE "success"

Judge ==
    /\ at = "judge"
    /\ at' = "reply" /\ status' = Verdict
    /\ UNCHANGED <<command, proc, exit, err, output, runCtx, daemon>>

\* sent or dropped, the reply ends the handler
Reply ==
    /\ at = "reply"
    /\ Fresh
    /\ UNCHANGED daemon

----------------------------------------------------------------------------
(* The process, its descendants, time and the daemon.                        *)

Exit ==
    /\ proc = "running"
    /\ proc' = "exited" /\ exit' \in {"zero", "nonzero"}
    /\ UNCHANGED <<at, command, err, output, runCtx, daemon, status>>

\* something is started that inherits the output ...
Fork ==
    /\ proc = "running" /\ output = "free"
    /\ output' = "held"
    /\ UNCHANGED <<at, command, proc, exit, err, runCtx, daemon, status>>

\* ... and some day it may end
Release ==
    /\ output = "held"
    /\ output' = "free"
    /\ UNCHANGED <<at, command, proc, exit, err, runCtx, daemon, status>>

\* mutant: exec.Command instead of exec.CommandContext, nothing is killed
KillNever == FALSE /\ UNCHANGED vars

\* exec.Cmd's watcher, after the context has ended: SIGKILL for the process, not
\* for what it started.  One that has exited and was not yet waited for takes the
\* signal too, and Run then returns the context's error although it exited by itself.
Kill ==
    /\ at = "wait" /\ runCtx # "live" /\ err = "none"
    /\ proc' = "exited"
    /\ exit' = (IF proc = "running" THEN "killed" ELSE exit)
    /\ err' = "context"
    /\ UNCHANGED <<at, command, output, runCtx, daemon, status>>

Deadline ==
    /\ at \in {"start", "wait", "drain", "judge"} /\ runCtx = "live"
    /\ runCtx' = "deadline"
    /\ UNCHANGED <<at, command, proc, exit, err, output, daemon, status>>

\* SIGTERM: main's context ends, and with it the command's
Cancel ==
    /\ daemon = "runs"
    /\ daemon' = "stops"
    /\ runCtx' = (IF runCtx = "live" THEN "canceled" ELSE runCtx)
    /\ UNCHANGED <<at, command, proc, exit, err, output, status>>

\* the process of the daemon ends and systemd starts it again; what the commands
\* started is in its control group and ends with it
Restart == Fresh /\ daemon' = "runs"

RunnerStep == Start \/ StartFails \/ Reap \/ Drain \/ Judge \/ Reply

Next ==
    \/ \E c \in Commands : Receive(c)
    \/ RunnerStep
    \/ Exit \/ Fork \/ Release
    \/ Kill \/ Deadline \/ Cancel
    \/ Restart

Spec == Init /\ [][Next]_vars

(* The reader and the watcher run when they can, and time passes.  A command *)
(* need not end by itself, and what it started may hold the output for ever. *)
Fairness == WF_vars(RunnerStep) /\ WF_vars(Kill) /\ WF_vars(Deadline)

FairSpec == Spec /\ Fairness

----------------------------------------------------------------------------
(* Properties.                                                               *)

\* Every variable stays in its set; there is a command from its request to its reply.
TypeOK ==
    /\ at \in Places /\ command \in Commands \cup {None}
    /\ proc \in {"none", "running", "exited", "reaped"}
    /\ exit \in {"none", "zero", "nonzero", "killed"}
    /\ err \in {"none", "start", "context", "exit"}
    /\ output \in {"free", "held"}
    /\ runCtx \in {"live", "deadline", "canceled"} /\ daemon \in {"runs", "stops"}
    /\ status \in Statuses \cup {"none"}
    /\ (status = "none") = (at # "reply")

\* The status says what happened, however exit, deadline, kill and shutdown fall
\* together.  "success": the command was allowed, ran, exited 0 by itself, and
\* its output is complete.  "rejected": nothing was started.  "failed" with exit
\* code 0: it did not start, or the daemon was stopping.  "timeout": the
\* deadline has passed.
ResultIsTruthful ==
    /\ status = "success"  => Allowed(command) /\ proc = "reaped" /\ exit = "zero" /\ output = "free"
    /\ status = "rejected" => proc = "none"
    /\ status = "failed" /\ ExitCode = 0 => proc = "none" \/ runCtx = "canceled"
    /\ status = "timeout"  => runCtx = "deadline"

\* No result is sent while the process of the command is still there, not even
\* "timeout": a command the cloud was told about does nothing more by itself.
ProcessIsGone == at \in {"drain", "judge", "reply", "idle"} => proc \in {"none", "reaped"}

\* A command that never ends is killed at its deadline and answered, and the
\* reader gets to the next message, if its output does not stay open for ever:
\* the time limit bounds the command, not what it leaves behind.
CommandEnds == []<>(output = "free") => (at # "idle" ~> at = "idle")
----------------------------------------------------------------------------
(* The inductive invariant: what is known at each step of Execute.            *)

\* the process was reaped; its exit is known and so is what Run returns of it
Ended ==
    /\ proc = "reaped" /\ exit \in {"zero", "nonzero", "killed"}
    /\ exit = "zero" => err = "none" \/ (err = "context" /\ runCtx # "live")

Inv ==
    /\ TypeOK
    /\ at = "idle"  => proc = "none" /\ exit = "none" /\ err = "none"
    /\ at = "start" => Allowed(command) /\ proc = "none" /\ exit = "none" /\ err = "none"
    /\ at = "wait"  =>
        /\ Allowed(command)
        /\ \/ proc = "running" /\ exit = "none" /\ err = "none"
           \/ proc = "exited" /\ exit \in {"zero", "nonzero", "killed"}
        /\ err = "none" \/ (err = "context" /\ runCtx # "live")
    /\ at = "drain" => Allowed(command) /\ Ended
    /\ at = "judge" =>
        /\ Allowed(command)
        /\ (proc = "none" /\ exit = "none" /\ err = "start") \/ (Ended /\ output = "free")
    /\ at = "reply" => proc \in {"none", "reaped"}
    /\ ResultIsTruthful
=============================================================================

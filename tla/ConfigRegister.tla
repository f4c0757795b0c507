--------------------------- MODULE ConfigRegister ---------------------------
(***************************************************************************)
(* What the cloud may rely on when it sends sys_config messages to a daemon *)
(* that handles one at a time: the recorded version is a register that      *)
(* takes a version only if it is newer, says which of the two happened, and *)
(* forgets nothing in a crash.  How Apply does it, over a dozen steps on    *)
(* four files and a process, is module ConfigManager, which implements it.  *)
(***************************************************************************)
EXTENDS Integers

CONSTANTS Handlers, Versions

VARIABLES
    recorded,  \* the version in the state file
    phase,     \* of each handler
    asked,     \* the version each handler was asked to apply
    answer     \* its acknowledgement

vars == <<recorded, phase, asked, answer>>

Init ==
    /\ recorded = 0
    /\ phase = [h \in Handlers |-> "idle"]
    /\ asked = [h \in Handlers |-> 0]
    /\ answer = [h \in Handlers |-> "none"]

Request(h, v) ==
    /\ phase[h] = "idle"
    /\ phase' = [phase EXCEPT ![h] = "busy"]
    /\ asked' = [asked EXCEPT ![h] = v]
    /\ UNCHANGED <<recorded, answer>>

Answer(h, a) ==
    /\ phase[h] = "busy"
    /\ phase' = [phase EXCEPT ![h] = "answered"]
    /\ answer' = [answer EXCEPT ![h] = a]
    /\ UNCHANGED asked

\* a newer version is taken in the step that answers "success"
Raise(h) ==
    /\ asked[h] > recorded
    /\ recorded' = asked[h]
    /\ Answer(h, "success")

\* "ignored" means that the version, or a newer one, is the recorded one
Ignore(h) ==
    /\ asked[h] <= recorded
    /\ Answer(h, "ignored")
    /\ UNCHANGED recorded

\* it may fail at any time, and then takes nothing
Fail(h) == Answer(h, "failed") /\ UNCHANGED recorded

Return(h) ==
    /\ phase[h] = "answered"
    /\ phase' = [phase EXCEPT ![h] = "idle"]
    /\ answer' = [answer EXCEPT ![h] = "none"]
    /\ asked' = [asked EXCEPT ![h] = 0]
    /\ UNCHANGED recorded

Crash ==
    /\ phase' = [h \in Handlers |-> "idle"]
    /\ answer' = [h \in Handlers |-> "none"]
    /\ asked' = [h \in Handlers |-> 0]
    /\ UNCHANGED recorded

Next ==
    \/ \E h \in Handlers :
         \/ \E v \in Versions : Request(h, v)
         \/ Raise(h) \/ Ignore(h) \/ Fail(h)
         \/ Return(h)
    \/ Crash

Spec == Init /\ [][Next]_vars
=============================================================================

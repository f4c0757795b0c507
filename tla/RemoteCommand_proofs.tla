------------------------ MODULE RemoteCommand_proofs ------------------------
(***************************************************************************)
(* The safety properties of RemoteCommand, for any commands and whitelist.  *)
(* A status is right because of what is known at the step before it; Inv    *)
(* writes that down, from the start of the process on.                      *)
(***************************************************************************)
EXTENDS RemoteCommand, TLAPS

\* Before the first command Inv holds.
LEMMA InitInv == Init => Inv
BY DEF Init, Inv, TypeOK, ResultIsTruthful, ExitCode, Places, Statuses

\* A request brings Inv to its first step, or to its rejection.
LEMMA ReceiveInv == ASSUME Inv, NEW c \in Commands, Receive(c) PROVE Inv'
BY DEF Inv, TypeOK, ResultIsTruthful, ExitCode, Receive, Allowed, Places, Statuses, Ended

\* The steps of the reader keep Inv.
LEMMA RunnerInv == ASSUME Inv, RunnerStep PROVE Inv'
<1>1. CASE Start
  BY <1>1 DEF Start, Inv, TypeOK, ResultIsTruthful, ExitCode, Allowed, Places, Statuses, Ended
<1>2. CASE StartFails
  BY <1>2 DEF StartFails, Inv, TypeOK, ResultIsTruthful, ExitCode, Allowed, Places, Statuses, Ended
<1>3. CASE Reap
  BY <1>3 DEF Reap, Inv, TypeOK, ResultIsTruthful, ExitCode, Allowed, Places, Statuses, Ended
<1>4. CASE Drain
  BY <1>4 DEF Drain, Inv, TypeOK, ResultIsTruthful, ExitCode, Allowed, Places, Statuses, Ended
<1>5. CASE Judge
  BY <1>5 DEF Judge, Verdict, Inv, TypeOK, ResultIsTruthful, ExitCode, Allowed, Places, Statuses, Ended
<1>6. CASE Reply
  BY <1>6 DEF Reply, Fresh, Inv, TypeOK, ResultIsTruthful, ExitCode, Places, Statuses, Ended
<1> QED BY <1>1, <1>2, <1>3, <1>4, <1>5, <1>6 DEF RunnerStep

\* So do the process, what it starts, time, and the daemon's end.
LEMMA OutsideInv ==
    ASSUME Inv, Exit \/ Fork \/ Release \/ Kill \/ Deadline \/ Cancel \/ Restart
    PROVE  Inv'
<1>1. CASE Exit
  BY <1>1 DEF Exit, Inv, TypeOK, ResultIsTruthful, ExitCode, Allowed, Places, Statuses, Ended
<1>2. CASE Fork
  BY <1>2 DEF Fork, Inv, TypeOK, ResultIsTruthful, ExitCode, Allowed, Places, Statuses, Ended
<1>3. CASE Release
  BY <1>3 DEF Release, Inv, TypeOK, ResultIsTruthful, ExitCode, Allowed, Places, Statuses, Ended
<1>4. CASE Kill
  BY <1>4 DEF Kill, Inv, TypeOK, ResultIsTruthful, ExitCode, Allowed, Places, Statuses, Ended
<1>5. CASE Deadline
  BY <1>5 DEF Deadline, Inv, TypeOK, ResultIsTruthful, ExitCode, Allowed, Places, Statuses, Ended
<1>6. CASE Cancel
  BY <1>6 DEF Cancel, Inv, TypeOK, ResultIsTruthful, ExitCode, Allowed, Places, Statuses, Ended
<1>7. CASE Restart
  BY <1>7 DEF Restart, Fresh, Inv, TypeOK, ResultIsTruthful, ExitCode, Places, Statuses
<1> QED BY <1>1, <1>2, <1>3, <1>4, <1>5, <1>6, <1>7

\* Every reachable state satisfies Inv.
THEOREM Invariance == Spec => []Inv
<1>1. Inv /\ [Next]_vars => Inv'
  <2> SUFFICES ASSUME Inv, [Next]_vars PROVE Inv'
    OBVIOUS
  <2>1. CASE \E c \in Commands : Receive(c)
    BY <2>1, ReceiveInv
  <2>2. CASE RunnerStep
    BY <2>2, RunnerInv
  <2>3. CASE Exit \/ Fork \/ Release \/ Kill \/ Deadline \/ Cancel \/ Restart
    BY <2>3, OutsideInv
  <2>4. CASE UNCHANGED vars
    BY <2>4 DEF vars, Inv, TypeOK, ResultIsTruthful, ExitCode, Allowed, Ended
  <2> QED BY <2>1, <2>2, <2>3, <2>4 DEF Next
<1> QED BY InitInv, <1>1, PTL DEF Spec

\* Every variable of the runner stays in its set.
THEOREM TypeCorrect == Spec => []TypeOK
<1>1. Inv => TypeOK
  BY DEF Inv
<1> QED BY Invariance, <1>1, PTL

\* The status of a result says what happened to the command, whatever exit,
\* deadline, kill and shutdown fall together.
THEOREM StatusIsTrue == Spec => []ResultIsTruthful
<1>1. Inv => ResultIsTruthful
  BY DEF Inv
<1> QED BY Invariance, <1>1, PTL

\* When Execute returns the process of its command is gone.
THEOREM NothingRunsOn == Spec => []ProcessIsGone
<1>1. Inv => ProcessIsGone
  BY DEF Inv, Ended, ProcessIsGone
<1> QED BY Invariance, <1>1, PTL
=============================================================================

---------------------------- MODULE VideoAnswers ----------------------------
(***************************************************************************)
(* What video.Service.Generate promises its callers: a request is answered *)
(* once, and every call of the request is given that answer, however many  *)
(* there are and whenever they come.  Only a service that is switched off  *)
(* refuses a call, and a crash forgets the answers.                        *)
(***************************************************************************)
CONSTANTS Callers, Requests, Replies, Refusal, Nothing

VARIABLES
    asked,   \* the request each caller waits for
    given,   \* what it was given
    answer   \* the answer of each request

vars == <<asked, given, answer>>

Init ==
    /\ asked = [c \in Callers |-> Nothing]
    /\ given = [c \in Callers |-> Nothing]
    /\ answer = [r \in Requests |-> Nothing]

Ask(c, r) ==
    /\ asked[c] = Nothing
    /\ asked' = [asked EXCEPT ![c] = r]
    /\ UNCHANGED <<given, answer>>

Decide(r) ==
    /\ answer[r] = Nothing
    /\ \E c \in Callers : asked[c] = r /\ given[c] = Nothing
    /\ \E a \in Replies : answer' = [answer EXCEPT ![r] = a]
    /\ UNCHANGED <<asked, given>>

Waiting(c) == asked[c] # Nothing /\ given[c] = Nothing

Give(c) ==
    /\ Waiting(c)
    /\ answer[asked[c]] # Nothing
    /\ given' = [given EXCEPT ![c] = answer[asked[c]]]
    /\ UNCHANGED <<asked, answer>>

Refuse(c) ==
    /\ Waiting(c)
    /\ given' = [given EXCEPT ![c] = Refusal]
    /\ UNCHANGED <<asked, answer>>

Leave(c) ==
    /\ given[c] # Nothing
    /\ asked' = [asked EXCEPT ![c] = Nothing]
    /\ given' = [given EXCEPT ![c] = Nothing]
    /\ UNCHANGED answer

Forget ==
    /\ asked' = [c \in Callers |-> Nothing]
    /\ given' = [c \in Callers |-> Nothing]
    /\ answer' = [r \in Requests |-> Nothing]

Next ==
    \/ \E c \in Callers : (\E r \in Requests : Ask(c, r)) \/ Give(c) \/ Refuse(c) \/ Leave(c)
    \/ \E r \in Requests : Decide(r)
    \/ Forget

Spec == Init /\ [][Next]_vars
=============================================================================

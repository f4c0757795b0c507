------------------------- MODULE CloudClient_proofs -------------------------
(***************************************************************************)
(* Proofs about CloudClient, for any number of connections, frames and     *)
(* replies and any backoff: the types, what c.conn points to, the place of *)
(* the auth_req, and the order of replies over reconnections.              *)
(***************************************************************************)
EXTENDS CloudClient, TLAPS

USE DEF Main, None, RunSteps, ReaderSteps

----------------------------------------------------------------------------
(* Type correctness. *)

\* the numbers of the connections, and the ranges of the counters
LEMMA ConnNumbers == Conns \subseteq Nat \ {0} /\ Writers = Conns \cup {0} /\ Writers = 0..MaxConns
BY BoundsAssumption DEF Conns, Writers

LEMMA Counting ==
    ASSUME NEW k \in Nat, NEW n \in 0..k, n < k
    PROVE  n + 1 \in 0..k
OBVIOUS

LEMMA InitType == Init => TypeInv
<1> SUFFICES ASSUME Init PROVE TypeInv
    OBVIOUS
<1>1. 0 \in 0..MaxFrames /\ 0 \in 0..MaxReplies /\ 0 \in 0..1 /\ 0 \in 0..MaxConns
    BY BoundsAssumption
<1>2. ReconnectMin \in ReconnectMin..ReconnectMax
    BY BackoffAssumption
<1>3. <<>> \in Seq(Sendable)
    OBVIOUS
<1> QED BY <1>1, <1>2, <1>3, ConnNumbers DEF Init, TypeInv, TypeOK

\* what a write adds to which log
LEMMA WriteAppends ==
    ASSUME TypeOK, NEW w \in Writers, NEW msg \in Sendable, WriteOK(w, msg)
    PROVE  /\ target[w] \in Conns
           /\ sent' \in [Conns -> Seq(Sendable)]
           /\ target' \in [Writers -> Writers]
           /\ \A c \in Conns \ {target[w]} : sent'[c] = sent[c]
           /\ Len(sent'[target[w]]) = Len(sent[target[w]]) + 1
           /\ sent'[target[w]][Len(sent[target[w]]) + 1] = msg
           /\ \A i \in 1..Len(sent[target[w]]) : sent'[target[w]][i] = sent[target[w]][i]
<1>1. target[w] \in Conns /\ sent[target[w]] \in Seq(Sendable)
    BY ConnNumbers DEF WriteOK, TypeOK
<1>2. sent' = [sent EXCEPT ![target[w]] = Append(sent[target[w]], msg)]
    BY DEF WriteOK
<1>3. sent'[target[w]] = Append(sent[target[w]], msg)
    BY <1>1, <1>2 DEF TypeOK
<1>4. Append(sent[target[w]], msg) \in Seq(Sendable)
    BY <1>1
<1>5. sent' \in [Conns -> Seq(Sendable)]
    BY <1>1, <1>2, <1>4 DEF TypeOK
<1>6. target' \in [Writers -> Writers]
    BY ConnNumbers DEF WriteOK, TypeOK
<1>7. \A c \in Conns \ {target[w]} : sent'[c] = sent[c]
    BY <1>1, <1>2 DEF TypeOK
<1> QED BY <1>1, <1>3, <1>5, <1>6, <1>7

\* a reply is a message that can be sent
LEMMA ReplySendable ==
    ASSUME TypeInv, NEW g \in Conns, reader[g] = "send"
    PROVE  <<g, taken[g]>> \in Sendable
BY BoundsAssumption DEF TypeInv, TypeOK, Sendable

LEMMA MainType == TypeInv /\ MainStep => TypeInv'
<1> SUFFICES ASSUME TypeInv, MainStep PROVE TypeInv'
    OBVIOUS
<1> USE ConnNumbers DEF TypeInv, TypeOK, mainVars, netVars, AfterReturn
<1>1. CASE DialFails
    BY <1>1 DEF DialFails
<1>2. CASE DialOK
    <2>1. gen + 1 \in Writers /\ gen + 1 \in 0..MaxConns
        <3>1. gen \in 0..MaxConns /\ gen < MaxConns
            BY <1>2 DEF DialOK
        <3>2. QED BY <3>1, BoundsAssumption, Counting
    <2>2. QED BY <1>2, <2>1 DEF DialOK
<1>3. CASE BeginMain
    BY <1>3 DEF BeginMain, BeginWrite
<1>4. CASE AuthOK
    <2>1. sent' \in [Conns -> Seq(Sendable)] /\ target' \in [Writers -> Writers]
        BY <1>4, WriteAppends DEF AuthOK, Sendable
    <2>2. QED BY <1>4, <2>1 DEF AuthOK
<1>5. CASE PingOK
    BY <1>5 DEF PingOK
<1>6. CASE MainWriteFails
    BY <1>6 DEF MainWriteFails, WriteFails
<1>7. CASE SelectDone
    BY <1>7 DEF SelectDone
<1>8. CASE SelectErr
    <2>1. readErr[gen] \in 0..1 /\ readErr[gen] > 0 => readErr[gen] - 1 \in 0..1
        OBVIOUS
    <2>2. gen \in Conns => readErr' \in [Conns -> 0..1]
        BY <1>8, <2>1 DEF SelectErr
    <2>3. gen \notin Conns => readErr' = readErr
        BY <1>8 DEF SelectErr
    <2>4. QED BY <1>8, <2>2, <2>3 DEF SelectErr
<1>9. CASE SelectTick
    BY <1>9 DEF SelectTick
<1>10. CASE Unset
    BY <1>10 DEF Unset
<1>11. CASE Close
    BY <1>11 DEF Close
<1>12. CASE Retry
    <2>1. backoff' \in ReconnectMin..ReconnectMax
        BY <1>12, BackoffAssumption DEF Retry
    <2>2. QED BY <1>12, <2>1 DEF Retry
<1>13. CASE GiveUp
    BY <1>13 DEF GiveUp
<1> QED
    BY <1>1, <1>2, <1>3, <1>4, <1>5, <1>6, <1>7, <1>8, <1>9, <1>10, <1>11, <1>12, <1>13 DEF MainStep

LEMMA ReaderType == ASSUME TypeInv, NEW g \in Conns, ReaderStep(g) PROVE TypeInv'
<1> USE ConnNumbers DEF TypeInv, TypeOK, mainVars, netVars, ReaderGoto
<1>a. NextFrame(g) => taken' \in [Conns -> 0..MaxFrames] /\ taken'[g] > 0
                      /\ \A h \in Conns \ {g} : taken'[h] = taken[h]
    <2> SUFFICES ASSUME NextFrame(g) PROVE taken' \in [Conns -> 0..MaxFrames] /\ taken'[g] > 0
                                           /\ \A h \in Conns \ {g} : taken'[h] = taken[h]
        OBVIOUS
    <2>1. taken[g] + 1 \in 0..MaxFrames /\ taken[g] + 1 > 0
        BY BoundsAssumption DEF NextFrame
    <2>2. QED BY <2>1 DEF NextFrame
<1>b. MayReply(g) => replied[g] + 1 \in 0..MaxReplies
    BY BoundsAssumption DEF MayReply
<1>1. CASE LoopHead(g)
    BY <1>1 DEF LoopHead
<1>2. CASE SkipFrame(g)
    BY <1>2, <1>a DEF SkipFrame
<1>3. CASE AuthResp(g)
    BY <1>3, <1>a DEF AuthResp
<1>4. CASE TakeRequest(g)
    <2>1. 0 \in 0..MaxReplies
        BY BoundsAssumption
    <2>2. QED BY <1>4, <1>a, <2>1 DEF TakeRequest
<1>5. CASE ReadFails(g)
    BY <1>5 DEF ReadFails
<1>6. CASE BeginReply(g)
    BY <1>6, <1>b DEF BeginReply, BeginWrite, MayReply
<1>7. CASE DropReply(g)
    BY <1>7, <1>b DEF DropReply
<1>8. CASE SendOK(g)
    <2>1. sent' \in [Conns -> Seq(Sendable)] /\ target' \in [Writers -> Writers]
        BY <1>8, WriteAppends, ReplySendable DEF SendOK
    <2>2. QED BY <1>8, <2>1 DEF SendOK
<1>9. CASE SendFails(g)
    BY <1>9 DEF SendFails, WriteFails
<1>10. CASE HandlerReturns(g)
    BY <1>10 DEF HandlerReturns
<1>11. CASE ExitReader(g)
    <2>1. readErr[g] + 1 \in 0..1
        <3>1. readErr[g] \in 0..1 /\ readErr[g] < 1
            BY <1>11 DEF ExitReader
        <3>2. QED BY <3>1, Counting
    <2>2. QED BY <1>11, <2>1 DEF ExitReader
<1> QED
    BY <1>1, <1>2, <1>3, <1>4, <1>5, <1>6, <1>7, <1>8, <1>9, <1>10, <1>11 DEF ReaderStep

\* the network, the signal and the death of the process
Surroundings == (\E g \in Conns : Arrive(g) \/ Break(g)) \/ Cancel \/ Die

\* The safety properties need no more than this of Next: the process may also die
\* when nothing panics.
AnyStep == MainStep \/ (\E g \in Conns : ReaderStep(g)) \/ Surroundings \/ UNCHANGED vars

LEMMA StepCases == [Next]_vars => AnyStep
BY DEF AnyStep, Next, Surroundings, Panic, Stopped

LEMMA SurroundingsType == TypeInv /\ Surroundings => TypeInv'
<1> SUFFICES ASSUME TypeInv, Surroundings PROVE TypeInv'
    OBVIOUS
<1> USE ConnNumbers DEF TypeInv, TypeOK, mainVars, netVars
<1>1. CASE \E g \in Conns : Arrive(g)
    <2> PICK g \in Conns : Arrive(g)
        BY <1>1
    <2>1. arrived[g] + 1 \in 0..MaxFrames
        BY BoundsAssumption DEF Arrive
    <2>2. QED BY <2>1 DEF Arrive
<1>2. CASE \E g \in Conns : Break(g)
    BY <1>2 DEF Break
<1>3. CASE Cancel
    BY <1>3 DEF Cancel
<1>4. CASE Die
    <2>1. ReconnectMin \in ReconnectMin..ReconnectMax /\ 0 \in 0..1 /\ 0 \in 0..MaxReplies
        BY BoundsAssumption, BackoffAssumption
    <2>2. QED BY <1>4, <2>1 DEF Die
<1> QED BY <1>1, <1>2, <1>3, <1>4 DEF Surroundings

LEMMA StepType == TypeInv /\ AnyStep => TypeInv'
<1> SUFFICES ASSUME TypeInv, AnyStep PROVE TypeInv'
    OBVIOUS
<1>1. CASE UNCHANGED vars
    BY <1>1 DEF TypeInv, TypeOK, vars
<1> QED BY <1>1, MainType, ReaderType, SurroundingsType DEF AnyStep

LEMMA TypeInvariance == Spec => []TypeInv
BY InitType, StepType, StepCases, PTL DEF Spec

\* The variables keep their types whatever the network, the cloud and the
\* scheduler do.
THEOREM TypeCorrect == Spec => []TypeOK
<1>1. TypeInv => TypeOK
    BY DEF TypeInv
<1> QED BY <1>1, TypeInvariance, PTL

----------------------------------------------------------------------------
(* What c.conn points to: ConnInv. *)

\* steps that leave the sockets, the phase and the writes of Run alone
LEMMA ConnFrame ==
    ASSUME ConnInv, UNCHANGED <<run, gen, conn, sock>>, target'[Main] = target[Main]
    PROVE  ConnInv'
BY DEF ConnInv

LEMMA MainConn == TypeOK /\ ConnInv /\ MainStep => ConnInv'
<1> SUFFICES ASSUME TypeOK, ConnInv, MainStep PROVE ConnInv'
    OBVIOUS
<1> USE ConnNumbers DEF ConnInv, mainVars, netVars, AfterReturn
<1>1. CASE DialFails
    BY <1>1 DEF DialFails
<1>2. CASE DialOK
    <2>1. gen + 1 > 0 /\ gen + 1 \in Conns
        BY <1>2, BoundsAssumption DEF DialOK, TypeOK, Conns
    <2>2. sock'[gen + 1] = "open"
        BY <1>2, <2>1 DEF DialOK, TypeOK
    <2>3. QED BY <1>2, <2>1, <2>2 DEF DialOK
<1>3. CASE BeginMain
    <2>1. target'[Main] = gen /\ run \in {"auth", "ping"}
        BY <1>3 DEF BeginMain, BeginWrite, TypeOK
    <2>2. QED BY <1>3, <2>1 DEF BeginMain
<1>4. CASE AuthOK
    <2>1. target'[Main] = None
        BY <1>4 DEF AuthOK, WriteOK, TypeOK
    <2>2. QED BY <1>4, <2>1 DEF AuthOK
<1>5. CASE PingOK
    <2>1. target'[Main] = None
        BY <1>5 DEF PingOK, TypeOK
    <2>2. QED BY <1>5, <2>1 DEF PingOK
<1>6. CASE MainWriteFails
    <2>1. target'[Main] = None
        BY <1>6 DEF MainWriteFails, WriteFails, TypeOK
    <2>2. QED BY <1>6, <2>1 DEF MainWriteFails
<1>7. CASE SelectDone
    BY <1>7 DEF SelectDone
<1>8. CASE SelectErr
    BY <1>8 DEF SelectErr
<1>9. CASE SelectTick
    BY <1>9 DEF SelectTick
<1>10. CASE Unset
    BY <1>10 DEF Unset
<1>11. CASE Close
    BY <1>11 DEF Close
<1>12. CASE Retry
    BY <1>12 DEF Retry
<1>13. CASE GiveUp
    BY <1>13 DEF GiveUp
<1> QED
    BY <1>1, <1>2, <1>3, <1>4, <1>5, <1>6, <1>7, <1>8, <1>9, <1>10, <1>11, <1>12, <1>13 DEF MainStep

\* a reader's step touches no write but its own
LEMMA ReaderFrame ==
    ASSUME TypeOK, NEW g \in Conns, ReaderStep(g)
    PROVE  /\ UNCHANGED <<run, gen, conn, sock, arrived>>
           /\ \A w \in Writers \ {g} : target'[w] = target[w]
           /\ \A h \in Conns \ {g} : reader'[h] = reader[h] /\ taken'[h] = taken[h]
<1> USE DEF TypeOK, mainVars, netVars, ReaderGoto
<1>1. CASE LoopHead(g)
    BY <1>1 DEF LoopHead
<1>2. CASE SkipFrame(g) \/ AuthResp(g) \/ TakeRequest(g)
    BY <1>2 DEF SkipFrame, AuthResp, TakeRequest, NextFrame
<1>3. CASE ReadFails(g)
    BY <1>3 DEF ReadFails
<1>4. CASE BeginReply(g)
    BY <1>4 DEF BeginReply, BeginWrite
<1>5. CASE DropReply(g)
    BY <1>5 DEF DropReply
<1>6. CASE SendOK(g)
    BY <1>6 DEF SendOK, WriteOK
<1>7. CASE SendFails(g)
    BY <1>7 DEF SendFails, WriteFails
<1>8. CASE HandlerReturns(g)
    BY <1>8 DEF HandlerReturns
<1>9. CASE ExitReader(g)
    BY <1>9 DEF ExitReader
<1> QED BY <1>1, <1>2, <1>3, <1>4, <1>5, <1>6, <1>7, <1>8, <1>9 DEF ReaderStep

LEMMA ReaderConn == ASSUME TypeOK, ConnInv, NEW g \in Conns, ReaderStep(g) PROVE ConnInv'
BY ReaderFrame, ConnFrame, ConnNumbers

LEMMA SurroundingsConn == TypeOK /\ ConnInv /\ Surroundings => ConnInv'
<1> SUFFICES ASSUME TypeOK, ConnInv, Surroundings PROVE ConnInv'
    OBVIOUS
<1>1. CASE \E g \in Conns : Arrive(g)
    BY <1>1, ConnFrame DEF Arrive, mainVars
<1>2. CASE \E g \in Conns : Break(g)
    <2> PICK g \in Conns : Break(g)
        BY <1>2
    <2>1. sock[gen] \in {"open", "broken"} => sock'[gen] \in {"open", "broken"}
        BY DEF Break, TypeOK
    <2>2. QED BY <2>1 DEF Break, ConnInv, mainVars
<1>3. CASE Cancel
    BY <1>3, ConnFrame DEF Cancel, netVars
<1>4. CASE Die
    <2>1. target'[Main] = None
        BY <1>4, ConnNumbers DEF Die
    <2>2. QED BY <1>4, <2>1 DEF Die, ConnInv
<1> QED BY <1>1, <1>2, <1>3, <1>4 DEF Surroundings

LEMMA InitConn == Init => ConnInv
BY ConnNumbers DEF Init, ConnInv

LEMMA ConnStep == TypeInv /\ ConnInv /\ AnyStep => ConnInv'
<1> SUFFICES ASSUME TypeInv, ConnInv, AnyStep PROVE ConnInv'
    OBVIOUS
<1>1. TypeOK
    BY DEF TypeInv
<1>2. CASE UNCHANGED vars
    BY <1>2, ConnFrame DEF vars
<1> QED BY <1>1, <1>2, MainConn, ReaderConn, SurroundingsConn DEF AnyStep

LEMMA ConnInvariance == Spec => []ConnInv
BY InitConn, ConnStep, StepCases, TypeInvariance, PTL DEF Spec

LEMMA ConnLives == TypeInv /\ ConnInv => ConnIsLive
<1> SUFFICES ASSUME TypeInv, ConnInv, conn # None PROVE conn = gen /\ sock[conn] \in {"open", "broken"}
    BY DEF ConnIsLive
<1>1. run \in {"auth", "select", "ping", "unset"}
    BY DEF TypeInv, TypeOK, ConnInv
<1> QED BY <1>1 DEF ConnInv

\* c.conn is the newest connection or none, and is never a closed one.
THEOREM ConnIsNewest == Spec => []ConnIsLive
BY ConnLives, TypeInvariance, ConnInvariance, PTL

----------------------------------------------------------------------------
(* The log.  It changes in two kinds of steps only: the auth_req of AuthOK and *)
(* the reply of SendOK.                                                        *)

Quiet ==
    /\ sent' = sent
    /\ gen' >= gen
    /\ \A g \in Conns : /\ reader'[g] # "none" => reader[g] # "none"
                        /\ taken'[g] >= taken[g]
                        /\ target'[g] \in {None, target[g], gen}

LEMMA MainQuiet == TypeOK /\ MainStep => AuthOK \/ Quiet
<1> SUFFICES ASSUME TypeOK, MainStep, ~AuthOK PROVE Quiet
    OBVIOUS
<1>1. sent' = sent /\ reader' = reader /\ taken' = taken
    BY DEF MainStep, DialFails, DialOK, BeginMain, PingOK, MainWriteFails, WriteFails, SelectDone,
           SelectErr, SelectTick, Unset, Close, Retry, GiveUp
<1>2. gen' >= gen
    BY DEF TypeOK, MainStep, DialFails, DialOK, BeginMain, PingOK, MainWriteFails, SelectDone,
           SelectErr, SelectTick, Unset, Close, Retry, GiveUp, mainVars
<1>3. \A g \in Conns : target'[g] = target[g]
    BY ConnNumbers DEF TypeOK, MainStep, DialFails, DialOK, BeginMain, BeginWrite, PingOK,
           MainWriteFails, WriteFails, SelectDone, SelectErr, SelectTick, Unset, Close, Retry, GiveUp
<1>4. \A g \in Conns : taken[g] >= taken[g]
    BY DEF TypeOK
<1> QED BY <1>1, <1>2, <1>3, <1>4 DEF Quiet

LEMMA ReaderQuiet ==
    ASSUME TypeInv, ConnInv, NEW g \in Conns, ReaderStep(g)
    PROVE  SendOK(g) \/ Quiet
<1> SUFFICES ASSUME ~SendOK(g) PROVE Quiet
    OBVIOUS
<1> USE DEF TypeInv, TypeOK
<1>1. sent' = sent
    BY DEF ReaderStep, LoopHead, SkipFrame, AuthResp, TakeRequest, ReadFails, BeginReply, DropReply,
           SendFails, WriteFails, HandlerReturns, ExitReader
<1>2. gen' = gen /\ gen' >= gen
    BY ReaderFrame
<1>3. reader[g] # "none"
    BY DEF ReaderStep, LoopHead, SkipFrame, AuthResp, TakeRequest, NextFrame, ReadFails, BeginReply,
           DropReply, MayReply, SendFails, HandlerReturns, ExitReader
<1>4. \A h \in Conns : reader'[h] # "none" => reader[h] # "none"
    BY <1>3, ReaderFrame
<1>5. taken'[g] >= taken[g]
    <2>1. taken[g] + 1 >= taken[g] /\ taken[g] >= taken[g]
        OBVIOUS
    <2>2. taken'[g] \in {taken[g], taken[g] + 1}
        BY DEF ReaderStep, LoopHead, SkipFrame, AuthResp, TakeRequest, NextFrame, ReadFails,
               BeginReply, DropReply, SendFails, HandlerReturns, ExitReader
    <2>3. QED BY <2>1, <2>2
<1>6. target'[g] \in {None, target[g], gen}
    <2>1. CASE BeginReply(g)
        <3>1. conn = gen
            BY <2>1 DEF BeginReply, BeginWrite, ConnInv
        <3>2. QED BY <2>1, <3>1, ConnNumbers DEF BeginReply, BeginWrite
    <2>2. CASE SendFails(g)
        BY <2>2, ConnNumbers DEF SendFails, WriteFails
    <2>3. CASE ~BeginReply(g) /\ ~SendFails(g)
        BY <2>3 DEF ReaderStep, LoopHead, SkipFrame, AuthResp, TakeRequest, ReadFails, DropReply,
                    HandlerReturns, ExitReader
    <2>4. QED BY <2>1, <2>2, <2>3
<1>7. \A h \in Conns \ {g} : taken'[h] >= taken[h] /\ target'[h] = target[h]
    <2>1. \A h \in Conns : taken[h] >= taken[h]
        OBVIOUS
    <2>2. QED BY <2>1, ReaderFrame, ConnNumbers
<1> QED BY <1>1, <1>2, <1>4, <1>5, <1>6, <1>7 DEF Quiet

LEMMA SurroundingsQuiet == TypeOK /\ (Surroundings \/ UNCHANGED vars) => Quiet
<1> SUFFICES ASSUME TypeOK, Surroundings \/ UNCHANGED vars PROVE Quiet
    OBVIOUS
<1>1. sent' = sent /\ gen' = gen /\ taken' = taken
    BY DEF Surroundings, Arrive, Break, Cancel, Die, mainVars, netVars, vars
<1>2. gen >= gen /\ \A g \in Conns : taken[g] >= taken[g]
    BY DEF TypeOK
<1>3. \A g \in Conns : /\ reader'[g] # "none" => reader[g] # "none"
                       /\ target'[g] \in {None, target[g]}
    BY ConnNumbers DEF Surroundings, Arrive, Break, Cancel, Die, mainVars, netVars, vars
<1> QED BY <1>1, <1>2, <1>3 DEF Quiet

LEMMA LogCases ==
    TypeInv /\ ConnInv /\ AnyStep => AuthOK \/ (\E g \in Conns : SendOK(g)) \/ Quiet
BY MainQuiet, ReaderQuiet, SurroundingsQuiet DEF TypeInv, AnyStep

----------------------------------------------------------------------------
(* The auth_req comes first: AuthInv. *)

\* what lies in a log stays where it is, and a new element obeys AuthFirst
LEMMA AppendAuth ==
    ASSUME TypeOK, AuthInv, NEW w \in Writers, NEW msg \in Sendable, WriteOK(w, msg),
           msg[1] = target[w] => \E i \in 1..Len(sent[target[w]]) : sent[target[w]][i] = Auth
    PROVE  /\ AuthFirst'
           /\ \A c \in Conns : (\E i \in 1..Len(sent[c]) : sent[c][i] = Auth)
                                  => \E i \in 1..Len(sent'[c]) : sent'[c][i] = Auth
<1> DEFINE t == target[w]
           n == Len(sent[t])
<1>1. /\ t \in Conns /\ n \in Nat
      /\ \A c \in Conns \ {t} : sent'[c] = sent[c]
      /\ Len(sent'[t]) = n + 1 /\ sent'[t][n + 1] = msg
      /\ \A i \in 1..n : sent'[t][i] = sent[t][i]
    <2>1. t \in Conns
        BY WriteAppends
    <2>2. n \in Nat
        BY <2>1 DEF TypeOK
    <2>3. QED BY <2>1, <2>2, WriteAppends
<1> HIDE DEF t, n
<1>2. ASSUME NEW c \in Conns, NEW i \in 1..Len(sent'[c]), sent'[c][i][1] = c
      PROVE  \E j \in 1..i : sent'[c][j] = Auth
    <2>1. CASE c # t
        BY <1>1, <1>2, <2>1 DEF AuthInv, AuthFirst
    <2>2. CASE c = t /\ i \in 1..n
        <3>1. sent[t][i][1] = t
            BY <1>1, <1>2, <2>2
        <3>2. PICK j \in 1..i : sent[t][j] = Auth
            BY <1>1, <2>2, <3>1 DEF AuthInv, AuthFirst, n
        <3>3. j \in 1..n
            BY <1>1, <2>2
        <3>4. QED BY <1>1, <2>2, <3>2, <3>3
    <2>3. CASE c = t /\ i = n + 1
        <3>1. msg[1] = t
            BY <1>1, <1>2, <2>3
        <3>2. PICK j \in 1..n : sent[t][j] = Auth
            BY <3>1 DEF t, n
        <3>3. j \in 1..i
            BY <1>1, <2>3
        <3>4. QED BY <1>1, <2>3, <3>2, <3>3
    <2>4. QED BY <1>1, <1>2, <2>1, <2>2, <2>3
<1>3. ASSUME NEW c \in Conns, NEW i \in 1..Len(sent[c]), sent[c][i] = Auth
      PROVE  \E j \in 1..Len(sent'[c]) : sent'[c][j] = Auth
    <2>1. CASE c # t
        BY <1>1, <1>3, <2>1
    <2>2. CASE c = t
        <3>1. i \in 1..n /\ i \in 1..(n + 1)
            BY <1>1, <2>2 DEF n
        <3>2. QED BY <1>1, <1>3, <2>2, <3>1
    <2>3. QED BY <2>1, <2>2
<1> QED BY <1>2, <1>3 DEF AuthFirst

LEMMA AuthStep == TypeInv /\ ConnInv /\ AuthInv /\ AnyStep => AuthInv'
<1> SUFFICES ASSUME TypeInv, ConnInv, AuthInv, AnyStep PROVE AuthInv'
    OBVIOUS
<1> USE DEF TypeInv
<1>1. CASE AuthOK
    <2>1. WriteOK(Main, Auth) /\ Main \in Writers /\ Auth \in Sendable
        BY <1>1, ConnNumbers DEF AuthOK, Sendable
    <2>2. target[Main] = gen /\ target[Main] \in Conns
        BY <2>1, WriteAppends DEF ConnInv, WriteOK
    <2>3. Auth[1] # target[Main]
        BY <2>2, ConnNumbers DEF Auth
    <2>4. /\ AuthFirst'
          /\ \A c \in Conns : (\E i \in 1..Len(sent[c]) : sent[c][i] = Auth)
                                 => \E i \in 1..Len(sent'[c]) : sent'[c][i] = Auth
        BY <2>1, <2>3, AppendAuth
    <2>5. \E i \in 1..Len(sent'[gen]) : sent'[gen][i] = Auth
        <3>1. Len(sent[gen]) \in Nat
            BY <2>2 DEF TypeOK
        <3>2. Len(sent[gen]) + 1 \in 1..Len(sent'[gen]) /\ sent'[gen][Len(sent[gen]) + 1] = Auth
            BY <2>1, <2>2, <3>1, WriteAppends
        <3>3. QED BY <3>2
    <2>6. \A g \in Conns \ {gen} : reader'[g] = reader[g]
        BY <1>1 DEF AuthOK, TypeOK
    <2>7. QED BY <2>4, <2>5, <2>6 DEF AuthInv
<1>2. CASE \E g \in Conns : SendOK(g)
    <2>1. PICK g \in Conns : SendOK(g)
        BY <1>2
    <2>2. reader[g] = "send" /\ WriteOK(g, <<g, taken[g]>>) /\ g \in Writers
        BY <2>1, ConnNumbers DEF SendOK
    <2>3. <<g, taken[g]>> \in Sendable
        BY <2>2, ReplySendable
    <2>4. \E i \in 1..Len(sent[g]) : sent[g][i] = Auth
        BY <2>2 DEF AuthInv
    <2>5. <<g, taken[g]>>[1] = target[g]
             => \E i \in 1..Len(sent[target[g]]) : sent[target[g]][i] = Auth
        BY <2>4
    <2>6. /\ AuthFirst'
          /\ \A c \in Conns : (\E i \in 1..Len(sent[c]) : sent[c][i] = Auth)
                                 => \E i \in 1..Len(sent'[c]) : sent'[c][i] = Auth
        BY <2>2, <2>3, <2>5, AppendAuth
    <2>7. \A h \in Conns : reader'[h] # "none" => reader[h] # "none"
        BY <2>1, <2>2 DEF SendOK, ReaderGoto, TypeOK
    <2>8. QED BY <2>6, <2>7 DEF AuthInv
<1>3. CASE Quiet
    BY <1>3 DEF Quiet, AuthInv, AuthFirst
<1> QED BY <1>1, <1>2, <1>3, LogCases

LEMMA NothingSent == Init => \A c \in Conns : sent[c] = <<>> /\ Len(sent[c]) = 0
BY DEF Init

LEMMA InitAuth == Init => AuthInv
BY NothingSent DEF Init, AuthInv, AuthFirst

LEMMA InitOrder == Init => OrderInv
BY NothingSent, ConnNumbers DEF Init, OrderInv, RepliesInOrder

\* On every connection the auth_req precedes the replies to its own messages.
THEOREM AuthComesFirst == Spec => []AuthFirst
<1>1. AuthInv => AuthFirst
    BY DEF AuthInv
<1> QED BY InitAuth, <1>1, AuthStep, StepCases, TypeInvariance, ConnInvariance, PTL DEF Spec

----------------------------------------------------------------------------
(* The order of replies: OrderInv.  A reply goes to the newest connection, and *)
(* a reader answers in the order it reads, so that what it appends is behind   *)
(* everything it wrote before.                                                 *)

\* the shape of what is in the logs
LEMMA LogTypes ==
    ASSUME TypeOK, NEW c \in Conns, NEW i \in 1..Len(sent[c])
    PROVE  /\ sent[c][i] \in Sendable
           /\ sent[c][i][1] \in Writers
           /\ sent[c][i][2] \in Nat
<1>1. sent[c][i] \in Sendable
    BY DEF TypeOK
<1>2. \A x \in Sendable : x[1] \in Writers /\ x[2] \in Nat
    BY ConnNumbers, BoundsAssumption DEF Sendable, Auth
<1> QED BY <1>1, <1>2

LEMMA QuietOrder == TypeInv /\ TypeInv' /\ OrderInv /\ Quiet => OrderInv'
<1> SUFFICES ASSUME TypeInv, TypeInv', OrderInv, Quiet PROVE OrderInv'
    OBVIOUS
<1> USE DEF TypeInv
<1>1. gen \in Nat /\ gen' \in Nat /\ gen <= gen'
    BY BoundsAssumption DEF TypeOK, Quiet
<1>2. \A g \in Conns : target'[g] <= gen'
    <2> TAKE g \in Conns
    <2>1. target[g] \in Nat
        <3>1. g \in Writers
            BY ConnNumbers
        <3>2. target[g] \in Writers
            BY <3>1 DEF TypeOK
        <3>3. target[g] \in Conns \/ target[g] = 0
            BY <3>2, ConnNumbers
        <3>4. QED BY <3>3, ConnNumbers
    <2>2. target'[g] \in {None, target[g], gen} /\ target[g] <= gen
        BY DEF Quiet, OrderInv
    <2>3. QED BY <2>1, <2>2, <1>1
<1>3. ASSUME NEW g \in Conns, NEW c \in Conns, NEW i \in 1..Len(sent[c]), sent[c][i][1] = g
      PROVE  sent[c][i][2] <= taken'[g] /\ c <= gen' /\ (target'[g] # None => c <= target'[g])
    <2>1. /\ sent[c][i][2] <= taken[g] /\ c <= gen /\ (target[g] # None => c <= target[g])
        BY <1>3 DEF OrderInv, WrittenBefore
    <2>2. taken[g] <= taken'[g] /\ taken[g] \in Nat /\ taken'[g] \in Nat /\ sent[c][i][2] \in Nat
        <3>1. taken[g] \in 0..MaxFrames /\ taken'[g] \in 0..MaxFrames
            BY DEF TypeOK
        <3>2. sent[c][i][2] \in Nat
            BY LogTypes
        <3>3. taken'[g] >= taken[g]
            BY DEF Quiet
        <3>4. QED BY <3>1, <3>2, <3>3, BoundsAssumption
    <2>3. target'[g] \in {None, target[g], gen}
        BY DEF Quiet
    <2>4. c \in Nat
        BY ConnNumbers
    <2>5. QED BY <2>1, <2>2, <2>3, <2>4, <1>1
<1>4. sent' = sent
    BY DEF Quiet
<1>5. \A g, c \in Conns : \A i \in 1..Len(sent'[c]) : WrittenBefore(g, c, i)'
    BY <1>3, <1>4 DEF WrittenBefore
<1>6. RepliesInOrder'
    BY <1>4 DEF RepliesInOrder, OrderInv
<1> QED BY <1>2, <1>5, <1>6 DEF OrderInv

\* an element appended to a log that is behind all others of the same reader
LEMMA AppendOrder ==
    ASSUME TypeInv, TypeInv', OrderInv, UNCHANGED <<gen, taken>>,
           NEW w \in Writers, NEW msg \in Sendable, WriteOK(w, msg),
           msg[1] = w \/ msg[1] = Main,
           w \in Conns /\ msg[1] = w => msg[2] = taken[w]
    PROVE  OrderInv'
<1> DEFINE t == target[w]
           n == Len(sent[t])
<1> USE DEF TypeInv
<1>1. /\ t \in Conns /\ n \in Nat
      /\ \A c \in Conns \ {t} : sent'[c] = sent[c]
      /\ Len(sent'[t]) = n + 1 /\ sent'[t][n + 1] = msg
      /\ \A i \in 1..n : sent'[t][i] = sent[t][i]
    <2>1. t \in Conns
        BY WriteAppends
    <2>2. n \in Nat
        BY <2>1 DEF TypeOK
    <2>3. QED BY <2>1, <2>2, WriteAppends
<1>2. /\ t # None
      /\ \A g \in Conns : target'[g] = IF g = w THEN None ELSE target[g]
    BY ConnNumbers DEF WriteOK, TypeOK
<1>3. \A g \in Conns : target[g] <= gen
    BY DEF OrderInv
<1>4. gen \in Nat /\ \A c \in Conns : c \in Nat
    BY ConnNumbers, BoundsAssumption DEF TypeOK
<1>5. w \in Conns => t <= gen
    BY <1>3
<1> HIDE DEF t, n
<1>6. \A g \in Conns : target'[g] <= gen'
    BY <1>2, <1>3, <1>4
<1>7. ASSUME NEW g \in Conns, NEW c \in Conns, NEW i \in 1..Len(sent'[c]), sent'[c][i][1] = g
      PROVE  /\ sent'[c][i][2] <= taken[g] /\ c <= gen /\ (target'[g] # None => c <= target'[g])
    <2>1. CASE c # t \/ i \in 1..n
        <3>1. i \in 1..Len(sent[c]) /\ sent'[c][i] = sent[c][i]
            BY <1>1, <2>1 DEF n
        <3>2. sent[c][i][2] <= taken[g] /\ c <= gen /\ (target[g] # None => c <= target[g])
            BY <3>1, <1>7 DEF OrderInv, WrittenBefore
        <3>3. QED BY <3>1, <3>2, <1>2
    <2>2. CASE c = t /\ i = n + 1
        <3>1. g = w /\ sent'[c][i][2] = taken[g]
            BY <1>1, <1>7, <2>2, ConnNumbers
        <3>2. taken[g] \in Nat
            BY BoundsAssumption DEF TypeOK
        <3>3. QED BY <3>1, <3>2, <1>2, <1>5, <2>2
    <2>3. QED BY <1>1, <2>1, <2>2
<1>8. ASSUME NEW c \in Conns, NEW d \in Conns, NEW i \in 1..Len(sent'[c]), NEW j \in 1..Len(sent'[d]),
             Precedes(c, i, d, j), sent'[c][i][1] = sent'[d][j][1]
      PROVE  sent'[c][i][2] <= sent'[d][j][2]
    <2>1. CASE (c # t \/ i \in 1..n) /\ (d # t \/ j \in 1..n)
        <3>1. /\ i \in 1..Len(sent[c]) /\ sent'[c][i] = sent[c][i]
              /\ j \in 1..Len(sent[d]) /\ sent'[d][j] = sent[d][j]
            BY <1>1, <2>1 DEF n
        <3>2. QED BY <3>1, <1>8 DEF OrderInv, RepliesInOrder
    <2>2. CASE c = t /\ i = n + 1
        <3>1. CASE d = t
            <4>1. j \in 1..(n + 1) /\ i < j
                BY <1>1, <1>8, <2>2, <3>1, <1>4 DEF Precedes
            <4>2. QED BY <4>1, <1>1, <2>2
        <3>2. CASE d # t /\ msg[1] \in Conns
            <4>1. j \in 1..Len(sent[d]) /\ sent[d][j][1] = msg[1] /\ msg[1] = w
                BY <1>1, <1>8, <2>2, <3>2, ConnNumbers
            <4>2. d <= t
                BY <4>1, <3>2, <1>2 DEF OrderInv, WrittenBefore, t
            <4>3. t < d
                BY <1>8, <2>2, <3>2 DEF Precedes
            <4>4. QED BY <4>2, <4>3, <1>1, <1>4
        <3>3. CASE msg[1] = Main
            <4>1. sent'[d][j] \in Sendable
                <5>1. sent' \in [Conns -> Seq(Sendable)]
                    BY DEF TypeOK
                <5>2. sent'[d] \in Seq(Sendable) /\ j \in 1..Len(sent'[d])
                    BY <5>1, <1>8
                <5>3. QED BY <5>2
            <4>a. sent'[c][i] = msg
                BY <1>1, <2>2
            <4>b. sent'[d][j][1] = 0
                BY <4>a, <1>8, <3>3 DEF Main
            <4>2. \A x \in Sendable : x[1] = 0 => x[2] = 0
                BY ConnNumbers DEF Sendable, Auth
            <4>3. msg[2] = 0 /\ sent'[d][j][2] = 0
                BY <4>1, <4>b, <4>2, <3>3 DEF Main
            <4>4. QED BY <4>3, <4>a
        <3>4. QED BY <3>1, <3>2, <3>3, ConnNumbers
    <2>3. CASE (c # t \/ i \in 1..n) /\ d = t /\ j = n + 1
        <3>1. i \in 1..Len(sent[c]) /\ sent'[c][i] = sent[c][i] /\ sent'[d][j] = msg
            BY <1>1, <2>3 DEF n
        <3>2. CASE msg[1] \in Conns
            <4>1. msg[1] = w /\ w \in Conns /\ msg[2] = taken[w] /\ sent[c][i][1] = w
                BY <3>1, <3>2, <1>8, ConnNumbers
            <4>2. QED BY <3>1, <4>1 DEF OrderInv, WrittenBefore
        <3>3. CASE msg[1] = Main
            <4>1. sent[c][i] \in Sendable /\ sent[c][i][1] = 0
                BY <3>1, <3>3, <1>8, LogTypes
            <4>2. \A x \in Sendable : x[1] = 0 => x[2] = 0
                BY ConnNumbers DEF Sendable, Auth
            <4>3. QED BY <4>1, <4>2, <3>1, <3>3
        <3>4. QED BY <3>2, <3>3, ConnNumbers
    <2>4. QED BY <1>1, <2>1, <2>2, <2>3
<1>9. \A g, c \in Conns : \A i \in 1..Len(sent'[c]) : WrittenBefore(g, c, i)'
    BY <1>7 DEF WrittenBefore
<1>10. RepliesInOrder'
    BY <1>8 DEF RepliesInOrder, Precedes
<1> QED BY <1>6, <1>9, <1>10 DEF OrderInv

LEMMA OrderStep ==
    TypeInv /\ TypeInv' /\ ConnInv /\ OrderInv /\ AnyStep => OrderInv'
<1> SUFFICES ASSUME TypeInv, TypeInv', ConnInv, OrderInv, AnyStep PROVE OrderInv'
    OBVIOUS
<1>1. CASE AuthOK
    <2>1. WriteOK(Main, Auth) /\ Main \in Writers /\ Auth \in Sendable /\ UNCHANGED <<gen, taken>>
        BY <1>1, ConnNumbers DEF AuthOK, Sendable
    <2>2. Auth[1] = Main /\ Main \notin Conns
        BY ConnNumbers DEF Auth
    <2>3. QED BY <2>1, <2>2, AppendOrder
<1>2. CASE \E g \in Conns : SendOK(g)
    <2>1. PICK g \in Conns : SendOK(g)
        BY <1>2
    <2>2. /\ WriteOK(g, <<g, taken[g]>>) /\ g \in Writers
          /\ <<g, taken[g]>> \in Sendable /\ UNCHANGED <<gen, taken>>
        BY <2>1, ReplySendable, ConnNumbers DEF SendOK, mainVars
    <2>3. <<g, taken[g]>>[1] = g /\ <<g, taken[g]>>[2] = taken[g]
        OBVIOUS
    <2>4. QED BY <2>2, <2>3, AppendOrder
<1>3. CASE Quiet
    BY <1>3, QuietOrder
<1> QED BY <1>1, <1>2, <1>3, LogCases

\* Over any number of reconnections the replies to the messages of one connection
\* leave in the order of the messages.
THEOREM RepliesKeepOrder == Spec => []RepliesInOrder
<1>1. OrderInv => RepliesInOrder
    BY DEF OrderInv
<1> QED BY InitOrder, <1>1, OrderStep, StepCases, TypeInvariance, ConnInvariance, PTL DEF Spec
=============================================================================

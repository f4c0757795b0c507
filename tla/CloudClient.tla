---------------------------- MODULE CloudClient ----------------------------
(***************************************************************************)
(* The cloud WebSocket client (internal/cloud/client.go): the goroutine of *)
(* Run and runOnce, one readLoop goroutine per connection, and the writes  *)
(* both make on whatever connection c.conn points to.                      *)
(*                                                                         *)
(* A readLoop is not joined: when runOnce returns for another reason than  *)
(* the reader's own error, the reader of the old connection goes on, with  *)
(* the message it is handling and the frames already buffered, beside the  *)
(* reader of the next one.  Its replies go to the connection of the moment *)
(* they are written.                                                       *)
(*                                                                         *)
(* Connections are numbered in the order they are dialled.  A message is   *)
(* <<g, n>>, the n-th frame of connection g; a reply carries its message.  *)
(* Heartbeats are written but not logged, and time is not modelled.        *)
(***************************************************************************)
EXTENDS Integers, Sequences

CONSTANTS
    MaxConns,     \* bound on the connections dialled
    MaxFrames,    \* bound on the frames the cloud sends per connection
    MaxReplies,   \* bound on the replies of one handler
    ReconnectMin, \* cloud.reconnect_min_seconds
    ReconnectMax  \* cloud.reconnect_max_seconds

\* Config.normalize leaves 1 <= ReconnectMin <= ReconnectMax
ASSUME BoundsAssumption == MaxConns \in Nat /\ MaxFrames \in Nat /\ MaxReplies \in Nat \ {0}
ASSUME BackoffAssumption ==
    /\ ReconnectMin \in Nat \ {0} /\ ReconnectMax \in Nat
    /\ ReconnectMin <= ReconnectMax

Conns   == 1..MaxConns
Main    == 0                  \* the goroutine of Run, as a writer
Writers == {Main} \cup Conns  \* with the reader of each connection
None    == 0                  \* no connection
Auth    == <<0, 0>>           \* the auth_req; every other element is a reply
Sendable == {Auth} \cup (Conns \X (1..MaxFrames))

VARIABLES
    ctxDone,  \* SIGTERM cancelled the context
    run,      \* where the goroutine of Run is
    gen,      \* the connection it dialled last
    conn,     \* Client.conn
    authed,   \* Client.authenticated
    backoff,  \* the local variable of Run
    sock,     \* the socket of each connection, as the daemon's kernel has it
    arrived,  \* frames of each connection received so far
    taken,    \* of those, the frames its reader has read
    reader,   \* where the readLoop of each connection is
    replied,  \* replies its current handler has tried to send
    readErr,  \* errors in the channel of each connection (of capacity 1)
    target,   \* the connection each writer is inside WriteJSON of
    sent      \* what was written on each connection, in order

netVars  == <<sock, arrived>>
mainVars == <<ctxDone, run, gen, conn, backoff>>
vars == <<ctxDone, run, gen, conn, authed, backoff, sock, arrived, taken, reader,
          replied, readErr, target, sent>>

RunSteps    == {"dial", "auth", "select", "ping", "unset", "close", "backoff", "stopped"}
ReaderSteps == {"none", "head", "read", "handle", "send", "exit", "done"}

Init ==
    /\ ctxDone = FALSE
    /\ run = "dial" /\ gen = 0 /\ conn = None /\ authed = FALSE
    /\ backoff = ReconnectMin
    /\ sock = [g \in Conns |-> "none"]
    /\ arrived = [g \in Conns |-> 0]
    /\ taken = [g \in Conns |-> 0]
    /\ reader = [g \in Conns |-> "none"]
    /\ replied = [g \in Conns |-> 0]
    /\ readErr = [g \in Conns |-> 0]
    /\ target = [w \in Writers |-> None]
    /\ sent = [g \in Conns |-> <<>>]

----------------------------------------------------------------------------
(* writeJSON: the connection is copied under the read lock, and written to   *)
(* after releasing it.  Nothing keeps two writers off the same connection.   *)

BeginWrite(w) == target[w] = None /\ conn # None /\ target' = [target EXCEPT ![w] = conn]

Overlaps(w) == \E v \in Writers \ {w} : target[v] = target[w]

\* a write succeeds unless the socket was closed here; into a socket the peer
\* has left it may succeed and be lost
WriteOK(w, msg) ==
    /\ target[w] # None
    /\ sock[target[w]] # "closed"
    /\ sent' = [sent EXCEPT ![target[w]] = Append(@, msg)]
    /\ target' = [target EXCEPT ![w] = None]

\* it fails on a dead socket, or when another write got in between
WriteFails(w) ==
    /\ target[w] # None
    /\ sock[target[w]] # "open" \/ Overlaps(w)
    /\ target' = [target EXCEPT ![w] = None]
    /\ UNCHANGED sent

----------------------------------------------------------------------------
(* The goroutine of Run. *)

\* mutant: Run does not look at the context after runOnce
AfterReturnBlind == "backoff"

\* what follows a return of runOnce
AfterReturn == IF ctxDone THEN "stopped" ELSE "backoff"

DialFails ==
    /\ run = "dial"
    /\ run' = AfterReturn
    /\ UNCHANGED <<ctxDone, gen, conn, authed, backoff, netVars, taken, reader, replied, readErr, target, sent>>

\* mutant: the reader is started before the auth_req is sent
DialOKStartsReader ==
    /\ run = "dial" /\ ~ctxDone /\ gen < MaxConns
    /\ run' = "auth"
    /\ gen' = gen + 1
    /\ sock' = [sock EXCEPT ![gen + 1] = "open"]
    /\ conn' = gen + 1
    /\ authed' = FALSE
    /\ reader' = [reader EXCEPT ![gen + 1] = "head"]
    /\ UNCHANGED <<ctxDone, backoff, arrived, taken, replied, readErr, target, sent>>

\* the new connection is published before it is authenticated
DialOK ==
    /\ run = "dial" /\ ~ctxDone /\ gen < MaxConns
    /\ run' = "auth"
    /\ gen' = gen + 1
    /\ sock' = [sock EXCEPT ![gen + 1] = "open"]
    /\ conn' = gen + 1
    /\ authed' = FALSE
    /\ UNCHANGED <<ctxDone, backoff, arrived, taken, reader, replied, readErr, target, sent>>

\* sendAuth or sendPing takes the connection
BeginMain ==
    /\ run \in {"auth", "ping"}
    /\ BeginWrite(Main)
    /\ UNCHANGED <<mainVars, authed, netVars, taken, reader, replied, readErr, sent>>

\* the auth_req is out: start the ticker and the reader
AuthOK ==
    /\ run = "auth"
    /\ WriteOK(Main, Auth)
    /\ run' = "select"
    /\ reader' = [reader EXCEPT ![gen] = "head"]
    /\ UNCHANGED <<ctxDone, gen, conn, backoff, authed, netVars, taken, replied, readErr>>

PingOK ==
    /\ run = "ping"
    /\ target[Main] # None /\ sock[target[Main]] # "closed"
    /\ target' = [target EXCEPT ![Main] = None]
    /\ run' = "select"
    /\ UNCHANGED <<ctxDone, gen, conn, backoff, authed, netVars, taken, reader, replied, readErr, sent>>

\* mutant: a failed ping is left to the reader to notice
MainWriteFailsStays ==
    /\ run \in {"auth", "ping"}
    /\ WriteFails(Main)
    /\ run' = IF run = "ping" THEN "select" ELSE "unset"
    /\ UNCHANGED <<ctxDone, gen, conn, backoff, authed, netVars, taken, reader, replied, readErr>>

MainWriteFails ==
    /\ run \in {"auth", "ping"}
    /\ WriteFails(Main)
    /\ run' = "unset"
    /\ UNCHANGED <<ctxDone, gen, conn, backoff, authed, netVars, taken, reader, replied, readErr>>

\* the three cases of the select: the context, the reader's error, the ticker
SelectDone ==
    /\ run = "select" /\ ctxDone
    /\ run' = "unset"
    /\ UNCHANGED <<ctxDone, gen, conn, backoff, authed, netVars, taken, reader, replied, readErr, target, sent>>

SelectErr ==
    /\ run = "select" /\ readErr[gen] > 0
    /\ readErr' = [readErr EXCEPT ![gen] = @ - 1]
    /\ run' = "unset"
    /\ UNCHANGED <<ctxDone, gen, conn, backoff, authed, netVars, taken, reader, replied, target, sent>>

\* mutant: a tick may give the connection up without a failed ping
SelectTickLeaves ==
    /\ run = "select"
    /\ run' \in {"ping", "unset"}
    /\ UNCHANGED <<ctxDone, gen, conn, authed, backoff, netVars, taken, reader, replied, readErr, target, sent>>

SelectTick ==
    /\ run = "select"
    /\ run' = "ping"
    /\ UNCHANGED <<ctxDone, gen, conn, backoff, authed, netVars, taken, reader, replied, readErr, target, sent>>

\* mutant: c.conn is left pointing to the connection that is closed next
UnsetForgotten ==
    /\ run = "unset"
    /\ authed' = FALSE
    /\ run' = "close"
    /\ UNCHANGED <<ctxDone, gen, conn, backoff, netVars, taken, reader, replied, readErr, target, sent>>

\* the deferred calls, last in first out
Unset ==
    /\ run = "unset"
    /\ conn' = None /\ authed' = FALSE
    /\ run' = "close"
    /\ UNCHANGED <<ctxDone, gen, backoff, netVars, taken, reader, replied, readErr, target, sent>>

Close ==
    /\ run = "close"
    /\ sock' = [sock EXCEPT ![gen] = "closed"]
    /\ run' = AfterReturn
    /\ UNCHANGED <<ctxDone, gen, conn, backoff, authed, arrived, taken, reader, replied, readErr, target, sent>>

\* mutant: the backoff is not capped
RetryUncapped ==
    /\ run = "backoff"
    /\ backoff' = 2 * backoff
    /\ run' = "dial"
    /\ UNCHANGED <<ctxDone, gen, conn, authed, netVars, taken, reader, replied, readErr, target, sent>>

\* the timer fires; the backoff is doubled and never reset
Retry ==
    /\ run = "backoff"
    /\ backoff' = IF 2 * backoff > ReconnectMax THEN ReconnectMax ELSE 2 * backoff
    /\ run' = "dial"
    /\ UNCHANGED <<ctxDone, gen, conn, authed, netVars, taken, reader, replied, readErr, target, sent>>

GiveUp ==
    /\ run = "backoff" /\ ctxDone
    /\ run' = "stopped"
    /\ UNCHANGED <<ctxDone, gen, conn, backoff, authed, netVars, taken, reader, replied, readErr, target, sent>>

MainStep ==
    \/ DialFails \/ DialOK \/ BeginMain \/ AuthOK \/ PingOK \/ MainWriteFails
    \/ SelectDone \/ SelectErr \/ SelectTick \/ Unset \/ Close \/ Retry \/ GiveUp

----------------------------------------------------------------------------
(* readLoop of connection g, and the handler it calls. *)

ReaderGoto(g, s) == reader' = [reader EXCEPT ![g] = s]

\* the context is looked at before each read only
LoopHead(g) ==
    /\ reader[g] = "head"
    /\ ReaderGoto(g, IF ctxDone THEN "exit" ELSE "read")
    /\ UNCHANGED <<mainVars, authed, netVars, taken, replied, readErr, target, sent>>

\* mutant: messages are handled in any order
NextFrameUnordered(g) ==
    /\ reader[g] = "read"
    /\ \E n \in 1..arrived[g] : taken' = [taken EXCEPT ![g] = n]

NextFrame(g) ==
    /\ reader[g] = "read" /\ taken[g] < arrived[g]
    /\ taken' = [taken EXCEPT ![g] = @ + 1]

\* a pong, an invalid message or one of a type nothing handles
SkipFrame(g) ==
    /\ NextFrame(g)
    /\ ReaderGoto(g, "head")
    /\ UNCHANGED <<mainVars, authed, netVars, replied, readErr, target, sent>>

\* auth_resp with code 200 marks whatever connection is current as authenticated
AuthResp(g) ==
    /\ NextFrame(g)
    /\ authed' = TRUE
    /\ ReaderGoto(g, "head")
    /\ UNCHANGED <<mainVars, netVars, replied, readErr, target, sent>>

\* a message the router handles, on this goroutine
TakeRequest(g) ==
    /\ NextFrame(g)
    /\ ReaderGoto(g, "handle")
    /\ replied' = [replied EXCEPT ![g] = 0]
    /\ UNCHANGED <<mainVars, authed, netVars, readErr, target, sent>>

\* the socket is dead; frames buffered before may have been read or not
ReadFails(g) ==
    /\ reader[g] = "read" /\ sock[g] # "open"
    /\ ReaderGoto(g, "exit")
    /\ UNCHANGED <<mainVars, authed, netVars, taken, replied, readErr, target, sent>>

MayReply(g) == reader[g] = "handle" /\ replied[g] < MaxReplies

BeginReply(g) ==
    /\ MayReply(g)
    /\ BeginWrite(g)
    /\ replied' = [replied EXCEPT ![g] = @ + 1]
    /\ ReaderGoto(g, "send")
    /\ UNCHANGED <<mainVars, authed, netVars, taken, readErr, sent>>

\* mutant: the handler returns from the failed send
DropReplyReturns(g) ==
    /\ MayReply(g) /\ conn = None
    /\ ReaderGoto(g, "head")
    /\ UNCHANGED <<mainVars, authed, netVars, taken, replied, readErr, target, sent>>

\* not connected: the reply is logged and dropped
DropReply(g) ==
    /\ MayReply(g) /\ conn = None
    /\ replied' = [replied EXCEPT ![g] = @ + 1]
    /\ UNCHANGED <<mainVars, authed, netVars, taken, reader, readErr, target, sent>>

SendOK(g) ==
    /\ reader[g] = "send"
    /\ WriteOK(g, <<g, taken[g]>>)
    /\ ReaderGoto(g, "handle")
    /\ UNCHANGED <<mainVars, authed, netVars, taken, replied, readErr>>

SendFails(g) ==
    /\ reader[g] = "send"
    /\ WriteFails(g)
    /\ ReaderGoto(g, "handle")
    /\ UNCHANGED <<mainVars, authed, netVars, taken, replied, readErr>>

\* every path of the router's handlers replies at least once
HandlerReturns(g) ==
    /\ reader[g] = "handle" /\ replied[g] > 0
    /\ ReaderGoto(g, "head")
    /\ UNCHANGED <<mainVars, authed, netVars, taken, replied, readErr, target, sent>>

\* mutant: an unbuffered channel, received from by the select of this runOnce only
ExitReaderUnbuffered(g) ==
    /\ reader[g] = "exit" /\ run = "select" /\ gen = g
    /\ readErr' = [readErr EXCEPT ![g] = @ + 1]
    /\ ReaderGoto(g, "done")
    /\ UNCHANGED <<mainVars, authed, netVars, taken, replied, target, sent>>

\* the channel has room for the error although nobody may receive it any more
ExitReader(g) ==
    /\ reader[g] = "exit" /\ readErr[g] < 1
    /\ readErr' = [readErr EXCEPT ![g] = @ + 1]
    /\ ReaderGoto(g, "done")
    /\ UNCHANGED <<mainVars, authed, netVars, taken, replied, target, sent>>

ReaderStep(g) ==
    \/ LoopHead(g) \/ SkipFrame(g) \/ AuthResp(g) \/ TakeRequest(g) \/ ReadFails(g)
    \/ BeginReply(g) \/ DropReply(g) \/ SendOK(g) \/ SendFails(g)
    \/ HandlerReturns(g) \/ ExitReader(g)

----------------------------------------------------------------------------
(* The surroundings. *)

Arrive(g) ==
    /\ sock[g] = "open" /\ arrived[g] < MaxFrames
    /\ arrived' = [arrived EXCEPT ![g] = @ + 1]
    /\ UNCHANGED <<mainVars, authed, sock, taken, reader, replied, readErr, target, sent>>

\* the peer closes, or the network gives the connection up
Break(g) ==
    /\ sock[g] = "open"
    /\ sock' = [sock EXCEPT ![g] = "broken"]
    /\ UNCHANGED <<mainVars, authed, arrived, taken, reader, replied, readErr, target, sent>>

Cancel ==
    /\ ~ctxDone
    /\ ctxDone' = TRUE
    /\ UNCHANGED <<run, gen, conn, backoff, authed, netVars, taken, reader, replied, readErr, target, sent>>

\* the process dies with its sockets and goroutines; systemd starts it again
Die ==
    /\ ctxDone' = FALSE
    /\ run' = "dial" /\ conn' = None /\ authed' = FALSE
    /\ backoff' = ReconnectMin
    /\ sock' = [g \in Conns |-> IF sock[g] = "none" THEN "none" ELSE "closed"]
    /\ reader' = [g \in Conns |-> "none"]
    /\ replied' = [g \in Conns |-> 0]
    /\ readErr' = [g \in Conns |-> 0]
    /\ target' = [w \in Writers |-> None]
    /\ UNCHANGED <<gen, arrived, taken, sent>>

\* gorilla/websocket panics when it notices two writers at once
Panic == (\E w \in Writers : target[w] # None /\ Overlaps(w)) /\ Die

\* main returned and the process is gone
Stopped == run = "stopped" /\ UNCHANGED vars

Next ==
    \/ Stopped
    \/ /\ run # "stopped"
       /\ \/ MainStep
          \/ \E g \in Conns : ReaderStep(g) \/ Arrive(g) \/ Break(g)
          \/ Cancel
          \/ Panic

Spec == Init /\ [][Next]_vars

\* the steps of a reader between handlers, and the writes inside one
LoopStep(g) ==
    \/ LoopHead(g) \/ SkipFrame(g) \/ AuthResp(g) \/ TakeRequest(g) \/ ReadFails(g)
    \/ SendOK(g) \/ SendFails(g) \/ ExitReader(g)

(* A runnable goroutine runs: dials and writes are bounded by their timeouts. *)
(* A handler is not: it may wait for ever for the output of a command, or for *)
(* a gateway that keeps sending.  A ready case of the select is not passed    *)
(* over for ever by the others: Go picks among the ready ones at random, and  *)
(* ticks are rare.  A socket whose peer is gone does not take heartbeats for  *)
(* ever: the kernel answers the first with an error for the next.  Nothing    *)
(* else is assumed of the network, and nothing of the cloud.                  *)
Fairness ==
    /\ WF_vars(run # "stopped" /\ MainStep)
    /\ SF_vars(SelectDone) /\ SF_vars(SelectErr)
    /\ SF_vars(run = "ping" /\ sock[gen] = "broken" /\ MainWriteFails)
    /\ \A g \in Conns : WF_vars(run # "stopped" /\ LoopStep(g))

FairSpec == Spec /\ Fairness

----------------------------------------------------------------------------
(* Properties. *)

\* Every variable stays in its set.
TypeOK ==
    /\ ctxDone \in BOOLEAN /\ authed \in BOOLEAN
    /\ run \in RunSteps
    /\ gen \in 0..MaxConns /\ conn \in Writers
    /\ backoff \in ReconnectMin..ReconnectMax
    /\ sock \in [Conns -> {"none", "open", "broken", "closed"}]
    /\ arrived \in [Conns -> 0..MaxFrames] /\ taken \in [Conns -> 0..MaxFrames]
    /\ reader \in [Conns -> ReaderSteps]
    /\ replied \in [Conns -> 0..MaxReplies]
    /\ readErr \in [Conns -> 0..1]
    /\ target \in [Writers -> Writers]
    /\ sent \in [Conns -> Seq(Sendable)]

\* What c.conn points to is the newest connection, and its socket was not closed
\* by runOnce: the deferred calls run in the order that makes this so.
ConnIsLive == conn # None => conn = gen /\ sock[conn] \in {"open", "broken"}

\* On each connection the auth_req comes before any reply to a message of that
\* connection.  (Not before every reply: an earlier reader may get in first.)
AuthFirst ==
    \A c \in Conns : \A i \in 1..Len(sent[c]) :
        sent[c][i][1] = c => \E j \in 1..i : sent[c][j] = Auth

\* position of an element written on connection c before one written on d
Precedes(c, i, d, j) == c < d \/ (c = d /\ i < j)

\* The cloud sees the replies to the messages of one connection in the order of
\* those messages, across reconnections too: a reader handles one at a time.
RepliesInOrder ==
    \A c, d \in Conns : \A i \in 1..Len(sent[c]), j \in 1..Len(sent[d]) :
        Precedes(c, i, d, j) /\ sent[c][i][1] = sent[d][j][1] =>
            sent[c][i][2] <= sent[d][j][2]

\* No call a reader makes into the router keeps it for ever.
HandlersReturn(g) == []<>(reader[g] \notin {"handle", "send"})

\* The reader of a connection that was closed ends, if the handlers it calls return,
\* although runOnce is gone and nobody receives its error: a reconnection leaves no
\* goroutine behind but one whose handler never returns.
ReadersEnd ==
    \A g \in Conns : HandlersReturn(g) =>
        (sock[g] = "closed" ~> (reader[g] \in {"none", "done"} \/ run = "stopped"))

\* Once SIGTERM cancelled the context, Run returns (or a crash comes first).
ShutsDown == ctxDone ~> (run = "stopped" \/ ~ctxDone)

\* A connection that died is given up and another one is dialled, also while its
\* reader is held by a handler that never returns: then by the heartbeat.
Reconnects == \A g \in Conns :
    (run = "select" /\ gen = g /\ sock[g] = "broken") ~> run \in {"dial", "stopped"}
----------------------------------------------------------------------------
(* The inductive invariants of the safety properties. *)

\* a handler handles a frame that was read
TypeInv == TypeOK /\ \A g \in Conns : reader[g] \in {"handle", "send"} => taken[g] > 0

\* c.conn is set exactly from the dial to the deferred calls, and the goroutine of
\* Run writes on the connection it dialled
ConnInv ==
    /\ run \in {"dial", "backoff", "close", "stopped"} => conn = None
    /\ run \in {"auth", "select", "ping", "unset"} =>
           gen > 0 /\ conn = gen /\ sock[gen] \in {"open", "broken"}
    /\ target[Main] # None => run \in {"auth", "ping"} /\ target[Main] = gen

\* a reader runs only behind an auth_req
AuthInv ==
    /\ \A g \in Conns : reader[g] # "none" => \E i \in 1..Len(sent[g]) : sent[g][i] = Auth
    /\ AuthFirst

\* what reader g has written lies on connections up to the one it is writing on,
\* and answers frames up to the one it is handling
WrittenBefore(g, c, i) ==
    sent[c][i][1] = g =>
        /\ sent[c][i][2] <= taken[g]
        /\ c <= gen
        /\ target[g] # None => c <= target[g]

OrderInv ==
    /\ \A g \in Conns : target[g] <= gen
    /\ \A g, c \in Conns : \A i \in 1..Len(sent[c]) : WrittenBefore(g, c, i)
    /\ RepliesInOrder
=============================================================================

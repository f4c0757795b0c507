---------------------------- MODULE GatewayChat ----------------------------
(***************************************************************************)
(* Adapter.Chat (internal/gateway/adapter.go): one chat turn with the      *)
(* OpenClaw gateway.  Connect, subscribe and chat.send are requests whose  *)
(* responses are awaited while every other frame is skipped; then          *)
(* collectChatReplies turns the gateway's events into the chunks sent to   *)
(* the cloud, and at the terminal event may wait for the session           *)
(* transcript, a file the gateway goes on writing.                         *)
(*                                                                         *)
(* A text is a sequence of letters, of which White and NL are blank.  An   *)
(* event is what extractChatText, matchesChatEvent, isTerminalChatEvent    *)
(* and finishReason read out of its payload.                               *)
(***************************************************************************)
EXTENDS Integers, Sequences, FiniteSets, SequencesExt

CONSTANTS
    Letters,      \* what texts are made of
    NL, White,    \* the newline; the letters TrimSpace removes
    Events,       \* the events the gateway may send
    MaxEvents,    \* bound on the events of one turn
    Script,       \* the entries the gateway writes to the transcript, in order
    Media, Local, \* attachments; those that are files of this machine
    Asked,        \* the time of the user's message of this turn
    Stale         \* letters that only texts of earlier turns have

ASSUME LettersAssumption == NL \in White /\ White \cup Stale \subseteq Letters /\ White \cap Stale = {}
ASSUME MediaAssumption == Local \subseteq Media
ASSUME MaxEventsAssumption == MaxEvents \in Nat

Texts == Seq(Letters)
Finishes == {"stop", "error", "cancelled", "length"}   \* "none" until there is one

\* mine: carries our run id; sess: names our session; sid: names the gateway's
\* session file; user: timestamp of a user message, or 0; mode and text: from
\* extractChatText; ts: timestamp of the assistant message; fin: terminal or not
ASSUME EventsAssumption ==
    Events \subseteq [mine : BOOLEAN, sess : BOOLEAN, sid : BOOLEAN, user : Nat,
                      mode : {"none", "delta", "snapshot"}, text : Texts, ts : Nat,
                      media : SUBSET Media, fin : {"no"} \cup Finishes]

\* more: the assistant stopped to use a tool and will go on
ASSUME ScriptAssumption ==
    Script \in Seq([role : {"user", "assistant", "tool"}, text : Texts, ts : Nat, more : BOOLEAN,
                    media : SUBSET Media])

Clean(text) == \A i \in 1..Len(text) : text[i] \notin Stale

\* what Stale and Asked mean: this turn has one user's message, and what carries
\* our run id, comes later than the message or follows it in the transcript is
\* of this turn
ASSUME TurnAssumption ==
    /\ Asked \in Nat \ {0}
    /\ \A e \in Events : e.user \in {0, Asked} /\ (e.mine \/ e.ts > Asked => Clean(e.text))
    /\ \E first \in 1..Len(Script) + 1 :
         /\ first <= Len(Script) => Script[first].role = "user"
         /\ \A i \in 1..Len(Script) :
              IF i < first THEN Script[i].ts <= Asked ELSE Clean(Script[i].text)

VARIABLES
    phase,        \* where Chat is
    outcome,      \* what it returned: replies or an error
    written,      \* entries of Script in the transcript so far
    count,        \* events received
    replies, chunkSeq, assembled, pending, verified, attachments,
    known,        \* openClawSessionID is not empty
    minAfter,     \* transcriptMinAssistantAfterMs
    fin,          \* the finish reason of the terminal event
    best,         \* what the transcript lookup has found
    stream,       \* history: assembledText before the transcript is merged
    told          \* history: the texts of the deltas, without outer newlines

collected == <<replies, chunkSeq, assembled, pending, verified, attachments, known, minAfter, stream, told>>
vars == <<phase, outcome, written, count, replies, chunkSeq, assembled, pending, verified,
          attachments, known, minAfter, fin, best, stream, told>>

Found   == [text : Texts, media : SUBSET Media]
Nothing == [text |-> <<>>, media |-> {}]
Chunks  == [text : Texts, seq : Nat, final : BOOLEAN, finish : {"none"} \cup Finishes]
Replies == Seq(Chunks)

Init ==
    /\ phase = "connect" /\ outcome = "none"
    /\ written \in 0..Len(Script)
    /\ count = 0
    /\ replies = <<>> /\ chunkSeq = 0 /\ assembled = <<>> /\ pending = <<>> /\ verified = FALSE
    /\ attachments = {} /\ known = FALSE /\ minAfter = 0
    /\ fin = "none" /\ best = Nothing /\ stream = <<>> /\ told = {}

----------------------------------------------------------------------------
(* Texts. *)

\* strings.Trim(s, "\n"): without the newlines at both ends
Trim(s) ==
    LET kept == {i \in 1..Len(s) : s[i] # NL} IN
    IF kept = {} THEN <<>> ELSE SubSeq(s, Min(kept), Max(kept))

\* strings.TrimSpace(s) == ""
Blank(s) == \A i \in 1..Len(s) : s[i] \in White

\* mutant: a longer text is taken for an extension without comparing the beginning
IncrementalReplyTextLonger(known_, text) ==
    LET current == Trim(text)
        rest    == SubSeq(current, Len(known_) + 1, Len(current))
    IN  IF current = <<>> \/ current = known_ THEN [delta |-> <<>>, next |-> known_]
        ELSE IF Len(current) > Len(known_) THEN [delta |-> rest, next |-> known_ \o rest]
        ELSE [delta |-> current, next |-> known_ \o current]

\* the part of a text that was not assembled yet: a text that extends what was
\* assembled is taken as cumulative, any other is appended
IncrementalReplyText(known_, text) ==
    LET current == Trim(text) IN
    IF current = <<>> \/ current = known_ THEN [delta |-> <<>>, next |-> known_]
    ELSE IF IsPrefix(known_, current)
           THEN [delta |-> SubSeq(current, Len(known_) + 1, Len(current)), next |-> current]
           ELSE [delta |-> current, next |-> known_ \o current]

\* joinMarkdownBlocks: an empty line between the blocks
JoinBlock(all, block) ==
    IF all = <<>> THEN block ELSE IF block = <<>> THEN all ELSE all \o <<NL, NL>> \o block

Chunk(text, seq) == [text |-> text, seq |-> seq, final |-> FALSE, finish |-> "none"]

\* append a reply if there is new text
Emit(list, seq, delta) == IF delta = <<>> THEN list ELSE Append(list, Chunk(delta, seq + 1))
NextSeq(seq, delta)    == IF delta = <<>> THEN seq ELSE seq + 1

----------------------------------------------------------------------------
(* The requests. *)

Return(result) == phase' = "done" /\ outcome' = result

\* the response to the request of this phase: everything before it is skipped,
\* chat events too
Respond ==
    /\ \/ phase = "connect" /\ phase' = "subscribe"
       \/ phase = "subscribe" /\ phase' = "send"
       \/ phase = "send" /\ phase' = "collect"
    /\ UNCHANGED <<outcome, written, count, collected, fin, best>>

\* rejected, timed out or disconnected; later, whatever was collected is dropped
Fails ==
    /\ phase \in {"connect", "subscribe", "send", "collect"}
    /\ Return("error")
    /\ UNCHANGED <<written, count, collected, fin, best>>

----------------------------------------------------------------------------
(* collectChatReplies, one event at a time. *)

MatchesChatEvent(e) == e.mine \/ e.sess

\* mutant: any timestamp will do before the user's message is seen
SnapshotBelongsEarly(e, after) == e.mine \/ e.ts > after

\* a snapshot of our run, or an assistant message newer than the user's
SnapshotBelongs(e, after) == e.mine \/ (after > 0 /\ e.ts > after)

TakesSnapshot(e, after) ==
    e.mode = "snapshot" /\ Trim(e.text) # <<>> /\ SnapshotBelongs(e, after)

NeedTranscriptLookup(text, snapshot, sure, session, after) ==
    session /\ (after > 0 \/ Blank(text) \/ Blank(snapshot) \/ ~sure)

\* what the event adds; the terminal one starts the lookup or the finish
HandleEvent(e) ==
    /\ phase = "collect" /\ count < MaxEvents
    /\ count' = count + 1
    /\ MatchesChatEvent(e)
    /\ known' = (known \/ e.sid)
    /\ minAfter' = IF e.user > minAfter THEN e.user ELSE minAfter
    /\ LET new == IF e.mode = "delta" THEN IncrementalReplyText(assembled, e.text)
                                      ELSE [delta |-> <<>>, next |-> assembled] IN
         /\ assembled' = new.next
         /\ replies' = Emit(replies, chunkSeq, new.delta)
         /\ chunkSeq' = NextSeq(chunkSeq, new.delta)
         /\ stream' = new.next
    /\ told' = IF e.mode = "delta" THEN told \cup {Trim(e.text)} ELSE told
    /\ pending' = IF TakesSnapshot(e, minAfter') THEN Trim(e.text) ELSE pending
    /\ verified' = (verified \/ TakesSnapshot(e, minAfter'))
    /\ attachments' = attachments \cup e.media
    /\ IF e.fin = "no" THEN UNCHANGED <<phase, fin>>
       ELSE /\ fin' = e.fin
            /\ phase' = IF NeedTranscriptLookup(assembled', pending', verified', known', minAfter')
                          THEN "lookup" ELSE "finish"
    /\ UNCHANGED <<outcome, written, best>>

\* an event of another session and run is dropped
SkipEvent(e) ==
    /\ phase = "collect" /\ count < MaxEvents
    /\ count' = count + 1
    /\ ~MatchesChatEvent(e)
    /\ UNCHANGED <<phase, outcome, written, collected, fin, best>>

----------------------------------------------------------------------------
(* loadTranscriptAssistantReply: read the file every 100 ms. *)

\* what the loop over the file keeps of the turn it is in
NoTurn == [begun |-> FALSE, text |-> <<>>, ts |-> 0, more |-> FALSE, tools |-> {}, own |-> {}]

\* a user entry begins a turn; answers and tool results before the first are skipped
ReadEntry(turn, entry) ==
    IF entry.role = "user" THEN [NoTurn EXCEPT !.begun = TRUE]
    ELSE IF ~turn.begun THEN turn
    ELSE IF entry.role = "tool" THEN [turn EXCEPT !.tools = @ \cup entry.media]
    ELSE [turn EXCEPT !.text = JoinBlock(@, Trim(entry.text)), !.ts = entry.ts, !.more = entry.more,
                      !.own = @ \cup entry.media]

\* the turn after each number of entries
Turn[n \in 0..Len(Script)] == IF n = 0 THEN NoTurn ELSE ReadEntry(Turn[n - 1], Script[n])

\* what is read then: the joined answers, the time of the last, and whether the
\* turn is complete; local files of the tools come before those of the answers
Reading == [n \in 0..Len(Script) |->
    LET turn == Turn[n] IN
    [found    |-> [text  |-> turn.text,
                   media |-> IF turn.tools \cap Local # {} THEN turn.tools ELSE turn.tools \cup turn.own],
     ts       |-> turn.ts,
     complete |-> turn.ts > 0 /\ ~turn.more]]

\* the turn is newer than the user's message, if that is known
Fresh(read) == minAfter = 0 \/ read.ts > minAfter

\* mutant: the deadline counts only once something was found
PollTranscriptInsists(expired) ==
    /\ phase = "lookup"
    /\ LET read == Reading[written]
           good == ~Blank(read.found.text) /\ Fresh(read)
           kept == IF good THEN read.found ELSE best
           over == ~Blank(kept.text) /\ (read.complete \/ expired)
       IN  /\ best' = kept
           /\ phase' = IF over THEN "finish" ELSE "lookup"
    /\ UNCHANGED <<outcome, written, count, collected, fin>>

\* a complete reply ends the wait; at ReplyResolveTimeoutSec it ends with what
\* was found so far
PollTranscript(expired) ==
    /\ phase = "lookup"
    /\ LET read == Reading[written]
           good == ~Blank(read.found.text) /\ Fresh(read)
           kept == IF good THEN read.found ELSE best
           over == ~Blank(kept.text) /\ read.complete /\ Fresh(read)
       IN  /\ best' = IF over THEN read.found ELSE kept
           /\ phase' = IF over \/ expired THEN "finish" ELSE "lookup"
    /\ UNCHANGED <<outcome, written, count, collected, fin>>

\* the file cannot be read, or the context is cancelled: as if nothing was found
PollFails ==
    /\ phase = "lookup"
    /\ best' = Nothing
    /\ phase' = "finish"
    /\ UNCHANGED <<outcome, written, count, collected, fin>>

\* the gateway writes the next entry
WriteTranscript ==
    /\ phase # "done"
    /\ written < Len(Script)
    /\ written' = written + 1
    /\ UNCHANGED <<phase, outcome, count, collected, fin, best>>

----------------------------------------------------------------------------
(* The end of collectChatReplies. *)

Collected(list, seq, text, snapshot) ==
    [list |-> list, seq |-> seq, text |-> text, snapshot |-> snapshot]

\* mutant: the transcript's chunk does not advance the number
MergeTranscriptUncounted(c, transcript) ==
    LET base == IF Blank(c.text) THEN c.snapshot ELSE c.text
        new  == IncrementalReplyText(base, transcript)
    IN  IF Blank(transcript) THEN c
        ELSE IF Blank(base) THEN [c EXCEPT !.snapshot = transcript]
        ELSE Collected(Emit(c.list, c.seq, new.delta), c.seq, new.next, transcript)

\* the transcript's text is merged with what the events gave
MergeTranscript(c, transcript) ==
    LET base == IF Blank(c.text) THEN c.snapshot ELSE c.text
        new  == IncrementalReplyText(base, transcript)
    IN  IF Blank(transcript) THEN c
        ELSE IF Blank(base) THEN [c EXCEPT !.snapshot = transcript]
        ELSE Collected(Emit(c.list, c.seq, new.delta), NextSeq(c.seq, new.delta), new.next, transcript)

\* mutant: the snapshot only completes chunks that were sent
MergeSnapshotCompletes(c) ==
    LET new == IncrementalReplyText(c.text, c.snapshot) IN
    IF c.snapshot = <<>> \/ Blank(c.text) THEN c
    ELSE Collected(Emit(c.list, c.seq, new.delta), NextSeq(c.seq, new.delta), new.next, c.snapshot)

\* the snapshot becomes the reply, or what it adds to the chunks sent
MergeSnapshot(c) ==
    LET new == IncrementalReplyText(c.text, c.snapshot) IN
    IF c.snapshot = <<>> THEN c
    ELSE IF c.list = <<>> THEN Collected(<<Chunk(c.snapshot, 1)>>, 1, c.snapshot, c.snapshot)
    ELSE IF Blank(c.text) THEN c
    ELSE Collected(Emit(c.list, c.seq, new.delta), NextSeq(c.seq, new.delta), new.next, c.snapshot)

\* there is always a last reply to mark
NonEmpty(c) ==
    IF c.list = <<>> THEN Collected(<<Chunk(<<>>, c.seq + 1)>>, c.seq + 1, c.text, c.snapshot) ELSE c

\* mutant: the finish reason names the error
FinalReasonNamed(last, all, failed) ==
    IF all # {} /\ failed = all THEN "MEDIA_UPLOAD_FAILED"
    ELSE IF fin = "stop" /\ Blank(last.text) /\ all = {} THEN "ASSISTANT_REPLY_MISSING"
    ELSE fin

\* an upload that failed for every attachment, or a blank last reply, is an error
\* (the notice added to the text, and the rewritten links, are left out)
FinalReason(last, all, failed) ==
    IF all # {} /\ failed = all THEN "error"
    ELSE IF fin = "stop" /\ Blank(last.text) /\ all = {} THEN "error"
    ELSE fin

MarkFinal(list, all, failed) ==
    LET last == Last(list) IN
    [list EXCEPT ![Len(list)] = [last EXCEPT !.final = TRUE, !.finish = FinalReason(last, all, failed)]]

\* uploadLocalAttachments may fail for any of the local attachments
Finish ==
    /\ phase = "finish"
    /\ attachments' = IF Blank(best.text) THEN attachments ELSE attachments \cup best.media
    /\ LET c == NonEmpty(MergeSnapshot(MergeTranscript(
                    Collected(replies, chunkSeq, assembled, pending), best.text)))
       IN  /\ \E failed \in SUBSET (attachments' \cap Local) : replies' = MarkFinal(c.list, attachments', failed)
           /\ chunkSeq' = c.seq
           /\ assembled' = c.text
           /\ pending' = c.snapshot
    /\ verified' = (verified \/ ~Blank(best.text))
    /\ Return("replies")
    /\ UNCHANGED <<written, count, known, minAfter, fin, best, stream, told>>

Done == phase = "done" /\ UNCHANGED vars

Next ==
    \/ Respond \/ Fails
    \/ \E e \in Events : HandleEvent(e) \/ SkipEvent(e)
    \/ \E expired \in BOOLEAN : PollTranscript(expired)
    \/ PollFails
    \/ WriteTranscript
    \/ Finish
    \/ Done

Spec == Init /\ [][Next]_vars

\* the deadline of the lookup comes
FairSpec == Spec /\ WF_vars(PollTranscript(TRUE))

----------------------------------------------------------------------------
(* Properties. *)

\* Every variable stays in its set.
TypeOK ==
    /\ phase \in {"connect", "subscribe", "send", "collect", "lookup", "finish", "done"}
    /\ outcome \in {"none", "replies", "error"}
    /\ written \in 0..Len(Script) /\ count \in 0..MaxEvents
    /\ replies \in Replies /\ chunkSeq \in Nat
    /\ assembled \in Texts /\ pending \in Texts /\ stream \in Texts /\ told \subseteq Texts
    /\ verified \in BOOLEAN /\ known \in BOOLEAN
    /\ attachments \subseteq Media
    /\ minAfter \in Nat
    /\ fin \in {"none"} \cup Finishes
    /\ best \in Found

Said == FlattenSeq([i \in 1..Len(replies) |-> replies[i].text])

\* The chunks the cloud gets are numbered from 1 without a gap, and exactly the
\* last one of a returned turn is final: all four places that add a chunk agree.
ChunksAreNumbered ==
    /\ chunkSeq = Len(replies)
    /\ outcome = "replies" => replies # <<>>
    /\ \A i \in 1..Len(replies) :
         /\ replies[i].seq = i
         /\ replies[i].final = (outcome = "replies" /\ i = Len(replies))

\* The chunks together say what was assembled, and no text the gateway told is lost
\* from them: through every cumulative, repeated or rewritten text each delta can be
\* read in them, also across chunks, and so can the transcript if deltas carried any
\* visible text.  (Text may be said twice, and newlines around a delta are dropped.)
StreamIsWhole ==
    /\ phase # "done" \/ (outcome = "replies" /\ ~Blank(stream)) => Said = assembled
    /\ \A text \in told : text \in SubSeqs(Said)
    /\ outcome = "replies" /\ ~Blank(stream) /\ ~Blank(best.text) => Trim(best.text) \in SubSeqs(Said)

\* A turn told in snapshots only is answered by one chunk, the last snapshot, as
\* long as the transcript adds nothing.
SnapshotIsWhole ==
    outcome = "replies" /\ stream = <<>> /\ pending # <<>> /\ Blank(best.text) =>
        Len(replies) = 1 /\ Said = pending

\* Once the time of the user's message is known, no text of an earlier turn is
\* taken for the reply, from a snapshot or from the transcript, in any order.
NoStaleReply == minAfter > 0 => Clean(pending)

\* Until the turn ends, what was sent is what was assembled, event by event.
Told ==
    /\ outcome = "none"
    /\ Said = assembled /\ stream = assembled
    /\ assembled = <<>> => replies = <<>>

\* The inductive invariant of the chunks.
ChunkInv ==
    /\ TypeOK /\ ChunksAreNumbered
    /\ phase # "done" => Told
    /\ StreamIsWhole /\ SnapshotIsWhole

\* The inductive invariant of the snapshots: one taken before the time of the user's
\* message is known is of our run, and the transcript is read only after all events.
CleanInv ==
    /\ minAfter \in {0, Asked}
    /\ phase \in {"connect", "subscribe", "send", "collect"} => best = Nothing
    /\ phase # "done" => Clean(pending)
    /\ minAfter > 0 => Clean(best.text)
    /\ NoStaleReply

\* Waiting for the transcript ends, whatever the gateway writes to it.
LookupEnds == phase = "lookup" ~> phase \in {"finish", "done"}

\* A turn told in snapshots is answered by its final text, also when that comes
\* from the transcript.  Does not hold: of a text that extends the snapshot only
\* the extension is sent, any other is sent twice.
FinalTextIsSaid ==
    outcome = "replies" /\ stream = <<>> /\ ~Blank(pending) /\ minAfter > 0 => Said = pending

\* What it is answered by instead.  All of the transcript's text is said only if no
\* visible snapshot came before it, or one with the same text.
TranscriptIsSaid ==
    [][Finish /\ stream = <<>> /\ ~Blank(best.text) =>
         LET current == Trim(best.text) IN
         Said' = IF Blank(pending) \/ pending = current THEN best.text
                 ELSE IF IsPrefix(pending, current)
                        THEN SubSeq(current, Len(pending) + 1, Len(current))
                        ELSE current \o current]_vars

\* An error "reply missing" means that no visible text was sent.  Does not hold.
MissingMeansNothingSaid ==
    outcome = "replies" /\ fin = "stop" /\ attachments = {} /\ Last(replies).finish = "error"
        => Blank(Said)
=============================================================================

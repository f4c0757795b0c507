--------------------------- MODULE MCGatewayChat ---------------------------
(* Texts over a, b, a blank, the newline and a stale letter.  The user's      *)
(* message of this turn has time 2; the previous turn ended at time 1.        *)
EXTENDS GatewayChat

MCLetters == {"a", "b", "old", "blank", "nl"}
MCWhite   == {"blank", "nl"}

Event(mode, text) == [mine |-> TRUE, sess |-> TRUE, sid |-> TRUE, user |-> 0, mode |-> mode,
                      text |-> text, ts |-> 0, media |-> {}, fin |-> "no"]

MCEvents ==
    { Event("delta", <<"a">>), Event("delta", <<"a", "b">>), Event("delta", <<"nl", "b">>),
      Event("delta", <<"blank">>),
      Event("snapshot", <<"a">>), Event("snapshot", <<"a", "b", "nl">>),
      \* the user's message, and snapshots that do not name the run
      [Event("none", <<>>) EXCEPT !.mine = FALSE, !.user = 2],
      [Event("snapshot", <<"old">>) EXCEPT !.mine = FALSE, !.ts = 1],
      [Event("snapshot", <<"b">>) EXCEPT !.mine = FALSE, !.ts = 3],
      \* an event of another session
      [Event("delta", <<"old">>) EXCEPT !.mine = FALSE, !.sess = FALSE],
      \* the end of the turn
      [Event("none", <<>>) EXCEPT !.fin = "stop"],
      [Event("snapshot", <<"b">>) EXCEPT !.fin = "stop", !.media = {"link"}],
      [Event("none", <<>>) EXCEPT !.fin = "error", !.sid = FALSE] }

Entry(role, text, ts, more) ==
    [role |-> role, text |-> text, ts |-> ts, more |-> more, media |-> {}]

\* the previous turn, then an answer, a tool call with an image, and a follow-up
MCScript == << Entry("user", <<"old">>, 1, FALSE), Entry("assistant", <<"old">>, 1, FALSE),
               Entry("user", <<"b">>, 2, FALSE), Entry("assistant", <<"a">>, 3, TRUE),
               [Entry("tool", <<>>, 3, FALSE) EXCEPT !.media = {"file"}],
               Entry("assistant", <<"b">>, 4, FALSE) >>
=============================================================================

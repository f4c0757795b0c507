------------------------------ MODULE MCDaemon ------------------------------
(* Two versions; the second one moves the cloud and names a model. *)
EXTENDS Daemon

MCVersions == 1..2
MCURLs     == {"boot", "a"}
MCURLOf    == [v \in MCVersions |-> IF v = 2 THEN "a" ELSE "none"]

\* no placeholders but the gateway's token
MCKeys        == {"API_KEY", "OPENCLAW_GATEWAY_TOKEN", "VORTEX_OPENAI_API_KEY", "MINIMAX_API_KEY"}
MCCarries     == [v \in MCVersions |-> {"API_KEY", "OPENCLAW_GATEWAY_TOKEN"}]
MCProvidersOf == [v \in MCVersions |-> {}]
MCKeyOf       == [v \in MCVersions |-> NoKey]
MCBootRefs    == [s \in {"gateway"} |-> "OPENCLAW_GATEWAY_TOKEN"]

\* nothing but the types is promised after a reader was left behind
NotOrphaned == ~orphaned
=============================================================================

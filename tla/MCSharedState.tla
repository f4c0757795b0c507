--------------------------- MODULE MCSharedState ---------------------------
(* Two readers; the versions change nothing but .env and the version. *)
EXTENDS SharedState, TLC

MCURLOf == [v \in Versions |-> NoURL]
Symmetry == Permutations(Readers) \cup Permutations(Identities)

\* no placeholders but the gateway's token
MCKeys        == {"API_KEY", "OPENCLAW_GATEWAY_TOKEN", "VORTEX_OPENAI_API_KEY", "MINIMAX_API_KEY"}
MCCarries     == [v \in Versions |-> {"API_KEY", "OPENCLAW_GATEWAY_TOKEN"}]
MCProvidersOf == [v \in Versions |-> {}]
MCKeyOf       == [v \in Versions |-> NoKey]
MCBootRefs    == [s \in {"gateway"} |-> "OPENCLAW_GATEWAY_TOKEN"]
=============================================================================

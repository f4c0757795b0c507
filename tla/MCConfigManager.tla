-------------------------- MODULE MCConfigManager --------------------------
(* One read loop at a time: the calls of Apply follow each other.  Versions 1 *)
(* and 3 move the cloud to another address, 2 leaves it; 1 and 2 name a model. *)
EXTENDS ConfigManager

MCVersions  == 1..3
MCURLs      == {"boot", "a", "b"}
MCURLOf     == [v \in MCVersions |-> CASE v = 1 -> "a" [] v = 2 -> "none" [] v = 3 -> "b"]
MCSetsModel == {1, 2}

\* Version 1 takes its key from the VORTEX variable and does not carry it, 2 moves to
\* another provider, 3 names no model; the installed .env knows neither variable.
MCKeys        == {"API_KEY", "OPENCLAW_GATEWAY_TOKEN", "VORTEX_OPENAI_API_KEY", "MINIMAX_API_KEY"}
MCCarries     == [v \in MCVersions |-> {"API_KEY", "OPENCLAW_GATEWAY_TOKEN"}]
MCProvidersOf == [v \in MCVersions |-> CASE v = 1 -> {"vortex"} [] v = 2 -> {"minimax"} [] v = 3 -> {}]
MCKeyOf       == [v \in MCVersions |-> CASE v = 1 -> "VORTEX_OPENAI_API_KEY"
                                           [] v = 2 -> "MINIMAX_API_KEY" [] v = 3 -> NoKey]
MCBootRefs    == [s \in {"vortex", "minimax", "gateway"} |-> IF s = "gateway" THEN "OPENCLAW_GATEWAY_TOKEN" ELSE NoKey]
=============================================================================

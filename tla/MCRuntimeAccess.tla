--------------------------- MODULE MCRuntimeAccess --------------------------
(* A query with a deadline and one of the bundled interpreter, beside four *)
(* other callers: enough for two shared leases, two installations and a    *)
(* caller that is refused, in every order.                                 *)
EXTENDS SyncQuery, TLC

CONSTANTS env, health, h3, h4, h5, h6

MCHolder == {env, health, h3, h4, h5, h6}
MCQuery == {env, health}
MCUpdater == {h3}
MCQueryCommandOf == (env :> "env_info") @@ (health :> "health")
=============================================================================

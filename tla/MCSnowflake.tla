----------------------------- MODULE MCSnowflake -----------------------------
(* Small instances of Snowflake for TLC. *)
EXTENDS Snowflake, TLC

CONSTANTS n1, n2, c1, c2, c3

\* Two goroutines contend in one instance, a third runs in the other.
HomeDef == c1 :> n1 @@ c2 :> n1 @@ c3 :> n2
WorkerDef == n1 :> 0 @@ n2 :> 1
OneHome == c1 :> n1 @@ c2 :> n1
OneWorker == n1 :> 1
=============================================================================

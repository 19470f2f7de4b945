----------------------------- MODULE MCTTLCache -----------------------------
(* Three requests for the status of the server, a key that handlers drop. *)
EXTENDS TTLCache

OneKey == [r \in Requests |-> CHOOSE k \in Keys : TRUE]
=============================================================================

---------------------------- MODULE MCRestServer ----------------------------
(* Two servers that share the permanent responses, one with a pool, the    *)
(* other without connections.                                              *)
EXTENDS RestServer

CONSTANTS s1, s2

MCKinds == <<"not_allowed", "not_found">>
MCConnections == s1 :> 1 @@ s2 :> 0

MCSettings ==
  s1 :> {[threads |-> 2, max_connections |-> 0, timeout |-> 5]} @@
  s2 :> {[threads |-> 0, max_connections |-> 6, timeout |-> 0],
         [threads |-> 7, max_connections |-> 1, timeout |-> 1]}
=============================================================================

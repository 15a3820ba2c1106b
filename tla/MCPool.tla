------------------------------- MODULE MCPool -------------------------------
(* A pool of two workers with limits of two and one connection.            *)
EXTENDS PoolStart
=============================================================================

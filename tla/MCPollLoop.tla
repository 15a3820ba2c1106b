---------------------------- MODULE MCPollLoop ----------------------------
(* The loop of one worker, with poll() and with select().                  *)
EXTENDS PollLoop
=============================================================================

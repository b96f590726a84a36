-------------------------- MODULE MCRMFActionServer --------------------------
(* RMFActionServer, and what a message it logs says.                           *)
EXTENDS RMFActionServer

\* rmf_action_server.cpp:49 says that a goal whose command is not 1 stops the
\* publication of the state.
StopStopsFeedback == pc = "tell" => start
=============================================================================

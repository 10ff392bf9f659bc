---------------------------- MODULE MCAgentLoop ----------------------------
(* A finite instance of AgentLoop: the transcript a run starts on.         *)
EXTENDS AgentLoop

\* A new session holds the user's task alone.
NewSession == {<<UserMessage>>}
=============================================================================

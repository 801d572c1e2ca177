----------------------------- MODULE MCPollLoop -----------------------------
(* Small instance of PollLoop: at most MaxPending messages wait.             *)
EXTENDS PollLoop

CONSTANT MaxPending

MCNext == Next /\ pending' <= MaxPending

MCFairSpec == Init /\ [][MCNext]_pollVars /\ WF_pollVars(Loop)
=============================================================================

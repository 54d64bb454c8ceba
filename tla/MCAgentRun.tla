----------------------------- MODULE MCAgentRun -----------------------------
(* AgentRun on small instances, and what a comment in the code promises of it. *)
EXTENDS AgentRun

\* "a failing tool must not end the scan" (scanner/tools/layer.py:155): the run never
\* ends because a tool's rollback made the session's objects unreadable.
FailingToolKeepsScan == cause # "expired"
=============================================================================

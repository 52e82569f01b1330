--------------------------- MODULE MCAgentService ---------------------------
(***************************************************************************)
(* TLC instances of AgentService: which requests the clients send; workers *)
(* and ids of tool calls are interchangeable.                              *)
(***************************************************************************)
EXTENDS AgentService, TLC

Symmetry == Permutations(Worker) \cup Permutations(CallId)

ServiceKinds == {"open_session", "delete_project", "send",
                 "register", "login", "refresh", "logout"}
=============================================================================

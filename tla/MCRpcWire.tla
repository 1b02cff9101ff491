------------------------------ MODULE MCRpcWire -------------------------------
(* Every argument and every result of the two services. *)
EXTENDS RpcWire

MCMessages ==
  {"ServerRequestVoteArgs", "ServerRequestVoteResult", "ServerAppendEntriesArgs",
   "ServerAppendEntriesResult", "ServerHeartBeatArgs", "ServerHeartBeatResult",
   "ServerJoinClusterArgs", "ServerJoinClusterResult", "ServerSyncLogsArgs",
   "ServerSyncLogsResult", "ServerSetArgs", "ServerSetResult", "ServerGetArgs",
   "ServerGetResult", "ServerDeleteArgs", "ServerDeleteResult", "GatewaySetArgs",
   "GatewaySetResult", "GatewayGetArgs", "GatewayGetResult",
   "GatewayRegisterSeverArgs", "GatewayRegisterSeverResult",
   "GatewayRegisterGatewayArgs", "GatewayRegisterGatewayResult",
   "GatewaySetLeaderArgs", "GatewaySetLeaderResult", "GatewayDeleteArgs",
   "GatewayDeleteResult"}

============================================================================

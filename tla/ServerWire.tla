------------------------------ MODULE ServerWire ------------------------------
(***************************************************************************)
(* The messages of ddbr-server as its generated codec reads and writes     *)
(* them.  A Reader gives, for each field id that FastRead knows, the type  *)
(* it asks for; a Writer lists the fields in the order of FastWriteNocopy. *)
(***************************************************************************)
EXTENDS ThriftCodec

(* common/k-common.go *)
CommonReader == (1 :> I32) @@ (2 :> Str)
CommonWriter == <<Field(1, I32), Field(2, Str)>>
PasswordReader == (1 :> Str)
PasswordWriter == <<Field(1, Str)>>

(* sever/k-server.go *)
RequestVoteReqReader == (1 :> I64) @@ (2 :> I64) @@ (3 :> I64) @@ (4 :> I64)
RequestVoteReqWriter ==
  <<Field(1, I64), Field(2, I64), Field(3, I64), Field(4, I64)>>
RequestVoteRespReader == (1 :> I64) @@ (2 :> Bool) @@ (3 :> Struct("Common"))
RequestVoteRespWriter ==
  <<Field(1, I64), Field(2, Bool), Field(3, Struct("Common"))>>
AppendEntriesReqReader ==
  (1 :> I64) @@ (2 :> I64) @@ (3 :> I64) @@ (4 :> I64) @@ (5 :> ListOf(Str))
    @@ (6 :> I64) @@ (7 :> Bool)
AppendEntriesReqWriter ==
  <<Field(1, I64), Field(2, I64), Field(3, I64), Field(4, I64), Field(6, I64),
    Field(7, Bool), Field(5, ListOf(Str))>>
AppendEntriesRespReader == (1 :> I64) @@ (2 :> Bool)
AppendEntriesRespWriter == <<Field(1, I64), Field(2, Bool)>>
HeartbeatReqReader == NoFields
HeartbeatReqWriter == <<>>
HeartbeatrespReader == (1 :> ListOf(Str)) @@ (255 :> Struct("Common"))
HeartbeatrespWriter == <<Field(1, ListOf(Str)), Field(255, Struct("Common"))>>
JoinClusterReqReader == NoFields
JoinClusterReqWriter == <<>>
JoinClusterRespReader == NoFields
JoinClusterRespWriter == <<>>
LogSyncReqReader == (1 :> I64) @@ (2 :> I64) @@ (3 :> I64)
LogSyncReqWriter == <<Field(1, I64), Field(2, I64), Field(3, I64)>>
LogSyncRespReader ==
  (1 :> Bool) @@ (2 :> Str) @@ (3 :> ListOf(Struct("LogEntry"))) @@ (4 :> I64)
LogSyncRespWriter ==
  <<Field(1, Bool), Field(4, I64), Field(2, Str),
    Field(3, ListOf(Struct("LogEntry")))>>
LogEntryReader ==
  (1 :> I64) @@ (2 :> I64) @@ (3 :> Str) @@ (4 :> Bool) @@ (5 :> Bool)
LogEntryWriter ==
  <<Field(1, I64), Field(2, I64), Field(4, Bool), Field(5, Bool), Field(3, Str)>>
SetReqReader == (1 :> Str) @@ (2 :> Str) @@ (255 :> Struct("Common"))
SetReqWriter == <<Field(1, Str), Field(2, Str), Field(255, Struct("Common"))>>
SetRespReader == (1 :> Bool) @@ (2 :> Str) @@ (255 :> Struct("Common"))
SetRespWriter == <<Field(1, Bool), Field(2, Str), Field(255, Struct("Common"))>>
GetReqReader == (1 :> Str) @@ (255 :> Struct("Common"))
GetReqWriter == <<Field(1, Str), Field(255, Struct("Common"))>>
GetRespReader ==
  (1 :> Bool) @@ (2 :> Str) @@ (3 :> Bool) @@ (255 :> Struct("Common"))
GetRespWriter ==
  <<Field(1, Bool), Field(3, Bool), Field(2, Str), Field(255, Struct("Common"))>>
DeleteReqReader == (1 :> Str) @@ (255 :> Struct("Common"))
DeleteReqWriter == <<Field(1, Str), Field(255, Struct("Common"))>>
DeleteRespReader == (1 :> Bool) @@ (2 :> Str) @@ (255 :> Struct("Common"))
DeleteRespWriter == <<Field(1, Bool), Field(2, Str), Field(255, Struct("Common"))>>
ServerRequestVoteArgsReader == (1 :> Struct("RequestVoteReq"))
ServerRequestVoteArgsWriter == <<Field(1, Struct("RequestVoteReq"))>>
ServerRequestVoteResultReader == (0 :> Struct("RequestVoteResp"))
ServerRequestVoteResultWriter == <<Optional(0, Struct("RequestVoteResp"))>>
ServerAppendEntriesArgsReader == (1 :> Struct("AppendEntriesReq"))
ServerAppendEntriesArgsWriter == <<Field(1, Struct("AppendEntriesReq"))>>
ServerAppendEntriesResultReader == (0 :> Struct("AppendEntriesResp"))
ServerAppendEntriesResultWriter == <<Optional(0, Struct("AppendEntriesResp"))>>
ServerHeartBeatArgsReader == (1 :> Struct("HeartbeatReq"))
ServerHeartBeatArgsWriter == <<Field(1, Struct("HeartbeatReq"))>>
ServerHeartBeatResultReader == (0 :> Struct("Heartbeatresp"))
ServerHeartBeatResultWriter == <<Optional(0, Struct("Heartbeatresp"))>>
ServerJoinClusterArgsReader == (1 :> Struct("JoinClusterReq"))
ServerJoinClusterArgsWriter == <<Field(1, Struct("JoinClusterReq"))>>
ServerJoinClusterResultReader == (0 :> Struct("JoinClusterResp"))
ServerJoinClusterResultWriter == <<Optional(0, Struct("JoinClusterResp"))>>
ServerSyncLogsArgsReader == (1 :> Struct("LogSyncReq"))
ServerSyncLogsArgsWriter == <<Field(1, Struct("LogSyncReq"))>>
ServerSyncLogsResultReader == (0 :> Struct("LogSyncResp"))
ServerSyncLogsResultWriter == <<Optional(0, Struct("LogSyncResp"))>>
ServerSetArgsReader == (1 :> Struct("SetReq"))
ServerSetArgsWriter == <<Field(1, Struct("SetReq"))>>
ServerSetResultReader == (0 :> Struct("SetResp"))
ServerSetResultWriter == <<Optional(0, Struct("SetResp"))>>
ServerGetArgsReader == (1 :> Struct("GetReq"))
ServerGetArgsWriter == <<Field(1, Struct("GetReq"))>>
ServerGetResultReader == (0 :> Struct("GetResp"))
ServerGetResultWriter == <<Optional(0, Struct("GetResp"))>>
ServerDeleteArgsReader == (1 :> Struct("DeleteReq"))
ServerDeleteArgsWriter == <<Field(1, Struct("DeleteReq"))>>
ServerDeleteResultReader == (0 :> Struct("DeleteResp"))
ServerDeleteResultWriter == <<Optional(0, Struct("DeleteResp"))>>

(* gateway/k-gateway.go *)
SetRequestReader == (1 :> Str) @@ (2 :> Str) @@ (255 :> Struct("Password"))
SetRequestWriter == <<Field(1, Str), Field(2, Str), Field(255, Struct("Password"))>>
SetResponseReader == (1 :> Struct("Common"))
SetResponseWriter == <<Field(1, Struct("Common"))>>
GetRequestReader == (1 :> Str) @@ (2 :> Struct("Password"))
GetRequestWriter == <<Field(1, Str), Field(2, Struct("Password"))>>
GetResponseReader == (1 :> Str) @@ (255 :> Struct("Common"))
GetResponseWriter == <<Field(1, Str), Field(255, Struct("Common"))>>
RegisterSeverReqReader == (1 :> Str) @@ (2 :> I64) @@ (3 :> Bool)
RegisterSeverReqWriter == <<Field(2, I64), Field(3, Bool), Field(1, Str)>>
RegisterSeverRespReader ==
  (1 :> Str) @@ (2 :> ListOf(Str)) @@ (3 :> I64) @@ (4 :> Struct("Common"))
RegisterSeverRespWriter ==
  <<Field(3, I64), Field(1, Str), Field(2, ListOf(Str)),
    Field(4, Struct("Common"))>>
RegisterGatewayRespReader == (1 :> Struct("GatewayBasicInfo"))
RegisterGatewayRespWriter == <<Field(1, Struct("GatewayBasicInfo"))>>
GatewayBasicInfoReader == (1 :> ListOf(Str)) @@ (2 :> Struct("Password"))
GatewayBasicInfoWriter == <<Field(1, ListOf(Str)), Field(2, Struct("Password"))>>
RegisterGatewayReqReader == NoFields
RegisterGatewayReqWriter == <<>>
SetLeaderRespReader == (1 :> Str)
SetLeaderRespWriter == <<Field(1, Str)>>
SetLeaderReqReader == NoFields
SetLeaderReqWriter == <<>>
GatewaySetArgsReader == (1 :> Struct("SetRequest"))
GatewaySetArgsWriter == <<Field(1, Struct("SetRequest"))>>
GatewaySetResultReader == (0 :> Struct("SetResponse"))
GatewaySetResultWriter == <<Optional(0, Struct("SetResponse"))>>
GatewayGetArgsReader == (1 :> Struct("GetRequest"))
GatewayGetArgsWriter == <<Field(1, Struct("GetRequest"))>>
GatewayGetResultReader == (0 :> Struct("GetResponse"))
GatewayGetResultWriter == <<Optional(0, Struct("GetResponse"))>>
GatewayRegisterSeverArgsReader == (1 :> Struct("RegisterSeverReq"))
GatewayRegisterSeverArgsWriter == <<Field(1, Struct("RegisterSeverReq"))>>
GatewayRegisterSeverResultReader == (0 :> Struct("RegisterSeverResp"))
GatewayRegisterSeverResultWriter == <<Optional(0, Struct("RegisterSeverResp"))>>
GatewayRegisterGatewayArgsReader == (1 :> Struct("RegisterGatewayReq"))
GatewayRegisterGatewayArgsWriter == <<Field(1, Struct("RegisterGatewayReq"))>>
GatewayRegisterGatewayResultReader == (0 :> Struct("RegisterGatewayResp"))
GatewayRegisterGatewayResultWriter == <<Optional(0, Struct("RegisterGatewayResp"))>>
GatewaySetLeaderArgsReader == (1 :> Struct("SetLeaderReq"))
GatewaySetLeaderArgsWriter == <<Field(1, Struct("SetLeaderReq"))>>
GatewaySetLeaderResultReader == (0 :> Struct("SetLeaderResp"))
GatewaySetLeaderResultWriter == <<Optional(0, Struct("SetLeaderResp"))>>

(* All of them, by name. *)
ServerTypes ==
  ("Common" :> Type(CommonReader, CommonWriter))
    @@ ("Password" :> Type(PasswordReader, PasswordWriter))
    @@ ("RequestVoteReq" :> Type(RequestVoteReqReader, RequestVoteReqWriter))
    @@ ("RequestVoteResp" :> Type(RequestVoteRespReader, RequestVoteRespWriter))
    @@ ("AppendEntriesReq" :> Type(AppendEntriesReqReader, AppendEntriesReqWriter))
    @@ ("AppendEntriesResp" :> Type(AppendEntriesRespReader, AppendEntriesRespWriter))
    @@ ("HeartbeatReq" :> Type(HeartbeatReqReader, HeartbeatReqWriter))
    @@ ("Heartbeatresp" :> Type(HeartbeatrespReader, HeartbeatrespWriter))
    @@ ("JoinClusterReq" :> Type(JoinClusterReqReader, JoinClusterReqWriter))
    @@ ("JoinClusterResp" :> Type(JoinClusterRespReader, JoinClusterRespWriter))
    @@ ("LogSyncReq" :> Type(LogSyncReqReader, LogSyncReqWriter))
    @@ ("LogSyncResp" :> Type(LogSyncRespReader, LogSyncRespWriter))
    @@ ("LogEntry" :> Type(LogEntryReader, LogEntryWriter))
    @@ ("SetReq" :> Type(SetReqReader, SetReqWriter))
    @@ ("SetResp" :> Type(SetRespReader, SetRespWriter))
    @@ ("GetReq" :> Type(GetReqReader, GetReqWriter))
    @@ ("GetResp" :> Type(GetRespReader, GetRespWriter))
    @@ ("DeleteReq" :> Type(DeleteReqReader, DeleteReqWriter))
    @@ ("DeleteResp" :> Type(DeleteRespReader, DeleteRespWriter))
    @@ ("ServerRequestVoteArgs" :> Type(ServerRequestVoteArgsReader, ServerRequestVoteArgsWriter))
    @@ ("ServerRequestVoteResult" :> Type(ServerRequestVoteResultReader, ServerRequestVoteResultWriter))
    @@ ("ServerAppendEntriesArgs" :> Type(ServerAppendEntriesArgsReader, ServerAppendEntriesArgsWriter))
    @@ ("ServerAppendEntriesResult" :> Type(ServerAppendEntriesResultReader, ServerAppendEntriesResultWriter))
    @@ ("ServerHeartBeatArgs" :> Type(ServerHeartBeatArgsReader, ServerHeartBeatArgsWriter))
    @@ ("ServerHeartBeatResult" :> Type(ServerHeartBeatResultReader, ServerHeartBeatResultWriter))
    @@ ("ServerJoinClusterArgs" :> Type(ServerJoinClusterArgsReader, ServerJoinClusterArgsWriter))
    @@ ("ServerJoinClusterResult" :> Type(ServerJoinClusterResultReader, ServerJoinClusterResultWriter))
    @@ ("ServerSyncLogsArgs" :> Type(ServerSyncLogsArgsReader, ServerSyncLogsArgsWriter))
    @@ ("ServerSyncLogsResult" :> Type(ServerSyncLogsResultReader, ServerSyncLogsResultWriter))
    @@ ("ServerSetArgs" :> Type(ServerSetArgsReader, ServerSetArgsWriter))
    @@ ("ServerSetResult" :> Type(ServerSetResultReader, ServerSetResultWriter))
    @@ ("ServerGetArgs" :> Type(ServerGetArgsReader, ServerGetArgsWriter))
    @@ ("ServerGetResult" :> Type(ServerGetResultReader, ServerGetResultWriter))
    @@ ("ServerDeleteArgs" :> Type(ServerDeleteArgsReader, ServerDeleteArgsWriter))
    @@ ("ServerDeleteResult" :> Type(ServerDeleteResultReader, ServerDeleteResultWriter))
    @@ ("SetRequest" :> Type(SetRequestReader, SetRequestWriter))
    @@ ("SetResponse" :> Type(SetResponseReader, SetResponseWriter))
    @@ ("GetRequest" :> Type(GetRequestReader, GetRequestWriter))
    @@ ("GetResponse" :> Type(GetResponseReader, GetResponseWriter))
    @@ ("RegisterSeverReq" :> Type(RegisterSeverReqReader, RegisterSeverReqWriter))
    @@ ("RegisterSeverResp" :> Type(RegisterSeverRespReader, RegisterSeverRespWriter))
    @@ ("RegisterGatewayResp" :> Type(RegisterGatewayRespReader, RegisterGatewayRespWriter))
    @@ ("GatewayBasicInfo" :> Type(GatewayBasicInfoReader, GatewayBasicInfoWriter))
    @@ ("RegisterGatewayReq" :> Type(RegisterGatewayReqReader, RegisterGatewayReqWriter))
    @@ ("SetLeaderResp" :> Type(SetLeaderRespReader, SetLeaderRespWriter))
    @@ ("SetLeaderReq" :> Type(SetLeaderReqReader, SetLeaderReqWriter))
    @@ ("GatewaySetArgs" :> Type(GatewaySetArgsReader, GatewaySetArgsWriter))
    @@ ("GatewaySetResult" :> Type(GatewaySetResultReader, GatewaySetResultWriter))
    @@ ("GatewayGetArgs" :> Type(GatewayGetArgsReader, GatewayGetArgsWriter))
    @@ ("GatewayGetResult" :> Type(GatewayGetResultReader, GatewayGetResultWriter))
    @@ ("GatewayRegisterSeverArgs" :> Type(GatewayRegisterSeverArgsReader, GatewayRegisterSeverArgsWriter))
    @@ ("GatewayRegisterSeverResult" :> Type(GatewayRegisterSeverResultReader, GatewayRegisterSeverResultWriter))
    @@ ("GatewayRegisterGatewayArgs" :> Type(GatewayRegisterGatewayArgsReader, GatewayRegisterGatewayArgsWriter))
    @@ ("GatewayRegisterGatewayResult" :> Type(GatewayRegisterGatewayResultReader, GatewayRegisterGatewayResultWriter))
    @@ ("GatewaySetLeaderArgs" :> Type(GatewaySetLeaderArgsReader, GatewaySetLeaderArgsWriter))
    @@ ("GatewaySetLeaderResult" :> Type(GatewaySetLeaderResultReader, GatewaySetLeaderResultWriter))

============================================================================

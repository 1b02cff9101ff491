------------------------------ MODULE ClientWire ------------------------------
(***************************************************************************)
(* The messages of ddbr-client as its generated codec reads and writes     *)
(* them.  A Reader gives, for each field id that FastRead knows, the type  *)
(* it asks for; a Writer lists the fields in the order of FastWriteNocopy. *)
(***************************************************************************)
EXTENDS ThriftCodec

(* common/k-common.go *)
CommonReader == (1 :> I32) @@ (2 :> Str)
CommonWriter == <<Field(1, I32), Field(2, Str)>>
PasswordReader == (1 :> Str)
PasswordWriter == <<Field(1, Str)>>

(* gateway/k-gateway.go *)
SetRequestReader == (1 :> Str) @@ (2 :> Str) @@ (255 :> Struct("Password"))
SetRequestWriter == <<Field(1, Str), Field(2, Str), Field(255, Struct("Password"))>>
SetResponseReader == (1 :> Struct("Common"))
SetResponseWriter == <<Field(1, Struct("Common"))>>
GetRequestReader == (1 :> Str) @@ (2 :> Struct("Password"))
GetRequestWriter == <<Field(1, Str), Field(2, Struct("Password"))>>
GetResponseReader == (1 :> Str) @@ (255 :> Struct("Common"))
GetResponseWriter == <<Field(1, Str), Field(255, Struct("Common"))>>
DeleteRequestReader == (1 :> Str) @@ (2 :> Struct("Password"))
DeleteRequestWriter == <<Field(1, Str), Field(2, Struct("Password"))>>
DeleteResponseReader == (1 :> Struct("Common"))
DeleteResponseWriter == <<Field(1, Struct("Common"))>>
RegisterSeverReqReader == (1 :> Str) @@ (2 :> I64) @@ (3 :> Bool)
RegisterSeverReqWriter == <<Field(2, I64), Field(3, Bool), Field(1, Str)>>
RegisterSeverRespReader ==
  (1 :> Str) @@ (2 :> ListOf(Str)) @@ (3 :> I64) @@ (4 :> Struct("Common"))
RegisterSeverRespWriter ==
  <<Field(3, I64), Field(1, Str), Field(2, ListOf(Str)),
    Field(4, Struct("Common"))>>
RegisterGatewayRespReader == (1 :> Struct("GatewayBasicInfo"))
RegisterGatewayRespWriter == <<Field(1, Struct("GatewayBasicInfo"))>>
GatewayBasicInfoReader == (1 :> ListOf(Str)) @@ (2 :> Struct("Password"))
GatewayBasicInfoWriter == <<Field(1, ListOf(Str)), Field(2, Struct("Password"))>>
RegisterGatewayReqReader == NoFields
RegisterGatewayReqWriter == <<>>
SetLeaderRespReader == (1 :> Str)
SetLeaderRespWriter == <<Field(1, Str)>>
SetLeaderReqReader == NoFields
SetLeaderReqWriter == <<>>
GatewaySetArgsReader == (1 :> Struct("SetRequest"))
GatewaySetArgsWriter == <<Field(1, Struct("SetRequest"))>>
GatewaySetResultReader == (0 :> Struct("SetResponse"))
GatewaySetResultWriter == <<Optional(0, Struct("SetResponse"))>>
GatewayGetArgsReader == (1 :> Struct("GetRequest"))
GatewayGetArgsWriter == <<Field(1, Struct("GetRequest"))>>
GatewayGetResultReader == (0 :> Struct("GetResponse"))
GatewayGetResultWriter == <<Optional(0, Struct("GetResponse"))>>
GatewayDeleteArgsReader == (1 :> Struct("DeleteRequest"))
GatewayDeleteArgsWriter == <<Field(1, Struct("DeleteRequest"))>>
GatewayDeleteResultReader == (0 :> Struct("DeleteResponse"))
GatewayDeleteResultWriter == <<Optional(0, Struct("DeleteResponse"))>>
GatewayRegisterSeverArgsReader == (1 :> Struct("RegisterSeverReq"))
GatewayRegisterSeverArgsWriter == <<Field(1, Struct("RegisterSeverReq"))>>
GatewayRegisterSeverResultReader == (0 :> Struct("RegisterSeverResp"))
GatewayRegisterSeverResultWriter == <<Optional(0, Struct("RegisterSeverResp"))>>
GatewayRegisterGatewayArgsReader == (1 :> Struct("RegisterGatewayReq"))
GatewayRegisterGatewayArgsWriter == <<Field(1, Struct("RegisterGatewayReq"))>>
GatewayRegisterGatewayResultReader == (0 :> Struct("RegisterGatewayResp"))
GatewayRegisterGatewayResultWriter == <<Optional(0, Struct("RegisterGatewayResp"))>>
GatewaySetLeaderArgsReader == (1 :> Struct("SetLeaderReq"))
GatewaySetLeaderArgsWriter == <<Field(1, Struct("SetLeaderReq"))>>
GatewaySetLeaderResultReader == (0 :> Struct("SetLeaderResp"))
GatewaySetLeaderResultWriter == <<Optional(0, Struct("SetLeaderResp"))>>

(* All of them, by name. *)
ClientTypes ==
  ("Common" :> Type(CommonReader, CommonWriter))
    @@ ("Password" :> Type(PasswordReader, PasswordWriter))
    @@ ("SetRequest" :> Type(SetRequestReader, SetRequestWriter))
    @@ ("SetResponse" :> Type(SetResponseReader, SetResponseWriter))
    @@ ("GetRequest" :> Type(GetRequestReader, GetRequestWriter))
    @@ ("GetResponse" :> Type(GetResponseReader, GetResponseWriter))
    @@ ("DeleteRequest" :> Type(DeleteRequestReader, DeleteRequestWriter))
    @@ ("DeleteResponse" :> Type(DeleteResponseReader, DeleteResponseWriter))
    @@ ("RegisterSeverReq" :> Type(RegisterSeverReqReader, RegisterSeverReqWriter))
    @@ ("RegisterSeverResp" :> Type(RegisterSeverRespReader, RegisterSeverRespWriter))
    @@ ("RegisterGatewayResp" :> Type(RegisterGatewayRespReader, RegisterGatewayRespWriter))
    @@ ("GatewayBasicInfo" :> Type(GatewayBasicInfoReader, GatewayBasicInfoWriter))
    @@ ("RegisterGatewayReq" :> Type(RegisterGatewayReqReader, RegisterGatewayReqWriter))
    @@ ("SetLeaderResp" :> Type(SetLeaderRespReader, SetLeaderRespWriter))
    @@ ("SetLeaderReq" :> Type(SetLeaderReqReader, SetLeaderReqWriter))
    @@ ("GatewaySetArgs" :> Type(GatewaySetArgsReader, GatewaySetArgsWriter))
    @@ ("GatewaySetResult" :> Type(GatewaySetResultReader, GatewaySetResultWriter))
    @@ ("GatewayGetArgs" :> Type(GatewayGetArgsReader, GatewayGetArgsWriter))
    @@ ("GatewayGetResult" :> Type(GatewayGetResultReader, GatewayGetResultWriter))
    @@ ("GatewayDeleteArgs" :> Type(GatewayDeleteArgsReader, GatewayDeleteArgsWriter))
    @@ ("GatewayDeleteResult" :> Type(GatewayDeleteResultReader, GatewayDeleteResultWriter))
    @@ ("GatewayRegisterSeverArgs" :> Type(GatewayRegisterSeverArgsReader, GatewayRegisterSeverArgsWriter))
    @@ ("GatewayRegisterSeverResult" :> Type(GatewayRegisterSeverResultReader, GatewayRegisterSeverResultWriter))
    @@ ("GatewayRegisterGatewayArgs" :> Type(GatewayRegisterGatewayArgsReader, GatewayRegisterGatewayArgsWriter))
    @@ ("GatewayRegisterGatewayResult" :> Type(GatewayRegisterGatewayResultReader, GatewayRegisterGatewayResultWriter))
    @@ ("GatewaySetLeaderArgs" :> Type(GatewaySetLeaderArgsReader, GatewaySetLeaderArgsWriter))
    @@ ("GatewaySetLeaderResult" :> Type(GatewaySetLeaderResultReader, GatewaySetLeaderResultWriter))

============================================================================

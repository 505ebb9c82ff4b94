------------------------------ MODULE Messages ------------------------------
(***************************************************************************)
(* The messages and the two services that protoc generated from            *)
(* Proto/raftRPC.proto and Proto/KvServerRPC.proto, and the encoding of an *)
(* operation as the command of a log entry (KvServer/op_coder.h).          *)
(***************************************************************************)
EXTENDS ProtoCodec

\* The largest field that decodeOp accepts: 1 GiB.
FieldLimit == 1024 * 1024 * 1024

-----------------------------------------------------------------------------
(* Mutants *)

Mutant_CallMethod(i)         == <<"Get", "PutAppend", "Search", "PutFeature">>[i + 1]
Mutant_FieldRead(data, i)    == i <= Len(data) /\ data[i].length <= FieldLimit

-----------------------------------------------------------------------------
(* The fields of the messages between Raft nodes *)

LogEntry == <<F(1, "command", "bytes"), F(2, "logterm", "int"), F(3, "logindex", "int")>>

AppendEntriesArgs ==
    <<F(1, "term", "int"), F(2, "leaderid", "int"), F(3, "prevlogindex", "int"),
      F(4, "prevlogterm", "int"), FOf(5, "entries", "messages", LogEntry),
      F(6, "leadercommit", "int"), F(7, "batchid", "int")>>

AppendEntriesReply ==
    <<F(1, "term", "int"), F(2, "success", "bool"), F(3, "updatenextindex", "int"),
      F(4, "appstate", "int"), F(5, "batchid", "int"), F(6, "matchindex", "int")>>

RequestVoteArgs ==
    <<F(1, "term", "int"), F(2, "candidateid", "int"), F(3, "lastlogindex", "int"),
      F(4, "lastlogterm", "int")>>

RequestVoteReply ==
    <<F(1, "term", "int"), F(2, "votegranted", "bool"), F(3, "votestate", "int")>>

PreRequestVoteArgs ==
    <<F(1, "term", "int"), F(2, "candidateid", "int"), F(3, "lastlogindex", "int"),
      F(4, "lastlogterm", "int")>>

PreRequestVoteReply == <<F(1, "term", "int"), F(2, "votegranted", "bool")>>

InstallSnapshotRequest ==
    <<F(1, "leaderid", "int"), F(2, "term", "int"),
      F(3, "lastsnapshotincludeindex", "int"), F(4, "lastsnapshotincludeterm", "int"),
      F(5, "snapshotdata", "bytes")>>

InstallSnapshotResponse == <<F(1, "term", "int")>>

ReadIndexRequest == <<F(1, "serverid", "int")>>

ReadIndexResponse ==
    <<F(1, "term", "int"), F(2, "commitindex", "int"), F(3, "isleader", "bool")>>

-----------------------------------------------------------------------------
(* The fields of the messages between clients and servers *)

GetArgs == <<F(1, "key", "bytes"), F(2, "clientid", "bytes"), F(3, "requestid", "int")>>

GetReply == <<F(1, "err", "bytes"), F(2, "value", "bytes")>>

PutAppendArgs ==
    <<F(1, "key", "bytes"), F(2, "value", "bytes"), F(3, "op", "bytes"),
      F(4, "clientid", "bytes"), F(5, "requestid", "int")>>

PutAppendReply == <<F(1, "err", "bytes")>>

ItemFeature ==
    <<F(1, "item_id", "string"), F(2, "embedding", "floats"), F(3, "attrs", "map"),
      F(4, "timestamp", "int")>>

PutFeatureArgs ==
    <<FOf(1, "feature", "message", ItemFeature), F(2, "clientid", "bytes"),
      F(3, "requestid", "int")>>

PutFeatureReply == <<F(1, "err", "bytes")>>

SearchRequest ==
    <<F(1, "query_vector", "floats"), F(2, "top_k", "int"), F(3, "search_type", "string")>>

SearchResponse ==
    <<F(1, "item_ids", "strings"), F(2, "scores", "floats"), F(3, "search_time_us", "int")>>

-----------------------------------------------------------------------------
(* What the accessors leave in a new message: set_f stores a value, add_f  *)
(* appends one and mutable_f makes the message that a field holds.         *)

With(S, fields) ==
    [name \in Names(S) \cup {"unknown"} |->
        IF name \in DOMAIN fields THEN fields[name] ELSE Clear(S)[name]]

MakeLogEntry(command, term, index) ==
    With(LogEntry, [command |-> command, logterm |-> term, logindex |-> index])

MakeAppendEntriesArgs(term, leader, index, prevTerm, entries, commit, batch) ==
    With(AppendEntriesArgs,
         [term |-> term, leaderid |-> leader, prevlogindex |-> index,
          prevlogterm |-> prevTerm, entries |-> entries, leadercommit |-> commit,
          batchid |-> batch])

MakeAppendEntriesReply(term, success, next, state, batch, match) ==
    With(AppendEntriesReply,
         [term |-> term, success |-> success, updatenextindex |-> next,
          appstate |-> state, batchid |-> batch, matchindex |-> match])

MakeRequestVoteArgs(term, candidate, index, lastTerm) ==
    With(RequestVoteArgs, [term |-> term, candidateid |-> candidate,
                           lastlogindex |-> index, lastlogterm |-> lastTerm])

MakeRequestVoteReply(term, granted, state) ==
    With(RequestVoteReply, [term |-> term, votegranted |-> granted, votestate |-> state])

MakePreRequestVoteArgs(term, candidate, index, lastTerm) ==
    With(PreRequestVoteArgs, [term |-> term, candidateid |-> candidate,
                              lastlogindex |-> index, lastlogterm |-> lastTerm])

MakePreRequestVoteReply(term, granted) ==
    With(PreRequestVoteReply, [term |-> term, votegranted |-> granted])

MakeInstallSnapshotRequest(leader, term, index, lastTerm, data) ==
    With(InstallSnapshotRequest,
         [leaderid |-> leader, term |-> term, lastsnapshotincludeindex |-> index,
          lastsnapshotincludeterm |-> lastTerm, snapshotdata |-> data])

MakeInstallSnapshotResponse(term) == With(InstallSnapshotResponse, [term |-> term])

MakeReadIndexRequest(server) == With(ReadIndexRequest, [serverid |-> server])

MakeReadIndexResponse(term, commit, isLeader) ==
    With(ReadIndexResponse, [term |-> term, commitindex |-> commit, isleader |-> isLeader])

MakeGetArgs(key, client, request) ==
    With(GetArgs, [key |-> key, clientid |-> client, requestid |-> request])

MakeGetReply(err, value) == With(GetReply, [err |-> err, value |-> value])

MakePutAppendArgs(key, value, op, client, request) ==
    With(PutAppendArgs, [key |-> key, value |-> value, op |-> op, clientid |-> client,
                         requestid |-> request])

MakePutAppendReply(err) == With(PutAppendReply, [err |-> err])

MakeItemFeature(item, embedding, attrs, time) ==
    With(ItemFeature, [item_id |-> item, embedding |-> embedding, attrs |-> attrs,
                       timestamp |-> time])

\* The Clerk copies the caller's feature into mutable_feature().
MakePutFeatureArgs(feature, client, request) ==
    With(PutFeatureArgs, [feature |-> CopyFrom(ItemFeature, feature),
                          clientid |-> client, requestid |-> request])

MakePutFeatureReply(err) == With(PutFeatureReply, [err |-> err])

MakeSearchRequest(query, k, type) ==
    With(SearchRequest, [query_vector |-> query, top_k |-> k, search_type |-> type])

MakeSearchResponse(ids, scores, time) ==
    With(SearchResponse, [item_ids |-> ids, scores |-> scores, search_time_us |-> time])

-----------------------------------------------------------------------------
(* The services: the method that a stub names, the messages it takes and   *)
(* the handler that CallMethod finds for it.                               *)

raftRpc_Stub(name) ==
    CASE name = "AppendEntries"   -> 0
      [] name = "RequestVote"     -> 1
      [] name = "InstallSnapshot" -> 2
      [] name = "PreRequestVote"  -> 3
      [] name = "ReadIndex"       -> 4

raftRpc_CallMethod(i) ==
    <<"AppendEntries", "RequestVote", "InstallSnapshot", "PreRequestVote",
      "ReadIndex">>[i + 1]

raftRpc_GetRequestPrototype(i) ==
    <<AppendEntriesArgs, RequestVoteArgs, InstallSnapshotRequest, PreRequestVoteArgs,
      ReadIndexRequest>>[i + 1]

raftRpc_GetResponsePrototype(i) ==
    <<AppendEntriesReply, RequestVoteReply, InstallSnapshotResponse,
      PreRequestVoteReply, ReadIndexResponse>>[i + 1]

kvServerRpc_Stub(name) ==
    CASE name = "Get"        -> 0
      [] name = "PutAppend"  -> 1
      [] name = "PutFeature" -> 2
      [] name = "Search"     -> 3

kvServerRpc_CallMethod(i) == <<"Get", "PutAppend", "PutFeature", "Search">>[i + 1]

kvServerRpc_GetRequestPrototype(i) ==
    <<GetArgs, PutAppendArgs, PutFeatureArgs, SearchRequest>>[i + 1]

kvServerRpc_GetResponsePrototype(i) ==
    <<GetReply, PutAppendReply, PutFeatureReply, SearchResponse>>[i + 1]

-----------------------------------------------------------------------------
(* encodeOp and decodeOp: five fields, each with its length before it; the *)
(* number of the request is written in decimal digits.                     *)

to_string(n) == <<[digits |-> n]>>
stoi(s) == IF Len(s) = 1 /\ Has(s[1], "digits") THEN s[1].digits ELSE -1

encodeField(s) == <<[field |-> s, length |-> Length(s)]>>

encodeOp(op) ==
    encodeField(op.Operation) \o encodeField(op.Key) \o encodeField(op.Value)
    \o encodeField(op.ClientId) \o encodeField(to_string(op.RequestId))

\* Reading ends where the data end and at a field that is too large: this one
\* and all behind it stay empty and RequestId, which nothing initializes, is
\* junk.
FieldRead(data, i) == i <= Len(data) /\ \A j \in 1..i : data[j].length <= FieldLimit

decodeOp(data, junk) ==
    LET field(i) == IF FieldRead(data, i) THEN data[i].field ELSE <<>>
    IN  [Operation |-> field(1), Key |-> field(2), Value |-> field(3),
         ClientId |-> field(4),
         RequestId |-> IF FieldRead(data, 5) THEN stoi(field(5)) ELSE junk]

=============================================================================

---------------------------- MODULE MessageFlow ----------------------------
(***************************************************************************)
(* The way of a call: the stub writes the request, the provider reads it   *)
(* and calls the handler, a write goes on as the command of a log entry to *)
(* the replicas, which store it and read the features in it, and the       *)
(* answer comes back.  KrpcChannel and KrpcProvider, which carry the bytes *)
(* and the index of the method, are not in the repository.                 *)
(***************************************************************************)
EXTENDS Messages

CONSTANTS
    Methods,          \* the methods called: pairs of a service and a name
    Requests(_),      \* Requests(m): what method m is called with
    Responses(_),     \* Responses(m): what its handler may answer
    StoredBefore,     \* the values that a key may have before an Append
    MapOrders,        \* the orders in which a map may be written
    Junk,             \* what an int that nothing initialized may hold
    Mixtures          \* the features that a cut value with another behind it may yield

VARIABLES
    stage,            \* how far the call has come
    method, request,  \* what the caller asks for
    index,            \* the index of the method that the stub names
    size, wire,       \* ByteSizeLong and the bytes of the message under way
    seen, handler,    \* the request as the provider reads it; who gets it
    command,          \* the command of the log entry
    op,               \* the operation as a replica decodes it
    old, stored,      \* the value under the key before and after Apply
    feature,          \* the feature that a replica reads for its index
    response, answer  \* the response sent, and as the caller reads it

callVars  == <<method, request>>
writeVars == <<command, op, old, stored, feature>>
replyVars == <<response, answer>>
flowVars  == <<stage, callVars, index, size, wire, seen, handler, writeVars, replyVars>>

-----------------------------------------------------------------------------
(* The services of Proto/raftRPC.proto and Proto/KvServerRPC.proto *)

ServiceMethods ==
    {<<"raftRpc", n>> : n \in {"AppendEntries", "RequestVote", "InstallSnapshot",
                               "PreRequestVote", "ReadIndex"}}
    \cup {<<"kvServerRpc", n>> : n \in {"Get", "PutAppend", "PutFeature", "Search"}}

ToRaft(m) == m[1] = "raftRpc"

Stub(m) == IF ToRaft(m) THEN raftRpc_Stub(m[2]) ELSE kvServerRpc_Stub(m[2])
CallMethod(m, i) == IF ToRaft(m) THEN raftRpc_CallMethod(i) ELSE kvServerRpc_CallMethod(i)
RequestFields(m, i) == IF ToRaft(m) THEN raftRpc_GetRequestPrototype(i)
                       ELSE kvServerRpc_GetRequestPrototype(i)
ResponseFields(m, i) == IF ToRaft(m) THEN raftRpc_GetResponsePrototype(i)
                        ELSE kvServerRpc_GetResponsePrototype(i)

-----------------------------------------------------------------------------
(* What the messages of an instance are *)

MapKeys == UNION {Range(keys) : keys \in MapOrders}

ASSUME MethodsAssumption == Methods \subseteq ServiceMethods

\* An order of the hash table has every key that is in a map.
ASSUME OrdersAssumption == \A keys \in MapOrders : IsSeq(keys) /\ Range(keys) = MapKeys

\* Messages of the right type.  The Clerk always sets the feature of PutFeature and
\* asks for a Put or an Append; the values come from a serializer, whole or cut.
ASSUME RequestsAssumption ==
    \A m \in Methods : \A r \in Requests(m) :
        /\ IsMessage(RequestFields(m, Stub(m)), r, MapKeys)
        /\ m[2] = "PutFeature" => r.feature # Absent
        /\ m[2] = "PutAppend"  => /\ r.op \in {Text("Put"), Text("Append")}
                                  /\ FromSerializer(ItemFeature, r.value)

ASSUME ResponsesAssumption ==
    \A m \in Methods : \A r \in Responses(m) :
        IsMessage(ResponseFields(m, Stub(m)), r, MapKeys)

ASSUME StoredAssumption == \A b \in StoredBefore : FromSerializer(ItemFeature, b)

-----------------------------------------------------------------------------

IsWrite == handler \in {"PutAppend", "PutFeature"}

\* The channel writes the message: its size is computed first.
Write(S, m) ==
    \E keys \in MapOrders : size' = ByteSizeLong(S, m, keys) /\ wire' = Serialize(S, m, keys)

StubCall ==
    /\ stage = "new" /\ stage' = "sent"
    /\ index' = Stub(method)
    /\ Write(RequestFields(method, Stub(method)), request)
    /\ UNCHANGED <<callVars, seen, handler, writeVars, replyVars>>

\* The provider reads the request; if it cannot, the call fails.
ProviderParse ==
    /\ stage = "sent"
    /\ seen' = Parse(RequestFields(method, index), wire)
    /\ stage' = IF seen' = Failed THEN "refused" ELSE "parsed"
    /\ UNCHANGED <<callVars, index, size, wire, handler, writeVars, replyVars>>

ProviderCall ==
    /\ stage = "parsed" /\ stage' = "called"
    /\ handler' = CallMethod(method, index)
    /\ UNCHANGED <<callVars, index, size, wire, seen, writeVars, replyVars>>

\* PutAppend and PutFeature: the operation that is handed to Start.  A feature
\* is serialized once more, by the Leader.
OpOf(keys) ==
    IF handler = "PutFeature"
    THEN [Operation |-> Text("PutFeature"), Key |-> seen.feature.item_id,
          Value |-> Serialize(ItemFeature, seen.feature, keys),
          ClientId |-> seen.clientid, RequestId |-> seen.requestid]
    ELSE [Operation |-> seen.op, Key |-> seen.key, Value |-> seen.value,
          ClientId |-> seen.clientid, RequestId |-> seen.requestid]

HandleWrite ==
    /\ stage = "called" /\ IsWrite /\ stage' = "logged"
    /\ \E keys \in MapOrders : command' = encodeOp(OpOf(keys))
    /\ UNCHANGED <<callVars, index, size, wire, seen, handler, op, old, stored,
                   feature, replyVars>>

\* A Follower gets the entry in an AppendEntries of the Leader.
Replicate ==
    LET args == MakeAppendEntriesArgs(1, 2, 0, 0, <<MakeLogEntry(command, 1, 1)>>, 0, 1)
        copy == Parse(AppendEntriesArgs, Serialize(AppendEntriesArgs, args, <<>>))
    IN  /\ stage = "logged" /\ stage' = "copied"
        /\ command' = copy.entries[1].command
        /\ UNCHANGED <<callVars, index, size, wire, seen, handler, op, old, stored,
                       feature, replyVars>>

\* ExecutePutAppendOnKVDB: what is under the key then.
StoredBytes(o) ==
    CASE o.Operation = Text("Put")    -> o.Value
      [] o.Operation = Text("Append") -> old \o o.Value
      [] OTHER                        -> old

\* The bytes that a feature is read from: those of PutFeature at once, those of
\* the SkipList when the index is built.
FeatureBytes(o, s) == IF o.Operation = Text("PutFeature") THEN o.Value ELSE s

\* Apply decodes the command, stores a value and reads the feature.  What Apply
\* drops as a duplicate is left to KvServer.
ApplyCommand ==
    /\ stage \in {"logged", "copied"} /\ stage' = "applied"
    /\ \E junk \in Junk : op' = decodeOp(command, junk)
    /\ stored' = StoredBytes(op')
    /\ feature' \in ParseResults(ItemFeature, FeatureBytes(op', stored'), Mixtures)
    /\ UNCHANGED <<callVars, index, size, wire, seen, handler, command, old, replyVars>>

\* The handler has answered and the provider writes the response.
Answer ==
    /\ stage = IF IsWrite THEN "applied" ELSE "called"
    /\ stage' = "answered"
    /\ response' \in Responses(method)
    /\ Write(ResponseFields(method, index), response')
    /\ UNCHANGED <<callVars, index, seen, handler, writeVars, answer>>

ReadAnswer ==
    /\ stage = "answered" /\ stage' = "done"
    /\ answer' = Parse(ResponseFields(method, index), wire)
    /\ UNCHANGED <<callVars, index, size, wire, seen, handler, writeVars, response>>

-----------------------------------------------------------------------------

FlowInit ==
    /\ stage = "new"
    /\ method \in Methods /\ request \in Requests(method)
    /\ old \in IF method[2] = "PutAppend" THEN StoredBefore ELSE {<<>>}
    /\ index = -1 /\ size = 0 /\ wire = <<>>
    /\ seen = Absent /\ handler = Absent
    /\ command = <<>> /\ op = Absent /\ stored = <<>> /\ feature = Absent
    /\ response = Absent /\ answer = Absent

FlowNext ==
    \/ StubCall \/ ProviderParse \/ ProviderCall \/ HandleWrite
    \/ Replicate \/ ApplyCommand \/ Answer \/ ReadAnswer

FlowSpec == FlowInit /\ [][FlowNext]_flowVars

-----------------------------------------------------------------------------
(* Properties *)

\* The texts of a message that _InternalParse verifies.
FeatureTexts(f) == {f.item_id} \cup DOMAIN f.attrs \cup {f.attrs[k] : k \in DOMAIN f.attrs}
RequestTexts ==
    CASE method[2] = "PutFeature" -> FeatureTexts(request.feature)
      [] method[2] = "Search"     -> {request.search_type}
      [] OTHER                    -> {}
ResponseTexts ==
    IF method[2] = "Search" THEN Range(response.item_ids) ELSE {}
AllText(T) == \A t \in T : \A i \in DOMAIN t : t[i].byte # NotUtf8

\* ByteSizeLong announces exactly the bytes that _InternalSerialize then
\* writes, nested messages, packs, maps and unknown fields included.
SizeAnnounced == stage \in {"sent", "answered"} => size = Length(wire)

\* The handler that runs is the one of the method that the caller named, and it
\* sees the request as it was made, whatever fields are zero, empty or unknown.
RequestArrives == stage = "called" => handler = method[2] /\ seen = request

\* A call fails in the provider exactly if the request contains a text that is
\* not UTF-8: the Clerk, which only logs that, repeats such a call in vain.
RefusedForText ==
    /\ stage = "refused" => ~AllText(RequestTexts)
    /\ stage = "called"  => AllText(RequestTexts)

\* The operation that the client asks for.
OpAsked(keys) ==
    IF method[2] = "PutFeature"
    THEN [Operation |-> Text("PutFeature"), Key |-> request.feature.item_id,
          Value |-> Serialize(ItemFeature, request.feature, keys),
          ClientId |-> request.clientid, RequestId |-> request.requestid]
    ELSE [Operation |-> request.op, Key |-> request.key, Value |-> request.value,
          ClientId |-> request.clientid, RequestId |-> request.requestid]

Fits(o) == \A b \in {o.Operation, o.Key, o.Value, o.ClientId} : Length(b) <= FieldLimit

\* The operation that each replica decodes from the log is the one the client
\* asked for, and the feature in it is the client's, although it was
\* serialized anew and in any order.  decodeOp stops at a field of more than
\* 1 GiB: such an operation is executed under the empty client id and whatever
\* number is in an int that nobody set, and never under the client's name.
WriteArrives ==
    stage = "applied" =>
        \E keys \in MapOrders :
            IF Fits(OpAsked(keys))
            THEN /\ op = OpAsked(keys)
                 /\ method[2] = "PutFeature" => feature = request.feature
            ELSE /\ op.Operation = OpAsked(keys).Operation
                 /\ op.ClientId = <<>> /\ op.RequestId \in Junk

\* What the build of the index reads from a value of the SkipList: what was put,
\* or, if a whole value was appended to, the new feature merged into the old
\* one, their embeddings one after the other; a value that ends inside a field
\* yields no feature.  A value that was too large is an empty one.
StoredMerges ==
    stage = "applied" /\ method[2] = "PutAppend" =>
        LET fits == Length(request.key) <= FieldLimit /\ Length(request.value) <= FieldLimit
            o    == Parse(ItemFeature, old)
            v    == Parse(ItemFeature, IF fits THEN request.value ELSE <<>>)
        IN  /\ request.op = Text("Put") => feature = v
            /\ request.op = Text("Append") /\ Whole(old) =>
                  feature = IF o = Failed \/ v = Failed THEN Failed
                            ELSE MergeFrom(ItemFeature, o, v)

\* The caller reads the response that the handler gave, unless it contains an
\* item whose id is no text: then a Search has no result at all.
AnswerArrives ==
    stage = "done" =>
        answer = IF AllText(ResponseTexts) THEN response ELSE Failed

=============================================================================

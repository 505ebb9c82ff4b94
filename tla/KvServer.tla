------------------------------ MODULE KvServer ------------------------------
(***************************************************************************)
(* The handlers Get, PutAppend and PutFeature and the thread that applies  *)
(* committed operations, of KvServer/KvServer.cpp, over the log that Raft  *)
(* promises.  A handler is a call with a program counter: every access to  *)
(* m_lastRequests, m_kvdb, waitApplyCh or Raft is a step of its own, since *)
(* each takes its own lock.                                                *)
(***************************************************************************)
EXTENDS ReplicatedLog

CONSTANTS
    Client, Key,
    Datum,       \* what a write puts into a value
    MaxLog       \* bound on the entries of the log

VARIABLES
    kvdb,          \* m_kvdb: a value is the sequence of what was put together
    index,         \* the vectors of the RecallEngine, by item
    lastRequests,  \* m_lastRequests; id 0 stands for no entry
    waitApplyCh,   \* the queue of an index, or Nil
    applier,       \* the thread that calls Apply
    calls,         \* the RPCs that have arrived or are being handled
    executed       \* history: the operations executed by this process

tableVars == <<kvdb, index, lastRequests>>
serverVars == <<tableVars, waitApplyCh, applier, executed>>

NoRecord  == [id |-> 0, value |-> Nil]
NoRequest == [pc |-> "idle", op |-> Nil]

-----------------------------------------------------------------------------
(* Mutants *)

Mutant_OffByOne(s, op) == op.req < lastRequests[s][op.client].id
Mutant_AnyClient(s, op) == \E c \in Client : op.req <= lastRequests[s][c].id
Mutant_FirstRecords(s) == lastRequests[s]
Mutant_SameRequest(o1, o2) == TRUE
Mutant_TimeoutReply(s, op) == "OK"
Mutant_StartIndex == Len(log) + 2

-----------------------------------------------------------------------------
(* The tables *)

ifRequestDuplicate(s, op) == op.req <= lastRequests[s][op.client].id

\* Overwrites the record whatever its id is.
recordRequestResult(s, op, value) ==
    lastRequests' = [lastRequests EXCEPT ![s][op.client] =
                        [id |-> op.req, value |-> value]]

\* ExecutePutAppendOnKVDB: it knows neither PutFeature nor DeleteFeature.
ExecutePutAppend(table, op) ==
    CASE op.kind = "Put"    -> [table EXCEPT ![op.key] = <<op.value>>]
      [] op.kind = "Append" -> [table EXCEPT ![op.key] =
                                  (IF @ = Nil THEN <<>> ELSE @) \o <<op.value>>]
      [] OTHER              -> table

IsFeature(op) == op.kind \in {"PutFeature", "DeleteFeature"}

\* applyFeatureToIndex and deleteFeature, for a feature that can be parsed, has an
\* id and an embedding of the right dimension; the others change nothing anywhere.
ApplyToIndex(table, op) ==
    CASE op.kind = "PutFeature"    -> [table EXCEPT ![op.key] = <<op.value>>]
      [] op.kind = "DeleteFeature" -> [table EXCEPT ![op.key] = Nil]

-----------------------------------------------------------------------------
(* Calls *)

\* The call m goes on at pc.
Move(m, changed) == calls' = (calls \ {m}) \cup {changed}

\* The answer; it is dropped if the Clerk has given up this call.
Reply(m, err, value) ==
    IF m.waiting
    THEN Move(m, [m EXCEPT !.pc = "replied", !.err = err, !.value = value])
    ELSE calls' = calls \ {m}

At(m, pc) == m \in calls /\ m.pc = pc

\* The index that Start returns for a new entry.
StartIndex == Len(log) + 1

\* PutAppend and PutFeature, first part: Start.
PutStart(m) ==
    /\ At(m, "arrived") /\ m.op.kind # "Get"
    /\ \/ /\ m.server # leader
          /\ Reply(m, "ErrWrongLeader", Nil)
          /\ UNCHANGED logVars
       \/ /\ m.server = leader /\ Len(log) < MaxLog
          /\ LogAppend(m.op)
          /\ Move(m, [m EXCEPT !.pc = "register", !.index = StartIndex])
    /\ UNCHANGED serverVars

\* The queue is registered after Start has returned, under m_mtx.
PutRegister(m) ==
    /\ At(m, "register")
    /\ waitApplyCh' = [waitApplyCh EXCEPT ![m.server][m.index] =
                            IF @ = Nil THEN <<>> ELSE @]
    /\ Move(m, [m EXCEPT !.pc = "wait"])
    /\ UNCHANGED <<logVars, tableVars, applier, executed>>

SameRequest(o1, o2) == o1.client = o2.client /\ o1.req = o2.req

\* timeOutPop finds an operation: it may be another one's.
PutPop(m) ==
    LET queue == waitApplyCh[m.server][m.index] IN
    /\ At(m, "wait") /\ queue # <<>>
    /\ waitApplyCh' = [waitApplyCh EXCEPT ![m.server][m.index] = Tail(queue)]
    /\ Reply(m, IF SameRequest(Head(queue), m.op) THEN "OK"
                ELSE "ErrWrongLeader", Nil)
    /\ UNCHANGED <<logVars, tableVars, applier, executed>>

\* timeOutPop gives up, then the records are asked.  An operation may have been
\* pushed in between: it stays in the queue.
TimeoutReply(s, op) ==
    IF ifRequestDuplicate(s, op) THEN "OK" ELSE "ErrWrongLeader"

PutTimeout(m) ==
    /\ At(m, "wait")
    /\ Reply(m, TimeoutReply(m.server, m.op), Nil)
    /\ UNCHANGED <<logVars, serverVars>>

\* Get: the role, the records and, on a server that is not the Leader, its
\* commit index, which is somewhere between what it applied and what is
\* committed.  The code asks for the three one after the other, each under a lock
\* of its own; here they are one step.
GetCheck(m) ==
    /\ At(m, "arrived") /\ m.op.kind = "Get"
    /\ \/ /\ ifRequestDuplicate(m.server, m.op)
          /\ Move(m, [m EXCEPT !.pc = "cached"])
       \/ /\ ~ifRequestDuplicate(m.server, m.op)
          /\ m.server = leader \/ committed > 0
          /\ Move(m, [m EXCEPT !.pc = "read"])
       \/ /\ ~ifRequestDuplicate(m.server, m.op)
          /\ m.server # leader /\ handed[m.server] = <<>>
          /\ Reply(m, "ErrWrongLeader", Nil)
    /\ UNCHANGED <<logVars, serverVars>>

\* The cached value is read under a second lock.
GetCached(m) ==
    /\ At(m, "cached")
    /\ Reply(m, "OK", lastRequests[m.server][m.op.client].value)
    /\ UNCHANGED <<logVars, serverVars>>

\* ExecuteGetOpOnKVDB.
GetRead(m) ==
    /\ At(m, "read")
    /\ Move(m, [m EXCEPT !.pc = "record", !.value = kvdb[m.server][m.op.key]])
    /\ UNCHANGED <<logVars, serverVars>>

GetRecord(m) ==
    /\ At(m, "record")
    /\ recordRequestResult(m.server, m.op, m.value)
    /\ Reply(m, IF m.value = Nil THEN "ErrNoKey" ELSE "OK", m.value)
    /\ UNCHANGED <<logVars, kvdb, index, waitApplyCh, applier, executed>>

-----------------------------------------------------------------------------
(* Apply *)

\* Where the thread goes on.
ApplyGoesOn(s, pc) == applier' = [applier EXCEPT ![s].pc = pc]

\* The next committed operation is taken; a duplicate is not executed.
ApplyCheck(s) ==
    LET n == Len(handed[s]) + 1 IN
    /\ applier[s].pc = "idle"
    /\ LogDeliver(s, n)
    /\ applier' = [applier EXCEPT ![s] =
            [pc |-> IF ifRequestDuplicate(s, log[n]) THEN "wake" ELSE "execute",
             op |-> log[n]]]
    /\ UNCHANGED <<tableVars, waitApplyCh, calls, executed>>

ApplyExecute(s) ==
    /\ applier[s].pc = "execute"
    /\ kvdb' = [kvdb EXCEPT ![s] = ExecutePutAppend(@, applier[s].op)]
    /\ executed' = IF IsFeature(applier[s].op) THEN executed
                   ELSE [executed EXCEPT ![s] = Append(@, applier[s].op)]
    /\ ApplyGoesOn(s, "record")
    /\ UNCHANGED <<logVars, index, lastRequests, waitApplyCh, calls>>

ApplyRecord(s) ==
    /\ applier[s].pc = "record"
    /\ recordRequestResult(s, applier[s].op, Nil)
    /\ ApplyGoesOn(s, IF IsFeature(applier[s].op) THEN "index" ELSE "wake")
    /\ UNCHANGED <<logVars, kvdb, index, waitApplyCh, calls, executed>>

\* The features follow, after the request has been recorded.
ApplyIndex(s) ==
    /\ applier[s].pc = "index"
    /\ index' = [index EXCEPT ![s] = ApplyToIndex(@, applier[s].op)]
    /\ executed' = [executed EXCEPT ![s] = Append(@, applier[s].op)]
    /\ ApplyGoesOn(s, "wake")
    /\ UNCHANGED <<logVars, kvdb, lastRequests, waitApplyCh, calls>>

\* The queue of the index, if any, gets the operation, duplicate or not.
ApplyWake(s) ==
    LET i == Len(handed[s]) IN
    /\ applier[s].pc = "wake"
    /\ waitApplyCh' = [waitApplyCh EXCEPT ![s][i] =
                            IF @ = Nil THEN Nil ELSE Append(@, applier[s].op)]
    /\ applier' = [applier EXCEPT ![s] = NoRequest]
    /\ UNCHANGED <<logVars, tableVars, calls, executed>>

-----------------------------------------------------------------------------

NoKeys == [k \in Key |-> Nil]

\* m_lastRequests of a new process of s: it is not persisted.
FirstRecords(s) == [c \in Client |-> NoRecord]

ServerInit ==
    /\ LogInit
    /\ kvdb = [s \in Server |-> NoKeys]
    /\ index = [s \in Server |-> NoKeys]
    /\ lastRequests = [s \in Server |-> [c \in Client |-> NoRecord]]
    /\ waitApplyCh = [s \in Server |-> [i \in 1..MaxLog |-> Nil]]
    /\ applier = [s \in Server |-> NoRequest]
    /\ executed = [s \in Server |-> <<>>]
    /\ calls = {}

\* The process dies with its tables and its handlers; the new one is handed the
\* whole log.  Calls and answers on their way stay.
ServerRestart(s) ==
    /\ LogRestart(s)
    /\ kvdb' = [kvdb EXCEPT ![s] = NoKeys]
    /\ index' = [index EXCEPT ![s] = NoKeys]
    /\ lastRequests' = [lastRequests EXCEPT ![s] = FirstRecords(s)]
    /\ waitApplyCh' = [waitApplyCh EXCEPT ![s] = [i \in 1..MaxLog |-> Nil]]
    /\ applier' = [applier EXCEPT ![s] = NoRequest]
    /\ executed' = [executed EXCEPT ![s] = <<>>]
    /\ calls' = {m \in calls : m.server # s \/ m.pc \in {"arrived", "replied"}}

ServerStep ==
    \/ \E m \in calls : PutStart(m) \/ PutRegister(m) \/ PutPop(m) \/ PutTimeout(m)
    \/ \E m \in calls : GetCheck(m) \/ GetCached(m) \/ GetRead(m) \/ GetRecord(m)
    \/ \E s \in Server : ApplyCheck(s) \/ ApplyExecute(s) \/ ApplyRecord(s)
                         \/ ApplyIndex(s) \/ ApplyWake(s)

=============================================================================

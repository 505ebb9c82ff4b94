# TLA+ development for MyKV_storageBase_Raft_cpp

The repository is a replicated key-value store: three processes
(`ServerMain.cpp`), each with a Raft node (`Raft/`), a state machine with a
vector index (`KvServer/`) and clients that call it (`Clerk/`). This directory
holds the TLA+ modules that model it, the TLC instances that check them and the
TLAPS proofs about them. `PROJECT.json` maps every definition to the lines it
stands for, and lists the runs, the mutants, the hazards and the theorems.

## 1. The system

| Part | State | Operations | Talks to |
|---|---|---|---|
| Raft node, `Raft/Raft.cpp`, `Raft/raft.h` | term, vote, log, role, commit and apply index, `m_nextIndex`, `m_matchIndex`, the buffers `m_pendingEntries`, `m_batchRunning` | the tickers `electionTimeoutTicker`, `leaderHearBeatTicker`, `applierTicker`; the batch thread `batchSenderLoop`; the RPC handlers `RequestVote1`, `AppendEntries1`, `PreRequestVote1`, `ReadIndex1`, `InstallSnapshot1`; `Start`, `GetState`, `GetCommitIndex` | its peers by RPC, its Persister, the KvServer through a queue of `ApplyMsg` |
| Persister, `Raft/raft.h` | the state in memory, the state waiting to be written, three sequence numbers, the file | `SaveRaftState`, `WaitFlushed`, the I/O thread `WorkLoop`, the constructor that loads | called by Raft under `m_mtx` |
| KvServer, `KvServer/KvServer.cpp` | `m_kvdb`, `m_lastRequests`, `waitApplyCh`, `m_indexBuilt` | `PutAppend`, `PutFeature`, `Get`, `Search`, `Apply` | `Raft::Start`, the apply thread, RecallEngine |
| Clerk, `Clerk/clerk.cpp` | client id, request id, connection | `Put`, `Get`, `PutFeature`, `Search` with retries | KvServer by RPC |
| RecallEngine, `KvServer/RecallEngine.cpp` | the HNSW index, label map, active labels, deleted items, each with a mutex | `addPoint`, `upsertPoint`, `deletePoint`, `searchTopK`, `saveIndex`, `loadIndex` | KvServer |
| Generated messages, `Proto/*/*.pb.*`, and `KvServer/op_coder.h` | the fields of a message | serialize, size, parse, merge; stubs and dispatch; `encodeOp`, `decodeOp` | every caller and handler, the log |
| RPC transport `myRPC`, `SkipList` | external, absent submodules | | |

What is hard here:

* **Concurrency.** A node has three tickers, a batch thread and one detached
  thread per RPC. They meet under `m_mtx`, except `batchSenderLoop`, which reads
  term, log and commit index after it has released the lock.
* **Failure.** Processes restart from what the Persister wrote; RPCs are lost,
  answered late, or overtake each other because each batch has its own thread.
* **Order.** The buffers of a Leader outlive its leadership; the batch thread
  ends without resetting `m_batchRunning`; the election loop goes on after the
  node has moved to another term.
* **Timeouts.** Elections and heartbeats fire at any time; a client retries a
  request that may already be in the log.

What makes each part correct: one Leader per term, one vote per term across
restarts, indices inside the log (the code asserts it and ends the process
otherwise), agreement on what is applied, commits that survive restarts,
commits that reach every node (Raft); an acknowledged save that survives a crash
(Persister); a request applied once, an answer only after it is applied, reads
that see acknowledged writes (KvServer with Clerk); a search that returns no
deleted item and finds what is there, an index that follows the log, no threads
that wait for each other (RecallEngine); requests, answers, operations and features
that arrive as they were sent (messages).

## 2. Modules

| Module | Contents |
|---|---|
| `Raft.tla` | the Raft node: state, one action per critical section or handler, properties, mutants |
| `MCRaft.tla` | values for the constants of the runs, symmetry sets, the fair specification |
| `RaftProofs.tla` | TLAPS: types, durability and index bounds |
| `ElectionProofs.tla` | TLAPS: elections |
| `ReplicationProofs.tla` | TLAPS: batches, entries, the assertions of `AppendEntries1` |
| `ReignProofs.tla` | TLAPS: agreement and commitment while one leadership lasts |
| `DurableCell.tla` | abstract: one value on disk, a save that takes effect once between its call and its return |
| `Persister.tla` | the Persister: the caller of `persist()`, the I/O thread, the file, the death of the process |
| `PersisterProofs.tla` | TLAPS: durability, and that the Persister implements the cell |
| `ReplicatedLog.tla` | abstract: the one log KvServer takes Raft for |
| `KvServer.tla` | the handlers and the apply thread of KvServer, over that log |
| `KvService.tla`, `MCKv.tla` | Clerks and servers together, properties; instances |
| `KvProofs.tla` | TLAPS: acknowledged writes, order of execution, replicas |
| `RecallEngine.tla`, `MCRecall.tla` | the vector index, the apply thread and the Search handlers that build and ask it; instances |
| `RecallProofs.tla` | TLAPS: the order of the locks, `m_activeLabels` against the graph, why the process ends, what the index holds, what a Search returns |
| `ProtoCodec.tla` | what protoc generates for a message, once for all messages |
| `Messages.tla` | the messages, the services, `encodeOp` and `decodeOp` |
| `MessageFlow.tla`, `MCMessages.tla` | the way of a call through stub, provider, log and replicas, and back; instances |
| `MessageProofs.tla` | TLAPS: sizes, round trips and merges of any message, and what arrives at each stage of a call |

How they fit together:

```
KvService (Clerk)  --EXTENDS-->  KvServer  --EXTENDS-->  ReplicatedLog
                                                              ^ ImplementsLog (run reorder; proved,
                                                              |   until a second win or the Leader's death)
                                                         Raft, MCRaft
                                                              | takes persist() for one atomic write
                                                         DurableCell
                                                              ^ Implements (run persister, proved)
                                                         Persister

RecallEngine: one server, below KvServer's Apply and Search
MessageFlow --EXTENDS--> Messages --EXTENDS--> ProtoCodec: what a call carries
```

### How `Raft.tla` corresponds to the code

Every critical section under `m_mtx` is one action. A thread that leaves the lock
between two critical sections keeps its local state in a variable:

| Variable | Code |
|---|---|
| `currentTerm`, `votedFor`, `logs`, `status`, `commitIndex`, `lastApplied`, `nextIndex`, `matchIndex` | the members of `Raft` with `m_` |
| `disk` | the file of the Persister |
| `applied` | the commands pushed to `applyChan` by this process |
| `elect` | the local variables of `doElection` (term, last index and term, `voteNum`) and the peer it is waiting for |
| `batchRunning`, `pending`, `sender` | `m_batchRunning`, `m_pendingEntries`, the locals and the position of the thread in `batchSenderLoop` |
| `voteReq`, `voteRep`, `appReq`, `appRep` | RPCs in progress: calls not yet handled, answers not yet received |
| `votes`, `won` | history, used by the properties and proofs only |

| Action | Code |
|---|---|
| `DoElection`, `VoteRpcFail`, `ReceiveVoteReply` | `doElection` and `sendRequestVote`: the critical section that starts a candidacy, a failed call, an answer |
| `HandleRequestVote` | `RequestVote1` with the `persist()` of its destructor |
| `Start` | `Start` with `persist()` and `addToPendingBatch` |
| `BatchCheckLeader`, `BatchCollect`, `BatchRecheck`, `BatchReadTerm`, `BatchReadPrev`, `BatchSend` | one round of `batchSenderLoop`, with the three unlocked reads as steps of their own |
| `DoHeartBeat` | `doHeartBeat`, `startLogEntriesSendThread` |
| `HandleAppendEntries` = `AppendStale`, `AppendGap`, `AppendMismatch`, `AppendMatch` | the four ways through `AppendEntries1` |
| `ReceiveAppendReply`, `LoseAppend` | `sendAppendEntries` and the functions it calls; a failed RPC |
| `Applier` | one round of `applierTicker` |
| `Restart` | the end of a process at any moment, then `init` and `readPersist` |

Abstractions, each of which allows at least the behaviours of the code:

* Time is left out. A timer may fire whenever the code would let it.
* `doElection` asks peers in the order of their index; the model in any order.
* `Persist` is atomic, as `SaveRaftState` and `WaitFlushed` are both called with
  `m_mtx` held. A process that dies inside is a `Restart` before or after it.
* `applierTicker` releases the lock before it pushes; nobody but the applier of
  the same node reads or writes the queue's end, so the push is part of the step.
* Log entries are a term and a command; the `logindex` an entry carries is kept
  while it is on its way and dropped when it is stored, since all reads of a
  stored entry go by position.
* A Leader's round of `batchSenderLoop` that finds all buffers empty changes
  nothing and is left out.
* A call or answer may be lost at any moment, and a call may arrive after its
  caller gave up or died. No call is delivered twice: the transport has one
  attempt per call.
* The unlocked reads see a state some thread left under the lock. In the code they may
  also fall inside another thread's critical section and see a term or a commit index
  that `persist()` has not written yet; that is left out. A read of a
  `std::vector` during its reallocation can also end the process, which
  `Restart` covers, or return garbage, which the model leaves out.
* An assertion of the code that fails ends the process. The assertions are
  stated as invariants (`CommitWithinLog`, `MatchWithinLog`, `NeverLeaderTwice`,
  `OneCommandPerEntry`, `MergeReachesEnd`) and hold where they are checked, so
  no action has to model that end.

### How `Persister.tla` corresponds to the code

`SaveRaftState`, `SavePush`, `SaveNotify`, `WaitFlushed` are the critical sections of
the function of that name and of the wait that follows it in `persist()`; `WorkTake`,
`WriteTmp`, `Rename`, `WriteFails`, `WorkFlushed` are a round of `WorkLoop`. A thread
that waits on a condition variable is `asleep` until it is notified and then checks
its condition again. `WriteFails` is a write whose result `WorkLoop` ignores; the history
variable `failed` remembers it for the properties. `Crash` is the end of the process with all it has in memory,
then the constructor, which reads the file. All callers of `persist()` hold
`Raft::m_mtx` until `WaitFlushed` has returned, so there is one save at a time. The
destructor is never reached (`KvServer` is leaked and the RPC server does not
return), and nobody saves a snapshot.

### How `KvServer.tla` and `KvService.tla` correspond to the code

A call is a record with a program counter: `arrived`, then `register` and `wait`
(`PutAppend`, `PutFeature`) or `cached`, `read`, `record` (`Get`), then `replied`. Each
step is the access to one of `m_raftNode`, `waitApplyCh`, `m_lastRequests`, `m_kvdb`,
which have their own locks. `Apply` is five steps: `ApplyCheck`, `ApplyExecute`,
`ApplyRecord`, `ApplyIndex` (features only, after the record, as in the code),
`ApplyWake`. A Clerk (`NewRequest`, `Retry`, `ReceiveReply`, `RpcFail`) calls whichever
server the service discovery names, repeats the request after a failure or
`ErrWrongLeader`, and gives up after more than `fails` failures in a row (`kMaxRetry`, 100 in the code). A call that failed
for the Clerk stays and may be handled at any later time; its answer is dropped.

Abstractions: values are sequences of what was put together; an absent key and the
empty string are both `Nil`; the index is one map, its locks are in
`RecallEngine.tla`; an operation is a record, its encoding is in `Messages.tla`. `timeOutPop` may time out
at any time. Clients have different ids. A Leader's local commit index lies between
what the server applied and what is committed. `GetCheck` takes the three questions with
which `Get` begins (role, records, commit index), each under a lock of its own, as one
step. `ApplyToIndex` is for features that can be parsed and have an id and the right
dimension; `applyFeatureToIndex` drops the others, at every replica alike. The log below is what Raft promises
and what `Raft.tla` delivers under one Leader; after a change of Leader the code can
break that promise (run `diverge`), so `kv` shows that the
upper layer is right *provided* Raft keeps its promise. The same proviso covers
`PutStart`, which refuses every server but the one Leader of the log: in the code a deposed
Leader that does not know it yet appends to its own log, and where run `diverge` makes it
apply that entry its waiting handler answers OK for a write that the others do not have.

### How `RecallEngine.tla` corresponds to the code

The state is that of one process: `slots` and `lookup` are hnswlib's elements and its
`label_lookup_`, `labelToItemId`, `activeLabels`, `deletedItems` the members with `m_`,
`mtx` and `serverMtx` say who holds `RecallEngine::m_mtx` and `KvServer::m_mtx`. Threads
are the apply thread and the handlers of `Search`; `work[w]` is where thread `w` is.

| Action | Code |
|---|---|
| `CheckLabel`, `InsertEnter`, `InsertLabel`, `InsertPoint` | the critical sections of `addPoint` (by the build) and of `upsertPoint` (by `Apply`), which differ only where `m_activeLabels` has the label |
| `DeleteMark`, `DeleteHide`, `DeleteForget` | `deletePoint` after its check |
| `ApplyTake`, `ApplyWake` | `Apply`: the operation is taken, and the RPC is woken under the lock that a build holds |
| `SearchStart`, `BuildEnter`, `BuildVisit`, `BuildDone` | `Search` and `buildIndexIfNeeded` with its double check |
| `SearchSize`, `SearchKnn`, `SearchCopy`, `SearchResolve`, `SearchReply` | `size`, the sections of `searchTopK`, the answer |
| `RecallRestart` | the end of the process, by an exception or otherwise; the new one is handed the log again |

hnswlib is taken from how it is used: `addPoint` updates the element of a label or adds
one, throws for a label marked deleted and when the graph is full; with
`replace_deleted` it gives a deleted element, any one, to the label. Nothing catches
what it throws, so the process ends (`dead`). Distances and links are left out: the walk of
`searchKnn` is approximate, so a search returns any set of elements that are not marked,
no more of them than asked for. The history fields `enough` and `exact` say whether it asked
for as many as were live, and whether it missed none. An item is its own label,
so two items whose hashes collide are left out. The embedding of an operation is its
position in the log. A reader of `m_labelToItemId` beside an insertion may miss any
label (`Racing`). `gone` and `steady` are history: what a Search must not and what it
must find.

### How `ProtoCodec.tla`, `Messages.tla` and `MessageFlow.tla` correspond to the code

protoc writes the same six functions for each message, field by field. `ProtoCodec`
has each of them once, over a sequence of fields with number, name and type, and
`Messages` gives the fields of each message, the values its accessors leave in it
(`Make...`) and the tables of the two services. Bytes are a sequence of atoms: a run of
characters, a float, a numbered field with its value, or `Torn`, the rest of a field that
was cut. A value that ends in `Torn` (`CutLast`) cannot be parsed. If another one is appended
behind it, the parser takes its first bytes for the missing ones, and what it makes of the
rest depends on the bytes: `ParseResults` then allows a failure and every feature of the
constant `Mixtures`. `Length` counts the bytes these really take, seven bits of a number in each;
`ByteSizeLong` is the generated computation of the same. Zero and empty fields are not
written, the entries of a map are written in any order (`MapOrders`), fields with an
unknown number or another wire type are kept and written back, texts are verified
when they are read. Numbers beyond 31 bits and messages beyond 2 GiB, which protobuf does
not write, are left out, and so is the end of a parse at a tag 0 or an end-group tag,
which no serializer writes. Of the accessors the model has what `set_`, `add_` and `mutable_` leave in a
message (`Make...`), not `release_`, `set_allocated_` and the ones for arenas. A message inside a message
(a log entry, a feature) has no further message inside it, so the functions are
loops over fields and atoms, as in the generated code, and nothing is recursive.

In `MessageFlow` one call goes its way: `StubCall`, `ProviderParse`, `ProviderCall`, for a
write `HandleWrite`, `Replicate` (on a Follower), `ApplyCommand`, then `Answer` and
`ReadAnswer`. `decodeOp` reads up to the first field of more than 1 GiB (`FieldRead`,
`FieldLimit`): the fields from there on stay empty, and `RequestId`, which `Op` does not initialize,
is any member of `Junk`. The transport is not in the repository; it is taken to carry the bytes and
the index of the method, and to fail a call whose request it cannot read.

## 3. Properties and runs

Safety, all checked on three nodes:

* `OneVotePerTerm`, `OneWinnerPerTerm`, `NeverLeaderTwice`, `VoteStable`: elections.
* `LeaderHasWon`: who acts as Leader has won its current term.
* `CommitWithinLog`, `MatchWithinLog`: the assertions of `tryUpdateCommitIndex`,
  `AppendEntries1` and `updatePeerSyncState`.
* `CommitMonotonic`: commit and apply indices go back only by a restart, logs
  never shrink.
* `OneCommandPerEntry`, `MergeReachesEnd`: the two other assertions of
  `AppendEntries1`. The first compares a call with the log it arrives at, as the code
  does: after a batch with a gap two *logs* may hold different commands at one index and
  term, since the entries behind the gap are stored closer together.
* `CommittedOnMajority`: what is committed is on the disks of a majority.
* `AppliedAgree`: no two nodes apply different commands at one index.
* `ElectionInv`, `IndexInv`: the inductive invariants of the proofs, checked by
  TLC before they were proved.
* `ImplementsLog`: until a second election is won or the Leader's process ends
  (`SoleReign`), every step of the nodes is a step of `ReplicatedLog` or none. The log is
  the winner's, committed is what the winner has committed, and each node has been handed
  what it applied; the win is `LogElect`, a follower's restart `LogRestart`. The Leader's
  death is excepted because its commit index starts again at 0, and so does the log's.

Liveness: `CommitSpreads`.

Persister: `SavedIsDurable` (what `persist()` returned for is in the file), `PInv` (the
inductive invariant), `Implements` (refinement of `DurableCell`), `SaveReturns`
(liveness: no lost notification).

KvServer and Clerk: `ExecutedInOrder` (no process executes a request twice or out of
its client's order), `ReplicasAgree` (same entries, same data), `AckedIsCommitted` and
`AckedIsExecuted` (what a client was told is in the committed log, and executed by
every server that was handed it), `LeaderHasAcked` (under one Leader its SkipList
contains every acknowledged Put and Append).

RecallEngine: `SearchHidesDeleted` and `SearchFindsSteady` (what a search returns, against
what was deleted before it and what was there all the time; the second for a search that
asks for as many elements as are live, and under the assumption that hnswlib's walk missed
none of them), `ActiveMatchesGraph` (the
table that decides and the graph that is changed agree whenever the lock is free),
`IndexFollowsLog` (between operations the index is what the log says, for items that no
Put stored), `DeathHasCause` (an exception ends the process only when the graph is full
or an item comes back after its deletion), `LocksInOrder` (no cycle of waiting threads).

Messages: `SizeAnnounced` (the size computed is the size written), `RequestArrives` and
`AnswerArrives` (the right handler sees the request, the caller the answer),
`RefusedForText` (a call fails exactly for a text that is not UTF-8), `WriteArrives` (each
replica decodes the client's operation and feature; one with a field over 1 GiB is executed
under the empty client id), `StoredMerges` (what the build of
the index reads from values that were put, cut, or appended to while they were whole).

| Run | Instance | Distinct states | Question |
|---|---|---|---|
| `elections` | all nodes may campaign in terms 1 and 2, two late calls, one restart | 486 000 | are votes and winners unique? |
| `leader_change` | s1 campaigns in term 1, s2 in term 2, one entry per node, two commands, heartbeats of s2, one call in flight | 1 930 000 | do entries, merges and commits survive a change of Leader? |
| `reorder` | one Leader, two entries, two commands, two calls in flight, at most one of them a heartbeat | 449 000 | do overtaking and lost batches break agreement, is there one log? |
| `restart` | one Leader, batches of two, one restart of any node | 557 000 | do commits survive, do the assertions on indices hold? |
| `commit_spreads` | one Leader, one entry, two calls in flight, fairness | 34 000 | do commits reach the peers? |
| `persister` | two values, a few saves and deaths, writes that may fail, both threads fair | 2 900 | is what was saved on disk, does every save return? |
| `kv` | two servers; two clients with one write each, a retry, two entries, two elections, one restart; or a client that writes twice and repeats, three entries; or a writer and a reader that repeats | 1 460 000 | is what a client was told committed and executed, once; do replicas agree? |
| `recall` | two items, two searches, graphs for two or three elements, any two insertions or deletions after a deletion or a stored value, one restart | 2 950 000 | does a search return what it should while the index is built and changed, can the threads block each other, what ends the process? |
| `messages` | all nine methods; numbers -1, 0, 127 and 20000, empty, short and 130 byte long values, texts that are not UTF-8, maps in two orders, unknown fields, values cut after and inside every field, before and after an Append, and one over 1 GiB | 44 000 | does everything arrive as it was sent? |

The bounds of Raft, all named constants of `Raft.tla`: `Campaigns` (which node may start
an election in which term), `Requests` (who may append at which index), `Beats`
(whose heartbeat timer fires, and how many calls are then in flight), `MaxInflight`, `MaxLate`, `MaxRestarts`,
`BatchSize`. They are chosen so that every action and every branch of it occurs
in some run: two terms for a change of Leader, two entries for a conflict and
for batches that overtake, two calls in flight for reordering. They stop every
behaviour in the end, hence `CHECK_DEADLOCK FALSE`. Those of the other modules
(`MaxSaves`, `MaxCrashes`, the fields of `Scenarios`, `MaxLog`, `Capacities`, `Feeds`,
`TopKs`, `MaxRestarts`) are
chosen the same way: a retry of every request, an entry that is dropped and its
index used again, a restart that replays a duplicate, an item that is deleted and
comes back, a graph that is full. Symmetry is used where
`Campaigns` and `Requests` do not tell the permuted nodes apart, and never in a
liveness run.

`FairTo(s, p)` states the fairness of `commit_spreads`: the batch thread of `s`
keeps going round and takes a buffer whose delay has passed; its heartbeat timer
keeps firing; a peer that is called again and again is reached again and again,
and so are the answers; the applier of `p` runs. These are loops without exit in
`leaderHearBeatTicker`, `batchSenderLoop` (while Leader) and `applierTicker`, and
a link that is not broken for ever. Nothing is assumed about a single call.
`PFairSpec` assumes that the thread inside `persist()` and the I/O thread keep running;
nothing is assumed about new saves or about the disk.

### Where the code departs from what it says

Three runs expect a violation; `findings` in `PROJECT.json` quotes the lines.

* `diverge`: after a change of Leader a follower with an unreplicated entry of
  the old Leader matches a heartbeat at an earlier index, raises its commit index
  to its own last index and applies that entry, while the others apply another.
  `AppliedAgree` therefore holds for a stable Leader (`reorder`) only.
* `lost_batch`: an entry whose only batch to a peer is lost never gets there.
* `lost_write`: a read at a follower records its request number in the table Apply
  uses to drop duplicates; the follower then drops the same client's earlier,
  acknowledged write and differs from the Leader for ever. Hence `ReplicasAgree` is
  checked, and proved, for clients that do not both read and write.

More places where the code gives less than one may expect, visible in the model
and kept out of the properties by their wording:

* A batch can leave in a term its sender did not win, because `batchSenderLoop` reads
  term, log and commit index after its check and outside the lock (`BatchReadTerm`).
* `batchSenderLoop` ends with its leadership and leaves `m_batchRunning` set, so a node
  that is elected a second time has no batch thread and replicates nothing
  (`BatchCheckLeader`, `BecomeLeader`); `LeaderHasSender` is about the first time.
* The I/O thread reports a failed write as flushed; `SavedIsDurable` excepts it (`failed`).
* The handler of a read that its client gave up can record an old number after a newer
  write, and a repetition of that write is then executed twice. The clients of
  `kv` do not do this, so `ExecutedInOrder` is a statement about clients that
  do not repeat a write after a read they gave up; the theorem `WritersInOrder` has
  `ReadersOnlyRead` as its hypothesis.
* A PutFeature is recorded before it is in the index, so a handler that times out in
  between answers OK for a feature no search finds yet (`LeaderHasAcked` leaves features out).
* Features go to the index alone: `ExecutePutAppendOnKVDB` knows neither `PutFeature` nor
  `DeleteFeature`, although the comments in `Apply` (`KvServer.cpp:366`, `:376`) say that the
  SkipList is written. The build reads only what `Put` and `Append` stored.
* A feature inserted again after its deletion ends the process, and so does one more than
  fits; the log is replayed after the restart, so it ends again (`DeathHasCause`).
* After a deletion, an update of another item takes over the deleted element and leaves
  the item's old element in the graph (`IndexFollowsLog` demands one element only while
  nothing has been deleted).
* A Search before the end of the replay builds the index from a part of the SkipList, and it is
  not built again.
* A value of more than 1 GiB is committed and then decoded as an empty one, under no client's
  name: a Put of it empties the key (`WriteArrives`, `StoredMerges`).
* A key that is not UTF-8, once indexed, makes Clerks reject every result that contains it
  (`AnswerArrives`).

## 4. Proofs

The theorems about Raft are about `Spec` for any finite non-empty set of nodes, any
commands and any values of the bounds (`ServerAssumption`, `NilAssumption`,
`BoundAssumption`).

`RaftProofs` proves `IndexInvariance`: `Spec => []IndexInv`. `CommitWithinLog` and
`MatchWithinLog` are not inductive by themselves: a commit index moves because of
an answer, the answer exists because of a call, the call because of a batch, and
the batch because of a buffer that may be older than the leadership. `IndexInv`
adds what has to be known on that way: buffered and collected entries have
increasing indices that exist in the own log (`BatchesIncrease`), a call speaks of
positions of its sender's log (`CallsFitLog`), an answer confirms no more than
that (`AnswersFitLog`), the batch thread holds a batch while it builds a call
(`SenderHoldsBatch`), and the disk equals the memory, so that a restart shortens
no log (`DurableState`). One lemma per action; the central one is
`HandleAppendEntriesStep`. Corollaries: `TypeCorrect`, `CommitInsideLog`,
`MatchInsideLog`.

`ElectionProofs` proves `ElectionInvariance`: `Spec => []ElectionInv`. The parts: a
vote granted is remembered in `m_votedFor` for as long as its term lasts
(`VotesRemembered`), a positive answer stands for a vote (`AnswersAreVotes`),
`voteNum` counts no more than the votes granted by peers already asked, and after
a win the peers left are too few for another (`CountedVotes`), a winner has a
majority of votes (`WinnersHaveMajority`). From it and the fact that two
majorities meet follow `ElectionSafety`, `VoteOnce`, `NoSecondWin`; `VotesStable`
is an action property proved from durability.

`ReplicationProofs` follows the entries. `OneCommandPerEntry` is not inductive: that the
log and the call agree depends on where both came from. `BatchOrder` says that what a
node has for a peer is in order, without an index twice: calls, then what the batch
thread holds, then the buffer. `EntryInv` says that an entry on its way was made by its
sender as the winner of the entry's term (`OwnTerms`), that an entry of a log has the term
of a winner whose own log is as long (`LogsWon`), and `SameCommand` relates each log to what is still
on its way to it. With `ElectionSafety`'s argument (`WinnerUnique`) the sender of a term is
one node, which sends each index once (`CommandsAgree`). `MergesReachEnd` needs the merge
alone: gaps shift entries, but the log still reaches the end of the call. `LeadersHaveWon`,
`FirstLeadersSend` and the action property `CommitsGrow` are proved action by action from
`IndexInv` and `ElectionInv`.

`ReignProofs` proves agreement as far as the code keeps it. `OneReign` says that at most
one election has been won so far; it holds in every behaviour until a second win, with
any number of failed candidacies, restarts, lost, late and reordered calls. Until then
every log is a beginning of the winner's (`LogsBegin`), what the winner sends has no gaps and
equals its log (`GapFree`), its buffers end where its log ends (`BufferUpToDate`), and what is
applied is what the log holds (`AppliedFromLog`); hence `ReignApplies`. `HeldInv` holds without
the hypothesis: every commit index, kept or sent, is reached by a majority of logs, since
a Leader counts only answers of nodes whose logs reach as far (`AnswersHeld`). The two
together give `ReignCommits`. `ReignActsAsLog` is the refinement `ImplementsLog`, step by
step: `Start` appends, a positive answer commits, `Applier` delivers, the win elects, a
follower's `Restart` restarts, everything else is invisible. Besides `ReignInv` it needs
`LeadCommits`: no node and no call knows a commit index ahead of the Leader's, so a call
that reaches the Leader late cannot move it, and what a follower delivers is committed in the
abstract log. `SoleBefore` shows that the exception is about the past as well: a reign
that is sole after a step was sole before it. `ReignKeepsEntries` adds that
until a second win no log loses or changes an entry, although a Follower cuts its log
wherever a call does not match it. After a second win agreement fails in the code (run
`diverge`), so there is nothing stronger to prove about it.

`BigClusterStalls`, in the same module, is about clusters that the runs do not reach. `appendNums` is
made for one batch to one peer, so it counts to 2 and no further; with four nodes or more
the majority it is compared with is at least 3. So no node ever commits or applies
anything, whatever the Leader and the peers do.

`PersisterProofs` is about any set of values and any bounds, failed writes and crashes
included; durability is promised except after a failed write (`failed`).
`PersisterInvariance`: `SavedIsDurable` alone says nothing about a
save in progress, so `PInv` follows it through the two threads: it is not yet taken
(`Untaken`), being written (`Writing`) or flushed (`Done`), and the three numbers tell the
same story. `SavedStaysDurable` follows. `PersisterImplementsCell` maps `Rename` to the
step of `DurableCell` in which the value changes, `WriteFails` to its failure, the call and the return of `persist()`
to its begin and its end, and every other step to a stutter.

`RecallProofs` is about any items, any number of Search threads, any committed
operations, any capacity and any number of restarts (`ThreadAssumption`).
`LocksAlwaysInOrder` rests on `LockInv`: the place of a thread says which locks it
holds, for every thread at once. `ActiveAlwaysMatches` needs more, because
`m_activeLabels` is read in one critical section and acted on in another and is,
while `m_mtx` is held, ahead of or behind the graph. `GraphInv` gives the shape of
the graph: a label leads to an element that carries it, and an element marked
deleted is the one its label leads to, so that the replacement of a deleted element
takes a live one from nobody. `LabelInv` says that table and graph agree on every
item but the one its holder of `m_mtx` is between (`Between`), and that what Apply
remembers of the table stays so until it acts, since no other thread takes a label
out. From it follows also that `markDelete` never throws in `deletePoint`
(`MarkFinds`): only insertions can end the process.

The second half of `RecallProofs` is about Search. Here the log is what the index has to follow, and
neither `m_mtx` nor one table alone says whether it does. `CauseInv`: the work of the
apply thread comes from the last operation handed to it, the work of a build from the
SkipList (`SourceInv`), and an element marked deleted belongs to an item that was deleted
(`VacantInv`); so `addPoint` throws for no other reason (`DeathAlwaysHasCause`). `LogInv`
says for every item: outside the sections that work on it, it is active exactly if the
log's last feature operation inserted it, and with that embedding (`Follows`); if it is
inserted and not being deleted it can be found through all four tables (`Present`); and if
it is out of the index it is in `m_deletedItems` or has left no element (`Absent`). The last
two are what a Search relies on; its own progress through `searchTopK` is followed from
section to section, against the history of what was gone and what was steady when it
began (`DeletedAlwaysHidden`, `SteadyAlwaysFound`). Where a search asks for as many as are live
and misses none, its set is all that is live by its size alone (`KnnTakesAll`); that it
misses none is the hypothesis `exact` of `SearchFindsSteady` and not a fact about hnswlib. `NilAssumption` (`Nil` is no number) is all
that is assumed in addition.

`KvProofs` is about any servers, clients, keys, programs, retries, elections and restarts
(`ScenarioAssumption`: a program is a sequence of requests; `KvBounds`). `AckedIsCommitted`
speaks of Clerks and the log, and between them are a handler, a queue, the records and the
apply thread. `KvInv` says what each of these knows: an entry is a request its Clerk has
begun (`EntryInv`, `Issued`), the thread works on the last entry handed to its server
(`ThreadInv`), a queue holds nothing but the entry of its index (`QueueInv`), a recorded
write is committed (`RecordInv`), and an OK on its way to a Clerk is for a settled
write, committed with no later request of its client before it (`CallInv`, `Settled`). From
it follow `AckedAlwaysCommitted` and `KvTypes`. All of it is about the one log of
`ReplicatedLog`, so it is a statement about the code as long as Raft keeps one log. `LeaderAlwaysHasAcked` adds `DoneInv` (what is
recorded, queued or about to be pushed has been executed, if its Clerk still works on it)
and `FirstInv` (the handlers that confirm are those of the first Leader).

The other three properties are proved for `ReadersOnlyRead`: each client reads only or
writes only. The hypothesis is about the programs of the clients, every scenario of run
`kv` satisfies it, and it is needed: `Get` writes its request number into the table by
which `Apply` drops duplicates, and with one client that does both the properties are
false in the code (run `lost_write`). `WritersInOrder` rests on `OrderInv`, which relates what
was executed to the record and to what the thread is about to do; `WritersExecuted` on
`HandledInv`: an entry before which no later request of its client lies has been
executed, or the thread is about to, and so has the last request on record. For
`ReplicasAlike` two servers would have to be compared in the middle of different entries;
instead `RunInv` names one run of the log, a function `f` with `f[n]` the tables after `n`
entries, and says of each server by itself where it is on this run. The run is a witness
that grows by one with every commit, so no induction over the log is needed.

`MessageProofs` is in two parts. The first is about every schema that `ProtoCodec` can be
given, with any number of fields of its types and any values, unknown fields and orders
of a map: `MessageBytes` (`ByteSizeLong` is the length of what `_InternalSerialize` writes),
`ParseTrip` (a message that was serialized is parsed back as it was, and refused exactly
if a text in it is not UTF-8) and `ParseBoth` (parsing two values written one after the
other merges them, and fails exactly if one of them cannot be read; for the flat messages,
and bytes as a serializer leaves them, the first value whole and the second whole or cut at
its end). All three are
inductions over the fields or the bytes. The induction theorems of the library take an
operator, which the provers do not instantiate; `Induct` says the same of a set of numbers
and follows from the well-foundedness of `Nat`, and each induction is then about the set of
lengths for which the claim holds. `ParseTrip` rests on what parsing one chunk of atoms
does to a message that has the earlier fields already (the field is set, the others are
left alone), `ParseBoth` on `MergeAtom`: parsing an atom commutes with `MergeFrom`.

The second part gives the schemas of `Messages` to these theorems and follows a call. The
properties speak of the ends of the way; `FlowInv` says at every stage what is under way:
the stub's index leads back to its method (`CallInv`), the bytes are the request's and
what the provider reads is the request unless a text is none (`RequestInv`), command,
operation and stored value come from the request as they should (`WriteInv`), and the same
for the way back (`AnswerInv`). From `FlowInvariant` follow the six invariants of run
`messages`: `SizeIsAnnounced`, `RequestsArrive`, `OnlyTextIsRefused`, `WritesArrive`,
`AppendsMerge`, `AnswersArrive`. `OpRead` says what `decodeOp` makes of an operation of any
size, field by field up to the first that is too large; `ReadOnce` and `CutBehind` that bytes whose
only cut is at their end have one reading, also behind a whole value. Assumed are the five ASSUMEs of `MessageFlow`: the methods are
those of the two services; requests and responses are messages of their types; an order
of the hash table has every key of a map; the Clerk sets the feature of `PutFeature` and asks for
`Put` or `Append`; the value of a request and a stored value come from a serializer, whole or cut at the
end (`FromSerializer`), and so have no field with its default value (`NoDefaults`). The last is needed: a field that is
written although it is zero would overwrite in one parse what `MergeFrom` keeps.

Only model-checked: liveness (`CommitSpreads`, `SaveReturns`), which the prover does not
reach.

## 5. Not modelled

* Code that nothing reaches: snapshots (`InstallSnapshot1`, `leaderSendSnapshot`,
  `Persister::Save`), pipelined replication, `preElection` (and its handler
  `PreRequestVote1`, which changes no state), the ReadIndex path, `WaitForCommitIndex`,
  `RecallEngine::saveIndex`, `loadIndex`, `setEfSearch` and `buildFromSkipList`.
* `myRPC` and `SkipList`, submodules without source here: calls are modelled from their
  use, the list as a map. The benchmark client and the scripts, which keep no state.
* Of the generated code: descriptors, reflection, arenas, `release_` and `set_allocated_`,
  swapping, cached sizes. Of hnswlib: the graph and its distances, and so how good its
  approximate search is.
* A power loss that undoes a finished rename (no `fsync` of the directory), and torn
  reads of `m_logs` by the batch thread.
* Clusters of other sizes are not run: the runs use the three nodes of `ServerMain.cpp`. The
  theorems hold for any number; with four or more, nothing commits (`BigClusterStalls`).
* Item ids whose hashes collide, numbers of more than 31 bits, messages of more than 2 GiB.

## 6. Plan

Done: Raft (checked; elections, indices, the assertions of `AppendEntries1` proved, agreement
and commitment and the refinement of the log proved for one leadership); the Persister (checked, proved); the RecallEngine
(checked, proved); KvServer and Clerk over the log (checked, proved); the messages (checked, proved).

1. What a Get answers under one Leader, against the writes acknowledged before it.
2. Liveness of a client's request under one Leader.
3. Clients that share an id.

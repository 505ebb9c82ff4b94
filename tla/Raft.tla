-------------------------------- MODULE Raft --------------------------------
(***************************************************************************)
(* The Raft node of Raft/Raft.cpp, as ServerMain.cpp runs it: election,    *)
(* heartbeats, the batch sender that replicates the log, the applier and   *)
(* the restart of a process from what its Persister saved.                 *)
(*                                                                         *)
(* Every critical section under Raft::m_mtx is one step.  A thread that    *)
(* leaves the lock between two critical sections has its local state in a  *)
(* variable: elect (the election ticker inside doElection), sender (the    *)
(* thread of batchSenderLoop), and the RPC threads, which are the records  *)
(* of the four RPC sets.  Time is abstracted: a timer may fire whenever    *)
(* the code lets it.  Snapshots are never taken by this program            *)
(* (m_lastSnapshotIncludeIndex stays 0), so an index is a position of      *)
(* m_logs.                                                                 *)
(***************************************************************************)
EXTENDS Integers, Sequences, FiniteSets

CONSTANTS
    Server,       \* the nodes of the cluster (m_peers with m_me)
    Command,      \* the encoded operations handed to Start
    Nil,          \* m_votedFor = -1, and "no peer"
    BatchSize,    \* PIPELINE_BATCH_SIZE
    Campaigns,    \* bound on elections: the pairs of a node and a term in
                  \* which the timer of the node may expire
    Beats,        \* bound on heartbeats: the pairs of a node whose timer may
                  \* fire and a number of calls that are then in progress
    Requests,     \* bound on client requests: the pairs of a node and an
                  \* index at which it takes an operation
    MaxInflight,  \* bound on the calls in progress when a batch leaves
    MaxLate,      \* bound on the RequestVote calls that arrive after their
                  \* caller has given up
    MaxRestarts   \* bound on the number of process restarts

ASSUME ServerAssumption == IsFiniteSet(Server) /\ Server # {}
ASSUME NilAssumption == Nil \notin Server
ASSUME BoundAssumption ==
    /\ Campaigns \subseteq Server \X Nat /\ Requests \subseteq Server \X Nat
    /\ Beats \subseteq Server \X Nat
    /\ BatchSize \in Nat \ {0}
    /\ MaxInflight \in Nat /\ MaxLate \in Nat /\ MaxRestarts \in Nat

VARIABLES
    \* What a node keeps under m_mtx.
    currentTerm, votedFor, logs, status, commitIndex, lastApplied,
    nextIndex, matchIndex,
    disk,          \* what the Persister of the node has flushed
    applied,       \* the ApplyMsg pushed to the KvServer by this process
    elect,         \* the election ticker inside doElection
    batchRunning,  \* m_batchRunning
    pending,       \* m_pendingEntries
    sender,        \* the thread of batchSenderLoop
    \* RPCs in progress, calls and answers apart.
    voteReq, voteRep, appReq, appRep,
    restarts,
    \* History: every vote granted, every election won.
    votes, won

nodeVars  == <<currentTerm, votedFor, logs, status>>
indexVars == <<commitIndex, lastApplied, nextIndex, matchIndex, applied>>
batchVars == <<batchRunning, pending, sender>>
voteVars  == <<elect, voteReq, voteRep>>
appVars   == <<appReq, appRep>>
histVars  == <<votes, won>>
vars == <<nodeVars, indexVars, disk, batchVars, voteVars, appVars, histVars,
          restarts>>

-----------------------------------------------------------------------------
(* Types *)

Status == {"Follower", "Candidate", "Leader"}
Entry  == [term : Nat, cmd : Command]
\* A LogEntry message carries its logindex; the position in m_logs does not
\* depend on it once the entry is stored.
WireEntry == [index : Nat, term : Nat, cmd : Command]

\* updatenextindex of a reply that must not move m_nextIndex.
NoUpdate == -100

Election == [term : Nat, lastIndex : Nat, lastTerm : Nat,
             todo : SUBSET Server, peer : Server \cup {Nil}, voteNum : Nat]
SenderPc == {"none", "loop", "collect", "recheck", "term", "prev", "commit"}
Sender   == [pc : SenderPc, toSend : [Server -> Seq(WireEntry)],
             peer : Server \cup {Nil}, term : Nat, prevTerm : Int]

VoteReq == [src : Server, dst : Server, term : Nat,
            lastIndex : Nat, lastTerm : Nat]
VoteRep == [src : Server, dst : Server, reqTerm : Nat,
            term : Nat, granted : BOOLEAN]
AppReq  == [src : Server, dst : Server, term : Nat, prevIndex : Nat,
            prevTerm : Int, entries : Seq(WireEntry), commit : Nat,
            waiting : BOOLEAN]
AppRep  == [src : Server, dst : Server, prevIndex : Nat, num : Nat,
            lastTerm : Nat, term : Nat, success : BOOLEAN, upNext : Int]

\* The type of every variable.
TypeOK ==
    /\ currentTerm \in [Server -> Nat]
    /\ votedFor \in [Server -> Server \cup {Nil}]
    /\ logs \in [Server -> Seq(Entry)]
    /\ status \in [Server -> Status]
    /\ commitIndex \in [Server -> Nat]
    /\ lastApplied \in [Server -> Nat]
    /\ nextIndex \in [Server -> [Server -> Nat]]
    /\ matchIndex \in [Server -> [Server -> Nat]]
    /\ applied \in [Server -> Seq(Command)]
    /\ disk \in [Server -> [term : Nat, votedFor : Server \cup {Nil},
                            logs : Seq(Entry)]]
    /\ elect \in [Server -> Election]
    /\ batchRunning \in [Server -> BOOLEAN]
    /\ pending \in [Server -> [Server -> Seq(WireEntry)]]
    /\ sender \in [Server -> Sender]
    /\ voteReq \subseteq VoteReq
    /\ voteRep \subseteq VoteRep
    /\ appReq \subseteq AppReq
    /\ appRep \subseteq AppRep
    /\ restarts \in Nat
    /\ votes \subseteq [voter : Server, term : Nat, cand : Server]
    /\ won \subseteq [node : Server, term : Nat]

-----------------------------------------------------------------------------
(* Mutants: definitions with a fault, each of which one of the properties    *)
(* must notice when it replaces the definition it is named after.            *)

Mutant_PersistNoVote(s) ==
    disk' = [disk EXCEPT ![s] = [term |-> currentTerm'[s], votedFor |-> Nil,
                                 logs |-> logs'[s]]]
Mutant_PersistNoTerm(s) ==
    disk' = [disk EXCEPT ![s] = [term |-> @.term, votedFor |-> votedFor'[s],
                                 logs |-> logs'[s]]]
Mutant_PersistNoLog(s) ==
    disk' = [disk EXCEPT ![s] = [term |-> currentTerm'[s],
                                 votedFor |-> votedFor'[s], logs |-> @.logs]]
Mutant_MayVote(voted, cand) == TRUE
Mutant_VotesAfter(wins, num) == num
Mutant_StepDown(s, term) ==
    /\ currentTerm' = [currentTerm EXCEPT ![s] = term]
    /\ votedFor' = [votedFor EXCEPT ![s] = Nil]
    /\ UNCHANGED <<status, logs>>
    /\ disk' = [disk EXCEPT ![s] = [term |-> term, votedFor |-> Nil,
                                    logs |-> logs[s]]]
Mutant_Follow(m) ==
    /\ m.term >= currentTerm[m.dst]
    /\ currentTerm' = [currentTerm EXCEPT ![m.dst] = m.term]
    /\ UNCHANGED <<status, votedFor>>
Mutant_LastLogTerm(s) == IF logs[s] = <<>> THEN -1 ELSE logs[s][Len(logs[s])].term
Mutant_NewEntryIndex(s, c) ==
    [index |-> Len(logs[s]), term |-> currentTerm[s], cmd |-> c]
Mutant_NewEntryTerm(s, c) ==
    [index |-> Len(logs[s]) + 1, cmd |-> c,
     term |-> IF logs[s] = <<>> THEN 0 ELSE logs[s][Len(logs[s])].term]
Mutant_MatchLog(log, i, term) == TRUE
Mutant_Inside(log, entries) ==
    Cardinality({k \in DOMAIN entries : entries[k].index <= Len(log) + 1})
Mutant_AfterPeer(s, p) ==
    IF \A q \in Server \ {p} : sender[s].toSend[q] = <<>> THEN "none" ELSE "recheck"
Mutant_PeerMatch(old, m) == m.prevIndex + m.num + 1
Mutant_CommitBeyondLog(own, leaders, last) ==
    IF leaders > own THEN leaders ELSE own
Mutant_CommitGoesBack(own, leaders, last) ==
    IF leaders <= last THEN leaders ELSE last
Mutant_CommitLags(own, leaders, last) ==
    IF leaders > own + 1 THEN leaders ELSE own

-----------------------------------------------------------------------------
(* Helpers *)

Larger(a, b)  == IF a >= b THEN a ELSE b
Smaller(a, b) == IF a <= b THEN a ELSE b

\* m_peers.size() / 2 + 1
Majority == Cardinality(Server) \div 2 + 1

LastLogIndex(s) == Len(logs[s])
LastLogTerm(s)  == IF logs[s] = <<>> THEN 0 ELSE logs[s][Len(logs[s])].term

\* getLogTermFromLogIndex, -1 outside the log.
LogTerm(log, i) ==
    IF i = 0 THEN 0
    ELSE IF i \in 1..Len(log) THEN log[i].term ELSE -1

\* Is a log that ends with (index, term) at least as new as that of s?
UPtodata(s, index, term) ==
    IF term # LastLogTerm(s) THEN term > LastLogTerm(s)
                             ELSE index >= LastLogIndex(s)

MatchLog(log, i, term) == i \in 0..Len(log) /\ LogTerm(log, i) = term

\* The entry of a batch that replaces position i of a log, if there is one:
\* an entry of another term at that index.
Replaces(log, entries, i) ==
    {k \in DOMAIN entries :
        entries[k].index = i /\ entries[k].term # log[i].term}

\* The number of entries that fall inside the log.
Inside(log, entries) ==
    Cardinality({k \in DOMAIN entries : entries[k].index <= Len(log)})

Stored(e) == [term |-> e.term, cmd |-> e.cmd]

\* The log after the loop of AppendEntries1 over a batch: an entry whose
\* index lies inside the log replaces the entry there if the terms differ,
\* the others are pushed at the end, and nothing is ever truncated.  The
\* indices of a batch increase (BatchesIncrease), so the entries inside the
\* log come first.
Merge(log, entries) ==
    LET k == Inside(log, entries)
    IN  [i \in 1..(Len(log) + Len(entries) - k) |->
            IF i > Len(log) THEN Stored(entries[k + i - Len(log)])
            ELSE IF Replaces(log, entries, i) = {} THEN log[i]
            ELSE Stored(entries[CHOOSE j \in Replaces(log, entries, i) : TRUE])]

\* updatenextindex of a mismatch at prev: the first index of the run of
\* entries with the same term that ends at prev.
BackOff(log, prev) ==
    prev + 1 - Cardinality({i \in 0..prev :
        \A j \in i..prev : LogTerm(log, j) = LogTerm(log, prev)})

NoElection == [term |-> 0, lastIndex |-> 0, lastTerm |-> 0, todo |-> {},
               peer |-> Nil, voteNum |-> 0]
NoEntries  == [p \in Server |-> <<>>]
NoSender   == [pc |-> "none", toSend |-> NoEntries, peer |-> Nil,
               term |-> 0, prevTerm |-> 0]

\* persist(): saves the new term, vote and log, and returns once the
\* Persister has flushed them.
Persist(s) ==
    disk' = [disk EXCEPT ![s] = [term |-> currentTerm'[s],
                                 votedFor |-> votedFor'[s],
                                 logs |-> logs'[s]]]

\* A reply with a higher term: back to Follower in that term, persisted.
StepDown(s, term) ==
    /\ status' = [status EXCEPT ![s] = "Follower"]
    /\ currentTerm' = [currentTerm EXCEPT ![s] = term]
    /\ votedFor' = [votedFor EXCEPT ![s] = Nil]
    /\ UNCHANGED logs
    /\ Persist(s)

-----------------------------------------------------------------------------
(* Start of a process: Raft::init, readPersist *)

Init ==
    /\ currentTerm = [s \in Server |-> 0]
    /\ votedFor = [s \in Server |-> Nil]
    /\ logs = [s \in Server |-> <<>>]
    /\ status = [s \in Server |-> "Follower"]
    /\ commitIndex = [s \in Server |-> 0]
    /\ lastApplied = [s \in Server |-> 0]
    /\ nextIndex = [s \in Server |-> [p \in Server |-> 0]]
    /\ matchIndex = [s \in Server |-> [p \in Server |-> 0]]
    /\ applied = [s \in Server |-> <<>>]
    /\ disk = [s \in Server |-> [term |-> 0, votedFor |-> Nil, logs |-> <<>>]]
    /\ elect = [s \in Server |-> NoElection]
    /\ batchRunning = [s \in Server |-> FALSE]
    /\ pending = [s \in Server |-> NoEntries]
    /\ sender = [s \in Server |-> NoSender]
    /\ voteReq = {} /\ voteRep = {} /\ appReq = {} /\ appRep = {}
    /\ restarts = 0
    /\ votes = {} /\ won = {}

\* The process of s dies at any moment and starts again.  Its threads are
\* gone: calls it has sent may still arrive, but nobody waits for the answer.
Restart(s) ==
    /\ restarts < MaxRestarts
    /\ restarts' = restarts + 1
    /\ currentTerm' = [currentTerm EXCEPT ![s] = disk[s].term]
    /\ votedFor' = [votedFor EXCEPT ![s] = disk[s].votedFor]
    /\ logs' = [logs EXCEPT ![s] = disk[s].logs]
    /\ status' = [status EXCEPT ![s] = "Follower"]
    /\ commitIndex' = [commitIndex EXCEPT ![s] = 0]
    /\ lastApplied' = [lastApplied EXCEPT ![s] = 0]
    /\ nextIndex' = [nextIndex EXCEPT ![s] = [p \in Server |-> 0]]
    /\ matchIndex' = [matchIndex EXCEPT ![s] = [p \in Server |-> 0]]
    /\ applied' = [applied EXCEPT ![s] = <<>>]
    /\ elect' = [elect EXCEPT ![s] = NoElection]
    /\ batchRunning' = [batchRunning EXCEPT ![s] = FALSE]
    /\ pending' = [pending EXCEPT ![s] = NoEntries]
    /\ sender' = [sender EXCEPT ![s] = NoSender]
    /\ voteRep' = {m \in voteRep : m.src # s}
    /\ appRep' = {m \in appRep : m.src # s}
    /\ appReq' = {IF m.src = s THEN [m EXCEPT !.waiting = FALSE] ELSE m :
                    m \in appReq}
    /\ UNCHANGED <<disk, voteReq, histVars>>

-----------------------------------------------------------------------------
(* Election: doElection, sendRequestVote, RequestVote1 *)

\* doElection asks its peers one after the other in the ticker's thread.
\* The election record e goes on with one of the peers left, or ends; calls
\* are the requests already under way.  (The code asks in the order of
\* m_peers; here in any order.)
AskNext(s, e, calls) ==
    \/ /\ e.todo = {}
       /\ elect' = [elect EXCEPT ![s] = NoElection]
       /\ voteReq' = calls
    \/ \E p \in e.todo :
       /\ elect' = [elect EXCEPT ![s] = [e EXCEPT !.peer = p]]
       /\ voteReq' = calls \cup
            {[src |-> s, dst |-> p, term |-> e.term,
              lastIndex |-> e.lastIndex, lastTerm |-> e.lastTerm]}

\* The caller of a RequestVote is still waiting for the answer.
Waits(m) == elect[m.src].peer = m.dst /\ elect[m.src].term = m.term

\* electionTimeoutTicker, no longer inside an earlier election, finds that
\* nothing has reset its timer.
TimerExpires(s) ==
    /\ <<s, currentTerm[s] + 1>> \in Campaigns
    /\ elect[s].peer = Nil

\* doElection: a vote for itself in the next term, then the peers are asked.
DoElection(s) ==
    /\ TimerExpires(s)
    /\ status[s] # "Leader"
    /\ status' = [status EXCEPT ![s] = "Candidate"]
    /\ currentTerm' = [currentTerm EXCEPT ![s] = currentTerm[s] + 1]
    /\ votedFor' = [votedFor EXCEPT ![s] = s]
    /\ UNCHANGED logs
    /\ Persist(s)
    /\ votes' = votes \cup
            {[voter |-> s, term |-> currentTerm[s] + 1, cand |-> s]}
    /\ AskNext(s, [term |-> currentTerm[s] + 1,
                   lastIndex |-> LastLogIndex(s),
                   lastTerm |-> LastLogTerm(s),
                   todo |-> Server \ {s}, peer |-> Nil, voteNum |-> 1], voteReq)
    /\ UNCHANGED <<indexVars, batchVars, voteRep, appVars, won, restarts>>

\* The vote of the term is still free, or was given to this candidate.
MayVote(voted, cand) == voted \in {Nil, cand}

\* RequestVote1.  Nobody waits for the answer of a call that has failed for
\* its caller.
HandleRequestVote(m) ==
    LET s     == m.dst
        newer == m.term > currentTerm[s]
        voted == IF newer THEN Nil ELSE votedFor[s]
        grant == /\ m.term >= currentTerm[s]
                 /\ UPtodata(s, m.lastIndex, m.lastTerm)
                 /\ MayVote(voted, m.src)
    IN  /\ status' = IF newer THEN [status EXCEPT ![s] = "Follower"] ELSE status
        /\ currentTerm' = [currentTerm EXCEPT ![s] = Larger(m.term, @)]
        /\ votedFor' = [votedFor EXCEPT ![s] = IF grant THEN m.src ELSE voted]
        /\ UNCHANGED logs
        /\ Persist(s)
        /\ votes' = IF grant
                    THEN votes \cup {[voter |-> s, term |-> m.term, cand |-> m.src]}
                    ELSE votes
        /\ voteReq' = voteReq \ {m}
        /\ voteRep' = IF Waits(m)
                      THEN voteRep \cup
                           {[src |-> m.src, dst |-> s, reqTerm |-> m.term,
                             term |-> Larger(m.term, currentTerm[s]),
                             granted |-> grant]}
                      ELSE voteRep
        /\ UNCHANGED <<indexVars, batchVars, elect, appVars, won, restarts>>

\* The candidate reaches a majority: Leader, nextIndex and matchIndex reset,
\* and the batch thread started unless m_batchRunning says that it runs.
BecomeLeader(s) ==
    /\ status' = [status EXCEPT ![s] = "Leader"]
    /\ nextIndex' = [nextIndex EXCEPT
                        ![s] = [p \in Server |-> LastLogIndex(s) + 1]]
    /\ matchIndex' = [matchIndex EXCEPT ![s] = [p \in Server |-> 0]]
    /\ UNCHANGED <<currentTerm, votedFor, logs>>
    /\ Persist(s)
    /\ batchRunning' = [batchRunning EXCEPT ![s] = TRUE]
    /\ sender' = IF batchRunning[s] THEN sender
                 ELSE [sender EXCEPT ![s] = [@ EXCEPT !.pc = "loop"]]
    /\ won' = won \cup {[node |-> s, term |-> currentTerm[s]]}

\* The counter of votes is set back by the vote that wins.
VotesAfter(wins, num) == IF wins THEN 0 ELSE num

\* sendRequestVote has its answer.
ReceiveVoteReply(m) ==
    LET s       == m.src
        counted == m.term = currentTerm[s] /\ m.granted
        num     == elect[s].voteNum + (IF counted THEN 1 ELSE 0)
        wins    == counted /\ num >= Majority
    IN  /\ elect[s].peer = m.dst /\ elect[s].term = m.reqTerm
        /\ voteRep' = voteRep \ {m}
        /\ AskNext(s, [elect[s] EXCEPT !.todo = @ \ {m.dst},
                                       !.voteNum = VotesAfter(wins, num)],
                   voteReq)
        /\ \/ /\ m.term > currentTerm[s]
              /\ StepDown(s, m.term)
              /\ UNCHANGED <<nextIndex, matchIndex, batchRunning, sender, won>>
           \/ /\ wins
              /\ BecomeLeader(s)
           \/ /\ m.term <= currentTerm[s] /\ ~wins
              /\ UNCHANGED <<nodeVars, disk, nextIndex, matchIndex,
                             batchRunning, sender, won>>
        /\ UNCHANGED <<commitIndex, lastApplied, applied, pending, appVars,
                       votes, restarts>>

\* The call of sendRequestVote fails or times out.  Its request is lost, or
\* late: RequestVote1 may still run for it.
VoteRpcFail(s) ==
    LET mine == {m \in voteReq : m.src = s /\ Waits(m)}
        late == {m \in voteReq : ~Waits(m)}
    IN  /\ elect[s].peer # Nil
        /\ \E calls \in {voteReq \ mine} \cup
                (IF Cardinality(late) < MaxLate THEN {voteReq} ELSE {}) :
              AskNext(s, [elect[s] EXCEPT !.todo = @ \ {elect[s].peer}], calls)
        /\ voteRep' = {m \in voteRep : m.src # s}
        /\ UNCHANGED <<nodeVars, indexVars, disk, batchVars, appVars, histVars,
                       restarts>>

-----------------------------------------------------------------------------
(* Client requests and the batch sender: Start, batchSenderLoop *)

\* The LogEntry that Start builds.
NewEntry(s, c) ==
    [index |-> LastLogIndex(s) + 1, term |-> currentTerm[s], cmd |-> c]

\* A client's operation: appended, persisted, buffered for every peer.
Start(s, c) ==
    /\ status[s] = "Leader"
    /\ <<s, Len(logs[s]) + 1>> \in Requests
    /\ logs' = [logs EXCEPT ![s] = Append(@, Stored(NewEntry(s, c)))]
    /\ UNCHANGED <<currentTerm, votedFor, status>>
    /\ Persist(s)
    /\ pending' = [pending EXCEPT ![s] =
            [p \in Server |->
                IF p = s THEN @[p]
                ELSE Append(@[p], NewEntry(s, c))]]
    /\ UNCHANGED <<indexVars, batchRunning, sender, voteVars, appVars,
                   histVars, restarts>>

\* The head of the loop: a thread that finds its node no longer Leader
\* breaks out, and m_batchRunning stays true.  (A round of a Leader with
\* nothing buffered changes nothing and is left out.)
BatchCheckLeader(s) ==
    /\ sender[s].pc = "loop"
    /\ status[s] = "Leader" => \E p \in Server : pending[s][p] # <<>>
    /\ sender' = IF status[s] = "Leader"
                 THEN [sender EXCEPT ![s] = [@ EXCEPT !.pc = "collect"]]
                 ELSE [sender EXCEPT ![s] = NoSender]
    /\ UNCHANGED <<nodeVars, indexVars, disk, batchRunning, pending, voteVars,
                   appVars, histVars, restarts>>

\* Takes the pending entries of the peers in flush.  A full buffer is always
\* taken; a shorter one once its delay is over.
BatchCollect(s, flush) ==
    LET nonempty == {p \in Server : pending[s][p] # <<>>}
        full     == {p \in Server : Len(pending[s][p]) >= BatchSize}
    IN  /\ sender[s].pc = "collect"
        /\ full \subseteq flush /\ flush \subseteq nonempty
        /\ pending' = [pending EXCEPT ![s] =
                [p \in Server |-> IF p \in flush THEN <<>> ELSE @[p]]]
        /\ sender' = [sender EXCEPT ![s] =
                [@ EXCEPT !.pc = IF flush = {} THEN "loop" ELSE "recheck",
                          !.toSend = [p \in Server |->
                              IF p \in flush THEN pending[s][p] ELSE <<>>]]]
        /\ UNCHANGED <<nodeVars, indexVars, disk, batchRunning, voteVars,
                       appVars, histVars, restarts>>

\* The pc after the batch for p is sent or dropped.
AfterPeer(s, p) ==
    IF \A q \in Server \ {p} : sender[s].toSend[q] = <<>>
    THEN "loop" ELSE "recheck"

\* The second check of the leadership, for one batch of toSend, under m_mtx.
BatchRecheck(s, p) ==
    /\ sender[s].pc = "recheck"
    /\ sender[s].toSend[p] # <<>>
    /\ sender' = [sender EXCEPT ![s] =
            IF status[s] = "Leader"
            THEN [@ EXCEPT !.pc = "term", !.peer = p]
            ELSE [@ EXCEPT !.pc = AfterPeer(s, p),
                           !.toSend = [sender[s].toSend EXCEPT ![p] = <<>>]]]
    /\ UNCHANGED <<nodeVars, indexVars, disk, batchRunning, pending, voteVars,
                   appVars, histVars, restarts>>

\* The lock is released: m_currentTerm, m_logs and m_commitIndex are read
\* without it, one after the other.  Each is read as some section left it, not
\* as a section has it on its way to persist().
BatchReadTerm(s) ==
    /\ sender[s].pc = "term"
    /\ sender' = [sender EXCEPT
            ![s] = [@ EXCEPT !.pc = "prev", !.term = currentTerm[s]]]
    /\ UNCHANGED <<nodeVars, indexVars, disk, batchRunning, pending, voteVars,
                   appVars, histVars, restarts>>

BatchReadPrev(s) ==
    LET front == sender[s].toSend[sender[s].peer][1]
    IN  /\ sender[s].pc = "prev"
        /\ sender' = [sender EXCEPT ![s] =
                [@ EXCEPT !.pc = "commit",
                          !.prevTerm = LogTerm(logs[s], front.index - 1)]]
        /\ UNCHANGED <<nodeVars, indexVars, disk, batchRunning, pending,
                       voteVars, appVars, histVars, restarts>>

Inflight == Cardinality(appReq) + Cardinality(appRep)

BatchSend(s) ==
    LET p       == sender[s].peer
        entries == sender[s].toSend[p]
    IN  /\ sender[s].pc = "commit"
        /\ Inflight < MaxInflight
        /\ appReq' = appReq \cup
                {[src |-> s, dst |-> p, term |-> sender[s].term,
                  prevIndex |-> entries[1].index - 1,
                  prevTerm |-> sender[s].prevTerm, entries |-> entries,
                  commit |-> commitIndex[s], waiting |-> TRUE]}
        /\ sender' = [sender EXCEPT ![s] =
                [pc |-> AfterPeer(s, p), peer |-> Nil, term |-> 0,
                 prevTerm |-> 0, toSend |-> [@.toSend EXCEPT ![p] = <<>>]]]
        /\ UNCHANGED <<nodeVars, indexVars, disk, batchRunning, pending,
                       voteVars, appRep, histVars, restarts>>

-----------------------------------------------------------------------------
(* AppendEntries: doHeartBeat, AppendEntries1, sendAppendEntries *)

\* An empty AppendEntries to every peer, with the log position of nextIndex.
\* The calls to the peers outside reach are lost at once.
DoHeartBeat(s, reach) ==
    LET next == [p \in Server |-> IF p = s THEN nextIndex[s][p]
                                  ELSE Larger(nextIndex[s][p], 1)]
    IN  /\ status[s] = "Leader"
        /\ reach \subseteq Server \ {s} /\ reach # {}
        /\ <<s, Inflight + Cardinality(reach)>> \in Beats
        /\ nextIndex' = [nextIndex EXCEPT ![s] = next]
        /\ appReq' = appReq \cup
                {[src |-> s, dst |-> p, term |-> currentTerm[s],
                  prevIndex |-> next[p] - 1,
                  prevTerm |-> LogTerm(logs[s], next[p] - 1),
                  entries |-> <<>>, commit |-> commitIndex[s],
                  waiting |-> TRUE] : p \in reach}
        /\ UNCHANGED <<nodeVars, commitIndex, lastApplied, matchIndex,
                       applied, disk, batchVars, voteVars, appRep, histVars,
                       restarts>>

\* The answer goes to the thread that made the call, if it still waits.
Answer(m, success, upNext) ==
    appRep' = IF m.waiting
              THEN appRep \cup
                   {[src |-> m.src, dst |-> m.dst, prevIndex |-> m.prevIndex,
                     num |-> Len(m.entries),
                     lastTerm |-> IF m.entries = <<>> THEN 0
                                  ELSE m.entries[Len(m.entries)].term,
                     term |-> currentTerm'[m.dst],
                     success |-> success, upNext |-> upNext]}
              ELSE appRep

\* AppendEntries1 of a call whose term is not over: the node follows that
\* term, whatever it was.
Follow(m) ==
    LET s == m.dst
    IN  /\ m.term >= currentTerm[s]
        /\ status' = [status EXCEPT ![s] = "Follower"]
        /\ currentTerm' = [currentTerm EXCEPT ![s] = m.term]
        /\ votedFor' = [votedFor EXCEPT
                            ![s] = IF m.term > currentTerm[s] THEN Nil ELSE @]

\* The term of the call is over: nothing changes, not even the timer.
AppendStale(m) ==
    /\ m.term < currentTerm[m.dst]
    /\ UNCHANGED <<nodeVars, disk, commitIndex>>
    /\ Answer(m, FALSE, NoUpdate)

\* prevLogIndex lies beyond the log.
AppendGap(m) ==
    /\ Follow(m)
    /\ m.prevIndex > LastLogIndex(m.dst)
    /\ UNCHANGED <<logs, commitIndex>>
    /\ Persist(m.dst)
    /\ Answer(m, FALSE, LastLogIndex(m.dst) + 1)

\* Another term at prevLogIndex.
AppendMismatch(m) ==
    /\ Follow(m)
    /\ m.prevIndex <= LastLogIndex(m.dst)
    /\ ~MatchLog(logs[m.dst], m.prevIndex, m.prevTerm)
    /\ UNCHANGED <<logs, commitIndex>>
    /\ Persist(m.dst)
    /\ Answer(m, FALSE, BackOff(logs[m.dst], m.prevIndex))

\* The commit index of a follower: that of the leader, up to its own log.
FollowerCommit(own, leaders, last) ==
    IF leaders > own THEN Smaller(leaders, last) ELSE own

\* The entries are merged; the commit index follows the leader's up to the
\* end of the own log.
AppendMatch(m) ==
    LET s   == m.dst
        log == Merge(logs[s], m.entries)
    IN  /\ Follow(m)
        /\ MatchLog(logs[s], m.prevIndex, m.prevTerm)
        /\ logs' = [logs EXCEPT ![s] = log]
        /\ commitIndex' = [commitIndex EXCEPT ![s] =
                FollowerCommit(@, m.commit, Len(log))]
        /\ Persist(s)
        /\ Answer(m, TRUE, 0)

HandleAppendEntries(m) ==
    /\ appReq' = appReq \ {m}
    /\ AppendStale(m) \/ AppendGap(m) \/ AppendMismatch(m) \/ AppendMatch(m)
    /\ UNCHANGED <<lastApplied, nextIndex, matchIndex, applied, batchVars,
                   voteVars, histVars, restarts>>

\* The last index a peer is known to hold after a positive answer.
PeerMatch(old, m) == Larger(old, m.prevIndex + m.num)

\* updatePeerSyncState and tryUpdateCommitIndex.  A batch has a counter of
\* its own, 1 for the leader, that this answer raises to 2; an empty call
\* never moves the commit index.
PeerSynced(m) ==
    LET s     == m.src
        p     == m.dst
        match == PeerMatch(matchIndex[s][p], m)
    IN  /\ matchIndex' = [matchIndex EXCEPT ![s] = [@ EXCEPT ![p] = match]]
        /\ nextIndex' = [nextIndex EXCEPT ![s] = [@ EXCEPT ![p] = match + 1]]
        /\ commitIndex' = [commitIndex EXCEPT ![s] =
                IF 2 >= Majority /\ m.num > 0 /\ m.lastTerm = currentTerm[s]
                THEN Larger(@, m.prevIndex + m.num) ELSE @]

\* sendAppendEntries has its answer.
ReceiveAppendReply(m) ==
    LET s       == m.src
        current == m.term = currentTerm[s] /\ status[s] = "Leader"
    IN  /\ appRep' = appRep \ {m}
        /\ \/ /\ m.term > currentTerm[s]
              /\ StepDown(s, m.term)
              /\ UNCHANGED <<commitIndex, nextIndex, matchIndex>>
           \/ /\ m.term <= currentTerm[s] /\ ~current
              /\ UNCHANGED <<nodeVars, disk, commitIndex, nextIndex, matchIndex>>
           \/ /\ current /\ ~m.success
              /\ nextIndex' = IF m.upNext = NoUpdate THEN nextIndex
                              ELSE [nextIndex EXCEPT ![s] =
                                    [@ EXCEPT ![m.dst] = Larger(m.upNext, 1)]]
              /\ UNCHANGED <<nodeVars, disk, commitIndex, matchIndex>>
           \/ /\ current /\ m.success
              /\ PeerSynced(m)
              /\ UNCHANGED <<nodeVars, disk>>
        /\ UNCHANGED <<lastApplied, applied, batchVars, voteVars, appReq,
                       histVars, restarts>>

\* callAppendEntriesRpc returns false: the call or its answer is lost and its
\* thread ends.
LoseAppend ==
    /\ \/ \E m \in appReq : appReq' = appReq \ {m} /\ UNCHANGED appRep
       \/ \E m \in appRep : appRep' = appRep \ {m} /\ UNCHANGED appReq
    /\ UNCHANGED <<nodeVars, indexVars, disk, batchVars, voteVars, histVars,
                   restarts>>

-----------------------------------------------------------------------------
(* applierTicker *)

\* Everything committed and not yet applied goes to the KvServer, in order.
Applier(s) ==
    /\ lastApplied[s] < commitIndex[s]
    /\ applied' = [applied EXCEPT ![s] =
            @ \o [i \in 1..(commitIndex[s] - lastApplied[s]) |->
                    logs[s][lastApplied[s] + i].cmd]]
    /\ lastApplied' = [lastApplied EXCEPT ![s] = commitIndex[s]]
    /\ UNCHANGED <<nodeVars, commitIndex, nextIndex, matchIndex, disk,
                   batchVars, voteVars, appVars, histVars, restarts>>

-----------------------------------------------------------------------------

Next ==
    \/ \E s \in Server : Restart(s)
    \/ \E s \in Server : DoElection(s)
    \/ \E m \in voteReq : HandleRequestVote(m)
    \/ \E m \in voteRep : ReceiveVoteReply(m)
    \/ \E s \in Server : VoteRpcFail(s)
    \/ \E s \in Server, c \in Command : Start(s, c)
    \/ \E s \in Server : BatchCheckLeader(s)
    \/ \E s \in Server, flush \in SUBSET Server : BatchCollect(s, flush)
    \/ \E s \in Server, p \in Server : BatchRecheck(s, p)
    \/ \E s \in Server : BatchReadTerm(s)
    \/ \E s \in Server : BatchReadPrev(s)
    \/ \E s \in Server : BatchSend(s)
    \/ \E s \in Server, reach \in SUBSET Server : DoHeartBeat(s, reach)
    \/ \E m \in appReq : HandleAppendEntries(m)
    \/ \E m \in appRep : ReceiveAppendReply(m)
    \/ LoseAppend
    \/ \E s \in Server : Applier(s)

Spec == Init /\ [][Next]_vars

\* The batch thread of a node.
BatchStep(s) ==
    \/ BatchCheckLeader(s)
    \/ \E flush \in SUBSET Server : flush # {} /\ BatchCollect(s, flush)
    \/ \E p \in Server : BatchRecheck(s, p)
    \/ BatchReadTerm(s) \/ BatchReadPrev(s) \/ BatchSend(s)

\* Fairness for a Leader s and a peer p.  The threads of both keep running:
\* the batch thread goes round, and takes a buffer whose delay is over; the
\* heartbeat and applier tickers fire again and again.  Single calls may be
\* lost, but a peer called again and again is reached again and again, and so
\* is the caller by its answers.
FairTo(s, p) ==
    /\ SF_vars(BatchStep(s))
    /\ SF_vars(\E reach \in SUBSET Server : p \in reach /\ DoHeartBeat(s, reach))
    /\ \A q \in Server \ {s} :
        /\ SF_vars(\E m \in appReq : m.dst = q /\ HandleAppendEntries(m))
        /\ SF_vars(\E m \in appRep : m.dst = q /\ ReceiveAppendReply(m))
    /\ WF_vars(Applier(p))

-----------------------------------------------------------------------------
(* Properties *)

\* A node grants at most one vote per term, crashes and restarts included:
\* RequestVote1 and doElection persist m_votedFor before anybody learns of it.
OneVotePerTerm ==
    \A v, w \in votes :
        v.voter = w.voter /\ v.term = w.term => v.cand = w.cand

\* At most one node ever becomes Leader in a term, although sendRequestVote
\* counts votes without looking at m_status and the loop of doElection goes on
\* after the node has moved to another term.
OneWinnerPerTerm ==
    \A x, y \in won : x.term = y.term => x.node = y.node

\* A node that acts as Leader has won the election of its current term.
LeaderHasWon ==
    \A s \in Server : status[s] = "Leader" =>
        [node |-> s, term |-> currentTerm[s]] \in won

\* The assertion of sendRequestVote that nobody becomes Leader twice in one
\* term, for every answer that can arrive now.
NeverLeaderTwice ==
    \A m \in voteRep :
        LET s == m.src
        IN  /\ elect[s].peer = m.dst /\ elect[s].term = m.reqTerm
            /\ m.granted /\ m.term = currentTerm[s]
            /\ elect[s].voteNum + 1 >= Majority
            => status[s] # "Leader"

\* What a node has on disk is its term, vote and log whenever m_mtx is free:
\* no answer leaves a node before the state behind it is flushed.
DurableState ==
    \A s \in Server : disk[s] = [term |-> currentTerm[s],
                                 votedFor |-> votedFor[s], logs |-> logs[s]]

\* The assertions of tryUpdateCommitIndex and AppendEntries1 on m_commitIndex,
\* and that the applier never runs ahead of it.
CommitWithinLog ==
    \A s \in Server :
        /\ Len(applied[s]) = lastApplied[s]
        /\ lastApplied[s] <= commitIndex[s]
        /\ commitIndex[s] <= Len(logs[s])

\* The assertion of updatePeerSyncState: a Leader never believes that a peer
\* holds more than its own log.
MatchWithinLog ==
    \A s, p \in Server : status[s] = "Leader" =>
        /\ matchIndex[s][p] <= Len(logs[s])
        /\ nextIndex[s][p] \in 1..(Len(logs[s]) + 1)

Increasing(s, entries) ==
    /\ \A i, j \in DOMAIN entries :
        i <= j => entries[j].index >= entries[i].index + (j - i)
    /\ \A i \in DOMAIN entries : entries[i].index \in 1..Len(logs[s])

\* The entries of a batch, buffered by Start or taken by the batch thread, have
\* increasing indices that exist in the log of the node, although buffers
\* outlive a leadership.
BatchesIncrease ==
    \A s, p \in Server :
        /\ Increasing(s, pending[s][p])
        /\ Increasing(s, sender[s].toSend[p])

\* A call on its way speaks of positions that exist in the log of its sender:
\* prevLogIndex is one before its first entry, or, in a heartbeat, an index of
\* the log.
CallsFitLog ==
    \A m \in appReq :
        /\ Increasing(m.src, m.entries)
        /\ IF m.entries = <<>> THEN m.prevIndex <= Len(logs[m.src])
                               ELSE m.prevIndex = m.entries[1].index - 1

\* An answer never confirms or suggests an index beyond the caller's log.
AnswersFitLog ==
    \A m \in appRep :
        /\ m.success => m.prevIndex + m.num <= Len(logs[m.src])
        /\ m.upNext <= Len(logs[m.src])

\* While the batch thread builds a call it holds a batch for its peer.
SenderHoldsBatch ==
    \A s \in Server : sender[s].pc \in {"term", "prev", "commit"} =>
        sender[s].peer \in Server /\ sender[s].toSend[sender[s].peer] # <<>>

\* The inductive invariant of the log indices.
IndexInv ==
    /\ TypeOK /\ DurableState /\ CommitWithinLog /\ MatchWithinLog
    /\ BatchesIncrease /\ CallsFitLog /\ AnswersFitLog /\ SenderHoldsBatch

\* The assertion of AppendEntries1 that index and term name one command, for
\* every call and the log it is sent to.  It is no more than that: two logs may
\* differ in an entry of one index and term, because a batch with a gap in its
\* indices is pushed to the end of a shorter log.
OneCommandPerEntry ==
    \A m \in appReq : \A k \in DOMAIN m.entries :
        LET e   == m.entries[k]
            log == logs[m.dst]
        IN  e.index <= Len(log) /\ log[e.index].term = e.term
                => log[e.index].cmd = e.cmd

\* The assertion of AppendEntries1 after its loop: a call that passes matchLog
\* leaves a log that reaches as far as the call, wherever its entries fall.
MergeReachesEnd ==
    \A m \in appReq :
        LET log == logs[m.dst]
        IN  m.term >= currentTerm[m.dst] /\ MatchLog(log, m.prevIndex, m.prevTerm)
            => Len(Merge(log, m.entries)) >= m.prevIndex + Len(m.entries)

\* The peers a candidate has asked, and itself, that voted for it in e.
Granted(s, e) ==
    {v \in Server \ e.todo :
        [voter |-> v, term |-> e.term, cand |-> s] \in votes}

\* A node that is still asking has counted no more votes than it was granted,
\* and once it has won, the peers left are too few to make it win again.
CountedVotes ==
    \A s \in Server : elect[s].peer # Nil =>
        /\ elect[s].peer \in elect[s].todo
        /\ elect[s].term <= currentTerm[s]
        /\ elect[s].voteNum <= Cardinality(Granted(s, elect[s]))
        /\ elect[s].voteNum + Cardinality(elect[s].todo) <= Cardinality(Server)
        /\ [node |-> s, term |-> elect[s].term] \in won =>
            elect[s].voteNum + Cardinality(elect[s].todo) < Majority

\* A vote is remembered by the voter for as long as its term lasts.
VotesRemembered ==
    \A v \in votes :
        /\ v.term <= currentTerm[v.voter]
        /\ v.term = currentTerm[v.voter] => votedFor[v.voter] = v.cand

\* A positive answer stands for a vote.
AnswersAreVotes ==
    \A m \in voteRep : m.granted =>
        /\ m.term = m.reqTerm
        /\ [voter |-> m.dst, term |-> m.reqTerm, cand |-> m.src] \in votes

\* The nodes that ever voted for a candidate in a term.
Voters(cand, term) ==
    {v \in Server : [voter |-> v, term |-> term, cand |-> cand] \in votes}

\* Who has won has a majority of votes, in a term it has reached.
WinnersHaveMajority ==
    \A w \in won : /\ w.term <= currentTerm[w.node]
                   /\ Cardinality(Voters(w.node, w.term)) >= Majority

\* The inductive invariant of elections.
ElectionInv ==
    /\ OneVotePerTerm /\ VotesRemembered /\ AnswersAreVotes /\ CountedVotes
    /\ WinnersHaveMajority /\ LeaderHasWon

\* A node that leads for the first time has a thread that replicates what Start
\* appends, for as long as it leads.  When it leads again it may have none: the
\* thread that ends leaves m_batchRunning set.
LeaderHasSender ==
    \A s \in Server :
        status[s] = "Leader" /\ Cardinality({w \in won : w.node = s}) = 1
            => sender[s].pc # "none"

\* Two nodes never hand different commands to the KvServer for one index.
AppliedAgree ==
    \A s, p \in Server :
        \A i \in DOMAIN applied[s] \cap DOMAIN applied[p] :
            applied[s][i] = applied[p][i]

\* What a stable Leader has committed is applied by every node that holds the
\* entry: the heartbeats carry m_commitIndex and find a position that matches.
CommitReaches(s, p) ==
    \A k \in {r[2] : r \in Requests} :
        (status[s] = "Leader" /\ commitIndex[s] >= k /\ Len(logs[p]) >= k)
            ~> (status[s] # "Leader" \/ lastApplied[p] >= k)

\* What a stable Leader appends reaches every peer: handleLogMismatch moves
\* m_nextIndex back "to retry".
EntriesReach(s, p) ==
    \A k \in {r[2] : r \in Requests} :
        (status[s] = "Leader" /\ Len(logs[s]) >= k)
            ~> (status[s] # "Leader" \/ Len(logs[p]) >= k)

\* What a node commits is on the disks of a majority.
CommittedOnMajority ==
    \A s \in Server : \A i \in 1..commitIndex[s] :
        Cardinality({p \in Server :
            /\ i <= Len(disk[p].logs)
            /\ disk[p].logs[i] = logs[s][i]}) >= Majority

\* A term never decreases and a vote never changes within a term, whatever
\* the node does, a restart included.
VoteStable ==
    [][\A s \in Server :
        /\ currentTerm'[s] >= currentTerm[s]
        /\ currentTerm'[s] = currentTerm[s] /\ votedFor[s] # Nil
           => votedFor'[s] = votedFor[s]]_vars

\* Nothing but a restart takes back a commit index or an applied entry, and
\* not even a restart shortens a log.
CommitMonotonic ==
    [][\A s \in Server :
        /\ restarts' = restarts => /\ commitIndex'[s] >= commitIndex[s]
                                  /\ lastApplied'[s] >= lastApplied[s]
        /\ Len(logs'[s]) >= Len(logs[s])]_vars

-----------------------------------------------------------------------------
(* What KvServer takes Raft for *)

\* At most one election has been won so far,
OneReign == \A x, y \in won : x = y

\* and the process of its winner still runs: m_batchRunning is set by the win
\* and by nothing but a restart reset.
SoleReign == OneReign /\ \A w \in won : batchRunning[w.node]

\* The winner, its log, how much of it the winner has committed, and what the
\* nodes have applied, as one log.
Commands(log) == [i \in 1..Len(log) |-> log[i].cmd]
Winner        == (CHOOSE w \in won : TRUE).node
ReignCommands == IF won = {} THEN <<>> ELSE Commands(logs[Winner])
ReignCommit   == IF won = {} THEN 0 ELSE commitIndex[Winner]
ReignLeader   == IF won = {} THEN Nil ELSE Winner
ReignLog == INSTANCE ReplicatedLog WITH
    LogEntry <- Command, log <- ReignCommands, committed <- ReignCommit,
    leader <- ReignLeader, handed <- applied

\* Until a second election is won or the Leader dies, the nodes together are
\* one replicated log: what is committed is never changed, and every node
\* applies a prefix of it, whatever calls are lost or overtake each other,
\* whoever campaigns in vain and whichever followers restart.
ImplementsLog ==
    /\ ReignLog!LogInit
    /\ [][SoleReign' => [ReignLog!LogNext]_(ReignLog!logVars)]_vars

=============================================================================

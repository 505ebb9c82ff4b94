----------------------------- MODULE RaftProofs -----------------------------
(***************************************************************************)
(* Proofs about Raft, for every set of servers, commands and every bound.  *)
(***************************************************************************)
EXTENDS Raft, FiniteSetTheorems, TLAPS

-----------------------------------------------------------------------------
(* Facts about the helpers *)

\* The smaller and the larger of two numbers.
LEMMA Extremes ==
    ASSUME NEW a \in Int, NEW b \in Int
    PROVE  /\ Larger(a, b) \in {a, b} /\ Larger(a, b) >= a /\ Larger(a, b) >= b
           /\ Smaller(a, b) \in {a, b} /\ Smaller(a, b) <= a /\ Smaller(a, b) <= b
  BY DEF Larger, Smaller

\* The size of an interval.
LEMMA IntervalSize ==
    ASSUME NEW n \in Nat
    PROVE  IsFiniteSet(1..n) /\ Cardinality(1..n) = n
<1>1. /\ IsFiniteSet(1..n)
      /\ Cardinality(1..n) = IF 1 > n THEN 0 ELSE n - 1 + 1
  BY FS_Interval, 1 \in Int, n \in Int, Zenon
<1> QED BY <1>1

\* The entries that fall inside the log are at most all of them, and at most
\* as many as the log has after prev if the batch starts after prev.
LEMMA InsideBound ==
    ASSUME NEW log \in Seq(Entry), NEW entries \in Seq(WireEntry)
    PROVE  /\ Inside(log, entries) \in Nat
           /\ Inside(log, entries) <= Len(entries)
           /\ \A prev \in Nat :
                (prev <= Len(log) /\ \A i \in DOMAIN entries :
                    entries[i].index >= prev + i)
                => Inside(log, entries) <= Len(log) - prev
<1> DEFINE S == {k \in DOMAIN entries : entries[k].index <= Len(log)}
<1>1. S \subseteq 1..Len(entries) /\ Len(entries) \in Nat /\ Len(log) \in Nat
  OBVIOUS
<1>2. IsFiniteSet(S) /\ Cardinality(S) \in Nat /\ Cardinality(S) <= Len(entries)
  <2>1. IsFiniteSet(1..Len(entries)) /\ Cardinality(1..Len(entries)) = Len(entries)
    BY <1>1, IntervalSize
  <2> HIDE DEF S
  <2> QED BY <1>1, <2>1, FS_Subset, FS_CardinalityType
<1>3. ASSUME NEW prev \in Nat, prev <= Len(log),
             \A i \in DOMAIN entries : entries[i].index >= prev + i
      PROVE  Cardinality(S) <= Len(log) - prev
  <2>1. S \subseteq 1..(Len(log) - prev)
    <3> SUFFICES ASSUME NEW i \in S PROVE i \in 1..(Len(log) - prev)
      OBVIOUS
    <3>1. i \in 1..Len(entries) /\ entries[i].index <= Len(log)
      BY <1>1
    <3>2. entries[i] \in WireEntry
      BY <3>1
    <3>3. entries[i].index >= prev + i
      BY <1>3, <3>1
    <3>4. entries[i].index \in Nat
      BY <3>2 DEF WireEntry
    <3> QED BY <1>1, <3>1, <3>3, <3>4
  <2>2. IsFiniteSet(1..(Len(log) - prev))
        /\ Cardinality(1..(Len(log) - prev)) = Len(log) - prev
    BY <1>3, <1>1, Len(log) - prev \in Nat, IntervalSize
  <2> QED BY <2>1, <2>2, FS_Subset
<1> QED BY <1>2, <1>3 DEF Inside

\* Merging a batch yields a log at least as long, and long enough for the
\* batch if it starts just after a position of the log: the assertion of
\* AppendEntries1.
LEMMA MergeLog ==
    ASSUME NEW log \in Seq(Entry), NEW entries \in Seq(WireEntry)
    PROVE  /\ Merge(log, entries) \in Seq(Entry)
           /\ Len(Merge(log, entries)) >= Len(log)
           /\ \A prev \in Nat :
                (prev <= Len(log) /\ \A i \in DOMAIN entries :
                    entries[i].index >= prev + i)
                => Len(Merge(log, entries)) >= prev + Len(entries)
<1> DEFINE k == Inside(log, entries)
           n == Len(log) + Len(entries) - k
           M == Merge(log, entries)
<1>1. k \in Nat /\ k <= Len(entries) /\ Len(log) \in Nat /\ Len(entries) \in Nat
  BY InsideBound
<1>2. n \in Nat /\ n >= Len(log)
  BY <1>1
<1>3. ASSUME NEW i \in 1..n
      PROVE  M[i] \in Entry
  <2>1. CASE i > Len(log)
    <3>1. k + i - Len(log) \in 1..Len(entries)
      BY <1>1, <2>1
    <3>2. entries[k + i - Len(log)] \in WireEntry
      BY <3>1
    <3>3. M[i] = Stored(entries[k + i - Len(log)])
      BY <2>1 DEF Merge
    <3> QED BY <3>2, <3>3 DEF Stored, Entry, WireEntry
  <2>2. CASE i <= Len(log) /\ Replaces(log, entries, i) = {}
    <3>1. M[i] = log[i]
      BY <2>2, <1>1 DEF Merge
    <3> QED BY <3>1, <2>2
  <2>3. CASE i <= Len(log) /\ Replaces(log, entries, i) # {}
    <3> DEFINE j == CHOOSE j \in Replaces(log, entries, i) : TRUE
    <3>1. M[i] = Stored(entries[j])
      BY <2>3, <1>1 DEF Merge
    <3>2. j \in Replaces(log, entries, i)
      BY <2>3
    <3>3. entries[j] \in WireEntry
      BY <3>2 DEF Replaces
    <3> QED BY <3>1, <3>3 DEF Stored, Entry, WireEntry
  <2> QED BY <2>1, <2>2, <2>3, <1>1
<1>4. M = [i \in 1..n |-> M[i]] /\ DOMAIN M = 1..n
  BY DEF Merge
<1>5. M \in Seq(Entry) /\ Len(M) = n
  BY <1>2, <1>3, <1>4
<1>6. ASSUME NEW prev \in Nat, prev <= Len(log),
             \A i \in DOMAIN entries : entries[i].index >= prev + i
      PROVE  Len(M) >= prev + Len(entries)
  <2>1. k <= Len(log) - prev
    BY <1>6, InsideBound
  <2> QED BY <1>1, <1>5, <2>1
<1> QED BY <1>2, <1>5, <1>6

\* A mismatch at prev never suggests an index after prev.
LEMMA BackOffBound ==
    ASSUME NEW log, NEW prev \in Nat
    PROVE  BackOff(log, prev) \in Int /\ BackOff(log, prev) <= prev
<1> DEFINE R == {i \in 0..prev :
                    \A j \in i..prev : LogTerm(log, j) = LogTerm(log, prev)}
<1>1. IsFiniteSet(R) /\ Cardinality(R) \in Nat
  <2>1. IsFiniteSet(0..prev)
    BY FS_Interval, 0 \in Int, prev \in Int, Zenon
  <2>2. R \in SUBSET (0..prev)
    OBVIOUS
  <2> HIDE DEF R
  <2> QED BY <2>1, <2>2, FS_Subset, FS_CardinalityType
<1>2. prev \in R
  OBVIOUS
<1>3. Cardinality(R) >= 1
  BY <1>1, <1>2, FS_EmptySet
<1> QED BY <1>1, <1>3 DEF BackOff

\* getLogTermFromLogIndex returns an integer, a term of the log inside it.
LEMMA LogTermType ==
    ASSUME NEW log \in Seq(Entry), NEW i \in Int
    PROVE  LogTerm(log, i) \in Int
<1>1. CASE i \in 1..Len(log)
  <2>1. log[i] \in Entry
    BY <1>1
  <2> QED BY <1>1, <2>1 DEF LogTerm, Entry
<1>2. CASE i \notin 1..Len(log)
  BY <1>2 DEF LogTerm
<1> QED BY <1>1, <1>2

-----------------------------------------------------------------------------
(* What carries an invariant over a step that does not add to it *)

\* No log gets shorter.
LogsGrow ==
    /\ logs \in [Server -> Seq(Entry)] /\ logs' \in [Server -> Seq(Entry)]
    /\ \A x \in Server : Len(logs'[x]) >= Len(logs[x])

\* A step that changes no log makes none shorter.
LEMMA SameLogsGrow ==
    ASSUME TypeOK, UNCHANGED logs
    PROVE  LogsGrow
  BY DEF TypeOK, LogsGrow

\* A batch that fits a log fits the longer log.
LEMMA IncreasingKept ==
    ASSUME LogsGrow, NEW s \in Server, NEW es, Increasing(s, es),
           es \in Seq(WireEntry)
    PROVE  Increasing(s, es)'
<1>1. Len(logs[s]) \in Nat /\ Len(logs'[s]) \in Nat
      /\ Len(logs'[s]) >= Len(logs[s])
  BY DEF LogsGrow
<1>2. ASSUME NEW i \in DOMAIN es
      PROVE  es[i].index \in 1..Len(logs'[s])
  BY <1>1 DEF Increasing
<1> QED BY <1>2 DEF Increasing

\* Calls that were there before still fit.
LEMMA CallsKept ==
    ASSUME TypeOK, CallsFitLog, LogsGrow, NEW m \in appReq
    PROVE  /\ Increasing(m.src, m.entries)'
           /\ IF m.entries = <<>> THEN m.prevIndex <= Len(logs'[m.src])
              ELSE m.prevIndex = m.entries[1].index - 1
<1>1. m \in AppReq
  BY DEF TypeOK
<1>2. m.src \in Server /\ m.entries \in Seq(WireEntry) /\ m.prevIndex \in Nat
  BY <1>1 DEF AppReq
<1>3. Increasing(m.src, m.entries)
      /\ IF m.entries = <<>> THEN m.prevIndex <= Len(logs[m.src])
         ELSE m.prevIndex = m.entries[1].index - 1
  BY DEF CallsFitLog
<1>4. Increasing(m.src, m.entries)'
  BY <1>2, <1>3, IncreasingKept
<1>5. Len(logs[m.src]) \in Nat /\ Len(logs'[m.src]) \in Nat
      /\ Len(logs'[m.src]) >= Len(logs[m.src])
  BY <1>2 DEF LogsGrow
<1> QED BY <1>2, <1>3, <1>4, <1>5

\* A step that adds no AppendEntries call keeps the facts about calls.
LEMMA FewerCalls ==
    ASSUME TypeOK, CallsFitLog, LogsGrow, appReq' \subseteq appReq
    PROVE  CallsFitLog'
  BY CallsKept DEF CallsFitLog

\* Answers that were there before still fit.
LEMMA AnswersKept ==
    ASSUME TypeOK, AnswersFitLog, LogsGrow, NEW m \in appRep
    PROVE  /\ m.success => m.prevIndex + m.num <= Len(logs'[m.src])
           /\ m.upNext <= Len(logs'[m.src])
<1>1. m \in AppRep
  BY DEF TypeOK
<1>2. m.src \in Server /\ m.upNext \in Int /\ m.prevIndex \in Nat /\ m.num \in Nat
  BY <1>1 DEF AppRep
<1>3. Len(logs[m.src]) \in Nat /\ Len(logs'[m.src]) \in Nat
      /\ Len(logs'[m.src]) >= Len(logs[m.src])
  BY <1>2 DEF LogsGrow
<1> QED BY <1>2, <1>3 DEF AnswersFitLog

\* A step that adds no answer keeps the facts about answers.
LEMMA FewerAnswers ==
    ASSUME TypeOK, AnswersFitLog, LogsGrow, appRep' \subseteq appRep
    PROVE  AnswersFitLog'
  BY AnswersKept DEF AnswersFitLog

\* Batches move from a buffer to the batch thread or disappear.
LEMMA BatchesMove ==
    ASSUME TypeOK, BatchesIncrease, LogsGrow,
           \A x, p \in Server :
             /\ pending'[x][p] \in {<<>>, pending[x][p]}
             /\ sender'[x].toSend[p] \in
                    {<<>>, pending[x][p], sender[x].toSend[p]}
    PROVE  BatchesIncrease'
<1> SUFFICES ASSUME NEW x \in Server, NEW p \in Server
             PROVE  /\ Increasing(x, pending[x][p])'
                    /\ Increasing(x, sender[x].toSend[p])'
  BY DEF BatchesIncrease
<1>1. pending[x][p] \in Seq(WireEntry) /\ sender[x].toSend[p] \in Seq(WireEntry)
  BY DEF TypeOK, Sender
<1> DEFINE Fits(es) == /\ \A i, j \in DOMAIN es :
                            i <= j => es[j].index >= es[i].index + (j - i)
                       /\ \A i \in DOMAIN es : es[i].index \in 1..Len(logs'[x])
<1>2. Fits(pending[x][p])
  <2>1. Increasing(x, pending[x][p])
    BY DEF BatchesIncrease
  <2> QED BY <1>1, <2>1, IncreasingKept DEF Increasing
<1>3. Fits(sender[x].toSend[p])
  <2>1. Increasing(x, sender[x].toSend[p])
    BY DEF BatchesIncrease
  <2> QED BY <1>1, <2>1, IncreasingKept DEF Increasing
<1>4. Fits(<<>>)
  OBVIOUS
<1>5. Fits(pending'[x][p]) /\ Fits(sender'[x].toSend[p])
  <2> HIDE DEF Fits
  <2> QED BY <1>2, <1>3, <1>4
<1> QED BY <1>5 DEF Increasing

\* Nobody becomes Leader and the indices of the Leaders stay.
LEMMA MatchKept ==
    ASSUME TypeOK, MatchWithinLog, LogsGrow,
           \A x \in Server : status'[x] = "Leader" =>
             /\ status[x] = "Leader"
             /\ matchIndex'[x] = matchIndex[x] /\ nextIndex'[x] = nextIndex[x]
    PROVE  MatchWithinLog'
<1> SUFFICES ASSUME NEW x \in Server, NEW p \in Server, status'[x] = "Leader"
             PROVE  /\ matchIndex'[x][p] <= Len(logs'[x])
                    /\ nextIndex'[x][p] \in 1..(Len(logs'[x]) + 1)
  BY DEF MatchWithinLog
<1>1. Len(logs[x]) \in Nat /\ Len(logs'[x]) \in Nat
      /\ Len(logs'[x]) >= Len(logs[x])
  BY DEF LogsGrow
<1>2. matchIndex[x][p] \in Nat /\ nextIndex[x][p] \in Nat
  BY DEF TypeOK
<1> QED BY <1>1, <1>2 DEF MatchWithinLog

\* persist() keeps memory and disk equal if only its node has changed.
LEMMA PersistKeeps ==
    ASSUME TypeOK, DurableState, NEW s \in Server, Persist(s),
           currentTerm' \in [Server -> Nat],
           votedFor' \in [Server -> Server \cup {Nil}],
           logs' \in [Server -> Seq(Entry)],
           \A x \in Server \ {s} :
             /\ currentTerm'[x] = currentTerm[x] /\ votedFor'[x] = votedFor[x]
             /\ logs'[x] = logs[x]
    PROVE  /\ DurableState'
           /\ disk' \in [Server -> [term : Nat, votedFor : Server \cup {Nil},
                                    logs : Seq(Entry)]]
<1>1. disk \in [Server -> [term : Nat, votedFor : Server \cup {Nil},
                           logs : Seq(Entry)]]
  BY DEF TypeOK
<1>2. disk'[s] = [term |-> currentTerm'[s], votedFor |-> votedFor'[s],
                  logs |-> logs'[s]]
  BY <1>1 DEF Persist
<1>3. \A x \in Server \ {s} : disk'[x] = disk[x]
  BY <1>1 DEF Persist
<1>4. DurableState'
  BY <1>2, <1>3 DEF DurableState
<1>5. disk' \in [Server -> [term : Nat, votedFor : Server \cup {Nil},
                            logs : Seq(Entry)]]
  BY <1>1, <1>2 DEF Persist
<1> QED BY <1>4, <1>5

\* No batch thread starts to build a call, and the ones that do keep theirs.
LEMMA HoldsKept ==
    ASSUME SenderHoldsBatch,
           \A x \in Server : \/ sender'[x] = sender[x]
                             \/ sender'[x].pc \notin {"term", "prev", "commit"}
    PROVE  SenderHoldsBatch'
  BY DEF SenderHoldsBatch

\* Commit indices and what is applied stay, and no log gets shorter.
LEMMA CommitKept ==
    ASSUME TypeOK, CommitWithinLog, LogsGrow,
           UNCHANGED <<commitIndex, lastApplied, applied>>
    PROVE  CommitWithinLog'
<1> SUFFICES ASSUME NEW x \in Server
             PROVE  /\ Len(applied[x]) = lastApplied[x]
                    /\ lastApplied[x] <= commitIndex[x]
                    /\ commitIndex[x] <= Len(logs'[x])
  BY DEF CommitWithinLog
<1>1. Len(logs[x]) \in Nat /\ Len(logs'[x]) \in Nat
      /\ Len(logs'[x]) >= Len(logs[x]) /\ commitIndex[x] \in Nat
  BY DEF LogsGrow, TypeOK
<1> QED BY <1>1 DEF CommitWithinLog

-----------------------------------------------------------------------------
(* The steps of the batch thread keep IndexInv *)

\* A step of the batch thread changes its own state, takes from the buffers
\* and may send a call.
LEMMA BatchFrame ==
    ASSUME IndexInv, sender' \in [Server -> Sender],
           pending' \in [Server -> [Server -> Seq(WireEntry)]],
           appReq' \subseteq AppReq, CallsFitLog', SenderHoldsBatch',
           \A x, p \in Server :
             /\ pending'[x][p] \in {<<>>, pending[x][p]}
             /\ sender'[x].toSend[p] \in
                    {<<>>, pending[x][p], sender[x].toSend[p]},
           UNCHANGED <<nodeVars, indexVars, disk, batchRunning, voteVars,
                       appRep, histVars, restarts>>
    PROVE  IndexInv'
<1>1. TypeOK'
  BY DEF IndexInv, TypeOK, nodeVars, indexVars, voteVars, histVars
<1>2. LogsGrow /\ UNCHANGED logs
  BY SameLogsGrow DEF IndexInv, nodeVars
<1>3. BatchesIncrease'
  BY <1>2, BatchesMove DEF IndexInv
<1>4. DurableState' /\ MatchWithinLog'
  BY DEF IndexInv, DurableState, MatchWithinLog, nodeVars, indexVars
<1>5. AnswersFitLog'
  BY <1>2, FewerAnswers DEF IndexInv
<1>6. CommitWithinLog'
  BY <1>2, CommitKept DEF IndexInv, indexVars
<1> QED BY <1>1, <1>3, <1>4, <1>5, <1>6 DEF IndexInv

\* The same for a step that sends nothing.
LEMMA QuietBatchFrame ==
    ASSUME IndexInv, NEW s \in Server, NEW q \in Sender,
           sender' = [sender EXCEPT ![s] = q],
           q.pc \in {"term", "prev", "commit"} =>
             q.peer \in Server /\ q.toSend[q.peer] # <<>>,
           pending' \in [Server -> [Server -> Seq(WireEntry)]],
           \A x \in Server \ {s} : pending'[x] = pending[x],
           \A p \in Server :
             /\ pending'[s][p] \in {<<>>, pending[s][p]}
             /\ q.toSend[p] \in {<<>>, pending[s][p], sender[s].toSend[p]},
           UNCHANGED <<nodeVars, indexVars, disk, batchRunning, voteVars,
                       appVars, histVars, restarts>>
    PROVE  IndexInv'
<1>1. sender \in [Server -> Sender] /\ appReq \subseteq AppReq
  BY DEF IndexInv, TypeOK
<1>2. sender' \in [Server -> Sender] /\ sender'[s] = q
      /\ \A x \in Server \ {s} : sender'[x] = sender[x]
  BY <1>1
<1>3. \A x, p \in Server :
        /\ pending'[x][p] \in {<<>>, pending[x][p]}
        /\ sender'[x].toSend[p] \in {<<>>, pending[x][p], sender[x].toSend[p]}
  BY <1>2
<1>4. UNCHANGED appReq /\ UNCHANGED appRep /\ UNCHANGED logs
  BY DEF appVars, nodeVars
<1>5. CallsFitLog' /\ appReq' \subseteq AppReq
  BY <1>1, <1>4, FewerCalls, SameLogsGrow DEF IndexInv
<1>6. SenderHoldsBatch'
  <2>1. SenderHoldsBatch
    BY DEF IndexInv
  <2> QED BY <1>2, <2>1 DEF SenderHoldsBatch
<1> QED BY <1>2, <1>3, <1>4, <1>5, <1>6, BatchFrame

\* The idle batch thread is a batch thread.
LEMMA NoSenderType == NoSender \in Sender /\ NoSender.pc = "none"
                      /\ \A p \in Server : NoSender.toSend[p] = <<>>
<1>1. NoEntries \in [Server -> Seq(WireEntry)]
  BY DEF NoEntries
<1> QED BY <1>1 DEF NoSender, Sender, SenderPc, NoEntries

\* A batch thread that moves on, or takes another batch, is a batch thread.
LEMMA SenderMoves ==
    ASSUME NEW q \in Sender, NEW pc \in SenderPc,
           NEW batch \in [Server -> Seq(WireEntry)]
    PROVE  /\ [q EXCEPT !.pc = pc] \in Sender
           /\ [q EXCEPT !.pc = pc].pc = pc
           /\ [q EXCEPT !.pc = pc].toSend = q.toSend
           /\ [q EXCEPT !.pc = pc, !.toSend = batch] \in Sender
           /\ [q EXCEPT !.pc = pc, !.toSend = batch].pc = pc
           /\ [q EXCEPT !.pc = pc, !.toSend = batch].toSend = batch
<1> DEFINE Batches == [Server -> Seq(WireEntry)]
           Peers   == Server \cup {Nil}
<1>1. Sender = [pc : SenderPc, toSend : Batches, peer : Peers, term : Nat, prevTerm : Int]
  BY DEF Sender
<1>2. batch \in Batches
  OBVIOUS
<1> HIDE DEF Batches, Peers
<1> QED BY <1>1, <1>2

\* The head of batchSenderLoop keeps the index invariant.
LEMMA BatchCheckLeaderStep ==
    ASSUME IndexInv, NEW s \in Server, BatchCheckLeader(s)
    PROVE  IndexInv'
<1> DEFINE q == IF status[s] = "Leader" THEN [sender[s] EXCEPT !.pc = "collect"]
                ELSE NoSender
<1>1. sender \in [Server -> Sender]
      /\ pending \in [Server -> [Server -> Seq(WireEntry)]]
  BY DEF IndexInv, TypeOK
<1>2. sender' = [sender EXCEPT ![s] = q]
  BY DEF BatchCheckLeader
<1>3. UNCHANGED <<nodeVars, indexVars, disk, batchRunning, voteVars, appVars,
                  histVars, restarts>> /\ UNCHANGED pending
  BY DEF BatchCheckLeader
<1>4. q \in Sender /\ q.pc \notin {"term", "prev", "commit"}
      /\ \A p \in Server :
            q.toSend[p] \in {<<>>, pending[s][p], sender[s].toSend[p]}
  <2>1. CASE status[s] = "Leader"
    BY <1>1, <2>1 DEF Sender, SenderPc
  <2>2. CASE status[s] # "Leader"
    BY <2>2, NoSenderType
  <2> QED BY <2>1, <2>2
<1> HIDE DEF q
<1> QED BY <1>1, <1>2, <1>3, <1>4, QuietBatchFrame

\* Collecting the buffers into a batch keeps the index invariant.
LEMMA BatchCollectStep ==
    ASSUME IndexInv, NEW s \in Server, NEW flush \in SUBSET Server,
           BatchCollect(s, flush)
    PROVE  IndexInv'
<1> DEFINE q == [sender[s] EXCEPT
                    !.pc = IF flush = {} THEN "loop" ELSE "recheck",
                    !.toSend = [p \in Server |->
                        IF p \in flush THEN pending[s][p] ELSE <<>>]]
<1>1. sender \in [Server -> Sender]
      /\ pending \in [Server -> [Server -> Seq(WireEntry)]]
  BY DEF IndexInv, TypeOK
<1>2. sender' = [sender EXCEPT ![s] = q]
      /\ pending' = [pending EXCEPT ![s] =
            [p \in Server |-> IF p \in flush THEN <<>> ELSE pending[s][p]]]
  BY <1>1 DEF BatchCollect
<1>3. UNCHANGED <<nodeVars, indexVars, disk, batchRunning, voteVars, appVars,
                  histVars, restarts>>
  BY DEF BatchCollect
<1>4. [p \in Server |-> IF p \in flush THEN pending[s][p] ELSE <<>>]
        \in [Server -> Seq(WireEntry)]
  BY <1>1
<1>5. q \in Sender /\ q.pc \notin {"term", "prev", "commit"}
      /\ \A p \in Server :
            q.toSend[p] \in {<<>>, pending[s][p], sender[s].toSend[p]}
  <2> DEFINE batch == [p \in Server |-> IF p \in flush THEN pending[s][p] ELSE <<>>]
             pc    == IF flush = {} THEN "loop" ELSE "recheck"
  <2>1. sender[s] \in Sender /\ pc \in SenderPc /\ pc \notin {"term", "prev", "commit"}
    BY <1>1 DEF SenderPc
  <2>2. \A p \in Server : batch[p] \in {<<>>, pending[s][p]}
    OBVIOUS
  <2>3. batch \in [Server -> Seq(WireEntry)] /\ q = [sender[s] EXCEPT !.pc = pc, !.toSend = batch]
    BY <1>4
  <2> HIDE DEF batch, pc, q
  <2> DEFINE Batches == [Server -> Seq(WireEntry)]
             Peers   == Server \cup {Nil}
  <2>4. /\ sender[s] \in [pc : SenderPc, toSend : Batches, peer : Peers,
                           term : Nat, prevTerm : Int]
        /\ Sender = [pc : SenderPc, toSend : Batches, peer : Peers,
                     term : Nat, prevTerm : Int]
        /\ batch \in Batches
    BY <2>1, <2>3 DEF Sender
  <2> HIDE DEF Batches, Peers
  <2>5. q \in Sender /\ q.pc = pc /\ q.toSend = batch
    BY <2>1, <2>3, <2>4
  <2> QED BY <2>1, <2>2, <2>5
<1>6. /\ pending' \in [Server -> [Server -> Seq(WireEntry)]]
      /\ \A x \in Server \ {s} : pending'[x] = pending[x]
      /\ \A p \in Server : pending'[s][p] \in {<<>>, pending[s][p]}
  BY <1>1, <1>2
<1> HIDE DEF q
<1> QED BY <1>2, <1>3, <1>5, <1>6, QuietBatchFrame

\* After a peer, batchSenderLoop goes on with another one or starts again.
LEMMA AfterPeerType ==
    ASSUME NEW s, NEW p PROVE AfterPeer(s, p) \in {"loop", "recheck"}
  BY DEF AfterPeer

\* The second leadership check keeps the index invariant.
LEMMA BatchRecheckStep ==
    ASSUME IndexInv, NEW s \in Server, NEW p \in Server, BatchRecheck(s, p)
    PROVE  IndexInv'
<1> DEFINE q == IF status[s] = "Leader"
                THEN [sender[s] EXCEPT !.pc = "term", !.peer = p]
                ELSE [sender[s] EXCEPT !.pc = AfterPeer(s, p),
                          !.toSend = [sender[s].toSend EXCEPT ![p] = <<>>]]
<1>1. sender \in [Server -> Sender]
      /\ pending \in [Server -> [Server -> Seq(WireEntry)]]
  BY DEF IndexInv, TypeOK
<1>2. sender[s].toSend[p] # <<>> /\ sender' = [sender EXCEPT ![s] = q]
  BY Zenon DEF BatchRecheck
<1>3. UNCHANGED <<nodeVars, indexVars, disk, batchRunning, voteVars, appVars,
                  histVars, restarts>> /\ UNCHANGED pending
  BY DEF BatchRecheck
<1>4. sender[s] \in Sender /\ sender[s].toSend \in [Server -> Seq(WireEntry)]
  BY <1>1 DEF Sender
<1>5. /\ q \in Sender
      /\ q.pc \in {"term", "prev", "commit"} =>
            q.peer \in Server /\ q.toSend[q.peer] # <<>>
      /\ \A r \in Server :
            q.toSend[r] \in {<<>>, pending[s][r], sender[s].toSend[r]}
  <2>1. CASE status[s] = "Leader"
    BY <1>2, <1>4, <2>1 DEF Sender, SenderPc
  <2>2. CASE status[s] # "Leader"
    <3>1. [sender[s].toSend EXCEPT ![p] = <<>>] \in [Server -> Seq(WireEntry)]
      BY <1>4
    <3> QED BY <1>4, <2>2, <3>1, AfterPeerType DEF Sender, SenderPc
  <2> QED BY <2>1, <2>2
<1> HIDE DEF q
<1> QED BY <1>1, <1>2, <1>3, <1>5, QuietBatchFrame

\* The unlocked read of m_currentTerm keeps the index invariant.
LEMMA BatchReadTermStep ==
    ASSUME IndexInv, NEW s \in Server, BatchReadTerm(s)
    PROVE  IndexInv'
<1> DEFINE q == [sender[s] EXCEPT !.pc = "prev", !.term = currentTerm[s]]
<1>1. sender \in [Server -> Sender] /\ currentTerm[s] \in Nat
      /\ pending \in [Server -> [Server -> Seq(WireEntry)]]
  BY DEF IndexInv, TypeOK
<1>2. sender' = [sender EXCEPT ![s] = q] /\ sender[s].pc = "term"
  BY DEF BatchReadTerm
<1>3. UNCHANGED <<nodeVars, indexVars, disk, batchRunning, voteVars, appVars,
                  histVars, restarts>> /\ UNCHANGED pending
  BY DEF BatchReadTerm
<1>4. q \in Sender /\ q.peer = sender[s].peer /\ q.toSend = sender[s].toSend
  BY <1>1 DEF Sender, SenderPc
<1>5. sender[s].peer \in Server /\ sender[s].toSend[sender[s].peer] # <<>>
  BY <1>2 DEF IndexInv, SenderHoldsBatch
<1> HIDE DEF q
<1> QED BY <1>1, <1>2, <1>3, <1>4, <1>5, QuietBatchFrame

\* The batch a call is built from, and its first entry.
LEMMA FrontEntry ==
    ASSUME IndexInv, NEW s \in Server, sender[s].pc \in {"term", "prev", "commit"}
    PROVE  /\ sender[s].peer \in Server
           /\ sender[s].toSend[sender[s].peer] \in Seq(WireEntry) \ {<<>>}
           /\ sender[s].toSend[sender[s].peer][1] \in WireEntry
           /\ sender[s].toSend[sender[s].peer][1].index - 1 \in Nat
           /\ Increasing(s, sender[s].toSend[sender[s].peer])
<1> DEFINE es == sender[s].toSend[sender[s].peer]
<1>1. sender[s] \in Sender
  BY DEF IndexInv, TypeOK
<1>2. sender[s].peer \in Server /\ es # <<>>
  BY DEF IndexInv, SenderHoldsBatch
<1>3. es \in Seq(WireEntry)
  BY <1>1, <1>2 DEF Sender
<1>4. 1 \in DOMAIN es
  BY <1>2, <1>3
<1>5. Increasing(s, es)
  BY <1>2 DEF IndexInv, BatchesIncrease
<1>6. logs[s] \in Seq(Entry) /\ Len(logs[s]) \in Nat
  BY DEF IndexInv, TypeOK
<1>7. es[1].index \in 1..Len(logs[s])
  BY <1>4, <1>5 DEF Increasing
<1> HIDE DEF es
<1>8. es[1].index - 1 \in Nat
  BY <1>6, <1>7
<1>9. es[1] \in WireEntry
  BY <1>3, <1>4
<1> QED BY <1>2, <1>3, <1>5, <1>8, <1>9 DEF es

\* The unlocked read of the previous term keeps the index invariant.
LEMMA BatchReadPrevStep ==
    ASSUME IndexInv, NEW s \in Server, BatchReadPrev(s)
    PROVE  IndexInv'
<1> DEFINE front == sender[s].toSend[sender[s].peer][1]
           q == [sender[s] EXCEPT !.pc = "commit",
                                  !.prevTerm = LogTerm(logs[s], front.index - 1)]
<1>1. sender \in [Server -> Sender] /\ logs[s] \in Seq(Entry)
      /\ pending \in [Server -> [Server -> Seq(WireEntry)]]
  BY DEF IndexInv, TypeOK
<1>2. sender' = [sender EXCEPT ![s] = q] /\ sender[s].pc = "prev"
  BY DEF BatchReadPrev
<1>3. UNCHANGED <<nodeVars, indexVars, disk, batchRunning, voteVars, appVars,
                  histVars, restarts>> /\ UNCHANGED pending
  BY DEF BatchReadPrev
<1>4. front.index - 1 \in Int
  BY <1>2, FrontEntry
<1>5. LogTerm(logs[s], front.index - 1) \in Int
  BY <1>1, <1>4, LogTermType
<1>6. q \in Sender /\ q.peer = sender[s].peer /\ q.toSend = sender[s].toSend
  BY <1>1, <1>5 DEF Sender, SenderPc
<1>7. sender[s].peer \in Server /\ sender[s].toSend[sender[s].peer] # <<>>
  BY <1>2, FrontEntry
<1> HIDE DEF q
<1> QED BY <1>1, <1>2, <1>3, <1>6, <1>7, QuietBatchFrame

\* Handing a batch to an RPC thread keeps the index invariant.
LEMMA BatchSendStep ==
    ASSUME IndexInv, NEW s \in Server, BatchSend(s)
    PROVE  IndexInv'
<1> DEFINE p == sender[s].peer
           es == sender[s].toSend[p]
           call == [src |-> s, dst |-> p, term |-> sender[s].term,
                    prevIndex |-> es[1].index - 1,
                    prevTerm |-> sender[s].prevTerm, entries |-> es,
                    commit |-> commitIndex[s], waiting |-> TRUE]
           q == [pc |-> AfterPeer(s, p), peer |-> Nil, term |-> 0,
                 prevTerm |-> 0, toSend |-> [sender[s].toSend EXCEPT ![p] = <<>>]]
<1>1. sender \in [Server -> Sender] /\ appReq \subseteq AppReq
      /\ commitIndex[s] \in Nat
      /\ pending \in [Server -> [Server -> Seq(WireEntry)]]
  BY DEF IndexInv, TypeOK
<1>2. sender' = [sender EXCEPT ![s] = q] /\ appReq' = appReq \cup {call}
      /\ sender[s].pc = "commit"
  BY <1>1 DEF BatchSend
<1>3. UNCHANGED <<nodeVars, indexVars, disk, batchRunning, voteVars, appRep,
                  histVars, restarts>> /\ UNCHANGED pending
  BY DEF BatchSend
<1>4. p \in Server /\ es \in Seq(WireEntry) /\ es # <<>>
      /\ es[1].index - 1 \in Nat /\ Increasing(s, es)
  BY <1>2, FrontEntry
<1>5. sender[s] \in Sender
  BY <1>1
<1>6. call \in AppReq
  BY <1>1, <1>4, <1>5 DEF AppReq, Sender
<1>7. q \in Sender /\ q.pc \in {"loop", "recheck"}
      /\ \A r \in Server : q.toSend[r] \in {<<>>, sender[s].toSend[r]}
  <2>1. sender[s].toSend \in [Server -> Seq(WireEntry)]
    BY <1>5 DEF Sender
  <2>2. [sender[s].toSend EXCEPT ![p] = <<>>] \in [Server -> Seq(WireEntry)]
    <3> HIDE DEF p
    <3> QED BY <1>4, <2>1
  <2> QED BY <1>4, <2>1, <2>2, AfterPeerType DEF Sender, SenderPc
<1>8. LogsGrow /\ UNCHANGED logs
  BY <1>3, SameLogsGrow DEF nodeVars, IndexInv
<1>9. CallsFitLog'
  <2> SUFFICES ASSUME NEW m \in appReq'
               PROVE  /\ Increasing(m.src, m.entries)'
                      /\ IF m.entries = <<>> THEN m.prevIndex <= Len(logs'[m.src])
                         ELSE m.prevIndex = m.entries[1].index - 1
    BY DEF CallsFitLog
  <2>1. CASE m \in appReq
    BY <2>1, <1>8, CallsKept DEF IndexInv
  <2>2. CASE m = call
    <3>1. m.src = s /\ m.entries = es /\ m.prevIndex = es[1].index - 1
      BY <2>2
    <3>2. Increasing(s, m.entries)'
      <4>1. Increasing(s, m.entries) /\ m.entries \in Seq(WireEntry)
        BY <1>4, <3>1
      <4> QED BY <4>1, <1>8, IncreasingKept
    <3>3. Increasing(m.src, m.entries)'
      BY <3>1, <3>2 DEF Increasing
    <3> QED BY <1>4, <3>1, <3>3
  <2> QED BY <1>2, <2>1, <2>2
<1>10. sender' \in [Server -> Sender] /\ sender'[s] = q
       /\ \A x \in Server \ {s} : sender'[x] = sender[x]
  BY <1>1, <1>2, <1>7
<1> HIDE DEF q, call
<1>11. SenderHoldsBatch'
  BY <1>7, <1>10, HoldsKept DEF IndexInv
<1>12. \A x, r \in Server :
         /\ pending'[x][r] \in {<<>>, pending[x][r]}
         /\ sender'[x].toSend[r] \in {<<>>, pending[x][r], sender[x].toSend[r]}
  BY <1>3, <1>7, <1>10
<1>13. appReq' \subseteq AppReq
  BY <1>1, <1>2, <1>6
<1> QED BY <1>1, <1>3, <1>9, <1>10, <1>11, <1>12, <1>13, BatchFrame

-----------------------------------------------------------------------------
(* The steps of an election keep IndexInv *)

\* An election leaves the logs, the buffers and the AppendEntries calls alone.
LEMMA ElectionFrame ==
    ASSUME IndexInv,
           currentTerm' \in [Server -> Nat],
           votedFor' \in [Server -> Server \cup {Nil}],
           status' \in [Server -> Status],
           nextIndex' \in [Server -> [Server -> Nat]],
           matchIndex' \in [Server -> [Server -> Nat]],
           disk' \in [Server -> [term : Nat, votedFor : Server \cup {Nil},
                                 logs : Seq(Entry)]],
           elect' \in [Server -> Election],
           batchRunning' \in [Server -> BOOLEAN],
           sender' \in [Server -> Sender],
           voteReq' \subseteq VoteReq, voteRep' \subseteq VoteRep,
           votes' \subseteq [voter : Server, term : Nat, cand : Server],
           won' \subseteq [node : Server, term : Nat],
           DurableState', MatchWithinLog', SenderHoldsBatch',
           \A x, p \in Server : sender'[x].toSend[p] = sender[x].toSend[p],
           UNCHANGED <<logs, commitIndex, lastApplied, applied, pending, appVars,
                       restarts>>
    PROVE  IndexInv'
<1>1. TypeOK'
  BY DEF IndexInv, TypeOK, appVars
<1>2. LogsGrow
  BY SameLogsGrow DEF IndexInv
<1>3. BatchesIncrease'
  BY <1>2, BatchesMove DEF IndexInv
<1>4. appReq' \subseteq appReq /\ appRep' \subseteq appRep
  BY DEF appVars
<1>5. AnswersFitLog' /\ CallsFitLog'
  BY <1>2, <1>4, FewerAnswers, FewerCalls DEF IndexInv
<1>6. CommitWithinLog'
  BY <1>2, CommitKept DEF IndexInv
<1> QED BY <1>1, <1>3, <1>5, <1>6 DEF IndexInv

\* The same for a step that leaves the batch thread and the indices alone.
LEMMA QuietElectionFrame ==
    ASSUME IndexInv,
           currentTerm' \in [Server -> Nat],
           votedFor' \in [Server -> Server \cup {Nil}],
           status' \in [Server -> Status],
           \A x \in Server : status'[x] = "Leader" => status[x] = "Leader",
           disk' \in [Server -> [term : Nat, votedFor : Server \cup {Nil},
                                 logs : Seq(Entry)]],
           elect' \in [Server -> Election],
           voteReq' \subseteq VoteReq, voteRep' \subseteq VoteRep,
           votes' \subseteq [voter : Server, term : Nat, cand : Server],
           DurableState', UNCHANGED logs,
           UNCHANGED <<indexVars, batchVars, appVars, won, restarts>>
    PROVE  IndexInv'
<1>1. UNCHANGED <<logs, commitIndex, lastApplied, applied, pending, appVars,
                  restarts>>
      /\ UNCHANGED <<nextIndex, matchIndex, batchRunning, sender, won>>
  BY DEF indexVars, batchVars
<1>2. nextIndex' \in [Server -> [Server -> Nat]]
      /\ matchIndex' \in [Server -> [Server -> Nat]]
      /\ batchRunning' \in [Server -> BOOLEAN]
      /\ sender' \in [Server -> Sender]
      /\ won' \subseteq [node : Server, term : Nat]
  BY <1>1 DEF IndexInv, TypeOK
<1>3. LogsGrow
  BY SameLogsGrow DEF IndexInv
<1>4. MatchWithinLog'
  BY <1>1, <1>3, MatchKept DEF IndexInv
<1>5. SenderHoldsBatch'
  BY <1>1, HoldsKept DEF IndexInv
<1> QED BY <1>1, <1>2, <1>4, <1>5, ElectionFrame

\* The types of an election that goes on with its next peer.
LEMMA AskNextType ==
    ASSUME TypeOK, NEW s \in Server, NEW e \in Election, NEW calls,
           calls \subseteq VoteReq, AskNext(s, e, calls)
    PROVE  elect' \in [Server -> Election] /\ voteReq' \subseteq VoteReq
<1>1. elect \in [Server -> Election]
  BY DEF TypeOK
<1>2. CASE /\ elect' = [elect EXCEPT ![s] = NoElection]
           /\ voteReq' = calls
  <2>1. NoElection \in Election
    BY DEF NoElection, Election
  <2> QED BY <1>1, <1>2, <2>1
<1>3. CASE \E p \in e.todo :
              /\ elect' = [elect EXCEPT ![s] = [e EXCEPT !.peer = p]]
              /\ voteReq' = calls \cup
                    {[src |-> s, dst |-> p, term |-> e.term,
                      lastIndex |-> e.lastIndex, lastTerm |-> e.lastTerm]}
  <2>1. PICK p \in e.todo :
              /\ elect' = [elect EXCEPT ![s] = [e EXCEPT !.peer = p]]
              /\ voteReq' = calls \cup
                    {[src |-> s, dst |-> p, term |-> e.term,
                      lastIndex |-> e.lastIndex, lastTerm |-> e.lastTerm]}
    BY <1>3
  <2>2. p \in Server
    BY DEF Election
  <2>3. [e EXCEPT !.peer = p] \in Election
    BY <2>2 DEF Election
  <2>4. [src |-> s, dst |-> p, term |-> e.term, lastIndex |-> e.lastIndex,
         lastTerm |-> e.lastTerm] \in VoteReq
    BY <2>2 DEF Election, VoteReq
  <2> QED BY <1>1, <2>1, <2>3, <2>4
<1> QED BY <1>2, <1>3 DEF AskNext

\* getLastLogIndex and getLastLogTerm are natural numbers.
LEMMA LastLogType ==
    ASSUME TypeOK, NEW s \in Server
    PROVE  LastLogIndex(s) \in Nat /\ LastLogTerm(s) \in Nat
           /\ LastLogIndex(s) = Len(logs[s])
<1>1. logs[s] \in Seq(Entry)
  BY DEF TypeOK
<1>2. CASE logs[s] # <<>>
  <2>1. logs[s][Len(logs[s])] \in Entry
    BY <1>1, <1>2
  <2> QED BY <1>1, <1>2, <2>1 DEF LastLogIndex, LastLogTerm, Entry
<1> QED BY <1>1, <1>2 DEF LastLogIndex, LastLogTerm

\* The start of an election keeps the index invariant.
LEMMA DoElectionStep ==
    ASSUME IndexInv, NEW s \in Server, DoElection(s)
    PROVE  IndexInv'
<1> DEFINE e == [term |-> currentTerm[s] + 1, lastIndex |-> LastLogIndex(s),
                 lastTerm |-> LastLogTerm(s), todo |-> Server \ {s},
                 peer |-> Nil, voteNum |-> 1]
<1>1. TypeOK /\ DurableState
  BY DEF IndexInv
<1>2. /\ currentTerm \in [Server -> Nat] /\ logs \in [Server -> Seq(Entry)]
      /\ votedFor \in [Server -> Server \cup {Nil}]
      /\ status \in [Server -> Status] /\ voteReq \subseteq VoteReq
      /\ voteRep \subseteq VoteRep
      /\ votes \subseteq [voter : Server, term : Nat, cand : Server]
  BY <1>1 DEF TypeOK
<1>3. /\ currentTerm' = [currentTerm EXCEPT ![s] = currentTerm[s] + 1]
      /\ votedFor' = [votedFor EXCEPT ![s] = s]
      /\ status' = [status EXCEPT ![s] = "Candidate"]
      /\ votes' = votes \cup
            {[voter |-> s, term |-> currentTerm[s] + 1, cand |-> s]}
      /\ UNCHANGED logs /\ Persist(s) /\ AskNext(s, e, voteReq)
      /\ UNCHANGED voteRep
      /\ UNCHANGED <<indexVars, batchVars, appVars, won, restarts>>
  BY DEF DoElection
<1>4. e \in Election
  BY <1>1, <1>2, LastLogType DEF Election
<1>5. elect' \in [Server -> Election] /\ voteReq' \subseteq VoteReq
  <2> HIDE DEF e
  <2> QED BY <1>1, <1>2, <1>3, <1>4, AskNextType
<1>6. /\ currentTerm' \in [Server -> Nat]
      /\ votedFor' \in [Server -> Server \cup {Nil}]
      /\ status' \in [Server -> Status]
      /\ \A x \in Server : status'[x] = "Leader" => status[x] = "Leader"
      /\ \A x \in Server \ {s} :
            currentTerm'[x] = currentTerm[x] /\ votedFor'[x] = votedFor[x]
  BY <1>2, <1>3 DEF Status
<1>7. logs' \in [Server -> Seq(Entry)] /\ \A x \in Server : logs'[x] = logs[x]
  BY <1>2, <1>3
<1>8. /\ DurableState'
      /\ disk' \in [Server -> [term : Nat, votedFor : Server \cup {Nil},
                               logs : Seq(Entry)]]
  BY <1>1, <1>3, <1>6, <1>7, PersistKeeps
<1>9. votes' \subseteq [voter : Server, term : Nat, cand : Server]
  BY <1>2, <1>3
<1> QED BY <1>2, <1>3, <1>5, <1>6, <1>8, <1>9, QuietElectionFrame

\* RequestVote1 keeps the index invariant.
LEMMA HandleRequestVoteStep ==
    ASSUME IndexInv, NEW m \in voteReq, HandleRequestVote(m)
    PROVE  IndexInv'
<1> DEFINE s == m.dst
           newer == m.term > currentTerm[s]
           voted == IF newer THEN Nil ELSE votedFor[s]
           grant == /\ m.term >= currentTerm[s]
                    /\ UPtodata(s, m.lastIndex, m.lastTerm)
                    /\ MayVote(voted, m.src)
<1>1. TypeOK /\ DurableState
  BY DEF IndexInv
<1>2. /\ currentTerm \in [Server -> Nat] /\ logs \in [Server -> Seq(Entry)]
      /\ votedFor \in [Server -> Server \cup {Nil}]
      /\ status \in [Server -> Status] /\ voteReq \subseteq VoteReq
      /\ voteRep \subseteq VoteRep /\ elect \in [Server -> Election]
      /\ votes \subseteq [voter : Server, term : Nat, cand : Server]
  BY <1>1 DEF TypeOK
<1>3. s \in Server /\ m.src \in Server /\ m.term \in Nat
  BY <1>2 DEF VoteReq
<1>4. /\ status' = IF newer THEN [status EXCEPT ![s] = "Follower"] ELSE status
      /\ currentTerm' = [currentTerm EXCEPT ![s] = Larger(m.term, currentTerm[s])]
      /\ votedFor' = [votedFor EXCEPT ![s] = IF grant THEN m.src ELSE voted]
      /\ UNCHANGED logs /\ Persist(s)
      /\ votes' = IF grant
            THEN votes \cup {[voter |-> s, term |-> m.term, cand |-> m.src]}
            ELSE votes
      /\ voteReq' = voteReq \ {m}
      /\ voteRep' = IF Waits(m)
            THEN voteRep \cup
                 {[src |-> m.src, dst |-> s, reqTerm |-> m.term,
                   term |-> Larger(m.term, currentTerm[s]), granted |-> grant]}
            ELSE voteRep
      /\ UNCHANGED elect
      /\ UNCHANGED <<indexVars, batchVars, appVars, won, restarts>>
  BY DEF HandleRequestVote
<1>5. grant \in BOOLEAN /\ Larger(m.term, currentTerm[s]) \in Nat
  BY <1>2, <1>3 DEF Larger, MayVote
<1>6. voted \in Server \cup {Nil}
  BY <1>2, <1>3
<1> HIDE DEF s, newer, voted, grant
<1>7. /\ currentTerm' \in [Server -> Nat]
      /\ votedFor' \in [Server -> Server \cup {Nil}]
      /\ \A x \in Server \ {s} :
            currentTerm'[x] = currentTerm[x] /\ votedFor'[x] = votedFor[x]
  BY <1>2, <1>3, <1>4, <1>5, <1>6
<1>8. /\ status' \in [Server -> Status]
      /\ \A x \in Server : status'[x] = "Leader" => status[x] = "Leader"
  BY <1>2, <1>3, <1>4 DEF Status
<1>9. logs' \in [Server -> Seq(Entry)] /\ \A x \in Server : logs'[x] = logs[x]
  BY <1>2, <1>4
<1>10. /\ DurableState'
       /\ disk' \in [Server -> [term : Nat, votedFor : Server \cup {Nil},
                                logs : Seq(Entry)]]
  BY <1>1, <1>3, <1>4, <1>7, <1>9, PersistKeeps
<1>11. votes' \subseteq [voter : Server, term : Nat, cand : Server]
  BY <1>2, <1>3, <1>4
<1>12. [src |-> m.src, dst |-> s, reqTerm |-> m.term,
        term |-> Larger(m.term, currentTerm[s]), granted |-> grant] \in VoteRep
  BY <1>3, <1>5 DEF VoteRep
<1>13. voteRep' \subseteq VoteRep /\ voteReq' \subseteq VoteReq
       /\ elect' \in [Server -> Election]
  BY <1>2, <1>4, <1>12
<1> QED BY <1>4, <1>7, <1>8, <1>10, <1>11, <1>13, QuietElectionFrame

\* A failed RequestVote call keeps the index invariant.
LEMMA VoteRpcFailStep ==
    ASSUME IndexInv, NEW s \in Server, VoteRpcFail(s)
    PROVE  IndexInv'
<1> DEFINE e == [elect[s] EXCEPT !.todo = @ \ {elect[s].peer}]
<1>1. TypeOK /\ DurableState
  BY DEF IndexInv
<1>2. PICK calls \in SUBSET voteReq : AskNext(s, e, calls)
  BY DEF VoteRpcFail
<1>3. /\ elect[s] \in Election /\ voteReq \subseteq VoteReq
      /\ voteRep \subseteq VoteRep
  BY <1>1 DEF TypeOK
<1>4. e \in Election
  BY <1>3 DEF Election
<1>5. elect' \in [Server -> Election] /\ voteReq' \subseteq VoteReq
  <2> HIDE DEF e
  <2> QED BY <1>1, <1>2, <1>3, <1>4, AskNextType
<1>6. UNCHANGED <<nodeVars, indexVars, disk, batchVars, appVars, histVars,
                  restarts>>
      /\ voteRep' = {m \in voteRep : m.src # s}
  BY DEF VoteRpcFail
<1>7. UNCHANGED <<currentTerm, votedFor, logs, status, votes, won, disk>>
  BY <1>6 DEF nodeVars, histVars
<1>8. /\ currentTerm' \in [Server -> Nat]
      /\ votedFor' \in [Server -> Server \cup {Nil}]
      /\ status' \in [Server -> Status]
      /\ votes' \subseteq [voter : Server, term : Nat, cand : Server]
      /\ disk' \in [Server -> [term : Nat, votedFor : Server \cup {Nil},
                               logs : Seq(Entry)]]
  BY <1>1, <1>7 DEF TypeOK
<1>9. DurableState'
  BY <1>1, <1>7 DEF DurableState
<1>10. voteRep' \subseteq VoteRep
  BY <1>3, <1>6
<1> QED BY <1>5, <1>6, <1>7, <1>8, <1>9, <1>10, QuietElectionFrame

\* Stepping down on a higher term keeps types and durability.
LEMMA StepDownType ==
    ASSUME TypeOK, DurableState, NEW s \in Server, NEW t \in Nat, StepDown(s, t)
    PROVE  /\ currentTerm' \in [Server -> Nat]
           /\ votedFor' \in [Server -> Server \cup {Nil}]
           /\ status' \in [Server -> Status]
           /\ \A x \in Server : status'[x] = "Leader" => status[x] = "Leader"
           /\ disk' \in [Server -> [term : Nat, votedFor : Server \cup {Nil},
                                    logs : Seq(Entry)]]
           /\ DurableState' /\ UNCHANGED logs
<1>1. /\ currentTerm \in [Server -> Nat] /\ logs \in [Server -> Seq(Entry)]
      /\ votedFor \in [Server -> Server \cup {Nil}]
      /\ status \in [Server -> Status]
  BY DEF TypeOK
<1>2. /\ currentTerm' \in [Server -> Nat]
      /\ votedFor' \in [Server -> Server \cup {Nil}]
      /\ status' \in [Server -> Status]
      /\ \A x \in Server : status'[x] = "Leader" => status[x] = "Leader"
      /\ \A x \in Server \ {s} :
            currentTerm'[x] = currentTerm[x] /\ votedFor'[x] = votedFor[x]
  BY <1>1 DEF StepDown, Status
<1>3. UNCHANGED logs /\ Persist(s) /\ logs' \in [Server -> Seq(Entry)]
      /\ \A x \in Server : logs'[x] = logs[x]
  BY <1>1 DEF StepDown
<1> QED BY <1>2, <1>3, PersistKeeps

\* A Leader starts with nextIndex and matchIndex inside its log.
LEMMA BecomeLeaderStep ==
    ASSUME IndexInv, NEW s \in Server, BecomeLeader(s),
           elect' \in [Server -> Election],
           voteReq' \subseteq VoteReq, voteRep' \subseteq VoteRep,
           UNCHANGED <<commitIndex, lastApplied, applied, pending, appVars,
                       votes, restarts>>
    PROVE  IndexInv'
<1> DEFINE last == LastLogIndex(s)
<1>1. TypeOK /\ DurableState /\ MatchWithinLog /\ SenderHoldsBatch
  BY DEF IndexInv
<1>2. /\ currentTerm \in [Server -> Nat] /\ logs \in [Server -> Seq(Entry)]
      /\ votedFor \in [Server -> Server \cup {Nil}]
      /\ status \in [Server -> Status] /\ sender \in [Server -> Sender]
      /\ nextIndex \in [Server -> [Server -> Nat]]
      /\ matchIndex \in [Server -> [Server -> Nat]]
      /\ batchRunning \in [Server -> BOOLEAN]
      /\ votes \subseteq [voter : Server, term : Nat, cand : Server]
      /\ won \subseteq [node : Server, term : Nat]
  BY <1>1 DEF TypeOK
<1>3. last \in Nat /\ last = Len(logs[s])
  BY <1>1, LastLogType
<1>4. /\ status' = [status EXCEPT ![s] = "Leader"]
      /\ nextIndex' = [nextIndex EXCEPT ![s] = [p \in Server |-> last + 1]]
      /\ matchIndex' = [matchIndex EXCEPT ![s] = [p \in Server |-> 0]]
      /\ UNCHANGED <<currentTerm, votedFor, logs>> /\ Persist(s)
      /\ batchRunning' = [batchRunning EXCEPT ![s] = TRUE]
      /\ sender' = IF batchRunning[s] THEN sender
                   ELSE [sender EXCEPT ![s] = [sender[s] EXCEPT !.pc = "loop"]]
      /\ won' = won \cup {[node |-> s, term |-> currentTerm[s]]}
  BY DEF BecomeLeader
<1> HIDE DEF last
<1>5. /\ currentTerm' \in [Server -> Nat] /\ logs' \in [Server -> Seq(Entry)]
      /\ votedFor' \in [Server -> Server \cup {Nil}]
      /\ status' \in [Server -> Status]
      /\ batchRunning' \in [Server -> BOOLEAN]
      /\ nextIndex' \in [Server -> [Server -> Nat]]
      /\ matchIndex' \in [Server -> [Server -> Nat]]
  BY <1>2, <1>3, <1>4 DEF Status
<1>6. /\ DurableState'
      /\ disk' \in [Server -> [term : Nat, votedFor : Server \cup {Nil},
                               logs : Seq(Entry)]]
  BY <1>1, <1>4, <1>5, PersistKeeps
<1>7. [sender[s] EXCEPT !.pc = "loop"] \in Sender
  <2>1. sender[s] \in Sender /\ "loop" \in SenderPc /\ sender[s].toSend \in [Server -> Seq(WireEntry)]
    BY <1>2 DEF Sender, SenderPc
  <2> QED BY <2>1, SenderMoves, ZenonT(60)
<1>8. /\ sender' \in [Server -> Sender]
      /\ \A x, p \in Server : sender'[x].toSend[p] = sender[x].toSend[p]
      /\ \A x \in Server : sender'[x] = sender[x] \/ sender'[x].pc = "loop"
  <2>1. CASE batchRunning[s]
    BY <1>2, <1>4, <2>1
  <2>2. CASE ~batchRunning[s]
    <3>1. sender'[s].toSend = sender[s].toSend /\ sender'[s].pc = "loop"
      BY <1>2, <1>4, <2>2 DEF Sender
    <3>2. \A x \in Server \ {s} : sender'[x] = sender[x]
      BY <1>2, <1>4, <2>2
    <3>3. sender' \in [Server -> Sender]
      BY <1>2, <1>4, <1>7, <2>2
    <3> QED BY <3>1, <3>2, <3>3
  <2> QED BY <2>1, <2>2
<1>9. SenderHoldsBatch'
  BY <1>1, <1>8, HoldsKept
<1>10. MatchWithinLog'
  <2> SUFFICES ASSUME NEW x \in Server, NEW p \in Server, status'[x] = "Leader"
               PROVE  /\ matchIndex'[x][p] <= Len(logs[x])
                      /\ nextIndex'[x][p] \in 1..(Len(logs[x]) + 1)
    BY <1>4 DEF MatchWithinLog
  <2>1. CASE x = s
    BY <1>2, <1>3, <1>4, <2>1
  <2>2. CASE x # s
    BY <1>1, <1>2, <1>4, <2>2 DEF MatchWithinLog
  <2> QED BY <2>1, <2>2
<1>11. won' \subseteq [node : Server, term : Nat]
       /\ votes' \subseteq [voter : Server, term : Nat, cand : Server]
  BY <1>2, <1>4
<1> QED BY <1>4, <1>5, <1>6, <1>8, <1>9, <1>10, <1>11, ElectionFrame

\* An answer to sendRequestVote keeps the index invariant.
LEMMA ReceiveVoteReplyStep ==
    ASSUME IndexInv, NEW m \in voteRep, ReceiveVoteReply(m)
    PROVE  IndexInv'
<1> DEFINE s == m.src
           counted == m.term = currentTerm[s] /\ m.granted
           num == elect[s].voteNum + (IF counted THEN 1 ELSE 0)
           wins == counted /\ num >= Majority
           e == [elect[s] EXCEPT !.todo = @ \ {m.dst},
                                 !.voteNum = VotesAfter(wins, num)]
<1>1. TypeOK /\ DurableState
  BY DEF IndexInv
<1>2. /\ elect \in [Server -> Election] /\ voteReq \subseteq VoteReq
      /\ voteRep \subseteq VoteRep
  BY <1>1 DEF TypeOK
<1>3. s \in Server /\ m.term \in Nat
  BY <1>2 DEF VoteRep
<1>4. elect[s].voteNum \in Nat /\ elect[s] \in Election
  BY <1>2, <1>3 DEF Election
<1>5. num \in Nat
  BY <1>4
<1>6. e \in Election
  <2> HIDE DEF num, wins
  <2> QED BY <1>4, <1>5 DEF Election, VotesAfter
<1>7. AskNext(s, e, voteReq) /\ voteRep' = voteRep \ {m}
      /\ UNCHANGED <<commitIndex, lastApplied, applied, pending, appVars,
                     votes, restarts>>
  BY DEF ReceiveVoteReply
<1>8. elect' \in [Server -> Election] /\ voteReq' \subseteq VoteReq
      /\ voteRep' \subseteq VoteRep
  <2> HIDE DEF e
  <2> QED BY <1>1, <1>2, <1>3, <1>6, <1>7, AskNextType
<1>9. CASE BecomeLeader(s)
  <2> HIDE DEF s
  <2> QED BY <1>3, <1>7, <1>8, <1>9, BecomeLeaderStep
<1>10. votes' \subseteq [voter : Server, term : Nat, cand : Server]
  BY <1>1, <1>7 DEF TypeOK
<1>11. CASE /\ StepDown(s, m.term)
            /\ UNCHANGED <<nextIndex, matchIndex, batchRunning, sender, won>>
  <2>1. UNCHANGED <<indexVars, batchVars, appVars, won, restarts>>
    BY <1>7, <1>11 DEF indexVars, batchVars
  <2> HIDE DEF s
  <2> QED BY <1>1, <1>3, <1>8, <1>10, <1>11, <2>1, StepDownType,
             QuietElectionFrame
<1>12. CASE UNCHANGED <<nodeVars, disk, nextIndex, matchIndex, batchRunning,
                        sender, won>>
  <2>1. UNCHANGED <<indexVars, batchVars, appVars, won, restarts>>
    BY <1>7, <1>12 DEF indexVars, batchVars
  <2>2. UNCHANGED <<currentTerm, votedFor, logs, status, disk>>
    BY <1>12 DEF nodeVars
  <2>3. /\ currentTerm' \in [Server -> Nat]
        /\ votedFor' \in [Server -> Server \cup {Nil}]
        /\ status' \in [Server -> Status]
        /\ disk' \in [Server -> [term : Nat, votedFor : Server \cup {Nil},
                                 logs : Seq(Entry)]]
    BY <1>1, <2>2 DEF TypeOK
  <2>4. DurableState'
    BY <1>1, <2>2 DEF DurableState
  <2> QED BY <1>8, <1>10, <2>1, <2>2, <2>3, <2>4, QuietElectionFrame
<1> QED BY <1>9, <1>11, <1>12 DEF ReceiveVoteReply

-----------------------------------------------------------------------------
(* Client requests, the applier and a restart keep IndexInv *)

\* A batch that fits a log can be extended with the entry just appended.
LEMMA BufferAppended ==
    ASSUME NEW s \in Server, NEW es \in Seq(WireEntry), NEW e \in WireEntry,
           Increasing(s, es), Len(logs[s]) \in Nat,
           e.index = Len(logs[s]) + 1, Len(logs'[s]) = Len(logs[s]) + 1
    PROVE  /\ \A i, j \in DOMAIN Append(es, e) :
                i <= j => Append(es, e)[j].index >= Append(es, e)[i].index + (j - i)
           /\ \A i \in DOMAIN Append(es, e) :
                Append(es, e)[i].index \in 1..Len(logs'[s])
<1> DEFINE n == Len(es)
           f == Append(es, e)
           idx(i) == es[i].index
<1>1. n \in Nat /\ DOMAIN es = 1..n /\ DOMAIN f = 1..(n + 1)
      /\ f[n + 1] = e /\ \A i \in 1..n : f[i] = es[i]
  OBVIOUS
<1>2. \A i \in 1..n : idx(i) \in 1..Len(logs[s])
  BY <1>1 DEF Increasing
<1>3. \A i, j \in 1..n : i <= j => idx(j) >= idx(i) + (j - i)
  BY <1>1 DEF Increasing
<1> HIDE DEF n, f
<1>4. ASSUME NEW i \in 1..(n + 1)
      PROVE  /\ f[i].index \in 1..(Len(logs[s]) + 1)
             /\ i <= n => f[i].index = idx(i)
             /\ i = n + 1 => f[i].index = Len(logs[s]) + 1
  <2>1. CASE i = n + 1
    BY <1>1, <2>1
  <2>2. CASE i \in 1..n
    BY <1>1, <1>2, <2>2
  <2> QED BY <1>1, <2>1, <2>2
<1> HIDE DEF idx
<1>5. ASSUME NEW i \in 1..(n + 1), NEW j \in 1..(n + 1), i <= j
      PROVE  f[j].index >= f[i].index + (j - i)
  <2>1. CASE j <= n
    <3>1. i \in 1..n /\ j \in 1..n
      BY <1>1, <1>5, <2>1
    <3>2. f[i].index = idx(i) /\ f[j].index = idx(j)
      BY <1>4, <3>1
    <3> QED BY <1>3, <1>5, <3>1, <3>2
  <2>2. CASE j = n + 1 /\ i = n + 1
    BY <1>1, <1>4, <2>2
  <2>3. CASE j = n + 1 /\ i <= n
    <3>1. idx(n) >= idx(i) + (n - i) /\ idx(n) <= Len(logs[s])
          /\ idx(n) \in Nat /\ idx(i) \in Nat
      BY <1>1, <1>2, <1>3, <2>3
    <3>2. f[i].index = idx(i) /\ f[j].index = Len(logs[s]) + 1
      BY <1>1, <1>4, <2>3
    <3> QED BY <1>1, <2>3, <3>1, <3>2
  <2> QED BY <1>1, <1>5, <2>1, <2>2, <2>3
<1>6. DOMAIN f = 1..(n + 1) /\ Len(logs'[s]) = Len(logs[s]) + 1
  BY <1>1
<1>7. \A i, j \in DOMAIN f : i <= j => f[j].index >= f[i].index + (j - i)
  BY <1>5, <1>6
<1>8. \A i \in DOMAIN f : f[i].index \in 1..Len(logs'[s])
  BY <1>4, <1>6
<1> QED BY <1>7, <1>8 DEF f

\* Start keeps the index invariant: the index it buffers is that of the
\* entry it appends.
LEMMA StartStep ==
    ASSUME IndexInv, NEW s \in Server, NEW c \in Command, Start(s, c)
    PROVE  IndexInv'
<1> DEFINE new == [term |-> currentTerm[s], cmd |-> c]
           wire == [index |-> Len(logs[s]) + 1, term |-> currentTerm[s], cmd |-> c]
<1>1. /\ TypeOK /\ DurableState /\ CommitWithinLog /\ MatchWithinLog
      /\ BatchesIncrease /\ CallsFitLog /\ AnswersFitLog /\ SenderHoldsBatch
  BY DEF IndexInv
<1>2. /\ currentTerm \in [Server -> Nat] /\ logs \in [Server -> Seq(Entry)]
      /\ pending \in [Server -> [Server -> Seq(WireEntry)]]
      /\ votedFor \in [Server -> Server \cup {Nil}]
      /\ sender \in [Server -> Sender]
  BY <1>1 DEF TypeOK
<1>3. /\ logs' = [logs EXCEPT ![s] = Append(logs[s], new)]
      /\ pending' = [pending EXCEPT ![s] =
            [p \in Server |-> IF p = s THEN pending[s][p]
                              ELSE Append(pending[s][p], wire)]]
      /\ Persist(s)
      /\ UNCHANGED <<currentTerm, votedFor, status, commitIndex, lastApplied,
                     nextIndex, matchIndex, applied, batchRunning, sender,
                     elect, voteReq, voteRep, appReq, appRep, votes, won,
                     restarts>>
  BY DEF Start, NewEntry, Stored, LastLogIndex, indexVars, voteVars, appVars, histVars
<1>4. new \in Entry /\ wire \in WireEntry /\ Len(logs[s]) \in Nat
  BY <1>2 DEF Entry, WireEntry
<1>5. logs'[s] = Append(logs[s], new) /\ \A x \in Server \ {s} : logs'[x] = logs[x]
  BY <1>2, <1>3
<1>6. Append(logs[s], new) \in Seq(Entry)
      /\ Len(Append(logs[s], new)) = Len(logs[s]) + 1
  <2> HIDE DEF new
  <2> QED BY <1>2, <1>4
<1>7. logs' \in [Server -> Seq(Entry)] /\ Len(logs'[s]) = Len(logs[s]) + 1
  <2> HIDE DEF new
  <2> QED BY <1>2, <1>3, <1>5, <1>6
<1>8. LogsGrow
  <2> SUFFICES ASSUME NEW x \in Server PROVE Len(logs'[x]) >= Len(logs[x])
    BY <1>2, <1>7 DEF LogsGrow
  <2>1. Len(logs[x]) \in Nat
    BY <1>2
  <2>2. CASE x = s
    BY <1>7, <2>1, <2>2
  <2>3. CASE x # s
    BY <1>5, <2>1, <2>3
  <2> QED BY <2>2, <2>3
<1>9. \A p \in Server : Append(pending[s][p], wire) \in Seq(WireEntry)
  <2> HIDE DEF wire
  <2> QED BY <1>2, <1>4
<1>10. /\ pending' \in [Server -> [Server -> Seq(WireEntry)]]
       /\ \A p \in Server : pending'[s][p] \in
            {pending[s][p], Append(pending[s][p], wire)}
       /\ \A x \in Server \ {s} : pending'[x] = pending[x]
  <2> HIDE DEF wire
  <2> QED BY <1>2, <1>3, <1>9
<1>11. /\ DurableState'
       /\ disk' \in [Server -> [term : Nat, votedFor : Server \cup {Nil},
                                logs : Seq(Entry)]]
  <2> HIDE DEF new
  <2>1. currentTerm' \in [Server -> Nat]
        /\ votedFor' \in [Server -> Server \cup {Nil}]
        /\ \A x \in Server \ {s} : currentTerm'[x] = currentTerm[x]
                                   /\ votedFor'[x] = votedFor[x]
    BY <1>2, <1>3
  <2> QED BY <1>1, <1>3, <1>5, <1>7, <2>1, PersistKeeps
<1>12. TypeOK'
  BY <1>1, <1>3, <1>7, <1>10, <1>11 DEF TypeOK
<1>13. CallsFitLog' /\ AnswersFitLog'
  BY <1>1, <1>3, <1>8, FewerCalls, FewerAnswers
<1>14. CommitWithinLog' /\ MatchWithinLog' /\ SenderHoldsBatch'
  BY <1>1, <1>3, <1>8, CommitKept, MatchKept, HoldsKept
<1>15. BatchesIncrease'
  <2> SUFFICES ASSUME NEW x \in Server, NEW p \in Server
               PROVE  /\ Increasing(x, pending[x][p])'
                      /\ Increasing(x, sender[x].toSend[p])'
    BY DEF BatchesIncrease
  <2>1. Increasing(x, pending[x][p]) /\ Increasing(x, sender[x].toSend[p])
        /\ pending[x][p] \in Seq(WireEntry)
        /\ sender[x].toSend[p] \in Seq(WireEntry)
    BY <1>1, <1>2 DEF BatchesIncrease, Sender
  <2> DEFINE Fits(es) == /\ \A i, j \in DOMAIN es :
                              i <= j => es[j].index >= es[i].index + (j - i)
                         /\ \A i \in DOMAIN es : es[i].index \in 1..Len(logs'[x])
  <2>2. Fits(pending[x][p]) /\ Fits(sender[x].toSend[p])
    BY <2>1, <1>8, IncreasingKept DEF Increasing
  <2>3. CASE x = s
    <3>1. Fits(Append(pending[s][p], wire))
      <4>1. wire.index = Len(logs[s]) + 1
        OBVIOUS
      <4> HIDE DEF wire
      <4> QED BY <1>4, <1>7, <2>1, <2>3, <4>1, BufferAppended
    <3>2. Fits(pending'[x][p])
      <4> HIDE DEF Fits, wire
      <4> QED BY <1>10, <2>2, <2>3, <3>1
    <3> QED BY <1>3, <2>2, <3>2 DEF Increasing
  <2>4. CASE x # s
    <3>1. Fits(pending'[x][p])
      <4> HIDE DEF Fits
      <4> QED BY <1>10, <2>2, <2>4
    <3> QED BY <1>3, <2>2, <3>1 DEF Increasing
  <2> QED BY <2>3, <2>4
<1> QED BY <1>11, <1>12, <1>13, <1>14, <1>15 DEF IndexInv

\* applierTicker keeps the index invariant.
LEMMA ApplierStep ==
    ASSUME IndexInv, NEW s \in Server, Applier(s)
    PROVE  IndexInv'
<1> DEFINE k == commitIndex[s] - lastApplied[s]
           cmds == [i \in 1..k |-> logs[s][lastApplied[s] + i].cmd]
<1>1. /\ TypeOK /\ DurableState /\ CommitWithinLog /\ MatchWithinLog
      /\ BatchesIncrease /\ CallsFitLog /\ AnswersFitLog /\ SenderHoldsBatch
  BY DEF IndexInv
<1>2. /\ logs[s] \in Seq(Entry) /\ applied \in [Server -> Seq(Command)]
      /\ commitIndex \in [Server -> Nat] /\ lastApplied \in [Server -> Nat]
  BY <1>1 DEF TypeOK
<1>3. /\ applied' = [applied EXCEPT ![s] = applied[s] \o cmds]
      /\ lastApplied' = [lastApplied EXCEPT ![s] = commitIndex[s]]
      /\ lastApplied[s] < commitIndex[s]
      /\ UNCHANGED <<currentTerm, votedFor, logs, status, commitIndex,
                     nextIndex, matchIndex, disk, batchRunning, pending,
                     sender, elect, voteReq, voteRep, appReq, appRep, votes,
                     won, restarts>>
  BY DEF Applier, nodeVars, batchVars, voteVars, appVars, histVars
<1>4. Len(applied[s]) = lastApplied[s] /\ commitIndex[s] <= Len(logs[s])
  BY <1>1 DEF CommitWithinLog
<1>5. k \in Nat /\ Len(logs[s]) \in Nat
  BY <1>2, <1>3
<1>6. ASSUME NEW i \in 1..k PROVE logs[s][lastApplied[s] + i].cmd \in Command
  <2>1. lastApplied[s] + i \in 1..Len(logs[s])
    BY <1>2, <1>4, <1>5
  <2>2. logs[s][lastApplied[s] + i] \in Entry
    BY <1>2, <2>1
  <2> QED BY <2>2 DEF Entry
<1>7. cmds \in Seq(Command) /\ Len(cmds) = k
  <2> HIDE DEF k
  <2> QED BY <1>5, <1>6
<1>8. applied[s] \o cmds \in Seq(Command)
      /\ Len(applied[s] \o cmds) = Len(applied[s]) + k
  <2>1. applied[s] \in Seq(Command)
    BY <1>2
  <2> HIDE DEF cmds, k
  <2> QED BY <1>7, <2>1
<1> HIDE DEF cmds
<1>9. applied' \in [Server -> Seq(Command)] /\ lastApplied' \in [Server -> Nat]
      /\ applied'[s] = applied[s] \o cmds /\ lastApplied'[s] = commitIndex[s]
      /\ \A x \in Server \ {s} : applied'[x] = applied[x]
                                 /\ lastApplied'[x] = lastApplied[x]
  BY <1>2, <1>3, <1>8
<1>10. TypeOK'
  BY <1>1, <1>3, <1>9 DEF TypeOK
<1>11. CommitWithinLog'
  <2> SUFFICES ASSUME NEW x \in Server
               PROVE  /\ Len(applied'[x]) = lastApplied'[x]
                      /\ lastApplied'[x] <= commitIndex[x]
                      /\ commitIndex[x] <= Len(logs[x])
    BY <1>3 DEF CommitWithinLog
  <2>1. CASE x = s
    BY <1>2, <1>4, <1>8, <1>9, <2>1
  <2>2. CASE x # s
    BY <1>1, <1>9, <2>2 DEF CommitWithinLog
  <2> QED BY <2>1, <2>2
<1>12. LogsGrow
  BY <1>1, <1>3, SameLogsGrow
<1>13. CallsFitLog' /\ AnswersFitLog' /\ MatchWithinLog' /\ SenderHoldsBatch'
  BY <1>1, <1>3, <1>12, FewerCalls, FewerAnswers, MatchKept, HoldsKept
<1>14. DurableState' /\ BatchesIncrease'
  BY <1>1, <1>3 DEF DurableState, BatchesIncrease, Increasing
<1> QED BY <1>10, <1>11, <1>13, <1>14 DEF IndexInv

\* A lost call or answer keeps the index invariant.
LEMMA LoseAppendStep ==
    ASSUME IndexInv, LoseAppend
    PROVE  IndexInv'
<1>1. /\ TypeOK /\ DurableState /\ CommitWithinLog /\ MatchWithinLog
      /\ BatchesIncrease /\ CallsFitLog /\ AnswersFitLog /\ SenderHoldsBatch
  BY DEF IndexInv
<1>2. /\ appReq' \subseteq appReq /\ appRep' \subseteq appRep
      /\ UNCHANGED <<nodeVars, indexVars, disk, batchVars, voteVars, histVars,
                     restarts>>
  BY DEF LoseAppend
<1>3. TypeOK'
  BY <1>1, <1>2 DEF TypeOK, nodeVars, indexVars, batchVars, voteVars, histVars
<1>4. LogsGrow
  BY <1>1, <1>2, SameLogsGrow DEF nodeVars
<1>5. CallsFitLog' /\ AnswersFitLog'
  BY <1>1, <1>2, <1>4, FewerCalls, FewerAnswers
<1>6. DurableState' /\ CommitWithinLog' /\ MatchWithinLog' /\ SenderHoldsBatch'
      /\ BatchesIncrease'
  BY <1>1, <1>2 DEF DurableState, CommitWithinLog, MatchWithinLog,
     SenderHoldsBatch, BatchesIncrease, Increasing, nodeVars, indexVars, batchVars
<1> QED BY <1>3, <1>5, <1>6 DEF IndexInv

\* A restart keeps the index invariant: the log on disk is the log in memory.
LEMMA RestartStep ==
    ASSUME IndexInv, NEW s \in Server, Restart(s)
    PROVE  IndexInv'
<1> DEFINE late(m) == IF m.src = s THEN [m EXCEPT !.waiting = FALSE] ELSE m
<1>1. /\ TypeOK /\ DurableState /\ CommitWithinLog /\ MatchWithinLog
      /\ BatchesIncrease /\ CallsFitLog /\ AnswersFitLog /\ SenderHoldsBatch
  BY DEF IndexInv
<1>2. /\ currentTerm \in [Server -> Nat] /\ logs \in [Server -> Seq(Entry)]
      /\ votedFor \in [Server -> Server \cup {Nil}]
      /\ status \in [Server -> Status]
      /\ commitIndex \in [Server -> Nat] /\ lastApplied \in [Server -> Nat]
      /\ nextIndex \in [Server -> [Server -> Nat]]
      /\ matchIndex \in [Server -> [Server -> Nat]]
      /\ applied \in [Server -> Seq(Command)]
      /\ elect \in [Server -> Election] /\ batchRunning \in [Server -> BOOLEAN]
      /\ pending \in [Server -> [Server -> Seq(WireEntry)]]
      /\ sender \in [Server -> Sender]
      /\ voteRep \subseteq VoteRep /\ appReq \subseteq AppReq
      /\ appRep \subseteq AppRep /\ restarts \in Nat
  BY <1>1 DEF TypeOK
<1>3. disk[s].term = currentTerm[s] /\ disk[s].votedFor = votedFor[s]
      /\ disk[s].logs = logs[s]
  <2>1. disk[s] = [term |-> currentTerm[s], votedFor |-> votedFor[s],
                   logs |-> logs[s]]
    BY <1>1 DEF DurableState
  <2> QED BY <2>1
<1>4. currentTerm' = currentTerm /\ votedFor' = votedFor /\ logs' = logs
  BY <1>2, <1>3 DEF Restart
<1>5. /\ status' = [status EXCEPT ![s] = "Follower"]
      /\ commitIndex' = [commitIndex EXCEPT ![s] = 0]
      /\ lastApplied' = [lastApplied EXCEPT ![s] = 0]
      /\ nextIndex' = [nextIndex EXCEPT ![s] = [p \in Server |-> 0]]
      /\ matchIndex' = [matchIndex EXCEPT ![s] = [p \in Server |-> 0]]
      /\ applied' = [applied EXCEPT ![s] = <<>>]
      /\ elect' = [elect EXCEPT ![s] = NoElection]
      /\ batchRunning' = [batchRunning EXCEPT ![s] = FALSE]
      /\ pending' = [pending EXCEPT ![s] = NoEntries]
      /\ sender' = [sender EXCEPT ![s] = NoSender]
      /\ voteRep' = {m \in voteRep : m.src # s}
      /\ appRep' = {m \in appRep : m.src # s}
      /\ appReq' = {late(m) : m \in appReq}
      /\ restarts' = restarts + 1
      /\ UNCHANGED <<disk, voteReq, votes, won>>
  BY DEF Restart, histVars
<1>6. /\ status' \in [Server -> Status]
      /\ \A x \in Server : status'[x] = "Leader" =>
            /\ status[x] = "Leader"
            /\ matchIndex'[x] = matchIndex[x] /\ nextIndex'[x] = nextIndex[x]
  BY <1>2, <1>5 DEF Status
<1>7. commitIndex' \in [Server -> Nat] /\ lastApplied' \in [Server -> Nat]
      /\ nextIndex' \in [Server -> [Server -> Nat]]
      /\ matchIndex' \in [Server -> [Server -> Nat]]
      /\ applied' \in [Server -> Seq(Command)]
  BY <1>2, <1>5
<1>8. elect' \in [Server -> Election] /\ batchRunning' \in [Server -> BOOLEAN]
  BY <1>2, <1>5 DEF NoElection, Election
<1>9. /\ pending' \in [Server -> [Server -> Seq(WireEntry)]]
      /\ \A x, p \in Server : pending'[x][p] \in {<<>>, pending[x][p]}
  BY <1>2, <1>5 DEF NoEntries
<1>10. /\ sender' \in [Server -> Sender] /\ sender'[s] = NoSender
       /\ \A x \in Server \ {s} : sender'[x] = sender[x]
  BY <1>2, <1>5, NoSenderType
<1>11. \A x, p \in Server :
          sender'[x].toSend[p] \in {<<>>, pending[x][p], sender[x].toSend[p]}
  BY <1>10, NoSenderType
<1>12. ASSUME NEW m \in appReq
       PROVE  late(m) \in AppReq /\ late(m).src = m.src
              /\ late(m).entries = m.entries /\ late(m).prevIndex = m.prevIndex
  <2>1. m \in AppReq
    BY <1>2
  <2> QED BY <2>1 DEF AppReq
<1>13. voteRep' \subseteq VoteRep /\ appRep' \subseteq appRep
       /\ appRep' \subseteq AppRep /\ restarts' \in Nat
  BY <1>2, <1>5
<1>14. appReq' \subseteq AppReq
  <2> HIDE DEF late
  <2> QED BY <1>5, <1>12
<1>15. TypeOK'
  BY <1>1, <1>4, <1>5, <1>6, <1>7, <1>8, <1>9, <1>10, <1>13, <1>14 DEF TypeOK
<1>16. LogsGrow
  BY <1>1, <1>4, SameLogsGrow
<1>17. CallsFitLog'
  <2> SUFFICES ASSUME NEW n \in appReq'
               PROVE  /\ Increasing(n.src, n.entries)'
                      /\ IF n.entries = <<>> THEN n.prevIndex <= Len(logs'[n.src])
                         ELSE n.prevIndex = n.entries[1].index - 1
    BY DEF CallsFitLog
  <2> HIDE DEF late
  <2>1. PICK m \in appReq : n = late(m)
    BY <1>5
  <2>2. n.src = m.src /\ n.entries = m.entries /\ n.prevIndex = m.prevIndex
    BY <1>12, <2>1
  <2>3. /\ Increasing(m.src, m.entries)'
        /\ IF m.entries = <<>> THEN m.prevIndex <= Len(logs'[m.src])
           ELSE m.prevIndex = m.entries[1].index - 1
    BY <1>1, <1>16, CallsKept
  <2> QED BY <2>2, <2>3 DEF Increasing
<1>18. AnswersFitLog' /\ MatchWithinLog'
  BY <1>1, <1>6, <1>13, <1>16, FewerAnswers, MatchKept
<1>19. BatchesIncrease'
  BY <1>1, <1>9, <1>11, <1>16, BatchesMove
<1>20. SenderHoldsBatch'
  BY <1>1, <1>10, NoSenderType, HoldsKept
<1>21. DurableState'
  BY <1>1, <1>4, <1>5 DEF DurableState
<1>22. CommitWithinLog'
  <2> SUFFICES ASSUME NEW x \in Server
               PROVE  /\ Len(applied'[x]) = lastApplied'[x]
                      /\ lastApplied'[x] <= commitIndex'[x]
                      /\ commitIndex'[x] <= Len(logs[x])
    BY <1>4 DEF CommitWithinLog
  <2>1. CASE x = s
    <3>1. Len(logs[s]) \in Nat
      BY <1>2
    <3> QED BY <1>2, <1>5, <2>1, <3>1
  <2>2. CASE x # s
    BY <1>1, <1>2, <1>5, <2>2 DEF CommitWithinLog
  <2> QED BY <2>1, <2>2
<1> QED BY <1>15, <1>17, <1>18, <1>19, <1>20, <1>21, <1>22 DEF IndexInv

-----------------------------------------------------------------------------
(* Heartbeats, AppendEntries and its answers keep IndexInv *)

\* A heartbeat speaks of a position of the log: nextIndex of a Leader is at
\* most one beyond it.
LEMMA DoHeartBeatStep ==
    ASSUME IndexInv, NEW s \in Server, NEW reach \in SUBSET Server,
           DoHeartBeat(s, reach)
    PROVE  IndexInv'
<1> DEFINE next == [p \in Server |-> IF p = s THEN nextIndex[s][p]
                                     ELSE Larger(nextIndex[s][p], 1)]
           call(p) == [src |-> s, dst |-> p, term |-> currentTerm[s],
                       prevIndex |-> next[p] - 1,
                       prevTerm |-> LogTerm(logs[s], next[p] - 1),
                       entries |-> <<>>, commit |-> commitIndex[s],
                       waiting |-> TRUE]
<1>1. /\ TypeOK /\ DurableState /\ CommitWithinLog /\ MatchWithinLog
      /\ BatchesIncrease /\ CallsFitLog /\ AnswersFitLog /\ SenderHoldsBatch
  BY DEF IndexInv
<1>2. /\ nextIndex \in [Server -> [Server -> Nat]] /\ logs[s] \in Seq(Entry)
      /\ currentTerm[s] \in Nat /\ commitIndex[s] \in Nat
      /\ appReq \subseteq AppReq
  BY <1>1 DEF TypeOK
<1>3. /\ status[s] = "Leader"
      /\ nextIndex' = [nextIndex EXCEPT ![s] = next]
      /\ appReq' = appReq \cup {call(p) : p \in reach}
      /\ UNCHANGED <<currentTerm, votedFor, logs, status, commitIndex,
                     lastApplied, matchIndex, applied, disk, batchRunning,
                     pending, sender, elect, voteReq, voteRep, appRep, votes,
                     won, restarts>>
  BY DEF DoHeartBeat, nodeVars, batchVars, voteVars, histVars
<1>4. ASSUME NEW p \in Server
      PROVE  next[p] = nextIndex[s][p] /\ next[p] - 1 \in Nat
             /\ next[p] - 1 <= Len(logs[s])
  <2>1. nextIndex[s][p] \in 1..(Len(logs[s]) + 1)
    BY <1>1, <1>3 DEF MatchWithinLog
  <2>2. Len(logs[s]) \in Nat
    BY <1>2
  <2> QED BY <1>2, <2>1, <2>2 DEF Larger
<1>5. nextIndex' = nextIndex
  <2>1. next = nextIndex[s]
    BY <1>2, <1>4
  <2> HIDE DEF next
  <2> QED BY <1>2, <1>3, <2>1
<1>6. ASSUME NEW p \in Server
      PROVE  call(p) \in AppReq
  <2>1. LogTerm(logs[s], next[p] - 1) \in Int
    <3>1. next[p] - 1 \in Int
      BY <1>4
    <3> HIDE DEF next
    <3> QED BY <1>2, <3>1, LogTermType
  <2>2. <<>> \in Seq(WireEntry)
    OBVIOUS
  <2> HIDE DEF next
  <2> QED BY <1>2, <1>4, <2>1, <2>2 DEF AppReq
<1>7. ASSUME NEW p \in Server
      PROVE  call(p).src = s /\ call(p).entries = <<>>
             /\ call(p).prevIndex <= Len(logs[s])
  BY <1>4
<1> HIDE DEF call
<1>8. appReq' \subseteq AppReq
  BY <1>2, <1>3, <1>6
<1>9. TypeOK'
  BY <1>1, <1>3, <1>5, <1>8 DEF TypeOK
<1>10. LogsGrow
  BY <1>1, <1>3, SameLogsGrow
<1>11. CallsFitLog'
  <2> SUFFICES ASSUME NEW n \in appReq'
               PROVE  /\ Increasing(n.src, n.entries)'
                      /\ IF n.entries = <<>> THEN n.prevIndex <= Len(logs'[n.src])
                         ELSE n.prevIndex = n.entries[1].index - 1
    BY DEF CallsFitLog
  <2>1. CASE n \in appReq
    BY <1>1, <1>10, <2>1, CallsKept
  <2>2. CASE n \notin appReq
    <3>1. PICK p \in reach : n = call(p)
      BY <1>3, <2>2
    <3> QED BY <1>3, <1>7, <3>1 DEF Increasing
  <2> QED BY <2>1, <2>2
<1>12. AnswersFitLog' /\ MatchWithinLog' /\ CommitWithinLog' /\ SenderHoldsBatch'
  BY <1>1, <1>3, <1>5, <1>10, FewerAnswers, MatchKept, CommitKept, HoldsKept
<1>13. DurableState' /\ BatchesIncrease'
  BY <1>1, <1>3 DEF DurableState, BatchesIncrease, Increasing
<1> QED BY <1>9, <1>11, <1>12, <1>13 DEF IndexInv

\* What CallsFitLog says about the end of a call.
LEMMA CallEnd ==
    ASSUME TypeOK, CallsFitLog, NEW m \in appReq
    PROVE  /\ m.src \in Server /\ m.dst \in Server /\ m.term \in Nat
           /\ m.prevIndex \in Nat /\ m.entries \in Seq(WireEntry)
           /\ m.commit \in Nat
           /\ m.prevIndex <= Len(logs[m.src])
           /\ m.prevIndex + Len(m.entries) <= Len(logs[m.src])
           /\ \A i \in DOMAIN m.entries : m.entries[i].index >= m.prevIndex + i
<1> DEFINE es == m.entries
           n == Len(es)
           idx(i) == es[i].index
<1>1. m \in AppReq
  BY DEF TypeOK
<1>2. /\ m.src \in Server /\ m.dst \in Server /\ m.term \in Nat
      /\ m.prevIndex \in Nat /\ es \in Seq(WireEntry) /\ m.commit \in Nat
  BY <1>1 DEF AppReq
<1>3. logs[m.src] \in Seq(Entry)
  BY <1>2 DEF TypeOK
<1>4. n \in Nat /\ Len(logs[m.src]) \in Nat /\ DOMAIN es = 1..n
  BY <1>2, <1>3
<1>5. CASE es = <<>>
  BY <1>2, <1>4, <1>5 DEF CallsFitLog
<1>6. CASE es # <<>>
  <2>1. n >= 1
    BY <1>2, <1>4, <1>6
  <2>2. /\ \A i, j \in 1..n : i <= j => idx(j) >= idx(i) + (j - i)
        /\ \A i \in 1..n : idx(i) \in 1..Len(logs[m.src])
        /\ m.prevIndex = idx(1) - 1
    BY <1>4, <1>6 DEF CallsFitLog, Increasing
  <2> HIDE DEF idx, n, es
  <2>3. \A i \in 1..n : idx(i) >= m.prevIndex + i
    BY <1>4, <2>1, <2>2
  <2>4. idx(n) >= m.prevIndex + n /\ idx(n) <= Len(logs[m.src])
    BY <1>4, <2>1, <2>2, <2>3
  <2>5. m.prevIndex + n <= Len(logs[m.src])
    BY <1>2, <1>4, <2>1, <2>2, <2>4
  <2> QED BY <1>2, <1>4, <2>1, <2>3, <2>5 DEF idx, n, es
<1> QED BY <1>5, <1>6

\* The answer to a call confirms and suggests indices of the caller's log.
LEMMA AnswerFits ==
    ASSUME TypeOK, CallsFitLog, AnswersFitLog, LogsGrow, NEW m \in appReq,
           NEW ok \in BOOLEAN, NEW up \in Int, up <= Len(logs[m.src]),
           currentTerm'[m.dst] \in Nat, Answer(m, ok, up)
    PROVE  AnswersFitLog' /\ appRep' \subseteq AppRep
<1> DEFINE rep == [src |-> m.src, dst |-> m.dst, prevIndex |-> m.prevIndex,
                   num |-> Len(m.entries),
                   lastTerm |-> IF m.entries = <<>> THEN 0
                                ELSE m.entries[Len(m.entries)].term,
                   term |-> currentTerm'[m.dst],
                   success |-> ok, upNext |-> up]
<1>1. /\ m.src \in Server /\ m.dst \in Server /\ m.prevIndex \in Nat
      /\ m.entries \in Seq(WireEntry)
      /\ m.prevIndex + Len(m.entries) <= Len(logs[m.src])
  BY CallEnd
<1>2. appRep' = IF m.waiting THEN appRep \cup {rep} ELSE appRep
  BY DEF Answer
<1>3. appRep \subseteq AppRep
  BY DEF TypeOK
<1>4. rep.lastTerm \in Nat
  <2>1. CASE m.entries # <<>>
    <3>1. m.entries[Len(m.entries)] \in WireEntry
      BY <1>1, <2>1
    <3> QED BY <2>1, <3>1 DEF WireEntry
  <2> QED BY <2>1
<1>5. Len(m.entries) \in Nat
  BY <1>1
<1>6. rep \in AppRep
  BY <1>1, <1>4, <1>5 DEF AppRep
<1>7. appRep' \subseteq AppRep
  <2> HIDE DEF rep
  <2> QED BY <1>2, <1>3, <1>6
<1>8. Len(logs[m.src]) \in Nat /\ Len(logs'[m.src]) \in Nat
      /\ Len(logs'[m.src]) >= Len(logs[m.src])
  BY <1>1 DEF LogsGrow
<1>9. rep.src = m.src /\ rep.prevIndex + rep.num <= Len(logs'[m.src])
      /\ rep.upNext <= Len(logs'[m.src])
  BY <1>1, <1>5, <1>8
<1>10. AnswersFitLog'
  <2> SUFFICES ASSUME NEW r \in appRep'
               PROVE  /\ r.success => r.prevIndex + r.num <= Len(logs'[r.src])
                      /\ r.upNext <= Len(logs'[r.src])
    BY DEF AnswersFitLog
  <2>1. CASE r \in appRep
    BY <2>1, AnswersKept
  <2>2. CASE r = rep
    <3> HIDE DEF rep
    <3> QED BY <1>9, <2>2
  <2> HIDE DEF rep
  <2> QED BY <1>2, <2>1, <2>2
<1> QED BY <1>7, <1>10

\* An AppendEntries step changes nothing but the node it reaches, the calls
\* and the answers.
LEMMA AppendFrame ==
    ASSUME IndexInv, NEW m \in appReq, NEW s \in Server, LogsGrow,
           \/ UNCHANGED <<nodeVars, disk>>
           \/ /\ Follow(m) /\ m.dst = s /\ m.term \in Nat /\ Persist(s)
              /\ \A x \in Server \ {s} : logs'[x] = logs[x],
           appReq' = appReq \ {m},
           AnswersFitLog', appRep' \subseteq AppRep,
           commitIndex' \in [Server -> Nat], CommitWithinLog',
           UNCHANGED <<lastApplied, nextIndex, matchIndex, applied, batchVars,
                       voteVars, histVars, restarts>>
    PROVE  IndexInv'
<1>1. /\ TypeOK /\ DurableState /\ MatchWithinLog /\ BatchesIncrease
      /\ CallsFitLog /\ SenderHoldsBatch
  BY DEF IndexInv
<1>2. /\ currentTerm \in [Server -> Nat] /\ logs \in [Server -> Seq(Entry)]
      /\ votedFor \in [Server -> Server \cup {Nil}]
      /\ status \in [Server -> Status]
  BY <1>1 DEF TypeOK
<1>3. logs' \in [Server -> Seq(Entry)]
  BY DEF LogsGrow
<1>4. UNCHANGED <<lastApplied, nextIndex, matchIndex, applied, batchRunning,
                  pending, sender, elect, voteReq, voteRep, votes, won, restarts>>
  BY DEF batchVars, voteVars, histVars
<1>5. /\ currentTerm' \in [Server -> Nat]
      /\ votedFor' \in [Server -> Server \cup {Nil}]
      /\ status' \in [Server -> Status]
      /\ \A x \in Server : status'[x] = "Leader" => status[x] = "Leader"
      /\ DurableState'
      /\ disk' \in [Server -> [term : Nat, votedFor : Server \cup {Nil},
                               logs : Seq(Entry)]]
  <2>1. CASE UNCHANGED <<nodeVars, disk>>
    BY <1>1, <2>1 DEF TypeOK, DurableState, nodeVars
  <2>2. CASE /\ Follow(m) /\ m.dst = s /\ m.term \in Nat /\ Persist(s)
             /\ \A x \in Server \ {s} : logs'[x] = logs[x]
    <3>1. /\ currentTerm' \in [Server -> Nat]
          /\ votedFor' \in [Server -> Server \cup {Nil}]
          /\ status' \in [Server -> Status]
          /\ \A x \in Server : status'[x] = "Leader" => status[x] = "Leader"
          /\ \A x \in Server \ {s} :
                currentTerm'[x] = currentTerm[x] /\ votedFor'[x] = votedFor[x]
      BY <1>2, <2>2 DEF Follow, Status
    <3> QED BY <1>1, <1>3, <2>2, <3>1, PersistKeeps
  <2> QED BY <2>1, <2>2
<1>6. appReq' \subseteq appReq /\ appReq' \subseteq AppReq
  BY <1>1 DEF TypeOK
<1>7. TypeOK'
  BY <1>1, <1>3, <1>4, <1>5, <1>6 DEF TypeOK
<1>8. MatchWithinLog' /\ SenderHoldsBatch' /\ CallsFitLog'
  BY <1>1, <1>4, <1>5, <1>6, MatchKept, HoldsKept, FewerCalls
<1>9. BatchesIncrease'
  BY <1>1, <1>4, BatchesMove
<1> QED BY <1>5, <1>7, <1>8, <1>9 DEF IndexInv

\* AppendEntries1 keeps the index invariant, in each of its four branches.
LEMMA HandleAppendEntriesStep ==
    ASSUME IndexInv, NEW m \in appReq, HandleAppendEntries(m)
    PROVE  IndexInv'
<1> DEFINE s == m.dst
<1>1. TypeOK /\ CommitWithinLog /\ CallsFitLog /\ AnswersFitLog
  BY DEF IndexInv
<1>2. /\ m.src \in Server /\ s \in Server /\ m.term \in Nat
      /\ m.prevIndex \in Nat /\ m.entries \in Seq(WireEntry)
      /\ m.commit \in Nat /\ m.prevIndex <= Len(logs[m.src])
  BY <1>1, CallEnd
<1>3. /\ currentTerm \in [Server -> Nat] /\ logs \in [Server -> Seq(Entry)]
      /\ commitIndex \in [Server -> Nat] /\ lastApplied \in [Server -> Nat]
  BY <1>1 DEF TypeOK
<1>4. Len(logs[m.src]) \in Nat /\ Len(logs[s]) \in Nat
      /\ LastLogIndex(s) = Len(logs[s])
  BY <1>2, <1>3 DEF LastLogIndex
<1>5. /\ appReq' = appReq \ {m}
      /\ UNCHANGED <<lastApplied, nextIndex, matchIndex, applied, batchVars,
                     voteVars, histVars, restarts>>
  BY DEF HandleAppendEntries
<1>6. UNCHANGED <<lastApplied, applied>>
  BY <1>5
<1>7. Follow(m) => currentTerm'[s] \in Nat
  BY <1>2, <1>3 DEF Follow
<1>8. CASE AppendStale(m)
  <2>1. UNCHANGED <<nodeVars, disk>> /\ UNCHANGED commitIndex
        /\ Answer(m, FALSE, NoUpdate)
    BY <1>8 DEF AppendStale
  <2>2. LogsGrow /\ currentTerm'[s] \in Nat
    BY <1>1, <1>2, <1>3, <2>1, SameLogsGrow DEF nodeVars
  <2>3. NoUpdate \in Int /\ NoUpdate <= Len(logs[m.src])
    BY <1>4 DEF NoUpdate
  <2>4. AnswersFitLog' /\ appRep' \subseteq AppRep
    BY <1>1, <2>1, <2>2, <2>3, AnswerFits
  <2>5. commitIndex' \in [Server -> Nat] /\ CommitWithinLog'
    BY <1>1, <1>3, <1>6, <2>1, <2>2, CommitKept
  <2> QED BY <1>2, <1>5, <2>1, <2>2, <2>4, <2>5, AppendFrame
<1>9. ASSUME NEW up \in Int, up <= Len(logs[m.src]), Follow(m), UNCHANGED logs,
             UNCHANGED commitIndex, Persist(s), Answer(m, FALSE, up)
      PROVE  IndexInv'
  <2>1. LogsGrow
    BY <1>1, <1>9, SameLogsGrow
  <2>2. AnswersFitLog' /\ appRep' \subseteq AppRep
    BY <1>1, <1>7, <1>9, <2>1, AnswerFits
  <2>3. commitIndex' \in [Server -> Nat] /\ CommitWithinLog'
    BY <1>1, <1>3, <1>6, <1>9, <2>1, CommitKept
  <2>4. \A x \in Server \ {s} : logs'[x] = logs[x]
    BY <1>9
  <2> QED BY <1>2, <1>5, <1>9, <2>1, <2>2, <2>3, <2>4, AppendFrame
<1>10. CASE AppendGap(m)
  <2>1. LastLogIndex(s) + 1 \in Int /\ LastLogIndex(s) + 1 <= Len(logs[m.src])
    BY <1>2, <1>4, <1>10 DEF AppendGap
  <2> QED BY <1>9, <1>10, <2>1 DEF AppendGap
<1>11. CASE AppendMismatch(m)
  <2>1. BackOff(logs[s], m.prevIndex) \in Int
        /\ BackOff(logs[s], m.prevIndex) <= Len(logs[m.src])
    BY <1>2, <1>4, BackOffBound
  <2> QED BY <1>9, <1>11, <2>1 DEF AppendMismatch
<1>12. CASE AppendMatch(m)
  <2> DEFINE log == Merge(logs[s], m.entries)
  <2>1. /\ Follow(m) /\ logs' = [logs EXCEPT ![s] = log] /\ Persist(s)
        /\ commitIndex' = [commitIndex EXCEPT ![s] =
                IF m.commit > commitIndex[s] THEN Smaller(m.commit, Len(log))
                ELSE commitIndex[s]]
        /\ Answer(m, TRUE, 0)
    BY <1>12 DEF AppendMatch, FollowerCommit
  <2>2. log \in Seq(Entry) /\ Len(log) >= Len(logs[s]) /\ Len(log) \in Nat
    <3>1. logs[s] \in Seq(Entry)
      BY <1>2, <1>3
    <3>2. log \in Seq(Entry) /\ Len(log) >= Len(logs[s])
      BY <1>2, <3>1, MergeLog
    <3> HIDE DEF log
    <3> QED BY <3>2
  <2> HIDE DEF log, s
  <2>3. logs' \in [Server -> Seq(Entry)] /\ logs'[s] = log
        /\ \A x \in Server \ {s} : logs'[x] = logs[x]
    BY <1>2, <1>3, <2>1, <2>2
  <2>4. LogsGrow
    <3> SUFFICES ASSUME NEW x \in Server PROVE Len(logs'[x]) >= Len(logs[x])
      BY <1>3, <2>3 DEF LogsGrow
    <3>1. Len(logs[x]) \in Nat
      BY <1>3
    <3>2. CASE x = s
      BY <2>2, <2>3, <3>2
    <3>3. CASE x # s
      BY <2>3, <3>1, <3>3
    <3> QED BY <3>2, <3>3
  <2>5. AnswersFitLog' /\ appRep' \subseteq AppRep
    <3>1. 0 \in Int /\ 0 <= Len(logs[m.src]) /\ TRUE \in BOOLEAN
      BY <1>4
    <3>2. currentTerm'[m.dst] \in Nat
      BY <1>7, <2>1 DEF s
    <3> QED BY <1>1, <2>1, <2>4, <3>1, <3>2, AnswerFits
  <2>6. commitIndex[s] <= Len(logs[s]) /\ commitIndex[s] \in Nat
    BY <1>1, <1>2, <1>3 DEF CommitWithinLog
  <2>7. /\ commitIndex'[s] \in Nat /\ commitIndex'[s] >= commitIndex[s]
        /\ commitIndex'[s] <= Len(log)
        /\ \A x \in Server \ {s} : commitIndex'[x] = commitIndex[x]
        /\ commitIndex' \in [Server -> Nat]
    BY <1>2, <1>3, <1>4, <2>1, <2>2, <2>6 DEF Smaller
  <2>8. CommitWithinLog'
    <3> SUFFICES ASSUME NEW x \in Server
                 PROVE  /\ Len(applied[x]) = lastApplied[x]
                        /\ lastApplied[x] <= commitIndex'[x]
                        /\ commitIndex'[x] <= Len(logs'[x])
      BY <1>6 DEF CommitWithinLog
    <3>1. /\ Len(applied[x]) = lastApplied[x] /\ lastApplied[x] <= commitIndex[x]
          /\ commitIndex[x] <= Len(logs[x]) /\ lastApplied[x] \in Nat
      BY <1>1, <1>3 DEF CommitWithinLog
    <3>2. CASE x = s
      BY <2>3, <2>6, <2>7, <3>1, <3>2
    <3>3. CASE x # s
      BY <2>3, <2>7, <3>1, <3>3
    <3> QED BY <3>2, <3>3
  <2>9. s = m.dst
    BY DEF s
  <2> QED BY <1>2, <1>5, <2>1, <2>3, <2>4, <2>5, <2>7, <2>8, <2>9, AppendFrame
<1> QED BY <1>8, <1>10, <1>11, <1>12 DEF HandleAppendEntries

\* An update of m_nextIndex or m_matchIndex for one peer.
LEMMA PeerUpdate ==
    ASSUME NEW f \in [Server -> [Server -> Nat]], NEW s \in Server,
           NEW p \in Server, NEW v \in Nat, NEW g,
           g = [f EXCEPT ![s] = [f[s] EXCEPT ![p] = v]]
    PROVE  /\ g \in [Server -> [Server -> Nat]]
           /\ \A x, q \in Server :
                g[x][q] = IF x = s /\ q = p THEN v ELSE f[x][q]
<1> DEFINE h == [f[s] EXCEPT ![p] = v]
<1>1. f[s] \in [Server -> Nat]
  OBVIOUS
<1>2. h \in [Server -> Nat] /\ \A q \in Server : h[q] = IF q = p THEN v ELSE f[s][q]
  BY <1>1
<1>3. g = [f EXCEPT ![s] = h]
  OBVIOUS
<1> HIDE DEF h
<1>4. g \in [Server -> [Server -> Nat]] /\ g[s] = h
      /\ \A x \in Server \ {s} : g[x] = f[x]
  BY <1>2, <1>3
<1> QED BY <1>2, <1>4

\* An answer to sendAppendEntries keeps the index invariant.
LEMMA ReceiveAppendReplyStep ==
    ASSUME IndexInv, NEW m \in appRep, ReceiveAppendReply(m)
    PROVE  IndexInv'
<1> DEFINE s == m.src
           p == m.dst
<1>1. /\ TypeOK /\ DurableState /\ CommitWithinLog /\ MatchWithinLog
      /\ BatchesIncrease /\ CallsFitLog /\ AnswersFitLog /\ SenderHoldsBatch
  BY DEF IndexInv
<1>2. m \in AppRep
  BY <1>1 DEF TypeOK
<1>3. s \in Server /\ p \in Server /\ m.term \in Nat /\ m.prevIndex \in Nat
      /\ m.num \in Nat /\ m.upNext \in Int
  BY <1>2 DEF AppRep
<1>4. /\ logs \in [Server -> Seq(Entry)] /\ commitIndex \in [Server -> Nat]
      /\ nextIndex \in [Server -> [Server -> Nat]]
      /\ matchIndex \in [Server -> [Server -> Nat]]
      /\ lastApplied \in [Server -> Nat]
  BY <1>1 DEF TypeOK
<1>5. /\ Len(logs[s]) \in Nat /\ m.upNext <= Len(logs[s])
      /\ m.success => m.prevIndex + m.num <= Len(logs[s])
  <2>1. logs[s] \in Seq(Entry)
    BY <1>3, <1>4
  <2>2. Len(logs[s]) \in Nat
    BY <2>1
  <2>3. m.upNext <= Len(logs[s]) /\ (m.success => m.prevIndex + m.num <= Len(logs[s]))
    BY <1>1, ZenonT(60) DEF AnswersFitLog
  <2> QED BY <2>2, <2>3
<1>6. /\ appRep' \subseteq appRep
      /\ UNCHANGED <<lastApplied, applied, batchRunning, pending, sender,
                     elect, voteReq, voteRep, appReq, votes, won, restarts>>
  BY DEF ReceiveAppendReply, batchVars, voteVars, histVars
<1> HIDE DEF s, p
\* What is left to show, for each of the four outcomes.
<1>7. ASSUME UNCHANGED logs, currentTerm' \in [Server -> Nat],
             votedFor' \in [Server -> Server \cup {Nil}],
             status' \in [Server -> Status],
             disk' \in [Server -> [term : Nat, votedFor : Server \cup {Nil},
                                   logs : Seq(Entry)]],
             DurableState', commitIndex' \in [Server -> Nat], CommitWithinLog',
             nextIndex' \in [Server -> [Server -> Nat]],
             matchIndex' \in [Server -> [Server -> Nat]], MatchWithinLog'
      PROVE  IndexInv'
  <2>1. LogsGrow
    BY <1>1, <1>7, SameLogsGrow
  <2>2. TypeOK'
    BY <1>1, <1>6, <1>7 DEF TypeOK
  <2>3. AnswersFitLog' /\ CallsFitLog' /\ SenderHoldsBatch'
    BY <1>1, <1>6, <2>1, FewerAnswers, FewerCalls, HoldsKept
  <2>4. BatchesIncrease'
    BY <1>1, <1>6, <2>1, BatchesMove
  <2> QED BY <1>7, <2>2, <2>3, <2>4 DEF IndexInv
<1>8. UNCHANGED logs /\ UNCHANGED commitIndex =>
        commitIndex' \in [Server -> Nat] /\ CommitWithinLog'
  BY <1>1, <1>4, <1>6 DEF CommitWithinLog
<1>9. UNCHANGED <<nodeVars, disk>> =>
        /\ UNCHANGED <<currentTerm, votedFor, logs, status>>
        /\ currentTerm' \in [Server -> Nat]
        /\ votedFor' \in [Server -> Server \cup {Nil}]
        /\ status' \in [Server -> Status] /\ DurableState'
        /\ disk' \in [Server -> [term : Nat, votedFor : Server \cup {Nil},
                                 logs : Seq(Entry)]]
  BY <1>1 DEF nodeVars, TypeOK, DurableState
<1>10. CASE /\ StepDown(s, m.term)
            /\ UNCHANGED <<commitIndex, nextIndex, matchIndex>>
  <2>1. /\ currentTerm' \in [Server -> Nat]
        /\ votedFor' \in [Server -> Server \cup {Nil}]
        /\ status' \in [Server -> Status]
        /\ \A x \in Server : status'[x] = "Leader" => status[x] = "Leader"
        /\ disk' \in [Server -> [term : Nat, votedFor : Server \cup {Nil},
                                 logs : Seq(Entry)]]
        /\ DurableState' /\ UNCHANGED logs
    BY <1>1, <1>3, <1>10, StepDownType
  <2>2. MatchWithinLog'
    BY <1>1, <1>10, <2>1, SameLogsGrow, MatchKept
  <2> QED BY <1>4, <1>7, <1>8, <1>10, <2>1, <2>2
<1>11. CASE UNCHANGED <<nodeVars, disk, commitIndex, nextIndex, matchIndex>>
  <2>1. MatchWithinLog'
    BY <1>1, <1>9, <1>11, SameLogsGrow, MatchKept
  <2> QED BY <1>4, <1>7, <1>8, <1>9, <1>11, <2>1
<1>12. CASE /\ nextIndex' = IF m.upNext = NoUpdate THEN nextIndex
                            ELSE [nextIndex EXCEPT ![s] =
                                [nextIndex[s] EXCEPT ![p] = Larger(m.upNext, 1)]]
            /\ UNCHANGED <<nodeVars, disk, commitIndex, matchIndex>>
  <2>1. Larger(m.upNext, 1) \in 1..(Len(logs[s]) + 1)
    BY <1>3, <1>5 DEF Larger
  <2>2. /\ nextIndex' \in [Server -> [Server -> Nat]]
        /\ \A x, q \in Server :
              \/ nextIndex'[x][q] = nextIndex[x][q]
              \/ x = s /\ nextIndex'[x][q] = Larger(m.upNext, 1)
    <3>1. Larger(m.upNext, 1) \in Nat
      BY <2>1
    <3>2. CASE nextIndex' = nextIndex
      BY <1>4, <3>2
    <3>3. CASE nextIndex' = [nextIndex EXCEPT ![s] =
                                [nextIndex[s] EXCEPT ![p] = Larger(m.upNext, 1)]]
      <4>1. /\ nextIndex' \in [Server -> [Server -> Nat]]
            /\ \A x, q \in Server : nextIndex'[x][q] =
                    IF x = s /\ q = p THEN Larger(m.upNext, 1) ELSE nextIndex[x][q]
        BY <1>3, <1>4, <3>1, <3>3, PeerUpdate, ZenonT(60)
      <4> QED BY <4>1
    <3> QED BY <1>12, <3>2, <3>3
  <2>3. MatchWithinLog'
    BY <1>1, <1>9, <1>12, <2>1, <2>2 DEF MatchWithinLog
  <2> QED BY <1>4, <1>7, <1>8, <1>9, <1>12, <2>2, <2>3
<1>13. CASE m.success /\ PeerSynced(m) /\ UNCHANGED <<nodeVars, disk>>
  <2> DEFINE match == Larger(matchIndex[s][p], m.prevIndex + m.num)
             com == Larger(commitIndex[s], m.prevIndex + m.num)
  <2>1. /\ matchIndex' = [matchIndex EXCEPT ![s] =
                [matchIndex[s] EXCEPT ![p] = match]]
        /\ nextIndex' = [nextIndex EXCEPT ![s] =
                [nextIndex[s] EXCEPT ![p] = match + 1]]
        /\ \/ commitIndex' = [commitIndex EXCEPT ![s] = com]
           \/ commitIndex' = [commitIndex EXCEPT ![s] = commitIndex[s]]
    BY <1>13 DEF PeerSynced, PeerMatch, s, p
  <2>2. matchIndex[s][p] \in Nat /\ commitIndex[s] \in Nat
    BY <1>3, <1>4
  <2>3. match \in Nat /\ com \in Nat
        /\ (com = commitIndex[s] \/ com <= Len(logs[s])) /\ com >= commitIndex[s]
        /\ (match = matchIndex[s][p] \/ match <= Len(logs[s]))
    BY <1>3, <1>5, <1>13, <2>2 DEF Larger
  <2> HIDE DEF match, com
  <2>4. /\ matchIndex' \in [Server -> [Server -> Nat]]
        /\ nextIndex' \in [Server -> [Server -> Nat]]
        /\ commitIndex' \in [Server -> Nat]
    <3>1. match + 1 \in Nat
      BY <2>3
    <3>2. matchIndex' \in [Server -> [Server -> Nat]]
      BY <1>3, <1>4, <2>1, <2>3, PeerUpdate, ZenonT(60)
    <3>3. nextIndex' \in [Server -> [Server -> Nat]]
      BY <1>3, <1>4, <2>1, <3>1, PeerUpdate, ZenonT(60)
    <3>4. commitIndex' \in [Server -> Nat]
      BY <1>3, <1>4, <2>1, <2>2, <2>3
    <3> QED BY <3>2, <3>3, <3>4
  <2>5. \A x, q \in Server :
          \/ matchIndex'[x][q] = matchIndex[x][q] /\ nextIndex'[x][q] = nextIndex[x][q]
          \/ x = s /\ q = p /\ matchIndex'[x][q] = match
             /\ nextIndex'[x][q] = match + 1
    <3>1. match + 1 \in Nat
      BY <2>3
    <3>2. \A x, q \in Server :
            matchIndex'[x][q] = IF x = s /\ q = p THEN match ELSE matchIndex[x][q]
      BY <1>3, <1>4, <2>1, <2>3, PeerUpdate, ZenonT(60)
    <3>3. \A x, q \in Server :
            nextIndex'[x][q] = IF x = s /\ q = p THEN match + 1 ELSE nextIndex[x][q]
      BY <1>3, <1>4, <2>1, <3>1, PeerUpdate, ZenonT(60)
    <3> QED BY <3>2, <3>3
  <2>6. MatchWithinLog'
    <3> SUFFICES ASSUME NEW x \in Server, NEW q \in Server, status[x] = "Leader"
                 PROVE  /\ matchIndex'[x][q] <= Len(logs[x])
                        /\ nextIndex'[x][q] \in 1..(Len(logs[x]) + 1)
      BY <1>9, <1>13 DEF MatchWithinLog
    <3>1. matchIndex[x][q] <= Len(logs[x])
          /\ nextIndex[x][q] \in 1..(Len(logs[x]) + 1)
      BY <1>1 DEF MatchWithinLog
    <3>2. CASE x = s /\ q = p /\ matchIndex'[x][q] = match
               /\ nextIndex'[x][q] = match + 1
      BY <1>5, <2>3, <3>1, <3>2
    <3> QED BY <2>5, <3>1, <3>2
  <2>7. CommitWithinLog'
    <3> SUFFICES ASSUME NEW x \in Server
                 PROVE  /\ Len(applied[x]) = lastApplied[x]
                        /\ lastApplied[x] <= commitIndex'[x]
                        /\ commitIndex'[x] <= Len(logs[x])
      BY <1>6, <1>9, <1>13 DEF CommitWithinLog
    <3>1. /\ Len(applied[x]) = lastApplied[x] /\ lastApplied[x] <= commitIndex[x]
          /\ commitIndex[x] <= Len(logs[x]) /\ lastApplied[x] \in Nat
          /\ commitIndex[x] \in Nat
      BY <1>1, <1>4 DEF CommitWithinLog
    <3>2. commitIndex'[x] = commitIndex[x] \/ (x = s /\ commitIndex'[x] = com)
      BY <1>3, <1>4, <2>1
    <3> QED BY <1>5, <2>3, <3>1, <3>2
  <2> QED BY <1>7, <1>9, <1>13, <2>4, <2>6, <2>7
<1> QED BY <1>10, <1>11, <1>12, <1>13 DEF ReceiveAppendReply, s, p

-----------------------------------------------------------------------------
(* The inductive invariant of the indices *)

\* The index invariant holds when the processes start.
LEMMA IndexInit ==
    ASSUME Init
    PROVE  IndexInv
<1>1. NoElection \in Election
  BY DEF NoElection, Election
<1>2. NoEntries \in [Server -> Seq(WireEntry)]
      /\ \A p \in Server : NoEntries[p] = <<>>
  BY DEF NoEntries
<1>3. TypeOK
  BY <1>1, <1>2, NoSenderType DEF Init, TypeOK, Status
<1>4. DurableState /\ CommitWithinLog /\ MatchWithinLog
  BY DEF Init, DurableState, CommitWithinLog, MatchWithinLog
<1>5. CallsFitLog /\ AnswersFitLog /\ SenderHoldsBatch
  BY NoSenderType DEF Init, CallsFitLog, AnswersFitLog, SenderHoldsBatch
<1>6. BatchesIncrease
  BY <1>2, NoSenderType DEF Init, BatchesIncrease, Increasing
<1> QED BY <1>3, <1>4, <1>5, <1>6 DEF IndexInv

\* A step that changes nothing keeps the index invariant.
LEMMA IndexStutter ==
    ASSUME IndexInv, UNCHANGED vars
    PROVE  IndexInv'
<1>1. /\ TypeOK /\ DurableState /\ CommitWithinLog /\ MatchWithinLog
      /\ BatchesIncrease /\ CallsFitLog /\ AnswersFitLog /\ SenderHoldsBatch
  BY DEF IndexInv
<1>2. UNCHANGED <<nodeVars, indexVars, disk, batchVars, voteVars, appVars,
                  histVars, restarts>>
  BY DEF vars
<1>3. TypeOK'
  BY <1>1, <1>2 DEF TypeOK, nodeVars, indexVars, batchVars, voteVars, appVars,
     histVars
<1>4. DurableState' /\ CommitWithinLog' /\ MatchWithinLog' /\ SenderHoldsBatch'
  BY <1>1, <1>2 DEF DurableState, CommitWithinLog, MatchWithinLog,
     SenderHoldsBatch, nodeVars, indexVars, batchVars
<1>5. BatchesIncrease' /\ CallsFitLog' /\ AnswersFitLog'
  BY <1>1, <1>2 DEF BatchesIncrease, CallsFitLog, AnswersFitLog, Increasing,
     nodeVars, batchVars, appVars
<1> QED BY <1>3, <1>4, <1>5 DEF IndexInv

\* Every step keeps the index invariant.
LEMMA IndexStep ==
    ASSUME IndexInv, [Next]_vars
    PROVE  IndexInv'
<1>1. CASE UNCHANGED vars
  BY <1>1, IndexStutter
<1>2. CASE Next
  BY <1>2, RestartStep, DoElectionStep, HandleRequestVoteStep,
     ReceiveVoteReplyStep, VoteRpcFailStep, StartStep, BatchCheckLeaderStep,
     BatchCollectStep, BatchRecheckStep, BatchReadTermStep, BatchReadPrevStep,
     BatchSendStep, DoHeartBeatStep, HandleAppendEntriesStep,
     ReceiveAppendReplyStep, LoseAppendStep, ApplierStep DEF Next
<1> QED BY <1>1, <1>2

\* IndexInv holds in every reachable state, for every number of nodes and
\* every bound.
THEOREM IndexInvariance == Spec => []IndexInv
<1>1. Init => IndexInv
  BY IndexInit
<1>2. IndexInv /\ [Next]_vars => IndexInv'
  BY IndexStep
<1> QED BY <1>1, <1>2, PTL DEF Spec

\* Every variable has its type.
THEOREM TypeCorrect == Spec => []TypeOK
<1>1. IndexInv => TypeOK
  BY DEF IndexInv
<1> QED BY <1>1, IndexInvariance, PTL

\* The assertions of tryUpdateCommitIndex and AppendEntries1 on m_commitIndex
\* never fail, and the applier never reads beyond the log.
THEOREM CommitInsideLog == Spec => []CommitWithinLog
<1>1. IndexInv => CommitWithinLog
  BY DEF IndexInv
<1> QED BY <1>1, IndexInvariance, PTL

\* The assertion of updatePeerSyncState never fails.
THEOREM MatchInsideLog == Spec => []MatchWithinLog
<1>1. IndexInv => MatchWithinLog
  BY DEF IndexInv
<1> QED BY <1>1, IndexInvariance, PTL

=============================================================================

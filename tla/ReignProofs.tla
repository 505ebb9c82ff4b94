---------------------------- MODULE ReignProofs ----------------------------
(***************************************************************************)
(* Proofs about Raft while one leadership lasts: whatever calls are lost,  *)
(* late or reordered and whatever nodes restart, every log is a prefix of  *)
(* the Leader's, nodes apply the same commands, what is committed is on a  *)
(* majority of disks, and while the Leader lives the nodes implement       *)
(* ReplicatedLog.  A second leadership breaks all of this.                 *)
(***************************************************************************)
EXTENDS ReplicationProofs

-----------------------------------------------------------------------------
(* The inductive invariant of one reign *)

\* a is the beginning of b.
Begins(a, b) == Len(a) <= Len(b) /\ \A i \in 1..Len(a) : b[i] = a[i]

\* Every log is the beginning of the winner's.
LogsBegin == \A w \in won, p \in Server : Begins(logs[p], logs[w.node])

\* What the winner sends has no gaps and is what its log holds.
GapFree ==
    \A w \in won, p \in Server : \A es \in Outgoing(w.node, p) :
        \A k \in DOMAIN es : /\ es[k].index = es[1].index + (k - 1)
                             /\ logs[w.node][es[k].index] = Stored(es[k])

\* A buffer of the winner ends where its log ends.
BufferUpToDate ==
    \A w \in won, p \in Server : pending[w.node][p] # <<>> =>
        pending[w.node][p][Len(pending[w.node][p])].index = Len(logs[w.node])

\* What a node has applied is what its log holds.
AppliedFromLog ==
    \A p \in Server : \A i \in DOMAIN applied[p] : applied[p][i] = logs[p][i].cmd

\* A majority of logs reaches index c.
Held(c) == c > 0 => Cardinality({p \in Server : c <= Len(logs[p])}) >= Majority

\* Every commit index, kept or sent, is reached by a majority of logs.
CommitsHeld ==
    /\ \A p \in Server : Held(commitIndex[p])
    /\ \A m \in appReq : Held(m.commit)

\* A positive answer comes from a node whose log reaches as far as the call.
AnswersHeld ==
    \A m \in appRep : m.success => m.prevIndex + m.num <= Len(logs[m.dst])

\* In the sole reign of a Leader that lives nobody knows a commit index that
\* is ahead of the Leader's.
LeadCommits ==
    SoleReign => /\ \A p \in Server : commitIndex[p] <= ReignCommit
                 /\ \A m \in appReq : m.commit <= ReignCommit

\* Before the first election is won nothing is applied.
NoneApplied == won = {} => applied = [s \in Server |-> <<>>]

HeldInv  == CommitsHeld /\ AnswersHeld
OneLog   == LogsBegin /\ GapFree /\ BufferUpToDate
ReignInv == OneReign => OneLog /\ AppliedFromLog
BaseInv  == IndexInv /\ ElectionInv /\ BatchOrder /\ EntryInv

-----------------------------------------------------------------------------
(* Facts about beginnings *)

\* A log is the beginning of itself.
LEMMA BeginsItself == ASSUME NEW a \in Seq(Entry) PROVE Begins(a, a)
  BY DEF Begins

\* A sequence without positions is empty.
LEMMA NoPositions ==
    ASSUME NEW T, NEW a \in Seq(T), DOMAIN a = {}
    PROVE  a = <<>>
<1>1. Len(a) \in Nat /\ DOMAIN a = 1..Len(a)
  OBVIOUS
<1>2. Len(a) = 0
  <2>1. 1 \notin 1..Len(a)
    BY <1>1
  <2> QED BY <1>1, <2>1
<1> QED BY <1>2

\* The positions of two sequences one after the other.
LEMMA Joined ==
    ASSUME NEW T, NEW a \in Seq(T), NEW b \in Seq(T)
    PROVE  /\ Len(a \o b) = Len(a) + Len(b)
           /\ DOMAIN (a \o b) = 1..(Len(a) + Len(b))
           /\ \A j \in 1..(Len(a) + Len(b)) :
                (a \o b)[j] = IF j <= Len(a) THEN a[j] ELSE b[j - Len(a)]
  OBVIOUS

\* Beginnings of beginnings.
LEMMA BeginsTransitive ==
    ASSUME NEW a \in Seq(Entry), NEW b \in Seq(Entry), NEW c \in Seq(Entry),
           Begins(a, b), Begins(b, c)
    PROVE  Begins(a, c)
<1>1. Len(a) \in Nat /\ Len(b) \in Nat /\ Len(c) \in Nat
  OBVIOUS
<1>2. \A i \in 1..Len(a) : i \in 1..Len(b) /\ b[i] = a[i] /\ c[i] = b[i]
  BY <1>1 DEF Begins
<1> QED BY <1>1, <1>2 DEF Begins

\* Consecutive numbers are as far apart as their positions.
LEMMA Spacing ==
    \A a, i, j \in Nat : a + (j - 1) >= a + (i - 1) + (j - i)
  OBVIOUS

\* Merging a batch without gaps that agrees with a longer log yields a
\* beginning of that log.
LEMMA MergeBegins ==
    ASSUME NEW log \in Seq(Entry), NEW L \in Seq(Entry), NEW es \in Seq(WireEntry),
           Begins(log, L),
           \A k \in DOMAIN es : /\ es[k].index = es[1].index + (k - 1)
                                /\ es[k].index \in 1..Len(L)
                                /\ L[es[k].index] = Stored(es[k]),
           es # <<>> => es[1].index <= Len(log) + 1
    PROVE  Begins(log, Merge(log, es)) /\ Begins(Merge(log, es), L)
<1> DEFINE M == Merge(log, es)
           k == Inside(log, es)
<1>1. /\ Len(log) \in Nat /\ Len(L) \in Nat /\ Len(es) \in Nat
      /\ M \in Seq(Entry) /\ Len(M) \in Nat /\ Len(M) >= Len(log)
      /\ k \in Nat
  <2>1. Len(log) \in Nat /\ Len(L) \in Nat /\ Len(es) \in Nat
    OBVIOUS
  <2>2. M \in Seq(Entry) /\ Len(M) >= Len(log)
    BY MergeLog
  <2>3. k \in Nat
    BY InsideBound
  <2> HIDE DEF M, k
  <2>4. Len(M) \in Nat
    BY <2>2
  <2> QED BY <2>1, <2>2, <2>3, <2>4
<1>2. \A i \in DOMAIN es : es[i].index \in Nat
  <2>1. \A i \in DOMAIN es : es[i] \in WireEntry
    OBVIOUS
  <2> QED BY <2>1 DEF WireEntry
<1>3. \A i, j \in DOMAIN es : i <= j => es[j].index >= es[i].index + (j - i)
  <2> SUFFICES ASSUME NEW i \in DOMAIN es, NEW j \in DOMAIN es
               PROVE  es[j].index >= es[i].index + (j - i)
    OBVIOUS
  <2> HIDE DEF M, k
  <2>1. i \in Nat /\ j \in Nat /\ 1 \in DOMAIN es
    BY <1>1
  <2>2. es[i].index \in Nat /\ es[j].index \in Nat /\ es[1].index \in Nat
    BY <1>2, <2>1
  <2>3. es[i].index = es[1].index + (i - 1) /\ es[j].index = es[1].index + (j - 1)
    OBVIOUS
  <2>4. /\ i \in Nat /\ j \in Nat /\ es[1].index \in Nat
        /\ es[i].index = es[1].index + (i - 1)
        /\ es[j].index = es[1].index + (j - 1)
    BY <2>1, <2>2, <2>3
  <2> QED BY <2>4, Spacing
<1>4. ASSUME NEW i \in 1..Len(M)
      PROVE  /\ i <= Len(L) /\ M[i] = L[i]
             /\ i <= Len(log) => M[i] = log[i]
  <2>1. i \in Nat /\ i >= 1
    BY <1>1
  <2>2. CASE i <= Len(log) /\ M[i] = log[i]
    <3>1. i \in 1..Len(log) /\ Len(log) <= Len(L)
      BY <1>1, <2>1, <2>2 DEF Begins
    <3> QED BY <1>1, <2>1, <2>2, <3>1 DEF Begins
  <2>3. ASSUME NEW j \in DOMAIN es, M[i] = Stored(es[j]),
               i > Len(log) => j = k + i - Len(log),
               i <= es[j].index, es[1].index <= i,
               i <= Len(log) => es[j].index = i /\ es[j].term # log[i].term
        PROVE  i > Len(log) /\ i <= Len(L) /\ M[i] = L[i]
    <3>1. /\ es[j].index \in 1..Len(L) /\ L[es[j].index] = Stored(es[j])
          /\ es[j].index \in Nat
      BY <1>2
    <3>2. i > Len(log)
      <4> SUFFICES ASSUME i <= Len(log) PROVE FALSE
        BY <1>1, <2>1
      <4>1. L[i] = log[i]
        BY <1>1, <2>1 DEF Begins
      <4>2. Stored(es[j]).term = es[j].term
        BY DEF Stored
      <4> QED BY <2>3, <3>1, <4>1, <4>2
    <3>3. i = es[j].index
      <4>1. 1 \in DOMAIN es /\ j \in Nat /\ es # <<>>
        BY <1>1
      <4>2. es[1].index \in Nat /\ es[1].index \in 1..Len(L)
        BY <1>2, <4>1
      <4> DEFINE prev == es[1].index - 1
      <4>3. prev \in Nat /\ prev <= Len(log)
        BY <1>1, <4>1, <4>2
      <4>4. \A x \in DOMAIN es : es[x].index >= prev + x
        <5> SUFFICES ASSUME NEW x \in DOMAIN es PROVE es[x].index >= prev + x
          OBVIOUS
        <5>1. PICK b \in Nat : b = es[1].index
          BY <4>2
        <5>2. es[x].index = b + (x - 1) /\ x \in Nat /\ prev = b - 1
          <6> HIDE DEF k, M
          <6>1. es[x].index = es[1].index + (x - 1)
            OBVIOUS
          <6>2. x \in Nat
            BY <1>1
          <6> QED BY <5>1, <6>1, <6>2
        <5> HIDE DEF prev, k, M
        <5>3. b + (x - 1) >= prev + x
          BY <5>2
        <5> QED BY <5>2, <5>3
      <4>5. k <= Len(log) - prev
        BY <4>3, <4>4, InsideBound
      <4>6. es[j].index = es[1].index + (j - 1) /\ j = k + i - Len(log)
        BY <2>3, <3>2
      <4>7. k <= Len(log) - (es[1].index - 1)
        BY <4>5
      <4> HIDE DEF k, M, prev
      <4> DEFINE a == es[1].index
                 c == es[j].index
                 n == Len(log)
      <4>8. /\ a \in Nat /\ k \in Nat /\ n \in Nat /\ i \in Nat
            /\ k <= n - (a - 1) /\ c = a + (j - 1) /\ j = k + i - n /\ i <= c
        BY <1>1, <2>1, <2>3, <4>2, <4>6, <4>7
      <4> HIDE DEF a, c, n
      <4>9. i = c
        BY <4>8
      <4> QED BY <4>9 DEF c
    <3> QED BY <1>1, <2>3, <3>1, <3>2, <3>3
  <2>4. \/ i <= Len(log) /\ M[i] = log[i]
        \/ \E j \in DOMAIN es :
                /\ M[i] = Stored(es[j])
                /\ es[1].index <= i /\ i <= es[j].index
                /\ i > Len(log) => j = k + i - Len(log)
                /\ i <= Len(log) => es[j].index = i /\ es[j].term # log[i].term
    BY <1>3, MergeWrites
  <2>5. CASE \E j \in DOMAIN es :
                /\ M[i] = Stored(es[j])
                /\ es[1].index <= i /\ i <= es[j].index
                /\ i > Len(log) => j = k + i - Len(log)
                /\ i <= Len(log) => es[j].index = i /\ es[j].term # log[i].term
    <3>1. i > Len(log) /\ i <= Len(L) /\ M[i] = L[i]
      <4> PICK j \in DOMAIN es :
                /\ M[i] = Stored(es[j])
                /\ es[1].index <= i /\ i <= es[j].index
                /\ i > Len(log) => j = k + i - Len(log)
                /\ i <= Len(log) => es[j].index = i /\ es[j].term # log[i].term
        BY <2>5
      <4> HIDE DEF k, M
      <4> QED BY <2>3
    <3> HIDE DEF k, M
    <3> QED BY <1>1, <2>1, <3>1
  <2> HIDE DEF k, M
  <2> QED BY <2>2, <2>4, <2>5
<1> HIDE DEF M, k
<1>5. Begins(log, M)
  <2> SUFFICES ASSUME NEW i \in 1..Len(log) PROVE M[i] = log[i]
    BY <1>1 DEF Begins
  <2>1. i \in 1..Len(M) /\ i <= Len(log)
    BY <1>1
  <2> QED BY <1>4, <2>1
<1>6. Len(M) <= Len(L)
  <2>1. CASE Len(M) = 0
    BY <1>1, <2>1
  <2>2. CASE Len(M) # 0
    <3>1. Len(M) \in 1..Len(M)
      BY <1>1, <2>2
    <3> QED BY <1>4, <3>1
  <2> QED BY <2>1, <2>2
<1>7. Begins(M, L)
  BY <1>4, <1>6 DEF Begins
<1> QED BY <1>5, <1>7 DEF M

-----------------------------------------------------------------------------
(* One reign, one log *)

\* Before the first election is won there are no entries.
LEMMA NoWinner ==
    ASSUME EntryInv, won = {}
    PROVE  /\ \A p \in Server : DOMAIN logs[p] = {}
           /\ \A x, p \in Server : \A es \in Outgoing(x, p) : DOMAIN es = {}
  BY DEF EntryInv, LogsWon, OwnTerms

\* In one reign, whoever sends entries or takes operations is the winner.
LEMMA OnlyWinner ==
    ASSUME TypeOK, OneReign, NEW w \in won, NEW s \in Server, NEW t \in Nat,
           [node |-> s, term |-> t] \in won
    PROVE  w.node = s
<1>1. w = [node |-> s, term |-> t]
  BY DEF OneReign
<1> QED BY <1>1

\* Only Start adds to a buffer.
LEMMA BuffersShrink ==
    ASSUME TypeOK, [Next]_vars, ~ \E s \in Server, c \in Command : Start(s, c),
           NEW x \in Server, NEW p \in Server
    PROVE  pending'[x][p] \in {<<>>, pending[x][p]}
<1>1. pending \in [Server -> [Server -> Seq(WireEntry)]]
  BY QueueTypes
<1>2. ASSUME NEW s \in Server, Restart(s) PROVE pending'[x][p] \in {<<>>, pending[x][p]}
  BY <1>2, RestartMoves
<1>3. ASSUME NEW s \in Server, NEW flush \in SUBSET Server, BatchCollect(s, flush)
      PROVE  pending'[x][p] \in {<<>>, pending[x][p]}
  BY <1>1, <1>3 DEF BatchCollect
<1>4. \/ UNCHANGED pending \/ \E s \in Server : Restart(s)
      \/ \E s \in Server, flush \in SUBSET Server : BatchCollect(s, flush)
  BY DEF Next, vars, DoElection, HandleRequestVote, ReceiveVoteReply, VoteRpcFail,
     BatchCheckLeader, BatchReadTerm, BatchReadPrev, BatchSend, BatchRecheck,
     DoHeartBeat, HandleAppendEntries, ReceiveAppendReply, LoseAppend, Applier,
     batchVars
<1> QED BY <1>2, <1>3, <1>4

\* The winner takes an operation: its log and its buffers grow together.
LEMMA StartOneLog ==
    ASSUME BaseInv, OneReign, OneLog, NEW s \in Server, NEW c \in Command, Start(s, c)
    PROVE  OneLog' /\ \A p \in Server : Begins(logs[p], logs'[p])
<1>1. TypeOK /\ BatchesIncrease /\ CallsFitLog /\ LogsBegin /\ GapFree /\ BufferUpToDate
  BY DEF BaseInv, IndexInv, OneLog
<1>2. /\ pending \in [Server -> [Server -> Seq(WireEntry)]]
      /\ \A x, p \in Server : pending[x][p] \in Seq(WireEntry)
  BY <1>1, QueueTypes
<1>3. /\ logs \in [Server -> Seq(Entry)] /\ currentTerm[s] \in Nat
      /\ \A x \in Server : logs[x] \in Seq(Entry) /\ Len(logs[x]) \in Nat
  BY <1>1, LogTypes
<1> DEFINE e == NewEntry(s, c)
           l == Len(logs[s])
<1>4. e.index = l + 1 /\ e.term = currentTerm[s] /\ e.cmd = c /\ e \in WireEntry
  BY <1>3 DEF NewEntry, LastLogIndex, WireEntry
<1>5. \A w \in won : w.node = s
  <2>1. [node |-> s, term |-> currentTerm[s]] \in won
    BY DEF BaseInv, ElectionInv, LeaderHasWon, Start
  <2> QED BY <1>1, <1>3, <2>1, OnlyWinner
<1>6. /\ UNCHANGED <<sender, appReq, won>>
      /\ \A x, p \in Server : pending'[x][p] =
            IF x = s /\ p # s THEN Append(pending[x][p], e) ELSE pending[x][p]
  BY <1>2 DEF Start, appVars, histVars
<1>7. logs' = [logs EXCEPT ![s] = Append(logs[s], Stored(e))]
  BY DEF Start
<1>8. Stored(e) \in Entry
  BY <1>3, <1>4 DEF Stored, Entry
<1> HIDE DEF e
<1>9. /\ \A p \in Server : p # s => logs'[p] = logs[p]
      /\ logs'[s] \in Seq(Entry)
      /\ Len(logs'[s]) = l + 1 /\ logs'[s][l + 1] = Stored(e)
      /\ \A i \in 1..l : logs'[s][i] = logs[s][i]
  BY <1>3, <1>7, <1>8
<1>10. Begins(logs[s], logs'[s])
  BY <1>3, <1>9 DEF Begins
<1>11. \A p \in Server : Begins(logs[p], logs'[p])
  BY <1>3, <1>9, <1>10, BeginsItself
<1>12. LogsBegin'
  <2> SUFFICES ASSUME NEW w \in won, NEW p \in Server
               PROVE  Begins(logs'[p], logs'[s])
    BY <1>5, <1>6 DEF LogsBegin
  <2>1. CASE p = s
    BY <1>9, <2>1, BeginsItself
  <2>2. CASE p # s
    <3>1. Begins(logs[p], logs[s])
      BY <1>1, <1>5 DEF LogsBegin
    <3> QED BY <1>3, <1>9, <1>10, <2>2, <3>1, BeginsTransitive
  <2> QED BY <2>1, <2>2
<1>13. GapFree'
  <2> SUFFICES ASSUME NEW w \in won, NEW p \in Server, NEW es \in Outgoing(s, p)',
                      NEW k \in DOMAIN es
               PROVE  /\ es[k].index = es[1].index + (k - 1)
                      /\ logs'[s][es[k].index] = Stored(es[k])
    BY <1>5, <1>6 DEF GapFree
  <2>1. ASSUME NEW f \in Outgoing(s, p), NEW n \in DOMAIN f
        PROVE  /\ f[n].index = f[1].index + (n - 1) /\ f[n].index \in Nat
               /\ logs'[s][f[n].index] = Stored(f[n])
    <3>1. f[n].index \in 1..l /\ f[n].index \in Nat
      BY <1>1, OutgoingFits
    <3>2. f[n].index = f[1].index + (n - 1) /\ logs[s][f[n].index] = Stored(f[n])
      BY <1>1, <1>5 DEF GapFree
    <3> QED BY <1>9, <3>1, <3>2
  <2>2. CASE es \in Outgoing(s, p)
    BY <2>1, <2>2
  <2>3. CASE es \notin Outgoing(s, p)
    <3> DEFINE b == pending[s][p]
    <3>1. p # s /\ es = Append(b, e)
      BY <1>6, <2>3 DEF Outgoing
    <3>2. b \in Outgoing(s, p) /\ b \in Seq(WireEntry)
      BY <1>2 DEF Outgoing
    <3>3. b # <<>> => b[Len(b)].index = l
      BY <1>1, <1>5 DEF BufferUpToDate
    <3> HIDE DEF b
    <3>4. Len(b) \in Nat /\ DOMAIN es = 1..(Len(b) + 1) /\ DOMAIN b = 1..Len(b)
          /\ es[Len(b) + 1] = e /\ \A n \in 1..Len(b) : es[n] = b[n]
      BY <1>4, <3>1, <3>2
    <3>5. CASE k \in DOMAIN b
      <4>1. k \in 1..Len(b) /\ 1 \in 1..Len(b)
        BY <3>4, <3>5
      <4>2. es[k] = b[k] /\ es[1] = b[1]
        BY <3>4, <4>1
      <4> QED BY <2>1, <3>2, <3>5, <4>2
    <3>6. CASE k \notin DOMAIN b
      <4>1. k = Len(b) + 1 /\ es[k] = e
        BY <3>4, <3>6
      <4>2. logs'[s][es[k].index] = Stored(es[k])
        BY <1>4, <1>9, <4>1
      <4>3. CASE Len(b) = 0
        BY <1>3, <1>4, <3>4, <4>1, <4>2, <4>3
      <4>4. CASE Len(b) # 0
        <5>1. Len(b) \in DOMAIN b /\ 1 \in 1..Len(b) /\ b # <<>>
          BY <3>4, <4>4
        <5>2. b[Len(b)].index = b[1].index + (Len(b) - 1)
          BY <2>1, <3>2, <5>1
        <5>3. es[1] = b[1] /\ b[1].index \in Nat
          BY <2>1, <3>2, <3>4, <5>1
        <5>4. l = es[1].index + (Len(b) - 1) /\ es[k].index = l + 1
          BY <1>4, <3>3, <4>1, <5>1, <5>2, <5>3
        <5> HIDE DEF l
        <5>5. es[k].index = es[1].index + (k - 1)
          BY <3>4, <4>1, <5>3, <5>4
        <5> QED BY <4>2, <5>5
      <4> QED BY <4>3, <4>4
    <3> QED BY <3>5, <3>6
  <2> QED BY <2>2, <2>3
<1>14. BufferUpToDate'
  <2> SUFFICES ASSUME NEW w \in won, NEW p \in Server, pending'[s][p] # <<>>
               PROVE  pending'[s][p][Len(pending'[s][p])].index = Len(logs'[s])
    BY <1>5, <1>6 DEF BufferUpToDate
  <2>1. p # s
    BY <1>6 DEF BaseInv, BatchOrder, NotToSelf
  <2>2. pending'[s][p] = Append(pending[s][p], e) /\ pending[s][p] \in Seq(WireEntry)
    BY <1>2, <1>6, <2>1
  <2>3. pending'[s][p][Len(pending'[s][p])] = e
    BY <1>4, <2>2
  <2> QED BY <1>4, <1>9, <2>3
<1> QED BY <1>11, <1>12, <1>13, <1>14 DEF OneLog

\* A node merges a call: its log grows along the winner's.
LEMMA MatchOneLog ==
    ASSUME BaseInv, OneReign, OneLog, NEW m \in appReq,
           MatchLog(logs[m.dst], m.prevIndex, m.prevTerm),
           logs' = [logs EXCEPT ![m.dst] = Merge(logs[m.dst], m.entries)],
           appReq' = appReq \ {m}, UNCHANGED <<pending, sender, won>>
    PROVE  OneLog' /\ \A p \in Server : Begins(logs[p], logs'[p])
<1>1. TypeOK /\ BatchesIncrease /\ CallsFitLog /\ LogsBegin /\ GapFree /\ BufferUpToDate
  BY DEF BaseInv, IndexInv, OneLog
<1>2. /\ logs \in [Server -> Seq(Entry)]
      /\ \A x \in Server : logs[x] \in Seq(Entry) /\ Len(logs[x]) \in Nat
      /\ won \subseteq [node : Server, term : Nat]
  BY <1>1, LogTypes
<1> DEFINE d == m.dst
           es == m.entries
           log == logs[d]
           M == Merge(log, es)
<1>3. /\ m.src \in Server /\ d \in Server /\ es \in Seq(WireEntry)
      /\ m.src # d /\ es \in Outgoing(m.src, d)
  BY <1>1, QueueTypes DEF Outgoing, BaseInv, BatchOrder, NotToSelf
<1>4. M \in Seq(Entry)
  BY <1>2, <1>3, MergeLog
<1>5. es # <<>> => es[1].index <= Len(log) + 1
  <2> SUFFICES ASSUME es # <<>> PROVE es[1].index <= Len(log) + 1
    OBVIOUS
  <2>1. m.prevIndex = es[1].index - 1 /\ m.prevIndex \in 0..Len(log)
    BY <1>1 DEF CallsFitLog, MatchLog
  <2>2. 1 \in DOMAIN es
    BY <1>3
  <2>3. es[1].index \in Nat
    BY <1>1, <1>3, <2>2, OutgoingFits
  <2> HIDE DEF es, log
  <2> QED BY <1>2, <1>3, <2>1, <2>3 DEF log
<1>6. \A p \in Server : p # d => logs'[p] = logs[p]
  BY <1>2
<1>7. logs'[d] = M
  BY <1>2, <1>3
<1>8. ASSUME NEW w \in won
      PROVE  /\ Begins(log, M) /\ Begins(M, logs[w.node])
             /\ w.node \in Server
  <2>1. w.node \in Server
    BY <1>2
  <2>2. Begins(log, logs[w.node])
    BY <1>1, <1>3 DEF LogsBegin
  <2>3. \A k \in DOMAIN es : /\ es[k].index = es[1].index + (k - 1)
                             /\ es[k].index \in 1..Len(logs[w.node])
                             /\ logs[w.node][es[k].index] = Stored(es[k])
    <3> SUFFICES ASSUME NEW k \in DOMAIN es
                 PROVE  /\ es[k].index = es[1].index + (k - 1)
                        /\ es[k].index \in 1..Len(logs[w.node])
                        /\ logs[w.node][es[k].index] = Stored(es[k])
      OBVIOUS
    <3>1. es[k].index \in 1..Len(logs[m.src]) /\ es[k].term \in Nat
      BY <1>1, <1>3, OutgoingFits
    <3>2. [node |-> m.src, term |-> es[k].term] \in won
      BY <1>3 DEF BaseInv, EntryInv, OwnTerms
    <3>3. w.node = m.src
      BY <1>1, <1>3, <3>1, <3>2, OnlyWinner
    <3> QED BY <1>1, <1>3, <3>1, <3>3 DEF GapFree
  <2>4. log \in Seq(Entry) /\ logs[w.node] \in Seq(Entry)
    BY <1>2, <1>3, <2>1
  <2> HIDE DEF log, es
  <2> QED BY <1>3, <1>5, <2>1, <2>2, <2>3, <2>4, MergeBegins
<1>9. ASSUME won = {} PROVE Begins(log, M)
  <2>1. DOMAIN es = {}
    BY <1>3, <1>9, NoWinner DEF BaseInv
  <2>2. log \in Seq(Entry) /\ Begins(log, log)
    BY <1>2, <1>3, BeginsItself
  <2> HIDE DEF log, es
  <2> QED BY <1>3, <1>5, <2>1, <2>2, MergeBegins
<1>10. \A p \in Server : Begins(logs[p], logs'[p])
  BY <1>2, <1>6, <1>7, <1>8, <1>9, BeginsItself
<1>11. ASSUME NEW w \in won, NEW p \in Server
       PROVE  /\ Begins(logs'[p], logs[w.node])
              /\ logs'[p] \in Seq(Entry) /\ Len(logs'[p]) \in Nat
  <2>1. logs'[p] \in Seq(Entry)
    BY <1>2, <1>4, <1>6, <1>7
  <2>2. Begins(logs'[p], logs[w.node])
    BY <1>1, <1>6, <1>7, <1>8 DEF LogsBegin
  <2> QED BY <2>1, <2>2
<1> HIDE DEF d, es, log, M
<1>12. LogsBegin'
  <2> SUFFICES ASSUME NEW w \in won, NEW p \in Server
               PROVE  Begins(logs'[p], logs'[w.node])
    BY DEF LogsBegin
  <2> QED BY <1>2, <1>8, <1>10, <1>11, BeginsTransitive
<1>13. GapFree'
  <2> SUFFICES ASSUME NEW w \in won, NEW p \in Server,
                      NEW f \in Outgoing(w.node, p)', NEW k \in DOMAIN f
               PROVE  /\ f[k].index = f[1].index + (k - 1)
                      /\ logs'[w.node][f[k].index] = Stored(f[k])
    BY DEF GapFree
  <2>1. f \in Outgoing(w.node, p)
    BY DEF Outgoing
  <2>2. f[k].index \in 1..Len(logs[w.node])
    BY <1>1, <1>8, <2>1, OutgoingFits
  <2>3. logs'[w.node][f[k].index] = logs[w.node][f[k].index]
    BY <1>8, <1>10, <2>2 DEF Begins
  <2> QED BY <1>1, <2>1, <2>3 DEF GapFree
<1>14. BufferUpToDate'
  <2>1. ASSUME NEW w \in won PROVE Len(logs'[w.node]) = Len(logs[w.node])
    <3>1. w.node \in Server
      BY <1>8
    <3>2. /\ Len(logs'[w.node]) <= Len(logs[w.node])
          /\ Len(logs[w.node]) <= Len(logs'[w.node])
      BY <1>10, <1>11, <3>1 DEF Begins
    <3> QED BY <1>2, <1>11, <3>1, <3>2
  <2> QED BY <1>1, <2>1 DEF BufferUpToDate
<1> QED BY <1>10, <1>12, <1>13, <1>14 DEF OneLog

\* A step that leaves the logs alone keeps what is on its way true to them.
LEMMA QuietOneLog ==
    ASSUME BaseInv, OneReign => OneLog, OneReign', [Next]_vars, UNCHANGED logs,
           ~ \E s \in Server, c \in Command : Start(s, c)
    PROVE  OneLog'
<1>1. TypeOK /\ won \subseteq won' /\ OneReign /\ OneLog /\ IndexInv /\ BatchOrder
  BY WinnersStay DEF OneReign, BaseInv, IndexInv
<1>2. \A x, p \in Server : /\ \A es \in Outgoing(x, p)' : es = <<>> \/ es \in Outgoing(x, p)
                           /\ pending'[x][p] \in {<<>>, pending[x][p]}
  BY <1>1, OutgoingShrinks, BuffersShrink
<1>3. CASE won' = won
  <2>1. LogsBegin'
    BY <1>1, <1>3 DEF OneLog, LogsBegin
  <2>2. won \subseteq [node : Server, term : Nat]
    BY <1>1, LogTypes
  <2>3. GapFree'
    BY <1>1, <1>2, <1>3, <2>2 DEF OneLog, GapFree
  <2>4. BufferUpToDate'
    BY <1>1, <1>2, <1>3, <2>2 DEF OneLog, BufferUpToDate
  <2> QED BY <2>1, <2>3, <2>4 DEF OneLog
<1>4. CASE won' # won
  <2>1. won = {}
    BY <1>1, <1>4 DEF OneReign
  <2>2. TypeOK'
    BY <1>1, IndexStep DEF IndexInv
  <2>3. won' \subseteq [node : Server, term : Nat]
    BY <2>2 DEF TypeOK
  <2>4. \A p \in Server : logs[p] \in Seq(Entry) /\ logs[p] = <<>>
    <3> SUFFICES ASSUME NEW p \in Server PROVE logs[p] \in Seq(Entry) /\ logs[p] = <<>>
      OBVIOUS
    <3>1. logs[p] \in Seq(Entry) /\ DOMAIN logs[p] = {}
      BY <1>1, <2>1, LogTypes, NoWinner DEF BaseInv
    <3> QED BY <3>1, NoPositions
  <2>5. \A x, p \in Server : \A es \in Outgoing(x, p)' : DOMAIN es = {}
    BY <1>2, <2>1, NoWinner DEF BaseInv
  <2>6. LogsBegin'
    BY <2>3, <2>4 DEF LogsBegin, Begins
  <2>7. GapFree'
    BY <2>3, <2>5 DEF GapFree
  <2>8. \A x, p \in Server : pending'[x][p] = <<>>
    <3> SUFFICES ASSUME NEW x \in Server, NEW p \in Server PROVE pending'[x][p] = <<>>
      OBVIOUS
    <3>1. pending'[x][p] \in Seq(WireEntry)
      BY <2>2 DEF TypeOK
    <3>2. DOMAIN pending'[x][p] = {}
      BY <2>5 DEF Outgoing
    <3> QED BY <3>1, <3>2, NoPositions
  <2>9. BufferUpToDate'
    BY <2>3, <2>8 DEF BufferUpToDate
  <2> QED BY <2>6, <2>7, <2>9 DEF OneLog
<1> QED BY <1>3, <1>4

\* In one reign every step extends every log along one log.
LEMMA OneLogStep ==
    ASSUME BaseInv, OneReign => OneLog, OneReign', [Next]_vars
    PROVE  OneLog' /\ \A p \in Server : Begins(logs[p], logs'[p])
<1>1. TypeOK /\ won \subseteq won' /\ OneReign /\ OneLog /\ IndexInv
  BY WinnersStay DEF OneReign, BaseInv, IndexInv
<1>2. CASE \E s \in Server, c \in Command : Start(s, c)
  BY <1>1, <1>2, StartOneLog
<1>3. CASE UNCHANGED logs /\ ~ \E s \in Server, c \in Command : Start(s, c)
  <2>1. OneLog'
    BY <1>3, QuietOneLog
  <2>2. \A p \in Server : logs[p] \in Seq(Entry)
    BY <1>1, LogTypes
  <2> QED BY <1>3, <2>1, <2>2, BeginsItself
<1>4. ASSUME NEW m \in appReq, HandleAppendEntries(m), ~UNCHANGED logs
      PROVE  OneLog' /\ \A p \in Server : Begins(logs[p], logs'[p])
  <2>1. AppendMatch(m)
    BY <1>4 DEF HandleAppendEntries, AppendStale, AppendGap, AppendMismatch, nodeVars
  <2>2. /\ MatchLog(logs[m.dst], m.prevIndex, m.prevTerm)
        /\ logs' = [logs EXCEPT ![m.dst] = Merge(logs[m.dst], m.entries)]
    BY <2>1 DEF AppendMatch
  <2>3. appReq' = appReq \ {m} /\ UNCHANGED <<pending, sender, won>>
    BY <1>4 DEF HandleAppendEntries, batchVars, histVars
  <2> QED BY <1>1, <2>2, <2>3, MatchOneLog
<1> QED BY <1>1, <1>2, <1>3, <1>4, LogsMove

-----------------------------------------------------------------------------
(* What is committed is held by a majority *)

\* Logs that do not shrink go on reaching an index; a smaller index is reached
\* as well.
LEMMA HeldKept ==
    ASSUME TypeOK, TypeOK', \A p \in Server : Len(logs'[p]) >= Len(logs[p]),
           NEW c \in Nat, Held(c)
    PROVE  Held(c)' /\ \A b \in 0..c : Held(b)
<1>1. \A p \in Server : Len(logs[p]) \in Nat /\ Len(logs'[p]) \in Nat
  BY DEF TypeOK
<1>2. ASSUME NEW S, NEW T, S \subseteq T, T \subseteq Server, Cardinality(S) >= Majority
      PROVE  Cardinality(T) >= Majority
  BY <1>2, ServerSubset, MajorityType
<1>3. CASE c = 0
  BY <1>3 DEF Held
<1>4. CASE c > 0
  <2> DEFINE H(b) == {p \in Server : b <= Len(logs[p])}
             G == {p \in Server : c <= Len(logs'[p])}
  <2>1. Cardinality(H(c)) >= Majority
    BY <1>4 DEF Held
  <2>2. H(c) \subseteq G /\ G \subseteq Server
    BY <1>1
  <2>3. \A b \in 0..c : H(c) \subseteq H(b) /\ H(b) \subseteq Server
    BY <1>1
  <2>4. Cardinality(G) >= Majority /\ \A b \in 0..c : Cardinality(H(b)) >= Majority
    <3> HIDE DEF G, H
    <3> QED BY <1>2, <2>1, <2>2, <2>3
  <2> QED BY <2>4 DEF Held
<1> QED BY <1>3, <1>4

\* Two nodes whose logs reach an index are a majority of at most three.
LEMMA TwoHold ==
    ASSUME TypeOK, NEW s \in Server, NEW p \in Server, s # p, 2 >= Majority,
           NEW c \in Nat, c <= Len(logs[s]), c <= Len(logs[p])
    PROVE  Held(c)
<1> DEFINE H == {q \in Server : c <= Len(logs[q])}
<1>1. {s, p} \subseteq H /\ H \subseteq Server
  OBVIOUS
<1>2. Cardinality({s, p}) = 2
  <2>1. IsFiniteSet({s}) /\ Cardinality({s}) = 1
    BY FS_Singleton
  <2>2. Cardinality({s} \cup {p}) = 2
    <3>1. ASSUME NEW S, IsFiniteSet(S), Cardinality(S) = 1, p \notin S
          PROVE  Cardinality(S \cup {p}) = 2
      <4>1. Cardinality(S \cup {p}) = Cardinality(S) + 1
        BY <3>1, FS_AddElement
      <4> QED BY <3>1, <4>1
    <3>2. p \notin {s}
      OBVIOUS
    <3> QED BY <2>1, <3>1, <3>2, Zenon
  <2>3. {s, p} = {s} \cup {p}
    OBVIOUS
  <2> QED BY <2>2, <2>3, Zenon
<1> HIDE DEF H
<1>3. Cardinality(H) \in Nat /\ 2 <= Cardinality(H)
  BY <1>1, <1>2, ServerSubset
<1> QED BY <1>3, MajorityType DEF Held, H

\* No commit index, kept or sent, but the one given is new.
LEMMA CommitsKept ==
    ASSUME TypeOK, TypeOK', \A p \in Server : Len(logs'[p]) >= Len(logs[p]), CommitsHeld,
           \A p \in Server : \/ commitIndex'[p] = commitIndex[p]
                             \/ commitIndex'[p] = 0
                             \/ \E q \in Server : commitIndex'[p] <= commitIndex[q]
                             \/ \E m \in appReq : commitIndex'[p] <= m.commit
                             \/ \A c \in Nat : c = commitIndex'[p] => Held(c),
           \A m \in appReq' : \/ \E n \in appReq : m.commit = n.commit
                              \/ \E q \in Server : m.commit = commitIndex[q]
    PROVE  CommitsHeld'
<1>1. /\ commitIndex \in [Server -> Nat] /\ commitIndex' \in [Server -> Nat]
      /\ \A m \in appReq : m.commit \in Nat
      /\ \A m \in appReq' : m.commit \in Nat
  BY DEF TypeOK, AppReq
<1>2. ASSUME NEW c \in Nat,
             \/ c = 0 \/ Held(c)
             \/ \E q \in Server : c <= commitIndex[q]
             \/ \E m \in appReq : c <= m.commit
      PROVE  Held(c)'
  <2>1. ASSUME NEW d \in Nat, c <= d, Held(d) PROVE Held(c)'
    <3>1. c \in 0..d
      BY <2>1
    <3>2. Held(c)
      BY <2>1, <3>1, HeldKept
    <3> QED BY <3>2, HeldKept
  <2>2. CASE c = 0
    BY <2>2 DEF Held
  <2>3. CASE Held(c)
    BY <2>3, HeldKept
  <2>4. CASE \E q \in Server : c <= commitIndex[q]
    BY <1>1, <2>1, <2>4 DEF CommitsHeld
  <2>5. CASE \E m \in appReq : c <= m.commit
    BY <1>1, <2>1, <2>5 DEF CommitsHeld
  <2> QED BY <1>2, <2>2, <2>3, <2>4, <2>5
<1>3. ASSUME NEW p \in Server PROVE Held(commitIndex[p])'
  <2>1. PICK c \in Nat : c = commitIndex'[p]
    BY <1>1
  <2>2. \/ c = 0 \/ Held(c)
        \/ \E q \in Server : c <= commitIndex[q]
        \/ \E m \in appReq : c <= m.commit
    BY <1>1, <2>1
  <2>3. Held(c)'
    BY <1>2, <2>2
  <2> QED BY <2>1, <2>3 DEF Held
<1>4. ASSUME NEW m \in appReq' PROVE Held(m.commit)'
  <2>1. m.commit \in Nat /\ (\/ \E q \in Server : m.commit <= commitIndex[q]
                             \/ \E n \in appReq : m.commit <= n.commit)
    BY <1>1
  <2> QED BY <1>2, <2>1
<1> QED BY <1>3, <1>4 DEF CommitsHeld

\* Where commit indices come from: a call carries the one of its sender, and a
\* node takes its own from a call or, as Leader, from a positive answer.
LEMMA CommitMoves ==
    ASSUME IndexInv, [Next]_vars
    PROVE  /\ \A m \in appReq' : \/ \E n \in appReq : m.commit = n.commit
                                 \/ \E q \in Server : m.commit = commitIndex[q]
           /\ \A p \in Server :
                \/ commitIndex'[p] \in {0, commitIndex[p]}
                \/ \E m \in appReq : commitIndex'[p] <= m.commit
                \/ \E m \in appRep : /\ m.src = p /\ m.success /\ PeerSynced(m)
                                     /\ status[p] = "Leader"
<1>1. /\ TypeOK /\ CallsFitLog /\ SenderHoldsBatch /\ commitIndex \in [Server -> Nat]
      /\ \A m \in appRep : m.src \in Server
  <2>1. TypeOK /\ CallsFitLog /\ SenderHoldsBatch
    BY DEF IndexInv
  <2>2. \A m \in appRep : m \in AppRep
    BY <2>1 DEF TypeOK
  <2> QED BY <2>1, <2>2 DEF TypeOK, AppRep
<1> DEFINE Calls == \A m \in appReq' : \/ \E n \in appReq : m.commit = n.commit
                                       \/ \E q \in Server : m.commit = commitIndex[q]
           Own == \A p \in Server :
                    \/ commitIndex'[p] \in {0, commitIndex[p]}
                    \/ \E m \in appReq : commitIndex'[p] <= m.commit
                    \/ \E m \in appRep : /\ m.src = p /\ m.success /\ PeerSynced(m)
                                         /\ status[p] = "Leader"
<1>2. ASSUME appReq' \subseteq appReq PROVE Calls
  BY <1>2
<1>3. ASSUME UNCHANGED commitIndex PROVE Own
  BY <1>3
<1>4. ASSUME NEW s \in Server, Restart(s) PROVE Calls /\ Own
  <2>1. \A m \in appReq' : \E n \in appReq : m.commit = n.commit
    BY <1>1, <1>4, RestartMoves
  <2>2. \A p \in Server : commitIndex'[p] \in {0, commitIndex[p]}
    BY <1>1, <1>4 DEF Restart
  <2> QED BY <2>1, <2>2
<1>5. ASSUME NEW s \in Server, BatchSend(s) PROVE Calls /\ Own
  <2>1. \A m \in appReq' : m \in appReq \/ m.commit = commitIndex[s]
    BY <1>1, <1>5, SendMoves
  <2>2. UNCHANGED commitIndex
    BY <1>5 DEF BatchSend, indexVars
  <2> QED BY <1>3, <2>1, <2>2
<1>6. ASSUME NEW s \in Server, NEW reach \in SUBSET Server, DoHeartBeat(s, reach)
      PROVE  Calls /\ Own
  <2>1. \A m \in appReq' : m \in appReq \/ m.commit = commitIndex[s]
    BY <1>6, HeartBeatCalls
  <2>2. UNCHANGED commitIndex
    BY <1>6 DEF DoHeartBeat
  <2> QED BY <1>3, <2>1, <2>2
<1>7. ASSUME NEW m \in appReq, HandleAppendEntries(m) PROVE Calls /\ Own
  <2>1. Calls
    BY <1>2, <1>7 DEF HandleAppendEntries
  <2>2. CASE ~UNCHANGED commitIndex
    <3>1. AppendMatch(m)
      BY <1>7, <2>2 DEF HandleAppendEntries, AppendStale, AppendGap, AppendMismatch
    <3>2. PICK n \in Nat : n = Len(Merge(logs[m.dst], m.entries))
      <4>1. Merge(logs[m.dst], m.entries) \in Seq(Entry)
        BY <1>1, CallEnd, LogTypes, MergeLog
      <4> QED BY <4>1
    <3>3. commitIndex' = [commitIndex EXCEPT ![m.dst] =
                              FollowerCommit(commitIndex[m.dst], m.commit, n)]
      BY <3>1, <3>2 DEF AppendMatch
    <3>4. m.dst \in Server /\ m.commit \in Nat
      BY <1>1, CallEnd
    <3>5. \/ FollowerCommit(commitIndex[m.dst], m.commit, n) = commitIndex[m.dst]
          \/ FollowerCommit(commitIndex[m.dst], m.commit, n) <= m.commit
      BY <1>1, <3>2, <3>4 DEF FollowerCommit, Smaller
    <3> QED BY <1>1, <2>1, <3>3, <3>4, <3>5
  <2> QED BY <1>3, <2>1, <2>2
<1>8. ASSUME NEW m \in appRep, ReceiveAppendReply(m) PROVE Calls /\ Own
  <2>1. Calls
    BY <1>2, <1>8 DEF ReceiveAppendReply
  <2>2. CASE ~UNCHANGED commitIndex
    <3>1. PeerSynced(m) /\ m.success /\ status[m.src] = "Leader"
      BY <1>8, <2>2 DEF ReceiveAppendReply
    <3>2. \A p \in Server : p # m.src => commitIndex'[p] = commitIndex[p]
      BY <1>1, <3>1 DEF PeerSynced
    <3> QED BY <2>1, <3>1, <3>2
  <2> QED BY <1>3, <2>1, <2>2
<1>9. \/ appReq' \subseteq appReq /\ UNCHANGED commitIndex
      \/ \E s \in Server : Restart(s) \/ BatchSend(s)
      \/ \E s \in Server, reach \in SUBSET Server : DoHeartBeat(s, reach)
      \/ \E m \in appReq : HandleAppendEntries(m)
      \/ \E m \in appRep : ReceiveAppendReply(m)
  BY DEF Next, vars, DoElection, HandleRequestVote, ReceiveVoteReply, VoteRpcFail,
     Start, BatchCheckLeader, BatchReadTerm, BatchReadPrev, BatchCollect,
     BatchRecheck, LoseAppend, Applier, appVars, indexVars
<1> HIDE DEF Calls, Own
<1>10. Calls /\ Own
  BY <1>2, <1>3, <1>4, <1>5, <1>6, <1>7, <1>8, <1>9
<1> QED BY <1>10 DEF Calls, Own

\* Nothing a node does commits an index that a majority of logs does not
\* reach, nor answers for an index that its log does not reach.
LEMMA HeldStep ==
    ASSUME BaseInv, HeldInv, [Next]_vars
    PROVE  HeldInv'
<1>1. /\ IndexInv /\ IndexInv' /\ TypeOK /\ TypeOK' /\ CommitsHeld /\ AnswersHeld
      /\ CallsFitLog /\ AnswersFitLog
  BY IndexStep DEF BaseInv, IndexInv, HeldInv
<1>2. \A p \in Server : Len(logs'[p]) >= Len(logs[p]) /\ Len(logs[p]) \in Nat
                        /\ Len(logs'[p]) \in Nat
  BY <1>1, NextMonotonic, LogTypes DEF MonotonicStep, TypeOK
<1>3. /\ \A m \in appRep : m.dst \in Server /\ m.src \in Server /\ m.src # m.dst
                           /\ m.prevIndex \in Nat /\ m.num \in Nat
      /\ commitIndex \in [Server -> Nat]
  <2>1. \A m \in appRep : m \in AppRep
    BY <1>1 DEF TypeOK
  <2>2. commitIndex \in [Server -> Nat]
    BY <1>1 DEF TypeOK
  <2> QED BY <2>1, <2>2 DEF AppRep, BaseInv, BatchOrder, NotToSelf
<1>4. ASSUME NEW m \in appReq, HandleAppendEntries(m), NEW r \in appRep', r \notin appRep,
             r.success
      PROVE  r.prevIndex + r.num <= Len(logs'[r.dst])
  <2>1. AppendMatch(m)
    BY <1>4 DEF HandleAppendEntries, AppendStale, AppendGap, AppendMismatch, Answer
  <2>2. /\ m.dst \in Server /\ m.prevIndex \in Nat /\ m.entries \in Seq(WireEntry)
        /\ \A i \in DOMAIN m.entries : m.entries[i].index >= m.prevIndex + i
    BY <1>1, CallEnd
  <2>3. r.prevIndex = m.prevIndex /\ r.num = Len(m.entries) /\ r.dst = m.dst
    BY <1>4, <2>1 DEF AppendMatch, Answer
  <2>4. logs'[m.dst] = Merge(logs[m.dst], m.entries) /\ m.prevIndex <= Len(logs[m.dst])
    BY <1>1, <1>2, <2>1, <2>2, LogTypes DEF AppendMatch, MatchLog
  <2>5. Len(Merge(logs[m.dst], m.entries)) >= m.prevIndex + Len(m.entries)
    BY <1>1, <2>2, <2>4, LogTypes, MergeLog
  <2>6. Len(m.entries) \in Nat
    BY <2>2
  <2> QED BY <1>2, <2>2, <2>3, <2>4, <2>5, <2>6
<1>5. AnswersHeld'
  <2> SUFFICES ASSUME NEW r \in appRep', r.success
               PROVE  r.prevIndex + r.num <= Len(logs'[r.dst])
    BY DEF AnswersHeld
  <2>1. CASE r \in appRep
    BY <1>1, <1>2, <1>3, <2>1 DEF AnswersHeld
  <2>2. CASE r \notin appRep
    <3>1. \E m \in appReq : HandleAppendEntries(m)
      BY <2>2 DEF Next, vars, Restart, DoElection, HandleRequestVote, ReceiveVoteReply,
         VoteRpcFail, Start, BatchCheckLeader, BatchReadTerm, BatchReadPrev, BatchSend,
         BatchCollect, BatchRecheck, DoHeartBeat, ReceiveAppendReply, LoseAppend,
         Applier, appVars
    <3> QED BY <1>4, <2>2, <3>1
  <2> QED BY <2>1, <2>2
<1>6. ASSUME NEW p \in Server, NEW m \in appRep, m.src = p, m.success, PeerSynced(m),
             NEW c \in Nat, c = commitIndex'[p]
      PROVE  c = commitIndex[p] \/ Held(c)
  <2>1. PICK n \in Nat : n = m.prevIndex + m.num
    BY <1>3
  <2>2. n <= Len(logs[m.src]) /\ n <= Len(logs[m.dst])
    BY <1>1, <1>6, <2>1 DEF AnswersFitLog, AnswersHeld
  <2>3. commitIndex' = [commitIndex EXCEPT ![m.src] =
            IF 2 >= Majority /\ m.num > 0 /\ m.lastTerm = currentTerm[m.src]
            THEN Larger(@, n) ELSE @]
    BY <1>6, <2>1 DEF PeerSynced
  <2>4. c = commitIndex[p] \/ (2 >= Majority /\ c = n)
    BY <1>3, <1>6, <2>3 DEF Larger
  <2> QED BY <1>1, <1>3, <2>2, <2>4, TwoHold
<1>7. CommitsHeld'
  <2>1. \A p \in Server : \/ commitIndex'[p] = commitIndex[p]
                          \/ commitIndex'[p] = 0
                          \/ \E m \in appReq : commitIndex'[p] <= m.commit
                          \/ \A c \in Nat : c = commitIndex'[p] => Held(c)
    BY <1>1, <1>6, CommitMoves
  <2>2. \A m \in appReq' : \/ \E n \in appReq : m.commit = n.commit
                           \/ \E q \in Server : m.commit = commitIndex[q]
    BY <1>1, CommitMoves
  <2> QED BY <1>1, <1>2, <2>1, <2>2, CommitsKept
<1> QED BY <1>5, <1>7 DEF HeldInv

-----------------------------------------------------------------------------
(* What is applied comes from the log *)

\* While logs only grow, what a node has applied stays what its log holds.
LEMMA AppliedStep ==
    ASSUME BaseInv, AppliedFromLog, [Next]_vars,
           \A p \in Server : Begins(logs[p], logs'[p])
    PROVE  AppliedFromLog'
<1>1. TypeOK /\ CommitWithinLog
  BY DEF BaseInv, IndexInv
<1>2. /\ applied \in [Server -> Seq(Command)] /\ logs \in [Server -> Seq(Entry)]
      /\ \A p \in Server :
            /\ applied[p] \in Seq(Command) /\ DOMAIN applied[p] = 1..Len(applied[p])
            /\ Len(applied[p]) \in Nat /\ Len(logs[p]) \in Nat
            /\ commitIndex[p] \in Nat /\ lastApplied[p] \in Nat
            /\ Len(applied[p]) = lastApplied[p] /\ lastApplied[p] <= commitIndex[p]
            /\ commitIndex[p] <= Len(logs[p])
  <2>1. /\ applied \in [Server -> Seq(Command)] /\ logs \in [Server -> Seq(Entry)]
        /\ commitIndex \in [Server -> Nat] /\ lastApplied \in [Server -> Nat]
    BY <1>1 DEF TypeOK
  <2>2. \A p \in Server : applied[p] \in Seq(Command) /\ logs[p] \in Seq(Entry)
    BY <2>1
  <2>3. \A p \in Server : /\ DOMAIN applied[p] = 1..Len(applied[p])
                          /\ Len(applied[p]) \in Nat /\ Len(logs[p]) \in Nat
    BY <2>2
  <2> QED BY <1>1, <2>1, <2>2, <2>3 DEF CommitWithinLog
<1>3. ASSUME NEW p \in Server, NEW i \in 1..Len(logs[p]) PROVE logs'[p][i] = logs[p][i]
  BY DEF Begins
<1>4. ASSUME NEW p \in Server, NEW i \in DOMAIN applied[p]
      PROVE  applied[p][i] = logs'[p][i].cmd
  <2>1. i \in 1..Len(applied[p]) /\ Len(applied[p]) <= Len(logs[p])
    BY <1>2
  <2>2. i \in 1..Len(logs[p])
    BY <1>2, <2>1
  <2> QED BY <1>3, <2>2 DEF AppliedFromLog
<1>5. CASE UNCHANGED applied
  BY <1>4, <1>5 DEF AppliedFromLog
<1>6. ASSUME NEW s \in Server, Restart(s) PROVE AppliedFromLog'
  <2>1. \A p \in Server : applied'[p] = applied[p] \/ DOMAIN applied'[p] = {}
    BY <1>2, <1>6 DEF Restart
  <2> QED BY <1>4, <2>1 DEF AppliedFromLog
<1>7. ASSUME NEW s \in Server, Applier(s) PROVE AppliedFromLog'
  <2> DEFINE n == commitIndex[s] - lastApplied[s]
             new == [i \in 1..n |-> logs[s][lastApplied[s] + i].cmd]
  <2>1. n \in Nat /\ UNCHANGED logs
    BY <1>2, <1>7 DEF Applier, nodeVars
  <2>2. new \in Seq(Command) /\ Len(new) = n
    <3>1. \A i \in 1..n : logs[s][lastApplied[s] + i].cmd \in Command
      <4> SUFFICES ASSUME NEW i \in 1..n
                   PROVE  logs[s][lastApplied[s] + i].cmd \in Command
        OBVIOUS
      <4>1. lastApplied[s] + i \in 1..Len(logs[s])
        BY <1>2, <2>1
      <4>2. logs[s] \in Seq(Entry)
        BY <1>2
      <4>3. logs[s][lastApplied[s] + i] \in Entry
        BY <4>1, <4>2
      <4> QED BY <4>3 DEF Entry
    <3> HIDE DEF n
    <3> QED BY <2>1, <3>1
  <2>3. applied' = [applied EXCEPT ![s] = applied[s] \o new]
    BY <1>7 DEF Applier
  <2> SUFFICES ASSUME NEW p \in Server, NEW i \in DOMAIN applied'[p]
               PROVE  applied'[p][i] = logs'[p][i].cmd
    BY DEF AppliedFromLog
  <2>4. CASE p # s
    BY <1>2, <1>4, <2>3, <2>4
  <2>5. CASE p = s
    <3> HIDE DEF new
    <3>1. applied'[p] = applied[s] \o new
      BY <1>2, <2>3, <2>5
    <3>2. /\ Len(applied[s] \o new) = Len(applied[s]) + n
          /\ DOMAIN (applied[s] \o new) = 1..(Len(applied[s]) + n)
          /\ \A j \in 1..(Len(applied[s]) + n) :
                (applied[s] \o new)[j] = IF j <= Len(applied[s]) THEN applied[s][j]
                                         ELSE new[j - Len(applied[s])]
      <4> HIDE DEF n
      <4>1. applied[s] \in Seq(Command) /\ new \in Seq(Command) /\ Len(new) = n
        BY <1>2, <2>2
      <4> QED BY <4>1, Joined
    <3>3. CASE i <= Len(applied[s])
      <4>1. i \in DOMAIN applied[s] /\ applied'[p][i] = applied[s][i]
        BY <1>2, <2>1, <3>1, <3>2, <3>3
      <4> QED BY <1>4, <2>5, <4>1
    <3>4. CASE i > Len(applied[s])
      <4>1. i - lastApplied[s] \in 1..n
        BY <1>2, <2>1, <3>1, <3>2, <3>4
      <4>2. applied'[p][i] = new[i - lastApplied[s]]
        BY <1>2, <2>1, <3>1, <3>2, <3>4
      <4>3. new[i - lastApplied[s]] = logs[s][lastApplied[s] + (i - lastApplied[s])].cmd
        BY <4>1 DEF new
      <4>4. lastApplied[s] + (i - lastApplied[s]) = i
        BY <1>2, <2>1, <3>1, <3>2
      <4> QED BY <2>1, <2>5, <4>2, <4>3, <4>4
    <3> QED BY <1>2, <2>1, <3>1, <3>2, <3>3, <3>4
  <2> QED BY <2>4, <2>5
<1>8. UNCHANGED applied \/ \E s \in Server : Restart(s) \/ Applier(s)
  BY DEF Next, vars, DoElection, HandleRequestVote, ReceiveVoteReply, VoteRpcFail,
     Start, BatchCheckLeader, BatchReadTerm, BatchReadPrev, BatchSend, BatchCollect,
     BatchRecheck, DoHeartBeat, HandleAppendEntries, ReceiveAppendReply, LoseAppend,
     indexVars
<1> QED BY <1>5, <1>6, <1>7, <1>8

-----------------------------------------------------------------------------
(* One Leader that lives: the nodes act as one log *)

\* Two logs that begin each other are one.
LEMMA BeginsBoth ==
    ASSUME NEW a \in Seq(Entry), NEW b \in Seq(Entry), Begins(a, b), Begins(b, a)
    PROVE  a = b
<1>1. Len(a) \in Nat /\ Len(b) \in Nat
  OBVIOUS
<1>2. Len(a) = Len(b) /\ \A i \in 1..Len(a) : a[i] = b[i]
  BY <1>1 DEF Begins
<1> QED BY <1>2

\* What the commands of a log are.
LEMMA CommandsType ==
    ASSUME NEW log \in Seq(Entry)
    PROVE  Commands(log) \in Seq(Command) /\ Len(Commands(log)) = Len(log)
           /\ \A i \in 1..Len(log) : Commands(log)[i] = log[i].cmd
<1>1. Len(log) \in Nat /\ \A i \in 1..Len(log) : log[i] \in Entry
  OBVIOUS
<1>2. \A i \in 1..Len(log) : log[i].cmd \in Command
  BY <1>1 DEF Entry
<1> QED BY <1>1, <1>2 DEF Commands

\* The views of the reign, once it has begun.
LEMMA ReignViews ==
    ASSUME OneReign, NEW w \in won
    PROVE  /\ Winner = w.node /\ ReignLeader = w.node
           /\ ReignCommands = Commands(logs[w.node])
           /\ ReignCommit = commitIndex[w.node]
<1>1. won # {}
  OBVIOUS
<1>2. (CHOOSE x \in won : TRUE) = w
  BY DEF OneReign
<1>3. Winner = w.node
  BY <1>2 DEF Winner
<1> QED BY <1>1, <1>3 DEF ReignLeader, ReignCommands, ReignCommit

\* The same of the next state.
LEMMA ReignViewsNext ==
    ASSUME OneReign', NEW w \in won'
    PROVE  /\ Winner' = w.node /\ ReignLeader' = w.node
           /\ ReignCommands' = Commands(logs'[w.node])
           /\ ReignCommit' = commitIndex'[w.node]
<1>1. won' # {}
  OBVIOUS
<1>2. (CHOOSE x \in won' : TRUE) = w
  BY DEF OneReign
<1>3. Winner' = w.node
  BY <1>2 DEF Winner
<1>4. ReignLeader' = w.node
  BY <1>1, <1>3 DEF ReignLeader
<1>5. ReignCommands' = Commands(logs'[w.node])
  BY <1>1, <1>3 DEF ReignCommands, Commands
<1>6. ReignCommit' = commitIndex'[w.node]
  BY <1>1, <1>3 DEF ReignCommit
<1> QED BY <1>3, <1>4, <1>5, <1>6

\* An election that is won changes no log and no commit index.
LEMMA WinMoves ==
    ASSUME [Next]_vars, won' # won
    PROVE  \E m \in voteRep : /\ ReceiveVoteReply(m) /\ BecomeLeader(m.src)
                              /\ m.granted /\ m.term = currentTerm[m.src]
                              /\ UNCHANGED <<logs, commitIndex, applied>>
<1>1. PICK m \in voteRep : ReceiveVoteReply(m)
  BY DEF Next, vars, Restart, DoElection, HandleRequestVote, VoteRpcFail, Start,
     BatchCheckLeader, BatchReadTerm, BatchReadPrev, BatchSend, BatchCollect,
     BatchRecheck, DoHeartBeat, HandleAppendEntries, ReceiveAppendReply, LoseAppend,
     Applier, histVars
<1>2. BecomeLeader(m.src) /\ m.granted /\ m.term = currentTerm[m.src]
  BY <1>1 DEF ReceiveVoteReply
<1>3. UNCHANGED <<logs, commitIndex, applied>>
  BY <1>1, <1>2 DEF ReceiveVoteReply, BecomeLeader
<1> QED BY <1>1, <1>2, <1>3

\* A sole reign has been one from its beginning, and only followers restart.
LEMMA SoleBefore ==
    ASSUME BaseInv, [Next]_vars, SoleReign'
    PROVE  /\ SoleReign /\ won \subseteq won'
           /\ \A s \in Server : Restart(s) => \A w \in won : w.node # s
<1>1. TypeOK /\ ElectionInv /\ won \subseteq won' /\ OneReign' /\ OneReign
  BY WinnersStay DEF BaseInv, IndexInv, SoleReign, OneReign
<1>2. batchRunning \in [Server -> BOOLEAN] /\ won \subseteq [node : Server, term : Nat]
  BY <1>1, LogTypes, QueueTypes
<1> SUFFICES ASSUME NEW w \in won
             PROVE  /\ batchRunning[w.node]
                    /\ \A s \in Server : Restart(s) => w.node # s
  BY <1>1 DEF SoleReign
<1>3. batchRunning'[w.node] /\ w \in won' /\ w.node \in Server
  BY <1>1, <1>2 DEF SoleReign
<1>4. ASSUME NEW s \in Server, Restart(s) PROVE w.node # s
  BY <1>2, <1>3, <1>4 DEF Restart
<1>5. batchRunning[w.node]
  <2>1. CASE UNCHANGED batchRunning
    BY <1>3, <2>1
  <2>2. ASSUME NEW s \in Server, Restart(s) PROVE batchRunning[w.node]
    BY <1>2, <1>3, <1>4, <2>2 DEF Restart
  <2>3. ASSUME NEW m \in voteRep, ReceiveVoteReply(m), ~UNCHANGED batchRunning
        PROVE  batchRunning[w.node]
    <3>1. BecomeLeader(m.src) /\ m.granted /\ m.term = currentTerm[m.src]
          /\ elect[m.src].voteNum + 1 >= Majority
      BY <2>3 DEF ReceiveVoteReply
    <3>2. [node |-> m.src, term |-> currentTerm[m.src]] \in won' \ won
      BY <1>1, <2>3, <3>1, WinIsNew DEF BecomeLeader
    <3> QED BY <1>1, <1>3, <3>2 DEF OneReign
  <2>4. \/ UNCHANGED batchRunning \/ \E s \in Server : Restart(s)
        \/ \E m \in voteRep : ReceiveVoteReply(m)
    BY DEF Next, vars, DoElection, HandleRequestVote, VoteRpcFail, Start,
       BatchCheckLeader, BatchReadTerm, BatchReadPrev, BatchSend, BatchCollect,
       BatchRecheck, DoHeartBeat, HandleAppendEntries, ReceiveAppendReply, LoseAppend,
       Applier, batchVars
  <2> QED BY <2>1, <2>2, <2>3, <2>4
<1> QED BY <1>4, <1>5

\* The commit index of the reign does not go back.
LEMMA ReignCommitGrows ==
    ASSUME BaseInv, BaseInv', [Next]_vars, SoleReign'
    PROVE  ReignCommit \in Nat /\ ReignCommit' \in Nat /\ ReignCommit <= ReignCommit'
<1>1. /\ IndexInv /\ SoleReign /\ OneReign /\ OneReign' /\ won \subseteq won'
      /\ \A s \in Server : Restart(s) => \A w \in won : w.node # s
  BY SoleBefore DEF BaseInv, SoleReign
<1>2. /\ commitIndex \in [Server -> Nat] /\ commitIndex' \in [Server -> Nat]
      /\ won \subseteq [node : Server, term : Nat]
      /\ won' \subseteq [node : Server, term : Nat]
  BY DEF BaseInv, IndexInv, TypeOK
<1>3. ReignCommit' \in Nat
  <2>1. CASE won' = {}
    BY <2>1 DEF ReignCommit
  <2>2. ASSUME NEW w \in won' PROVE ReignCommit' \in Nat
    BY <1>1, <1>2, ReignViewsNext
  <2> QED BY <2>1, <2>2
<1>4. CASE won = {}
  <2>1. ReignCommit = 0
    BY <1>4 DEF ReignCommit
  <2> QED BY <1>3, <2>1
<1>5. ASSUME NEW w \in won
      PROVE  ReignCommit \in Nat /\ ReignCommit <= ReignCommit'
  <2>1. w \in won' /\ w.node \in Server
    BY <1>1, <1>2
  <2>2. ReignCommit = commitIndex[w.node]
    BY <1>1, ReignViews
  <2>3. ReignCommit' = commitIndex'[w.node]
    BY <1>1, <2>1, ReignViewsNext
  <2>4. commitIndex[w.node] <= commitIndex'[w.node]
    <3>1. ASSUME NEW s \in Server, Restart(s)
          PROVE  commitIndex[w.node] <= commitIndex'[w.node]
      <4>1. w.node # s
        BY <1>1, <3>1
      <4>2. commitIndex' = [commitIndex EXCEPT ![s] = 0]
        BY <3>1 DEF Restart
      <4> QED BY <1>2, <2>1, <4>1, <4>2
    <3>2. CASE restarts' = restarts
      BY <1>1, <1>2, <2>1, <3>2, NextMonotonic DEF MonotonicStep
    <3>3. restarts' = restarts \/ \E s \in Server : Restart(s)
      BY DEF Next, vars, DoElection, HandleRequestVote, ReceiveVoteReply, VoteRpcFail,
         Start, BatchCheckLeader, BatchReadTerm, BatchReadPrev, BatchSend, BatchCollect,
         BatchRecheck, DoHeartBeat, HandleAppendEntries, ReceiveAppendReply, LoseAppend,
         Applier
    <3> QED BY <3>1, <3>2, <3>3
  <2> QED BY <1>2, <2>1, <2>2, <2>3, <2>4
<1> QED BY <1>3, <1>4, <1>5

\* Nobody gets ahead of the Leader of the sole reign.
LEMMA LeadStep ==
    ASSUME BaseInv, BaseInv', LeadCommits, [Next]_vars
    PROVE  LeadCommits'
<1> SUFFICES ASSUME SoleReign'
             PROVE  /\ \A p \in Server : commitIndex'[p] <= ReignCommit'
                    /\ \A m \in appReq' : m.commit <= ReignCommit'
  BY DEF LeadCommits
<1>1. IndexInv /\ TypeOK /\ SoleReign /\ OneReign /\ OneReign' /\ won \subseteq won'
  BY SoleBefore DEF BaseInv, IndexInv, SoleReign
<1>2. /\ \A p \in Server : commitIndex[p] \in Nat /\ commitIndex'[p] \in Nat
      /\ \A m \in appReq : m.commit \in Nat
      /\ \A m \in appReq' : m.commit \in Nat
  <2>1. appReq \subseteq AppReq /\ appReq' \subseteq AppReq
        /\ commitIndex \in [Server -> Nat] /\ commitIndex' \in [Server -> Nat]
    BY DEF BaseInv, IndexInv, TypeOK
  <2> QED BY <2>1 DEF AppReq
<1>3. ReignCommit \in Nat /\ ReignCommit' \in Nat /\ ReignCommit <= ReignCommit'
  BY ReignCommitGrows
<1>4. /\ \A p \in Server : commitIndex[p] <= ReignCommit
      /\ \A m \in appReq : m.commit <= ReignCommit
  BY <1>1 DEF LeadCommits
<1>5. ASSUME NEW p \in Server PROVE commitIndex'[p] <= ReignCommit'
  <2>1. CASE status[p] = "Leader"
    <3>1. [node |-> p, term |-> currentTerm[p]] \in won'
      BY <1>1, <2>1 DEF BaseInv, ElectionInv, LeaderHasWon
    <3>2. ReignCommit' = commitIndex'[p]
      BY <1>1, <3>1, ReignViewsNext
    <3> QED BY <1>2, <3>2
  <2>2. CASE status[p] # "Leader"
    <3>1. \/ commitIndex'[p] \in {0, commitIndex[p]}
          \/ \E m \in appReq : commitIndex'[p] <= m.commit
      BY <1>1, <2>2, CommitMoves
    <3> QED BY <1>2, <1>3, <1>4, <3>1
  <2> QED BY <2>1, <2>2
<1>6. ASSUME NEW m \in appReq' PROVE m.commit <= ReignCommit'
  <2>1. \/ \E n \in appReq : m.commit = n.commit
        \/ \E q \in Server : m.commit = commitIndex[q]
    BY <1>1, CommitMoves
  <2> QED BY <1>2, <1>3, <1>4, <2>1
<1> QED BY <1>5, <1>6

\* Before the first election is won no node commits or applies anything.
LEMMA NothingYet ==
    ASSUME BaseInv, won = {}
    PROVE  /\ applied = [s \in Server |-> <<>>]
           /\ \A p \in Server : logs[p] = <<>> /\ commitIndex[p] = 0
<1>1. TypeOK /\ CommitWithinLog
  BY DEF BaseInv, IndexInv
<1>2. /\ applied \in [Server -> Seq(Command)] /\ commitIndex \in [Server -> Nat]
      /\ lastApplied \in [Server -> Nat]
  BY <1>1 DEF TypeOK
<1>3. ASSUME NEW p \in Server
      PROVE  logs[p] = <<>> /\ commitIndex[p] = 0 /\ applied[p] = <<>>
  <2>1. logs[p] = <<>>
    <3>1. logs[p] \in Seq(Entry) /\ DOMAIN logs[p] = {}
      BY <1>1, LogTypes, NoWinner DEF BaseInv
    <3> QED BY <3>1, NoPositions
  <2>2. Len(logs[p]) = 0
    BY <2>1
  <2>3. commitIndex[p] = 0 /\ Len(applied[p]) = 0
    BY <1>1, <1>2, <2>2 DEF CommitWithinLog
  <2>4. applied[p] = <<>>
    BY <1>2, <2>3
  <2> QED BY <2>1, <2>3, <2>4
<1> QED BY <1>2, <1>3

\* The win of the first election is the election of the log's Leader.
LEMMA WinElects ==
    ASSUME BaseInv, BaseInv', [Next]_vars, SoleReign', won = {}, NEW w \in won'
    PROVE  ReignLog!LogNext
<1>1. UNCHANGED <<logs, commitIndex, applied>>
  BY WinMoves
<1>2. w.node \in Server
  BY DEF BaseInv, IndexInv, TypeOK
<1>3. logs[w.node] = <<>> /\ commitIndex[w.node] = 0
  BY <1>2, NothingYet
<1>4. ReignLeader = Nil /\ ReignCommands = <<>> /\ ReignCommit = 0
  BY DEF ReignLeader, ReignCommands, ReignCommit
<1>5. /\ ReignLeader' = w.node /\ ReignCommands' = Commands(logs'[w.node])
      /\ ReignCommit' = commitIndex'[w.node]
  BY ReignViewsNext DEF SoleReign
<1>6. ReignCommands' = <<>>
  <2>1. Commands(<<>>) = <<>>
    BY DEF Commands
  <2> QED BY <1>1, <1>3, <1>5, <2>1
<1>7. ReignLog!LogElect(w.node, 0)
  <2>1. w.node # ReignLeader
    BY <1>2, <1>4, NilAssumption
  <2>2. 0 \in ReignCommit..Len(ReignCommands)
    BY <1>4
  <2>3. ReignCommands' = SubSeq(ReignCommands, 1, 0)
    BY <1>4, <1>6
  <2>4. ReignLeader' = w.node /\ UNCHANGED <<ReignCommit, applied>>
    BY <1>1, <1>3, <1>4, <1>5
  <2> QED BY <2>1, <2>2, <2>3, <2>4 DEF ReignLog!LogElect
<1>8. 0 \in 0..Len(ReignCommands)
  BY <1>4
<1> QED BY <1>2, <1>7, <1>8 DEF ReignLog!LogNext

\* A step is one of five that the log of the reign can notice.
LEMMA NoticedSteps ==
    ASSUME [Next]_vars
    PROVE  \/ UNCHANGED <<logs, commitIndex, applied>>
           \/ \E s \in Server, c \in Command : Start(s, c)
           \/ \E s \in Server : Restart(s) \/ Applier(s)
           \/ \E m \in appReq : HandleAppendEntries(m)
           \/ \E m \in appRep : ReceiveAppendReply(m)
  BY DEF Next, vars, nodeVars, indexVars, DoElection, HandleRequestVote,
     ReceiveVoteReply, VoteRpcFail, BatchCheckLeader, BatchReadTerm, BatchReadPrev,
     BatchSend, BatchCollect, BatchRecheck, DoHeartBeat, LoseAppend, StepDown,
     BecomeLeader

\* An operation the winner takes is appended.
LEMMA StartAppends ==
    ASSUME TypeOK, NEW s \in Server, NEW c \in Command, Start(s, c)
    PROVE  /\ Commands(logs'[s]) = Append(Commands(logs[s]), c)
           /\ UNCHANGED <<commitIndex, applied>>
<1>1. logs \in [Server -> Seq(Entry)] /\ currentTerm[s] \in Nat
  BY LogTypes
<1>2. PICK e \in Entry : e = Stored(NewEntry(s, c))
  BY <1>1 DEF Stored, NewEntry, Entry
<1>3. logs'[s] = Append(logs[s], e) /\ e.cmd = c
  BY <1>1, <1>2 DEF Start, Stored, NewEntry
<1> DEFINE l == logs[s]
<1>4. l \in Seq(Entry) /\ Len(l) \in Nat
  BY <1>1
<1> HIDE DEF l
<1>5. /\ Append(l, e) \in Seq(Entry) /\ Len(Append(l, e)) = Len(l) + 1
      /\ Append(l, e)[Len(l) + 1] = e
      /\ \A i \in 1..Len(l) : Append(l, e)[i] = l[i]
  BY <1>4
<1>6. Commands(Append(l, e)) = Append(Commands(l), c)
  <2> DEFINE a == Commands(Append(l, e))
             b == Commands(l)
  <2>1. /\ a \in Seq(Command) /\ Len(a) = Len(l) + 1
        /\ \A i \in 1..(Len(l) + 1) : a[i] = Append(l, e)[i].cmd
    BY <1>5, CommandsType
  <2>2. /\ b \in Seq(Command) /\ Len(b) = Len(l)
        /\ \A i \in 1..Len(l) : b[i] = l[i].cmd
    BY <1>4, CommandsType
  <2> HIDE DEF a, b
  <2>3. Append(b, c) \in Seq(Command) /\ Len(Append(b, c)) = Len(l) + 1
    BY <1>4, <2>2
  <2>4. ASSUME NEW i \in 1..(Len(l) + 1) PROVE a[i] = Append(b, c)[i]
    <3>1. CASE i = Len(l) + 1
      BY <1>3, <1>4, <1>5, <2>1, <2>2, <3>1
    <3>2. CASE i \in 1..Len(l)
      BY <1>4, <1>5, <2>1, <2>2, <3>2
    <3>3. i = Len(l) + 1 \/ i \in 1..Len(l)
      BY <1>4
    <3> QED BY <3>1, <3>2, <3>3
  <2>5. a = Append(b, c)
    BY <1>4, <2>1, <2>3, <2>4
  <2> QED BY <2>5 DEF a, b
<1>7. UNCHANGED <<commitIndex, applied>>
  BY DEF Start, indexVars
<1> QED BY <1>3, <1>6, <1>7 DEF l

\* What a call does at the winner: nothing to its log and its commit index.
LEMMA WinnerKeepsLog ==
    ASSUME BaseInv, OneReign, NEW w \in won, NEW m \in appReq, HandleAppendEntries(m),
           m.commit <= commitIndex[w.node]
    PROVE  logs'[w.node] = logs[w.node] /\ commitIndex'[w.node] = commitIndex[w.node]
<1>1. TypeOK /\ BatchesIncrease /\ CallsFitLog
  BY DEF BaseInv, IndexInv
<1>2. /\ logs \in [Server -> Seq(Entry)] /\ commitIndex \in [Server -> Nat]
      /\ m.dst \in Server /\ m.src \in Server /\ m.entries \in Seq(WireEntry)
      /\ m.commit \in Nat /\ m.src # m.dst
      /\ w.node \in Server
  <2>1. m.src # m.dst
    BY DEF BaseInv, BatchOrder, NotToSelf
  <2>2. commitIndex \in [Server -> Nat]
    BY <1>1 DEF TypeOK
  <2> QED BY <1>1, <2>1, <2>2, LogTypes, CallEnd
<1>3. CASE UNCHANGED <<logs, commitIndex>>
  BY <1>3
<1>4. CASE ~UNCHANGED <<logs, commitIndex>>
  <2>1. AppendMatch(m)
    BY <1>4 DEF HandleAppendEntries, AppendStale, AppendGap, AppendMismatch, nodeVars
  <2> DEFINE l == Merge(logs[m.dst], m.entries)
  <2>2. /\ logs' = [logs EXCEPT ![m.dst] = l]
        /\ commitIndex' = [commitIndex EXCEPT ![m.dst] =
                                FollowerCommit(commitIndex[m.dst], m.commit, Len(l))]
    BY <2>1 DEF AppendMatch
  <2> HIDE DEF l
  <2>3. CASE m.dst # w.node
    BY <1>2, <2>2, <2>3
  <2>4. CASE m.dst = w.node
    <3>1. DOMAIN m.entries = {}
      <4> SUFFICES ASSUME NEW k \in DOMAIN m.entries PROVE FALSE
        OBVIOUS
      <4>1. m.entries \in Outgoing(m.src, m.dst)
        BY DEF Outgoing
      <4>2. [node |-> m.src, term |-> m.entries[k].term] \in won
        BY <1>2, <4>1 DEF BaseInv, EntryInv, OwnTerms
      <4>3. m.entries[k].term \in Nat
        BY <1>1, <1>2, <4>1, OutgoingFits
      <4> QED BY <1>1, <1>2, <2>4, <4>2, <4>3, OnlyWinner
    <3>2. m.entries = <<>>
      BY <1>2, <3>1, NoPositions
    <3>3. logs[m.dst] \in Seq(Entry) /\ l \in Seq(Entry)
      BY <1>2, MergeLog DEF l
    <3>4. Begins(logs[m.dst], l) /\ Begins(l, logs[m.dst])
      BY <1>2, <3>1, <3>2, <3>3, BeginsItself, MergeBegins DEF l
    <3>5. l = logs[m.dst]
      BY <3>3, <3>4, BeginsBoth
    <3>6. FollowerCommit(commitIndex[m.dst], m.commit, Len(l)) = commitIndex[m.dst]
      BY <1>2, <2>4 DEF FollowerCommit
    <3> QED BY <1>2, <2>2, <2>4, <3>5, <3>6
  <2> QED BY <2>3, <2>4
<1> QED BY <1>3, <1>4

\* What a node applies is as much of the winner's log as the node has committed.
LEMMA ApplierDelivers ==
    ASSUME BaseInv, BaseInv', LogsBegin, AppliedFromLog', NEW w \in won,
           NEW s \in Server, Applier(s), commitIndex[s] <= Len(logs[w.node])
    PROVE  /\ commitIndex[s] \in (Len(applied[s]) + 1)..Len(logs[w.node])
           /\ applied' = [applied EXCEPT ![s] =
                                SubSeq(Commands(logs[w.node]), 1, commitIndex[s])]
           /\ UNCHANGED <<logs, commitIndex>>
<1>1. UNCHANGED <<logs, commitIndex>>
  BY DEF Applier, nodeVars
<1>2. /\ TypeOK /\ TypeOK' /\ w.node \in Server
      /\ CommitWithinLog /\ CommitWithinLog'
  BY LogTypes DEF BaseInv, IndexInv
<1>3. /\ applied \in [Server -> Seq(Command)] /\ applied' \in [Server -> Seq(Command)]
      /\ lastApplied \in [Server -> Nat] /\ commitIndex \in [Server -> Nat]
      /\ logs \in [Server -> Seq(Entry)]
  BY <1>2 DEF TypeOK
<1> DEFINE n == commitIndex[s]
           l == logs[w.node]
<1>4. /\ n \in Nat /\ l \in Seq(Entry) /\ Len(l) \in Nat /\ n <= Len(l)
      /\ n <= Len(logs[s]) /\ Len(logs[s]) \in Nat
  BY <1>2, <1>3 DEF CommitWithinLog
<1>5. n \in (Len(applied[s]) + 1)..Len(l)
  <2>1. Len(applied[s]) = lastApplied[s] /\ lastApplied[s] < n
    BY <1>2 DEF Applier, CommitWithinLog
  <2> QED BY <1>3, <1>4, <2>1
<1>6. lastApplied'[s] = n /\ \A p \in Server : p # s => applied'[p] = applied[p]
  BY <1>3 DEF Applier
<1>7. PICK a \in Seq(Command) : a = applied'[s]
  BY <1>3
<1>8. Len(a) = n /\ \A i \in DOMAIN a : a[i] = logs[s][i].cmd
  BY <1>1, <1>2, <1>6, <1>7 DEF AppliedFromLog, CommitWithinLog
<1>9. \A i \in 1..Len(logs[s]) : l[i] = logs[s][i]
  BY <1>2 DEF LogsBegin, Begins
<1>10. PICK b \in Seq(Command) : b = Commands(l) /\ Len(b) = Len(l)
                                 /\ \A i \in 1..Len(l) : b[i] = l[i].cmd
  BY <1>4, CommandsType
<1> HIDE DEF n, l
<1>11. a = SubSeq(b, 1, n)
  <2>1. SubSeq(b, 1, n) \in Seq(Command) /\ Len(SubSeq(b, 1, n)) = n
        /\ \A i \in 1..n : SubSeq(b, 1, n)[i] = b[i]
    BY <1>4, <1>10
  <2>2. ASSUME NEW i \in 1..n PROVE a[i] = b[i]
    <3>1. i \in DOMAIN a /\ i \in 1..Len(logs[s]) /\ i \in 1..Len(l)
      BY <1>4, <1>8
    <3> QED BY <1>8, <1>9, <1>10, <3>1
  <2> QED BY <1>4, <1>8, <2>1, <2>2
<1>12. applied' = [applied EXCEPT ![s] = SubSeq(b, 1, n)]
  BY <1>3, <1>6, <1>7, <1>11
<1> QED BY <1>1, <1>5, <1>10, <1>12 DEF n, l

\* Once the reign has begun, every step is one of the log, or none.
LEMMA ReignStep ==
    ASSUME BaseInv, BaseInv', ReignInv, ReignInv', LeadCommits, [Next]_vars, SoleReign',
           NEW w \in won
    PROVE  [ReignLog!LogNext]_(ReignLog!logVars)
<1>1. /\ SoleReign /\ OneReign /\ OneReign' /\ w \in won'
      /\ \A s \in Server : Restart(s) => w.node # s
  BY SoleBefore DEF SoleReign
<1>2. /\ TypeOK /\ TypeOK' /\ CommitWithinLog /\ CommitWithinLog' /\ w.node \in Server
      /\ LogsBegin /\ AppliedFromLog'
  BY <1>1, LogTypes DEF BaseInv, IndexInv, ReignInv, OneLog
<1> DEFINE n == w.node
<1>3. /\ ReignLeader = n /\ ReignCommands = Commands(logs[n])
      /\ ReignCommit = commitIndex[n]
  BY <1>1, ReignViews
<1>4. /\ ReignLeader' = n /\ ReignCommands' = Commands(logs'[n])
      /\ ReignCommit' = commitIndex'[n]
  BY <1>1, ReignViewsNext
<1>5. /\ commitIndex[n] \in Nat /\ commitIndex'[n] \in Nat
      /\ commitIndex[n] <= commitIndex'[n]
  BY <1>3, <1>4, ReignCommitGrows
<1>6. /\ logs[n] \in Seq(Entry) /\ Len(logs[n]) \in Nat
      /\ Len(Commands(logs[n])) = Len(logs[n])
  BY <1>2, LogTypes, CommandsType
<1>7. n # Nil
  BY <1>2, NilAssumption
<1> HIDE DEF n
<1>8. ASSUME logs'[n] = logs[n], commitIndex'[n] = commitIndex[n], UNCHANGED applied
      PROVE  UNCHANGED ReignLog!logVars
  BY <1>3, <1>4, <1>8 DEF ReignLog!logVars
<1>9. ASSUME NEW s \in Server, NEW c \in Command, Start(s, c) PROVE ReignLog!LogNext
  <2>1. [node |-> s, term |-> currentTerm[s]] \in won /\ currentTerm[s] \in Nat
    BY <1>2, <1>9, LogTypes DEF Start, BaseInv, ElectionInv, LeaderHasWon
  <2>2. n = s
    BY <1>1, <1>2, <2>1, OnlyWinner DEF n
  <2>3. ReignCommands' = Append(ReignCommands, c) /\ UNCHANGED <<commitIndex, applied>>
    BY <1>2, <1>3, <1>4, <1>9, <2>2, StartAppends
  <2>4. ReignLog!LogAppend(c)
    BY <1>3, <1>4, <1>7, <2>3 DEF ReignLog!LogAppend
  <2> QED BY <2>4 DEF ReignLog!LogNext
<1>10. ASSUME NEW s \in Server, Restart(s) PROVE ReignLog!LogNext
  <2>1. n # s
    BY <1>1, <1>10 DEF n
  <2>2. disk[s].logs = logs[s]
    <3>1. disk[s] = [term |-> currentTerm[s], votedFor |-> votedFor[s],
                     logs |-> logs[s]]
      BY DEF BaseInv, IndexInv, DurableState
    <3> QED BY <3>1
  <2>3. /\ applied' = [applied EXCEPT ![s] = <<>>]
        /\ commitIndex' = [commitIndex EXCEPT ![s] = 0]
        /\ logs' = [logs EXCEPT ![s] = disk[s].logs]
    BY <1>10 DEF Restart
  <2>4. logs'[n] = logs[n] /\ commitIndex'[n] = commitIndex[n]
    BY <1>2, <2>1, <2>3 DEF n, TypeOK
  <2>5. ReignLog!LogRestart(s)
    BY <1>3, <1>4, <2>1, <2>3, <2>4 DEF ReignLog!LogRestart
  <2> QED BY <2>5 DEF ReignLog!LogNext
<1>11. ASSUME NEW m \in appReq, HandleAppendEntries(m)
       PROVE  UNCHANGED ReignLog!logVars
  <2>1. m.commit <= commitIndex[n]
    BY <1>1, <1>3 DEF LeadCommits
  <2>2. logs'[n] = logs[n] /\ commitIndex'[n] = commitIndex[n]
    BY <1>1, <1>11, <2>1, WinnerKeepsLog DEF n
  <2>3. UNCHANGED applied
    BY <1>11 DEF HandleAppendEntries
  <2> QED BY <1>8, <2>2, <2>3
<1>12. ASSUME NEW m \in appRep, ReceiveAppendReply(m)
       PROVE  [ReignLog!LogNext]_(ReignLog!logVars)
  <2>1. UNCHANGED <<logs, applied>>
    BY <1>12 DEF ReceiveAppendReply, StepDown, nodeVars
  <2>2. CASE commitIndex'[n] = commitIndex[n]
    BY <1>8, <2>1, <2>2
  <2>3. CASE commitIndex'[n] # commitIndex[n]
    <3> DEFINE k == commitIndex'[n]
    <3>1. k <= Len(logs[n])
      BY <1>2, <2>1 DEF n, CommitWithinLog
    <3>2. k \in (ReignCommit + 1)..Len(ReignCommands) /\ k \in 1..Len(ReignCommands)
      BY <1>3, <1>5, <1>6, <2>3, <3>1
    <3>3. ReignLog!LogCommit(k)
      BY <1>3, <1>4, <2>1, <3>2 DEF ReignLog!LogCommit
    <3> QED BY <3>2, <3>3 DEF ReignLog!LogNext
  <2> QED BY <2>2, <2>3
<1>13. ASSUME NEW s \in Server, Applier(s) PROVE ReignLog!LogNext
  <2>1. commitIndex[s] <= ReignCommit /\ commitIndex[s] \in Nat
    BY <1>1, <1>2 DEF LeadCommits, TypeOK
  <2>2. commitIndex[n] <= Len(logs[n])
    BY <1>2 DEF n, CommitWithinLog
  <2>3. commitIndex[s] <= Len(logs[n])
    BY <1>3, <1>5, <1>6, <2>1, <2>2
  <2>4. /\ commitIndex[s] \in (Len(applied[s]) + 1)..Len(logs[n])
        /\ applied' = [applied EXCEPT ![s] =
                            SubSeq(Commands(logs[n]), 1, commitIndex[s])]
        /\ UNCHANGED <<logs, commitIndex>>
    BY <1>2, <1>13, <2>3, ApplierDelivers DEF n
  <2>5. Len(applied[s]) \in Nat
    BY <1>2 DEF TypeOK
  <2>6. /\ commitIndex[s] \in (Len(applied[s]) + 1)..ReignCommit
        /\ commitIndex[s] \in 1..Len(ReignCommands)
    BY <1>3, <1>5, <1>6, <2>1, <2>4, <2>5
  <2>7. ReignLog!LogDeliver(s, commitIndex[s])
    BY <1>3, <1>4, <2>4, <2>6 DEF ReignLog!LogDeliver
  <2> QED BY <2>6, <2>7 DEF ReignLog!LogNext
<1>14. CASE UNCHANGED <<logs, commitIndex, applied>>
  BY <1>8, <1>14
<1> QED BY <1>9, <1>10, <1>11, <1>12, <1>13, <1>14, NoticedSteps

-----------------------------------------------------------------------------
(* The theorems *)

\* While one leadership lasts, every log is a beginning of the Leader's, what
\* is on its way has no gaps, and what is applied is what the log holds; and
\* whoever leads, a majority of logs reaches every commit index.
THEOREM ReignInvariance == Spec => [](BaseInv /\ HeldInv /\ ReignInv)
<1>1. Init => HeldInv /\ ReignInv
  <2> SUFFICES ASSUME Init PROVE HeldInv /\ ReignInv
    OBVIOUS
  <2>1. HeldInv
    BY DEF Init, HeldInv, CommitsHeld, AnswersHeld, Held
  <2>2. won = {} /\ \A p \in Server : applied[p] = <<>>
    BY DEF Init
  <2>3. ReignInv
    BY <2>2 DEF ReignInv, OneLog, LogsBegin, GapFree, BufferUpToDate, AppliedFromLog
  <2> QED BY <2>1, <2>3
<1>2. BaseInv /\ HeldInv /\ ReignInv /\ [Next]_vars => HeldInv' /\ ReignInv'
  <2> SUFFICES ASSUME BaseInv, HeldInv, ReignInv, [Next]_vars PROVE HeldInv' /\ ReignInv'
    OBVIOUS
  <2>1. HeldInv'
    BY HeldStep
  <2>2. ASSUME OneReign' PROVE OneLog' /\ AppliedFromLog'
    <3>1. OneReign
      BY <2>2, WinnersStay DEF OneReign
    <3>2. OneLog' /\ \A p \in Server : Begins(logs[p], logs'[p])
      BY <2>2, OneLogStep DEF ReignInv
    <3> QED BY <3>1, <3>2, AppliedStep DEF ReignInv
  <2> QED BY <2>1, <2>2 DEF ReignInv
<1> QED BY <1>1, <1>2, IndexInvariance, ElectionInvariance, ReplicationInvariance, PTL
        DEF Spec, BaseInv

\* While one leadership lasts, two nodes never hand different commands to the
\* KvServer for one index, whatever calls are lost, late or reordered and
\* whatever nodes restart.
THEOREM ReignApplies == Spec => [](OneReign => AppliedAgree)
<1>1. ASSUME BaseInv, ReignInv, OneReign PROVE AppliedAgree
  <2> SUFFICES ASSUME NEW s \in Server, NEW p \in Server,
                      NEW i \in DOMAIN applied[s] \cap DOMAIN applied[p]
               PROVE  applied[s][i] = applied[p][i]
    BY DEF AppliedAgree
  <2>1. TypeOK /\ CommitWithinLog /\ LogsBegin /\ AppliedFromLog
    BY <1>1 DEF BaseInv, IndexInv, ReignInv, OneLog
  <2>2. i \in DOMAIN logs[s] /\ i \in DOMAIN logs[p]
    <3>1. ASSUME NEW q \in Server PROVE DOMAIN applied[q] \subseteq DOMAIN logs[q]
      <4>1. /\ applied[q] \in Seq(Command) /\ logs[q] \in Seq(Entry)
            /\ commitIndex[q] \in Nat
        BY <2>1 DEF TypeOK
      <4>2. Len(applied[q]) <= commitIndex[q] /\ commitIndex[q] <= Len(logs[q])
        BY <2>1 DEF CommitWithinLog
      <4>3. /\ DOMAIN applied[q] = 1..Len(applied[q]) /\ Len(applied[q]) \in Nat
            /\ DOMAIN logs[q] = 1..Len(logs[q]) /\ Len(logs[q]) \in Nat
        BY <4>1
      <4> QED BY <4>1, <4>2, <4>3
    <3> QED BY <3>1
  <2>3. PICK w \in won : TRUE
    BY <1>1, <2>2, NoWinner DEF BaseInv
  <2>4. ASSUME NEW q \in Server, i \in DOMAIN logs[q] PROVE logs[q][i] = logs[w.node][i]
    <3>1. logs[q] \in Seq(Entry)
      BY <2>1, LogTypes
    <3>2. i \in 1..Len(logs[q])
      BY <2>4, <3>1
    <3> QED BY <2>1, <3>2 DEF LogsBegin, Begins
  <2>5. applied[s][i] = logs[s][i].cmd /\ applied[p][i] = logs[p][i].cmd
    BY <2>1 DEF AppliedFromLog
  <2> QED BY <2>2, <2>4, <2>5
<1> QED BY <1>1, ReignInvariance, PTL

\* While one leadership lasts, what a node commits is on the disks of a
\* majority, although the counter of a batch never exceeds 2 and m_commitIndex
\* is taken from any call.
THEOREM ReignCommits == Spec => [](OneReign => CommittedOnMajority)
<1>1. ASSUME BaseInv, HeldInv, ReignInv, OneReign PROVE CommittedOnMajority
  <2> SUFFICES ASSUME NEW s \in Server, NEW i \in 1..commitIndex[s]
               PROVE  Cardinality({p \in Server :
                        /\ i <= Len(disk[p].logs)
                        /\ disk[p].logs[i] = logs[s][i]}) >= Majority
    BY DEF CommittedOnMajority
  <2>1. TypeOK /\ CommitWithinLog /\ LogsBegin /\ DurableState
    BY <1>1 DEF BaseInv, IndexInv, ReignInv, OneLog
  <2>2. /\ \A p \in Server : logs[p] \in Seq(Entry) /\ Len(logs[p]) \in Nat
        /\ commitIndex[s] \in Nat /\ commitIndex[s] <= Len(logs[s])
    BY <2>1, LogTypes DEF TypeOK, CommitWithinLog
  <2> DEFINE c == commitIndex[s]
             H == {p \in Server : c <= Len(logs[p])}
             D == {p \in Server : /\ i <= Len(disk[p].logs)
                                  /\ disk[p].logs[i] = logs[s][i]}
  <2>3. Cardinality(H) >= Majority
    <3>1. Held(c) /\ c > 0
      BY <1>1, <2>2 DEF HeldInv, CommitsHeld
    <3> QED BY <3>1 DEF Held
  <2>4. PICK w \in won : TRUE
    <3>1. i \in DOMAIN logs[s]
      BY <2>2
    <3> QED BY <1>1, <3>1, NoWinner DEF BaseInv
  <2>5. ASSUME NEW p \in H PROVE p \in D
    <3>1. disk[p].logs = logs[p]
      <4>1. p \in Server
        OBVIOUS
      <4>2. disk[p] = [term |-> currentTerm[p], votedFor |-> votedFor[p],
                       logs |-> logs[p]]
        BY <2>1, <4>1 DEF DurableState
      <4> QED BY <4>2
    <3>2. i \in 1..Len(logs[p]) /\ i \in 1..Len(logs[s])
      BY <2>2
    <3>3. logs[p][i] = logs[w.node][i] /\ logs[s][i] = logs[w.node][i]
      BY <2>1, <3>2 DEF LogsBegin, Begins
    <3> QED BY <2>2, <3>1, <3>2, <3>3
  <2>6. H \in SUBSET D /\ D \in SUBSET Server
    BY <2>5
  <2> HIDE DEF H, D
  <2>7. Cardinality(D) >= Majority
    BY <2>3, <2>6, ServerSubset, MajorityType
  <2> QED BY <2>7 DEF D
<1> QED BY <1>1, ReignInvariance, PTL

\* Until a second election is won or the Leader dies, the nodes together act
\* as one replicated log, for any number of nodes and requests: what is
\* committed never changes and every node is handed a prefix of it.
THEOREM ReignActsAsLog == Spec => ImplementsLog
<1>1. Init => ReignLog!LogInit /\ LeadCommits
  <2> SUFFICES ASSUME Init PROVE ReignLog!LogInit /\ LeadCommits
    OBVIOUS
  <2>1. /\ won = {} /\ appReq = {} /\ applied = [s \in Server |-> <<>>]
        /\ \A p \in Server : commitIndex[p] = 0
    BY DEF Init
  <2>2. ReignCommands = <<>> /\ ReignCommit = 0 /\ ReignLeader = Nil
    BY <2>1 DEF ReignCommands, ReignCommit, ReignLeader
  <2> QED BY <2>1, <2>2 DEF ReignLog!LogInit, LeadCommits
<1>2. BaseInv /\ BaseInv' /\ LeadCommits /\ [Next]_vars => LeadCommits'
  BY LeadStep
<1>3. BaseInv => NoneApplied
  BY NothingYet DEF NoneApplied
<1>4. /\ BaseInv /\ ReignInv /\ LeadCommits /\ NoneApplied
      /\ BaseInv' /\ ReignInv' /\ NoneApplied' /\ [Next]_vars
      => (SoleReign' => [ReignLog!LogNext]_(ReignLog!logVars))
  <2> SUFFICES ASSUME BaseInv, ReignInv, LeadCommits, NoneApplied, BaseInv', ReignInv',
                      NoneApplied', [Next]_vars, SoleReign'
               PROVE  [ReignLog!LogNext]_(ReignLog!logVars)
    OBVIOUS
  <2>1. CASE won = {} /\ won' = {}
    <3>1. UNCHANGED <<ReignCommands, ReignCommit, ReignLeader>>
      BY <2>1 DEF ReignCommands, ReignCommit, ReignLeader
    <3>2. UNCHANGED applied
      BY <2>1 DEF NoneApplied
    <3> QED BY <3>1, <3>2 DEF ReignLog!logVars
  <2>2. CASE won = {} /\ won' # {}
    BY <2>2, WinElects
  <2>3. CASE won # {}
    BY <2>3, ReignStep
  <2> QED BY <2>1, <2>2, <2>3
<1> QED BY <1>1, <1>2, <1>3, <1>4, ReignInvariance, PTL DEF Spec, ImplementsLog

-----------------------------------------------------------------------------
(* Logs in one reign, and clusters of more than three nodes *)

\* While one leadership lasts, AppendEntries and Start only add to a log: no
\* entry that a node once held is cut or replaced, although
\* appendEntriesToLocal erases the tail of a log that does not match.
THEOREM ReignKeepsEntries ==
    Spec => [][OneReign' => \A p \in Server : Begins(logs[p], logs'[p])]_vars
<1>1. BaseInv /\ ReignInv /\ [Next]_vars
      => [OneReign' => \A p \in Server : Begins(logs[p], logs'[p])]_vars
  <2> SUFFICES ASSUME BaseInv, ReignInv, [Next]_vars, OneReign'
               PROVE  \A p \in Server : Begins(logs[p], logs'[p])
    OBVIOUS
  <2> QED BY OneLogStep DEF ReignInv
<1> QED BY <1>1, ReignInvariance, PTL DEF Spec

\* Nothing is committed, nothing is sent as committed.
NoCommit == /\ \A s \in Server : commitIndex[s] = 0
            /\ \A m \in appReq : m.commit = 0

\* In a cluster of four nodes or more nothing is ever committed or handed to
\* the KvServer: appendNums belongs to one batch of one peer, so it counts to 2
\* and no further, and the majority it is compared with is at least 3.
THEOREM BigClusterStalls ==
    Spec => [](Cardinality(Server) >= 4 =>
                 \A s \in Server : commitIndex[s] = 0 /\ applied[s] = <<>>)
<1> DEFINE Stalls == Cardinality(Server) >= 4 => NoCommit
<1>1. Init => Stalls
  BY DEF Init, NoCommit
<1>2. ASSUME BaseInv, Stalls, [Next]_vars, TypeOK' PROVE Stalls'
  <2> SUFFICES ASSUME Cardinality(Server) >= 4 PROVE NoCommit'
    OBVIOUS
  <2>1. /\ IndexInv /\ NoCommit /\ ~(2 >= Majority)
        /\ commitIndex \in [Server -> Nat] /\ commitIndex' \in [Server -> Nat]
    <3>1. IndexInv /\ NoCommit /\ TypeOK
      BY <1>2 DEF BaseInv, IndexInv
    <3>2. Cardinality(Server) \in Nat
      BY ServerSubset
    <3>3. ~(2 >= Majority)
      BY <3>2 DEF Majority
    <3> QED BY <1>2, <3>1, <3>3 DEF TypeOK
  <2>2. ASSUME NEW m \in appReq' PROVE m.commit = 0
    BY <1>2, <2>1, CommitMoves DEF NoCommit
  <2>3. ASSUME NEW p \in Server PROVE commitIndex'[p] = 0
    <3>1. CASE commitIndex'[p] \in {0, commitIndex[p]}
      BY <2>1, <3>1 DEF NoCommit
    <3>2. CASE \E m \in appReq : commitIndex'[p] <= m.commit
      BY <2>1, <3>2 DEF NoCommit
    <3>3. CASE \E m \in appRep : m.src = p /\ PeerSynced(m)
      <4>1. PICK m \in appRep : m.src = p /\ PeerSynced(m)
        BY <3>3
      <4>2. commitIndex' = [commitIndex EXCEPT ![p] = @]
        BY <2>1, <4>1 DEF PeerSynced
      <4> QED BY <2>1, <4>2 DEF NoCommit
    <3> QED BY <1>2, <2>1, <3>1, <3>2, <3>3, CommitMoves
  <2> QED BY <2>2, <2>3 DEF NoCommit
<1>3. BaseInv => TypeOK
  BY DEF BaseInv, IndexInv
<1>4. BaseInv /\ Stalls
      => (Cardinality(Server) >= 4 =>
            \A s \in Server : commitIndex[s] = 0 /\ applied[s] = <<>>)
  <2> SUFFICES ASSUME BaseInv, NoCommit, NEW s \in Server
               PROVE  commitIndex[s] = 0 /\ applied[s] = <<>>
    OBVIOUS
  <2>1. commitIndex[s] = 0 /\ applied[s] \in Seq(Command) /\ Len(applied[s]) <= commitIndex[s]
    BY DEF NoCommit, BaseInv, IndexInv, TypeOK, CommitWithinLog
  <2> QED BY <2>1
<1> QED BY <1>1, <1>2, <1>3, <1>4, ReignInvariance, PTL DEF Spec
=============================================================================

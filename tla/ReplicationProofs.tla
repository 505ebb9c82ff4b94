------------------------- MODULE ReplicationProofs -------------------------
(***************************************************************************)
(* Proofs about how entries travel: the order of the batches between two   *)
(* nodes, whose entries a log may hold, and the assertions of              *)
(* AppendEntries1.                                                         *)
(***************************************************************************)
EXTENDS ElectionProofs

-----------------------------------------------------------------------------
(* The inductive invariant of replication *)

\* What s has on its way to p: in the buffer of Start, in the hands of the
\* batch thread, in calls.
Outgoing(s, p) ==
    {pending[s][p], sender[s].toSend[p]}
        \cup {m.entries : m \in {n \in appReq : n.src = s /\ n.dst = p}}

Before(a, b) == \A i \in DOMAIN a, j \in DOMAIN b : a[i].index < b[j].index

\* Two calls from one node to another never carry the same index, nor do their
\* indices interleave.
CallsOrdered ==
    \A m, n \in appReq : m.src = n.src /\ m.dst = n.dst /\ m # n =>
        Before(m.entries, n.entries) \/ Before(n.entries, m.entries)

\* A call has smaller indices than what the batch thread holds, and that has
\* smaller ones than the buffer.
QueueOrdered ==
    /\ \A s, p \in Server : Before(sender[s].toSend[p], pending[s][p])
    /\ \A m \in appReq : /\ Before(m.entries, sender[m.src].toSend[m.dst])
                         /\ Before(m.entries, pending[m.src][m.dst])

\* Outside the sending part of its loop the batch thread holds nothing, and
\* without m_batchRunning there is no thread.
IdleHoldsNone ==
    \A s \in Server :
        /\ sender[s].pc \in {"none", "loop", "collect"} =>
            \A p \in Server : sender[s].toSend[p] = <<>>
        /\ ~batchRunning[s] => sender[s].pc = "none"

\* Nobody sends to itself.
NotToSelf ==
    /\ \A s \in Server : pending[s][s] = <<>> /\ sender[s].toSend[s] = <<>>
    /\ \A m \in appReq : m.src # m.dst
    /\ \A m \in appRep : m.src # m.dst

\* An entry on its way was made by its sender, as the winner of its term.
OwnTerms ==
    \A s, p \in Server : \A es \in Outgoing(s, p) : \A k \in DOMAIN es :
        [node |-> s, term |-> es[k].term] \in won

\* An entry of a log has the term of a winner whose own log is as long.
LogsWon ==
    \A p \in Server : \A i \in DOMAIN logs[p] :
        \E w \in won : w.term = logs[p][i].term /\ i <= Len(logs[w.node])

\* An entry on its way to p is the one p holds, if p holds an entry of that
\* index and term.
SameCommand ==
    \A s, p \in Server : \A es \in Outgoing(s, p) : \A k \in DOMAIN es :
        (es[k].index <= Len(logs[p]) /\ logs[p][es[k].index].term = es[k].term)
            => logs[p][es[k].index].cmd = es[k].cmd

BatchOrder == CallsOrdered /\ QueueOrdered /\ IdleHoldsNone /\ NotToSelf
EntryInv   == OwnTerms /\ LogsWon /\ SameCommand

-----------------------------------------------------------------------------
(* Order of the batches *)

\* The types used below.
LEMMA QueueTypes ==
    ASSUME TypeOK
    PROVE  /\ pending \in [Server -> [Server -> Seq(WireEntry)]]
           /\ sender \in [Server -> Sender]
           /\ batchRunning \in [Server -> BOOLEAN]
           /\ \A s, p \in Server : /\ pending[s][p] \in Seq(WireEntry)
                                   /\ sender[s].toSend[p] \in Seq(WireEntry)
           /\ \A m \in appReq : /\ m.src \in Server /\ m.dst \in Server
                                /\ m.entries \in Seq(WireEntry) /\ m.term \in Nat
                                /\ m.prevIndex \in Nat
  BY DEF TypeOK, Sender, AppReq

\* The empty batch is before and after every batch.
LEMMA EmptyBefore == \A a : Before(a, <<>>) /\ Before(<<>>, a)
  BY DEF Before

\* A step that empties buffers and batches, drops calls or adds empty ones
\* keeps the order.
LEMMA OrderKept ==
    ASSUME BatchOrder,
           \A s, p \in Server :
             /\ pending'[s][p] \in {<<>>, pending[s][p]}
             /\ sender'[s].toSend[p] \in {<<>>, sender[s].toSend[p]},
           \A m \in appReq' : \/ m \in appReq
                              \/ m.entries = <<>> /\ m.src # m.dst
                                 /\ m.src \in Server /\ m.dst \in Server,
           \A m \in appReq : m.src \in Server /\ m.dst \in Server,
           \A m \in appRep' : m.src # m.dst
    PROVE  CallsOrdered' /\ QueueOrdered' /\ NotToSelf'
<1>1. CallsOrdered'
  <2> SUFFICES ASSUME NEW m \in appReq', NEW n \in appReq', m # n,
                      m.src = n.src, m.dst = n.dst
               PROVE  Before(m.entries, n.entries) \/ Before(n.entries, m.entries)
    BY DEF CallsOrdered, Before
  <2> QED BY EmptyBefore DEF BatchOrder, CallsOrdered
<1>2. \A s, p \in Server : Before(sender'[s].toSend[p], pending'[s][p])
  BY EmptyBefore DEF BatchOrder, QueueOrdered
<1>3. ASSUME NEW m \in appReq'
      PROVE  /\ Before(m.entries, sender'[m.src].toSend[m.dst])
             /\ Before(m.entries, pending'[m.src][m.dst])
  <2>1. CASE m.entries = <<>>
    BY <2>1, EmptyBefore
  <2>2. CASE m \in appReq
    <3>1. /\ Before(m.entries, sender[m.src].toSend[m.dst])
          /\ Before(m.entries, pending[m.src][m.dst])
      BY <2>2 DEF BatchOrder, QueueOrdered
    <3> QED BY <2>2, <3>1, EmptyBefore
  <2> QED BY <2>1, <2>2
<1>4. QueueOrdered'
  BY <1>2, <1>3 DEF QueueOrdered, Before
<1>5. NotToSelf'
  BY DEF BatchOrder, NotToSelf
<1> QED BY <1>1, <1>4, <1>5

\* The calls of a heartbeat are empty.
LEMMA HeartBeatCalls ==
    ASSUME NEW s \in Server, NEW reach \in SUBSET Server, DoHeartBeat(s, reach),
           NEW m \in appReq', m \notin appReq
    PROVE  /\ m.src = s /\ m.dst \in Server /\ m.dst # s
           /\ m.entries = <<>> /\ m.commit = commitIndex[s]
<1> DEFINE next == [p \in Server |-> IF p = s THEN nextIndex[s][p]
                                     ELSE Larger(nextIndex[s][p], 1)]
           call(p) == [src |-> s, dst |-> p, term |-> currentTerm[s],
                       prevIndex |-> next[p] - 1,
                       prevTerm |-> LogTerm(logs[s], next[p] - 1),
                       entries |-> <<>>, commit |-> commitIndex[s],
                       waiting |-> TRUE]
<1>1. reach \subseteq Server \ {s} /\ appReq' = appReq \cup {call(p) : p \in reach}
  BY DEF DoHeartBeat
<1>2. \A p \in reach : /\ call(p).src = s /\ call(p).dst = p
                      /\ call(p).entries = <<>> /\ call(p).commit = commitIndex[s]
  OBVIOUS
<1> HIDE DEF call
<1> QED BY <1>1, <1>2

\* The steps outside the batch thread, Start, the elections and a restart.
LEMMA OtherOrder ==
    ASSUME TypeOK, BatchOrder, UNCHANGED batchVars,
           \/ UNCHANGED appVars
           \/ \E s \in Server, reach \in SUBSET Server : DoHeartBeat(s, reach)
           \/ \E m \in appReq : HandleAppendEntries(m)
           \/ \E m \in appRep : ReceiveAppendReply(m)
           \/ LoseAppend
    PROVE  BatchOrder'
<1>1. IdleHoldsNone'
  BY DEF batchVars, BatchOrder, IdleHoldsNone
<1>2. \A m \in appReq' : \/ m \in appReq
                         \/ m.entries = <<>> /\ m.src # m.dst
                            /\ m.src \in Server /\ m.dst \in Server
  <2>1. ASSUME NEW s \in Server, NEW reach \in SUBSET Server,
               DoHeartBeat(s, reach), NEW m \in appReq', m \notin appReq
        PROVE  m.entries = <<>> /\ m.src # m.dst
               /\ m.src \in Server /\ m.dst \in Server
    BY <2>1, HeartBeatCalls
  <2> QED BY <2>1 DEF appVars, HandleAppendEntries, ReceiveAppendReply, LoseAppend
<1>3. \A m \in appRep' : m.src # m.dst
  <2>1. /\ \A m \in appRep : m.src # m.dst
        /\ \A m \in appReq : m.src # m.dst
    BY DEF BatchOrder, NotToSelf
  <2>2. ASSUME NEW m \in appReq, HandleAppendEntries(m)
        PROVE  \A r \in appRep' : r \in appRep \/ (r.src = m.src /\ r.dst = m.dst)
    BY <2>2 DEF HandleAppendEntries, AppendStale, AppendGap, AppendMismatch,
       AppendMatch, Answer
  <2> QED BY <2>1, <2>2 DEF appVars, DoHeartBeat, ReceiveAppendReply, LoseAppend
<1>4. \A s, p \in Server :
         /\ pending'[s][p] \in {<<>>, pending[s][p]}
         /\ sender'[s].toSend[p] \in {<<>>, sender[s].toSend[p]}
  BY DEF batchVars
<1> QED BY <1>1, <1>2, <1>3, <1>4, OrderKept, QueueTypes DEF BatchOrder

\* A vote that arrives leaves buffers, batches and calls alone; at most it
\* starts a thread where none is said to run.
LEMMA VoteReplyMoves ==
    ASSUME TypeOK, NEW m \in voteRep, ReceiveVoteReply(m)
    PROVE  /\ m.src \in Server /\ UNCHANGED <<pending, appReq, appRep>>
           /\ \A x \in Server : sender'[x].toSend = sender[x].toSend
           /\ \/ UNCHANGED <<sender, batchRunning>>
              \/ /\ batchRunning' = [batchRunning EXCEPT ![m.src] = TRUE]
                 /\ sender' = IF batchRunning[m.src] THEN sender
                              ELSE [sender EXCEPT ![m.src] =
                                        [@ EXCEPT !.pc = "loop"]]
<1> DEFINE s == m.src
<1>1. s \in Server
  BY DEF TypeOK, VoteRep
<1>2. sender \in [Server -> Sender]
  BY QueueTypes
<1>3. UNCHANGED <<pending, appReq, appRep>>
  BY DEF ReceiveVoteReply, appVars
<1>4. \/ UNCHANGED <<sender, batchRunning>>
      \/ /\ batchRunning' = [batchRunning EXCEPT ![s] = TRUE]
         /\ sender' = IF batchRunning[s] THEN sender
                      ELSE [sender EXCEPT ![s] = [@ EXCEPT !.pc = "loop"]]
  BY DEF ReceiveVoteReply, BecomeLeader
<1>5. \A x \in Server : sender'[x].toSend = sender[x].toSend
  <2>1. sender[s] \in Sender
    BY <1>1, <1>2
  <2>2. [sender[s] EXCEPT !.pc = "loop"].toSend = sender[s].toSend
    BY <2>1 DEF Sender
  <2>3. CASE sender' = [sender EXCEPT ![s] = [sender[s] EXCEPT !.pc = "loop"]]
    BY <1>1, <1>2, <2>2, <2>3
  <2> QED BY <1>4, <2>3
<1> QED BY <1>1, <1>3, <1>4, <1>5

\* A node that becomes Leader starts a thread that holds nothing.
LEMMA ReceiveVoteReplyOrder ==
    ASSUME TypeOK, BatchOrder, NEW m \in voteRep, ReceiveVoteReply(m)
    PROVE  BatchOrder'
<1> DEFINE s == m.src
<1>1. s \in Server
  BY VoteReplyMoves
<1>2. sender \in [Server -> Sender] /\ batchRunning \in [Server -> BOOLEAN]
  BY QueueTypes
<1>3. UNCHANGED <<pending, appReq, appRep>>
  BY VoteReplyMoves
<1>4. \/ UNCHANGED <<sender, batchRunning>>
      \/ /\ batchRunning' = [batchRunning EXCEPT ![s] = TRUE]
         /\ sender' = IF batchRunning[s] THEN sender
                      ELSE [sender EXCEPT ![s] = [@ EXCEPT !.pc = "loop"]]
  BY VoteReplyMoves
<1>5. \A x \in Server : sender'[x].toSend = sender[x].toSend
  BY VoteReplyMoves
<1>6. IdleHoldsNone'
  <2>1. IdleHoldsNone
    BY DEF BatchOrder
  <2> SUFFICES ASSUME NEW x \in Server
               PROVE  /\ sender'[x].pc \in {"none", "loop", "collect"} =>
                            \A p \in Server : sender'[x].toSend[p] = <<>>
                      /\ ~batchRunning'[x] => sender'[x].pc = "none"
    BY DEF IdleHoldsNone
  <2>2. CASE sender'[x] = sender[x]
    BY <1>1, <1>2, <1>4, <2>1, <2>2 DEF IdleHoldsNone
  <2>3. CASE sender'[x] # sender[x]
    <3>1. x = s /\ ~batchRunning[s] /\ batchRunning'[s]
      BY <1>1, <1>2, <1>4, <2>3
    <3>2. sender[s].pc = "none"
      BY <1>1, <2>1, <3>1 DEF IdleHoldsNone
    <3> QED BY <1>1, <1>5, <2>1, <3>1, <3>2 DEF IdleHoldsNone
  <2> QED BY <2>2, <2>3
<1>7. \A m2 \in appRep' : m2.src # m2.dst
  BY <1>3 DEF BatchOrder, NotToSelf
<1> QED BY <1>3, <1>5, <1>6, <1>7, OrderKept, QueueTypes DEF BatchOrder

\* A restart forgets buffers and batches and gives up the calls under way.
LEMMA RestartMoves ==
    ASSUME TypeOK, NEW s \in Server, Restart(s)
    PROVE  /\ \A x, p \in Server :
                /\ pending'[x][p] \in {<<>>, pending[x][p]}
                /\ sender'[x].toSend[p] \in {<<>>, sender[x].toSend[p]}
           /\ \A m \in appReq' : \E n \in appReq :
                /\ m.src = n.src /\ m.dst = n.dst /\ m.entries = n.entries
                /\ m.commit = n.commit
                /\ m = IF n.src = s THEN [n EXCEPT !.waiting = FALSE] ELSE n
<1>1. /\ pending \in [Server -> [Server -> Seq(WireEntry)]]
      /\ sender \in [Server -> Sender] /\ appReq \subseteq AppReq
  BY DEF TypeOK
<1>2. \A x, p \in Server :
        /\ pending'[x][p] \in {<<>>, pending[x][p]}
        /\ sender'[x].toSend[p] \in {<<>>, sender[x].toSend[p]}
  BY <1>1 DEF Restart, NoEntries, NoSender
<1>3. \A n \in appReq :
        LET m == IF n.src = s THEN [n EXCEPT !.waiting = FALSE] ELSE n
        IN  /\ m.src = n.src /\ m.dst = n.dst /\ m.entries = n.entries
            /\ m.commit = n.commit
  BY <1>1 DEF AppReq
<1>4. appReq' = {IF n.src = s THEN [n EXCEPT !.waiting = FALSE] ELSE n : n \in appReq}
  BY DEF Restart
<1>5. \A m \in appReq' : \E n \in appReq :
        /\ m.src = n.src /\ m.dst = n.dst /\ m.entries = n.entries
        /\ m.commit = n.commit
        /\ m = IF n.src = s THEN [n EXCEPT !.waiting = FALSE] ELSE n
  BY <1>3, <1>4
<1> QED BY <1>2, <1>5

\* After a restart the calls under way are still in order.
LEMMA RestartOrder ==
    ASSUME TypeOK, BatchOrder, NEW s \in Server, Restart(s)
    PROVE  BatchOrder'
<1>1. /\ pending \in [Server -> [Server -> Seq(WireEntry)]]
      /\ sender \in [Server -> Sender] /\ batchRunning \in [Server -> BOOLEAN]
      /\ \A m \in appReq : m.src \in Server /\ m.dst \in Server
  BY QueueTypes
<1>2. \A x, p \in Server :
        /\ pending'[x][p] \in {<<>>, pending[x][p]}
        /\ sender'[x].toSend[p] \in {<<>>, sender[x].toSend[p]}
  BY RestartMoves
<1>3. IdleHoldsNone'
  BY <1>1 DEF BatchOrder, IdleHoldsNone, Restart, NoEntries, NoSender
<1>4. \A m \in appReq' : \E n \in appReq :
        /\ m.src = n.src /\ m.dst = n.dst /\ m.entries = n.entries
        /\ m = IF n.src = s THEN [n EXCEPT !.waiting = FALSE] ELSE n
  BY RestartMoves
<1>5. CallsOrdered'
  <2> SUFFICES ASSUME NEW m1 \in appReq', NEW n1 \in appReq', m1 # n1,
                      m1.src = n1.src, m1.dst = n1.dst
               PROVE  Before(m1.entries, n1.entries) \/ Before(n1.entries, m1.entries)
    BY DEF CallsOrdered, Before
  <2>1. PICK m \in appReq :
            /\ m1.src = m.src /\ m1.dst = m.dst /\ m1.entries = m.entries
            /\ m1 = IF m.src = s THEN [m EXCEPT !.waiting = FALSE] ELSE m
    BY <1>4
  <2>2. PICK n \in appReq :
            /\ n1.src = n.src /\ n1.dst = n.dst /\ n1.entries = n.entries
            /\ n1 = IF n.src = s THEN [n EXCEPT !.waiting = FALSE] ELSE n
    BY <1>4
  <2>3. m # n
    BY <2>1, <2>2
  <2> QED BY <2>1, <2>2, <2>3 DEF BatchOrder, CallsOrdered
<1>6. QueueOrdered'
  <2>1. \A x, p \in Server : Before(sender'[x].toSend[p], pending'[x][p])
    BY <1>2, EmptyBefore DEF BatchOrder, QueueOrdered
  <2>2. ASSUME NEW m1 \in appReq'
        PROVE  /\ Before(m1.entries, sender'[m1.src].toSend[m1.dst])
               /\ Before(m1.entries, pending'[m1.src][m1.dst])
    <3>1. PICK m \in appReq :
            m1.src = m.src /\ m1.dst = m.dst /\ m1.entries = m.entries
      BY <1>4
    <3>2. /\ Before(m1.entries, sender[m1.src].toSend[m1.dst])
          /\ Before(m1.entries, pending[m1.src][m1.dst])
      BY <3>1 DEF BatchOrder, QueueOrdered
    <3>3. /\ pending'[m1.src][m1.dst] \in {<<>>, pending[m1.src][m1.dst]}
          /\ sender'[m1.src].toSend[m1.dst] \in
                {<<>>, sender[m1.src].toSend[m1.dst]}
      BY <1>1, <1>2, <3>1
    <3> QED BY <3>2, <3>3, EmptyBefore
  <2> QED BY <2>1, <2>2 DEF QueueOrdered, Before
<1>7. NotToSelf'
  <2>1. \A m \in appReq' : m.src # m.dst
    BY <1>4 DEF BatchOrder, NotToSelf
  <2>2. \A m \in appRep' : m.src # m.dst
    BY DEF BatchOrder, NotToSelf, Restart
  <2> QED BY <1>2, <2>1, <2>2 DEF BatchOrder, NotToSelf
<1> QED BY <1>3, <1>5, <1>6, <1>7 DEF BatchOrder

\* Start buffers an entry with an index beyond everything sent before.
LEMMA StartOrder ==
    ASSUME IndexInv, BatchOrder, NEW s \in Server, NEW c \in Command, Start(s, c)
    PROVE  BatchOrder'
<1>1. TypeOK /\ BatchesIncrease /\ CallsFitLog
  BY DEF IndexInv
<1>2. /\ pending \in [Server -> [Server -> Seq(WireEntry)]]
      /\ \A x, p \in Server : /\ pending[x][p] \in Seq(WireEntry)
                              /\ sender[x].toSend[p] \in Seq(WireEntry)
      /\ \A m \in appReq : m.src \in Server /\ m.dst \in Server
                            /\ m.entries \in Seq(WireEntry)
  BY <1>1, QueueTypes
<1>0. Len(logs[s]) \in Nat
  BY <1>1 DEF TypeOK
<1> DEFINE e == NewEntry(s, c)
<1>3. e.index = Len(logs[s]) + 1
  BY DEF NewEntry, LastLogIndex
<1>4. /\ UNCHANGED <<sender, batchRunning, appReq, appRep>>
      /\ \A x, p \in Server : pending'[x][p] =
            IF x = s /\ p # s THEN Append(pending[x][p], e) ELSE pending[x][p]
  BY <1>2 DEF Start, appVars
<1> HIDE DEF e
<1>5. ASSUME NEW a, NEW p \in Server \ {s}, Before(a, pending[s][p]),
             Increasing(s, a)
      PROVE  Before(a, pending'[s][p])
  <2> SUFFICES ASSUME NEW i \in DOMAIN a, NEW j \in DOMAIN pending'[s][p]
               PROVE  a[i].index < pending'[s][p][j].index
    BY DEF Before
  <2>1. a[i].index \in 1..Len(logs[s])
    BY <1>5 DEF Increasing
  <2>4. /\ pending'[s][p] = Append(pending[s][p], e)
        /\ pending[s][p] \in Seq(WireEntry)
    BY <1>2, <1>4
  <2>2. CASE j \in DOMAIN pending[s][p]
    <3>1. pending'[s][p][j] = pending[s][p][j]
      BY <2>2, <2>4
    <3> QED BY <1>5, <2>2, <3>1 DEF Before
  <2>3. CASE j \notin DOMAIN pending[s][p]
    <3>1. j = Len(pending[s][p]) + 1
      BY <2>3, <2>4
    <3>2. pending'[s][p][j] = e
      BY <2>4, <3>1
    <3> QED BY <1>0, <1>3, <2>1, <3>2
  <2> QED BY <2>2, <2>3
<1>6. IdleHoldsNone' /\ CallsOrdered' /\ NotToSelf'
  BY <1>4 DEF BatchOrder, IdleHoldsNone, CallsOrdered, NotToSelf, Before
<1>7. \A x, p \in Server : Before(sender[x].toSend[p], pending'[x][p])
  <2>1. \A x, p \in Server : /\ Before(sender[x].toSend[p], pending[x][p])
                             /\ Increasing(x, sender[x].toSend[p])
    BY <1>1 DEF BatchOrder, QueueOrdered, BatchesIncrease
  <2> QED BY <1>4, <1>5, <2>1
<1>8. \A m \in appReq : /\ Before(m.entries, sender[m.src].toSend[m.dst])
                        /\ Before(m.entries, pending'[m.src][m.dst])
  <2> SUFFICES ASSUME NEW m \in appReq
               PROVE  /\ Before(m.entries, sender[m.src].toSend[m.dst])
                      /\ Before(m.entries, pending'[m.src][m.dst])
    OBVIOUS
  <2>1. /\ Before(m.entries, sender[m.src].toSend[m.dst])
        /\ Before(m.entries, pending[m.src][m.dst])
        /\ Increasing(m.src, m.entries)
    BY <1>1 DEF BatchOrder, QueueOrdered, CallsFitLog
  <2>2. CASE m.src = s /\ m.dst # s
    <3>1. m.dst \in Server \ {s}
      BY <1>2, <2>2
    <3> QED BY <1>5, <2>1, <2>2, <3>1
  <2>3. CASE ~(m.src = s /\ m.dst # s)
    BY <1>2, <1>4, <2>1, <2>3
  <2> QED BY <2>2, <2>3
<1>9. QueueOrdered'
  BY <1>4, <1>7, <1>8 DEF QueueOrdered, Before
<1> QED BY <1>6, <1>9 DEF BatchOrder

\* The batch thread goes on and holds what it held, or drops a batch.
LEMMA ThreadMoves ==
    ASSUME TypeOK, BatchOrder, NEW s \in Server,
           \/ BatchCheckLeader(s) \/ BatchReadTerm(s) \/ BatchReadPrev(s)
           \/ \E p \in Server : BatchRecheck(s, p)
    PROVE  /\ UNCHANGED <<pending, batchRunning, appReq, appRep>>
           /\ \A x \in Server \ {s} : sender'[x] = sender[x]
           /\ \A q \in Server : sender'[s].toSend[q] \in {<<>>, sender[s].toSend[q]}
           /\ sender'[s].pc \in {"none", "loop", "collect"} =>
                \A q \in Server : sender'[s].toSend[q] = <<>>
           /\ sender[s].pc # "none"
<1>1. sender \in [Server -> Sender] /\ sender[s] \in Sender
  BY QueueTypes
<1>2. /\ UNCHANGED <<pending, batchRunning, appReq, appRep>>
      /\ \A x \in Server \ {s} : sender'[x] = sender[x]
  BY <1>1 DEF BatchCheckLeader, BatchReadTerm, BatchReadPrev, BatchRecheck, appVars
<1>3. /\ \A q \in Server : sender'[s].toSend[q] \in {<<>>, sender[s].toSend[q]}
      /\ sender'[s].pc \in {"none", "loop", "collect"} =>
            \A q \in Server : sender'[s].toSend[q] = <<>>
      /\ sender[s].pc # "none"
  <2>1. CASE BatchCheckLeader(s)
    <3>1. sender[s].pc = "loop" /\ \A q \in Server : sender[s].toSend[q] = <<>>
      BY <2>1 DEF BatchCheckLeader, BatchOrder, IdleHoldsNone
    <3>2. sender'[s] = NoSender \/ sender'[s] = [sender[s] EXCEPT !.pc = "collect"]
      BY <1>1, <2>1 DEF BatchCheckLeader
    <3>3. \A q \in Server : sender'[s].toSend[q] = <<>>
      <4>1. \A q \in Server : NoSender.toSend[q] = <<>>
        BY DEF NoSender, NoEntries
      <4>2. [sender[s] EXCEPT !.pc = "collect"].toSend = sender[s].toSend
        BY <1>1 DEF Sender
      <4> QED BY <3>1, <3>2, <4>1, <4>2
    <3> QED BY <3>1, <3>3
  <2>2. CASE BatchReadTerm(s)
    BY <1>1, <2>2 DEF BatchReadTerm, Sender
  <2>3. CASE BatchReadPrev(s)
    <3>1. sender[s].pc = "prev" /\ \E t :
            sender'[s] = [sender[s] EXCEPT !.pc = "commit", !.prevTerm = t]
      BY <1>1, <2>3 DEF BatchReadPrev
    <3>2. sender'[s].pc = "commit" /\ sender'[s].toSend = sender[s].toSend
      BY <1>1, <3>1 DEF Sender
    <3> QED BY <3>1, <3>2
  <2>4. ASSUME NEW p \in Server, BatchRecheck(s, p)
        PROVE  /\ \A q \in Server :
                    sender'[s].toSend[q] \in {<<>>, sender[s].toSend[q]}
               /\ sender'[s].pc \in {"none", "loop", "collect"} =>
                    \A q \in Server : sender'[s].toSend[q] = <<>>
               /\ sender[s].pc # "none"
    <3>1. CASE status[s] = "Leader"
      <4>1. sender'[s] = [sender[s] EXCEPT !.pc = "term", !.peer = p]
        BY <1>1, <2>4, <3>1 DEF BatchRecheck
      <4>2. sender'[s].pc = "term" /\ sender'[s].toSend = sender[s].toSend
        BY <1>1, <4>1 DEF Sender
      <4> QED BY <2>4, <4>2 DEF BatchRecheck
    <3>2. CASE status[s] # "Leader"
      <4>1. sender'[s] = [sender[s] EXCEPT !.pc = AfterPeer(s, p),
                            !.toSend = [sender[s].toSend EXCEPT ![p] = <<>>]]
        BY <1>1, <2>4, <3>2 DEF BatchRecheck
      <4>2. /\ sender'[s].pc = AfterPeer(s, p)
            /\ sender'[s].toSend = [sender[s].toSend EXCEPT ![p] = <<>>]
        BY <1>1, <4>1 DEF Sender
      <4>3. sender[s].toSend \in [Server -> Seq(WireEntry)]
        BY <1>1 DEF Sender
      <4>4. AfterPeer(s, p) \in {"none", "loop", "collect"} =>
                \A q \in Server \ {p} : sender[s].toSend[q] = <<>>
        BY DEF AfterPeer
      <4>5. \A q \in Server : sender'[s].toSend[q] =
                IF q = p THEN <<>> ELSE sender[s].toSend[q]
        BY <4>2, <4>3
      <4>6. sender[s].pc = "recheck"
        BY <2>4 DEF BatchRecheck
      <4> QED BY <4>2, <4>4, <4>5, <4>6
    <3> QED BY <3>1, <3>2
  <2> QED BY <2>1, <2>2, <2>3, <2>4
<1> QED BY <1>2, <1>3

\* Such a step keeps the order.
LEMMA QuietThreadOrder ==
    ASSUME TypeOK, BatchOrder, NEW s \in Server,
           \/ BatchCheckLeader(s) \/ BatchReadTerm(s) \/ BatchReadPrev(s)
           \/ \E p \in Server : BatchRecheck(s, p)
    PROVE  BatchOrder'
<1>2. /\ UNCHANGED <<pending, batchRunning, appReq, appRep>>
      /\ \A x \in Server \ {s} : sender'[x] = sender[x]
  BY ThreadMoves
<1>3. /\ \A q \in Server : sender'[s].toSend[q] \in {<<>>, sender[s].toSend[q]}
      /\ sender'[s].pc \in {"none", "loop", "collect"} =>
            \A q \in Server : sender'[s].toSend[q] = <<>>
      /\ sender[s].pc # "none"
  BY ThreadMoves
<1>4. \A x, q \in Server :
        /\ pending'[x][q] \in {<<>>, pending[x][q]}
        /\ sender'[x].toSend[q] \in {<<>>, sender[x].toSend[q]}
  BY <1>2, <1>3
<1>5. IdleHoldsNone'
  <2>1. IdleHoldsNone
    BY DEF BatchOrder
  <2>2. batchRunning[s]
    BY <1>3, <2>1 DEF IdleHoldsNone
  <2> QED BY <1>2, <1>3, <2>1, <2>2 DEF IdleHoldsNone
<1>6. \A m \in appRep' : m.src # m.dst
  BY <1>2 DEF BatchOrder, NotToSelf
<1> QED BY <1>2, <1>4, <1>5, <1>6, OrderKept, QueueTypes DEF BatchOrder

\* The batch thread takes whole buffers.
LEMMA CollectMoves ==
    ASSUME TypeOK, BatchOrder, NEW s \in Server, NEW flush \in SUBSET Server,
           BatchCollect(s, flush)
    PROVE  /\ sender[s].pc = "collect"
           /\ UNCHANGED <<batchRunning, appReq, appRep>>
           /\ \A x \in Server \ {s} : sender'[x] = sender[x] /\ pending'[x] = pending[x]
           /\ \A p \in Server : pending'[s][p] = IF p \in flush THEN <<>>
                                                  ELSE pending[s][p]
           /\ sender'[s].pc = IF flush = {} THEN "loop" ELSE "recheck"
           /\ \A p \in Server : sender'[s].toSend[p] =
                                 IF p \in flush THEN pending[s][p] ELSE <<>>
<1>1. /\ sender \in [Server -> Sender] /\ sender[s] \in Sender
      /\ pending \in [Server -> [Server -> Seq(WireEntry)]]
  BY QueueTypes
<1>2. sender[s].pc = "collect" /\ \A p \in Server : sender[s].toSend[p] = <<>>
  BY DEF BatchCollect, BatchOrder, IdleHoldsNone
<1>3. /\ UNCHANGED <<batchRunning, appReq, appRep>>
      /\ \A x \in Server \ {s} : sender'[x] = sender[x] /\ pending'[x] = pending[x]
      /\ \A p \in Server : pending'[s][p] = IF p \in flush THEN <<>>
                                             ELSE pending[s][p]
  BY <1>1 DEF BatchCollect, appVars
<1>4. /\ sender'[s].pc = IF flush = {} THEN "loop" ELSE "recheck"
      /\ \A p \in Server : sender'[s].toSend[p] =
                            IF p \in flush THEN pending[s][p] ELSE <<>>
  <2> DEFINE pc1 == IF flush = {} THEN "loop" ELSE "recheck"
             take == [p \in Server |-> IF p \in flush THEN pending[s][p] ELSE <<>>]
  <2>1. sender'[s] = [sender[s] EXCEPT !.pc = pc1, !.toSend = take]
    BY <1>1 DEF BatchCollect
  <2>2. sender'[s].pc = pc1 /\ sender'[s].toSend = take
    <3> HIDE DEF pc1, take
    <3> QED BY <1>1, <2>1 DEF Sender
  <2> QED BY <2>2
<1> QED BY <1>2, <1>3, <1>4

\* What the batch thread takes comes after the calls, and leaves its buffer.
LEMMA BatchCollectOrder ==
    ASSUME TypeOK, BatchOrder, NEW s \in Server, NEW flush \in SUBSET Server,
           BatchCollect(s, flush)
    PROVE  BatchOrder'
<1>1. \A m \in appReq : m.src \in Server /\ m.dst \in Server
  BY QueueTypes
<1>2. sender[s].pc = "collect"
  BY CollectMoves
<1>3. /\ UNCHANGED <<batchRunning, appReq, appRep>>
      /\ \A x \in Server \ {s} : sender'[x] = sender[x] /\ pending'[x] = pending[x]
      /\ \A p \in Server : pending'[s][p] = IF p \in flush THEN <<>>
                                             ELSE pending[s][p]
  BY CollectMoves
<1>4. /\ sender'[s].pc = IF flush = {} THEN "loop" ELSE "recheck"
      /\ \A p \in Server : sender'[s].toSend[p] =
                            IF p \in flush THEN pending[s][p] ELSE <<>>
  BY CollectMoves
<1>5. IdleHoldsNone'
  <2>1. IdleHoldsNone /\ batchRunning[s]
    BY <1>2 DEF BatchOrder, IdleHoldsNone
  <2>2. flush # {} => sender'[s].pc \notin {"none", "loop", "collect"}
    BY <1>4
  <2>3. flush = {} => \A p \in Server : sender'[s].toSend[p] = <<>>
    BY <1>4
  <2> QED BY <1>3, <2>1, <2>2, <2>3 DEF IdleHoldsNone
<1>6. CallsOrdered'
  BY <1>3 DEF BatchOrder, CallsOrdered, Before
<1>7. \A x, p \in Server : Before(sender'[x].toSend[p], pending'[x][p])
  <2>1. \A x, p \in Server : Before(sender[x].toSend[p], pending[x][p])
    BY DEF BatchOrder, QueueOrdered
  <2> QED BY <1>3, <1>4, <2>1, EmptyBefore
<1>8. \A m \in appReq : /\ Before(m.entries, sender'[m.src].toSend[m.dst])
                        /\ Before(m.entries, pending'[m.src][m.dst])
  <2>1. \A m \in appReq : /\ Before(m.entries, sender[m.src].toSend[m.dst])
                          /\ Before(m.entries, pending[m.src][m.dst])
    BY DEF BatchOrder, QueueOrdered
  <2> SUFFICES ASSUME NEW m \in appReq
               PROVE  /\ Before(m.entries, sender'[m.src].toSend[m.dst])
                      /\ Before(m.entries, pending'[m.src][m.dst])
    OBVIOUS
  <2>2. m.src \in Server /\ m.dst \in Server
    BY <1>1
  <2>3. CASE m.src # s
    BY <1>3, <2>1, <2>2, <2>3
  <2>4. CASE m.src = s
    <3>1. /\ sender'[s].toSend[m.dst] \in {pending[s][m.dst], <<>>}
          /\ pending'[s][m.dst] \in {pending[s][m.dst], <<>>}
      BY <1>3, <1>4, <2>2
    <3> QED BY <2>1, <2>4, <3>1, EmptyBefore
  <2> QED BY <2>3, <2>4
<1>9. QueueOrdered'
  BY <1>3, <1>7, <1>8 DEF QueueOrdered, Before
<1>10. NotToSelf'
  <2>1. NotToSelf
    BY DEF BatchOrder
  <2>2. \A x \in Server : pending'[x][x] = <<>> /\ sender'[x].toSend[x] = <<>>
    BY <1>3, <1>4, <2>1 DEF NotToSelf
  <2> QED BY <1>3, <2>1, <2>2 DEF NotToSelf
<1> QED BY <1>5, <1>6, <1>9, <1>10 DEF BatchOrder

\* The batch thread makes a call of the batch of its peer.
LEMMA SendMoves ==
    ASSUME TypeOK, SenderHoldsBatch, NEW s \in Server, BatchSend(s)
    PROVE  /\ sender[s].pc = "commit" /\ sender[s].peer \in Server
           /\ sender[s].toSend[sender[s].peer] # <<>>
           /\ UNCHANGED <<pending, batchRunning, appRep>>
           /\ appReq \subseteq appReq'
           /\ \A m \in appReq' \ appReq :
                /\ m.src = s /\ m.dst = sender[s].peer
                /\ m.entries = sender[s].toSend[sender[s].peer]
                /\ m.commit = commitIndex[s]
           /\ \A x \in Server \ {s} : sender'[x] = sender[x]
           /\ sender'[s].pc = AfterPeer(s, sender[s].peer)
           /\ \A q \in Server : sender'[s].toSend[q] =
                IF q = sender[s].peer THEN <<>> ELSE sender[s].toSend[q]
<1> DEFINE p  == sender[s].peer
           es == sender[s].toSend[p]
           call == [src |-> s, dst |-> p, term |-> sender[s].term,
                    prevIndex |-> es[1].index - 1,
                    prevTerm |-> sender[s].prevTerm, entries |-> es,
                    commit |-> commitIndex[s], waiting |-> TRUE]
<1>1. /\ sender \in [Server -> Sender]
      /\ sender[s].toSend \in [Server -> Seq(WireEntry)]
  BY QueueTypes DEF Sender
<1>2. sender[s].pc = "commit" /\ p \in Server /\ es # <<>>
  BY DEF BatchSend, SenderHoldsBatch
<1>3. /\ UNCHANGED <<pending, batchRunning, appRep>>
      /\ appReq' = appReq \cup {call}
      /\ \A x \in Server \ {s} : sender'[x] = sender[x]
  BY <1>1 DEF BatchSend
<1>4. /\ sender'[s].pc = AfterPeer(s, p)
      /\ sender'[s].toSend = [sender[s].toSend EXCEPT ![p] = <<>>]
  BY <1>1 DEF BatchSend
<1>5. \A q \in Server : sender'[s].toSend[q] = IF q = p THEN <<>>
                                               ELSE sender[s].toSend[q]
  BY <1>1, <1>2, <1>4
<1>6. /\ call.src = s /\ call.dst = p /\ call.entries = es
      /\ call.commit = commitIndex[s]
  OBVIOUS
<1> HIDE DEF call
<1> QED BY <1>2, <1>3, <1>4, <1>5, <1>6

\* A call that leaves comes after the calls under way and before the buffer.
LEMMA BatchSendOrder ==
    ASSUME TypeOK, SenderHoldsBatch, BatchOrder, NEW s \in Server, BatchSend(s)
    PROVE  BatchOrder'
<1> DEFINE p  == sender[s].peer
           es == sender[s].toSend[p]
<1>1. /\ \A m \in appReq : m.src \in Server /\ m.dst \in Server
      /\ sender[s].pc = "commit" /\ p \in Server /\ es # <<>>
  BY QueueTypes, SendMoves
<1>2. /\ UNCHANGED <<pending, batchRunning, appRep>>
      /\ \A m \in appReq' : \/ m \in appReq
                            \/ m.src = s /\ m.dst = p /\ m.entries = es
      /\ \A x \in Server \ {s} : sender'[x] = sender[x]
      /\ sender'[s].pc = AfterPeer(s, p)
  BY SendMoves
<1>3. \A q \in Server : sender'[s].toSend[q] = IF q = p THEN <<>>
                                               ELSE sender[s].toSend[q]
  BY SendMoves
<1>4. IdleHoldsNone'
  <2>1. IdleHoldsNone /\ batchRunning[s]
    BY <1>1 DEF BatchOrder, IdleHoldsNone
  <2>2. sender'[s].pc \in {"none", "loop", "collect"} =>
            \A q \in Server \ {p} : sender[s].toSend[q] = <<>>
    BY <1>2 DEF AfterPeer
  <2> QED BY <1>2, <1>3, <2>1, <2>2 DEF IdleHoldsNone
<1>5. p # s
  BY <1>1 DEF BatchOrder, NotToSelf
<1> HIDE DEF p
<1>6. \A m \in appReq : m.src = s /\ m.dst = p => Before(m.entries, es)
  BY DEF BatchOrder, QueueOrdered
<1>7. Before(es, pending[s][p])
  BY <1>1 DEF BatchOrder, QueueOrdered
<1>8. \A m, n \in appReq' : (m \notin appReq /\ n \notin appReq) => m = n
  <2>1. \E call : appReq' = appReq \cup {call}
    BY DEF BatchSend
  <2> QED BY <2>1
<1> HIDE DEF es
<1>9. CallsOrdered'
  <2> SUFFICES ASSUME NEW m \in appReq', NEW n \in appReq', m # n,
                      m.src = n.src, m.dst = n.dst
               PROVE  Before(m.entries, n.entries) \/ Before(n.entries, m.entries)
    BY DEF CallsOrdered, Before
  <2>1. CASE m \in appReq /\ n \in appReq
    BY <2>1 DEF BatchOrder, CallsOrdered
  <2>2. CASE m \notin appReq \/ n \notin appReq
    BY <1>2, <1>6, <1>8, <2>2
  <2> QED BY <2>1, <2>2
<1>10. \A x, q \in Server : Before(sender'[x].toSend[q], pending[x][q])
  <2>1. \A x, q \in Server : Before(sender[x].toSend[q], pending[x][q])
    BY DEF BatchOrder, QueueOrdered
  <2> QED BY <1>2, <1>3, <2>1, EmptyBefore
<1>11. \A m \in appReq' : /\ Before(m.entries, sender'[m.src].toSend[m.dst])
                          /\ Before(m.entries, pending[m.src][m.dst])
  <2>1. \A m \in appReq : /\ Before(m.entries, sender[m.src].toSend[m.dst])
                          /\ Before(m.entries, pending[m.src][m.dst])
    BY DEF BatchOrder, QueueOrdered
  <2>2. ASSUME NEW m \in appReq
        PROVE  /\ Before(m.entries, sender'[m.src].toSend[m.dst])
               /\ Before(m.entries, pending[m.src][m.dst])
    BY <1>1, <1>2, <1>3, <2>1, EmptyBefore
  <2>3. ASSUME NEW m \in appReq', m.src = s, m.dst = p, m.entries = es
        PROVE  /\ Before(m.entries, sender'[m.src].toSend[m.dst])
               /\ Before(m.entries, pending[m.src][m.dst])
    BY <1>1, <1>3, <1>7, <2>3, EmptyBefore
  <2> QED BY <1>2, <2>2, <2>3
<1>12. QueueOrdered'
  BY <1>2, <1>10, <1>11 DEF QueueOrdered, Before
<1>13. NotToSelf'
  <2>1. NotToSelf
    BY DEF BatchOrder
  <2>2. \A x \in Server : pending'[x][x] = <<>> /\ sender'[x].toSend[x] = <<>>
    BY <1>2, <1>3, <2>1 DEF NotToSelf
  <2> QED BY <1>2, <1>5, <2>1, <2>2 DEF NotToSelf
<1> QED BY <1>4, <1>9, <1>12, <1>13 DEF BatchOrder

\* Every step keeps the order of the batches.
LEMMA OrderStep ==
    ASSUME IndexInv, BatchOrder, [Next]_vars
    PROVE  BatchOrder'
<1>1. TypeOK /\ SenderHoldsBatch
  BY DEF IndexInv
<1>2. CASE UNCHANGED vars
  BY <1>1, <1>2, OtherOrder DEF vars, appVars
<1>3. CASE \/ \E s \in Server : DoElection(s) \/ VoteRpcFail(s) \/ Applier(s)
           \/ \E m \in voteReq : HandleRequestVote(m)
           \/ \E s \in Server, reach \in SUBSET Server : DoHeartBeat(s, reach)
           \/ \E m \in appReq : HandleAppendEntries(m)
           \/ \E m \in appRep : ReceiveAppendReply(m)
           \/ LoseAppend
  <2>1. /\ UNCHANGED batchVars
        /\ \/ UNCHANGED appVars
           \/ \E s \in Server, reach \in SUBSET Server : DoHeartBeat(s, reach)
           \/ \E m \in appReq : HandleAppendEntries(m)
           \/ \E m \in appRep : ReceiveAppendReply(m)
           \/ LoseAppend
    BY <1>3 DEF DoElection, VoteRpcFail, Applier, HandleRequestVote, DoHeartBeat,
       HandleAppendEntries, ReceiveAppendReply, LoseAppend
  <2> QED BY <1>1, <2>1, OtherOrder
<1>4. CASE \/ \E s \in Server : \/ Restart(s) \/ BatchCheckLeader(s)
                              \/ BatchReadTerm(s) \/ BatchReadPrev(s)
                              \/ BatchSend(s)
           \/ \E s \in Server, p \in Server : BatchRecheck(s, p)
           \/ \E s \in Server, c \in Command : Start(s, c)
           \/ \E s \in Server, flush \in SUBSET Server : BatchCollect(s, flush)
           \/ \E m \in voteRep : ReceiveVoteReply(m)
  BY <1>1, <1>4, RestartOrder, QuietThreadOrder, BatchSendOrder, StartOrder,
     BatchCollectOrder, ReceiveVoteReplyOrder
<1> QED BY <1>2, <1>3, <1>4 DEF Next

-----------------------------------------------------------------------------
(* Whose entries, and where *)

\* Every entry of a merged log was there, or is an entry of the batch that is
\* written at its own index or, behind a gap, before it.
LEMMA MergeWrites ==
    ASSUME NEW log \in Seq(Entry), NEW es \in Seq(WireEntry),
           \A i, j \in DOMAIN es : i <= j => es[j].index >= es[i].index + (j - i),
           es # <<>> => es[1].index <= Len(log) + 1,
           NEW i \in 1..Len(Merge(log, es))
    PROVE  \/ i <= Len(log) /\ Merge(log, es)[i] = log[i]
           \/ \E j \in DOMAIN es :
                /\ Merge(log, es)[i] = Stored(es[j])
                /\ es[1].index <= i /\ i <= es[j].index
                /\ i > Len(log) => j = Inside(log, es) + i - Len(log)
                /\ i <= Len(log) => es[j].index = i /\ es[j].term # log[i].term
<1> DEFINE k == Inside(log, es)
           n == Len(log) + Len(es) - k
           S == {j \in DOMAIN es : es[j].index <= Len(log)}
<1>1. k \in Nat /\ k <= Len(es) /\ Len(log) \in Nat /\ Len(es) \in Nat
  BY InsideBound
<1>2. \A j \in DOMAIN es : es[j].index \in Nat
  <2>1. \A j \in DOMAIN es : es[j] \in WireEntry
    OBVIOUS
  <2> QED BY <2>1 DEF WireEntry
<1>3. n \in Nat /\ Len(Merge(log, es)) = n
  <2>1. n \in Nat
    BY <1>1
  <2>2. DOMAIN Merge(log, es) = 1..n
    BY DEF Merge
  <2>3. Merge(log, es) \in Seq(Entry)
    BY MergeLog
  <2> HIDE DEF n
  <2> QED BY <2>1, <2>2, <2>3
<1>4. CASE i <= Len(log) /\ Replaces(log, es, i) = {}
  BY <1>1, <1>3, <1>4 DEF Merge
<1>5. CASE i <= Len(log) /\ Replaces(log, es, i) # {}
  <2> DEFINE j == CHOOSE j \in Replaces(log, es, i) : TRUE
  <2>1. Merge(log, es)[i] = Stored(es[j])
    BY <1>1, <1>3, <1>5 DEF Merge
  <2>2. j \in DOMAIN es /\ es[j].index = i /\ es[j].term # log[i].term
    BY <1>5 DEF Replaces
  <2> HIDE DEF j
  <2>3. 1 \in DOMAIN es /\ j \in Nat /\ 1 <= j
    BY <2>2
  <2>4. es[j].index >= es[1].index + (j - 1)
    BY <2>2, <2>3
  <2>5. es[1].index <= i
    BY <1>2, <2>2, <2>3, <2>4
  <2> QED BY <1>1, <1>2, <1>3, <1>5, <2>1, <2>2, <2>5
<1>6. CASE i > Len(log)
  <2> DEFINE j == k + i - Len(log)
  <2>1. j \in 1..Len(es) /\ j >= k + 1
    BY <1>1, <1>3, <1>6
  <2>2. Merge(log, es)[i] = Stored(es[j])
    BY <1>3, <1>6 DEF Merge
  <2>3. k + 1 \in DOMAIN es
    BY <1>1, <2>1
  <2>4. es[k + 1].index > Len(log)
    <3> SUFFICES ASSUME es[k + 1].index <= Len(log) PROVE FALSE
      BY <1>1, <1>2, <2>3
    <3>1. 1..(k + 1) \subseteq S
      <4> SUFFICES ASSUME NEW x \in 1..(k + 1) PROVE x \in S
        OBVIOUS
      <4>1. x \in DOMAIN es /\ x \in Nat /\ x <= k + 1
        BY <1>1, <2>3
      <4>2. es[k + 1].index >= es[x].index + ((k + 1) - x)
        BY <2>3, <4>1
      <4>3. es[x].index \in Nat /\ es[k + 1].index \in Nat
        BY <1>2, <2>3, <4>1
      <4>4. es[x].index <= Len(log)
        <5> DEFINE b == es[x].index
                   d == es[k + 1].index
        <5>1. /\ b \in Nat /\ d \in Nat /\ k \in Nat /\ x \in Nat /\ x <= k + 1
              /\ Len(log) \in Nat /\ d >= b + ((k + 1) - x) /\ d <= Len(log)
          BY <1>1, <4>1, <4>2, <4>3
        <5> HIDE DEF b, d, k
        <5>2. b <= Len(log)
          BY <5>1
        <5> QED BY <5>2 DEF b
      <4> QED BY <4>1, <4>4
    <3>2. IsFiniteSet(S) /\ Cardinality(S) = k
      <4>1. S \subseteq 1..Len(es)
        OBVIOUS
      <4> QED BY <1>1, <4>1, IntervalSize, FS_Subset DEF Inside
    <3>3. Cardinality(1..(k + 1)) = k + 1
      BY <1>1, k + 1 \in Nat, IntervalSize
    <3> HIDE DEF S, k
    <3> QED BY <1>1, <3>1, <3>2, <3>3, FS_Subset
  <2>5. es[j].index >= es[k + 1].index + (j - (k + 1))
    BY <2>1, <2>3
  <2>6. i <= es[j].index
    <3>1. es[j].index \in Nat /\ es[k + 1].index \in Nat
      BY <1>2, <2>1, <2>3
    <3>2. j - (k + 1) = i - Len(log) - 1 /\ i \in Nat
      BY <1>1, <1>3
    <3>3. es[j].index >= es[k + 1].index + (i - Len(log) - 1)
      BY <2>5, <3>2
    <3> DEFINE b == es[j].index
               d == es[k + 1].index
    <3>4. /\ b \in Nat /\ d \in Nat /\ Len(log) \in Nat /\ i \in Nat
          /\ b >= d + (i - Len(log) - 1) /\ d > Len(log)
      BY <1>1, <2>4, <3>1, <3>2, <3>3
    <3> HIDE DEF b, d, j, k
    <3>5. i <= b
      BY <3>4
    <3> QED BY <3>5 DEF b
  <2>7. es[1].index <= i
    BY <1>1, <1>2, <1>3, <1>6, <2>1
  <2> QED BY <1>1, <1>3, <1>6, <2>1, <2>2, <2>6, <2>7
<1> QED BY <1>1, <1>3, <1>4, <1>5, <1>6

\* Every step but Start sends only what was on its way already.
LEMMA OutgoingShrinks ==
    ASSUME IndexInv, BatchOrder, [Next]_vars,
           ~ \E s \in Server, c \in Command : Start(s, c),
           NEW x \in Server, NEW p \in Server, NEW es \in Outgoing(x, p)'
    PROVE  es = <<>> \/ es \in Outgoing(x, p)
<1>1. TypeOK /\ SenderHoldsBatch
  BY DEF IndexInv
<1>2. /\ sender \in [Server -> Sender] /\ appReq \subseteq AppReq
      /\ pending \in [Server -> [Server -> Seq(WireEntry)]]
      /\ \A y \in Server : sender[y].toSend \in [Server -> Seq(WireEntry)]
  BY <1>1 DEF TypeOK, Sender
<1>3. \/ es = pending'[x][p] \/ es = sender'[x].toSend[p]
      \/ \E m \in appReq' : m.src = x /\ m.dst = p /\ m.entries = es
  BY DEF Outgoing
<1>4. ASSUME pending'[x][p] \in {<<>>, pending[x][p]},
             sender'[x].toSend[p] \in {<<>>, pending[x][p], sender[x].toSend[p]},
             \A m \in appReq' : \/ m.entries = <<>>
                                \/ m.entries = sender[m.src].toSend[m.dst]
                                \/ \E n \in appReq : /\ m.src = n.src
                                                     /\ m.dst = n.dst
                                                     /\ m.entries = n.entries
      PROVE  es = <<>> \/ es \in Outgoing(x, p)
  BY <1>3, <1>4 DEF Outgoing
<1>5. CASE UNCHANGED batchVars /\ appReq' \subseteq appReq
  BY <1>4, <1>5 DEF batchVars
<1>6. ASSUME NEW s \in Server, NEW reach \in SUBSET Server, DoHeartBeat(s, reach)
      PROVE  es = <<>> \/ es \in Outgoing(x, p)
  <2>1. UNCHANGED <<pending, sender>>
    BY <1>6 DEF DoHeartBeat, batchVars
  <2>2. \A m \in appReq' : m \in appReq \/ m.entries = <<>>
    BY <1>6, HeartBeatCalls
  <2> QED BY <1>4, <2>1, <2>2
<1>7. ASSUME NEW m \in voteRep, ReceiveVoteReply(m)
      PROVE  es = <<>> \/ es \in Outgoing(x, p)
  BY <1>1, <1>4, <1>7, VoteReplyMoves
<1>8. ASSUME NEW s \in Server, Restart(s)
      PROVE  es = <<>> \/ es \in Outgoing(x, p)
  BY <1>1, <1>4, <1>8, RestartMoves
<1>9. ASSUME NEW s \in Server,
             \/ BatchCheckLeader(s) \/ BatchReadTerm(s) \/ BatchReadPrev(s)
             \/ \E q \in Server : BatchRecheck(s, q)
      PROVE  es = <<>> \/ es \in Outgoing(x, p)
  <2>1. /\ UNCHANGED <<pending, appReq>>
        /\ \A y \in Server \ {s} : sender'[y] = sender[y]
        /\ \A q \in Server : sender'[s].toSend[q] \in {<<>>, sender[s].toSend[q]}
    BY <1>1, <1>9, ThreadMoves
  <2> QED BY <1>4, <2>1
<1>10. ASSUME NEW s \in Server, NEW flush \in SUBSET Server, BatchCollect(s, flush)
       PROVE  es = <<>> \/ es \in Outgoing(x, p)
  <2>1. /\ UNCHANGED appReq
        /\ \A y \in Server \ {s} : sender'[y] = sender[y] /\ pending'[y] = pending[y]
        /\ \A q \in Server : pending'[s][q] \in {<<>>, pending[s][q]}
        /\ \A q \in Server : sender'[s].toSend[q] \in {<<>>, pending[s][q]}
    BY <1>1, <1>10, CollectMoves
  <2> QED BY <1>4, <2>1
<1>11. ASSUME NEW s \in Server, BatchSend(s)
       PROVE  es = <<>> \/ es \in Outgoing(x, p)
  <2>1. /\ UNCHANGED pending
        /\ \A m \in appReq' : m \in appReq \/ m.entries = sender[m.src].toSend[m.dst]
        /\ \A y \in Server \ {s} : sender'[y] = sender[y]
        /\ \A q \in Server : sender'[s].toSend[q] \in {<<>>, sender[s].toSend[q]}
    BY <1>1, <1>11, SendMoves
  <2> QED BY <1>4, <2>1
<1>12. \/ UNCHANGED batchVars /\ appReq' \subseteq appReq
       \/ \E s \in Server, reach \in SUBSET Server : DoHeartBeat(s, reach)
       \/ \E m \in voteRep : ReceiveVoteReply(m)
       \/ \E s \in Server : Restart(s) \/ BatchCheckLeader(s) \/ BatchReadTerm(s)
                             \/ BatchReadPrev(s) \/ BatchSend(s)
       \/ \E s \in Server, q \in Server : BatchRecheck(s, q)
       \/ \E s \in Server, flush \in SUBSET Server : BatchCollect(s, flush)
  BY DEF Next, vars, DoElection, HandleRequestVote, VoteRpcFail, Applier,
     HandleAppendEntries, ReceiveAppendReply, LoseAppend, appVars
<1> QED BY <1>5, <1>6, <1>7, <1>8, <1>9, <1>10, <1>11, <1>12

\* What is on its way speaks of positions of the sender's log, in order.
LEMMA OutgoingFits ==
    ASSUME TypeOK, BatchesIncrease, CallsFitLog, NEW x \in Server, NEW p \in Server,
           NEW es \in Outgoing(x, p)
    PROVE  /\ es \in Seq(WireEntry) /\ Increasing(x, es)
           /\ \A k \in DOMAIN es : /\ es[k].index \in 1..Len(logs[x])
                                   /\ es[k].index \in Nat /\ es[k].term \in Nat
<1>1. es \in Seq(WireEntry)
  BY QueueTypes DEF Outgoing
<1>2. Increasing(x, es)
  BY DEF BatchesIncrease, CallsFitLog, Outgoing
<1>3. \A k \in DOMAIN es : es[k] \in WireEntry
  BY <1>1
<1>4. \A k \in DOMAIN es : es[k].index \in Nat /\ es[k].term \in Nat
  BY <1>3 DEF WireEntry
<1> QED BY <1>1, <1>2, <1>4 DEF Increasing

\* The winner of a term is one.
LEMMA OneWinner ==
    ASSUME TypeOK, ElectionInv, NEW w \in won, NEW x \in Server, NEW t \in Nat,
           [node |-> x, term |-> t] \in won, w.term = t
    PROVE  w.node = x
<1>1. OneWinnerPerTerm
  BY WinnerUnique
<1> QED BY <1>1 DEF OneWinnerPerTerm

\* Logs are sequences of entries.
LEMMA LogTypes ==
    ASSUME TypeOK
    PROVE  /\ logs \in [Server -> Seq(Entry)]
           /\ \A x \in Server : logs[x] \in Seq(Entry) /\ Len(logs[x]) \in Nat
           /\ won \subseteq [node : Server, term : Nat]
           /\ currentTerm \in [Server -> Nat]
<1>1. logs \in [Server -> Seq(Entry)]
  BY DEF TypeOK
<1>2. \A x \in Server : logs[x] \in Seq(Entry)
  BY <1>1
<1>3. \A x \in Server : Len(logs[x]) \in Nat
  BY <1>2
<1> QED BY <1>1, <1>2, <1>3 DEF TypeOK

\* A step that changes no log and sends nothing new keeps the facts about
\* entries.
LEMMA EntriesKept ==
    ASSUME EntryInv, UNCHANGED logs, won \subseteq won',
           \A x, p \in Server : \A es \in Outgoing(x, p)' :
                es = <<>> \/ es \in Outgoing(x, p)
    PROVE  EntryInv'
<1>1. OwnTerms'
  <2> SUFFICES ASSUME NEW x \in Server, NEW p \in Server,
                      NEW es \in Outgoing(x, p)', NEW k \in DOMAIN es
               PROVE  [node |-> x, term |-> es[k].term] \in won'
    BY DEF OwnTerms
  <2>1. es \in Outgoing(x, p)
    OBVIOUS
  <2> QED BY <2>1 DEF EntryInv, OwnTerms
<1>2. LogsWon'
  BY DEF EntryInv, LogsWon
<1>3. SameCommand'
  <2> SUFFICES ASSUME NEW x \in Server, NEW p \in Server,
                      NEW es \in Outgoing(x, p)', NEW k \in DOMAIN es,
                      es[k].index <= Len(logs[p]),
                      logs[p][es[k].index].term = es[k].term
               PROVE  logs[p][es[k].index].cmd = es[k].cmd
    BY DEF SameCommand
  <2>1. es \in Outgoing(x, p)
    OBVIOUS
  <2> QED BY <2>1 DEF EntryInv, SameCommand
<1> QED BY <1>1, <1>2, <1>3 DEF EntryInv

\* Start makes an entry of the term the node has won, at an index at which no
\* log holds an entry of that term.
LEMMA StartEntries ==
    ASSUME IndexInv, ElectionInv, EntryInv, NEW s \in Server, NEW c \in Command,
           Start(s, c)
    PROVE  EntryInv'
<1>1. TypeOK /\ BatchesIncrease /\ CallsFitLog
  BY DEF IndexInv
<1>2. /\ pending \in [Server -> [Server -> Seq(WireEntry)]]
      /\ \A x, p \in Server : pending[x][p] \in Seq(WireEntry)
  BY <1>1, QueueTypes
<1>3. /\ logs \in [Server -> Seq(Entry)] /\ currentTerm[s] \in Nat
      /\ \A x \in Server : logs[x] \in Seq(Entry) /\ Len(logs[x]) \in Nat
      /\ won \subseteq [node : Server, term : Nat]
  BY <1>1, LogTypes
<1> DEFINE e == NewEntry(s, c)
           l == Len(logs[s])
<1>4. e.index = l + 1 /\ e.term = currentTerm[s] /\ e.cmd = c
  BY DEF NewEntry, LastLogIndex
<1>5. [node |-> s, term |-> currentTerm[s]] \in won
  BY DEF ElectionInv, LeaderHasWon, Start
<1>6. /\ UNCHANGED <<sender, appReq, won>>
      /\ \A x, p \in Server : pending'[x][p] =
            IF x = s /\ p # s THEN Append(pending[x][p], e) ELSE pending[x][p]
  BY <1>2 DEF Start, appVars, histVars
<1>7. logs' = [logs EXCEPT ![s] = Append(logs[s], Stored(e))]
  BY DEF Start
<1>8. Stored(e) = [term |-> currentTerm[s], cmd |-> c] /\ Stored(e) \in Entry
  BY <1>3, <1>4 DEF Stored, Entry
<1> HIDE DEF e
<1>9. ASSUME NEW p \in Server
      PROVE  /\ p # s => logs'[p] = logs[p]
             /\ Len(logs'[s]) = l + 1 /\ logs'[s][l + 1] = Stored(e)
             /\ \A i \in 1..l : logs'[s][i] = logs[s][i]
  BY <1>3, <1>7, <1>8
<1>10. ASSUME NEW x \in Server, NEW p \in Server, NEW es \in Outgoing(x, p)',
              NEW k \in DOMAIN es
       PROVE  \/ \E f \in Outgoing(x, p) : k \in DOMAIN f /\ f[k] = es[k]
              \/ x = s /\ p # s /\ es[k] = e
  <2>1. CASE es \in Outgoing(x, p)
    BY <2>1
  <2>2. CASE es \notin Outgoing(x, p)
    <3>1. x = s /\ p # s /\ es = Append(pending[s][p], e)
      BY <1>6, <2>2 DEF Outgoing
    <3>2. pending[s][p] \in Outgoing(s, p) /\ pending[s][p] \in Seq(WireEntry)
      BY <1>2 DEF Outgoing
    <3> QED BY <3>1, <3>2
  <2> QED BY <2>1, <2>2
<1>11. OwnTerms'
  <2> SUFFICES ASSUME NEW x \in Server, NEW p \in Server,
                      NEW es \in Outgoing(x, p)', NEW k \in DOMAIN es
               PROVE  [node |-> x, term |-> es[k].term] \in won
    BY <1>6 DEF OwnTerms
  <2> QED BY <1>4, <1>5, <1>10 DEF EntryInv, OwnTerms
<1>12. LogsWon'
  <2> SUFFICES ASSUME NEW p \in Server, NEW i \in DOMAIN logs'[p]
               PROVE  \E w \in won : w.term = logs'[p][i].term
                                     /\ i <= Len(logs'[w.node])
    BY <1>6 DEF LogsWon
  <2>1. CASE p = s /\ i = l + 1
    BY <1>3, <1>5, <1>8, <1>9, <2>1
  <2>2. CASE ~(p = s /\ i = l + 1)
    <3>1. i \in DOMAIN logs[p] /\ logs'[p][i] = logs[p][i]
      <4>1. CASE p # s
        BY <1>9, <4>1
      <4>2. CASE p = s
        <5>1. i \in 1..(l + 1)
          BY <1>3, <1>7, <1>8, <4>2
        <5>2. i \in 1..l
          BY <1>3, <2>2, <4>2, <5>1
        <5> QED BY <1>3, <1>9, <4>2, <5>2
      <4> QED BY <4>1, <4>2
    <3>2. PICK w \in won : w.term = logs[p][i].term /\ i <= Len(logs[w.node])
      BY <3>1 DEF EntryInv, LogsWon
    <3>3. w.node \in Server /\ i \in Nat
      BY <1>3, <3>1
    <3>4. Len(logs'[w.node]) \in Nat /\ Len(logs'[w.node]) >= Len(logs[w.node])
      BY <1>3, <1>9, <3>3
    <3>5. i <= Len(logs'[w.node])
      BY <1>3, <3>2, <3>3, <3>4
    <3> QED BY <3>1, <3>2, <3>5
  <2> QED BY <2>1, <2>2
<1>13. SameCommand'
  <2> SUFFICES ASSUME NEW x \in Server, NEW p \in Server,
                      NEW es \in Outgoing(x, p)', NEW k \in DOMAIN es,
                      es[k].index <= Len(logs'[p]),
                      logs'[p][es[k].index].term = es[k].term
               PROVE  logs'[p][es[k].index].cmd = es[k].cmd
    BY DEF SameCommand
  <2>1. ASSUME NEW f \in Outgoing(x, p), k \in DOMAIN f, f[k] = es[k]
        PROVE  logs'[p][es[k].index].cmd = es[k].cmd
    <3>1. [node |-> x, term |-> f[k].term] \in won
      BY <2>1 DEF EntryInv, OwnTerms
    <3>2. f[k].index \in 1..Len(logs[x]) /\ f[k].term \in Nat
      BY <1>1, <2>1, OutgoingFits
    <3>3. CASE p # s
      BY <1>9, <2>1, <3>3 DEF EntryInv, SameCommand
    <3>4. CASE p = s /\ f[k].index <= l
      <4>1. f[k].index \in 1..l
        BY <1>3, <3>2, <3>4
      <4>2. logs'[s][f[k].index] = logs[s][f[k].index]
        BY <1>9, <4>1
      <4> QED BY <2>1, <3>4, <4>2 DEF EntryInv, SameCommand
    <3>5. CASE p = s /\ f[k].index > l
      <4>1. f[k].index = l + 1
        BY <1>3, <1>9, <2>1, <3>2, <3>5
      <4>2. f[k].term = currentTerm[s]
        BY <1>8, <1>9, <2>1, <3>5, <4>1
      <4>3. x = s
        BY <1>1, <1>3, <1>5, <3>1, <4>2, OneWinner
      <4> QED BY <1>3, <3>2, <3>5, <4>1, <4>3
    <3> QED BY <1>3, <3>2, <3>3, <3>4, <3>5
  <2>2. CASE x = s /\ p # s /\ es[k] = e
    <3>1. l + 1 \in DOMAIN logs[p] /\ logs[p][l + 1].term = currentTerm[s]
      BY <1>3, <1>4, <1>9, <2>2
    <3>2. PICK w \in won : w.term = currentTerm[s] /\ l + 1 <= Len(logs[w.node])
      BY <3>1 DEF EntryInv, LogsWon
    <3>3. w.node = s
      BY <1>1, <1>3, <1>5, <3>2, OneWinner
    <3> QED BY <1>3, <3>2, <3>3
  <2> QED BY <1>10, <2>1, <2>2
<1> QED BY <1>11, <1>12, <1>13 DEF EntryInv

\* AppendEntries1 writes entries of the caller's terms, and none at an index
\* that another batch of the caller speaks of.
LEMMA AppendMatchEntries ==
    ASSUME IndexInv, ElectionInv, BatchOrder, EntryInv, NEW m \in appReq,
           MatchLog(logs[m.dst], m.prevIndex, m.prevTerm),
           logs' = [logs EXCEPT ![m.dst] = Merge(logs[m.dst], m.entries)],
           appReq' = appReq \ {m}, UNCHANGED <<pending, sender, won>>
    PROVE  EntryInv'
<1> DEFINE s  == m.src
           d  == m.dst
           es == m.entries
           log == Merge(logs[d], es)
<1>1. TypeOK /\ BatchesIncrease /\ CallsFitLog
  BY DEF IndexInv
<1>2. s \in Server /\ d \in Server /\ es \in Seq(WireEntry) /\ m.prevIndex \in Nat
  BY <1>1, QueueTypes
<1>3. /\ logs \in [Server -> Seq(Entry)]
      /\ \A x \in Server : logs[x] \in Seq(Entry) /\ Len(logs[x]) \in Nat
      /\ won \subseteq [node : Server, term : Nat]
  BY <1>1, LogTypes
<1>4. es \in Outgoing(s, d)
  BY DEF Outgoing
<1>5. /\ \A k \in DOMAIN es : /\ es[k].index \in 1..Len(logs[s])
                             /\ es[k].index \in Nat /\ es[k].term \in Nat
                             /\ [node |-> s, term |-> es[k].term] \in won
      /\ \A i, j \in DOMAIN es : i <= j => es[j].index >= es[i].index + (j - i)
  BY <1>1, <1>2, <1>4, OutgoingFits DEF EntryInv, OwnTerms, Increasing
<1>6. es # <<>> => es[1].index <= Len(logs[d]) + 1
  <2> SUFFICES ASSUME es # <<>> PROVE es[1].index <= Len(logs[d]) + 1
    OBVIOUS
  <2>1. m.prevIndex = es[1].index - 1 /\ m.prevIndex <= Len(logs[d])
    BY <1>1, <1>3, <1>2 DEF CallsFitLog, MatchLog
  <2>2. 1 \in DOMAIN es
    BY <1>2
  <2>3. es[1].index \in Nat
    BY <1>5, <2>2
  <2> HIDE DEF es, d
  <2> QED BY <1>2, <1>3, <2>1, <2>3
<1>7. /\ log \in Seq(Entry) /\ Len(log) \in Nat /\ Len(log) >= Len(logs[d])
      /\ logs'[d] = log /\ \A x \in Server \ {d} : logs'[x] = logs[x]
  BY <1>2, <1>3, MergeLog
<1> HIDE DEF s, d
<1>8. ASSUME NEW i \in 1..Len(log)
      PROVE  \/ i <= Len(logs[d]) /\ log[i] = logs[d][i]
             \/ \E j \in DOMAIN es : /\ log[i] = Stored(es[j])
                                     /\ es[1].index <= i /\ i <= es[j].index
  BY <1>2, <1>3, <1>5, <1>6, MergeWrites
<1> HIDE DEF log
<1>9. \A x, p \in Server : \A f \in Outgoing(x, p)' : f \in Outgoing(x, p)
  BY DEF Outgoing
<1>10. OwnTerms'
  BY <1>9 DEF EntryInv, OwnTerms
<1>11. LogsWon'
  <2> SUFFICES ASSUME NEW p \in Server, NEW i \in DOMAIN logs'[p]
               PROVE  \E w \in won : w.term = logs'[p][i].term
                                     /\ i <= Len(logs'[w.node])
    BY DEF LogsWon
  <2>1. \A x \in Server : /\ Len(logs'[x]) \in Nat
                          /\ Len(logs'[x]) >= Len(logs[x])
    BY <1>3, <1>7
  <2>2. ASSUME i \in DOMAIN logs[p], logs'[p][i] = logs[p][i]
        PROVE  \E w \in won : w.term = logs'[p][i].term
                              /\ i <= Len(logs'[w.node])
    <3>1. PICK w \in won : w.term = logs[p][i].term /\ i <= Len(logs[w.node])
      BY <2>2 DEF EntryInv, LogsWon
    <3>2. w.node \in Server /\ i \in Nat /\ Len(logs[w.node]) \in Nat
      BY <1>3, <2>2
    <3> QED BY <2>1, <2>2, <3>1, <3>2
  <2>3. CASE p # d
    BY <1>7, <2>2, <2>3
  <2>4. CASE p = d
    <3>1. i \in 1..Len(log) /\ logs'[p] = log
      BY <1>7, <2>4
    <3>2. CASE i <= Len(logs[d]) /\ log[i] = logs[d][i]
      <4>1. i \in DOMAIN logs[p]
        BY <1>2, <1>3, <2>4, <3>1, <3>2
      <4> QED BY <2>2, <2>4, <3>1, <3>2, <4>1
    <3>3. ASSUME NEW j \in DOMAIN es, log[i] = Stored(es[j]), i <= es[j].index
          PROVE  \E w \in won : w.term = logs'[p][i].term
                                /\ i <= Len(logs'[w.node])
      <4>1. log[i].term = es[j].term
        BY <3>3 DEF Stored
      <4>2. i \in Nat /\ es[j].index \in Nat /\ es[j].index <= Len(logs[s])
        <5>1. i \in Nat
          BY <1>7, <3>1
        <5>2. es[j].index \in 1..Len(logs[s]) /\ es[j].index \in Nat
          BY <1>5, <3>3
        <5> HIDE DEF es
        <5> QED BY <1>2, <1>3, <5>1, <5>2
      <4>3. i <= Len(logs'[s])
        BY <1>2, <1>3, <2>1, <3>3, <4>2
      <4> QED BY <1>5, <3>1, <4>1, <4>3
    <3> QED BY <1>8, <3>1, <3>2, <3>3
  <2> QED BY <2>3, <2>4
<1>12. SameCommand'
  <2> SUFFICES ASSUME NEW x \in Server, NEW p \in Server,
                      NEW f \in Outgoing(x, p)', NEW k \in DOMAIN f,
                      f[k].index <= Len(logs'[p]),
                      logs'[p][f[k].index].term = f[k].term
               PROVE  logs'[p][f[k].index].cmd = f[k].cmd
    BY DEF SameCommand
  <2>1. f \in Outgoing(x, p)
    BY <1>9
  <2>2. f[k].index \in 1..Len(logs[x]) /\ f[k].index \in Nat /\ f[k].term \in Nat
        /\ [node |-> x, term |-> f[k].term] \in won
    BY <1>1, <2>1, OutgoingFits DEF EntryInv, OwnTerms
  <2>3. CASE p # d
    BY <1>7, <2>1, <2>3 DEF EntryInv, SameCommand
  <2>4. CASE p = d /\ f[k].index <= Len(logs[d])
                   /\ log[f[k].index] = logs[d][f[k].index]
    BY <1>7, <2>1, <2>4 DEF EntryInv, SameCommand
  <2>5. ASSUME p = d, NEW j \in DOMAIN es, log[f[k].index] = Stored(es[j]),
               es[1].index <= f[k].index, f[k].index <= es[j].index
        PROVE  FALSE
    <3>1. es[j].term = f[k].term
      BY <1>7, <2>5 DEF Stored
    <3>2. x = s
      BY <1>1, <1>2, <1>5, <2>2, <3>1, OneWinner
    <3>3. Before(es, f) \/ Before(f, es)
      <4>1. \/ f = pending[s][d] \/ f = sender[s].toSend[d]
            \/ \E n \in appReq : n # m /\ n.src = s /\ n.dst = d /\ n.entries = f
        BY <2>5, <3>2 DEF Outgoing
      <4> QED BY <4>1 DEF BatchOrder, CallsOrdered, QueueOrdered, s, d
    <3>4. 1 \in DOMAIN es
      BY <1>2, <2>5
    <3>5. es[1].index \in Nat /\ es[j].index \in Nat
      BY <1>5, <2>5, <3>4
    <3>6. es[j].index < f[k].index \/ f[k].index < es[1].index
      BY <2>5, <3>3, <3>4 DEF Before
    <3> QED BY <2>2, <2>5, <3>5, <3>6
  <2>6. CASE p = d
    <3>1. f[k].index \in 1..Len(log)
      BY <1>7, <2>2, <2>6
    <3> QED BY <1>8, <2>4, <2>5, <2>6, <3>1
  <2> QED BY <2>3, <2>6
<1> QED BY <1>10, <1>11, <1>12 DEF EntryInv

\* An election won stays won.
LEMMA WinnersStay == ASSUME [Next]_vars PROVE won \subseteq won'
  BY DEF Next, vars, Restart, DoElection, HandleRequestVote, ReceiveVoteReply,
     BecomeLeader, VoteRpcFail, BatchCheckLeader, BatchReadTerm, BatchReadPrev,
     BatchSend, BatchCollect, BatchRecheck, DoHeartBeat, HandleAppendEntries,
     ReceiveAppendReply, LoseAppend, Applier, histVars, Start

\* A log changes when its node takes an operation or handles a call; a restart
\* reads back the log that was there.
LEMMA LogsMove ==
    ASSUME IndexInv, [Next]_vars
    PROVE  \/ UNCHANGED logs \/ \E s \in Server, c \in Command : Start(s, c)
           \/ \E m \in appReq : HandleAppendEntries(m)
<1>1. ASSUME NEW s \in Server, Restart(s) PROVE UNCHANGED logs
  <2>1. disk[s] = [term |-> currentTerm[s], votedFor |-> votedFor[s],
                   logs |-> logs[s]]
    BY DEF IndexInv, DurableState
  <2>2. disk[s].logs = logs[s] /\ logs \in [Server -> Seq(Entry)]
    BY <2>1 DEF IndexInv, TypeOK
  <2> QED BY <1>1, <2>2 DEF Restart
<1> QED BY <1>1 DEF Next, vars, DoElection, HandleRequestVote, ReceiveVoteReply,
     BecomeLeader, StepDown, VoteRpcFail, BatchCheckLeader, BatchReadTerm,
     BatchReadPrev, BatchSend, BatchCollect, BatchRecheck, DoHeartBeat,
     ReceiveAppendReply, LoseAppend, Applier, nodeVars

\* Every step keeps the facts about entries.
LEMMA EntryStep ==
    ASSUME IndexInv, ElectionInv, BatchOrder, EntryInv, [Next]_vars
    PROVE  EntryInv'
<1>1. CASE \E s \in Server, c \in Command : Start(s, c)
  BY <1>1, StartEntries
<1>2. ASSUME NEW m \in appReq, HandleAppendEntries(m), ~UNCHANGED logs
      PROVE  EntryInv'
  <2>1. AppendMatch(m)
    BY <1>2 DEF HandleAppendEntries, AppendStale, AppendGap, AppendMismatch, nodeVars
  <2>2. /\ MatchLog(logs[m.dst], m.prevIndex, m.prevTerm)
        /\ logs' = [logs EXCEPT ![m.dst] = Merge(logs[m.dst], m.entries)]
    BY <2>1 DEF AppendMatch
  <2>3. appReq' = appReq \ {m} /\ UNCHANGED <<pending, sender, won>>
    BY <1>2 DEF HandleAppendEntries, batchVars, histVars
  <2> QED BY <2>2, <2>3, AppendMatchEntries
<1>3. CASE /\ ~ \E s \in Server, c \in Command : Start(s, c)
           /\ UNCHANGED logs
  BY <1>3, WinnersStay, OutgoingShrinks, EntriesKept
<1> QED BY <1>1, <1>2, <1>3, LogsMove

\* The batches between two nodes stay in order, and every entry in a log or on
\* its way stays that of the winner of its term.
THEOREM ReplicationInvariance == Spec => [](BatchOrder /\ EntryInv)
<1>1. Init => BatchOrder /\ EntryInv
  <2> SUFFICES ASSUME Init PROVE BatchOrder /\ EntryInv
    OBVIOUS
  <2>1. /\ appReq = {} /\ appRep = {}
        /\ \A s, p \in Server : pending[s][p] = <<>> /\ sender[s].toSend[p] = <<>>
        /\ \A s \in Server : sender[s].pc = "none" /\ logs[s] = <<>>
    BY DEF Init, NoEntries, NoSender
  <2>2. BatchOrder
    BY <2>1 DEF BatchOrder, CallsOrdered, QueueOrdered, IdleHoldsNone, NotToSelf,
       Before
  <2>3. \A s, p \in Server : \A es \in Outgoing(s, p) : es = <<>>
    BY <2>1 DEF Outgoing
  <2>4. OwnTerms /\ SameCommand
    BY <2>3 DEF OwnTerms, SameCommand
  <2>5. LogsWon
    BY <2>1 DEF LogsWon
  <2> QED BY <2>2, <2>4, <2>5 DEF EntryInv
<1>2. IndexInv /\ ElectionInv /\ BatchOrder /\ EntryInv /\ [Next]_vars
        => BatchOrder' /\ EntryInv'
  BY OrderStep, EntryStep
<1> QED BY <1>1, <1>2, IndexInvariance, ElectionInvariance, PTL DEF Spec

\* The assertion of AppendEntries1 that index and term name one command never
\* fails: a node is sent every index of a term once, by the winner of the term,
\* and a gap in a batch moves its entries only over indices of that batch.
THEOREM CommandsAgree == Spec => []OneCommandPerEntry
<1>1. ASSUME TypeOK, EntryInv PROVE OneCommandPerEntry
  <2> SUFFICES ASSUME NEW m \in appReq, NEW k \in DOMAIN m.entries,
                      m.entries[k].index <= Len(logs[m.dst]),
                      logs[m.dst][m.entries[k].index].term = m.entries[k].term
               PROVE  logs[m.dst][m.entries[k].index].cmd = m.entries[k].cmd
    BY DEF OneCommandPerEntry
  <2>1. m.src \in Server /\ m.dst \in Server
    BY <1>1, QueueTypes
  <2>2. m.entries \in Outgoing(m.src, m.dst)
    BY DEF Outgoing
  <2> QED BY <1>1, <2>1, <2>2 DEF EntryInv, SameCommand
<1>2. IndexInv => TypeOK
  BY DEF IndexInv
<1> QED BY <1>1, <1>2, IndexInvariance, ReplicationInvariance, PTL

\* The assertion of AppendEntries1 after its loop never fails: the log reaches
\* to the end of the call, gaps in the batch or not.
THEOREM MergesReachEnd == Spec => []MergeReachesEnd
<1>1. ASSUME IndexInv PROVE MergeReachesEnd
  <2> SUFFICES ASSUME NEW m \in appReq,
                      MatchLog(logs[m.dst], m.prevIndex, m.prevTerm)
               PROVE  Len(Merge(logs[m.dst], m.entries))
                        >= m.prevIndex + Len(m.entries)
    BY DEF MergeReachesEnd
  <2>1. TypeOK /\ CallsFitLog
    BY <1>1 DEF IndexInv
  <2>2. /\ m.src \in Server /\ m.dst \in Server /\ m.entries \in Seq(WireEntry)
        /\ m.prevIndex \in Nat /\ logs[m.dst] \in Seq(Entry)
        /\ Len(logs[m.dst]) \in Nat
    BY <2>1, QueueTypes, LogTypes
  <2>3. m.prevIndex <= Len(logs[m.dst])
    BY <2>2 DEF MatchLog
  <2>4. ASSUME NEW i \in DOMAIN m.entries
        PROVE  m.entries[i].index >= m.prevIndex + i
    <3>1. m.entries # <<>> /\ 1 \in DOMAIN m.entries /\ i \in Nat /\ 1 <= i
      BY <2>2
    <3>2. /\ m.entries[i].index >= m.entries[1].index + (i - 1)
          /\ m.prevIndex = m.entries[1].index - 1
      BY <2>1, <3>1 DEF CallsFitLog, Increasing
    <3>3. m.entries[i] \in WireEntry /\ m.entries[1] \in WireEntry
      BY <2>2, <3>1
    <3>4. m.entries[i].index \in Nat /\ m.entries[1].index \in Nat
      BY <3>3 DEF WireEntry
    <3> QED BY <2>2, <3>1, <3>2, <3>4
  <2> QED BY <2>2, <2>3, <2>4, MergeLog
<1> QED BY <1>1, IndexInvariance, PTL

\* Nobody leads a term it has not won.
THEOREM LeadersHaveWon == Spec => []LeaderHasWon
<1>1. ElectionInv => LeaderHasWon
  BY DEF ElectionInv
<1> QED BY <1>1, ElectionInvariance, PTL

-----------------------------------------------------------------------------
(* Commit indices and logs only grow *)

\* What CommitMonotonic says of one step.
MonotonicStep ==
    \A s \in Server :
        /\ restarts' = restarts => /\ commitIndex'[s] >= commitIndex[s]
                                  /\ lastApplied'[s] >= lastApplied[s]
        /\ Len(logs'[s]) >= Len(logs[s])

\* No step shortens a log, and only a restart takes back an index.
LEMMA NextMonotonic ==
    ASSUME IndexInv, [Next]_vars
    PROVE  MonotonicStep
<1>1. TypeOK /\ CommitWithinLog
  BY DEF IndexInv
<1>2. /\ logs \in [Server -> Seq(Entry)] /\ commitIndex \in [Server -> Nat]
      /\ lastApplied \in [Server -> Nat] /\ restarts \in Nat
      /\ \A x \in Server : /\ Len(logs[x]) \in Nat /\ logs[x] \in Seq(Entry)
                           /\ commitIndex[x] <= Len(logs[x])
  BY <1>1, LogTypes DEF TypeOK, CommitWithinLog
<1>3. CASE UNCHANGED <<logs, commitIndex, lastApplied>>
  BY <1>2, <1>3 DEF MonotonicStep
<1>4. ASSUME NEW s \in Server, Restart(s) PROVE MonotonicStep
  <2>1. restarts' # restarts
    BY <1>2, <1>4 DEF Restart
  <2>2. disk[s] = [term |-> currentTerm[s], votedFor |-> votedFor[s],
                   logs |-> logs[s]]
    BY DEF IndexInv, DurableState
  <2>3. logs' = logs
    BY <1>2, <1>4, <2>2 DEF Restart
  <2> QED BY <1>2, <2>1, <2>3 DEF MonotonicStep
<1>5. ASSUME NEW s \in Server, NEW c \in Command, Start(s, c) PROVE MonotonicStep
  <2>1. /\ logs' = [logs EXCEPT ![s] = Append(logs[s], Stored(NewEntry(s, c)))]
        /\ UNCHANGED <<commitIndex, lastApplied>>
    BY <1>5 DEF Start, indexVars
  <2>2. Stored(NewEntry(s, c)) \in Entry
    BY <1>1 DEF TypeOK, Stored, NewEntry, Entry
  <2>3. Len(Append(logs[s], Stored(NewEntry(s, c)))) = Len(logs[s]) + 1
    BY <1>2, <2>2
  <2>4. \A x \in Server : Len(logs'[x]) >= Len(logs[x])
    BY <1>2, <2>1, <2>3
  <2> QED BY <1>2, <2>1, <2>4 DEF MonotonicStep
<1>6. ASSUME NEW m \in appReq, AppendMatch(m), UNCHANGED lastApplied
      PROVE  MonotonicStep
  <2> DEFINE s == m.dst
             log == Merge(logs[s], m.entries)
  <2>1. s \in Server /\ m.entries \in Seq(WireEntry)
    BY <1>1, QueueTypes
  <2>2. m.commit \in Nat
    BY <1>1 DEF TypeOK, AppReq
  <2>3. /\ logs' = [logs EXCEPT ![s] = log]
        /\ commitIndex' = [commitIndex EXCEPT ![s] =
                FollowerCommit(commitIndex[s], m.commit, Len(log))]
    BY <1>6 DEF AppendMatch
  <2>4. Len(log) \in Nat /\ Len(log) >= Len(logs[s])
    BY <1>2, <2>1, MergeLog
  <2>5. FollowerCommit(commitIndex[s], m.commit, Len(log)) >= commitIndex[s]
    <3> HIDE DEF log, s
    <3>1. commitIndex[s] \in Nat /\ commitIndex[s] <= Len(log)
      BY <1>2, <2>1, <2>4
    <3> QED BY <2>2, <2>4, <3>1 DEF FollowerCommit, Smaller
  <2> HIDE DEF s, log
  <2> QED BY <1>2, <1>6, <2>1, <2>3, <2>4, <2>5 DEF MonotonicStep
<1>7. ASSUME NEW m \in appReq, HandleAppendEntries(m) PROVE MonotonicStep
  <2>1. UNCHANGED lastApplied /\ (AppendMatch(m) \/ UNCHANGED <<logs, commitIndex>>)
    BY <1>7 DEF HandleAppendEntries, AppendStale, AppendGap, AppendMismatch, nodeVars
  <2> QED BY <1>3, <1>6, <2>1
<1>8. ASSUME NEW m \in appRep, ReceiveAppendReply(m) PROVE MonotonicStep
  <2>1. m.src \in Server /\ m.prevIndex + m.num \in Nat
    <3>1. m \in AppRep
      BY <1>1 DEF TypeOK
    <3>2. m.src \in Server /\ m.prevIndex \in Nat /\ m.num \in Nat
      BY <3>1 DEF AppRep
    <3> QED BY <3>2
  <2>2. UNCHANGED <<logs, lastApplied>>
    BY <1>8 DEF ReceiveAppendReply, StepDown, nodeVars
  <2>3. \/ UNCHANGED commitIndex
        \/ commitIndex' = [commitIndex EXCEPT ![m.src] =
                Larger(commitIndex[m.src], m.prevIndex + m.num)]
    <3>1. UNCHANGED commitIndex \/ PeerSynced(m)
      BY <1>8 DEF ReceiveAppendReply
    <3>2. CASE PeerSynced(m)
      BY <1>2, <3>2 DEF PeerSynced
    <3> QED BY <3>1, <3>2
  <2>4. Larger(commitIndex[m.src], m.prevIndex + m.num) >= commitIndex[m.src]
    BY <1>2, <2>1 DEF Larger
  <2> QED BY <1>2, <2>1, <2>2, <2>3, <2>4 DEF MonotonicStep
<1>9. ASSUME NEW s \in Server, Applier(s) PROVE MonotonicStep
  BY <1>2, <1>9 DEF Applier, nodeVars, MonotonicStep
<1>10. \/ UNCHANGED <<logs, commitIndex, lastApplied>>
       \/ \E s \in Server : Restart(s) \/ Applier(s)
       \/ \E s \in Server, c \in Command : Start(s, c)
       \/ \E m \in appReq : HandleAppendEntries(m)
       \/ \E m \in appRep : ReceiveAppendReply(m)
  BY DEF Next, vars, DoElection, HandleRequestVote, ReceiveVoteReply, BecomeLeader,
     StepDown, VoteRpcFail, BatchCheckLeader, BatchReadTerm, BatchReadPrev,
     BatchSend, BatchCollect, BatchRecheck, DoHeartBeat, LoseAppend, nodeVars,
     indexVars
<1> QED BY <1>3, <1>4, <1>5, <1>7, <1>8, <1>9, <1>10

\* Nothing but a restart takes back a commit index or an applied entry, and
\* nothing at all shortens a log, although AppendEntries1 takes the commit
\* index of any caller.
THEOREM CommitsGrow == Spec => CommitMonotonic
<1>1. IndexInv /\ [Next]_vars => [MonotonicStep]_vars
  BY NextMonotonic
<1>2. CommitMonotonic <=> [][MonotonicStep]_vars
  BY PTL DEF CommitMonotonic, MonotonicStep
<1> QED BY <1>1, <1>2, IndexInvariance, PTL DEF Spec

-----------------------------------------------------------------------------
(* The thread of a first leadership *)

Wins(s) == {w \in won : w.node = s}

\* A node that never won has not set m_batchRunning.
ThreadInv ==
    /\ IsFiniteSet(won)
    /\ \A s \in Server : Wins(s) = {} => ~batchRunning[s]
    /\ LeaderHasSender

\* A step that makes nobody Leader and ends no Leader's thread.
LEMMA ThreadKept ==
    ASSUME ThreadInv, won' = won,
           \A s \in Server : /\ batchRunning'[s] => batchRunning[s]
                             /\ status'[s] = "Leader" =>
                                    /\ status[s] = "Leader"
                                    /\ sender[s].pc # "none" => sender'[s].pc # "none"
    PROVE  ThreadInv'
<1>1. \A s \in Server : Wins(s)' = Wins(s)
  BY DEF Wins
<1>2. LeaderHasSender'
  <2> SUFFICES ASSUME NEW s \in Server, status'[s] = "Leader",
                      Cardinality({w \in won : w.node = s}) = 1
               PROVE  sender'[s].pc # "none"
    BY DEF LeaderHasSender
  <2> QED BY DEF ThreadInv, LeaderHasSender
<1> QED BY <1>1, <1>2 DEF ThreadInv

\* Nobody wins twice the election of one term.
LEMMA WinIsNew ==
    ASSUME TypeOK, ElectionInv, NEW m \in voteRep, ReceiveVoteReply(m), m.granted,
           m.term = currentTerm[m.src], elect[m.src].voteNum + 1 >= Majority
    PROVE  [node |-> m.src, term |-> currentTerm[m.src]] \notin won
<1> DEFINE s == m.src
           r == [node |-> s, term |-> currentTerm[s]]
<1>1. m \in VoteRep /\ m.dst \in Server /\ s \in Server /\ elect[s].peer = m.dst
      /\ elect[s].term = m.reqTerm
  BY DEF TypeOK, VoteRep, ReceiveVoteReply
<1> SUFFICES ASSUME r \in won PROVE FALSE
  OBVIOUS
<1>2. AnswersAreVotes /\ CountedVotes
  BY DEF ElectionInv
<1>3. elect[s].term = currentTerm[s]
  BY <1>1, <1>2 DEF AnswersAreVotes
<1>4. [node |-> s, term |-> elect[s].term] \in won /\ elect[s].peer # Nil
  BY <1>1, <1>3, NilAssumption
<1> HIDE DEF s
<1>5. /\ elect[s].voteNum \in Nat /\ Cardinality(elect[s].todo) \in Nat
      /\ elect[s].voteNum + Cardinality(elect[s].todo) < Majority
  BY <1>1, <1>2, <1>4, StrikePeer
<1>6. Cardinality(elect[s].todo) >= 1
  <2>1. elect[s] \in Election
    BY <1>1 DEF TypeOK
  <2>2. elect[s].todo \in SUBSET Server /\ elect[s].peer \in elect[s].todo
    BY <1>1, <1>2, <1>4, <2>1 DEF Election, CountedVotes
  <2>3. {elect[s].peer} \in SUBSET elect[s].todo
    BY <2>2
  <2> QED BY <2>2, <2>3, ServerSubset, FS_Singleton
<1>7. elect[s].voteNum + 1 >= Majority
  BY DEF s
<1> QED BY <1>5, <1>6, <1>7, MajorityType

\* The winner of a first election starts its thread.
LEMMA BecomeLeaderThread ==
    ASSUME TypeOK, ElectionInv, ThreadInv, NEW m \in voteRep, ReceiveVoteReply(m),
           BecomeLeader(m.src), m.granted, m.term = currentTerm[m.src],
           elect[m.src].voteNum + 1 >= Majority
    PROVE  ThreadInv'
<1> DEFINE s == m.src
           r == [node |-> s, term |-> currentTerm[s]]
<1>1. m \in VoteRep /\ m.dst \in Server /\ s \in Server /\ elect[s].peer = m.dst
      /\ elect[s].term = m.reqTerm
  BY DEF TypeOK, VoteRep, ReceiveVoteReply
<1>2. /\ won' = won \cup {r} /\ status' = [status EXCEPT ![s] = "Leader"]
      /\ batchRunning' = [batchRunning EXCEPT ![s] = TRUE]
      /\ sender' = IF batchRunning[s] THEN sender
                   ELSE [sender EXCEPT ![s] = [@ EXCEPT !.pc = "loop"]]
  BY DEF BecomeLeader
<1>3. /\ batchRunning \in [Server -> BOOLEAN] /\ sender \in [Server -> Sender]
      /\ status \in [Server -> Status]
  BY DEF TypeOK
<1>4. r \notin won
  BY WinIsNew
<1>5. IsFiniteSet(won')
  BY <1>2, FS_AddElement DEF ThreadInv
<1>6. r.node = s
  OBVIOUS
<1>7. \A x \in Server \ {s} : Wins(x)' = Wins(x)
  BY <1>2, <1>6 DEF Wins
<1>8. Wins(s)' = Wins(s) \cup {r} /\ r \notin Wins(s)
  BY <1>2, <1>4, <1>6 DEF Wins
<1> HIDE DEF r, s
<1>9. \A x \in Server : Wins(x)' = {} => ~batchRunning'[x]
  BY <1>1, <1>2, <1>3, <1>7, <1>8 DEF ThreadInv
<1>10. ASSUME NEW x \in Server, status'[x] = "Leader",
              Cardinality({w \in won' : w.node = x}) = 1
       PROVE  sender'[x].pc # "none"
  <2>1. CASE x = s
    <3>1. IsFiniteSet(Wins(s)) /\ Wins(s) \subseteq won
      BY FS_Subset DEF ThreadInv, Wins
    <3>2. Cardinality(Wins(s) \cup {r}) = Cardinality(Wins(s)) + 1
      BY <1>8, <3>1, FS_AddElement
    <3>3. Cardinality(Wins(s)) = 0
      <4>1. {w \in won' : w.node = x} = Wins(s) \cup {r}
        BY <1>8, <2>1 DEF Wins
      <4>2. Cardinality(Wins(s) \cup {r}) = 1
        BY <1>10, <4>1
      <4>3. Cardinality(Wins(s)) \in Nat
        BY <3>1, FS_CardinalityType
      <4> QED BY <3>2, <4>2, <4>3
    <3>4. Wins(s) = {}
      BY <3>1, <3>3, FS_EmptySet
    <3>5. ~batchRunning[s]
      BY <1>1, <3>4 DEF ThreadInv
    <3>6. sender'[s] = [sender[s] EXCEPT !.pc = "loop"] /\ sender[s] \in Sender
      BY <1>1, <1>2, <1>3, <3>5
    <3>7. sender'[s].pc = "loop"
      BY <3>6 DEF Sender
    <3> QED BY <2>1, <3>7
  <2>2. CASE x # s
    <3>1. status[x] = "Leader" /\ sender'[x] = sender[x] /\ Cardinality(Wins(x)) = 1
      BY <1>1, <1>2, <1>3, <1>7, <1>10, <2>2 DEF Wins
    <3> QED BY <3>1 DEF ThreadInv, LeaderHasSender, Wins
  <2> QED BY <2>1, <2>2
<1>11. LeaderHasSender'
  BY <1>10 DEF LeaderHasSender
<1> QED BY <1>5, <1>9, <1>11 DEF ThreadInv

\* Every step keeps the thread of a first leadership.
LEMMA ThreadStep ==
    ASSUME IndexInv, ElectionInv, BatchOrder, ThreadInv, [Next]_vars
    PROVE  ThreadInv'
<1>1. TypeOK /\ SenderHoldsBatch
  BY DEF IndexInv
<1>2. /\ status \in [Server -> Status] /\ batchRunning \in [Server -> BOOLEAN]
      /\ sender \in [Server -> Sender]
  BY <1>1 DEF TypeOK
<1>3. CASE UNCHANGED <<status, batchRunning, sender, won>>
  BY <1>3, ThreadKept
<1>4. ASSUME NEW s \in Server, StepDown(s, currentTerm'[s]),
             UNCHANGED <<batchRunning, sender, won>>
      PROVE  ThreadInv'
  BY <1>2, <1>4, ThreadKept DEF StepDown
<1>5. ASSUME NEW s \in Server, Restart(s) PROVE ThreadInv'
  BY <1>2, <1>5, ThreadKept DEF Restart, histVars
<1>6. ASSUME NEW s \in Server, DoElection(s) PROVE ThreadInv'
  BY <1>2, <1>6, ThreadKept DEF DoElection, batchVars
<1>7. ASSUME NEW m \in voteReq, HandleRequestVote(m) PROVE ThreadInv'
  <2>1. UNCHANGED <<batchRunning, sender, won>> /\ m.dst \in Server
    BY <1>1, <1>7 DEF HandleRequestVote, batchVars, TypeOK, VoteReq
  <2>2. status' \in {status, [status EXCEPT ![m.dst] = "Follower"]}
    BY <1>7 DEF HandleRequestVote
  <2> QED BY <1>2, <2>1, <2>2, ThreadKept
<1>8. ASSUME NEW m \in voteRep, ReceiveVoteReply(m) PROVE ThreadInv'
  <2> DEFINE counted == m.term = currentTerm[m.src] /\ m.granted
             num == elect[m.src].voteNum + (IF counted THEN 1 ELSE 0)
             wins == counted /\ num >= Majority
  <2>1. m.src \in Server
    BY <1>1 DEF TypeOK, VoteRep
  <2>2. \/ StepDown(m.src, m.term) /\ UNCHANGED <<batchRunning, sender, won>>
        \/ wins /\ BecomeLeader(m.src)
        \/ UNCHANGED <<status, batchRunning, sender, won>>
    BY <1>8 DEF ReceiveVoteReply, nodeVars
  <2>3. CASE StepDown(m.src, m.term) /\ UNCHANGED <<batchRunning, sender, won>>
    BY <1>2, <2>1, <2>3, ThreadKept DEF StepDown
  <2>4. CASE wins /\ BecomeLeader(m.src)
    BY <1>1, <1>8, <2>4, BecomeLeaderThread
  <2> QED BY <1>3, <2>2, <2>3, <2>4
<1>9. ASSUME NEW s \in Server, UNCHANGED <<status, batchRunning, won>>,
             \A x \in Server \ {s} : sender'[x] = sender[x],
             status[s] = "Leader" => sender'[s].pc # "none"
      PROVE  ThreadInv'
  BY <1>9, ThreadKept
<1>10. ASSUME NEW s \in Server,
              BatchCheckLeader(s) \/ BatchReadTerm(s) \/ BatchReadPrev(s)
              \/ \E p \in Server : BatchRecheck(s, p)
       PROVE  ThreadInv'
  <2>1. UNCHANGED <<status, batchRunning, won>>
    BY <1>10 DEF BatchCheckLeader, BatchReadTerm, BatchReadPrev, BatchRecheck,
       nodeVars, histVars
  <2>2. \A x \in Server \ {s} : sender'[x] = sender[x]
    BY <1>1, <1>10, ThreadMoves
  <2>3. status[s] = "Leader" => sender'[s].pc # "none"
    <3> SUFFICES ASSUME status[s] = "Leader" PROVE sender'[s].pc # "none"
      OBVIOUS
    <3>1. \/ sender'[s] = [sender[s] EXCEPT !.pc = "collect"]
          \/ sender'[s] = [sender[s] EXCEPT !.pc = "prev", !.term = currentTerm[s]]
          \/ \E t : sender'[s] = [sender[s] EXCEPT !.pc = "commit", !.prevTerm = t]
          \/ \E p : sender'[s] = [sender[s] EXCEPT !.pc = "term", !.peer = p]
      BY <1>2, <1>10 DEF BatchCheckLeader, BatchReadTerm, BatchReadPrev, BatchRecheck
    <3>2. sender[s] \in Sender
      BY <1>2
    <3> QED BY <3>1, <3>2 DEF Sender
  <2> QED BY <1>9, <2>1, <2>2, <2>3
<1>11. ASSUME NEW s \in Server,
              BatchSend(s) \/ \E flush \in SUBSET Server : BatchCollect(s, flush)
       PROVE  ThreadInv'
  <2>1. UNCHANGED <<status, batchRunning, won>>
    BY <1>11 DEF BatchSend, BatchCollect, nodeVars, histVars
  <2>2. /\ \A x \in Server \ {s} : sender'[x] = sender[x]
        /\ sender'[s].pc # "none"
    BY <1>1, <1>11, SendMoves, CollectMoves DEF AfterPeer
  <2> QED BY <1>9, <2>1, <2>2
<1>12. ASSUME NEW m \in appReq, HandleAppendEntries(m) PROVE ThreadInv'
  <2>1. UNCHANGED <<batchRunning, sender, won>> /\ m.dst \in Server
    BY <1>1, <1>12, QueueTypes DEF HandleAppendEntries, batchVars, histVars
  <2>2. status' \in {status, [status EXCEPT ![m.dst] = "Follower"]}
    BY <1>12 DEF HandleAppendEntries, AppendStale, AppendGap, AppendMismatch,
       AppendMatch, Follow, nodeVars
  <2> QED BY <1>2, <2>1, <2>2, ThreadKept
<1>13. ASSUME NEW m \in appRep, ReceiveAppendReply(m) PROVE ThreadInv'
  <2>1. UNCHANGED <<batchRunning, sender, won>> /\ m.src \in Server
    BY <1>1, <1>13 DEF ReceiveAppendReply, batchVars, histVars, TypeOK, AppRep
  <2>2. status' \in {status, [status EXCEPT ![m.src] = "Follower"]}
    BY <1>13 DEF ReceiveAppendReply, StepDown, nodeVars
  <2> QED BY <1>2, <2>1, <2>2, ThreadKept
<1>14. \/ UNCHANGED <<status, batchRunning, sender, won>>
       \/ \E s \in Server : Restart(s) \/ DoElection(s)
       \/ \E m \in voteReq : HandleRequestVote(m)
       \/ \E m \in voteRep : ReceiveVoteReply(m)
       \/ \E s \in Server :
            \/ BatchCheckLeader(s) \/ BatchReadTerm(s) \/ BatchReadPrev(s)
            \/ BatchSend(s) \/ \E p \in Server : BatchRecheck(s, p)
            \/ \E flush \in SUBSET Server : BatchCollect(s, flush)
       \/ \E m \in appReq : HandleAppendEntries(m)
       \/ \E m \in appRep : ReceiveAppendReply(m)
  BY DEF Next, vars, VoteRpcFail, Start, DoHeartBeat, LoseAppend, Applier, nodeVars,
     batchVars, histVars
<1> QED BY <1>3, <1>5, <1>6, <1>7, <1>8, <1>10, <1>11, <1>12, <1>13, <1>14

\* A node that leads for the first time has a batch thread for as long as it
\* leads, whatever the thread was doing when leaderships changed.
THEOREM FirstLeadersSend == Spec => []LeaderHasSender
<1>1. Init => ThreadInv
  BY FS_EmptySet DEF Init, ThreadInv, LeaderHasSender
<1>2. IndexInv /\ ElectionInv /\ BatchOrder /\ ThreadInv /\ [Next]_vars => ThreadInv'
  BY ThreadStep
<1>3. ThreadInv => LeaderHasSender
  BY DEF ThreadInv
<1> QED BY <1>1, <1>2, <1>3, IndexInvariance, ElectionInvariance,
           ReplicationInvariance, PTL DEF Spec
=============================================================================

------------------------------ MODULE KvProofs ------------------------------
(***************************************************************************)
(* What the servers and the Clerks keep, for any servers, clients, keys,   *)
(* programs and bounds: an acknowledged write is committed and, while one  *)
(* Leader reigns, in its tables; and, when no client both reads and        *)
(* writes, requests are executed once, in order, none is left out, and     *)
(* replicas have the same data.                                            *)
(***************************************************************************)
EXTENDS KvService, TLAPS

-----------------------------------------------------------------------------
(* The inductive invariant *)

\* The operation is a request that its Clerk has begun, word for word.
Issued(op) ==
    /\ op.client \in Client /\ op.req \in 1..clerk[op.client].req
    /\ op = OpOf(op.client, op.req)

\* It is committed, and before it there is no later request of its client.
Settled(op) ==
    \E i \in 1..committed :
        /\ log[i] = op
        /\ \A j \in 1..(i - 1) : log[j].client = op.client => log[j].req <= op.req

\* This process of s has executed it.
Has(s, op) == \E i \in DOMAIN executed[s] : executed[s][i] = op

\* It is the one that its Clerk still works on.
Current(op) == op.req = clerk[op.client].req

ClerkInv ==
    /\ scenario \in Scenarios
    /\ clerk \in [Client -> [pc : {"idle", "ready", "waiting"},
                             req : Nat, fails : Nat, call : Nat]]
    /\ \A c \in Client : /\ clerk[c].req <= Len(scenario.program[c])
                         /\ clerk[c].pc # "idle" => clerk[c].req # 0
    /\ elections \in Nat

\* One log, of which every server has been handed a committed part.
EntryInv ==
    /\ log \in Seq(Operation) /\ Len(log) <= MaxLog
    /\ committed \in 0..Len(log)
    /\ leader \in Server \cup {Nil}
    /\ \A i \in 1..Len(log) : Issued(log[i]) /\ log[i].kind # "Get"
    /\ handed \in [Server -> Seq(Operation)]
    /\ \A s \in Server : /\ Len(handed[s]) <= committed
                         /\ \A i \in 1..Len(handed[s]) : handed[s][i] = log[i]

\* The thread that applies works on the last entry handed to it.
ThreadInv ==
    /\ applier \in [Server -> [pc : {"idle", "execute", "record", "index", "wake"},
                               op : Operation \cup {Nil}]]
    /\ \A s \in Server : applier[s].pc # "idle" =>
          Len(handed[s]) # 0 /\ applier[s].op = log[Len(handed[s])]
    /\ \A s \in Server : applier[s].pc = "index" => IsFeature(applier[s].op)

\* A queue holds nothing but the entry of its index.
Holds(q, i) == \A j \in DOMAIN q : i <= committed /\ q[j] = log[i]
QueueInv ==
    /\ waitApplyCh \in [Server -> [1..MaxLog -> Seq(Operation) \cup {Nil}]]
    /\ \A s \in Server, i \in 1..MaxLog :
          waitApplyCh[s][i] # Nil => Holds(waitApplyCh[s][i], i)

\* The tables keep their types.
TableInv ==
    /\ kvdb \in [Server -> [Key -> Stored]]
    /\ index \in [Server -> [Key -> Stored]]
    /\ executed \in [Server -> Seq(Operation)]

\* A request that is recorded has begun and, if it is a write, is committed.
IsCommitted(op) == \E i \in 1..committed : log[i] = op
RecordInv ==
    /\ lastRequests \in [Server -> [Client -> [id : Nat, value : Stored]]]
    /\ \A s \in Server, c \in Client :
          LET id == lastRequests[s][c].id IN
          /\ id <= clerk[c].req
          /\ id # 0 /\ OpOf(c, id).kind # "Get" => IsCommitted(OpOf(c, id))

\* Its answer tells the Clerk that a write is done.
Confirms(m) == m.waiting /\ m.pc = "replied" /\ m.err = "OK" /\ m.op.kind # "Get"

Sound(m) ==
    /\ m \in Call /\ Issued(m.op)
    /\ m.waiting => Current(m.op) /\ clerk[m.op.client].pc = "waiting"
    /\ m.pc \in {"register", "wait"} => m.op.kind # "Get" /\ m.index # 0
    /\ m.pc = "wait" => waitApplyCh[m.server][m.index] # Nil
    /\ m.pc \in {"cached", "read", "record"} => m.op.kind = "Get"
    /\ Confirms(m) => Settled(m.op)

CallInv ==
    /\ \A m \in calls : Sound(m)
    /\ \A m, n \in calls : m.waiting /\ n.waiting /\ m.op.client = n.op.client => m = n
    /\ \A op \in acked : Issued(op) /\ op.kind # "Get" /\ Settled(op)

KvInv == ClerkInv /\ EntryInv /\ ThreadInv /\ QueueInv /\ TableInv /\ RecordInv /\ CallInv

\* Where a Put or Append that its Clerk still works on has been executed: where
\* it is recorded, where the thread is done with it, and where its queue has it.
RecordDone(s) ==
    \A c \in Client :
        LET id == lastRequests[s][c].id IN
        id # 0 /\ OpOf(c, id).kind # "Get" /\ ~IsFeature(OpOf(c, id)) => Has(s, OpOf(c, id))
ThreadDone(s) ==
    /\ applier[s].pc = "record" \/ (applier[s].pc = "wake" /\ Current(applier[s].op))
    /\ ~IsFeature(applier[s].op)
    => Has(s, applier[s].op)
QueueDone(s) ==
    \A i \in 1..MaxLog : waitApplyCh[s][i] # Nil =>
        \A j \in DOMAIN waitApplyCh[s][i] :
            LET q == waitApplyCh[s][i][j] IN
            ~IsFeature(q) /\ Current(q) => Has(s, q)
DoneInv == \A s \in Server : RecordDone(s) /\ ThreadDone(s) /\ QueueDone(s)

\* The first Leader: it alone handles writes.
FirstInv ==
    /\ elections = 0 => /\ leader = Nil /\ log = <<>>
                        /\ \A m \in calls : m.pc \notin {"register", "wait"}
    /\ elections <= 1 /\ leader # Nil =>
          \A m \in calls :
              /\ m.pc \in {"register", "wait"} => m.server = leader
              /\ Confirms(m) /\ ~IsFeature(m.op) => Has(leader, m.op)
    /\ LeaderHasAcked

-----------------------------------------------------------------------------
(* The same when no client both reads and writes *)

\* A client reads only, or writes only.  Get records its request number in the
\* table by which Apply drops duplicates, so for other clients the three
\* properties below fail (run lost_write).
ReadersOnlyRead ==
    \A c \in Client :
        \/ \A r \in DOMAIN scenario.program[c] : scenario.program[c][r].kind = "Get"
        \/ \A r \in DOMAIN scenario.program[c] : scenario.program[c][r].kind # "Get"

\* What server s has executed for a client, against what it has recorded and
\* what its thread is about to do.
PastAt(s, e) ==
    LET a == applier[s] IN
    /\ Issued(e) /\ e.kind # "Get"
    /\ \/ e.req <= lastRequests[s][e.client].id
       \/ a.pc = "record" /\ ~IsFeature(a.op) /\ e = a.op
    /\ a.pc \in {"execute", "index"} /\ e.client = a.op.client => e.req < a.op.req
NextAt(s) ==
    LET a == applier[s] IN
    /\ a.pc \in {"execute", "record"} => a.op.req > lastRequests[s][a.op.client].id
    /\ a.pc = "index" => a.op.req = lastRequests[s][a.op.client].id
InOrder(s) ==
    \A i, j \in DOMAIN executed[s] :
        i < j /\ executed[s][i].client = executed[s][j].client
            => executed[s][i].req < executed[s][j].req
OrderAt(s) ==
    /\ \A i \in DOMAIN executed[s] : PastAt(s, executed[s][i])
    /\ NextAt(s) /\ InOrder(s)

\* An entry handed to s that comes before later requests of its client, and the
\* last request that s has recorded, have been executed, unless s is about to.
First(i) == \A j \in 1..(i - 1) : log[j].client = log[i].client => log[j].req <= log[i].req
Pending(s, op) == applier[s].pc \notin {"idle", "wake"} /\ op = applier[s].op
Handled(s, op) == Has(s, op) \/ Pending(s, op)
HandledAt(s) ==
    /\ \A i \in 1..Len(handed[s]) : First(i) => Handled(s, log[i])
    /\ \A c \in Client :
          LET id == lastRequests[s][c].id IN
          id # 0 /\ OpOf(c, id).kind # "Get" =>
             /\ \E j \in 1..Len(handed[s]) : log[j] = OpOf(c, id)
             /\ Handled(s, OpOf(c, id))

OrderInv   == ReadersOnlyRead => \A s \in Server : OrderAt(s)
HandledInv == ReadersOnlyRead => \A s \in Server : HandledAt(s)

\* The tables after the entries of the log, one after the other: f[n] is what a
\* server has that has been handed n of them.
Writes(c) == \E r \in DOMAIN scenario.program[c] : scenario.program[c][r].kind # "Get"
Blank == [kvdb |-> NoKeys, index |-> NoKeys, ids |-> [c \in Client |-> 0]]
Known(t, op) == op.req <= t.ids[op.client]
After(t, op) ==
    IF Known(t, op) THEN t
    ELSE [kvdb  |-> ExecutePutAppend(t.kvdb, op),
          index |-> IF IsFeature(op) THEN ApplyToIndex(t.index, op) ELSE t.index,
          ids   |-> [t.ids EXCEPT ![op.client] = op.req]]
Runs(f) ==
    /\ f[0] = Blank
    /\ \A n \in 0..committed : f[n].ids \in [Client -> Nat]
    /\ \A n \in 1..committed : f[n] = After(f[n - 1], log[n])

\* How far server s is on its way from tables t to tables u, with the entry op.
SameIds(s, t) == \A c \in Client : Writes(c) => lastRequests[s][c].id = t.ids[c]
There(s, u) == kvdb[s] = u.kvdb /\ index[s] = u.index /\ SameIds(s, u)
OnTheWay(s, t, u) ==
    /\ ~Known(t, applier[s].op)
    /\ kvdb[s] = IF applier[s].pc = "execute" THEN t.kvdb ELSE u.kvdb
    /\ index[s] = t.index
    /\ SameIds(s, IF applier[s].pc = "index" THEN u ELSE t)
Reached(s, f) ==
    LET n == Len(handed[s]) IN
    IF applier[s].pc \in {"idle", "wake"} THEN There(s, f[n]) ELSE OnTheWay(s, f[n - 1], f[n])
RunInv == ReadersOnlyRead => \E f : Runs(f) /\ \A s \in Server : Reached(s, f)

-----------------------------------------------------------------------------
(* Operations *)

\* What a program asks for is an operation.
LEMMA OpOfTyped ==
    ASSUME scenario \in Scenarios, NEW c \in Client,
           NEW r \in Nat, r # 0, r <= Len(scenario.program[c])
    PROVE  /\ OpOf(c, r) \in Operation
           /\ OpOf(c, r).client = c /\ OpOf(c, r).req = r
           /\ OpOf(c, r).kind \in {"Put", "Append", "PutFeature"} =>
                 OpOf(c, r).value \in Datum
           /\ r \in DOMAIN scenario.program[c]
           /\ OpOf(c, r).kind = scenario.program[c][r].kind
<1>1. scenario.program[c] \in Seq(Request)
  BY ScenarioAssumption
<1>2. Len(scenario.program[c]) \in Nat
  BY <1>1
<1>3. r \in 1..Len(scenario.program[c])
  BY <1>2
<1>4. scenario.program[c][r] \in Request
  BY <1>1, <1>3
<1>5. /\ scenario.program[c][r].kind \in Kinds /\ scenario.program[c][r].key \in Key
      /\ scenario.program[c][r].value \in Datum \cup {Nil}
      /\ scenario.program[c][r].kind \in {"Put", "Append", "PutFeature"} =>
            scenario.program[c][r].value \in Datum
  BY <1>4 DEF Request
<1>6. r \in DOMAIN scenario.program[c]
  BY <1>1, <1>3
<1> QED
  BY <1>5, <1>6 DEF OpOf, Operation

\* What a client has begun to ask for is an operation.
LEMMA OpOfOK ==
    ASSUME ClerkInv, NEW c \in Client, NEW r \in 1..clerk[c].req
    PROVE  /\ OpOf(c, r) \in Operation
           /\ OpOf(c, r).client = c /\ OpOf(c, r).req = r
           /\ OpOf(c, r).kind \in {"Put", "Append", "PutFeature"} =>
                 OpOf(c, r).value \in Datum
           /\ r \in DOMAIN scenario.program[c]
           /\ OpOf(c, r).kind = scenario.program[c][r].kind
<1>1. scenario \in Scenarios /\ clerk[c].req \in Nat
      /\ clerk[c].req <= Len(scenario.program[c])
  BY DEF ClerkInv
<1>2. Len(scenario.program[c]) \in Nat
  BY <1>1, ScenarioAssumption
<1>3. r \in Nat /\ r # 0 /\ r <= Len(scenario.program[c])
  BY <1>1, <1>2
<1> QED
  BY <1>1, <1>3, OpOfTyped

\* Two operations of one client with one number are the same.
LEMMA IssuedOnce ==
    ASSUME NEW p, Issued(p), NEW q, Issued(q), p.client = q.client, p.req = q.req
    PROVE  p = q
BY DEF Issued

\* An issued operation is an operation of a client.
LEMMA IssuedOK ==
    ASSUME ClerkInv, NEW op, Issued(op)
    PROVE  /\ op \in Operation
           /\ op.kind \in {"Put", "Append", "PutFeature"} => op.value \in Datum
           /\ op.client \in Client /\ op.req \in Nat /\ op.req # 0
           /\ op.req <= clerk[op.client].req
           /\ clerk[op.client].req \in Nat
<1>1. /\ op.client \in Client /\ op.req \in 1..clerk[op.client].req
      /\ op = OpOf(op.client, op.req)
  BY DEF Issued
<1>2. clerk[op.client].req \in Nat
  BY <1>1 DEF ClerkInv
<1> QED
  BY <1>1, <1>2, OpOfOK

-----------------------------------------------------------------------------
(* What every step keeps *)

\* Clerks only go on, and so does the part of the log that is committed.
Goes ==
    /\ scenario' = scenario
    /\ \A c \in Client : clerk'[c].req \in Nat /\ clerk[c].req <= clerk'[c].req
    /\ committed' \in Nat /\ committed <= committed'
    /\ \A i \in 1..committed : log'[i] = log[i]

\* What was issued stays issued.
LEMMA IssuedKept ==
    ASSUME ClerkInv, Goes, NEW op, Issued(op)
    PROVE  Issued(op)'
<1>1. /\ op.client \in Client /\ op.req \in 1..clerk[op.client].req
      /\ op = OpOf(op.client, op.req)
  BY DEF Issued
<1>2. clerk[op.client].req \in Nat /\ clerk'[op.client].req \in Nat
      /\ clerk[op.client].req <= clerk'[op.client].req
  BY <1>1 DEF ClerkInv, Goes
<1>3. op.req \in 1..clerk'[op.client].req
  BY <1>1, <1>2
<1>4. OpOf(op.client, op.req)' = OpOf(op.client, op.req)
  BY DEF OpOf, Goes
<1> QED
  BY <1>1, <1>3, <1>4 DEF Issued

\* What is settled stays settled: nothing goes before it in the committed log.
LEMMA SettledKept ==
    ASSUME committed \in Nat, Goes, NEW op, Settled(op)
    PROVE  Settled(op)'
<1>1. PICK i \in 1..committed :
         /\ log[i] = op
         /\ \A j \in 1..(i - 1) : log[j].client = op.client => log[j].req <= op.req
  BY DEF Settled
<1>2. i \in 1..committed' /\ log'[i] = op
  BY <1>1 DEF Goes
<1>3. \A j \in 1..(i - 1) : log'[j] = log[j]
  BY <1>1 DEF Goes
<1> QED
  BY <1>1, <1>2, <1>3 DEF Settled

\* The variables of the Clerks stay.
Away == UNCHANGED <<clerk, acked, elections, scenario>>

\* A step of the log that keeps what is committed goes on.
LEMMA GoesIf ==
    ASSUME ClerkInv, EntryInv, scenario' = scenario, clerk' = clerk,
           committed' \in Nat, committed <= committed',
           \A i \in 1..committed : log'[i] = log[i]
    PROVE  Goes
<1>1. \A c \in Client : clerk[c].req \in Nat
  BY DEF ClerkInv
<1> QED
  BY <1>1 DEF Goes

\* So does a step that leaves the log alone,
LEMMA GoesStill ==
    ASSUME ClerkInv, EntryInv, scenario' = scenario, clerk' = clerk,
           UNCHANGED <<log, committed>>
    PROVE  Goes
<1>1. committed \in Nat
  BY DEF EntryInv
<1> QED
  BY <1>1, GoesIf

\* one that appends an entry,
LEMMA GoesAppend ==
    ASSUME ClerkInv, EntryInv, Away, NEW op, LogAppend(op)
    PROVE  Goes
<1>1. committed \in Nat /\ Len(log) \in Nat /\ committed <= Len(log) /\ log \in Seq(Operation)
  BY DEF EntryInv
<1>2. \A i \in 1..committed : log'[i] = log[i]
  BY <1>1 DEF LogAppend
<1> QED
  BY <1>1, <1>2, GoesIf DEF LogAppend, Away

\* one that commits an entry,
LEMMA GoesCommit ==
    ASSUME ClerkInv, EntryInv, Away, LogCommit(committed + 1)
    PROVE  Goes
<1>1. committed \in Nat
  BY DEF EntryInv
<1> QED
  BY <1>1, GoesIf DEF LogCommit, Away

\* and an election.
LEMMA GoesElect ==
    ASSUME ClerkInv, EntryInv, clerk' = clerk, scenario' = scenario,
           NEW s \in Server, NEW n \in 0..Len(log), LogElect(s, n)
    PROVE  Goes
<1>1. committed \in Nat /\ Len(log) \in Nat /\ committed <= Len(log) /\ log \in Seq(Operation)
  BY DEF EntryInv
<1>2. \A i \in 1..committed : log'[i] = log[i]
  BY <1>1 DEF LogElect
<1> QED
  BY <1>1, <1>2, GoesIf DEF LogElect

-----------------------------------------------------------------------------
(* The entries *)

\* Entries stay what was asked for.
LEMMA EntryKept ==
    ASSUME ClerkInv, EntryInv, Goes,
           log' \in Seq(Operation), Len(log') <= MaxLog, committed' \in 0..Len(log'),
           leader' \in Server \cup {Nil}, handed' = handed,
           \A i \in 1..Len(log') : Issued(log'[i]) /\ log'[i].kind # "Get"
    PROVE  EntryInv'
<1>1. (\A i \in 1..Len(log) : Issued(log[i]) /\ log[i].kind # "Get")'
  <2> SUFFICES ASSUME NEW i \in 1..Len(log') PROVE (Issued(log[i]) /\ log[i].kind # "Get")'
    OBVIOUS
  <2>1. PICK q : q = log'[i]
    OBVIOUS
  <2>2. Issued(q)
    BY <2>1
  <2>3. Issued(q)'
    BY <2>2, IssuedKept
  <2> QED
    BY <2>1, <2>3 DEF Issued
<1>2. handed' \in [Server -> Seq(Operation)]
  BY DEF EntryInv
<1>3. ASSUME NEW s \in Server
      PROVE  /\ Len(handed'[s]) <= committed'
             /\ \A i \in 1..Len(handed'[s]) : handed'[s][i] = log'[i]
  <2>1. /\ Len(handed[s]) \in Nat /\ Len(handed[s]) <= committed /\ committed \in Nat
        /\ \A i \in 1..Len(handed[s]) : handed[s][i] = log[i]
    BY DEF EntryInv
  <2>2. /\ committed' \in Nat /\ committed <= committed'
        /\ \A i \in 1..committed : log'[i] = log[i]
    BY DEF Goes
  <2> QED
    BY <2>1, <2>2
<1> QED
  BY <1>1, <1>2, <1>3 DEF EntryInv

\* The log invariant after a step that leaves the log alone,
LEMMA EntryStill ==
    ASSUME ClerkInv, EntryInv, Goes, UNCHANGED <<log, committed, handed>>,
           leader' \in Server \cup {Nil}
    PROVE  EntryInv'
BY EntryKept DEF EntryInv

\* after an issued write is appended,
LEMMA EntryAppend ==
    ASSUME ClerkInv, EntryInv, Goes, NEW op, Issued(op), op.kind # "Get",
           Len(log) < MaxLog, LogAppend(op)
    PROVE  EntryInv'
<1>1. op \in Operation
  BY IssuedOK
<1>2. /\ log \in Seq(Operation) /\ Len(log) \in Nat /\ committed \in 0..Len(log)
      /\ leader \in Server \cup {Nil} /\ MaxLog \in Nat
  BY KvBounds DEF EntryInv
<1>3. log' \in Seq(Operation) /\ Len(log') = Len(log) + 1
  BY <1>1, <1>2 DEF LogAppend
<1>4. \A i \in 1..Len(log') : log'[i] = IF i <= Len(log) THEN log[i] ELSE op
  BY <1>1, <1>2 DEF LogAppend
<1>5. \A i \in 1..Len(log') : Issued(log'[i]) /\ log'[i].kind # "Get"
  <2> TAKE i \in 1..Len(log')
  <2>1. CASE i <= Len(log)
    <3>1. i \in 1..Len(log)
      BY <2>1, <1>2, <1>3
    <3>2. Issued(log[i]) /\ log[i].kind # "Get"
      BY <3>1 DEF EntryInv
    <3> QED
      BY <1>4, <2>1, <3>2
  <2>2. CASE ~(i <= Len(log))
    <3>1. log'[i] = op
      BY <2>2, <1>4
    <3> QED
      BY <3>1
  <2> QED
    BY <2>1, <2>2
<1>6. Len(log') <= MaxLog /\ committed' \in 0..Len(log')
  BY <1>2, <1>3 DEF LogAppend
<1> QED
  BY <1>2, <1>3, <1>5, <1>6, EntryKept DEF LogAppend

\* after an entry is committed,
LEMMA EntryCommit ==
    ASSUME ClerkInv, EntryInv, Goes, LogCommit(committed + 1)
    PROVE  EntryInv'
<1>1. committed' \in 0..Len(log')
  BY DEF LogCommit, EntryInv
<1> QED
  BY <1>1, EntryKept DEF LogCommit, EntryInv

\* and after an election, which may cut what is not committed.
LEMMA EntryElect ==
    ASSUME ClerkInv, EntryInv, Goes, NEW s \in Server, NEW n \in 0..Len(log),
           LogElect(s, n)
    PROVE  EntryInv'
<1>1. /\ log \in Seq(Operation) /\ Len(log) \in Nat /\ committed \in Nat
      /\ MaxLog \in Nat /\ Len(log) <= MaxLog
  BY KvBounds DEF EntryInv
<1>2. log' = SubSeq(log, 1, n) /\ committed' = committed /\ committed <= n
  BY <1>1 DEF LogElect
<1>3. log' \in Seq(Operation) /\ Len(log') = n /\ n \in Nat
      /\ \A i \in 1..n : log'[i] = log[i]
  BY <1>1, <1>2
<1>4. \A i \in 1..Len(log') : Issued(log'[i]) /\ log'[i].kind # "Get"
  <2> TAKE i \in 1..Len(log')
  <2>1. i \in 1..Len(log) /\ log'[i] = log[i]
    BY <1>1, <1>3
  <2>2. Issued(log[i]) /\ log[i].kind # "Get"
    BY <2>1 DEF EntryInv
  <2> QED
    BY <2>1, <2>2
<1>5. Len(log') <= MaxLog /\ committed' \in 0..Len(log')
  BY <1>1, <1>2, <1>3
<1> QED
  BY <1>3, <1>4, <1>5, EntryKept DEF LogElect

\* An entry is handed over.
LEMMA EntryDeliver ==
    ASSUME ClerkInv, EntryInv, Goes, NEW s \in Server, LogDeliver(s, Len(handed[s]) + 1)
    PROVE  /\ EntryInv'
           /\ Len(handed'[s]) = Len(handed[s]) + 1
           /\ Len(handed[s]) + 1 \in 1..committed
           /\ handed'[s] \in Seq(Operation)
<1>1. /\ log \in Seq(Operation) /\ Len(log) \in Nat /\ committed \in 0..Len(log)
      /\ handed \in [Server -> Seq(Operation)] /\ Len(handed[s]) \in Nat
  BY DEF EntryInv
<1> DEFINE n == Len(handed[s]) + 1
<1>2. n \in 1..committed
  BY <1>1 DEF LogDeliver
<1>3. handed' = [handed EXCEPT ![s] = SubSeq(log, 1, n)]
      /\ UNCHANGED <<log, committed, leader>>
  BY DEF LogDeliver
<1>4. SubSeq(log, 1, n) \in Seq(Operation) /\ Len(SubSeq(log, 1, n)) = n
      /\ \A i \in 1..n : SubSeq(log, 1, n)[i] = log[i]
  BY <1>1, <1>2
<1>5. handed' \in [Server -> Seq(Operation)] /\ handed'[s] = SubSeq(log, 1, n)
      /\ \A p \in Server : p # s => handed'[p] = handed[p]
  BY <1>1, <1>3, <1>4
<1> HIDE DEF n
<1>6. \A p \in Server : /\ Len(handed'[p]) <= committed'
                        /\ \A i \in 1..Len(handed'[p]) : handed'[p][i] = log'[i]
  <2> TAKE p \in Server
  <2>1. CASE p = s
    BY <2>1, <1>1, <1>2, <1>3, <1>4, <1>5
  <2>2. CASE p # s
    BY <2>2, <1>3, <1>5 DEF EntryInv
  <2> QED
    BY <2>1, <2>2
<1>7. (\A i \in 1..Len(log) : Issued(log[i]) /\ log[i].kind # "Get")'
  <2> SUFFICES ASSUME NEW i \in 1..Len(log') PROVE (Issued(log[i]) /\ log[i].kind # "Get")'
    OBVIOUS
  <2>1. i \in 1..Len(log) /\ log'[i] = log[i]
    BY <1>3
  <2>2. Issued(log[i]) /\ log[i].kind # "Get"
    BY <2>1 DEF EntryInv
  <2>3. PICK q : q = log[i]
    OBVIOUS
  <2>4. Issued(q)'
    BY <2>2, <2>3, IssuedKept
  <2> QED
    BY <2>1, <2>2, <2>3, <2>4 DEF Issued
<1>8. EntryInv'
  BY <1>3, <1>5, <1>6, <1>7 DEF EntryInv
<1> QED
  BY <1>2, <1>4, <1>5, <1>8 DEF n

\* A new process starts from nothing.
LEMMA EntryRestart ==
    ASSUME ClerkInv, EntryInv, Goes, NEW s \in Server, LogRestart(s)
    PROVE  EntryInv'
<1>1. handed' = [handed EXCEPT ![s] = <<>>] /\ UNCHANGED <<log, committed>>
      /\ leader' = IF leader = s THEN Nil ELSE leader
  BY DEF LogRestart
<1>2. handed' \in [Server -> Seq(Operation)] /\ handed'[s] = <<>>
      /\ \A p \in Server : p # s => handed'[p] = handed[p]
  BY <1>1 DEF EntryInv
<1>3. committed \in Nat
  BY DEF EntryInv
<1>4. \A p \in Server : /\ Len(handed'[p]) <= committed'
                        /\ \A i \in 1..Len(handed'[p]) : handed'[p][i] = log'[i]
  <2> TAKE p \in Server
  <2>1. CASE p = s
    BY <2>1, <1>1, <1>2, <1>3
  <2>2. CASE p # s
    BY <2>2, <1>1, <1>2 DEF EntryInv
  <2> QED
    BY <2>1, <2>2
<1>5. (\A i \in 1..Len(log) : Issued(log[i]) /\ log[i].kind # "Get")'
  <2> SUFFICES ASSUME NEW i \in 1..Len(log') PROVE (Issued(log[i]) /\ log[i].kind # "Get")'
    OBVIOUS
  <2>1. i \in 1..Len(log) /\ log'[i] = log[i]
    BY <1>1
  <2>2. Issued(log[i]) /\ log[i].kind # "Get"
    BY <2>1 DEF EntryInv
  <2>3. PICK q : q = log[i]
    OBVIOUS
  <2>4. Issued(q)'
    BY <2>2, <2>3, IssuedKept
  <2> QED
    BY <2>1, <2>2, <2>3, <2>4 DEF Issued
<1> QED
  BY <1>1, <1>2, <1>4, <1>5 DEF EntryInv

-----------------------------------------------------------------------------
(* The thread, the queues and the tables *)

\* What was handed over is still there.
LEMMA HandedKept ==
    ASSUME EntryInv, Goes, NEW s \in Server, Len(handed[s]) # 0
    PROVE  log'[Len(handed[s])] = log[Len(handed[s])]
<1>1. Len(handed[s]) \in Nat /\ Len(handed[s]) <= committed /\ committed \in Nat
  BY DEF EntryInv
<1>2. Len(handed[s]) \in 1..committed
  BY <1>1
<1> QED
  BY <1>2 DEF Goes

\* The operation that the thread works on is an entry.
LEMMA ThreadOp ==
    ASSUME ClerkInv, EntryInv, ThreadInv, NEW s \in Server, applier[s].pc # "idle"
    PROVE  /\ Issued(applier[s].op) /\ applier[s].op.kind # "Get"
           /\ IsCommitted(applier[s].op)
           /\ applier[s].op \in Operation
           /\ Len(handed[s]) \in 1..committed
           /\ applier[s].op = log[Len(handed[s])]
<1>1. /\ Len(handed[s]) \in Nat /\ Len(handed[s]) <= committed /\ committed \in 0..Len(log)
      /\ Len(log) \in Nat
  BY DEF EntryInv
<1>2. Len(handed[s]) # 0 /\ applier[s].op = log[Len(handed[s])]
  BY DEF ThreadInv
<1>3. Len(handed[s]) \in 1..committed /\ Len(handed[s]) \in 1..Len(log)
  BY <1>1, <1>2
<1>4. Issued(applier[s].op) /\ applier[s].op.kind # "Get"
  BY <1>2, <1>3 DEF EntryInv
<1>5. IsCommitted(applier[s].op)
  BY <1>2, <1>3 DEF IsCommitted
<1>6. applier[s].op \in Operation
  BY <1>4, IssuedOK
<1> QED
  BY <1>2, <1>3, <1>4, <1>5, <1>6

\* A step that concerns no thread but that of p, if any.
LEMMA ThreadKept ==
    ASSUME EntryInv, ThreadInv, Goes, NEW p \in Server,
           applier' \in [Server -> [pc : {"idle", "execute", "record", "index", "wake"},
                                    op : Operation \cup {Nil}]],
           \A s \in Server : s # p => applier'[s] = applier[s] /\ handed'[s] = handed[s],
           applier'[p].pc # "idle" =>
               Len(handed'[p]) # 0 /\ applier'[p].op = log'[Len(handed'[p])],
           applier'[p].pc = "index" => IsFeature(applier'[p].op)
    PROVE  ThreadInv'
<1>1. ASSUME NEW s \in Server, applier'[s].pc # "idle"
      PROVE  Len(handed'[s]) # 0 /\ applier'[s].op = log'[Len(handed'[s])]
  <2>1. CASE s = p
    BY <2>1, <1>1
  <2>2. CASE s # p
    <3>1. applier'[s] = applier[s] /\ handed'[s] = handed[s]
      BY <2>2
    <3>2. Len(handed[s]) # 0 /\ applier[s].op = log[Len(handed[s])]
      BY <3>1, <1>1 DEF ThreadInv
    <3> QED
      BY <3>1, <3>2, HandedKept
  <2> QED
    BY <2>1, <2>2
<1>2. ASSUME NEW s \in Server, applier'[s].pc = "index"
      PROVE  IsFeature(applier'[s].op)
  BY <1>2 DEF ThreadInv
<1> QED
  BY <1>1, <1>2 DEF ThreadInv, IsFeature

\* The thread invariant when no thread moves,
LEMMA ThreadStill ==
    ASSUME EntryInv, ThreadInv, Goes, UNCHANGED <<applier, handed>>
    PROVE  ThreadInv'
<1>1. ASSUME NEW s \in Server, applier'[s].pc # "idle"
      PROVE  Len(handed'[s]) # 0 /\ applier'[s].op = log'[Len(handed'[s])]
  <2>1. Len(handed[s]) # 0 /\ applier[s].op = log[Len(handed[s])]
    BY <1>1 DEF ThreadInv
  <2> QED
    BY <2>1, HandedKept
<1> QED
  BY <1>1 DEF ThreadInv, IsFeature

\* and when one moves on with the same entry.
LEMMA ThreadGoesOn ==
    ASSUME ClerkInv, EntryInv, ThreadInv, Goes, handed' = handed, NEW s \in Server,
           NEW pc \in {"execute", "record", "index", "wake"},
           applier[s].pc # "idle", ApplyGoesOn(s, pc),
           pc = "index" => IsFeature(applier[s].op)
    PROVE  ThreadInv' /\ applier'[s].op = applier[s].op /\ applier'[s].pc = pc
           /\ \A p \in Server : p # s => applier'[p] = applier[p]
<1>1. applier \in [Server -> [pc : {"idle", "execute", "record", "index", "wake"},
                              op : Operation \cup {Nil}]]
  BY DEF ThreadInv
<1>2. /\ applier' \in [Server -> [pc : {"idle", "execute", "record", "index", "wake"},
                                  op : Operation \cup {Nil}]]
      /\ \A p \in Server : p # s => applier'[p] = applier[p]
      /\ applier'[s].pc = pc /\ applier'[s].op = applier[s].op
  BY <1>1 DEF ApplyGoesOn
<1>3. Len(handed[s]) # 0 /\ applier[s].op = log[Len(handed[s])]
  BY DEF ThreadInv
<1>4. log'[Len(handed[s])] = log[Len(handed[s])]
  BY <1>3, HandedKept
<1>5. applier'[s].pc # "idle" =>
         Len(handed'[s]) # 0 /\ applier'[s].op = log'[Len(handed'[s])]
  BY <1>2, <1>3, <1>4
<1>6. ThreadInv'
  BY <1>2, <1>5, ThreadKept DEF IsFeature
<1> QED
  BY <1>2, <1>6

\* The thread of s is, or starts again, idle.
LEMMA ThreadRests ==
    ASSUME EntryInv, ThreadInv, Goes, NEW s \in Server,
           applier' = [applier EXCEPT ![s] = NoRequest],
           \A p \in Server : p # s => handed'[p] = handed[p]
    PROVE  ThreadInv' /\ applier'[s].pc = "idle"
           /\ \A p \in Server : p # s => applier'[p] = applier[p]
<1>1. applier \in [Server -> [pc : {"idle", "execute", "record", "index", "wake"},
                              op : Operation \cup {Nil}]]
  BY DEF ThreadInv
<1>2. /\ applier' \in [Server -> [pc : {"idle", "execute", "record", "index", "wake"},
                                  op : Operation \cup {Nil}]]
      /\ \A p \in Server : p # s => applier'[p] = applier[p]
      /\ applier'[s].pc = "idle"
  BY <1>1 DEF NoRequest
<1> QED
  BY <1>2, ThreadKept

\* A queue that holds the entry of its index goes on to do so.
LEMMA HoldsKept ==
    ASSUME EntryInv, Goes, NEW q, NEW i \in 1..MaxLog, Holds(q, i)
    PROVE  Holds(q, i)'
<1>1. committed \in Nat /\ MaxLog \in Nat
  BY KvBounds DEF EntryInv
<1>2. ASSUME NEW j \in DOMAIN q PROVE i <= committed' /\ q[j] = log'[i]
  <2>1. i <= committed /\ q[j] = log[i]
    BY DEF Holds
  <2>2. i \in 1..committed
    BY <1>1, <2>1
  <2> QED
    BY <1>1, <2>1, <2>2 DEF Goes
<1> QED
  BY <1>2 DEF Holds

\* The queue invariant when no queue changes,
LEMMA QueueStill ==
    ASSUME EntryInv, QueueInv, Goes, waitApplyCh' = waitApplyCh
    PROVE  QueueInv'
<1>1. ASSUME NEW s \in Server, NEW i \in 1..MaxLog, waitApplyCh[s][i] # Nil
      PROVE  Holds(waitApplyCh[s][i], i)'
  <2>1. Holds(waitApplyCh[s][i], i)
    BY <1>1 DEF QueueInv
  <2>2. PICK q : q = waitApplyCh[s][i]
    OBVIOUS
  <2>3. Holds(q, i)'
    BY <2>1, <2>2, HoldsKept
  <2> QED
    BY <2>2, <2>3 DEF Holds
<1> QED
  BY <1>1 DEF QueueInv

\* Queue i of s changes, and no other.
QueueBecomes(s, i, q) ==
    /\ waitApplyCh' \in [Server -> [1..MaxLog -> Seq(Operation) \cup {Nil}]]
    /\ waitApplyCh'[s][i] = q
    /\ \A p \in Server, j \in 1..MaxLog :
          p # s \/ j # i => waitApplyCh'[p][j] = waitApplyCh[p][j]

\* when one becomes a queue of the same entry,
LEMMA QueueSet ==
    ASSUME EntryInv, QueueInv, Goes, NEW s \in Server, NEW i \in 1..MaxLog,
           NEW q, q # Nil => Holds(q, i), QueueBecomes(s, i, q)
    PROVE  QueueInv'
<1>1. waitApplyCh' \in [Server -> [1..MaxLog -> Seq(Operation) \cup {Nil}]]
  BY DEF QueueBecomes
<1>2. ASSUME NEW p \in Server, NEW j \in 1..MaxLog, waitApplyCh'[p][j] # Nil
      PROVE  Holds(waitApplyCh[p][j], j)'
  <2>1. PICK r : r = waitApplyCh'[p][j]
    OBVIOUS
  <2>2. Holds(r, j)
    BY <2>1, <1>2 DEF QueueInv, QueueBecomes
  <2>3. Holds(r, j)'
    BY <2>2, HoldsKept
  <2> QED
    BY <2>1, <2>3 DEF Holds
<1> QED
  BY <1>1, <1>2 DEF QueueInv

\* and when a server forgets its queues.
LEMMA QueueRestart ==
    ASSUME EntryInv, QueueInv, Goes, NEW s \in Server,
           waitApplyCh' = [waitApplyCh EXCEPT ![s] = [i \in 1..MaxLog |-> Nil]]
    PROVE  /\ QueueInv' /\ \A i \in 1..MaxLog : waitApplyCh'[s][i] = Nil
           /\ \A p \in Server : p # s => waitApplyCh'[p] = waitApplyCh[p]
<1>1. waitApplyCh \in [Server -> [1..MaxLog -> Seq(Operation) \cup {Nil}]]
  BY DEF QueueInv
<1>2. /\ waitApplyCh' \in [Server -> [1..MaxLog -> Seq(Operation) \cup {Nil}]]
      /\ \A i \in 1..MaxLog : waitApplyCh'[s][i] = Nil
      /\ \A p \in Server : p # s => waitApplyCh'[p] = waitApplyCh[p]
  BY <1>1
<1>3. ASSUME NEW p \in Server, NEW j \in 1..MaxLog, waitApplyCh'[p][j] # Nil
      PROVE  Holds(waitApplyCh[p][j], j)'
  <2>1. PICK r : r = waitApplyCh'[p][j]
    OBVIOUS
  <2>2. p # s /\ r = waitApplyCh[p][j]
    BY <2>1, <1>2, <1>3
  <2>3. Holds(r, j)
    BY <2>1, <2>2, <1>3 DEF QueueInv
  <2>4. Holds(r, j)'
    BY <2>3, HoldsKept
  <2> QED
    BY <2>1, <2>4 DEF Holds
<1>4. QueueInv'
  BY <1>2, <1>3 DEF QueueInv
<1> QED
  BY <1>2, <1>4

\* What is committed stays committed.
LEMMA CommittedKept ==
    ASSUME EntryInv, Goes, NEW op, IsCommitted(op)
    PROVE  IsCommitted(op)'
<1>1. PICK i \in 1..committed : log[i] = op
  BY DEF IsCommitted
<1>2. i \in 1..committed' /\ log'[i] = op
  BY <1>1 DEF EntryInv, Goes
<1> QED
  BY <1>2 DEF IsCommitted

\* The record of every client is kept, or it is one of a request that has
\* begun, or there is none.
LEMMA RecordKept ==
    ASSUME ClerkInv, EntryInv, RecordInv, Goes,
           lastRequests' \in [Server -> [Client -> [id : Nat, value : Stored]]],
           \A s \in Server, c \in Client :
              LET id == lastRequests'[s][c].id IN
              \/ id = lastRequests[s][c].id
              \/ id = 0
              \/ /\ id <= clerk[c].req
                 /\ OpOf(c, id).kind # "Get" => IsCommitted(OpOf(c, id))
    PROVE  RecordInv'
<1>1. ASSUME NEW s \in Server, NEW c \in Client
      PROVE  /\ lastRequests'[s][c].id <= clerk'[c].req
             /\ lastRequests'[s][c].id # 0
                   /\ OpOf(c, lastRequests[s][c].id)'.kind # "Get" =>
                   IsCommitted(OpOf(c, lastRequests[s][c].id))'
  <2>1. PICK id : id = lastRequests'[s][c].id
    OBVIOUS
  <2>2. id \in Nat
    BY <2>1
  <2>3. clerk[c].req \in Nat /\ clerk'[c].req \in Nat /\ clerk[c].req <= clerk'[c].req
    BY DEF ClerkInv, Goes
  <2>4. /\ id <= clerk[c].req
        /\ id # 0 /\ OpOf(c, id).kind # "Get" => IsCommitted(OpOf(c, id))
    <3>1. CASE id = lastRequests[s][c].id
      BY <3>1 DEF RecordInv
    <3>2. CASE id = 0
      BY <3>2, <2>3
    <3>3. CASE id # lastRequests[s][c].id /\ id # 0
      BY <3>3, <2>1
    <3> QED
      BY <3>1, <3>2, <3>3
  <2>5. OpOf(c, id)' = OpOf(c, id)
    BY DEF OpOf, Goes
  <2>6. PICK q : q = OpOf(c, id)
    OBVIOUS
  <2>7. IsCommitted(q) => IsCommitted(q)'
    BY CommittedKept
  <2>8. OpOf(c, lastRequests[s][c].id)' = q
    BY <2>1, <2>5, <2>6 DEF OpOf
  <2>9. IsCommitted(q)' => IsCommitted(OpOf(c, lastRequests[s][c].id))'
    BY <2>8 DEF IsCommitted
  <2> QED
    BY <2>1, <2>2, <2>3, <2>4, <2>6, <2>7, <2>8, <2>9
<1> QED
  BY <1>1 DEF RecordInv

\* The record invariant when no record changes,
LEMMA RecordStill ==
    ASSUME ClerkInv, EntryInv, RecordInv, Goes, lastRequests' = lastRequests
    PROVE  RecordInv'
<1>1. lastRequests' \in [Server -> [Client -> [id : Nat, value : Stored]]]
  BY DEF RecordInv
<1> QED
  BY <1>1, RecordKept

\* when one is set to a request that has begun,
LEMMA RecordSet ==
    ASSUME ClerkInv, EntryInv, RecordInv, Goes, NEW s \in Server, NEW op, Issued(op),
           op.kind # "Get" => IsCommitted(op), NEW v \in Stored,
           recordRequestResult(s, op, v)
    PROVE  /\ RecordInv'
           /\ lastRequests'[s][op.client].id = op.req
           /\ \A p \in Server, c \in Client :
                 p # s \/ c # op.client => lastRequests'[p][c] = lastRequests[p][c]
<1>1. /\ op.client \in Client /\ op.req \in Nat /\ op.req <= clerk[op.client].req
  BY IssuedOK
<1>2. lastRequests \in [Server -> [Client -> [id : Nat, value : Stored]]]
  BY DEF RecordInv
<1>3. lastRequests' = [lastRequests EXCEPT ![s][op.client] = [id |-> op.req, value |-> v]]
  BY DEF recordRequestResult
<1>4. PICK r : r = [id |-> op.req, value |-> v]
  OBVIOUS
<1>4a. r \in [id : Nat, value : Stored] /\ r.id = op.req
  BY <1>1, <1>4
<1>5. /\ lastRequests' \in [Server -> [Client -> [id : Nat, value : Stored]]]
      /\ lastRequests'[s][op.client] = r
      /\ \A p \in Server, c \in Client :
            p # s \/ c # op.client => lastRequests'[p][c] = lastRequests[p][c]
  BY <1>1, <1>2, <1>3, <1>4, <1>4a
<1>6. OpOf(op.client, op.req) = op
  BY DEF Issued
<1>7. ASSUME NEW p \in Server, NEW c \in Client
      PROVE  LET id == lastRequests'[p][c].id IN
             \/ id = lastRequests[p][c].id
             \/ id = 0
             \/ /\ id <= clerk[c].req
                /\ OpOf(c, id).kind # "Get" => IsCommitted(OpOf(c, id))
  <2>1. CASE p = s /\ c = op.client
    <3>1. lastRequests'[p][c].id = op.req
      BY <2>1, <1>4a, <1>5
    <3> QED
      BY <2>1, <3>1, <1>1, <1>6
  <2>2. CASE ~(p = s /\ c = op.client)
    BY <2>2, <1>5
  <2> QED
    BY <2>1, <2>2
<1>8. RecordInv'
  BY <1>5, <1>7, RecordKept
<1> QED
  BY <1>4a, <1>5, <1>8

\* and when a server forgets its records.
LEMMA RecordRestart ==
    ASSUME ClerkInv, EntryInv, RecordInv, Goes, NEW s \in Server,
           lastRequests' = [lastRequests EXCEPT ![s] = FirstRecords(s)]
    PROVE  /\ RecordInv' /\ \A c \in Client : lastRequests'[s][c].id = 0
           /\ \A p \in Server : p # s => lastRequests'[p] = lastRequests[p]
<1>1. lastRequests \in [Server -> [Client -> [id : Nat, value : Stored]]]
  BY DEF RecordInv
<1>2. FirstRecords(s) \in [Client -> [id : Nat, value : Stored]]
      /\ \A c \in Client : FirstRecords(s)[c].id = 0
  BY DEF FirstRecords, NoRecord, Stored
<1>3. /\ lastRequests' \in [Server -> [Client -> [id : Nat, value : Stored]]]
      /\ lastRequests'[s] = FirstRecords(s)
      /\ \A p \in Server : p # s => lastRequests'[p] = lastRequests[p]
  BY <1>1, <1>2
<1>4. \A p \in Server, c \in Client :
         lastRequests'[p][c].id = lastRequests[p][c].id \/ lastRequests'[p][c].id = 0
  BY <1>2, <1>3
<1>5. RecordInv'
  BY <1>3, <1>4, RecordKept
<1> QED
  BY <1>2, <1>3, <1>5

-----------------------------------------------------------------------------
(* What the thread does with an operation *)

\* ExecutePutAppendOnKVDB keeps the type of the table.
LEMMA ExecuteOK ==
    ASSUME NEW t \in [Key -> Stored], NEW op \in Operation,
           op.kind \in {"Put", "Append", "PutFeature"} => op.value \in Datum
    PROVE  ExecutePutAppend(t, op) \in [Key -> Stored]
<1>1. op.key \in Key
  BY DEF Operation
<1>2. CASE op.kind = "Put"
  <2>1. <<op.value>> \in Seq(Datum)
    BY <1>2
  <2> QED
    BY <1>1, <1>2, <2>1 DEF ExecutePutAppend, Stored
<1>3. CASE op.kind = "Append"
  <2> DEFINE old == IF t[op.key] = Nil THEN <<>> ELSE t[op.key]
  <2>1. old \in Seq(Datum)
    <3>1. t[op.key] \in Seq(Datum) \cup {Nil}
      BY <1>1 DEF Stored
    <3> QED
      BY <3>1
  <2>2. old \o <<op.value>> \in Seq(Datum)
    <3> HIDE DEF old
    <3> QED
      BY <1>3, <2>1
  <2>3. ExecutePutAppend(t, op) = [t EXCEPT ![op.key] = old \o <<op.value>>]
    BY <1>3 DEF ExecutePutAppend
  <2> HIDE DEF old
  <2> QED
    BY <1>1, <2>2, <2>3 DEF Stored
<1>4. CASE op.kind # "Put" /\ op.kind # "Append"
  BY <1>4 DEF ExecutePutAppend
<1> QED
  BY <1>2, <1>3, <1>4

\* applyFeatureToIndex and deleteFeature keep the type of the table.
LEMMA IndexOK ==
    ASSUME NEW t \in [Key -> Stored], NEW op \in Operation, IsFeature(op),
           op.kind \in {"Put", "Append", "PutFeature"} => op.value \in Datum
    PROVE  ApplyToIndex(t, op) \in [Key -> Stored]
<1>1. op.key \in Key
  BY DEF Operation
<1>2. CASE op.kind = "PutFeature"
  <2>1. <<op.value>> \in Seq(Datum)
    BY <1>2
  <2> QED
    BY <1>1, <1>2, <2>1 DEF ApplyToIndex, Stored
<1>3. CASE op.kind = "DeleteFeature"
  BY <1>1, <1>3 DEF ApplyToIndex, Stored
<1> QED
  BY <1>2, <1>3 DEF IsFeature

\* One more operation has been executed.
LEMMA ExecutedOneMore ==
    ASSUME NEW s \in Server, NEW op \in Operation, executed \in [Server -> Seq(Operation)],
           executed' = [executed EXCEPT ![s] = Append(@, op)]
    PROVE  /\ executed' \in [Server -> Seq(Operation)]
           /\ \A p \in Server : p # s => executed'[p] = executed[p]
           /\ Len(executed[s]) \in Nat
           /\ DOMAIN executed[s] = 1..Len(executed[s])
           /\ DOMAIN executed'[s] = 1..(Len(executed[s]) + 1)
           /\ \A i \in DOMAIN executed[s] : executed'[s][i] = executed[s][i]
           /\ executed'[s][Len(executed[s]) + 1] = op
<1>1. executed[s] \in Seq(Operation)
  OBVIOUS
<1>2. executed'[s] = Append(executed[s], op)
      /\ \A p \in Server : p # s => executed'[p] = executed[p]
  OBVIOUS
<1>3. executed' \in [Server -> Seq(Operation)]
  BY <1>1
<1>4. PICK e \in Seq(Operation) : e = executed[s]
  BY <1>1
<1>5. /\ Len(e) \in Nat /\ DOMAIN e = 1..Len(e)
      /\ DOMAIN Append(e, op) = 1..(Len(e) + 1)
      /\ \A i \in DOMAIN e : Append(e, op)[i] = e[i]
      /\ Append(e, op)[Len(e) + 1] = op
  OBVIOUS
<1> QED
  BY <1>2, <1>3, <1>4, <1>5

-----------------------------------------------------------------------------
(* Calls *)

\* A step after which no Clerk waits that did not, and no queue has gone.
Calm ==
    /\ Goes
    /\ UNCHANGED <<clerk, acked>>
    /\ \A s \in Server, i \in 1..MaxLog :
          waitApplyCh[s][i] # Nil => waitApplyCh'[s][i] # Nil

\* A sound call stays sound in a step that keeps what it relies on.
LEMMA SoundKept ==
    ASSUME ClerkInv, EntryInv, Goes, NEW m, Sound(m),
           m.waiting => clerk'[m.op.client] = clerk[m.op.client],
           m.pc = "wait" => waitApplyCh'[m.server][m.index] # Nil
    PROVE  Sound(m)'
<1>1. committed \in Nat
  BY DEF EntryInv
<1>2. PICK op : op = m.op
  OBVIOUS
<1>3. Issued(op)'
  BY <1>2, IssuedKept DEF Sound
<1>4. Settled(op) => Settled(op)'
  BY <1>1, SettledKept
<1>5. Issued(m.op)' /\ (Settled(m.op) => Settled(m.op)')
  BY <1>2, <1>3, <1>4
<1>6. Confirms(m)' <=> Confirms(m)
  BY DEF Confirms
<1>7. m.waiting => Current(m.op)' /\ clerk'[m.op.client].pc = "waiting"
  BY DEF Current, Sound
<1> QED
  BY <1>5, <1>6, <1>7 DEF Sound

\* The place of the entry in a call that waits.
LEMMA CallOK ==
    ASSUME NEW m, Sound(m)
    PROVE  /\ m \in Call /\ m.op \in Operation /\ m.server \in Server
           /\ m.index \in 0..MaxLog /\ m.value \in Stored
           /\ m.op.client \in Client /\ m.waiting \in BOOLEAN
           /\ m.op.req \in Nat
           /\ m.pc \in {"register", "wait"} => m.index \in 1..MaxLog
<1>1. m \in Call
  BY DEF Sound
<1>2. /\ m.op \in Operation /\ m.server \in Server
      /\ m.index \in 0..MaxLog /\ m.value \in Stored /\ m.waiting \in BOOLEAN
  BY <1>1 DEF Call
<1>3. m.op.client \in Client /\ m.op.req \in Nat
  BY <1>2 DEF Operation
<1>4. m.pc \in {"register", "wait"} => m.index \in 1..MaxLog
  BY <1>2, KvBounds DEF Sound
<1> QED
  BY <1>1, <1>2, <1>3, <1>4

\* The calls kept their soundness when the queues are there.
LEMMA OthersSound ==
    ASSUME ClerkInv, EntryInv, CallInv, Calm, NEW m \in calls
    PROVE  Sound(m)'
<1>1. Sound(m)
  BY DEF CallInv
<1>2. m.pc = "wait" => waitApplyCh'[m.server][m.index] # Nil
  BY <1>1, CallOK DEF Sound, Calm
<1> QED
  BY <1>1, <1>2, SoundKept DEF Calm

\* An acknowledged write stays settled.
LEMMA AckedKept ==
    ASSUME ClerkInv, EntryInv, CallInv, Goes, NEW op \in acked
    PROVE  Issued(op)' /\ op.kind # "Get" /\ Settled(op)'
<1>1. Issued(op) /\ op.kind # "Get" /\ Settled(op) /\ committed \in Nat
  BY DEF CallInv, EntryInv
<1> QED
  BY <1>1, IssuedKept, SettledKept

\* The call invariant in a step that leaves the calls alone,
LEMMA CallStill ==
    ASSUME ClerkInv, EntryInv, CallInv, Calm, calls' \subseteq calls
    PROVE  CallInv'
<1>1. \A m \in calls' : Sound(m)'
  BY OthersSound
<1>2. \A m, n \in calls' : m.waiting /\ n.waiting /\ m.op.client = n.op.client => m = n
  BY DEF CallInv
<1>3. \A op \in acked' : Issued(op)' /\ op.kind # "Get" /\ Settled(op)'
  BY AckedKept DEF Calm
<1> QED
  BY <1>1, <1>2, <1>3 DEF CallInv

\* The handler of m, which waits, finds its operation in its queue or its records.
Witnessed(m) ==
    /\ m.pc = "wait"
    /\ \/ /\ waitApplyCh[m.server][m.index] # Nil
          /\ \E j \in DOMAIN waitApplyCh[m.server][m.index] :
                waitApplyCh[m.server][m.index][j] = m.op
       \/ lastRequests[m.server][m.op.client].id = m.op.req

\* A handler takes call m on to n, or drops it.
Takes(m, n) ==
    /\ m \in calls /\ calls' \subseteq (calls \ {m}) \cup {n}
    /\ n \in Call /\ n.op = m.op /\ n.server = m.server /\ n.waiting = m.waiting
    /\ n.pc \in {"register", "wait"} =>
          /\ m.op.kind # "Get" /\ n.index # 0
          /\ m.pc \in {"register", "wait"} \/ (m.server = leader /\ leader # Nil)
    /\ n.pc = "wait" => waitApplyCh'[n.server][n.index] # Nil
    /\ n.pc \in {"cached", "read", "record"} => m.op.kind = "Get"
    /\ Confirms(n) => Settled(m.op) /\ Witnessed(m)

\* and in one in which a handler takes a call on.
LEMMA CallTaken ==
    ASSUME ClerkInv, EntryInv, CallInv, Calm, NEW m, NEW n, Takes(m, n)
    PROVE  CallInv'
<1>1. Sound(m)
  BY DEF CallInv, Takes
<1>2. committed \in Nat
  BY DEF EntryInv
<1>3. PICK op : op = m.op
  OBVIOUS
<1>4. Issued(op)' /\ (Settled(op) => Settled(op)')
  BY <1>1, <1>2, <1>3, IssuedKept, SettledKept DEF Sound, Calm
<1>5. Issued(n.op)' /\ (Confirms(n) => Settled(n.op)')
  BY <1>3, <1>4 DEF Takes
<1>6. n.waiting => Current(n.op)' /\ clerk'[n.op.client].pc = "waiting"
  BY <1>1 DEF Sound, Takes, Current, Calm
<1>7. Confirms(n)' <=> Confirms(n)
  BY DEF Confirms
<1>8. /\ n \in Call
      /\ n.pc \in {"register", "wait"} => n.op.kind # "Get" /\ n.index # 0
      /\ n.pc = "wait" => waitApplyCh'[n.server][n.index] # Nil
      /\ n.pc \in {"cached", "read", "record"} => n.op.kind = "Get"
  BY DEF Takes
<1>9. Sound(n)'
  BY <1>5, <1>6, <1>7, <1>8 DEF Sound
<1>10. \A k \in calls' : Sound(k)'
  BY <1>9, OthersSound DEF Takes
<1>11. \A k, l \in calls' : k.waiting /\ l.waiting /\ k.op.client = l.op.client => k = l
  BY DEF CallInv, Takes
<1>12. \A a \in acked' : Issued(a)' /\ a.kind # "Get" /\ Settled(a)'
  BY AckedKept DEF Calm
<1> QED
  BY <1>10, <1>11, <1>12 DEF CallInv

-----------------------------------------------------------------------------
(* The handlers *)

\* A committed operation that its Clerk still works on is settled.
LEMMA CommittedCurrent ==
    ASSUME ClerkInv, EntryInv, NEW op, IsCommitted(op), Current(op)
    PROVE  Settled(op)
<1>1. PICK i \in 1..committed : log[i] = op
  BY DEF IsCommitted
<1>2. committed \in 0..Len(log) /\ Len(log) \in Nat
  BY DEF EntryInv
<1>3. ASSUME NEW j \in 1..(i - 1), log[j].client = op.client
      PROVE  log[j].req <= op.req
  <2>1. j \in 1..Len(log)
    BY <1>1, <1>2
  <2>2. Issued(log[j])
    BY <2>1 DEF EntryInv
  <2>3. log[j].req <= clerk[log[j].client].req
    BY <2>2, IssuedOK
  <2> QED
    BY <2>3, <1>3 DEF Current
<1> QED
  BY <1>1, <1>3 DEF Settled

\* A reply takes a call on, if an OK to a write is witnessed.
LEMMA ReplyTakes ==
    ASSUME CallInv, NEW m \in calls,
           NEW err \in {"OK", "ErrNoKey", "ErrWrongLeader", Nil}, NEW v \in Stored,
           Reply(m, err, v),
           m.waiting /\ err = "OK" /\ m.op.kind # "Get" => Settled(m.op) /\ Witnessed(m)
    PROVE  \E n : Takes(m, n)
<1> DEFINE n == [m EXCEPT !.pc = "replied", !.err = err, !.value = v]
<1>1. m \in Call /\ m.waiting \in BOOLEAN
  BY CallOK DEF CallInv
<1>2. /\ n \in Call /\ n.op = m.op /\ n.server = m.server /\ n.waiting = m.waiting
      /\ n.pc = "replied" /\ n.err = err
  BY <1>1 DEF Call
<1>3. calls' \subseteq (calls \ {m}) \cup {n}
  BY <1>1 DEF Reply, Move
<1> HIDE DEF n
<1>4. Confirms(n) => Settled(m.op) /\ Witnessed(m)
  BY <1>2 DEF Confirms
<1>5. Takes(m, n)
  BY <1>2, <1>3, <1>4 DEF Takes
<1> QED
  BY <1>5

\* Nothing comes into a queue.
NoPush ==
    \A s \in Server, i \in 1..MaxLog : waitApplyCh'[s][i] # Nil =>
        \A j \in DOMAIN waitApplyCh'[s][i] :
            /\ waitApplyCh[s][i] # Nil
            /\ \E k \in DOMAIN waitApplyCh[s][i] :
                  waitApplyCh[s][i][k] = waitApplyCh'[s][i][j]

\* What a step of a handler keeps, but for the records.
HandlerKeeps(m) ==
    /\ ClerkInv' /\ EntryInv' /\ ThreadInv' /\ QueueInv' /\ TableInv' /\ CallInv'
    /\ Calm /\ NoPush /\ \E n : Takes(m, n)
    /\ UNCHANGED <<committed, leader, handed, applier, executed>>
    /\ leader = Nil => log' = log

\* What a handler has to show to keep the invariant.
LEMMA HandlerOK ==
    ASSUME KvInv, Away, Goes, EntryInv', QueueInv', NoPush, NEW m,
           UNCHANGED <<committed, leader, handed, kvdb, index, executed, applier>>,
           leader = Nil => log' = log,
           \A s \in Server, i \in 1..MaxLog :
              waitApplyCh[s][i] # Nil => waitApplyCh'[s][i] # Nil,
           \E n : Takes(m, n)
    PROVE  HandlerKeeps(m)
<1>1. ClerkInv' /\ TableInv'
  BY DEF KvInv, ClerkInv, TableInv, Away
<1>2. ThreadInv'
  BY ThreadStill DEF KvInv
<1>3. Calm
  BY DEF Calm, Away
<1>4. CallInv'
  BY <1>3, CallTaken DEF KvInv
<1> QED
  BY <1>1, <1>2, <1>3, <1>4 DEF HandlerKeeps

\* Start, or the refusal of a server that is not the Leader.
LEMMA PutStartOK ==
    ASSUME KvInv, Away, NEW m \in calls, PutStart(m)
    PROVE  HandlerKeeps(m) /\ RecordInv'
<1> USE DEF KvInv
<1>1. Sound(m) /\ m.pc = "arrived" /\ m.op.kind # "Get"
  BY DEF CallInv, PutStart, At
<1>2. UNCHANGED <<kvdb, index, lastRequests, waitApplyCh, applier, executed>>
  BY DEF PutStart, serverVars, tableVars
<1>2a. NoPush
  BY <1>2 DEF NoPush
<1>3. CASE /\ m.server # leader
           /\ Reply(m, "ErrWrongLeader", Nil)
           /\ UNCHANGED logVars
  <2>1. UNCHANGED <<log, committed, leader, handed>>
    BY <1>3 DEF logVars
  <2>2. Goes
    BY <2>1, GoesStill DEF Away
  <2>3. EntryInv'
    BY <2>1, <2>2, EntryStill DEF EntryInv
  <2>4. QueueInv'
    BY <1>2, <2>2, QueueStill
  <2>5. \E n : Takes(m, n)
    BY <1>3, ReplyTakes DEF Stored
  <2>6. RecordInv'
    BY <1>2, <2>2, RecordStill
  <2> QED
    BY <1>2, <1>2a, <2>1, <2>2, <2>3, <2>4, <2>5, <2>6, HandlerOK
<1>4. CASE /\ m.server = leader /\ Len(log) < MaxLog
           /\ LogAppend(m.op)
           /\ Move(m, [m EXCEPT !.pc = "register", !.index = StartIndex])
  <2>1. UNCHANGED <<committed, leader, handed>> /\ leader # Nil
    BY <1>4 DEF LogAppend
  <2>2. Goes
    BY <1>4, GoesAppend
  <2>3. EntryInv'
    BY <1>1, <1>4, <2>2, EntryAppend DEF Sound
  <2>4. QueueInv'
    BY <1>2, <2>2, QueueStill
  <2>5. StartIndex \in 0..MaxLog /\ StartIndex # 0
    BY <1>4, KvBounds DEF StartIndex, EntryInv
  <2> DEFINE n == [m EXCEPT !.pc = "register", !.index = StartIndex]
  <2>6. m \in Call
    BY <1>1 DEF Sound
  <2>7. /\ n \in Call /\ n.op = m.op /\ n.server = m.server /\ n.waiting = m.waiting
        /\ n.pc = "register" /\ n.index = StartIndex
    BY <2>5, <2>6 DEF Call
  <2>8. calls' \subseteq (calls \ {m}) \cup {n}
    BY <1>4 DEF Move
  <2> HIDE DEF n
  <2>9. Takes(m, n)
    BY <1>1, <1>4, <2>1, <2>5, <2>7, <2>8 DEF Takes, Confirms
  <2>10. RecordInv'
    BY <1>2, <2>2, RecordStill
  <2> QED
    BY <1>2, <1>2a, <2>1, <2>2, <2>3, <2>4, <2>9, <2>10, HandlerOK
<1> QED
  BY <1>3, <1>4 DEF PutStart

\* The queue is registered: nothing is pushed.
LEMMA PutRegisterOK ==
    ASSUME KvInv, Away, NEW m \in calls, PutRegister(m)
    PROVE  HandlerKeeps(m) /\ RecordInv'
<1> USE DEF KvInv
<1>1. Sound(m) /\ m.pc = "register"
  BY DEF CallInv, PutRegister, At
<1>2. UNCHANGED <<log, committed, leader, handed, kvdb, index, lastRequests, applier, executed>>
  BY DEF PutRegister, logVars, tableVars
<1>3. m \in Call /\ m.server \in Server /\ m.index \in 1..MaxLog
  BY <1>1, CallOK
<1>4. Goes
  BY <1>2, GoesStill DEF Away
<1>5. EntryInv'
  BY <1>2, <1>4, EntryStill DEF EntryInv
<1>6. PICK q : q = IF waitApplyCh[m.server][m.index] = Nil THEN <<>>
                   ELSE waitApplyCh[m.server][m.index]
  OBVIOUS
<1>7. <<>> \in Seq(Operation) /\ Nil \notin Seq(Operation)
  BY KvBounds
<1>8. q \in Seq(Operation) /\ q # Nil
  BY <1>3, <1>6, <1>7 DEF QueueInv
<1>9. Holds(q, m.index)
  BY <1>3, <1>6 DEF QueueInv, Holds
<1>10. waitApplyCh' = [waitApplyCh EXCEPT ![m.server][m.index] = q]
  BY <1>6 DEF PutRegister
<1>11. QueueBecomes(m.server, m.index, q)
  BY <1>3, <1>8, <1>10 DEF QueueInv, QueueBecomes
<1>11a. QueueInv'
  BY <1>3, <1>4, <1>9, <1>11, QueueSet
<1>12. \A s \in Server, i \in 1..MaxLog :
          waitApplyCh[s][i] # Nil => waitApplyCh'[s][i] # Nil
  BY <1>8, <1>11 DEF QueueBecomes
<1> DEFINE n == [m EXCEPT !.pc = "wait"]
<1>13. /\ n \in Call /\ n.op = m.op /\ n.server = m.server /\ n.waiting = m.waiting
       /\ n.pc = "wait" /\ n.index = m.index
  BY <1>3 DEF Call
<1>14. calls' \subseteq (calls \ {m}) \cup {n}
  BY DEF PutRegister, Move
<1> HIDE DEF n
<1>15. m.op.kind # "Get" /\ m.index # 0
  BY <1>1 DEF Sound
<1>16. Takes(m, n)
  BY <1>1, <1>8, <1>11, <1>13, <1>14, <1>15 DEF Takes, Confirms, QueueBecomes
<1>17. RecordInv'
  BY <1>2, <1>4, RecordStill
<1>18. NoPush
  BY <1>6, <1>11 DEF NoPush, QueueBecomes
<1> QED
  BY <1>2, <1>4, <1>5, <1>11a, <1>12, <1>16, <1>17, <1>18, HandlerOK

\* An operation popped is the entry of the index: OK only to its own request.
LEMMA PutPopOK ==
    ASSUME KvInv, Away, NEW m \in calls, PutPop(m)
    PROVE  HandlerKeeps(m) /\ RecordInv'
<1> USE DEF KvInv
<1>1. Sound(m) /\ m.pc = "wait"
  BY DEF CallInv, PutPop, At
<1>2. UNCHANGED <<log, committed, leader, handed, kvdb, index, lastRequests, applier, executed>>
  BY DEF PutPop, logVars, tableVars
<1>3. m \in Call /\ m.server \in Server /\ m.index \in 1..MaxLog
  BY <1>1, CallOK
<1>4. Goes
  BY <1>2, GoesStill DEF Away
<1>5. EntryInv'
  BY <1>2, <1>4, EntryStill DEF EntryInv
<1>6. PICK q : q = waitApplyCh[m.server][m.index]
  OBVIOUS
<1>7. q # Nil /\ q # <<>> /\ q \in Seq(Operation) /\ Holds(q, m.index)
  BY <1>1, <1>3, <1>6 DEF Sound, QueueInv, PutPop
<1>8. Head(q) = q[1] /\ 1 \in DOMAIN q /\ Tail(q) \in Seq(Operation)
      /\ \A j \in DOMAIN Tail(q) : j + 1 \in DOMAIN q /\ Tail(q)[j] = q[j + 1]
  BY <1>7
<1>9. Tail(q) # Nil /\ Holds(Tail(q), m.index)
  BY <1>7, <1>8, KvBounds DEF Holds
<1>10. waitApplyCh' = [waitApplyCh EXCEPT ![m.server][m.index] = Tail(q)]
  BY <1>6 DEF PutPop
<1>11. QueueBecomes(m.server, m.index, Tail(q))
  BY <1>3, <1>8, <1>10 DEF QueueInv, QueueBecomes
<1>11a. QueueInv'
  BY <1>3, <1>4, <1>9, <1>11, QueueSet
<1>12. \A s \in Server, i \in 1..MaxLog :
          waitApplyCh[s][i] # Nil => waitApplyCh'[s][i] # Nil
  BY <1>9, <1>11 DEF QueueBecomes
<1>13. m.index <= committed /\ q[1] = log[m.index]
  BY <1>7, <1>8 DEF Holds
<1>14. committed \in 0..Len(log) /\ Len(log) \in Nat /\ MaxLog \in Nat
  BY KvBounds DEF EntryInv
<1>15. m.index \in 1..committed /\ m.index \in 1..Len(log)
  BY <1>3, <1>13, <1>14
<1>16. Issued(q[1])
  BY <1>13, <1>15 DEF EntryInv
<1>17. ASSUME m.waiting, SameRequest(Head(q), m.op)
       PROVE  Settled(m.op) /\ Witnessed(m)
  <2>1. q[1] = m.op
    BY <1>1, <1>8, <1>16, <1>17, IssuedOnce DEF SameRequest, Sound
  <2>2. IsCommitted(m.op)
    BY <2>1, <1>13, <1>15 DEF IsCommitted
  <2>3. Current(m.op)
    BY <1>1, <1>17 DEF Sound
  <2>4. Witnessed(m)
    BY <2>1, <1>1, <1>6, <1>7, <1>8 DEF Witnessed
  <2> QED
    BY <2>2, <2>3, <2>4, CommittedCurrent
<1>18. PICK err : err = IF SameRequest(Head(q), m.op) THEN "OK" ELSE "ErrWrongLeader"
  OBVIOUS
<1>19. Reply(m, err, Nil)
  BY <1>6, <1>18 DEF PutPop
<1>20. \E n : Takes(m, n)
  BY <1>17, <1>18, <1>19, ReplyTakes DEF Stored
<1>21. RecordInv'
  BY <1>2, <1>4, RecordStill
<1>22. NoPush
  <2> SUFFICES ASSUME NEW s \in Server, NEW i \in 1..MaxLog, waitApplyCh'[s][i] # Nil,
                      NEW j \in DOMAIN waitApplyCh'[s][i]
               PROVE  /\ waitApplyCh[s][i] # Nil
                      /\ \E k \in DOMAIN waitApplyCh[s][i] :
                            waitApplyCh[s][i][k] = waitApplyCh'[s][i][j]
    BY DEF NoPush
  <2>1. CASE s = m.server /\ i = m.index
    BY <2>1, <1>6, <1>7, <1>8, <1>11 DEF QueueBecomes
  <2>2. CASE ~(s = m.server /\ i = m.index)
    BY <2>2, <1>11 DEF QueueBecomes
  <2> QED
    BY <2>1, <2>2
<1> QED
  BY <1>2, <1>4, <1>5, <1>11a, <1>12, <1>20, <1>21, <1>22, HandlerOK

\* A handler that only answers or moves on, and touches nothing else.
LEMMA QuietOK ==
    ASSUME KvInv, Away, UNCHANGED <<logVars, serverVars>>, NEW m \in calls,
           \E n : Takes(m, n)
    PROVE  HandlerKeeps(m) /\ RecordInv'
<1> USE DEF KvInv
<1>1. UNCHANGED <<log, committed, leader, handed, kvdb, index, lastRequests, waitApplyCh,
                  applier, executed>>
  BY DEF logVars, serverVars, tableVars
<1>2. Goes
  BY <1>1, GoesStill DEF Away
<1>3. EntryInv'
  BY <1>1, <1>2, EntryStill DEF EntryInv
<1>4. QueueInv' /\ RecordInv'
  BY <1>1, <1>2, QueueStill, RecordStill
<1>5. NoPush
  BY <1>1 DEF NoPush
<1> QED
  BY <1>1, <1>2, <1>3, <1>4, <1>5, HandlerOK

\* A write whose Clerk waits for it and that is recorded is committed.
LEMMA RecordedWrite ==
    ASSUME ClerkInv, EntryInv, RecordInv, NEW s \in Server, NEW op, Issued(op),
           op.kind # "Get", Current(op), ifRequestDuplicate(s, op)
    PROVE  lastRequests[s][op.client].id = op.req /\ IsCommitted(op)
<1>1. /\ op.client \in Client /\ op.req \in Nat /\ op.req # 0
      /\ clerk[op.client].req \in Nat
  BY IssuedOK
<1>2. /\ lastRequests[s][op.client].id \in Nat
      /\ lastRequests[s][op.client].id <= clerk[op.client].req
  BY <1>1 DEF RecordInv
<1>3. lastRequests[s][op.client].id = op.req
  BY <1>1, <1>2 DEF Current, ifRequestDuplicate
<1>4. OpOf(op.client, op.req) = op
  BY DEF Issued
<1>5. IsCommitted(op)
  BY <1>1, <1>3, <1>4 DEF RecordInv
<1> QED
  BY <1>3, <1>5

\* After the time limit, OK only to a request that is recorded.
LEMMA PutTimeoutOK ==
    ASSUME KvInv, Away, NEW m \in calls, PutTimeout(m)
    PROVE  HandlerKeeps(m) /\ RecordInv'
<1> USE DEF KvInv
<1>1. Sound(m) /\ m.pc = "wait" /\ m.op.kind # "Get" /\ Issued(m.op)
  BY DEF CallInv, PutTimeout, At, Sound
<1>2. m.server \in Server
  BY <1>1, CallOK
<1>3. ASSUME m.waiting, ifRequestDuplicate(m.server, m.op)
      PROVE  Settled(m.op) /\ Witnessed(m)
  <2>1. Current(m.op)
    BY <1>1, <1>3 DEF Sound
  <2>2. lastRequests[m.server][m.op.client].id = m.op.req /\ IsCommitted(m.op)
    BY <1>1, <1>2, <1>3, <2>1, RecordedWrite
  <2> QED
    BY <1>1, <2>1, <2>2, CommittedCurrent DEF Witnessed
<1>4. PICK err : err = TimeoutReply(m.server, m.op)
  OBVIOUS
<1>5. err \in {"OK", "ErrWrongLeader"} /\ (err = "OK" => ifRequestDuplicate(m.server, m.op))
  BY <1>4 DEF TimeoutReply
<1>6. Reply(m, err, Nil)
  BY <1>4 DEF PutTimeout
<1>7. \E n : Takes(m, n)
  BY <1>3, <1>5, <1>6, ReplyTakes DEF Stored
<1> QED
  BY <1>7, QuietOK DEF PutTimeout

\* The call of a Get goes on.
LEMMA GetTakes ==
    ASSUME CallInv, NEW m \in calls, m.op.kind = "Get",
           NEW n \in Call, n.op = m.op, n.server = m.server, n.waiting = m.waiting,
           n.pc \in {"cached", "read", "record"}, Move(m, n)
    PROVE  Takes(m, n)
BY DEF Takes, Move, Confirms

\* The steps of Get, which confirm no write: the check,
LEMMA GetCheckOK ==
    ASSUME KvInv, Away, NEW m \in calls, GetCheck(m)
    PROVE  HandlerKeeps(m) /\ RecordInv'
<1> USE DEF KvInv
<1>1. Sound(m) /\ m.op.kind = "Get" /\ m \in Call
  BY DEF CallInv, GetCheck, Sound
<1>2. CASE Move(m, [m EXCEPT !.pc = "cached"])
  <2>1. PICK n : n = [m EXCEPT !.pc = "cached"]
    OBVIOUS
  <2>2. /\ n \in Call /\ n.op = m.op /\ n.server = m.server /\ n.waiting = m.waiting
        /\ n.pc = "cached"
    BY <1>1, <2>1 DEF Call
  <2> QED
    BY <1>1, <1>2, <2>1, <2>2, GetTakes, QuietOK DEF GetCheck
<1>3. CASE Move(m, [m EXCEPT !.pc = "read"])
  <2>1. PICK n : n = [m EXCEPT !.pc = "read"]
    OBVIOUS
  <2>2. /\ n \in Call /\ n.op = m.op /\ n.server = m.server /\ n.waiting = m.waiting
        /\ n.pc = "read"
    BY <1>1, <2>1 DEF Call
  <2> QED
    BY <1>1, <1>3, <2>1, <2>2, GetTakes, QuietOK DEF GetCheck
<1>4. CASE Reply(m, "ErrWrongLeader", Nil)
  <2>1. \E n : Takes(m, n)
    BY <1>4, ReplyTakes DEF Stored
  <2> QED
    BY <2>1, QuietOK DEF GetCheck
<1> QED
  BY <1>2, <1>3, <1>4 DEF GetCheck

\* the cached answer,
LEMMA GetCachedOK ==
    ASSUME KvInv, Away, NEW m \in calls, GetCached(m)
    PROVE  HandlerKeeps(m) /\ RecordInv'
<1> USE DEF KvInv
<1>1. Sound(m) /\ m.op.kind = "Get"
  BY DEF CallInv, GetCached, At, Sound
<1>2. m.server \in Server /\ m.op.client \in Client
  BY <1>1, CallOK
<1>3. lastRequests[m.server][m.op.client].value \in Stored
  BY <1>2 DEF RecordInv
<1>4. \E n : Takes(m, n)
  BY <1>1, <1>3, ReplyTakes DEF GetCached
<1> QED
  BY <1>4, QuietOK DEF GetCached

\* the read,
LEMMA GetReadOK ==
    ASSUME KvInv, Away, NEW m \in calls, GetRead(m)
    PROVE  HandlerKeeps(m) /\ RecordInv'
<1> USE DEF KvInv
<1>1. Sound(m) /\ m.op.kind = "Get"
  BY DEF CallInv, GetRead, At, Sound
<1>2. m \in Call /\ m.server \in Server /\ m.op \in Operation
  BY <1>1, CallOK
<1>3. kvdb[m.server][m.op.key] \in Stored
  BY <1>2 DEF TableInv, Operation
<1>4. PICK n : n = [m EXCEPT !.pc = "record", !.value = kvdb[m.server][m.op.key]]
  OBVIOUS
<1>5. /\ n \in Call /\ n.op = m.op /\ n.server = m.server /\ n.waiting = m.waiting
      /\ n.pc = "record"
  BY <1>2, <1>3, <1>4 DEF Call
<1> QED
  BY <1>1, <1>4, <1>5, GetTakes, QuietOK DEF GetRead

\* and the record of the read.
LEMMA GetRecordOK ==
    ASSUME KvInv, Away, NEW m \in calls, GetRecord(m)
    PROVE  /\ HandlerKeeps(m) /\ RecordInv'
           /\ m.server \in Server /\ m.op.client \in Client /\ m.op.kind = "Get"
           /\ Issued(m.op)
           /\ lastRequests'[m.server][m.op.client].id = m.op.req
           /\ \A p \in Server, c \in Client :
                 p # m.server \/ c # m.op.client =>
                    lastRequests'[p][c] = lastRequests[p][c]
<1> USE DEF KvInv
<1>1. Sound(m) /\ m.op.kind = "Get" /\ Issued(m.op)
  BY DEF CallInv, GetRecord, At, Sound
<1>2. m \in Call /\ m.server \in Server /\ m.value \in Stored /\ m.op.client \in Client
  BY <1>1, CallOK
<1>3. UNCHANGED <<log, committed, leader, handed, kvdb, index, waitApplyCh, applier,
                  executed>>
  BY DEF GetRecord, logVars
<1>4. Goes
  BY <1>3, GoesStill DEF Away
<1>5. EntryInv'
  BY <1>3, <1>4, EntryStill DEF EntryInv
<1>6. QueueInv'
  BY <1>3, <1>4, QueueStill
<1>7. PICK err : err = IF m.value = Nil THEN "ErrNoKey" ELSE "OK"
  OBVIOUS
<1>8. Reply(m, err, m.value) /\ recordRequestResult(m.server, m.op, m.value)
  BY <1>7 DEF GetRecord
<1>9. \E n : Takes(m, n)
  BY <1>1, <1>2, <1>7, <1>8, ReplyTakes
<1>10. /\ RecordInv'
       /\ lastRequests'[m.server][m.op.client].id = m.op.req
       /\ \A p \in Server, c \in Client :
             p # m.server \/ c # m.op.client => lastRequests'[p][c] = lastRequests[p][c]
  BY <1>1, <1>2, <1>4, <1>8, RecordSet
<1>11. HandlerKeeps(m)
  <2>1. NoPush
    BY <1>3 DEF NoPush
  <2> QED
    BY <1>3, <1>4, <1>5, <1>6, <1>9, <2>1, HandlerOK
<1> QED
  BY <1>1, <1>2, <1>10, <1>11

-----------------------------------------------------------------------------
(* The thread that applies *)

\* The thread that applies: it takes an entry,
LEMMA ApplyCheckOK ==
    ASSUME KvInv, Away, NEW s \in Server, ApplyCheck(s)
    PROVE  /\ KvInv' /\ Calm
           /\ applier[s].pc = "idle"
           /\ Len(handed'[s]) = Len(handed[s]) + 1
           /\ Len(handed'[s]) \in 1..committed
           /\ applier'[s].op = log[Len(handed'[s])]
           /\ applier'[s].pc = IF ifRequestDuplicate(s, log[Len(handed'[s])])
                               THEN "wake" ELSE "execute"
           /\ \A p \in Server : p # s =>
                 applier'[p] = applier[p] /\ handed'[p] = handed[p]
           /\ UNCHANGED <<log, committed, leader, kvdb, index, lastRequests, waitApplyCh,
                          calls, executed>>
<1> USE DEF KvInv
<1>1. UNCHANGED <<log, committed, leader, kvdb, index, lastRequests, waitApplyCh, calls,
                  executed>>
  BY DEF ApplyCheck, LogDeliver, tableVars
<1>2. Goes
  BY <1>1, GoesStill DEF Away
<1>3. PICK n : n = Len(handed[s]) + 1
  OBVIOUS
<1>4. LogDeliver(s, Len(handed[s]) + 1)
  BY DEF ApplyCheck
<1>5. /\ EntryInv' /\ Len(handed'[s]) = n /\ n \in 1..committed
  BY <1>2, <1>3, <1>4, EntryDeliver
<1>6. \A p \in Server : p # s => handed'[p] = handed[p]
  BY <1>4 DEF LogDeliver, EntryInv
<1>7. committed \in 0..Len(log) /\ Len(log) \in Nat
  BY DEF EntryInv
<1>8. log[n] \in Operation
  BY <1>5, <1>7 DEF EntryInv
<1>9. PICK pc : pc = IF ifRequestDuplicate(s, log[n]) THEN "wake" ELSE "execute"
  OBVIOUS
<1>10. pc \in {"wake", "execute"}
  BY <1>9
<1>11. applier' = [applier EXCEPT ![s] = [pc |-> pc, op |-> log[n]]]
  BY <1>3, <1>9 DEF ApplyCheck
<1>12. /\ applier' \in [Server -> [pc : {"idle", "execute", "record", "index", "wake"},
                                   op : Operation \cup {Nil}]]
       /\ applier'[s].pc = pc /\ applier'[s].op = log[n]
       /\ \A p \in Server : p # s => applier'[p] = applier[p]
  BY <1>8, <1>10, <1>11 DEF ThreadInv
<1>13. ThreadInv'
  <2>1. Len(handed'[s]) # 0 /\ applier'[s].op = log'[Len(handed'[s])]
    BY <1>1, <1>5, <1>12
  <2>2. applier'[s].pc # "index"
    BY <1>10, <1>12
  <2> QED
    BY <1>2, <1>6, <1>12, <2>1, <2>2, ThreadKept
<1>14. ClerkInv' /\ TableInv'
  BY <1>1 DEF ClerkInv, TableInv, Away
<1>15. QueueInv' /\ RecordInv'
  BY <1>1, <1>2, QueueStill, RecordStill
<1>16. Calm
  BY <1>1, <1>2 DEF Calm, Away
<1>17. CallInv'
  BY <1>1, <1>16, CallStill
<1>18. applier[s].pc = "idle"
  BY DEF ApplyCheck
<1> QED
  BY <1>1, <1>3, <1>5, <1>6, <1>9, <1>12, <1>13, <1>14, <1>15, <1>16, <1>17, <1>18

\* executes it,
LEMMA ApplyExecuteOK ==
    ASSUME KvInv, Away, NEW s \in Server, ApplyExecute(s)
    PROVE  /\ KvInv' /\ Calm
           /\ applier[s].pc = "execute" /\ applier'[s].pc = "record"
           /\ applier'[s].op = applier[s].op
           /\ \A p \in Server : p # s => applier'[p] = applier[p]
           /\ executed' = IF IsFeature(applier[s].op) THEN executed
                          ELSE [executed EXCEPT ![s] = Append(@, applier[s].op)]
           /\ UNCHANGED <<log, committed, leader, handed, lastRequests, waitApplyCh, calls>>
<1> USE DEF KvInv
<1>1. UNCHANGED <<log, committed, leader, handed, index, lastRequests, waitApplyCh, calls>>
  BY DEF ApplyExecute, logVars
<1>2. Goes
  BY <1>1, GoesStill DEF Away
<1>3. EntryInv'
  BY <1>1, <1>2, EntryStill DEF EntryInv
<1>4. applier[s].pc = "execute"
  BY DEF ApplyExecute
<1>5. ThreadInv' /\ applier'[s].op = applier[s].op /\ applier'[s].pc = "record"
      /\ \A p \in Server : p # s => applier'[p] = applier[p]
  BY <1>1, <1>2, <1>4, ThreadGoesOn DEF ApplyExecute
<1>6. PICK op : op = applier[s].op
  OBVIOUS
<1>7. Issued(op) /\ op \in Operation
  BY <1>4, <1>6, ThreadOp
<1>8. op.kind \in {"Put", "Append", "PutFeature"} => op.value \in Datum
  BY <1>7, IssuedOK
<1>9. /\ kvdb' = [kvdb EXCEPT ![s] = ExecutePutAppend(@, op)]
      /\ executed' = IF IsFeature(op) THEN executed
                     ELSE [executed EXCEPT ![s] = Append(@, op)]
  BY <1>6 DEF ApplyExecute
<1>10. kvdb \in [Server -> [Key -> Stored]] /\ executed \in [Server -> Seq(Operation)]
  BY DEF TableInv
<1>11. ExecutePutAppend(kvdb[s], op) \in [Key -> Stored]
  BY <1>7, <1>8, <1>10, ExecuteOK
<1>12. kvdb' \in [Server -> [Key -> Stored]]
  BY <1>9, <1>10, <1>11
<1>13. executed' \in [Server -> Seq(Operation)]
  BY <1>7, <1>9, <1>10, ExecutedOneMore
<1>14. ClerkInv' /\ TableInv'
  BY <1>1, <1>12, <1>13 DEF ClerkInv, TableInv, Away
<1>15. QueueInv' /\ RecordInv'
  BY <1>1, <1>2, QueueStill, RecordStill
<1>16. Calm
  BY <1>1, <1>2 DEF Calm, Away
<1>17. CallInv'
  BY <1>1, <1>16, CallStill
<1> QED
  BY <1>1, <1>3, <1>4, <1>5, <1>6, <1>9, <1>14, <1>15, <1>16, <1>17

\* records its request,
LEMMA ApplyRecordOK ==
    ASSUME KvInv, Away, NEW s \in Server, ApplyRecord(s)
    PROVE  /\ KvInv' /\ Calm
           /\ applier[s].pc = "record"
           /\ applier'[s].pc = IF IsFeature(applier[s].op) THEN "index" ELSE "wake"
           /\ applier'[s].op = applier[s].op
           /\ \A p \in Server : p # s => applier'[p] = applier[p]
           /\ lastRequests'[s][applier[s].op.client].id = applier[s].op.req
           /\ \A p \in Server, c \in Client :
                 p # s \/ c # applier[s].op.client =>
                    lastRequests'[p][c] = lastRequests[p][c]
           /\ UNCHANGED <<log, committed, leader, handed, executed, waitApplyCh, calls>>
<1> USE DEF KvInv
<1>1. UNCHANGED <<log, committed, leader, handed, kvdb, index, executed, waitApplyCh, calls>>
  BY DEF ApplyRecord, logVars
<1>2. Goes
  BY <1>1, GoesStill DEF Away
<1>3. EntryInv'
  BY <1>1, <1>2, EntryStill DEF EntryInv
<1>4. applier[s].pc = "record"
  BY DEF ApplyRecord
<1>5. PICK pc : pc = IF IsFeature(applier[s].op) THEN "index" ELSE "wake"
  OBVIOUS
<1>6. ApplyGoesOn(s, pc) /\ recordRequestResult(s, applier[s].op, Nil)
  BY <1>5 DEF ApplyRecord
<1>7. ThreadInv' /\ applier'[s].op = applier[s].op /\ applier'[s].pc = pc
      /\ \A p \in Server : p # s => applier'[p] = applier[p]
  BY <1>1, <1>2, <1>4, <1>5, <1>6, ThreadGoesOn
<1>8. PICK op : op = applier[s].op
  OBVIOUS
<1>9. Issued(op) /\ IsCommitted(op)
  BY <1>4, <1>8, ThreadOp
<1>10. /\ RecordInv'
       /\ lastRequests'[s][op.client].id = op.req
       /\ \A p \in Server, c \in Client :
             p # s \/ c # op.client => lastRequests'[p][c] = lastRequests[p][c]
  <2>1. Nil \in Stored
    BY DEF Stored
  <2> QED
    BY <1>2, <1>6, <1>8, <1>9, <2>1, RecordSet
<1>11. ClerkInv' /\ TableInv'
  BY <1>1 DEF ClerkInv, TableInv, Away
<1>12. QueueInv'
  BY <1>1, <1>2, QueueStill
<1>13. Calm
  BY <1>1, <1>2 DEF Calm, Away
<1>14. CallInv'
  BY <1>1, <1>13, CallStill
<1> QED
  BY <1>1, <1>3, <1>4, <1>5, <1>7, <1>8, <1>10, <1>11, <1>12, <1>13, <1>14

\* brings the features up to date,
LEMMA ApplyIndexOK ==
    ASSUME KvInv, Away, NEW s \in Server, ApplyIndex(s)
    PROVE  /\ KvInv' /\ Calm
           /\ applier[s].pc = "index" /\ applier'[s].pc = "wake"
           /\ applier'[s].op = applier[s].op
           /\ \A p \in Server : p # s => applier'[p] = applier[p]
           /\ executed' = [executed EXCEPT ![s] = Append(@, applier[s].op)]
           /\ UNCHANGED <<log, committed, leader, handed, lastRequests, waitApplyCh, calls>>
<1> USE DEF KvInv
<1>1. UNCHANGED <<log, committed, leader, handed, kvdb, lastRequests, waitApplyCh, calls>>
  BY DEF ApplyIndex, logVars
<1>2. Goes
  BY <1>1, GoesStill DEF Away
<1>3. EntryInv'
  BY <1>1, <1>2, EntryStill DEF EntryInv
<1>4. applier[s].pc = "index"
  BY DEF ApplyIndex
<1>5. ThreadInv' /\ applier'[s].op = applier[s].op /\ applier'[s].pc = "wake"
      /\ \A p \in Server : p # s => applier'[p] = applier[p]
  BY <1>1, <1>2, <1>4, ThreadGoesOn DEF ApplyIndex
<1>6. PICK op : op = applier[s].op
  OBVIOUS
<1>7. Issued(op) /\ op \in Operation /\ IsFeature(op)
  BY <1>4, <1>6, ThreadOp DEF ThreadInv
<1>8. op.kind \in {"Put", "Append", "PutFeature"} => op.value \in Datum
  BY <1>7, IssuedOK
<1>9. /\ index' = [index EXCEPT ![s] = ApplyToIndex(@, op)]
      /\ executed' = [executed EXCEPT ![s] = Append(@, op)]
  BY <1>6 DEF ApplyIndex
<1>10. index \in [Server -> [Key -> Stored]] /\ executed \in [Server -> Seq(Operation)]
  BY DEF TableInv
<1>11. ApplyToIndex(index[s], op) \in [Key -> Stored]
  BY <1>7, <1>8, <1>10, IndexOK
<1>12. index' \in [Server -> [Key -> Stored]]
  BY <1>9, <1>10, <1>11
<1>13. executed' \in [Server -> Seq(Operation)]
  BY <1>7, <1>9, <1>10, ExecutedOneMore
<1>14. ClerkInv' /\ TableInv'
  BY <1>1, <1>12, <1>13 DEF ClerkInv, TableInv, Away
<1>15. QueueInv' /\ RecordInv'
  BY <1>1, <1>2, QueueStill, RecordStill
<1>16. Calm
  BY <1>1, <1>2 DEF Calm, Away
<1>17. CallInv'
  BY <1>1, <1>16, CallStill
<1> QED
  BY <1>1, <1>3, <1>4, <1>5, <1>6, <1>9, <1>14, <1>15, <1>16, <1>17

\* and wakes the handler that waits for the index.
LEMMA ApplyWakeOK ==
    ASSUME KvInv, Away, NEW s \in Server, ApplyWake(s)
    PROVE  /\ KvInv' /\ Calm
           /\ applier[s].pc = "wake" /\ applier'[s].pc = "idle"
           /\ \A p \in Server : p # s => applier'[p] = applier[p]
           /\ \A p \in Server, i \in 1..MaxLog :
                 \/ waitApplyCh'[p][i] = waitApplyCh[p][i]
                 \/ /\ p = s /\ waitApplyCh[p][i] # Nil
                    /\ waitApplyCh[p][i] \in Seq(Operation)
                    /\ waitApplyCh'[p][i] = Append(waitApplyCh[p][i], applier[s].op)
           /\ UNCHANGED <<log, committed, leader, handed, lastRequests, executed, calls>>
<1> USE DEF KvInv
<1>1. UNCHANGED <<log, committed, leader, handed, kvdb, index, lastRequests, executed, calls>>
  BY DEF ApplyWake, logVars, tableVars
<1>2. Goes
  BY <1>1, GoesStill DEF Away
<1>3. EntryInv'
  BY <1>1, <1>2, EntryStill DEF EntryInv
<1>4. applier[s].pc = "wake"
  BY DEF ApplyWake
<1>5. ThreadInv' /\ applier'[s].pc = "idle"
      /\ \A p \in Server : p # s => applier'[p] = applier[p]
  BY <1>1, <1>2, ThreadRests DEF ApplyWake
<1>6. PICK i : i = Len(handed[s])
  OBVIOUS
<1>7. PICK op : op = applier[s].op
  OBVIOUS
<1>8. op \in Operation /\ i \in 1..committed /\ op = log[i]
  BY <1>4, <1>6, <1>7, ThreadOp
<1>9. committed \in 0..Len(log) /\ Len(log) <= MaxLog /\ Len(log) \in Nat /\ MaxLog \in Nat
  BY KvBounds DEF EntryInv
<1>10. i \in 1..MaxLog
  BY <1>8, <1>9
<1>11. PICK q : q = waitApplyCh[s][i]
  OBVIOUS
<1>12. q \in Seq(Operation) \cup {Nil} /\ (q # Nil => Holds(q, i))
  BY <1>10, <1>11 DEF QueueInv
<1>13. PICK r : r = IF q = Nil THEN Nil ELSE Append(q, op)
  OBVIOUS
<1>14. r \in Seq(Operation) \cup {Nil}
  <2>1. CASE q = Nil
    BY <2>1, <1>13
  <2>2. CASE q # Nil
    <3>1. Append(q, op) \in Seq(Operation)
      BY <1>8, <1>12, <2>2
    <3> QED
      BY <3>1, <1>13, <2>2
  <2> QED
    BY <2>1, <2>2
<1>15. r # Nil => Holds(r, i)
  <2> SUFFICES ASSUME r # Nil PROVE Holds(r, i)
    OBVIOUS
  <2>1. q \in Seq(Operation) /\ r = Append(q, op) /\ Holds(q, i)
    BY <1>12, <1>13
  <2>2. \A j \in DOMAIN r : r[j] = op \/ (j \in DOMAIN q /\ r[j] = q[j])
    BY <1>8, <2>1
  <2> QED
    BY <1>8, <2>1, <2>2 DEF Holds
<1>16. waitApplyCh' = [waitApplyCh EXCEPT ![s][i] = r]
  BY <1>6, <1>7, <1>11, <1>13 DEF ApplyWake
<1>17. QueueBecomes(s, i, r)
  BY <1>10, <1>14, <1>16 DEF QueueInv, QueueBecomes
<1>18. QueueInv'
  BY <1>2, <1>10, <1>15, <1>17, QueueSet
<1>19. RecordInv' /\ ClerkInv' /\ TableInv'
  BY <1>1, <1>2, RecordStill DEF ClerkInv, TableInv, Away
<1>20. q # Nil => r # Nil
  BY <1>8, <1>12, <1>13, <1>14, KvBounds
<1>21. Calm
  BY <1>1, <1>2, <1>11, <1>17, <1>20 DEF Calm, Away, QueueBecomes
<1>22. CallInv'
  BY <1>1, <1>21, CallStill
<1>23. ASSUME NEW p \in Server, NEW j \in 1..MaxLog
       PROVE  \/ waitApplyCh'[p][j] = waitApplyCh[p][j]
              \/ /\ p = s /\ waitApplyCh[p][j] # Nil
                 /\ waitApplyCh[p][j] \in Seq(Operation)
                 /\ waitApplyCh'[p][j] = Append(waitApplyCh[p][j], applier[s].op)
  BY <1>7, <1>11, <1>12, <1>13, <1>17 DEF QueueBecomes
<1> QED
  BY <1>1, <1>3, <1>4, <1>5, <1>18, <1>19, <1>21, <1>22, <1>23

-----------------------------------------------------------------------------
(* Raft *)

\* One more entry is committed.
LEMMA CommitOK ==
    ASSUME KvInv, Commit
    PROVE  KvInv' /\ Calm
<1> USE DEF KvInv
<1>1. Away /\ LogCommit(committed + 1)
      /\ UNCHANGED <<kvdb, index, lastRequests, waitApplyCh, applier, executed, calls>>
  BY DEF Commit, Away, serverVars, tableVars
<1>2. Goes
  BY <1>1, GoesCommit
<1>3. EntryInv'
  BY <1>1, <1>2, EntryCommit
<1>4. ThreadInv'
  BY <1>1, <1>2, ThreadStill DEF LogCommit
<1>5. QueueInv' /\ RecordInv' /\ TableInv' /\ ClerkInv'
  BY <1>1, <1>2, QueueStill, RecordStill DEF TableInv, ClerkInv, Away
<1>6. Calm
  BY <1>1, <1>2 DEF Calm, Away
<1>7. CallInv'
  BY <1>1, <1>6, CallStill
<1> QED
  BY <1>3, <1>4, <1>5, <1>6, <1>7

\* Another Leader takes over.
LEMMA ElectOK ==
    ASSUME KvInv, NEW s \in Server, Elect(s)
    PROVE  KvInv' /\ Calm /\ \E n \in 0..Len(log) : LogElect(s, n)
<1> USE DEF KvInv
<1>1. UNCHANGED <<kvdb, index, lastRequests, waitApplyCh, applier, executed, calls, clerk,
                  acked, scenario>>
      /\ elections' = elections + 1
  BY DEF Elect, serverVars, tableVars
<1>2. PICK n \in 0..Len(log) : LogElect(s, n)
  BY DEF Elect
<1>3. Goes
  BY <1>1, <1>2, GoesElect
<1>4. EntryInv'
  BY <1>2, <1>3, EntryElect
<1>5. ThreadInv'
  BY <1>1, <1>2, <1>3, ThreadStill DEF LogElect
<1>6. QueueInv' /\ RecordInv' /\ TableInv'
  BY <1>1, <1>3, QueueStill, RecordStill DEF TableInv
<1>7. ClerkInv'
  BY <1>1 DEF ClerkInv
<1>8. Calm
  BY <1>1, <1>3 DEF Calm
<1>9. CallInv'
  BY <1>1, <1>8, CallStill
<1> QED
  BY <1>2, <1>4, <1>5, <1>6, <1>7, <1>8, <1>9

\* A server restarts with empty tables.
LEMMA RestartOK ==
    ASSUME KvInv, NEW s \in Server, Restart(s)
    PROVE  /\ KvInv' /\ Goes /\ Away
           /\ applier'[s].pc = "idle" /\ executed'[s] = <<>> /\ handed'[s] = <<>>
           /\ \A c \in Client : lastRequests'[s][c].id = 0
           /\ \A i \in 1..MaxLog : waitApplyCh'[s][i] = Nil
           /\ \A p \in Server : p # s =>
                 /\ applier'[p] = applier[p] /\ executed'[p] = executed[p]
                 /\ lastRequests'[p] = lastRequests[p]
                 /\ waitApplyCh'[p] = waitApplyCh[p] /\ handed'[p] = handed[p]
           /\ calls' = {m \in calls : m.server # s \/ m.pc \in {"arrived", "replied"}}
           /\ leader' = IF leader = s THEN Nil ELSE leader
           /\ UNCHANGED <<log, committed>>
<1> USE DEF KvInv
<1>1. /\ UNCHANGED <<clerk, acked, elections, scenario, log, committed>>
      /\ leader' = IF leader = s THEN Nil ELSE leader
      /\ calls' = {m \in calls : m.server # s \/ m.pc \in {"arrived", "replied"}}
  BY DEF Restart, ServerRestart, LogRestart
<1>2. Goes /\ Away
  BY <1>1, GoesStill DEF Away
<1>3. /\ LogRestart(s)
      /\ kvdb' = [kvdb EXCEPT ![s] = NoKeys]
      /\ index' = [index EXCEPT ![s] = NoKeys]
      /\ lastRequests' = [lastRequests EXCEPT ![s] = FirstRecords(s)]
      /\ waitApplyCh' = [waitApplyCh EXCEPT ![s] = [i \in 1..MaxLog |-> Nil]]
      /\ applier' = [applier EXCEPT ![s] = NoRequest]
      /\ executed' = [executed EXCEPT ![s] = <<>>]
  BY DEF Restart, ServerRestart
<1>4. EntryInv'
  BY <1>2, <1>3, EntryRestart
<1>5. handed'[s] = <<>> /\ \A p \in Server : p # s => handed'[p] = handed[p]
  BY <1>3 DEF LogRestart, EntryInv
<1>6. ThreadInv' /\ applier'[s].pc = "idle"
      /\ \A p \in Server : p # s => applier'[p] = applier[p]
  BY <1>2, <1>3, <1>5, ThreadRests
<1>7. /\ QueueInv' /\ \A i \in 1..MaxLog : waitApplyCh'[s][i] = Nil
      /\ \A p \in Server : p # s => waitApplyCh'[p] = waitApplyCh[p]
  BY <1>2, <1>3, QueueRestart
<1>8. /\ RecordInv' /\ \A c \in Client : lastRequests'[s][c].id = 0
      /\ \A p \in Server : p # s => lastRequests'[p] = lastRequests[p]
  BY <1>2, <1>3, RecordRestart
<1>9. NoKeys \in [Key -> Stored]
  BY DEF NoKeys, Stored
<1>10. TableInv'
  BY <1>3, <1>9 DEF TableInv
<1>11. executed'[s] = <<>> /\ \A p \in Server : p # s => executed'[p] = executed[p]
  BY <1>3 DEF TableInv
<1>12. ClerkInv'
  BY <1>1 DEF ClerkInv
<1>13. ASSUME NEW m \in calls'
       PROVE  Sound(m)'
  <2>1. m \in calls /\ Sound(m) /\ (m.server # s \/ m.pc \in {"arrived", "replied"})
    BY <1>1 DEF CallInv
  <2>2. m.server \in Server
    BY <2>1, CallOK
  <2>3. m.pc = "wait" => waitApplyCh'[m.server][m.index] # Nil
    BY <2>1, <2>2, <1>7 DEF Sound
  <2> QED
    BY <1>1, <1>2, <2>1, <2>3, SoundKept
<1>14. CallInv'
  <2>1. \A m, n \in calls' : m.waiting /\ n.waiting /\ m.op.client = n.op.client => m = n
    BY <1>1 DEF CallInv
  <2>2. \A op \in acked' : Issued(op)' /\ op.kind # "Get" /\ Settled(op)'
    BY <1>1, <1>2, AckedKept
  <2> QED
    BY <1>13, <2>1, <2>2 DEF CallInv
<1> QED
  BY <1>1, <1>2, <1>4, <1>5, <1>6, <1>7, <1>8, <1>10, <1>11, <1>12, <1>14

-----------------------------------------------------------------------------
(* The Clerks *)

\* The Clerk of c goes on to request r; the servers and the log stay.
ClerkGoes(c, r) ==
    /\ UNCHANGED <<logVars, serverVars, elections, scenario>>
    /\ clerk' \in [Client -> [pc : {"idle", "ready", "waiting"},
                              req : Nat, fails : Nat, call : Nat]]
    /\ \A d \in Client : d # c => clerk'[d] = clerk[d]
    /\ clerk'[c].req = r /\ clerk[c].req <= r /\ r <= Len(scenario.program[c])
    /\ clerk'[c].pc # "idle" => r # 0

\* A step of one Clerk leaves the servers alone.
LEMMA ClerkGoesOK ==
    ASSUME KvInv, NEW c \in Client, NEW r \in Nat, ClerkGoes(c, r)
    PROVE  /\ ClerkInv' /\ EntryInv' /\ ThreadInv' /\ QueueInv' /\ TableInv' /\ RecordInv'
           /\ Goes
           /\ UNCHANGED <<log, committed, leader, handed, kvdb, index, lastRequests,
                          waitApplyCh, applier, executed, elections>>
<1> USE DEF KvInv
<1>1. UNCHANGED <<log, committed, leader, handed, kvdb, index, lastRequests, waitApplyCh,
                  applier, executed, elections, scenario>>
  BY DEF ClerkGoes, logVars, serverVars, tableVars
<1>2. committed \in Nat
  BY DEF EntryInv
<1>3. ASSUME NEW d \in Client
      PROVE  clerk'[d].req \in Nat /\ clerk[d].req <= clerk'[d].req
  <2>1. clerk[d].req \in Nat
    BY DEF ClerkInv
  <2>2. CASE d = c
    BY <2>2 DEF ClerkGoes
  <2>3. CASE d # c
    <3>1. clerk'[d] = clerk[d]
      BY <2>3 DEF ClerkGoes
    <3> QED
      BY <2>1, <3>1
  <2> QED
    BY <2>2, <2>3
<1>4. Goes
  BY <1>1, <1>2, <1>3 DEF Goes
<1>5. ClerkInv'
  BY <1>1 DEF ClerkInv, ClerkGoes
<1>6. EntryInv'
  BY <1>1, <1>4, EntryStill DEF EntryInv
<1>7. ThreadInv' /\ QueueInv' /\ RecordInv' /\ TableInv'
  BY <1>1, <1>4, ThreadStill, QueueStill, RecordStill DEF TableInv
<1> QED
  BY <1>1, <1>4, <1>5, <1>6, <1>7

\* The calls that no Clerk waits for, or that of another, stay sound.
LEMMA SoundElsewhere ==
    ASSUME KvInv, NEW c \in Client, NEW r \in Nat, ClerkGoes(c, r), NEW m \in calls,
           m.waiting => m.op.client # c
    PROVE  Sound(m)'
<1> USE DEF KvInv
<1>1. Sound(m)
  BY DEF CallInv
<1>2. m.op.client \in Client
  BY <1>1, CallOK
<1>3. Goes /\ waitApplyCh' = waitApplyCh
  BY ClerkGoesOK
<1>4. m.waiting => clerk'[m.op.client] = clerk[m.op.client]
  BY <1>2 DEF ClerkGoes
<1> QED
  BY <1>1, <1>3, <1>4, SoundKept DEF Sound

\* A new call, while the Clerk waits for no other.
LEMMA CallSent ==
    ASSUME KvInv, NEW c \in Client, NEW s \in Server, NEW r \in Nat, r # 0,
           ClerkGoes(c, r), clerk[c].pc # "waiting", clerk'[c].pc = "waiting",
           SendCall(c, r, s)
    PROVE  /\ KvInv'
           /\ \A m \in calls' : m \in calls \/ (m.pc = "arrived" /\ m.err = Nil)
           /\ acked' = acked
<1> USE DEF KvInv
<1>1. /\ ClerkInv' /\ EntryInv' /\ ThreadInv' /\ QueueInv' /\ TableInv' /\ RecordInv'
      /\ Goes
  BY ClerkGoesOK
<1>2. scenario' = scenario /\ clerk'[c].req = r /\ acked' = acked
  BY DEF ClerkGoes, SendCall
<1>3. PICK op : op = OpOf(c, r)
  OBVIOUS
<1>4. OpOf(c, r)' = op
  BY <1>2, <1>3 DEF OpOf
<1>5. op.client = c /\ op.req = r
  BY <1>3 DEF OpOf
<1>6. Issued(op)'
  BY <1>2, <1>4, <1>5 DEF Issued
<1>7. op \in Operation
  BY <1>3, OpOfTyped DEF ClerkGoes, ClerkInv
<1>8. PICK n : n = [op |-> op, server |-> s, call |-> clerk[c].call + 1, waiting |-> TRUE,
                    pc |-> "arrived", index |-> 0, value |-> Nil, err |-> Nil]
  OBVIOUS
<1>9. calls' = calls \cup {n}
  BY <1>3, <1>8 DEF SendCall
<1>10. clerk[c].call + 1 \in Nat
  BY DEF ClerkInv
<1>11. n \in Call
  BY <1>7, <1>8, <1>10, KvBounds DEF Call, Stored
<1>12. n.op = op /\ n.pc = "arrived" /\ n.err = Nil
  BY <1>8
<1>13. Current(n.op)'
  BY <1>2, <1>5, <1>12 DEF Current
<1>14. ~Confirms(n)'
  BY <1>12 DEF Confirms
<1>15. Issued(n.op)' /\ clerk'[n.op.client].pc = "waiting"
  BY <1>5, <1>6, <1>12
<1>16. Sound(n)'
  BY <1>11, <1>12, <1>13, <1>14, <1>15 DEF Sound
<1>17. ASSUME NEW m \in calls
       PROVE  m.waiting => m.op.client # c
  BY DEF CallInv, Sound
<1>18. \A m \in calls' : Sound(m)'
  BY <1>9, <1>16, <1>17, SoundElsewhere
<1>19. \A m, k \in calls' : m.waiting /\ k.waiting /\ m.op.client = k.op.client => m = k
  BY <1>5, <1>9, <1>12, <1>17 DEF CallInv
<1>20. \A a \in acked' : Issued(a)' /\ a.kind # "Get" /\ Settled(a)'
  BY <1>1, <1>2, AckedKept
<1>21. CallInv'
  BY <1>18, <1>19, <1>20 DEF CallInv
<1> QED
  BY <1>1, <1>2, <1>9, <1>12, <1>21

\* A Clerk begins a request,
LEMMA NewRequestOK ==
    ASSUME KvInv, NEW c \in Client, NEW s \in Server, NewRequest(c, s)
    PROVE  /\ KvInv' /\ ClerkGoes(c, clerk[c].req + 1)
           /\ \A m \in calls' : m \in calls \/ (m.pc = "arrived" /\ m.err = Nil)
           /\ acked' = acked
<1> USE DEF KvInv
<1>1. PICK r : r = clerk[c].req + 1
  OBVIOUS
<1>2. clerk[c].req \in Nat /\ clerk[c].call \in Nat
  BY DEF ClerkInv
<1>3. r \in Nat /\ r # 0 /\ clerk[c].req <= r
  BY <1>1, <1>2
<1>4. /\ clerk[c].pc = "idle" /\ r <= Len(scenario.program[c]) /\ SendCall(c, r, s)
      /\ clerk' = [clerk EXCEPT ![c] = [pc |-> "waiting", req |-> r, fails |-> 0,
                                        call |-> @.call + 1]]
  BY <1>1 DEF NewRequest
<1>5. PICK k : k = [pc |-> "waiting", req |-> r, fails |-> 0, call |-> clerk[c].call + 1]
  OBVIOUS
<1>6. /\ k \in [pc : {"idle", "ready", "waiting"}, req : Nat, fails : Nat, call : Nat]
      /\ k.pc = "waiting" /\ k.req = r
  BY <1>2, <1>3, <1>5
<1>7. clerk' = [clerk EXCEPT ![c] = k]
  BY <1>4, <1>5
<1>8. /\ clerk' \in [Client -> [pc : {"idle", "ready", "waiting"},
                                req : Nat, fails : Nat, call : Nat]]
      /\ \A d \in Client : d # c => clerk'[d] = clerk[d]
      /\ clerk'[c] = k
  BY <1>6, <1>7 DEF ClerkInv
<1>9. ClerkGoes(c, r)
  BY <1>3, <1>4, <1>6, <1>8 DEF ClerkGoes, SendCall
<1> QED
  BY <1>1, <1>3, <1>4, <1>6, <1>8, <1>9, CallSent

\* repeats it,
LEMMA RetryOK ==
    ASSUME KvInv, NEW c \in Client, NEW s \in Server, Retry(c, s)
    PROVE  /\ KvInv' /\ ClerkGoes(c, clerk[c].req)
           /\ \A m \in calls' : m \in calls \/ (m.pc = "arrived" /\ m.err = Nil)
           /\ acked' = acked
<1> USE DEF KvInv
<1>1. PICK r : r = clerk[c].req
  OBVIOUS
<1>2. /\ clerk[c] \in [pc : {"idle", "ready", "waiting"}, req : Nat, fails : Nat, call : Nat]
      /\ clerk[c].req \in Nat /\ clerk[c].call \in Nat /\ clerk[c].fails \in Nat
      /\ r <= Len(scenario.program[c])
      /\ clerk[c].pc = "ready" /\ r # 0
  BY <1>1 DEF ClerkInv, Retry
<1>3. /\ SendCall(c, r, s)
      /\ clerk' = [clerk EXCEPT ![c].pc = "waiting", ![c].call = @ + 1]
  BY <1>1 DEF Retry
<1>4. /\ clerk' \in [Client -> [pc : {"idle", "ready", "waiting"},
                                req : Nat, fails : Nat, call : Nat]]
      /\ \A d \in Client : d # c => clerk'[d] = clerk[d]
      /\ clerk'[c].req = r /\ clerk'[c].pc = "waiting"
  <2>1. PICK k : k = [clerk[c] EXCEPT !.pc = "waiting", !.call = @ + 1]
    OBVIOUS
  <2>2. /\ k \in [pc : {"idle", "ready", "waiting"}, req : Nat, fails : Nat, call : Nat]
        /\ k.req = r /\ k.pc = "waiting"
    <3>1. PICK old \in [pc : {"idle", "ready", "waiting"}, req : Nat, fails : Nat,
                         call : Nat] : old = clerk[c]
      BY <1>2
    <3>2. PICK n \in Nat : n = old.call + 1
      OBVIOUS
    <3>3. k = [old EXCEPT !.pc = "waiting", !.call = n]
      BY <2>1, <3>1, <3>2
    <3>4. old.req = r
      BY <1>1, <3>1
    <3> QED
      BY <3>3, <3>4
  <2>3. clerk' = [clerk EXCEPT ![c] = k]
    BY <1>3, <2>1 DEF ClerkInv
  <2> QED
    BY <2>2, <2>3 DEF ClerkInv
<1>5. ClerkGoes(c, r)
  BY <1>1, <1>2, <1>3, <1>4 DEF ClerkGoes, SendCall
<1> QED
  BY <1>1, <1>2, <1>3, <1>4, <1>5, CallSent

\* The Clerk of c stops waiting.
LEMMA ClerkTurns ==
    ASSUME KvInv, NEW c \in Client, NEW f \in Nat, NEW pc \in {"ready", "idle"},
           clerk[c].pc = "waiting",
           clerk' = [clerk EXCEPT ![c].fails = f, ![c].pc = pc],
           UNCHANGED <<logVars, serverVars, elections, scenario>>
    PROVE  ClerkGoes(c, clerk[c].req) /\ clerk[c].req \in Nat
<1> USE DEF KvInv
<1>1. PICK old \in [pc : {"idle", "ready", "waiting"}, req : Nat, fails : Nat, call : Nat] :
         old = clerk[c]
  BY DEF ClerkInv
<1>2. PICK k : k = [old EXCEPT !.fails = f, !.pc = pc]
  OBVIOUS
<1>3. /\ k \in [pc : {"idle", "ready", "waiting"}, req : Nat, fails : Nat, call : Nat]
      /\ k.req = old.req
  BY <1>2
<1>4. clerk' = [clerk EXCEPT ![c] = k]
  BY <1>1, <1>2 DEF ClerkInv
<1>5. /\ clerk' \in [Client -> [pc : {"idle", "ready", "waiting"},
                                req : Nat, fails : Nat, call : Nat]]
      /\ \A d \in Client : d # c => clerk'[d] = clerk[d]
      /\ clerk'[c].req = clerk[c].req
  BY <1>1, <1>3, <1>4 DEF ClerkInv
<1>6. clerk[c].req \in Nat /\ clerk[c].req # 0 /\ clerk[c].req <= Len(scenario.program[c])
  BY DEF ClerkInv
<1> QED
  BY <1>5, <1>6 DEF ClerkGoes

\* is answered: a confirmed write is settled,
LEMMA ReceiveReplyOK ==
    ASSUME KvInv, NEW c \in Client, ReceiveReply(c)
    PROVE  /\ KvInv' /\ ClerkGoes(c, clerk[c].req) /\ calls' \subseteq calls
           /\ \E m \in calls : /\ Confirms(m) => acked' = acked \cup {m.op}
                               /\ ~Confirms(m) => acked' = acked
<1> USE DEF KvInv
<1>1. PICK m \in calls :
        /\ m.op.client = c /\ m.waiting /\ m.pc = "replied"
        /\ calls' = calls \ {m}
        /\ clerk' = [clerk EXCEPT ![c].fails = 0, ![c].pc =
                        IF m.err = "ErrWrongLeader" THEN "ready" ELSE "idle"]
        /\ acked' = IF m.err = "OK" /\ m.op.kind # "Get"
                    THEN acked \cup {m.op} ELSE acked
        /\ UNCHANGED <<logVars, serverVars, elections, restarts, scenario>>
  BY DEF ReceiveReply
<1>2. Sound(m)
  BY DEF CallInv
<1>3. clerk[c].pc = "waiting"
  BY <1>1, <1>2 DEF Sound
<1>4. PICK pc \in {"ready", "idle"} : pc = IF m.err = "ErrWrongLeader" THEN "ready" ELSE "idle"
  OBVIOUS
<1>5. clerk' = [clerk EXCEPT ![c].fails = 0, ![c].pc = pc]
  BY <1>1, <1>4
<1>6. ClerkGoes(c, clerk[c].req) /\ clerk[c].req \in Nat
  BY <1>1, <1>3, <1>5, ClerkTurns
<1>7. /\ ClerkInv' /\ EntryInv' /\ ThreadInv' /\ QueueInv' /\ TableInv' /\ RecordInv'
      /\ Goes
  BY <1>6, ClerkGoesOK
<1>8. ASSUME NEW k \in calls' PROVE k \in calls /\ (k.waiting => k.op.client # c)
  BY <1>1 DEF CallInv
<1>9. \A k \in calls' : Sound(k)'
  BY <1>6, <1>8, SoundElsewhere
<1>10. \A k, l \in calls' : k.waiting /\ l.waiting /\ k.op.client = l.op.client => k = l
  BY <1>1 DEF CallInv
<1>11. Confirms(m) <=> m.err = "OK" /\ m.op.kind # "Get"
  BY <1>1 DEF Confirms
<1>12. committed \in Nat
  BY DEF EntryInv
<1>13. PICK op : op = m.op
  OBVIOUS
<1>14. Confirms(m) => Issued(op)' /\ op.kind # "Get" /\ Settled(op)'
  BY <1>2, <1>7, <1>11, <1>12, <1>13, IssuedKept, SettledKept DEF Sound
<1>15. \A a \in acked' : a \in acked \/ (a = op /\ Confirms(m))
  BY <1>1, <1>11, <1>13
<1>16. \A a \in acked' : Issued(a)' /\ a.kind # "Get" /\ Settled(a)'
  BY <1>7, <1>14, <1>15, AckedKept
<1>17. CallInv'
  BY <1>9, <1>10, <1>16 DEF CallInv
<1>18. (Confirms(m) => acked' = acked \cup {m.op}) /\ (~Confirms(m) => acked' = acked)
  BY <1>1, <1>11
<1> QED
  BY <1>1, <1>6, <1>7, <1>17, <1>18

\* or gives up on a call.
LEMMA RpcFailOK ==
    ASSUME KvInv, NEW c \in Client, RpcFail(c)
    PROVE  /\ KvInv' /\ ClerkGoes(c, clerk[c].req)
           /\ \A n \in calls' : \E m \in calls :
                 n.op = m.op /\ n.pc = m.pc /\ n.server = m.server /\ (n = m \/ ~n.waiting)
           /\ acked' = acked
<1> USE DEF KvInv
<1>1. /\ clerk[c].pc = "waiting" /\ acked' = acked
      /\ clerk' = [clerk EXCEPT ![c].fails = @ + 1, ![c].pc =
                      IF clerk[c].fails + 1 > scenario.fails THEN "idle" ELSE "ready"]
      /\ calls' = {IF m.op.client = c THEN [m EXCEPT !.waiting = FALSE] ELSE m :
                      m \in {n \in calls : n.op.client = c => n.pc # "replied"}}
      /\ UNCHANGED <<logVars, serverVars, elections, scenario>>
  BY DEF RpcFail
<1>2. PICK f \in Nat : f = clerk[c].fails + 1
  BY DEF ClerkInv
<1>3. PICK pc \in {"ready", "idle"} :
         pc = IF clerk[c].fails + 1 > scenario.fails THEN "idle" ELSE "ready"
  OBVIOUS
<1>4. clerk' = [clerk EXCEPT ![c].fails = f, ![c].pc = pc]
  BY <1>1, <1>2, <1>3
<1>5. ClerkGoes(c, clerk[c].req) /\ clerk[c].req \in Nat
  BY <1>1, <1>4, ClerkTurns
<1>6. /\ ClerkInv' /\ EntryInv' /\ ThreadInv' /\ QueueInv' /\ TableInv' /\ RecordInv'
      /\ Goes /\ waitApplyCh' = waitApplyCh
  BY <1>5, ClerkGoesOK
<1>7. ASSUME NEW n \in calls'
      PROVE  \E m \in calls :
                /\ n.op = m.op /\ n.pc = m.pc /\ n.server = m.server /\ n.index = m.index
                /\ n \in Call
                /\ (n = m /\ m.op.client # c) \/ n.waiting = FALSE
  <2>1. PICK m \in calls : n = IF m.op.client = c THEN [m EXCEPT !.waiting = FALSE] ELSE m
    BY <1>1
  <2>2. m \in Call
    BY DEF CallInv, Sound
  <2>3. CASE m.op.client = c
    <3>1. n = [m EXCEPT !.waiting = FALSE]
      BY <2>1, <2>3
    <3>2. n \in Call /\ n.op = m.op /\ n.pc = m.pc /\ n.server = m.server
          /\ n.index = m.index /\ n.waiting = FALSE
      BY <2>2, <3>1 DEF Call
    <3> QED
      BY <3>2
  <2>4. CASE m.op.client # c
    BY <2>1, <2>2, <2>4
  <2> QED
    BY <2>3, <2>4
<1>8. ASSUME NEW n \in calls' PROVE Sound(n)'
  <2>1. PICK m \in calls :
           /\ n.op = m.op /\ n.pc = m.pc /\ n.server = m.server /\ n.index = m.index
           /\ n \in Call
           /\ (n = m /\ m.op.client # c) \/ n.waiting = FALSE
    BY <1>7
  <2>2. Sound(m)
    BY DEF CallInv
  <2>3. CASE n = m /\ m.op.client # c
    BY <1>5, <2>3, SoundElsewhere
  <2>4. CASE n.waiting = FALSE
    <3>1. PICK op : op = n.op
      OBVIOUS
    <3>2. Issued(op)'
      BY <1>6, <2>1, <2>2, <3>1, IssuedKept DEF Sound
    <3>3. Issued(n.op)'
      BY <3>1, <3>2
    <3>4. ~Confirms(n)'
      BY <2>4 DEF Confirms
    <3> QED
      BY <1>6, <2>1, <2>2, <2>4, <3>3, <3>4 DEF Sound
  <2> QED
    BY <2>1, <2>3, <2>4
<1>9. \A k, l \in calls' : k.waiting /\ l.waiting /\ k.op.client = l.op.client => k = l
  <2>1. \A k \in calls' : k.waiting => k \in calls
    BY <1>7
  <2> QED
    BY <2>1 DEF CallInv
<1>10. \A a \in acked' : Issued(a)' /\ a.kind # "Get" /\ Settled(a)'
  BY <1>1, <1>6, AckedKept
<1>11. CallInv'
  BY <1>8, <1>9, <1>10 DEF CallInv
<1>12. \A n \in calls' : \E m \in calls :
          n.op = m.op /\ n.pc = m.pc /\ n.server = m.server /\ (n = m \/ ~n.waiting)
  BY <1>7
<1> QED
  BY <1>1, <1>5, <1>6, <1>11, <1>12

-----------------------------------------------------------------------------
(* The invariant holds *)

\* The invariant holds at the start.
LEMMA KvStarts ==
    ASSUME KvInit
    PROVE  KvInv
<1>1. /\ log = <<>> /\ committed = 0 /\ leader = Nil /\ handed = [s \in Server |-> <<>>]
      /\ kvdb = [s \in Server |-> NoKeys] /\ index = [s \in Server |-> NoKeys]
      /\ lastRequests = [s \in Server |-> [c \in Client |-> NoRecord]]
      /\ waitApplyCh = [s \in Server |-> [i \in 1..MaxLog |-> Nil]]
      /\ applier = [s \in Server |-> NoRequest]
      /\ executed = [s \in Server |-> <<>>]
      /\ calls = {} /\ acked = {} /\ elections = 0 /\ scenario \in Scenarios
      /\ clerk = [c \in Client |-> [pc |-> "idle", req |-> 0, fails |-> 0, call |-> 0]]
  BY DEF KvInit, ServerInit, LogInit
<1>2. ClerkInv
  <2>1. clerk \in [Client -> [pc : {"idle", "ready", "waiting"},
                              req : Nat, fails : Nat, call : Nat]]
    BY <1>1
  <2>2. \A c \in Client : clerk[c].req = 0 /\ clerk[c].pc = "idle"
    BY <1>1
  <2>3. \A c \in Client : Len(scenario.program[c]) \in Nat
    BY <1>1, ScenarioAssumption
  <2> QED
    BY <1>1, <2>1, <2>2, <2>3 DEF ClerkInv
<1>3. EntryInv
  <2>1. <<>> \in Seq(Operation) /\ Len(<<>>) = 0
    OBVIOUS
  <2>2. handed \in [Server -> Seq(Operation)] /\ \A s \in Server : handed[s] = <<>>
    BY <1>1, <2>1
  <2>3. MaxLog \in Nat
    BY KvBounds
  <2> QED
    BY <1>1, <2>1, <2>2, <2>3 DEF EntryInv
<1>4. ThreadInv
  BY <1>1 DEF ThreadInv, NoRequest
<1>5. QueueInv
  BY <1>1 DEF QueueInv
<1>6. TableInv
  BY <1>1 DEF TableInv, NoKeys, Stored
<1>7. RecordInv
  <2>1. lastRequests \in [Server -> [Client -> [id : Nat, value : Stored]]]
    BY <1>1 DEF NoRecord, Stored
  <2>2. \A s \in Server, c \in Client : lastRequests[s][c].id = 0
    BY <1>1 DEF NoRecord
  <2>3. \A c \in Client : clerk[c].req \in Nat
    BY <1>2 DEF ClerkInv
  <2> QED
    BY <2>1, <2>2, <2>3 DEF RecordInv
<1>8. CallInv
  BY <1>1 DEF CallInv
<1> QED
  BY <1>2, <1>3, <1>4, <1>5, <1>6, <1>7, <1>8 DEF KvInv

\* The steps of the handlers.
HandlerStep(m) ==
    \/ PutStart(m) \/ PutRegister(m) \/ PutPop(m) \/ PutTimeout(m)
    \/ GetCheck(m) \/ GetCached(m) \/ GetRead(m) \/ GetRecord(m)

\* Handlers record reads only.
RecordsReads ==
    \A s \in Server, c \in Client :
        \/ lastRequests'[s][c] = lastRequests[s][c]
        \/ OpOf(c, lastRequests'[s][c].id).kind = "Get"
           /\ lastRequests'[s][c].id \in 1..clerk[c].req

\* Every handler keeps the invariant and records reads only.
LEMMA HandlerStepOK ==
    ASSUME KvInv, Away, NEW m \in calls, HandlerStep(m)
    PROVE  KvInv' /\ HandlerKeeps(m) /\ RecordsReads
<1>1. HandlerKeeps(m) /\ RecordInv'
  BY PutStartOK, PutRegisterOK, PutPopOK, PutTimeoutOK, GetCheckOK, GetCachedOK, GetReadOK,
     GetRecordOK DEF HandlerStep
<1>2. RecordsReads
  <2>1. CASE GetRecord(m)
    <3>1. /\ m.server \in Server /\ m.op.client \in Client /\ m.op.kind = "Get"
          /\ Issued(m.op)
          /\ lastRequests'[m.server][m.op.client].id = m.op.req
          /\ \A p \in Server, c \in Client :
                p # m.server \/ c # m.op.client =>
                   lastRequests'[p][c] = lastRequests[p][c]
      BY <2>1, GetRecordOK
    <3> QED
      BY <3>1 DEF RecordsReads, Issued
  <2>2. CASE ~GetRecord(m)
    <3>1. lastRequests' = lastRequests
      BY <2>2 DEF HandlerStep, PutStart, PutRegister, PutPop, PutTimeout, GetCheck, GetCached,
                  GetRead, serverVars, tableVars
    <3> QED
      BY <3>1 DEF RecordsReads
  <2> QED
    BY <2>1, <2>2
<1> QED
  BY <1>1, <1>2 DEF HandlerKeeps, KvInv

\* The steps of the system, one by one.
LEMMA KvSteps ==
    ASSUME KvNext
    PROVE  \/ \E c \in Client : ReceiveReply(c) \/ RpcFail(c)
           \/ \E c \in Client, s \in Server : NewRequest(c, s) \/ Retry(c, s)
           \/ Away /\ \E m \in calls : HandlerStep(m)
           \/ Away /\ \E s \in Server : ApplyCheck(s) \/ ApplyExecute(s) \/ ApplyRecord(s)
                                        \/ ApplyIndex(s) \/ ApplyWake(s)
           \/ Commit
           \/ \E s \in Server : Elect(s) \/ Restart(s)
BY DEF KvNext, ServerStep, HandlerStep, Away

\* A stuttering step changes nothing.
LEMMA KvStutters ==
    ASSUME UNCHANGED kvVars
    PROVE  UNCHANGED <<log, committed, leader, handed, kvdb, index, lastRequests, waitApplyCh,
                       applier, executed, calls, scenario, clerk, acked, elections>>
BY DEF kvVars, logVars, serverVars, tableVars

\* Every step keeps the invariant.
LEMMA KvKept ==
    ASSUME KvInv, [KvNext]_kvVars
    PROVE  KvInv'
<1>1. CASE KvNext
  BY <1>1, KvSteps, ReceiveReplyOK, RpcFailOK, NewRequestOK, RetryOK, HandlerStepOK,
     ApplyCheckOK, ApplyExecuteOK, ApplyRecordOK, ApplyIndexOK, ApplyWakeOK, CommitOK,
     ElectOK, RestartOK
<1>2. CASE UNCHANGED kvVars
  <2>1. UNCHANGED <<log, committed, leader, handed, kvdb, index, lastRequests, waitApplyCh,
                    applier, executed, calls, scenario, clerk, acked, elections>>
    BY <1>2, KvStutters
  <2>2. Goes /\ Away
    BY <2>1, GoesStill DEF KvInv, Away
  <2>3. Calm
    BY <2>1, <2>2 DEF Calm
  <2>4. EntryInv' /\ ThreadInv' /\ QueueInv' /\ RecordInv' /\ CallInv'
    <3>1. leader' \in Server \cup {Nil}
      BY <2>1 DEF KvInv, EntryInv
    <3> QED
      BY <2>1, <2>2, <2>3, <3>1, EntryStill, ThreadStill, QueueStill, RecordStill, CallStill
      DEF KvInv
  <2> QED
    BY <2>1, <2>4 DEF KvInv, TableInv, ClerkInv
<1> QED
  BY <1>1, <1>2

\* In every behaviour of KvServer and the Clerks, the log holds only what the
\* Clerks asked for, every queue only the entry of its index, every record a
\* request that has begun and, if it is a write, is committed, and every answer OK
\* to a write stands for a write that is settled.
THEOREM KvInvariance == KvSpec => []KvInv
<1>1. KvInit => KvInv
  BY KvStarts
<1>2. KvInv /\ [KvNext]_kvVars => KvInv'
  BY KvKept
<1> QED
  BY <1>1, <1>2, PTL DEF KvSpec

\* Every variable keeps its type (KvTypeOK).
THEOREM KvTypes == KvSpec => []KvTypeOK
<1>1. KvInv => KvTypeOK
  <2> SUFFICES ASSUME KvInv PROVE KvTypeOK
    OBVIOUS
  <2>1. calls \subseteq Call
    BY DEF KvInv, CallInv, Sound
  <2>2. acked \subseteq Operation
    BY IssuedOK DEF KvInv, CallInv
  <2> QED
    BY <2>1, <2>2
    DEF KvTypeOK, KvInv, ClerkInv, EntryInv, ThreadInv, QueueInv, TableInv, RecordInv
<1> QED
  BY <1>1, KvInvariance, PTL

\* A write that a Clerk returned from with OK is committed (AckedIsCommitted),
\* whether its handler was woken or timed out and asked the records, provided
\* that Raft keeps the one log of ReplicatedLog.
THEOREM AckedAlwaysCommitted == KvSpec => []AckedIsCommitted
<1>1. KvInv => AckedIsCommitted
  BY DEF KvInv, CallInv, Settled, AckedIsCommitted
<1> QED
  BY <1>1, KvInvariance, PTL

-----------------------------------------------------------------------------
(* What the first Leader has executed *)

\* Nothing that s has executed is forgotten.
Grows(s) == \A i \in DOMAIN executed[s] :
                \E j \in DOMAIN executed'[s] : executed'[s][j] = executed[s][i]

\* What a process has executed stays executed.
LEMMA HasKept ==
    ASSUME NEW s, NEW op, Grows(s), Has(s, op)
    PROVE  Has(s, op)'
BY DEF Has, Grows

\* So it does when one more operation is executed.
LEMMA GrowsOneMore ==
    ASSUME NEW s \in Server, NEW op \in Operation, executed \in [Server -> Seq(Operation)],
           executed' = [executed EXCEPT ![s] = Append(@, op)]
    PROVE  Has(s, op)' /\ \A p \in Server : Grows(p)
<1>1. /\ \A p \in Server : p # s => executed'[p] = executed[p]
      /\ Len(executed[s]) \in Nat
      /\ DOMAIN executed[s] = 1..Len(executed[s])
      /\ DOMAIN executed'[s] = 1..(Len(executed[s]) + 1)
      /\ \A i \in DOMAIN executed[s] : executed'[s][i] = executed[s][i]
      /\ executed'[s][Len(executed[s]) + 1] = op
  BY ExecutedOneMore
<1>2. Has(s, op)'
  <2>1. Len(executed[s]) + 1 \in DOMAIN executed'[s]
    BY <1>1
  <2> QED
    BY <1>1, <2>1 DEF Has
<1>3. Grows(s)
  <2>1. \A i \in DOMAIN executed[s] : i \in DOMAIN executed'[s]
    BY <1>1
  <2> QED
    BY <1>1, <2>1 DEF Grows
<1>4. \A p \in Server : p # s => Grows(p)
  BY <1>1 DEF Grows
<1> QED
  BY <1>2, <1>3, <1>4

\* An operation that its Clerk works on now, it worked on before.
LEMMA CurrentBefore ==
    ASSUME ClerkInv, Goes, NEW op, Issued(op), Current(op)'
    PROVE  Current(op)
<1>1. op.client \in Client /\ op.req <= clerk[op.client].req /\ op.req \in Nat
      /\ clerk[op.client].req \in Nat
  BY IssuedOK
<1>2. clerk'[op.client].req \in Nat /\ clerk[op.client].req <= clerk'[op.client].req
  BY <1>1 DEF Goes
<1> QED
  BY <1>1, <1>2 DEF Current

\* What is recorded has been executed, after a step that keeps the records;
LEMMA RecordDoneKept ==
    ASSUME Goes, NEW s \in Server, RecordDone(s), Grows(s),
           \A c \in Client :
              LET id == lastRequests'[s][c].id IN
              \/ id = lastRequests[s][c].id \/ id = 0
              \/ OpOf(c, id).kind = "Get" \/ IsFeature(OpOf(c, id))
              \/ Has(s, OpOf(c, id))
    PROVE  RecordDone(s)'
<1> SUFFICES ASSUME NEW c \in Client, NEW id, id = lastRequests'[s][c].id,
                    id # 0, OpOf(c, id)'.kind # "Get", ~IsFeature(OpOf(c, id))'
             PROVE  Has(s, OpOf(c, id))'
  BY DEF RecordDone, OpOf
<1>1. PICK q : q = OpOf(c, id)
  OBVIOUS
<1>2. OpOf(c, id)' = q
  BY <1>1 DEF OpOf, Goes
<1>3. q.kind # "Get" /\ ~IsFeature(q)
  BY <1>2 DEF IsFeature
<1>4. Has(s, q)
  BY <1>1, <1>3 DEF RecordDone
<1>5. Has(s, q)'
  BY <1>4, HasKept
<1> QED
  BY <1>2, <1>5 DEF Has

\* Every operation in a queue is an entry.
LEMMA QueuedIssued ==
    ASSUME EntryInv, QueueInv, NEW s \in Server, NEW i \in 1..MaxLog,
           waitApplyCh[s][i] # Nil, NEW j \in DOMAIN waitApplyCh[s][i]
    PROVE  Issued(waitApplyCh[s][i][j])
<1>1. i <= committed /\ waitApplyCh[s][i][j] = log[i]
  BY DEF QueueInv, Holds
<1>2. committed \in 0..Len(log) /\ Len(log) \in Nat /\ MaxLog \in Nat
  BY KvBounds DEF EntryInv
<1>3. i \in 1..Len(log)
  BY <1>1, <1>2
<1> QED
  BY <1>1, <1>3 DEF EntryInv

\* what is in a queue has been executed;
LEMMA QueueDoneKept ==
    ASSUME ClerkInv, EntryInv, QueueInv, Goes, NEW s \in Server, QueueDone(s), Grows(s),
           \A i \in 1..MaxLog : waitApplyCh'[s][i] # Nil =>
              \A j \in DOMAIN waitApplyCh'[s][i] :
                 /\ waitApplyCh[s][i] # Nil
                 /\ \E k \in DOMAIN waitApplyCh[s][i] :
                       waitApplyCh[s][i][k] = waitApplyCh'[s][i][j]
    PROVE  QueueDone(s)'
<1> SUFFICES ASSUME NEW i \in 1..MaxLog, waitApplyCh'[s][i] # Nil,
                    NEW j \in DOMAIN waitApplyCh'[s][i],
                    NEW q, q = waitApplyCh'[s][i][j], ~IsFeature(q), Current(q)'
             PROVE  Has(s, q)'
  BY DEF QueueDone, IsFeature, Has, Current
<1>1. waitApplyCh[s][i] # Nil
  OBVIOUS
<1>2. PICK k \in DOMAIN waitApplyCh[s][i] : waitApplyCh[s][i][k] = q
  OBVIOUS
<1>3. Issued(q)
  BY <1>1, <1>2, QueuedIssued
<1>4. Current(q)
  BY <1>3, CurrentBefore
<1>5. Has(s, q)
  BY <1>1, <1>2, <1>4 DEF QueueDone
<1> QED
  BY <1>5, HasKept

\* and so has what the thread is about to record or to push.
LEMMA ThreadDoneStill ==
    ASSUME ClerkInv, EntryInv, ThreadInv, Goes, NEW s \in Server, ThreadDone(s), Grows(s),
           applier'[s] = applier[s]
    PROVE  ThreadDone(s)'
<1>1. PICK q : q = applier[s].op
  OBVIOUS
<1>2. applier[s].pc = "wake" => Issued(q)
  BY <1>1, ThreadOp
<1>3. applier[s].pc = "wake" /\ Current(q)' => Current(q)
  BY <1>2, CurrentBefore
<1>4. Has(s, q) => Has(s, q)'
  BY HasKept
<1> QED
  BY <1>1, <1>3, <1>4 DEF ThreadDone, IsFeature, Has, Current

\* A step that leaves the tables of s alone.
LEMMA DoneStill ==
    ASSUME KvInv, Goes, NEW s \in Server, RecordDone(s), ThreadDone(s), QueueDone(s),
           applier'[s] = applier[s], executed'[s] = executed[s],
           lastRequests'[s] = lastRequests[s], waitApplyCh'[s] = waitApplyCh[s]
    PROVE  RecordDone(s)' /\ ThreadDone(s)' /\ QueueDone(s)'
<1>1. Grows(s)
  BY DEF Grows
<1>2. RecordDone(s)'
  BY <1>1, RecordDoneKept
<1>3. ThreadDone(s)'
  BY <1>1, ThreadDoneStill DEF KvInv
<1>4. QueueDone(s)'
  BY <1>1, QueueDoneKept DEF KvInv
<1> QED
  BY <1>2, <1>3, <1>4

\* Steps that keep DoneInv: a handler,
LEMMA DoneHandler ==
    ASSUME KvInv, DoneInv, Away, NEW m \in calls, HandlerStep(m)
    PROVE  DoneInv'
<1>1. Calm /\ NoPush /\ RecordsReads /\ UNCHANGED <<applier, executed>>
  BY HandlerStepOK DEF HandlerKeeps
<1>2. ASSUME NEW s \in Server PROVE RecordDone(s)' /\ ThreadDone(s)' /\ QueueDone(s)'
  <2>1. RecordDone(s) /\ ThreadDone(s) /\ QueueDone(s) /\ Goes /\ Grows(s)
    BY <1>1 DEF DoneInv, Calm, Grows
  <2>2. RecordDone(s)'
    BY <1>1, <2>1, RecordDoneKept DEF RecordsReads
  <2>3. ThreadDone(s)'
    BY <1>1, <2>1, ThreadDoneStill DEF KvInv
  <2>4. QueueDone(s)'
    BY <1>1, <2>1, QueueDoneKept DEF KvInv, NoPush
  <2> QED
    BY <2>2, <2>3, <2>4
<1> QED
  BY <1>2 DEF DoneInv

\* the check of an entry (a duplicate has been executed),
LEMMA DoneCheck ==
    ASSUME KvInv, DoneInv, Away, NEW s \in Server, ApplyCheck(s)
    PROVE  DoneInv' /\ \A p \in Server : Grows(p)
<1>1. PICK n : n = Len(handed'[s])
  OBVIOUS
<1>2. /\ KvInv' /\ Calm /\ n \in 1..committed
      /\ applier'[s].op = log[n]
      /\ applier'[s].pc = IF ifRequestDuplicate(s, log[n]) THEN "wake" ELSE "execute"
      /\ \A p \in Server : p # s => applier'[p] = applier[p]
      /\ UNCHANGED <<clerk, executed, lastRequests, waitApplyCh>>
  BY <1>1, ApplyCheckOK DEF Away
<1>3. Goes /\ \A p \in Server : Grows(p)
  BY <1>2 DEF Calm, Grows
<1>4. PICK q : q = log[n]
  OBVIOUS
<1>5. committed \in 0..Len(log) /\ Len(log) \in Nat
  BY DEF KvInv, EntryInv
<1>6. Issued(q) /\ q.kind # "Get"
  BY <1>2, <1>4, <1>5 DEF KvInv, EntryInv
<1>7. ThreadDone(s)'
  <2> SUFFICES ASSUME ~IsFeature(q), ifRequestDuplicate(s, q), Current(q)
               PROVE  Has(s, q)
    BY <1>2, <1>4 DEF ThreadDone, IsFeature, Current, Has
  <2>1. lastRequests[s][q.client].id = q.req
    BY <1>6, RecordedWrite DEF KvInv
  <2>2. q.req # 0 /\ q.client \in Client
    BY <1>6, IssuedOK DEF KvInv
  <2>3. OpOf(q.client, q.req) = q
    BY <1>6 DEF Issued
  <2>4. RecordDone(s)
    BY DEF DoneInv
  <2> QED
    BY <1>6, <2>1, <2>2, <2>3, <2>4 DEF RecordDone
<1>8. ASSUME NEW p \in Server PROVE RecordDone(p)' /\ ThreadDone(p)' /\ QueueDone(p)'
  <2>1. RecordDone(p) /\ ThreadDone(p) /\ QueueDone(p) /\ Grows(p)
    BY <1>3 DEF DoneInv
  <2>2. RecordDone(p)'
    BY <1>2, <1>3, <2>1, RecordDoneKept
  <2>3. QueueDone(p)'
    BY <1>2, <1>3, <2>1, QueueDoneKept DEF KvInv
  <2>4. ThreadDone(p)'
    BY <1>2, <1>3, <1>7, <2>1, ThreadDoneStill DEF KvInv
  <2> QED
    BY <2>2, <2>3, <2>4
<1> QED
  BY <1>3, <1>8 DEF DoneInv

\* What the two steps that execute do.
LEMMA DoneExecute ==
    ASSUME KvInv, DoneInv, Away, NEW s \in Server, ApplyExecute(s)
    PROVE  DoneInv' /\ \A p \in Server : Grows(p)
<1>1. /\ KvInv' /\ Calm
      /\ applier[s].pc = "execute" /\ applier'[s].pc = "record"
      /\ applier'[s].op = applier[s].op
      /\ \A p \in Server : p # s => applier'[p] = applier[p]
      /\ executed' = IF IsFeature(applier[s].op) THEN executed
                     ELSE [executed EXCEPT ![s] = Append(@, applier[s].op)]
      /\ UNCHANGED <<lastRequests, waitApplyCh>>
  BY ApplyExecuteOK
<1>2. PICK q : q = applier[s].op
  OBVIOUS
<1>3. q \in Operation
  BY <1>1, <1>2, ThreadOp DEF KvInv
<1>4. executed \in [Server -> Seq(Operation)]
  BY DEF KvInv, TableInv
<1>5. (~IsFeature(q) => Has(s, q)') /\ \A p \in Server : Grows(p)
  <2>1. CASE IsFeature(q)
    <3>1. executed' = executed
      BY <1>1, <1>2, <2>1
    <3> QED
      BY <2>1, <3>1 DEF Grows
  <2>2. CASE ~IsFeature(q)
    <3>1. executed' = [executed EXCEPT ![s] = Append(@, q)]
      BY <1>1, <1>2, <2>2
    <3> QED
      BY <1>3, <1>4, <3>1, GrowsOneMore
  <2> QED
    BY <2>1, <2>2
<1>6. ThreadDone(s)'
  BY <1>1, <1>2, <1>5 DEF ThreadDone, IsFeature, Has
<1>7. ASSUME NEW p \in Server PROVE RecordDone(p)' /\ ThreadDone(p)' /\ QueueDone(p)'
  <2>1. RecordDone(p) /\ ThreadDone(p) /\ QueueDone(p) /\ Grows(p) /\ Goes
    BY <1>1, <1>5 DEF DoneInv, Calm
  <2>2. RecordDone(p)'
    BY <1>1, <2>1, RecordDoneKept
  <2>3. QueueDone(p)'
    BY <1>1, <2>1, QueueDoneKept DEF KvInv
  <2>4. ThreadDone(p)'
    BY <1>1, <1>6, <2>1, ThreadDoneStill DEF KvInv
  <2> QED
    BY <2>2, <2>3, <2>4
<1> QED
  BY <1>5, <1>7 DEF DoneInv

\* the record of an executed request,
LEMMA DoneRecord ==
    ASSUME KvInv, DoneInv, Away, NEW s \in Server, ApplyRecord(s)
    PROVE  DoneInv' /\ \A p \in Server : Grows(p)
<1>1. /\ KvInv' /\ Calm
      /\ applier[s].pc = "record"
      /\ applier'[s].pc = IF IsFeature(applier[s].op) THEN "index" ELSE "wake"
      /\ applier'[s].op = applier[s].op
      /\ \A p \in Server : p # s => applier'[p] = applier[p]
      /\ lastRequests'[s][applier[s].op.client].id = applier[s].op.req
      /\ \A p \in Server, c \in Client :
            p # s \/ c # applier[s].op.client =>
               lastRequests'[p][c] = lastRequests[p][c]
      /\ UNCHANGED <<executed, waitApplyCh>>
  BY ApplyRecordOK
<1>2. PICK q : q = applier[s].op
  OBVIOUS
<1>3. Issued(q)
  BY <1>1, <1>2, ThreadOp DEF KvInv
<1>4. ~IsFeature(q) => Has(s, q)
  BY <1>1, <1>2 DEF DoneInv, ThreadDone
<1>5. Goes /\ \A p \in Server : Grows(p)
  BY <1>1 DEF Calm, Grows
<1>6. ~IsFeature(q) => Has(s, q)'
  BY <1>4, <1>5, HasKept
<1>7. ThreadDone(s)'
  BY <1>1, <1>2, <1>6 DEF ThreadDone, IsFeature, Has
<1>8. OpOf(q.client, q.req) = q
  BY <1>3 DEF Issued
<1>9. ASSUME NEW p \in Server PROVE RecordDone(p)' /\ ThreadDone(p)' /\ QueueDone(p)'
  <2>1. RecordDone(p) /\ ThreadDone(p) /\ QueueDone(p) /\ Grows(p) /\ Goes
    BY <1>5 DEF DoneInv
  <2>2. \A c \in Client :
           LET id == lastRequests'[p][c].id IN
           \/ id = lastRequests[p][c].id \/ id = 0
           \/ OpOf(c, id).kind = "Get" \/ IsFeature(OpOf(c, id))
           \/ Has(p, OpOf(c, id))
    <3> TAKE c \in Client
    <3>1. CASE p = s /\ c = q.client
      BY <3>1, <1>1, <1>2, <1>4, <1>8
    <3>2. CASE ~(p = s /\ c = q.client)
      BY <3>2, <1>1, <1>2
    <3> QED
      BY <3>1, <3>2
  <2>3. RecordDone(p)'
    BY <2>1, <2>2, RecordDoneKept
  <2>4. QueueDone(p)'
    BY <1>1, <2>1, QueueDoneKept DEF KvInv
  <2>5. ThreadDone(p)'
    BY <1>1, <1>7, <2>1, ThreadDoneStill DEF KvInv
  <2> QED
    BY <2>3, <2>4, <2>5
<1> QED
  BY <1>5, <1>9 DEF DoneInv

\* the execution of a feature,
LEMMA DoneIndex ==
    ASSUME KvInv, DoneInv, Away, NEW s \in Server, ApplyIndex(s)
    PROVE  DoneInv' /\ \A p \in Server : Grows(p)
<1>1. /\ KvInv' /\ Calm
      /\ applier[s].pc = "index" /\ applier'[s].pc = "wake"
      /\ applier'[s].op = applier[s].op
      /\ \A p \in Server : p # s => applier'[p] = applier[p]
      /\ executed' = [executed EXCEPT ![s] = Append(@, applier[s].op)]
      /\ UNCHANGED <<lastRequests, waitApplyCh>>
  BY ApplyIndexOK
<1>2. PICK q : q = applier[s].op
  OBVIOUS
<1>3. q \in Operation /\ IsFeature(q)
  BY <1>1, <1>2, ThreadOp DEF KvInv, ThreadInv
<1>4. executed \in [Server -> Seq(Operation)]
  BY DEF KvInv, TableInv
<1>5. \A p \in Server : Grows(p)
  <2>1. executed' = [executed EXCEPT ![s] = Append(@, q)]
    BY <1>1, <1>2
  <2> QED
    BY <1>3, <1>4, <2>1, GrowsOneMore
<1>6. ThreadDone(s)'
  BY <1>1, <1>2, <1>3 DEF ThreadDone, IsFeature
<1>7. ASSUME NEW p \in Server PROVE RecordDone(p)' /\ ThreadDone(p)' /\ QueueDone(p)'
  <2>1. RecordDone(p) /\ ThreadDone(p) /\ QueueDone(p) /\ Grows(p) /\ Goes
    BY <1>1, <1>5 DEF DoneInv, Calm
  <2>2. RecordDone(p)'
    BY <1>1, <2>1, RecordDoneKept
  <2>3. QueueDone(p)'
    BY <1>1, <2>1, QueueDoneKept DEF KvInv
  <2>4. ThreadDone(p)'
    BY <1>1, <1>6, <2>1, ThreadDoneStill DEF KvInv
  <2> QED
    BY <2>2, <2>3, <2>4
<1> QED
  BY <1>5, <1>7 DEF DoneInv

\* the push of an executed operation,
LEMMA DoneWake ==
    ASSUME KvInv, DoneInv, Away, NEW s \in Server, ApplyWake(s)
    PROVE  DoneInv' /\ \A p \in Server : Grows(p)
<1>1. /\ KvInv' /\ Calm
      /\ applier[s].pc = "wake" /\ applier'[s].pc = "idle"
      /\ \A p \in Server : p # s => applier'[p] = applier[p]
      /\ \A p \in Server, i \in 1..MaxLog :
            \/ waitApplyCh'[p][i] = waitApplyCh[p][i]
            \/ /\ p = s /\ waitApplyCh[p][i] # Nil
               /\ waitApplyCh[p][i] \in Seq(Operation)
               /\ waitApplyCh'[p][i] = Append(waitApplyCh[p][i], applier[s].op)
      /\ UNCHANGED <<lastRequests, executed>>
  BY ApplyWakeOK
<1>2. clerk' = clerk
  BY DEF Away
<1>3. Goes /\ \A p \in Server : Grows(p)
  BY <1>1 DEF Calm, Grows
<1>4. PICK op : op = applier[s].op
  OBVIOUS
<1>5. op \in Operation /\ (~IsFeature(op) /\ Current(op) => Has(s, op))
  BY <1>1, <1>4, ThreadOp DEF KvInv, DoneInv, ThreadDone
<1>6. ThreadDone(s)'
  BY <1>1 DEF ThreadDone
<1>7. ASSUME NEW p \in Server PROVE QueueDone(p)'
  <2> SUFFICES ASSUME NEW i \in 1..MaxLog, waitApplyCh'[p][i] # Nil,
                      NEW j \in DOMAIN waitApplyCh'[p][i],
                      NEW q, q = waitApplyCh'[p][i][j], ~IsFeature(q), Current(q)
               PROVE  Has(p, q)
    BY <1>1, <1>2 DEF QueueDone, IsFeature, Has, Current
  <2>1. QueueDone(p)
    BY DEF DoneInv
  <2>2. CASE waitApplyCh'[p][i] = waitApplyCh[p][i]
    BY <2>1, <2>2 DEF QueueDone
  <2>3. CASE /\ p = s /\ waitApplyCh[p][i] # Nil
             /\ waitApplyCh[p][i] \in Seq(Operation)
             /\ waitApplyCh'[p][i] = Append(waitApplyCh[p][i], op)
    <3>1. PICK w \in Seq(Operation) : w = waitApplyCh[p][i]
      BY <2>3
    <3>2. waitApplyCh'[p][i] = Append(w, op)
      BY <2>3, <3>1
    <3>3. q = op \/ (j \in DOMAIN w /\ q = w[j])
      BY <1>5, <3>2
    <3> QED
      BY <1>5, <2>1, <2>3, <3>1, <3>3 DEF QueueDone
  <2> QED
    BY <1>1, <1>4, <2>2, <2>3
<1>8. ASSUME NEW p \in Server PROVE RecordDone(p)' /\ ThreadDone(p)'
  <2>1. RecordDone(p) /\ ThreadDone(p) /\ Grows(p)
    BY <1>3 DEF DoneInv
  <2>2. RecordDone(p)'
    BY <1>1, <1>3, <2>1, RecordDoneKept
  <2>3. ThreadDone(p)'
    BY <1>1, <1>3, <1>6, <2>1, ThreadDoneStill DEF KvInv
  <2> QED
    BY <2>2, <2>3
<1> QED
  BY <1>3, <1>7, <1>8 DEF DoneInv

\* and a restart, after which nothing is recorded.
LEMMA DoneRestart ==
    ASSUME KvInv, DoneInv, NEW s \in Server, Restart(s)
    PROVE  DoneInv'
<1>1. /\ Goes /\ applier'[s].pc = "idle"
      /\ \A c \in Client : lastRequests'[s][c].id = 0
      /\ \A i \in 1..MaxLog : waitApplyCh'[s][i] = Nil
      /\ \A p \in Server : p # s =>
            /\ applier'[p] = applier[p] /\ executed'[p] = executed[p]
            /\ lastRequests'[p] = lastRequests[p]
            /\ waitApplyCh'[p] = waitApplyCh[p]
  BY RestartOK
<1>2. RecordDone(s)' /\ ThreadDone(s)' /\ QueueDone(s)'
  BY <1>1 DEF RecordDone, ThreadDone, QueueDone
<1>3. ASSUME NEW p \in Server, p # s PROVE RecordDone(p)' /\ ThreadDone(p)' /\ QueueDone(p)'
  BY <1>1, <1>3, DoneStill DEF DoneInv
<1> QED
  BY <1>2, <1>3 DEF DoneInv

\* The steps that touch no table.
LEMMA DoneElsewhere ==
    ASSUME KvInv, DoneInv, Goes, UNCHANGED <<applier, executed, lastRequests, waitApplyCh>>
    PROVE  DoneInv'
BY DoneStill DEF DoneInv

Handling(m) == m.pc \in {"register", "wait"}

\* The same Leader, and no call that waits for it or answers for it anew.
LEMMA FirstKept ==
    ASSUME FirstInv, UNCHANGED <<elections, leader, acked>>, leader = Nil => log' = log,
           \A p \in Server : Grows(p), leader \in Server \cup {Nil},
           \A n \in calls' :
              /\ Handling(n) => \E m \in calls : Handling(m) /\ m.server = n.server
              /\ Confirms(n) => \E m \in calls : Confirms(m) /\ m.op = n.op
    PROVE  FirstInv'
<1>1. elections' = 0 => /\ leader' = Nil /\ log' = <<>>
                        /\ \A n \in calls' : n.pc \notin {"register", "wait"}
  BY DEF FirstInv, Handling
<1>2. ASSUME elections <= 1, leader # Nil, NEW n \in calls'
      PROVE  /\ n.pc \in {"register", "wait"} => n.server = leader
             /\ Confirms(n) /\ ~IsFeature(n.op) => Has(leader, n.op)
  BY <1>2 DEF FirstInv, Handling
<1>3. ASSUME leader # Nil, NEW op, Has(leader, op)
      PROVE  Has(leader, op)'
  BY <1>3 DEF Has, Grows
<1>4. ASSUME elections <= 1, leader # Nil, NEW n \in calls', Confirms(n), ~IsFeature(n.op)
      PROVE  Has(leader, n.op)'
  <2>1. PICK op : op = n.op
    OBVIOUS
  <2>2. Has(leader, op)
    BY <1>2, <1>4, <2>1
  <2>3. Has(leader, op)'
    BY <1>3, <1>4, <2>2
  <2> QED
    BY <2>1, <2>3
<1>5. LeaderHasAcked'
  <2> SUFFICES ASSUME leader # Nil, elections <= 1, NEW op \in acked, ~IsFeature(op)
               PROVE  Has(leader, op)'
    BY DEF LeaderHasAcked, IsFeature, Has
  <2>1. Has(leader, op)
    BY DEF FirstInv, LeaderHasAcked, Has
  <2> QED
    BY <1>3, <2>1
<1> QED
  BY <1>1, <1>2, <1>4, <1>5 DEF FirstInv, Confirms, IsFeature

\* The Leader has executed what it answers for.
LEMMA WitnessedDone ==
    ASSUME KvInv, DoneInv, NEW m \in calls, m.waiting, Witnessed(m), ~IsFeature(m.op)
    PROVE  Has(m.server, m.op)
<1>1. Sound(m)
  BY DEF KvInv, CallInv
<1>2. /\ m.server \in Server /\ m.op.client \in Client /\ m.index \in 1..MaxLog
      /\ m.op.kind # "Get" /\ Issued(m.op) /\ Current(m.op)
  BY <1>1, CallOK DEF Sound, Witnessed
<1>3. CASE /\ waitApplyCh[m.server][m.index] # Nil
           /\ \E j \in DOMAIN waitApplyCh[m.server][m.index] :
                 waitApplyCh[m.server][m.index][j] = m.op
  BY <1>2, <1>3 DEF DoneInv, QueueDone
<1>4. CASE lastRequests[m.server][m.op.client].id = m.op.req
  <2>1. m.op.req # 0
    BY <1>2, IssuedOK DEF KvInv
  <2>2. OpOf(m.op.client, m.op.req) = m.op
    BY <1>2 DEF Issued
  <2> QED
    BY <1>2, <1>4, <2>1, <2>2 DEF DoneInv, RecordDone
<1> QED
  BY <1>3, <1>4 DEF Witnessed

\* A handler of the only Leader confirms what that server has executed.
LEMMA FirstHandler ==
    ASSUME KvInv, DoneInv, FirstInv, Away, NEW m \in calls, HandlerStep(m)
    PROVE  FirstInv'
<1>1. /\ UNCHANGED <<leader, executed, acked, elections>> /\ (leader = Nil => log' = log)
      /\ \E n : Takes(m, n)
  BY HandlerStepOK DEF HandlerKeeps, Away
<1>2. PICK n : Takes(m, n)
  BY <1>1
<1>3. \A k \in calls' : k \in calls \/ k = n
  BY <1>2 DEF Takes
<1>4. elections' = 0 => /\ leader' = Nil /\ log' = <<>>
                        /\ \A k \in calls' : k.pc \notin {"register", "wait"}
  BY <1>1, <1>2, <1>3 DEF FirstInv, Takes
<1>5. ASSUME elections <= 1, leader # Nil, NEW k \in calls'
      PROVE  /\ k.pc \in {"register", "wait"} => k.server = leader
             /\ Confirms(k) /\ ~IsFeature(k.op) => Has(leader, k.op)
  <2>1. CASE k \in calls
    BY <1>5, <2>1 DEF FirstInv
  <2>2. CASE k = n
    <3>1. n.pc \in {"register", "wait"} => n.server = leader
      BY <1>2, <1>5 DEF FirstInv, Takes
    <3>2. ASSUME Confirms(n), ~IsFeature(n.op) PROVE Has(leader, n.op)
      <4>1. m.waiting /\ Witnessed(m) /\ ~IsFeature(m.op) /\ n.op = m.op
        BY <1>2, <3>2 DEF Takes, Confirms
      <4>2. m.server = leader
        BY <1>5, <4>1 DEF FirstInv, Witnessed
      <4> QED
        BY <4>1, <4>2, WitnessedDone
    <3> QED
      BY <2>2, <3>1, <3>2
  <2> QED
    BY <1>3, <2>1, <2>2
<1>6. LeaderHasAcked'
  BY <1>1 DEF FirstInv, LeaderHasAcked, IsFeature
<1> QED
  BY <1>1, <1>4, <1>5, <1>6 DEF FirstInv, Confirms, IsFeature, Has

\* The first election finds nothing done.
LEMMA FirstElect ==
    ASSUME KvInv, FirstInv, NEW s \in Server, Elect(s)
    PROVE  FirstInv'
<1>1. /\ elections' = elections + 1 /\ UNCHANGED <<calls, acked>> /\ elections \in Nat
  BY DEF Elect, KvInv, ClerkInv
<1>2. ASSUME elections' <= 1
      PROVE  acked = {} /\ \A m \in calls : ~Handling(m) /\ ~Confirms(m)
  <2>1. elections = 0
    BY <1>1, <1>2
  <2>2. log = <<>> /\ \A m \in calls : ~Handling(m)
    BY <2>1 DEF FirstInv, Handling
  <2>3. committed = 0
    BY <2>2 DEF KvInv, EntryInv
  <2>4. \A op : ~Settled(op)
    BY <2>3 DEF Settled
  <2> QED
    BY <2>2, <2>4 DEF KvInv, CallInv, Sound
<1>3. elections' # 0
  BY <1>1
<1>4. LeaderHasAcked'
  BY <1>1, <1>2 DEF LeaderHasAcked
<1>5. (elections <= 1 /\ leader # Nil =>
          \A m \in calls :
              /\ m.pc \in {"register", "wait"} => m.server = leader
              /\ Confirms(m) /\ ~IsFeature(m.op) => Has(leader, m.op))'
  BY <1>1, <1>2 DEF Confirms, Handling
<1> QED
  BY <1>3, <1>4, <1>5 DEF FirstInv

\* When the first Leader restarts, no server leads.
LEMMA FirstRestart ==
    ASSUME KvInv, FirstInv, NEW s \in Server, Restart(s)
    PROVE  FirstInv'
<1>1. /\ leader' = IF leader = s THEN Nil ELSE leader
      /\ calls' \subseteq calls /\ UNCHANGED <<log, acked, elections>>
      /\ \A p \in Server : p # s => executed'[p] = executed[p]
      /\ leader \in Server \cup {Nil}
  BY RestartOK DEF Away, KvInv, EntryInv
<1>2. elections' = 0 => /\ leader' = Nil /\ log' = <<>>
                        /\ \A n \in calls' : n.pc \notin {"register", "wait"}
  BY <1>1 DEF FirstInv
<1>3. leader' # Nil => leader' = leader /\ leader # Nil /\ executed'[leader] = executed[leader]
  BY <1>1
<1>4. LeaderHasAcked'
  BY <1>1, <1>3 DEF FirstInv, LeaderHasAcked, IsFeature
<1>5. (elections <= 1 /\ leader # Nil =>
          \A m \in calls :
              /\ m.pc \in {"register", "wait"} => m.server = leader
              /\ Confirms(m) /\ ~IsFeature(m.op) => Has(leader, m.op))'
  BY <1>1, <1>3 DEF FirstInv, Confirms, IsFeature, Has
<1> QED
  BY <1>2, <1>4, <1>5 DEF FirstInv

\* A Clerk takes an answer.
LEMMA FirstReply ==
    ASSUME KvInv, FirstInv, NEW c \in Client, ReceiveReply(c)
    PROVE  FirstInv'
<1>1. /\ ClerkGoes(c, clerk[c].req) /\ calls' \subseteq calls
      /\ \E m \in calls : /\ Confirms(m) => acked' = acked \cup {m.op}
                          /\ ~Confirms(m) => acked' = acked
  BY ReceiveReplyOK
<1>2. PICK m \in calls : /\ Confirms(m) => acked' = acked \cup {m.op}
                         /\ ~Confirms(m) => acked' = acked
  BY <1>1
<1>3. UNCHANGED <<log, leader, executed, elections>>
  BY <1>1 DEF ClerkGoes, logVars, serverVars
<1>4. LeaderHasAcked'
  BY <1>2, <1>3 DEF FirstInv, LeaderHasAcked, IsFeature, Has
<1> QED
  BY <1>1, <1>3, <1>4 DEF FirstInv, Confirms, IsFeature, Has

\* A Clerk sends a call or gives one up.
LEMMA FirstClerk ==
    ASSUME KvInv, FirstInv, NEW c \in Client, NEW r, ClerkGoes(c, r), acked' = acked,
           \A n \in calls' :
              \/ \E m \in calls : n.op = m.op /\ n.pc = m.pc /\ n.server = m.server
                                  /\ (n = m \/ ~n.waiting)
              \/ n.pc = "arrived"
    PROVE  FirstInv'
<1>1. UNCHANGED <<log, leader, executed, elections>>
  BY DEF ClerkGoes, logVars, serverVars
<1>2. \A p \in Server : Grows(p)
  BY <1>1 DEF Grows
<1>3. \A n \in calls' :
         /\ Handling(n) => \E m \in calls : Handling(m) /\ m.server = n.server
         /\ Confirms(n) => \E m \in calls : Confirms(m) /\ m.op = n.op
  BY DEF Handling, Confirms
<1>4. leader \in Server \cup {Nil}
  BY DEF KvInv, EntryInv
<1> QED
  BY <1>1, <1>2, <1>3, <1>4, FirstKept

\* Raft or the thread of a server goes on, and no call changes.
LEMMA FirstStill ==
    ASSUME KvInv, FirstInv, UNCHANGED <<calls, log, leader, elections, acked>>,
           \A p \in Server : Grows(p)
    PROVE  FirstInv'
<1>1. \A n \in calls' :
         /\ Handling(n) => \E m \in calls : Handling(m) /\ m.server = n.server
         /\ Confirms(n) => \E m \in calls : Confirms(m) /\ m.op = n.op
  OBVIOUS
<1>2. leader \in Server \cup {Nil}
  BY DEF KvInv, EntryInv
<1> QED
  BY <1>1, <1>2, FirstKept

\* Every step keeps DoneInv and FirstInv.
LEMMA LeaderStep ==
    ASSUME KvInv, DoneInv, FirstInv, KvNext
    PROVE  DoneInv' /\ FirstInv'
<1>1. ASSUME NEW c \in Client, ReceiveReply(c) PROVE DoneInv' /\ FirstInv'
  <2>1. ClerkGoes(c, clerk[c].req) /\ clerk[c].req \in Nat
    BY <1>1, ReceiveReplyOK DEF KvInv, ClerkInv
  <2>2. Goes /\ UNCHANGED <<applier, executed, lastRequests, waitApplyCh>>
    BY <2>1, ClerkGoesOK
  <2> QED
    BY <1>1, <2>2, DoneElsewhere, FirstReply
<1>2. ASSUME NEW c \in Client, RpcFail(c) PROVE DoneInv' /\ FirstInv'
  <2>1. /\ ClerkGoes(c, clerk[c].req) /\ clerk[c].req \in Nat /\ acked' = acked
        /\ \A n \in calls' : \E m \in calls :
              n.op = m.op /\ n.pc = m.pc /\ n.server = m.server /\ (n = m \/ ~n.waiting)
    BY <1>2, RpcFailOK DEF KvInv, ClerkInv
  <2>2. Goes /\ UNCHANGED <<applier, executed, lastRequests, waitApplyCh>>
    BY <2>1, ClerkGoesOK
  <2> QED
    BY <2>1, <2>2, DoneElsewhere, FirstClerk
<1>3. ASSUME NEW c \in Client, NEW s \in Server, NewRequest(c, s)
      PROVE  DoneInv' /\ FirstInv'
  <2>1. PICK r \in Nat : r = clerk[c].req + 1
    BY DEF KvInv, ClerkInv
  <2>2. /\ ClerkGoes(c, r) /\ acked' = acked
        /\ \A m \in calls' : m \in calls \/ (m.pc = "arrived" /\ m.err = Nil)
    BY <1>3, <2>1, NewRequestOK
  <2>3. Goes /\ UNCHANGED <<applier, executed, lastRequests, waitApplyCh>>
    BY <2>2, ClerkGoesOK
  <2> QED
    BY <2>2, <2>3, DoneElsewhere, FirstClerk
<1>4. ASSUME NEW c \in Client, NEW s \in Server, Retry(c, s)
      PROVE  DoneInv' /\ FirstInv'
  <2>1. /\ ClerkGoes(c, clerk[c].req) /\ clerk[c].req \in Nat /\ acked' = acked
        /\ \A m \in calls' : m \in calls \/ (m.pc = "arrived" /\ m.err = Nil)
    BY <1>4, RetryOK DEF KvInv, ClerkInv
  <2>2. Goes /\ UNCHANGED <<applier, executed, lastRequests, waitApplyCh>>
    BY <2>1, ClerkGoesOK
  <2> QED
    BY <2>1, <2>2, DoneElsewhere, FirstClerk
<1>5. ASSUME Away, NEW m \in calls, HandlerStep(m) PROVE DoneInv' /\ FirstInv'
  BY <1>5, DoneHandler, FirstHandler
<1>6. ASSUME Away, NEW s \in Server, ApplyCheck(s) \/ ApplyExecute(s) \/ ApplyRecord(s)
                                     \/ ApplyIndex(s) \/ ApplyWake(s)
      PROVE  DoneInv' /\ FirstInv'
  <2>1. DoneInv' /\ \A p \in Server : Grows(p)
    BY <1>6, DoneCheck, DoneExecute, DoneRecord, DoneIndex, DoneWake
  <2>2. UNCHANGED <<calls, log, leader, elections, acked>>
    BY <1>6, ApplyCheckOK, ApplyExecuteOK, ApplyRecordOK, ApplyIndexOK, ApplyWakeOK DEF Away
  <2> QED
    BY <2>1, <2>2, FirstStill
<1>7. ASSUME Commit PROVE DoneInv' /\ FirstInv'
  <2>1. /\ UNCHANGED <<calls, log, leader, elections, acked>>
        /\ UNCHANGED <<applier, executed, lastRequests, waitApplyCh>>
    BY <1>7 DEF Commit, LogCommit, serverVars, tableVars
  <2>2. Goes /\ \A p \in Server : Grows(p)
    BY <1>7, <2>1, CommitOK DEF Calm, Grows
  <2> QED
    BY <2>1, <2>2, DoneElsewhere, FirstStill
<1>8. ASSUME NEW s \in Server, Elect(s) PROVE DoneInv' /\ FirstInv'
  <2>1. UNCHANGED <<applier, executed, lastRequests, waitApplyCh>>
    BY <1>8 DEF Elect, serverVars, tableVars
  <2>2. Goes
    BY <1>8, ElectOK DEF Calm
  <2> QED
    BY <1>8, <2>1, <2>2, DoneElsewhere, FirstElect
<1>9. ASSUME NEW s \in Server, Restart(s) PROVE DoneInv' /\ FirstInv'
  BY <1>9, DoneRestart, FirstRestart
<1> QED
  BY <1>1, <1>2, <1>3, <1>4, <1>5, <1>6, <1>7, <1>8, <1>9, KvSteps

\* They hold at the start,
LEMMA LeaderStarts ==
    ASSUME KvInit
    PROVE  DoneInv /\ FirstInv
<1>1. /\ log = <<>> /\ leader = Nil /\ calls = {} /\ acked = {} /\ elections = 0
      /\ lastRequests = [s \in Server |-> [c \in Client |-> NoRecord]]
      /\ waitApplyCh = [s \in Server |-> [i \in 1..MaxLog |-> Nil]]
      /\ applier = [s \in Server |-> NoRequest]
  BY DEF KvInit, ServerInit, LogInit
<1>2. ASSUME NEW s \in Server PROVE RecordDone(s) /\ ThreadDone(s) /\ QueueDone(s)
  <2>1. RecordDone(s)
    BY <1>1 DEF RecordDone, NoRecord
  <2>2. ThreadDone(s)
    BY <1>1 DEF ThreadDone, NoRequest
  <2>3. QueueDone(s)
    BY <1>1 DEF QueueDone
  <2> QED
    BY <2>1, <2>2, <2>3
<1>3. FirstInv
  BY <1>1 DEF FirstInv, LeaderHasAcked
<1> QED
  BY <1>2, <1>3 DEF DoneInv

\* and after a stuttering step.
LEMMA LeaderStutters ==
    ASSUME KvInv, DoneInv, FirstInv, UNCHANGED kvVars
    PROVE  DoneInv' /\ FirstInv'
<1>1. UNCHANGED <<log, committed, leader, handed, kvdb, index, lastRequests, waitApplyCh,
                  applier, executed, calls, scenario, clerk, acked, elections>>
  BY KvStutters
<1>2. Goes /\ \A p \in Server : Grows(p)
  BY <1>1, GoesStill DEF KvInv, Grows
<1> QED
  BY <1>1, <1>2, DoneElsewhere, FirstStill

\* While one Leader reigns it has executed every Put and Append that a Clerk
\* returned from with OK (LeaderHasAcked): its handlers answer OK only once the
\* queue or the records show the operation done, and no other server answers.
THEOREM LeaderAlwaysHasAcked == KvSpec => []LeaderHasAcked
<1>1. KvInit => DoneInv /\ FirstInv
  BY LeaderStarts
<1>2. KvInv /\ (DoneInv /\ FirstInv) /\ [KvNext]_kvVars => (DoneInv /\ FirstInv)'
  BY LeaderStep, LeaderStutters
<1>3. FirstInv => LeaderHasAcked
  BY DEF FirstInv
<1> QED
  BY <1>1, <1>2, <1>3, KvInvariance, PTL DEF KvSpec

-----------------------------------------------------------------------------
(* Clients that only write *)

\* A client that has written does not read.
LEMMA WriterWrites ==
    ASSUME ClerkInv, ReadersOnlyRead, NEW op, Issued(op), op.kind # "Get",
           NEW r \in 1..clerk[op.client].req
    PROVE  OpOf(op.client, r).kind # "Get"
<1>1. /\ op.client \in Client /\ op.req \in 1..clerk[op.client].req
      /\ op = OpOf(op.client, op.req)
  BY DEF Issued
<1>2. /\ op.req \in DOMAIN scenario.program[op.client]
      /\ op.kind = scenario.program[op.client][op.req].kind
  BY <1>1, OpOfOK
<1>3. /\ r \in DOMAIN scenario.program[op.client]
      /\ OpOf(op.client, r).kind = scenario.program[op.client][r].kind
  BY <1>1, OpOfOK
<1> QED
  BY <1>1, <1>2, <1>3 DEF ReadersOnlyRead

\* The record of a client that writes is not that of a read.
LEMMA ReadsElsewhere ==
    ASSUME KvInv, ReadersOnlyRead, RecordsReads, NEW s \in Server,
           NEW e, Issued(e), e.kind # "Get"
    PROVE  lastRequests'[s][e.client].id = lastRequests[s][e.client].id
<1>1. e.client \in Client
  BY DEF Issued
<1>2. \/ lastRequests'[s][e.client] = lastRequests[s][e.client]
      \/ OpOf(e.client, lastRequests'[s][e.client].id).kind = "Get"
         /\ lastRequests'[s][e.client].id \in 1..clerk[e.client].req
  BY <1>1 DEF RecordsReads
<1>3. ClerkInv
  BY DEF KvInv
<1> QED
  BY <1>2, <1>3, WriterWrites

\* What was executed in order stays behind what is recorded.
LEMMA PastKept ==
    ASSUME ClerkInv, Goes, NEW s \in Server, NEW e, PastAt(s, e), applier'[s] = applier[s],
           lastRequests'[s][e.client].id = lastRequests[s][e.client].id
    PROVE  PastAt(s, e)'
<1>1. Issued(e)'
  BY IssuedKept DEF PastAt
<1> QED
  BY <1>1 DEF PastAt, IsFeature

\* Nothing that concerns a client that writes.
LEMMA OrderStill ==
    ASSUME KvInv, Goes, NEW s \in Server, OrderAt(s),
           applier'[s] = applier[s], executed'[s] = executed[s],
           \A e : Issued(e) /\ e.kind # "Get" =>
              lastRequests'[s][e.client].id = lastRequests[s][e.client].id
    PROVE  OrderAt(s)'
<1> USE DEF KvInv
<1>1. ASSUME NEW i \in DOMAIN executed[s]
      PROVE  PastAt(s, executed[s][i])'
  <2>1. PICK e : e = executed[s][i]
    OBVIOUS
  <2>2. PastAt(s, e)
    BY <2>1 DEF OrderAt
  <2>3. lastRequests'[s][e.client].id = lastRequests[s][e.client].id
    BY <2>2 DEF PastAt
  <2>4. PastAt(s, e)'
    BY <2>2, <2>3, PastKept
  <2> QED
    BY <2>1, <2>4 DEF PastAt, IsFeature, Issued
<1>2. NextAt(s)'
  <2>1. PICK q : q = applier[s].op
    OBVIOUS
  <2>2. applier[s].pc # "idle" => Issued(q) /\ q.kind # "Get"
    BY <2>1, ThreadOp
  <2>3. applier[s].pc # "idle" =>
           lastRequests'[s][q.client].id = lastRequests[s][q.client].id
    BY <2>2
  <2>4. NextAt(s)
    BY DEF OrderAt
  <2> QED
    BY <2>1, <2>3, <2>4 DEF NextAt
<1>3. InOrder(s)'
  BY DEF OrderAt, InOrder
<1> QED
  BY <1>1, <1>2, <1>3 DEF OrderAt

\* Nothing of the client is executed after what is executed now.
LEMMA OrderOneMore ==
    ASSUME NEW s \in Server, NEW op \in Operation, executed \in [Server -> Seq(Operation)],
           executed' = [executed EXCEPT ![s] = Append(@, op)], InOrder(s),
           \A i \in DOMAIN executed[s] :
              executed[s][i].client = op.client => executed[s][i].req < op.req
    PROVE  /\ InOrder(s)'
           /\ \A i \in DOMAIN executed'[s] :
                 executed'[s][i] = op \/ (i \in DOMAIN executed[s]
                                          /\ executed'[s][i] = executed[s][i])
<1>1. PICK n \in Nat : n = Len(executed[s])
  <2>1. executed[s] \in Seq(Operation)
    OBVIOUS
  <2> QED
    BY <2>1
<1>2. /\ DOMAIN executed[s] = 1..n
      /\ DOMAIN executed'[s] = 1..(n + 1)
      /\ \A i \in 1..n : executed'[s][i] = executed[s][i]
      /\ executed'[s][n + 1] = op
  BY <1>1, ExecutedOneMore
<1>3. ASSUME NEW i \in 1..(n + 1), NEW j \in 1..(n + 1), i < j,
             executed'[s][i].client = executed'[s][j].client
      PROVE  executed'[s][i].req < executed'[s][j].req
  <2>1. i \in 1..n /\ executed'[s][i] = executed[s][i]
    BY <1>2, <1>3
  <2>2. CASE j = n + 1
    BY <1>2, <1>3, <2>1, <2>2
  <2>3. CASE j # n + 1
    <3>1. j \in 1..n /\ executed'[s][j] = executed[s][j]
      BY <1>2, <2>3
    <3> QED
      BY <1>2, <1>3, <2>1, <3>1 DEF InOrder
  <2> QED
    BY <2>2, <2>3
<1>4. InOrder(s)'
  BY <1>2, <1>3 DEF InOrder
<1>5. \A i \in DOMAIN executed'[s] :
         executed'[s][i] = op \/ (i \in DOMAIN executed[s]
                                  /\ executed'[s][i] = executed[s][i])
  BY <1>2
<1> QED
  BY <1>4, <1>5

\* Steps that keep OrderAt: an entry that is not a duplicate is beyond all executed,
LEMMA OrderCheck ==
    ASSUME KvInv, Away, NEW s \in Server, ApplyCheck(s), \A p \in Server : OrderAt(p)
    PROVE  \A p \in Server : OrderAt(p)'
<1> USE DEF KvInv
<1>1. PICK n : n = Len(handed'[s])
  OBVIOUS
<1>2. /\ Calm /\ n \in 1..committed /\ applier[s].pc = "idle"
      /\ applier'[s].op = log[n]
      /\ applier'[s].pc = IF ifRequestDuplicate(s, log[n]) THEN "wake" ELSE "execute"
      /\ \A p \in Server : p # s => applier'[p] = applier[p]
      /\ UNCHANGED <<executed, lastRequests>>
  BY <1>1, ApplyCheckOK
<1>3. Goes
  BY <1>2 DEF Calm
<1>4. PICK q : q = log[n]
  OBVIOUS
<1>5. committed \in 0..Len(log) /\ Len(log) \in Nat
  BY DEF EntryInv
<1>6. Issued(q)
  BY <1>2, <1>4, <1>5 DEF EntryInv
<1>7. q.client \in Client /\ q.req \in Nat
  BY <1>6, IssuedOK
<1>8. lastRequests[s][q.client].id \in Nat
  BY <1>7 DEF RecordInv
<1>9. ASSUME NEW i \in DOMAIN executed[s]
      PROVE  PastAt(s, executed[s][i])'
  <2>1. PICK e : e = executed[s][i]
    OBVIOUS
  <2>2. PastAt(s, e)
    BY <2>1 DEF OrderAt
  <2>3. Issued(e) /\ e.kind # "Get" /\ e.req <= lastRequests[s][e.client].id
    BY <1>2, <2>2 DEF PastAt
  <2>4. Issued(e)'
    BY <1>3, <2>3, IssuedKept
  <2>5. e.req \in Nat
    BY <2>3, IssuedOK
  <2>6. applier'[s].pc = "execute" /\ e.client = q.client => e.req < q.req
    BY <1>2, <1>4, <1>7, <1>8, <2>3, <2>5 DEF ifRequestDuplicate
  <2>7. PastAt(s, e)'
    BY <1>2, <1>4, <2>3, <2>4, <2>6 DEF PastAt
  <2> QED
    BY <1>2, <2>1, <2>7 DEF PastAt, IsFeature, Issued
<1>10. NextAt(s)'
  BY <1>2, <1>4, <1>7, <1>8 DEF NextAt, ifRequestDuplicate
<1>11. InOrder(s)'
  BY <1>2 DEF OrderAt, InOrder
<1>12. OrderAt(s)'
  BY <1>2, <1>9, <1>10, <1>11 DEF OrderAt
<1>13. ASSUME NEW p \in Server, p # s PROVE OrderAt(p)'
  BY <1>2, <1>3, <1>13, OrderStill
<1> QED
  BY <1>12, <1>13

\* so its execution keeps the order,
LEMMA OrderExecute ==
    ASSUME KvInv, Away, NEW s \in Server, ApplyExecute(s), \A p \in Server : OrderAt(p)
    PROVE  \A p \in Server : OrderAt(p)'
<1> USE DEF KvInv
<1>1. PICK q : q = applier[s].op
  OBVIOUS
<1>2. /\ Calm /\ applier[s].pc = "execute" /\ applier'[s].pc = "record"
      /\ applier'[s].op = q
      /\ \A p \in Server : p # s => applier'[p] = applier[p]
      /\ executed' = IF IsFeature(q) THEN executed
                     ELSE [executed EXCEPT ![s] = Append(@, q)]
      /\ UNCHANGED <<lastRequests>>
  BY <1>1, ApplyExecuteOK
<1>3. Goes
  BY <1>2 DEF Calm
<1>4. Issued(q) /\ q.kind # "Get" /\ q \in Operation
  BY <1>1, <1>2, ThreadOp
<1>5. executed \in [Server -> Seq(Operation)]
  BY DEF TableInv
<1>6. OrderAt(s)
  OBVIOUS
<1>7. ASSUME NEW i \in DOMAIN executed[s]
      PROVE  /\ PastAt(s, executed[s][i])
             /\ executed[s][i].client = q.client => executed[s][i].req < q.req
  BY <1>1, <1>2, <1>6 DEF OrderAt, PastAt
<1>8. ASSUME NEW e, PastAt(s, e) PROVE PastAt(s, e)'
  <2>1. Issued(e)'
    BY <1>3, <1>8, IssuedKept DEF PastAt
  <2> QED
    BY <1>2, <1>8, <2>1 DEF PastAt
<1>9. NextAt(s)'
  BY <1>1, <1>2, <1>6 DEF OrderAt, NextAt
<1>10. ASSUME ~IsFeature(q) PROVE PastAt(s, q)'
  <2>1. Issued(q)'
    BY <1>3, <1>4, IssuedKept
  <2> QED
    BY <1>2, <1>4, <1>10, <2>1 DEF PastAt, IsFeature
<1>11. InOrder(s)' /\ \A i \in DOMAIN executed'[s] :
          \/ ~IsFeature(q) /\ executed'[s][i] = q
          \/ i \in DOMAIN executed[s] /\ executed'[s][i] = executed[s][i]
  <2>1. InOrder(s)
    BY <1>6 DEF OrderAt
  <2>2. CASE IsFeature(q)
    <3>1. executed' = executed
      BY <1>2, <2>2
    <3> QED
      BY <2>1, <3>1 DEF InOrder
  <2>3. CASE ~IsFeature(q)
    <3>1. executed' = [executed EXCEPT ![s] = Append(@, q)]
      BY <1>2, <2>3
    <3> QED
      BY <1>4, <1>5, <1>7, <2>1, <2>3, <3>1, OrderOneMore
  <2> QED
    BY <2>2, <2>3
<1>12. ASSUME NEW i \in DOMAIN executed'[s]
       PROVE  PastAt(s, executed[s][i])'
  <2>1. PICK e : e = executed'[s][i]
    OBVIOUS
  <2>2. PastAt(s, e)'
    BY <1>7, <1>8, <1>10, <1>11, <2>1
  <2> QED
    BY <2>1, <2>2 DEF PastAt, IsFeature, Issued
<1>13. OrderAt(s)'
  BY <1>9, <1>11, <1>12 DEF OrderAt
<1>14. ASSUME NEW p \in Server, p # s PROVE OrderAt(p)'
  <2>1. executed'[p] = executed[p]
    BY <1>2, <1>5, <1>14
  <2> QED
    BY <1>2, <1>3, <1>14, <2>1, OrderStill
<1> QED
  BY <1>13, <1>14

\* and its record is beyond all executed,
LEMMA OrderRecord ==
    ASSUME KvInv, Away, NEW s \in Server, ApplyRecord(s), \A p \in Server : OrderAt(p)
    PROVE  \A p \in Server : OrderAt(p)'
<1> USE DEF KvInv
<1>1. PICK q : q = applier[s].op
  OBVIOUS
<1>2. /\ Calm /\ applier[s].pc = "record"
      /\ applier'[s].pc = IF IsFeature(q) THEN "index" ELSE "wake"
      /\ applier'[s].op = q
      /\ \A p \in Server : p # s => applier'[p] = applier[p]
      /\ lastRequests'[s][q.client].id = q.req
      /\ \A p \in Server, c \in Client :
            p # s \/ c # q.client => lastRequests'[p][c] = lastRequests[p][c]
      /\ UNCHANGED <<executed>>
  BY <1>1, ApplyRecordOK
<1>3. Goes
  BY <1>2 DEF Calm
<1>4. Issued(q)
  BY <1>1, <1>2, ThreadOp
<1>5. q.client \in Client /\ q.req \in Nat
  BY <1>4, IssuedOK
<1>6. OrderAt(s)
  OBVIOUS
<1>7. lastRequests[s][q.client].id \in Nat /\ q.req > lastRequests[s][q.client].id
  BY <1>1, <1>2, <1>5, <1>6 DEF RecordInv, OrderAt, NextAt
<1>8. ASSUME NEW i \in DOMAIN executed[s]
      PROVE  PastAt(s, executed[s][i])'
  <2>1. PICK e : e = executed[s][i]
    OBVIOUS
  <2>2. /\ Issued(e) /\ e.kind # "Get"
        /\ e.req <= lastRequests[s][e.client].id \/ (~IsFeature(q) /\ e = q)
    BY <1>1, <1>2, <1>6, <2>1 DEF OrderAt, PastAt
  <2>3. Issued(e)'
    BY <1>3, <2>2, IssuedKept
  <2>4. e.client \in Client /\ e.req \in Nat
    BY <2>2, IssuedOK
  <2>5. e.req <= lastRequests'[s][e.client].id
    <3>1. CASE e.client = q.client
      BY <1>2, <1>5, <1>7, <2>2, <2>4, <3>1
    <3>2. CASE e.client # q.client
      BY <1>2, <2>2, <2>4, <3>2
    <3> QED
      BY <3>1, <3>2
  <2>6. applier'[s].pc = "index" /\ e.client = q.client => e.req < q.req
    BY <1>2, <1>5, <1>7, <2>2, <2>4
  <2>7. applier'[s].pc # "execute"
    BY <1>2
  <2>8. PastAt(s, e)'
    BY <1>2, <2>2, <2>3, <2>5, <2>6, <2>7 DEF PastAt
  <2> QED
    BY <1>2, <2>1, <2>8 DEF PastAt, IsFeature, Issued
<1>9. NextAt(s)'
  BY <1>2 DEF NextAt
<1>10. InOrder(s)'
  BY <1>2, <1>6 DEF OrderAt, InOrder
<1>11. OrderAt(s)'
  BY <1>2, <1>8, <1>9, <1>10 DEF OrderAt
<1>12. ASSUME NEW p \in Server, p # s PROVE OrderAt(p)'
  <2>1. \A e : Issued(e) /\ e.kind # "Get" =>
           lastRequests'[p][e.client].id = lastRequests[p][e.client].id
    BY <1>2, <1>12 DEF Issued
  <2> QED
    BY <1>2, <1>3, <1>12, <2>1, OrderStill
<1> QED
  BY <1>11, <1>12

\* also that of a feature, executed after it is recorded;
LEMMA OrderIndex ==
    ASSUME KvInv, Away, NEW s \in Server, ApplyIndex(s), \A p \in Server : OrderAt(p)
    PROVE  \A p \in Server : OrderAt(p)'
<1> USE DEF KvInv
<1>1. PICK q : q = applier[s].op
  OBVIOUS
<1>2. /\ Calm /\ applier[s].pc = "index" /\ applier'[s].pc = "wake"
      /\ applier'[s].op = q
      /\ \A p \in Server : p # s => applier'[p] = applier[p]
      /\ executed' = [executed EXCEPT ![s] = Append(@, q)]
      /\ UNCHANGED <<lastRequests>>
  BY <1>1, ApplyIndexOK
<1>3. Goes
  BY <1>2 DEF Calm
<1>4. Issued(q) /\ q.kind # "Get" /\ q \in Operation
  BY <1>1, <1>2, ThreadOp
<1>5. executed \in [Server -> Seq(Operation)]
  BY DEF TableInv
<1>6. OrderAt(s)
  OBVIOUS
<1>7. ASSUME NEW i \in DOMAIN executed[s]
      PROVE  /\ PastAt(s, executed[s][i])
             /\ executed[s][i].client = q.client => executed[s][i].req < q.req
  BY <1>1, <1>2, <1>6 DEF OrderAt, PastAt
<1>8. ASSUME NEW e, PastAt(s, e) PROVE PastAt(s, e)'
  <2>1. Issued(e)'
    BY <1>3, <1>8, IssuedKept DEF PastAt
  <2> QED
    BY <1>2, <1>8, <2>1 DEF PastAt
<1>9. NextAt(s)'
  BY <1>2 DEF NextAt
<1>10. PastAt(s, q)'
  <2>1. Issued(q)'
    BY <1>3, <1>4, IssuedKept
  <2>2. q.req = lastRequests[s][q.client].id /\ q.req \in Nat
    BY <1>1, <1>2, <1>4, <1>6, IssuedOK DEF OrderAt, NextAt
  <2> QED
    BY <1>2, <1>4, <2>1, <2>2 DEF PastAt
<1>11. InOrder(s)' /\ \A i \in DOMAIN executed'[s] :
          \/ executed'[s][i] = q
          \/ i \in DOMAIN executed[s] /\ executed'[s][i] = executed[s][i]
  <2>1. InOrder(s)
    BY <1>6 DEF OrderAt
  <2> QED
    BY <1>2, <1>4, <1>5, <1>7, <2>1, OrderOneMore
<1>12. ASSUME NEW i \in DOMAIN executed'[s]
       PROVE  PastAt(s, executed[s][i])'
  <2>1. PICK e : e = executed'[s][i]
    OBVIOUS
  <2>2. PastAt(s, e)'
    BY <1>7, <1>8, <1>10, <1>11, <2>1
  <2> QED
    BY <2>1, <2>2 DEF PastAt, IsFeature, Issued
<1>13. OrderAt(s)'
  BY <1>9, <1>11, <1>12 DEF OrderAt
<1>14. ASSUME NEW p \in Server, p # s PROVE OrderAt(p)'
  <2>1. executed'[p] = executed[p]
    BY <1>2, <1>5, <1>14
  <2> QED
    BY <1>2, <1>3, <1>14, <2>1, OrderStill
<1> QED
  BY <1>13, <1>14

\* the thread rests;
LEMMA OrderWake ==
    ASSUME KvInv, Away, NEW s \in Server, ApplyWake(s), \A p \in Server : OrderAt(p)
    PROVE  \A p \in Server : OrderAt(p)'
<1> USE DEF KvInv
<1>1. /\ Calm /\ applier[s].pc = "wake" /\ applier'[s].pc = "idle"
      /\ \A p \in Server : p # s => applier'[p] = applier[p]
      /\ UNCHANGED <<lastRequests, executed>>
  BY ApplyWakeOK
<1>2. Goes
  BY <1>1 DEF Calm
<1>3. ASSUME NEW i \in DOMAIN executed[s]
      PROVE  PastAt(s, executed[s][i])'
  <2>1. PICK e : e = executed[s][i]
    OBVIOUS
  <2>2. Issued(e) /\ e.kind # "Get" /\ e.req <= lastRequests[s][e.client].id
    BY <1>1, <2>1 DEF OrderAt, PastAt
  <2>3. Issued(e)'
    BY <1>2, <2>2, IssuedKept
  <2>4. PastAt(s, e)'
    BY <1>1, <2>2, <2>3 DEF PastAt
  <2> QED
    BY <1>1, <2>1, <2>4 DEF PastAt, IsFeature, Issued
<1>4. OrderAt(s)'
  BY <1>1, <1>3 DEF OrderAt, NextAt, InOrder
<1>5. ASSUME NEW p \in Server, p # s PROVE OrderAt(p)'
  BY <1>1, <1>2, <1>5, OrderStill
<1> QED
  BY <1>4, <1>5

\* a handler records for clients that never write;
LEMMA OrderHandler ==
    ASSUME KvInv, ReadersOnlyRead, Away, NEW m \in calls, HandlerStep(m),
           \A p \in Server : OrderAt(p)
    PROVE  \A p \in Server : OrderAt(p)'
<1>1. Goes /\ RecordsReads /\ UNCHANGED <<applier, executed>>
  BY HandlerStepOK DEF HandlerKeeps, Calm
<1>2. ASSUME NEW p \in Server PROVE OrderAt(p)'
  <2>1. \A e : Issued(e) /\ e.kind # "Get" =>
           lastRequests'[p][e.client].id = lastRequests[p][e.client].id
    BY <1>1, ReadsElsewhere
  <2> QED
    BY <1>1, <2>1, OrderStill
<1> QED
  BY <1>2

\* a restarted server has executed nothing;
LEMMA OrderRestart ==
    ASSUME KvInv, NEW s \in Server, Restart(s), \A p \in Server : OrderAt(p)
    PROVE  \A p \in Server : OrderAt(p)'
<1>1. /\ Goes /\ applier'[s].pc = "idle" /\ executed'[s] = <<>>
      /\ \A p \in Server : p # s =>
            /\ applier'[p] = applier[p] /\ executed'[p] = executed[p]
            /\ lastRequests'[p] = lastRequests[p]
  BY RestartOK
<1>2. OrderAt(s)'
  <2>1. DOMAIN executed'[s] = {}
    BY <1>1
  <2> QED
    BY <1>1, <2>1 DEF OrderAt, NextAt, InOrder
<1>3. ASSUME NEW p \in Server, p # s PROVE OrderAt(p)'
  BY <1>1, <1>3, OrderStill
<1> QED
  BY <1>2, <1>3

\* the other steps leave servers alone.
LEMMA OrderElsewhere ==
    ASSUME KvInv, Goes, UNCHANGED <<applier, executed, lastRequests>>,
           \A p \in Server : OrderAt(p)
    PROVE  \A p \in Server : OrderAt(p)'
BY OrderStill

\* Every other step leaves what the servers have alone.
Elsewhere ==
    /\ Goes /\ UNCHANGED <<handed, applier, executed, lastRequests, kvdb, index>>
    /\ committed' = committed \/ committed' = committed + 1

\* A step is one of a server or it is Elsewhere.
LEMMA ServerSteps ==
    ASSUME KvInv, [KvNext]_kvVars
    PROVE  \/ Away /\ \E m \in calls : HandlerStep(m)
           \/ Away /\ \E s \in Server : ApplyCheck(s) \/ ApplyExecute(s) \/ ApplyRecord(s)
                                        \/ ApplyIndex(s) \/ ApplyWake(s)
           \/ \E s \in Server : Restart(s)
           \/ Elsewhere
<1>1. ASSUME NEW c \in Client, ReceiveReply(c) \/ RpcFail(c) PROVE Elsewhere
  <2>1. ClerkGoes(c, clerk[c].req) /\ clerk[c].req \in Nat
    BY <1>1, ReceiveReplyOK, RpcFailOK DEF KvInv, ClerkInv
  <2> QED
    BY <2>1, ClerkGoesOK DEF Elsewhere
<1>2. ASSUME NEW c \in Client, NEW s \in Server, NewRequest(c, s) PROVE Elsewhere
  <2>1. PICK r \in Nat : r = clerk[c].req + 1
    BY DEF KvInv, ClerkInv
  <2>2. ClerkGoes(c, r)
    BY <1>2, <2>1, NewRequestOK
  <2> QED
    BY <2>2, ClerkGoesOK DEF Elsewhere
<1>3. ASSUME NEW c \in Client, NEW s \in Server, Retry(c, s) PROVE Elsewhere
  <2>1. ClerkGoes(c, clerk[c].req) /\ clerk[c].req \in Nat
    BY <1>3, RetryOK DEF KvInv, ClerkInv
  <2> QED
    BY <2>1, ClerkGoesOK DEF Elsewhere
<1>4. ASSUME Commit PROVE Elsewhere
  BY <1>4, CommitOK DEF Commit, LogCommit, Calm, Elsewhere, serverVars, tableVars
<1>5. ASSUME NEW s \in Server, Elect(s) PROVE Elsewhere
  BY <1>5, ElectOK DEF Elect, LogElect, Calm, Elsewhere, serverVars, tableVars
<1>6. ASSUME UNCHANGED kvVars PROVE Elsewhere
  <2>1. UNCHANGED <<log, committed, handed, kvdb, index, lastRequests, applier, executed,
                    scenario, clerk>>
    BY <1>6, KvStutters
  <2> QED
    BY <2>1, GoesStill DEF Elsewhere, KvInv
<1> QED
  BY <1>1, <1>2, <1>3, <1>4, <1>5, <1>6, KvSteps

\* The scenario stays.
LEMMA ReadersBefore ==
    ASSUME KvInv, [KvNext]_kvVars, ReadersOnlyRead'
    PROVE  ReadersOnlyRead
<1>1. scenario' = scenario
  BY ServerSteps, RestartOK DEF Away, Elsewhere, Goes
<1> QED
  BY <1>1 DEF ReadersOnlyRead

\* Every step keeps the order.
LEMMA OrderStep ==
    ASSUME KvInv, OrderInv, [KvNext]_kvVars
    PROVE  OrderInv'
<1> SUFFICES ASSUME ReadersOnlyRead' PROVE \A s \in Server : OrderAt(s)'
  BY DEF OrderInv
<1>1. ReadersOnlyRead
  BY ReadersBefore
<1>2. \A s \in Server : OrderAt(s)
  BY <1>1 DEF OrderInv
<1>3. ASSUME Elsewhere PROVE \A s \in Server : OrderAt(s)'
  BY <1>2, <1>3, OrderElsewhere DEF Elsewhere
<1> QED
  BY <1>1, <1>2, <1>3, ServerSteps, OrderHandler, OrderCheck, OrderExecute, OrderRecord,
     OrderIndex, OrderWake, OrderRestart

\* The order holds at the start.
LEMMA OrderStarts ==
    ASSUME KvInit
    PROVE  OrderInv
<1>1. /\ applier = [s \in Server |-> NoRequest] /\ executed = [s \in Server |-> <<>>]
  BY DEF KvInit, ServerInit
<1>2. ASSUME NEW s \in Server PROVE OrderAt(s)
  <2>1. executed[s] = <<>> /\ applier[s].pc = "idle"
    BY <1>1 DEF NoRequest
  <2>2. DOMAIN executed[s] = {}
    BY <2>1
  <2> QED
    BY <2>1, <2>2 DEF OrderAt, NextAt, InOrder
<1> QED
  BY <1>2 DEF OrderInv

\* When no client both reads and writes, no process executes a request twice, and
\* it executes the requests of one client in their order (ExecutedInOrder),
\* however often the Clerk repeats them and whoever leads.  A read that is
\* recorded late, after a later write, would let that write be executed again.
THEOREM WritersInOrder == KvSpec => [](ReadersOnlyRead => ExecutedInOrder)
<1>1. KvInit => OrderInv
  BY OrderStarts
<1>2. KvInv /\ OrderInv /\ [KvNext]_kvVars => OrderInv'
  BY OrderStep
<1>3. OrderInv => (ReadersOnlyRead => ExecutedInOrder)
  BY DEF OrderInv, OrderAt, InOrder, ExecutedInOrder
<1> QED
  BY <1>1, <1>2, <1>3, KvInvariance, PTL DEF KvSpec

-----------------------------------------------------------------------------
(* No entry is left out *)

\* What comes first in the committed part does so for ever.
LEMMA FirstBefore ==
    ASSUME EntryInv, Goes, NEW i \in 1..committed, First(i)'
    PROVE  First(i) /\ log'[i] = log[i]
<1>1. committed \in Nat
  BY DEF EntryInv
<1>2. \A j \in 1..i : log'[j] = log[j]
  BY <1>1 DEF Goes
<1> QED
  BY <1>1, <1>2 DEF First

\* The entries that s was handed before stay handled, and the records too, if
\* what was handled before still is.
LEMMA HandledKept ==
    ASSUME KvInv, Goes, NEW s \in Server, HandledAt(s), Len(handed'[s]) \in Nat,
           Len(handed[s]) <= Len(handed'[s]),
           \A op : Handled(s, op) => Handled(s, op)',
           \A i \in (Len(handed[s]) + 1)..Len(handed'[s]) :
              First(i)' => Handled(s, log[i])',
           \A c \in Client :
              LET id == lastRequests'[s][c].id IN
              \/ id = lastRequests[s][c].id \/ OpOf(c, id).kind = "Get"
              \/ \E q : /\ q = OpOf(c, id) /\ Handled(s, q)'
                       /\ \E j \in 1..Len(handed'[s]) : log'[j] = q
    PROVE  HandledAt(s)'
<1> USE DEF KvInv
<1>1. /\ Len(handed[s]) \in Nat /\ Len(handed[s]) <= committed /\ committed \in Nat
  BY DEF EntryInv
<1>2. ASSUME NEW i \in 1..Len(handed'[s]), First(i)'
      PROVE  Handled(s, log[i])'
  <2>1. CASE i <= Len(handed[s])
    <3>1. i \in 1..committed /\ i \in 1..Len(handed[s])
      BY <1>1, <2>1
    <3>2. First(i) /\ log'[i] = log[i]
      BY <1>2, <3>1, FirstBefore
    <3>3. PICK q : q = log[i]
      OBVIOUS
    <3>4. Handled(s, q)'
      BY <3>1, <3>2, <3>3 DEF HandledAt
    <3> QED
      BY <3>2, <3>3, <3>4 DEF Handled, Has, Pending
  <2>2. CASE ~(i <= Len(handed[s]))
    <3>1. i \in (Len(handed[s]) + 1)..Len(handed'[s])
      BY <1>1, <2>2
    <3> QED
      BY <1>2, <3>1
  <2> QED
    BY <2>1, <2>2
<1>3. ASSUME NEW c \in Client, NEW id, id = lastRequests'[s][c].id, id # 0,
             OpOf(c, id)'.kind # "Get"
      PROVE  /\ \E j \in 1..Len(handed'[s]) : log'[j] = OpOf(c, id)'
             /\ Handled(s, OpOf(c, id))'
  <2>1. PICK q : q = OpOf(c, id)
    OBVIOUS
  <2>2. OpOf(c, id)' = q
    BY <2>1 DEF OpOf, Goes
  <2>3. (\E j \in 1..Len(handed'[s]) : log'[j] = q) /\ Handled(s, q)'
    <3>1. CASE id = lastRequests[s][c].id
      <4>1. /\ \E j \in 1..Len(handed[s]) : log[j] = q
            /\ Handled(s, q)
        BY <1>3, <2>1, <2>2, <3>1 DEF HandledAt
      <4>2. PICK j \in 1..Len(handed[s]) : log[j] = q
        BY <4>1
      <4>3. j \in 1..Len(handed'[s]) /\ j \in 1..committed
        BY <1>1
      <4>4. log'[j] = q
        BY <4>2, <4>3 DEF Goes
      <4> QED
        BY <4>1, <4>3, <4>4
    <3>2. CASE id # lastRequests[s][c].id
      <4>1. \E p : /\ p = OpOf(c, id) /\ Handled(s, p)'
                   /\ \E j \in 1..Len(handed'[s]) : log'[j] = p
        BY <1>3, <2>1, <2>2, <3>2
      <4> QED
        BY <2>1, <4>1
    <3> QED
      BY <3>1, <3>2
  <2> QED
    BY <2>2, <2>3 DEF Handled, Has, Pending
<1> QED
  BY <1>2, <1>3 DEF HandledAt, OpOf

\* A step that leaves the tables of s alone.
LEMMA HandledStill ==
    ASSUME KvInv, Goes, NEW s \in Server, HandledAt(s), applier'[s] = applier[s],
           executed'[s] = executed[s], handed'[s] = handed[s],
           \A c \in Client :
              LET id == lastRequests'[s][c].id IN
              id = lastRequests[s][c].id \/ OpOf(c, id).kind = "Get"
    PROVE  HandledAt(s)'
<1>1. Len(handed[s]) \in Nat
  BY DEF KvInv, EntryInv
<1>2. \A op : Handled(s, op) => Handled(s, op)'
  BY DEF Handled, Has, Pending
<1>3. \A i \in (Len(handed[s]) + 1)..Len(handed'[s]) : First(i)' => Handled(s, log[i])'
  BY <1>1
<1> QED
  BY <1>1, <1>2, <1>3, HandledKept

\* An entry that comes before later requests of its client and is a duplicate
\* has been executed: the record can only be its own.
LEMMA DuplicateDone ==
    ASSUME KvInv, ReadersOnlyRead, NEW s \in Server, HandledAt(s), applier[s].pc = "idle",
           NEW n \in 1..committed, n = Len(handed[s]) + 1, First(n),
           ifRequestDuplicate(s, log[n])
    PROVE  Has(s, log[n])
<1> USE DEF KvInv
<1>1. PICK q : q = log[n]
  OBVIOUS
<1>2. committed \in 0..Len(log) /\ Len(log) \in Nat /\ Len(handed[s]) \in Nat
  BY DEF EntryInv
<1>3. Issued(q) /\ q.kind # "Get"
  BY <1>1, <1>2 DEF EntryInv
<1>4. q.client \in Client /\ q.req \in Nat /\ q.req # 0 /\ clerk[q.client].req \in Nat
  BY <1>3, IssuedOK
<1>5. PICK id \in Nat : id = lastRequests[s][q.client].id
  BY <1>4 DEF RecordInv
<1>6. q.req <= id /\ id <= clerk[q.client].req
  BY <1>1, <1>4, <1>5 DEF ifRequestDuplicate, RecordInv
<1>7. id \in 1..clerk[q.client].req /\ id # 0
  BY <1>4, <1>6
<1>8. OpOf(q.client, id).kind # "Get"
  BY <1>3, <1>7, WriterWrites
<1>9. OpOf(q.client, id).client = q.client /\ OpOf(q.client, id).req = id
  BY <1>4, <1>7, OpOfOK
<1>10. /\ \E j \in 1..Len(handed[s]) : log[j] = OpOf(q.client, id)
       /\ Has(s, OpOf(q.client, id))
  BY <1>4, <1>5, <1>7, <1>8 DEF HandledAt, Handled, Pending
<1>11. PICK j \in 1..Len(handed[s]) : log[j] = OpOf(q.client, id)
  BY <1>10
<1>12. j \in 1..(n - 1)
  BY <1>2
<1>13. log[j].req <= q.req
  BY <1>1, <1>9, <1>11, <1>12 DEF First
<1>14. id = q.req
  BY <1>4, <1>6, <1>9, <1>11, <1>13
<1>15. OpOf(q.client, id) = q
  BY <1>3, <1>14 DEF Issued
<1> QED
  BY <1>1, <1>10, <1>15

\* Steps that keep HandledAt: the check of an entry,
LEMMA HandledCheck ==
    ASSUME KvInv, ReadersOnlyRead, Away, NEW s \in Server, ApplyCheck(s),
           \A p \in Server : HandledAt(p)
    PROVE  \A p \in Server : HandledAt(p)'
<1> USE DEF KvInv
<1>1. PICK n : n = Len(handed'[s])
  OBVIOUS
<1>2. /\ Calm /\ n \in 1..committed /\ applier[s].pc = "idle" /\ n = Len(handed[s]) + 1
      /\ applier'[s].op = log[n]
      /\ applier'[s].pc = IF ifRequestDuplicate(s, log[n]) THEN "wake" ELSE "execute"
      /\ \A p \in Server : p # s => applier'[p] = applier[p] /\ handed'[p] = handed[p]
      /\ UNCHANGED <<log, executed, lastRequests>>
  BY <1>1, ApplyCheckOK
<1>3. Goes
  BY <1>2 DEF Calm
<1>4. Len(handed[s]) \in Nat
  BY DEF EntryInv
<1>5. \A op : Handled(s, op) => Handled(s, op)'
  BY <1>2 DEF Handled, Has, Pending
<1>6. First(n)' => Handled(s, log[n])'
  <2> SUFFICES ASSUME First(n)' PROVE Handled(s, log[n])'
    OBVIOUS
  <2>1. First(n)
    BY <1>2 DEF First
  <2>2. CASE ifRequestDuplicate(s, log[n])
    <3>1. Has(s, log[n])
      BY <1>2, <2>1, <2>2, DuplicateDone
    <3> QED
      BY <1>2, <3>1 DEF Handled, Has
  <2>3. CASE ~ifRequestDuplicate(s, log[n])
    BY <1>2, <2>3 DEF Handled, Pending
  <2> QED
    BY <2>2, <2>3
<1>7. \A i \in (Len(handed[s]) + 1)..Len(handed'[s]) : First(i)' => Handled(s, log[i])'
  <2> TAKE i \in (Len(handed[s]) + 1)..Len(handed'[s])
  <2>1. i = n
    BY <1>1, <1>2, <1>4
  <2> QED
    BY <1>6, <2>1
<1>8. Len(handed'[s]) \in Nat /\ Len(handed[s]) <= Len(handed'[s])
  BY <1>1, <1>2, <1>4
<1>9. HandledAt(s)'
  BY <1>2, <1>3, <1>5, <1>7, <1>8, HandledKept
<1>10. ASSUME NEW p \in Server, p # s PROVE HandledAt(p)'
  BY <1>2, <1>3, <1>10, HandledStill
<1> QED
  BY <1>9, <1>10

\* The entries stay, and so does what was handled.
LEMMA HandledOn ==
    ASSUME KvInv, Goes, NEW s \in Server, handed' = handed,
           \A p \in Server : HandledAt(p) /\ Grows(p),
           \A op : Pending(s, op) => Handled(s, op)',
           \A p \in Server : p # s =>
              applier'[p] = applier[p] /\ executed'[p] = executed[p],
           \A p \in Server, c \in Client :
              LET id == lastRequests'[p][c].id IN
              \/ id = lastRequests[p][c].id \/ OpOf(c, id).kind = "Get"
              \/ \E q : /\ q = OpOf(c, id) /\ Handled(p, q)'
                        /\ \E j \in 1..Len(handed'[p]) : log'[j] = q
    PROVE  \A p \in Server : HandledAt(p)'
<1>1. \A p \in Server : Len(handed[p]) \in Nat
  BY DEF KvInv, EntryInv
<1>2. ASSUME NEW p \in Server PROVE HandledAt(p)'
  <2>1. \A op : Handled(p, op) => Handled(p, op)'
    <3>1. CASE p = s
      BY <3>1, HasKept DEF Handled
    <3>2. CASE p # s
      BY <3>2 DEF Handled, Has, Pending
    <3> QED
      BY <3>1, <3>2
  <2>2. \A i \in (Len(handed[p]) + 1)..Len(handed'[p]) : First(i)' => Handled(p, log[i])'
    BY <1>1
  <2>3. Len(handed'[p]) \in Nat /\ Len(handed[p]) <= Len(handed'[p])
    BY <1>1
  <2>4. HandledAt(p)
    OBVIOUS
  <2> QED
    BY <2>1, <2>2, <2>3, <2>4, HandledKept
<1> QED
  BY <1>2

\* its execution,
LEMMA HandledExecute ==
    ASSUME KvInv, DoneInv, Away, NEW s \in Server, ApplyExecute(s),
           \A p \in Server : HandledAt(p)
    PROVE  \A p \in Server : HandledAt(p)'
<1>1. /\ Calm /\ applier[s].pc = "execute" /\ applier'[s].pc = "record"
      /\ applier'[s].op = applier[s].op
      /\ \A p \in Server : p # s => applier'[p] = applier[p]
      /\ executed' = IF IsFeature(applier[s].op) THEN executed
                     ELSE [executed EXCEPT ![s] = Append(@, applier[s].op)]
      /\ UNCHANGED <<handed, lastRequests>>
  BY ApplyExecuteOK
<1>2. \A op : Pending(s, op) => Handled(s, op)'
  BY <1>1 DEF Handled, Pending
<1>3. \A p \in Server : Grows(p)
  BY DoneExecute
<1>4. executed \in [Server -> Seq(Operation)]
  BY DEF KvInv, TableInv
<1>5. \A p \in Server : p # s => executed'[p] = executed[p]
  BY <1>1, <1>4
<1> QED
  BY <1>1, <1>2, <1>3, <1>5, HandledOn DEF Calm

\* its record,
LEMMA HandledRecord ==
    ASSUME KvInv, DoneInv, Away, NEW s \in Server, ApplyRecord(s),
           \A p \in Server : HandledAt(p)
    PROVE  \A p \in Server : HandledAt(p)'
<1>1. PICK q : q = applier[s].op
  OBVIOUS
<1>2. /\ Calm /\ applier[s].pc = "record"
      /\ applier'[s].pc = IF IsFeature(q) THEN "index" ELSE "wake"
      /\ applier'[s].op = q
      /\ \A p \in Server : p # s => applier'[p] = applier[p]
      /\ lastRequests'[s][q.client].id = q.req
      /\ \A p \in Server, c \in Client :
            p # s \/ c # q.client => lastRequests'[p][c] = lastRequests[p][c]
      /\ UNCHANGED <<log, handed, executed>>
  BY <1>1, ApplyRecordOK
<1>3. \A p \in Server : Grows(p)
  BY <1>2 DEF Grows
<1>4. Handled(s, q)'
  <2>1. CASE IsFeature(q)
    BY <1>2, <2>1 DEF Handled, Pending
  <2>2. CASE ~IsFeature(q)
    <3>1. Has(s, q)
      BY <1>1, <1>2, <2>2 DEF DoneInv, ThreadDone
    <3> QED
      BY <1>2, <3>1 DEF Handled, Has
  <2> QED
    BY <2>1, <2>2
<1>5. \A op : Pending(s, op) => Handled(s, op)'
  BY <1>1, <1>4 DEF Pending
<1>6. Issued(q) /\ Len(handed[s]) \in 1..committed /\ q = log[Len(handed[s])]
  BY <1>1, <1>2, ThreadOp DEF KvInv
<1>7. OpOf(q.client, q.req) = q
  BY <1>6 DEF Issued
<1>8. Len(handed[s]) \in 1..Len(handed'[s]) /\ log'[Len(handed[s])] = q
  BY <1>2, <1>6 DEF KvInv, EntryInv
<1>9. ASSUME NEW p \in Server, NEW c \in Client
      PROVE  LET id == lastRequests'[p][c].id IN
             \/ id = lastRequests[p][c].id \/ OpOf(c, id).kind = "Get"
             \/ \E r : /\ r = OpOf(c, id) /\ Handled(p, r)'
                       /\ \E j \in 1..Len(handed'[p]) : log'[j] = r
  <2>1. CASE p = s /\ c = q.client
    BY <1>2, <1>4, <1>7, <1>8, <2>1
  <2>2. CASE ~(p = s /\ c = q.client)
    BY <1>2, <2>2
  <2> QED
    BY <2>1, <2>2
<1>10. Goes /\ handed' = handed
       /\ \A p \in Server : p # s => applier'[p] = applier[p] /\ executed'[p] = executed[p]
  BY <1>2 DEF Calm
<1> QED
  BY <1>3, <1>5, <1>9, <1>10, HandledOn

\* the execution of a feature,
LEMMA HandledIndex ==
    ASSUME KvInv, Away, NEW s \in Server, ApplyIndex(s),
           \A p \in Server : HandledAt(p)
    PROVE  \A p \in Server : HandledAt(p)'
<1>1. PICK q : q = applier[s].op
  OBVIOUS
<1>2. /\ Calm /\ applier[s].pc = "index"
      /\ \A p \in Server : p # s => applier'[p] = applier[p]
      /\ executed' = [executed EXCEPT ![s] = Append(@, q)]
      /\ UNCHANGED <<handed, lastRequests>>
  BY <1>1, ApplyIndexOK
<1>3. q \in Operation
  BY <1>1, <1>2, ThreadOp DEF KvInv
<1>4. executed \in [Server -> Seq(Operation)]
  BY DEF KvInv, TableInv
<1>5. Has(s, q)' /\ \A p \in Server : Grows(p)
  BY <1>2, <1>3, <1>4, GrowsOneMore
<1>6. \A op : Pending(s, op) => Handled(s, op)'
  BY <1>1, <1>5 DEF Pending, Handled
<1>7. \A p \in Server : p # s => executed'[p] = executed[p]
  BY <1>2, <1>4
<1> QED
  BY <1>2, <1>5, <1>6, <1>7, HandledOn DEF Calm

\* the end of the work on an entry,
LEMMA HandledWake ==
    ASSUME KvInv, Away, NEW s \in Server, ApplyWake(s),
           \A p \in Server : HandledAt(p)
    PROVE  \A p \in Server : HandledAt(p)'
<1>1. /\ Calm /\ applier[s].pc = "wake"
      /\ \A p \in Server : p # s => applier'[p] = applier[p]
      /\ UNCHANGED <<handed, lastRequests, executed>>
  BY ApplyWakeOK
<1>2. \A p \in Server : Grows(p)
  BY <1>1 DEF Grows
<1>3. \A op : Pending(s, op) => Handled(s, op)'
  BY <1>1 DEF Pending
<1> QED
  BY <1>1, <1>2, <1>3, HandledOn DEF Calm

\* and a restart, after which nothing has been handed.
LEMMA HandledRestart ==
    ASSUME KvInv, NEW s \in Server, Restart(s), \A p \in Server : HandledAt(p)
    PROVE  \A p \in Server : HandledAt(p)'
<1>1. /\ Goes /\ handed'[s] = <<>>
      /\ \A c \in Client : lastRequests'[s][c].id = 0
      /\ \A p \in Server : p # s =>
            /\ applier'[p] = applier[p] /\ executed'[p] = executed[p]
            /\ lastRequests'[p] = lastRequests[p] /\ handed'[p] = handed[p]
  BY RestartOK
<1>2. HandledAt(s)'
  <2>1. Len(handed'[s]) = 0
    BY <1>1
  <2> QED
    BY <1>1, <2>1 DEF HandledAt
<1>3. ASSUME NEW p \in Server, p # s PROVE HandledAt(p)'
  BY <1>1, <1>3, HandledStill
<1> QED
  BY <1>2, <1>3

\* Every step keeps what has been handled.
LEMMA HandledStep ==
    ASSUME KvInv, DoneInv, HandledInv, [KvNext]_kvVars
    PROVE  HandledInv'
<1> SUFFICES ASSUME ReadersOnlyRead' PROVE \A s \in Server : HandledAt(s)'
  BY DEF HandledInv
<1>1. ReadersOnlyRead
  BY ReadersBefore
<1>2. \A s \in Server : HandledAt(s)
  BY <1>1 DEF HandledInv
<1>3. ASSUME Elsewhere PROVE \A s \in Server : HandledAt(s)'
  BY <1>2, <1>3, HandledStill DEF Elsewhere
<1>4. ASSUME Away, NEW m \in calls, HandlerStep(m) PROVE \A s \in Server : HandledAt(s)'
  <2>1. Goes /\ RecordsReads /\ UNCHANGED <<applier, executed, handed>>
    BY <1>4, HandlerStepOK DEF HandlerKeeps, Calm
  <2> QED
    BY <1>2, <2>1, HandledStill DEF RecordsReads
<1> QED
  BY <1>1, <1>2, <1>3, <1>4, ServerSteps, HandledCheck, HandledExecute, HandledRecord,
     HandledIndex, HandledWake, HandledRestart

\* Nothing has been handed at the start.
LEMMA HandledStarts ==
    ASSUME KvInit
    PROVE  HandledInv
<1>1. /\ handed = [s \in Server |-> <<>>]
      /\ lastRequests = [s \in Server |-> [c \in Client |-> NoRecord]]
  BY DEF KvInit, ServerInit, LogInit
<1>2. ASSUME NEW s \in Server PROVE HandledAt(s)
  <2>1. Len(handed[s]) = 0 /\ \A c \in Client : lastRequests[s][c].id = 0
    BY <1>1 DEF NoRecord
  <2> QED
    BY <2>1 DEF HandledAt
<1> QED
  BY <1>2 DEF HandledInv

\* A settled operation that was handed to an idle server has been executed.
LEMMA SettledExecuted ==
    ASSUME KvInv, NEW s \in Server, HandledAt(s), applier[s].pc = "idle", NEW op, Settled(op),
           \E i \in DOMAIN handed[s] : handed[s][i] = op
    PROVE  Has(s, op)
<1>1. /\ handed[s] \in Seq(Operation) /\ Len(handed[s]) \in Nat
      /\ \A i \in 1..Len(handed[s]) : handed[s][i] = log[i]
  BY DEF KvInv, EntryInv
<1>2. PICK k \in 1..Len(handed[s]) : log[k] = op
  BY <1>1
<1>3. committed \in Nat
  BY DEF KvInv, EntryInv
<1>4. PICK i \in 1..committed :
         /\ log[i] = op
         /\ \A j \in 1..(i - 1) : log[j].client = op.client => log[j].req <= op.req
  BY DEF Settled
<1>5. \E f \in 1..Len(handed[s]) : log[f] = op /\ First(f)
  <2>1. CASE i <= Len(handed[s])
    BY <1>1, <1>3, <1>4, <2>1 DEF First
  <2>2. CASE ~(i <= Len(handed[s]))
    <3>1. \A j \in 1..(k - 1) : j \in 1..(i - 1)
      BY <1>1, <1>2, <1>3, <2>2
    <3> QED
      BY <1>2, <1>4, <3>1 DEF First
  <2> QED
    BY <2>1, <2>2
<1> QED
  BY <1>5 DEF HandledAt, Handled, Pending

\* When no client both reads and writes, a server that has been handed an
\* acknowledged write has executed it (AckedIsExecuted), after any number of
\* elections and restarts.  A client that reads after it wrote can lose a write: the
\* record of the read makes the write look like a duplicate (run lost_write).
THEOREM WritersExecuted == KvSpec => [](ReadersOnlyRead => AckedIsExecuted)
<1>1. KvInit => (DoneInv /\ FirstInv) /\ HandledInv
  BY LeaderStarts, HandledStarts
<1>2. KvInv /\ (DoneInv /\ FirstInv) /\ [KvNext]_kvVars => (DoneInv /\ FirstInv)'
  BY LeaderStep, LeaderStutters
<1>3. KvInv /\ (DoneInv /\ FirstInv) /\ HandledInv /\ [KvNext]_kvVars => HandledInv'
  BY HandledStep
<1>4. KvInv /\ HandledInv => (ReadersOnlyRead => AckedIsExecuted)
  <2> SUFFICES ASSUME KvInv, HandledInv, ReadersOnlyRead, NEW op \in acked, NEW s \in Server,
                      applier[s].pc = "idle", \E i \in DOMAIN handed[s] : handed[s][i] = op
               PROVE  \E i \in DOMAIN executed[s] : executed[s][i] = op
    BY DEF AckedIsExecuted
  <2>1. Settled(op)
    BY DEF KvInv, CallInv
  <2>2. Has(s, op)
    BY <2>1, SettledExecuted DEF HandledInv
  <2> QED
    BY <2>2 DEF Has
<1> QED
  BY <1>1, <1>2, <1>3, <1>4, KvInvariance, PTL DEF KvSpec

-----------------------------------------------------------------------------
(* Replicas *)

\* A client that has asked for a write does so.
LEMMA IssuedWrites ==
    ASSUME ClerkInv, NEW op, Issued(op), op.kind # "Get"
    PROVE  Writes(op.client)
<1>1. /\ op.client \in Client /\ op.req \in 1..clerk[op.client].req
      /\ op = OpOf(op.client, op.req)
  BY DEF Issued
<1>2. /\ op.req \in DOMAIN scenario.program[op.client]
      /\ op.kind = scenario.program[op.client][op.req].kind
  BY <1>1, OpOfOK
<1> QED
  BY <1>2 DEF Writes

\* What an entry that is not known does to the tables.
LEMMA AfterOK ==
    ASSUME NEW t, NEW op \in Operation, t.ids \in [Client -> Nat]
    PROVE  /\ After(t, op).ids \in [Client -> Nat]
           /\ Known(t, op) => After(t, op) = t
           /\ ~Known(t, op) =>
                 /\ After(t, op).kvdb = ExecutePutAppend(t.kvdb, op)
                 /\ IsFeature(op) => After(t, op).index = ApplyToIndex(t.index, op)
                 /\ ~IsFeature(op) => After(t, op).index = t.index
                 /\ After(t, op).ids[op.client] = op.req
                 /\ \A c \in Client : c # op.client => After(t, op).ids[c] = t.ids[c]
<1>1. op.client \in Client /\ op.req \in Nat
  BY DEF Operation
<1>2. CASE Known(t, op)
  BY <1>2 DEF After
<1>3. CASE ~Known(t, op)
  <2>1. PICK i \in [Client -> Nat] : i = [t.ids EXCEPT ![op.client] = op.req]
    BY <1>1
  <2>2. i[op.client] = op.req /\ \A c \in Client : c # op.client => i[c] = t.ids[c]
    BY <1>1, <2>1
  <2>3. /\ After(t, op).ids = i
        /\ After(t, op).kvdb = ExecutePutAppend(t.kvdb, op)
        /\ After(t, op).index = IF IsFeature(op) THEN ApplyToIndex(t.index, op) ELSE t.index
    BY <1>3, <2>1 DEF After
  <2> QED
    BY <1>3, <2>2, <2>3
<1> QED
  BY <1>2, <1>3

\* The run of the log goes on with what is committed.
LEMMA RunsOn ==
    ASSUME EntryInv, EntryInv', Goes, committed' = committed \/ committed' = committed + 1,
           NEW f, Runs(f)
    PROVE  \E g : Runs(g)' /\ \A n \in 0..committed : g[n] = f[n]
<1>1. committed \in Nat
  BY DEF EntryInv
<1>2. \A i \in 1..committed : log'[i] = log[i]
  BY DEF Goes
<1>3. CASE committed' = committed
  <2>1. Runs(f)'
    BY <1>1, <1>2, <1>3 DEF Runs, After, Known, Blank
  <2> QED
    BY <2>1
<1>4. CASE committed' = committed + 1
  <2>1. PICK op : op = log'[committed + 1]
    OBVIOUS
  <2>2. op \in Operation
    <3>1. log' \in Seq(Operation) /\ Len(log') \in Nat /\ committed' <= Len(log')
      BY <1>1, <1>4 DEF EntryInv
    <3>2. committed + 1 \in 1..Len(log')
      BY <1>1, <1>4, <3>1
    <3> QED
      BY <2>1, <3>1, <3>2
  <2>3. PICK u : u = After(f[committed], op)
    OBVIOUS
  <2>0. PICK g : g = [n \in 0..(committed + 1) |-> IF n <= committed THEN f[n] ELSE u]
    OBVIOUS
  <2>4. /\ \A n \in 0..committed : g[n] = f[n]
        /\ g[committed + 1] = u
    BY <1>1, <2>0
  <2>5. f[committed].ids \in [Client -> Nat]
    BY <1>1 DEF Runs
  <2>6. u.ids \in [Client -> Nat]
    BY <2>2, <2>3, <2>5, AfterOK
  <2>7. g[0] = Blank
    BY <1>1, <2>4 DEF Runs
  <2>8. ASSUME NEW n \in 0..(committed + 1) PROVE g[n].ids \in [Client -> Nat]
    <3>1. CASE n = committed + 1
      BY <2>4, <2>6, <3>1
    <3>2. CASE n # committed + 1
      <4>1. n \in 0..committed
        BY <1>1, <3>2
      <4> QED
        BY <2>4, <4>1 DEF Runs
    <3> QED
      BY <3>1, <3>2
  <2>9. ASSUME NEW n \in 1..(committed + 1) PROVE g[n] = After(g[n - 1], log'[n])
    <3>1. n - 1 \in 0..committed
      BY <1>1
    <3>2. g[n - 1] = f[n - 1]
      BY <2>4, <3>1
    <3>3. CASE n = committed + 1
      <4>1. n - 1 = committed
        BY <1>1, <3>3
      <4> QED
        BY <2>1, <2>3, <2>4, <3>2, <3>3, <4>1
    <3>4. CASE n # committed + 1
      <4>1. n \in 1..committed
        BY <1>1, <3>4
      <4>2. g[n] = f[n] /\ log'[n] = log[n]
        BY <1>2, <2>4, <4>1
      <4> QED
        BY <3>2, <4>1, <4>2 DEF Runs
    <3> QED
      BY <3>3, <3>4
  <2>10. Runs(g)'
    BY <1>4, <2>7, <2>8, <2>9 DEF Runs, After, Known, Blank
  <2> QED
    BY <2>4, <2>10
<1> QED
  BY <1>3, <1>4

\* A step that leaves server s alone, but for the records of clients that read.
LEMMA ReachedStill ==
    ASSUME KvInv, Goes, NEW s \in Server, NEW f, NEW g, Reached(s, f),
           \A n \in 0..committed : g[n] = f[n],
           applier'[s] = applier[s], kvdb'[s] = kvdb[s], index'[s] = index[s],
           handed'[s] = handed[s],
           \A c \in Client : Writes(c) => lastRequests'[s][c].id = lastRequests[s][c].id
    PROVE  Reached(s, g)'
<1>1. Len(handed[s]) \in Nat /\ Len(handed[s]) <= committed /\ committed \in Nat
  BY DEF KvInv, EntryInv
<1>2. PICK n : n = Len(handed[s])
  OBVIOUS
<1>3. g[n] = f[n]
  BY <1>1, <1>2
<1>4. applier[s].pc # "idle" => n # 0
  BY <1>2 DEF KvInv, ThreadInv
<1>5. applier[s].pc # "idle" => g[n - 1] = f[n - 1]
  <2> SUFFICES ASSUME applier[s].pc # "idle" PROVE g[n - 1] = f[n - 1]
    OBVIOUS
  <2>1. n - 1 \in 0..committed
    BY <1>1, <1>2, <1>4
  <2> QED
    BY <2>1
<1>6. \A c \in Client : Writes(c)' <=> Writes(c)
  BY DEF Writes, Goes
<1>7. \A t : SameIds(s, t) => SameIds(s, t)'
  BY <1>6 DEF SameIds
<1>8. CASE applier[s].pc \in {"idle", "wake"}
  <2>1. There(s, f[n])
    BY <1>2, <1>8 DEF Reached
  <2>2. There(s, f[n])'
    BY <1>7, <2>1 DEF There
  <2> QED
    BY <1>2, <1>3, <1>8, <2>2 DEF Reached
<1>9. CASE applier[s].pc \notin {"idle", "wake"}
  <2>1. PICK t : t = f[n - 1]
    OBVIOUS
  <2>2. PICK u : u = f[n]
    OBVIOUS
  <2>3. OnTheWay(s, t, u)
    BY <1>2, <1>9, <2>1, <2>2 DEF Reached
  <2>4. PICK w : w = IF applier[s].pc = "index" THEN u ELSE t
    OBVIOUS
  <2>5. SameIds(s, w)'
    BY <1>7, <2>3, <2>4 DEF OnTheWay
  <2>6. OnTheWay(s, t, u)'
    BY <2>3, <2>4, <2>5 DEF OnTheWay, Known
  <2>7. g[n - 1] = t /\ g[n] = u
    BY <1>3, <1>5, <1>9, <2>1, <2>2
  <2> QED
    BY <1>2, <1>9, <2>6, <2>7 DEF Reached
<1> QED
  BY <1>8, <1>9

\* When nothing is committed the run of the log stays.
LEMMA RunsStill ==
    ASSUME EntryInv, Goes, committed' = committed, NEW f, Runs(f)
    PROVE  Runs(f)'
<1>1. committed \in Nat /\ \A i \in 1..committed : log'[i] = log[i]
  BY DEF EntryInv, Goes
<1> QED
  BY <1>1 DEF Runs, After, Known, Blank

\* The entry that the thread of s works on takes the tables from t to u.
LEMMA RunThread ==
    ASSUME KvInv, NEW s \in Server, NEW f, Runs(f), Reached(s, f),
           applier[s].pc \notin {"idle", "wake"},
           NEW op, op = applier[s].op, NEW n, n = Len(handed[s])
    PROVE  /\ OnTheWay(s, f[n - 1], f[n])
           /\ f[n].kvdb = ExecutePutAppend(f[n - 1].kvdb, op)
           /\ IsFeature(op) => f[n].index = ApplyToIndex(f[n - 1].index, op)
           /\ ~IsFeature(op) => f[n].index = f[n - 1].index
           /\ f[n].ids[op.client] = op.req
           /\ \A c \in Client : c # op.client => f[n].ids[c] = f[n - 1].ids[c]
           /\ op \in Operation /\ op.client \in Client
<1>1. /\ op \in Operation /\ n \in 1..committed /\ op = log[n] /\ Issued(op)
  BY ThreadOp DEF KvInv
<1>2. committed \in Nat
  BY DEF KvInv, EntryInv
<1>3. n - 1 \in 0..committed
  BY <1>1, <1>2
<1>4. PICK t : t = f[n - 1]
  OBVIOUS
<1>5. t.ids \in [Client -> Nat] /\ f[n] = After(t, op)
  BY <1>1, <1>3, <1>4 DEF Runs
<1>6. OnTheWay(s, t, f[n])
  BY <1>4 DEF Reached
<1>7. ~Known(t, op)
  BY <1>6 DEF OnTheWay
<1>8. op.client \in Client
  BY <1>1 DEF Operation
<1>9. /\ f[n].kvdb = ExecutePutAppend(t.kvdb, op)
      /\ IsFeature(op) => f[n].index = ApplyToIndex(t.index, op)
      /\ ~IsFeature(op) => f[n].index = t.index
      /\ f[n].ids[op.client] = op.req
      /\ \A c \in Client : c # op.client => f[n].ids[c] = t.ids[c]
  <2>1. PICK u : u = After(t, op)
    OBVIOUS
  <2>2. /\ u.kvdb = ExecutePutAppend(t.kvdb, op)
        /\ IsFeature(op) => u.index = ApplyToIndex(t.index, op)
        /\ ~IsFeature(op) => u.index = t.index
        /\ u.ids[op.client] = op.req
        /\ \A c \in Client : c # op.client => u.ids[c] = t.ids[c]
    BY <1>1, <1>5, <1>7, <2>1, AfterOK
  <2> QED
    BY <1>5, <2>1, <2>2
<1> QED
  BY <1>1, <1>4, <1>6, <1>8, <1>9

\* An entry is a duplicate for a server that is where the run is, if it is one
\* for the run.
LEMMA RunCheck ==
    ASSUME KvInv, Away, NEW s \in Server, ApplyCheck(s), NEW f, Runs(f),
           \A p \in Server : Reached(p, f)
    PROVE  Runs(f)' /\ \A p \in Server : Reached(p, f)'
<1>1. PICK n : n = Len(handed'[s])
  OBVIOUS
<1>2. /\ Calm /\ n \in 1..committed /\ applier[s].pc = "idle" /\ n = Len(handed[s]) + 1
      /\ applier'[s].op = log[n]
      /\ applier'[s].pc = IF ifRequestDuplicate(s, log[n]) THEN "wake" ELSE "execute"
      /\ \A p \in Server : p # s => applier'[p] = applier[p] /\ handed'[p] = handed[p]
      /\ UNCHANGED <<committed, kvdb, index, lastRequests>>
  BY <1>1, ApplyCheckOK
<1>3. Goes /\ EntryInv /\ ClerkInv
  BY <1>2 DEF Calm, KvInv
<1>4. committed \in 0..Len(log) /\ Len(log) \in Nat /\ Len(handed[s]) \in Nat
  BY <1>3 DEF EntryInv
<1>5. PICK op : op = log[n]
  OBVIOUS
<1>6. Issued(op) /\ op.kind # "Get"
  BY <1>2, <1>3, <1>4, <1>5 DEF EntryInv
<1>7. op \in Operation /\ op.client \in Client /\ Writes(op.client)
  BY <1>3, <1>6, IssuedOK, IssuedWrites
<1>8. PICK t : t = f[n - 1]
  OBVIOUS
<1>9. n - 1 = Len(handed[s]) /\ n - 1 \in 0..committed
  BY <1>2, <1>4
<1>10. t.ids \in [Client -> Nat] /\ f[n] = After(t, op)
  BY <1>2, <1>5, <1>8, <1>9 DEF Runs
<1>11. There(s, t)
  BY <1>2, <1>8, <1>9 DEF Reached
<1>12. ifRequestDuplicate(s, op) <=> Known(t, op)
  BY <1>7, <1>11 DEF There, SameIds, ifRequestDuplicate, Known
<1>13. \A c \in Client : Writes(c)' <=> Writes(c)
  BY <1>3 DEF Writes, Goes
<1>14. SameIds(s, t)'
  BY <1>2, <1>11, <1>13 DEF There, SameIds
<1>15. Reached(s, f)'
  <2>1. CASE Known(t, op)
    <3>1. f[n] = t
      BY <1>7, <1>10, <2>1, AfterOK
    <3>2. There(s, t)'
      BY <1>2, <1>11, <1>14 DEF There
    <3>3. applier'[s].pc = "wake"
      BY <1>2, <1>5, <1>12, <2>1
    <3> QED
      BY <1>1, <3>1, <3>2, <3>3 DEF Reached
  <2>2. CASE ~Known(t, op)
    <3>1. applier'[s].pc = "execute"
      BY <1>2, <1>5, <1>12, <2>2
    <3>2. PICK u : u = f[n]
      OBVIOUS
    <3>3. OnTheWay(s, t, u)'
      BY <1>2, <1>5, <1>11, <1>14, <2>2, <3>1 DEF There, OnTheWay, Known
    <3> QED
      BY <1>1, <1>8, <3>1, <3>2, <3>3 DEF Reached
  <2> QED
    BY <2>1, <2>2
<1>16. ASSUME NEW p \in Server, p # s PROVE Reached(p, f)'
  BY <1>2, <1>3, <1>16, ReachedStill
<1> QED
  BY <1>2, <1>3, <1>15, <1>16, RunsStill

\* The execution of an entry brings the SkipList on the way,
LEMMA RunExecute ==
    ASSUME KvInv, Away, NEW s \in Server, ApplyExecute(s), NEW f, Runs(f),
           \A p \in Server : Reached(p, f)
    PROVE  Runs(f)' /\ \A p \in Server : Reached(p, f)'
<1>1. PICK op : op = applier[s].op
  OBVIOUS
<1>2. /\ Calm /\ applier[s].pc = "execute" /\ applier'[s].pc = "record"
      /\ applier'[s].op = op
      /\ \A p \in Server : p # s => applier'[p] = applier[p]
      /\ UNCHANGED <<committed, handed, lastRequests>>
  BY <1>1, ApplyExecuteOK
<1>3. Goes /\ EntryInv
  BY <1>2 DEF Calm, KvInv
<1>4. index' = index /\ kvdb' = [kvdb EXCEPT ![s] = ExecutePutAppend(kvdb[s], op)]
  BY <1>1 DEF ApplyExecute
<1>5. /\ kvdb'[s] = ExecutePutAppend(kvdb[s], op)
      /\ \A p \in Server : p # s => kvdb'[p] = kvdb[p]
  BY <1>4 DEF KvInv, TableInv
<1>6. PICK n : n = Len(handed[s])
  OBVIOUS
<1>7. PICK t, u : t = f[n - 1] /\ u = f[n]
  OBVIOUS
<1>8. OnTheWay(s, t, u) /\ u.kvdb = ExecutePutAppend(t.kvdb, op)
  BY <1>1, <1>2, <1>6, <1>7, RunThread
<1>9. \A c \in Client : Writes(c)' <=> Writes(c)
  BY <1>3 DEF Writes, Goes
<1>10. SameIds(s, t)'
  BY <1>2, <1>8, <1>9 DEF OnTheWay, SameIds
<1>11. OnTheWay(s, t, u)'
  BY <1>1, <1>2, <1>4, <1>5, <1>8, <1>10 DEF OnTheWay, Known
<1>12. Reached(s, f)'
  BY <1>2, <1>6, <1>7, <1>11 DEF Reached
<1>13. ASSUME NEW p \in Server, p # s PROVE Reached(p, f)'
  BY <1>2, <1>3, <1>4, <1>5, <1>13, ReachedStill
<1> QED
  BY <1>2, <1>3, <1>12, <1>13, RunsStill

\* its record the request numbers,
LEMMA RunRecord ==
    ASSUME KvInv, Away, NEW s \in Server, ApplyRecord(s), NEW f, Runs(f),
           \A p \in Server : Reached(p, f)
    PROVE  Runs(f)' /\ \A p \in Server : Reached(p, f)'
<1>1. PICK op : op = applier[s].op
  OBVIOUS
<1>2. /\ Calm /\ applier[s].pc = "record"
      /\ applier'[s].pc = IF IsFeature(op) THEN "index" ELSE "wake"
      /\ applier'[s].op = op
      /\ \A p \in Server : p # s => applier'[p] = applier[p]
      /\ lastRequests'[s][op.client].id = op.req
      /\ \A p \in Server, c \in Client :
            p # s \/ c # op.client => lastRequests'[p][c] = lastRequests[p][c]
      /\ UNCHANGED <<committed, handed>>
  BY <1>1, ApplyRecordOK
<1>3. Goes /\ EntryInv
  BY <1>2 DEF Calm, KvInv
<1>4. UNCHANGED <<kvdb, index>>
  BY DEF ApplyRecord
<1>5. PICK n : n = Len(handed[s])
  OBVIOUS
<1>6. PICK t, u : t = f[n - 1] /\ u = f[n]
  OBVIOUS
<1>7. /\ u.ids[op.client] = op.req
      /\ \A c \in Client : c # op.client => u.ids[c] = t.ids[c]
  BY <1>1, <1>2, <1>5, <1>6, RunThread
<1>8. OnTheWay(s, t, u) /\ (~IsFeature(op) => u.index = t.index)
  BY <1>1, <1>2, <1>5, <1>6, RunThread
<1>9. \A c \in Client : Writes(c)' <=> Writes(c)
  BY <1>3 DEF Writes, Goes
<1>10. SameIds(s, t)
  BY <1>2, <1>8 DEF OnTheWay
<1>11. SameIds(s, u)'
  BY <1>2, <1>7, <1>9, <1>10 DEF SameIds
<1>12. kvdb[s] = u.kvdb /\ index[s] = t.index /\ ~Known(t, op)
  BY <1>1, <1>2, <1>8 DEF OnTheWay
<1>13. Reached(s, f)'
  <2>1. CASE IsFeature(op)
    <3>1. applier'[s].pc = "index"
      BY <1>2, <2>1
    <3>2. OnTheWay(s, t, u)'
      BY <1>2, <1>4, <1>11, <1>12, <3>1 DEF OnTheWay, Known
    <3> QED
      BY <1>2, <1>5, <1>6, <3>1, <3>2 DEF Reached
  <2>2. CASE ~IsFeature(op)
    <3>1. applier'[s].pc = "wake"
      BY <1>2, <2>2
    <3>2. There(s, u)'
      BY <1>4, <1>8, <1>11, <1>12, <2>2 DEF There
    <3> QED
      BY <1>2, <1>5, <1>6, <3>1, <3>2 DEF Reached
  <2> QED
    BY <2>1, <2>2
<1>14. ASSUME NEW p \in Server, p # s PROVE Reached(p, f)'
  <2>1. \A c \in Client : lastRequests'[p][c].id = lastRequests[p][c].id
    BY <1>2, <1>14
  <2> QED
    BY <1>2, <1>3, <1>4, <1>14, <2>1, ReachedStill
<1> QED
  BY <1>2, <1>3, <1>13, <1>14, RunsStill

\* the features the index;
LEMMA RunIndex ==
    ASSUME KvInv, Away, NEW s \in Server, ApplyIndex(s), NEW f, Runs(f),
           \A p \in Server : Reached(p, f)
    PROVE  Runs(f)' /\ \A p \in Server : Reached(p, f)'
<1>1. PICK op : op = applier[s].op
  OBVIOUS
<1>2. /\ Calm /\ applier[s].pc = "index" /\ applier'[s].pc = "wake"
      /\ \A p \in Server : p # s => applier'[p] = applier[p]
      /\ UNCHANGED <<committed, handed, lastRequests>>
  BY <1>1, ApplyIndexOK
<1>3. Goes /\ EntryInv /\ IsFeature(op)
  BY <1>1, <1>2 DEF Calm, KvInv, ThreadInv
<1>4. kvdb' = kvdb /\ index' = [index EXCEPT ![s] = ApplyToIndex(index[s], op)]
  BY <1>1 DEF ApplyIndex
<1>5. /\ index'[s] = ApplyToIndex(index[s], op)
      /\ \A p \in Server : p # s => index'[p] = index[p]
  BY <1>4 DEF KvInv, TableInv
<1>6. PICK n : n = Len(handed[s])
  OBVIOUS
<1>7. PICK t, u : t = f[n - 1] /\ u = f[n]
  OBVIOUS
<1>8. OnTheWay(s, t, u) /\ u.index = ApplyToIndex(t.index, op)
  BY <1>1, <1>2, <1>3, <1>6, <1>7, RunThread
<1>9. \A c \in Client : Writes(c)' <=> Writes(c)
  BY <1>3 DEF Writes, Goes
<1>10. SameIds(s, u)'
  BY <1>2, <1>8, <1>9 DEF OnTheWay, SameIds
<1>11. There(s, u)'
  BY <1>2, <1>4, <1>5, <1>8, <1>10 DEF OnTheWay, There
<1>12. Reached(s, f)'
  BY <1>2, <1>6, <1>7, <1>11 DEF Reached
<1>13. ASSUME NEW p \in Server, p # s PROVE Reached(p, f)'
  BY <1>2, <1>3, <1>4, <1>5, <1>13, ReachedStill
<1> QED
  BY <1>2, <1>3, <1>12, <1>13, RunsStill

\* the thread rests where the run is.
LEMMA RunWake ==
    ASSUME KvInv, Away, NEW s \in Server, ApplyWake(s), NEW f, Runs(f),
           \A p \in Server : Reached(p, f)
    PROVE  Runs(f)' /\ \A p \in Server : Reached(p, f)'
<1>1. /\ Calm /\ applier[s].pc = "wake" /\ applier'[s].pc = "idle"
      /\ \A p \in Server : p # s => applier'[p] = applier[p]
      /\ UNCHANGED <<committed, handed, lastRequests>>
  BY ApplyWakeOK
<1>2. Goes /\ EntryInv
  BY <1>1 DEF Calm, KvInv
<1>3. UNCHANGED <<kvdb, index>>
  BY DEF ApplyWake, tableVars
<1>4. PICK u : u = f[Len(handed[s])]
  OBVIOUS
<1>5. There(s, u)
  BY <1>1, <1>4 DEF Reached
<1>6. \A c \in Client : Writes(c)' <=> Writes(c)
  BY <1>2 DEF Writes, Goes
<1>7. There(s, u)'
  BY <1>1, <1>3, <1>5, <1>6 DEF There, SameIds
<1>8. Reached(s, f)'
  BY <1>1, <1>4, <1>7 DEF Reached
<1>9. ASSUME NEW p \in Server, p # s PROVE Reached(p, f)'
  BY <1>1, <1>2, <1>3, <1>9, ReachedStill
<1> QED
  BY <1>1, <1>2, <1>8, <1>9, RunsStill

\* A read is recorded for a client that does not write.
LEMMA RunHandler ==
    ASSUME KvInv, ReadersOnlyRead, Away, NEW m \in calls, HandlerStep(m), NEW f, Runs(f),
           \A p \in Server : Reached(p, f)
    PROVE  Runs(f)' /\ \A p \in Server : Reached(p, f)'
<1>1. Goes /\ RecordsReads /\ UNCHANGED <<committed, applier, handed>>
  BY HandlerStepOK DEF HandlerKeeps, Calm
<1>2. UNCHANGED <<kvdb, index>>
  BY DEF HandlerStep, PutStart, PutRegister, PutPop, PutTimeout, GetCheck, GetCached,
         GetRead, GetRecord, serverVars, tableVars
<1>3. EntryInv /\ ClerkInv
  BY DEF KvInv
<1>4. ASSUME NEW p \in Server, NEW c \in Client, Writes(c)
      PROVE  lastRequests'[p][c].id = lastRequests[p][c].id
  <2>1. PICK id : id = lastRequests'[p][c].id
    OBVIOUS
  <2>2. \/ lastRequests'[p][c] = lastRequests[p][c]
        \/ OpOf(c, id).kind = "Get" /\ id \in 1..clerk[c].req
    BY <1>1, <2>1 DEF RecordsReads
  <2>3. CASE OpOf(c, id).kind = "Get" /\ id \in 1..clerk[c].req
    <3>1. id \in DOMAIN scenario.program[c] /\ scenario.program[c][id].kind = "Get"
      BY <1>3, <2>3, OpOfOK
    <3> QED
      BY <1>4, <3>1 DEF Writes, ReadersOnlyRead
  <2> QED
    BY <2>2, <2>3
<1>5. \A p \in Server : Reached(p, f)'
  BY <1>1, <1>2, <1>4, ReachedStill
<1> QED
  BY <1>1, <1>3, <1>5, RunsStill

\* A restarted server is where the run begins.
LEMMA RunRestart ==
    ASSUME KvInv, NEW s \in Server, Restart(s), NEW f, Runs(f),
           \A p \in Server : Reached(p, f)
    PROVE  Runs(f)' /\ \A p \in Server : Reached(p, f)'
<1>1. /\ Goes /\ applier'[s].pc = "idle" /\ handed'[s] = <<>>
      /\ \A c \in Client : lastRequests'[s][c].id = 0
      /\ \A p \in Server : p # s =>
            /\ applier'[p] = applier[p] /\ handed'[p] = handed[p]
            /\ lastRequests'[p] = lastRequests[p]
      /\ committed' = committed
  BY RestartOK
<1>2. EntryInv /\ TableInv
  BY DEF KvInv
<1>3. kvdb' = [kvdb EXCEPT ![s] = NoKeys] /\ index' = [index EXCEPT ![s] = NoKeys]
  BY DEF Restart, ServerRestart
<1>4. /\ kvdb'[s] = NoKeys /\ index'[s] = NoKeys
      /\ \A p \in Server : p # s => kvdb'[p] = kvdb[p] /\ index'[p] = index[p]
  BY <1>2, <1>3 DEF TableInv
<1>5. f[0] = Blank /\ Blank.kvdb = NoKeys /\ Blank.index = NoKeys
      /\ \A c \in Client : Blank.ids[c] = 0
  BY DEF Runs, Blank
<1>6. PICK u : u = f[0]
  OBVIOUS
<1>7. There(s, u)'
  BY <1>1, <1>4, <1>5, <1>6 DEF There, SameIds
<1>8. Len(handed'[s]) = 0
  BY <1>1
<1>9. Reached(s, f)'
  BY <1>1, <1>6, <1>7, <1>8 DEF Reached
<1>10. ASSUME NEW p \in Server, p # s PROVE Reached(p, f)'
  BY <1>1, <1>4, <1>10, ReachedStill
<1> QED
  BY <1>1, <1>2, <1>9, <1>10, RunsStill

\* Every step keeps the run.
LEMMA RunStep ==
    ASSUME KvInv, KvInv', RunInv, [KvNext]_kvVars
    PROVE  RunInv'
<1> SUFFICES ASSUME ReadersOnlyRead' PROVE \E g : Runs(g)' /\ \A s \in Server : Reached(s, g)'
  BY DEF RunInv
<1>1. ReadersOnlyRead
  BY ReadersBefore
<1>2. PICK f : Runs(f) /\ \A s \in Server : Reached(s, f)
  BY <1>1 DEF RunInv
<1>3. ASSUME Elsewhere PROVE \E g : Runs(g)' /\ \A s \in Server : Reached(s, g)'
  <2>1. EntryInv /\ EntryInv'
    BY DEF KvInv
  <2>2. PICK g : Runs(g)' /\ \A n \in 0..committed : g[n] = f[n]
    BY <1>2, <1>3, <2>1, RunsOn DEF Elsewhere
  <2>3. \A s \in Server : Reached(s, g)'
    BY <1>2, <1>3, <2>2, ReachedStill DEF Elsewhere
  <2> QED
    BY <2>2, <2>3
<1>4. ASSUME ~Elsewhere PROVE Runs(f)' /\ \A s \in Server : Reached(s, f)'
  BY <1>1, <1>2, <1>4, ServerSteps, RunHandler, RunCheck, RunExecute, RunRecord,
     RunIndex, RunWake, RunRestart
<1> QED
  BY <1>3, <1>4

\* The run of an empty log.
LEMMA RunStarts ==
    ASSUME KvInit
    PROVE  RunInv
<1>1. /\ applier = [s \in Server |-> NoRequest] /\ handed = [s \in Server |-> <<>>]
      /\ kvdb = [s \in Server |-> NoKeys] /\ index = [s \in Server |-> NoKeys]
      /\ lastRequests = [s \in Server |-> [c \in Client |-> NoRecord]]
      /\ committed = 0
  BY DEF KvInit, ServerInit, LogInit
<1>2. PICK f : f = [n \in 0..0 |-> Blank]
  OBVIOUS
<1>3. f[0] = Blank /\ Blank.kvdb = NoKeys /\ Blank.index = NoKeys
      /\ Blank.ids \in [Client -> Nat] /\ \A c \in Client : Blank.ids[c] = 0
  BY <1>2 DEF Blank
<1>4. Runs(f)
  BY <1>1, <1>3 DEF Runs
<1>5. ASSUME NEW s \in Server PROVE Reached(s, f)
  <2>1. applier[s].pc = "idle" /\ Len(handed[s]) = 0
    BY <1>1 DEF NoRequest
  <2>2. There(s, Blank)
    BY <1>1, <1>3 DEF There, SameIds, NoRecord
  <2> QED
    BY <1>3, <2>1, <2>2 DEF Reached
<1> QED
  BY <1>4, <1>5 DEF RunInv

\* When no client both reads and writes, servers that have been handed the same
\* entries have the same SkipList and the same features (ReplicasAgree): what the
\* tables are depends on the log alone, whatever the elections, the restarts and
\* the repeated calls were.  A client that reads and writes breaks this: each
\* server takes another entry for a duplicate.
THEOREM ReplicasAlike == KvSpec => [](ReadersOnlyRead => ReplicasAgree)
<1>1. KvInit => RunInv
  BY RunStarts
<1>2. KvInv /\ KvInv' /\ RunInv /\ [KvNext]_kvVars => RunInv'
  BY RunStep
<1>3. RunInv => (ReadersOnlyRead => ReplicasAgree)
  <2> SUFFICES ASSUME RunInv, ReadersOnlyRead, NEW s \in Server, NEW p \in Server,
                      applier[s].pc = "idle", applier[p].pc = "idle", handed[s] = handed[p]
               PROVE  kvdb[s] = kvdb[p] /\ index[s] = index[p]
    BY DEF ReplicasAgree
  <2>1. PICK f : \A q \in Server : Reached(q, f)
    BY DEF RunInv
  <2>2. There(s, f[Len(handed[s])]) /\ There(p, f[Len(handed[p])])
    BY <2>1 DEF Reached
  <2> QED
    BY <2>2 DEF There
<1> QED
  BY <1>1, <1>2, <1>3, KvInvariance, PTL DEF KvSpec
=============================================================================

----------------------------- MODULE KvService -----------------------------
(***************************************************************************)
(* Clients (Clerk/clerk.cpp) and servers together.  A Clerk makes one      *)
(* request after the other and repeats each until it is answered; a call   *)
(* that failed for the Clerk may still be handled, now or much later.      *)
(***************************************************************************)
EXTENDS KvServer

CONSTANT
    Scenarios     \* what the clients may ask for, and how often what may happen

VARIABLES
    scenario,     \* program[c]: the requests of client c, in order; retries[c]:
                  \* bound on its repeated calls; fails: kMaxRetry; entries,
                  \* elections, restarts: bounds on the log, the elections and the restarts
    clerk,        \* clerk[c]: the request in progress and how it stands
    acked,        \* history: the writes a Clerk returned from with OK
    elections, restarts

Kinds   == {"Put", "Append", "PutFeature", "DeleteFeature", "Get"}
Request == {q \in [kind : Kinds, key : Key, value : Datum \cup {Nil}] :
               q.kind \in {"Put", "Append", "PutFeature"} => q.value \in Datum}
Operation == [kind : Kinds, key : Key, value : Datum \cup {Nil}, client : Client,
              req : Nat]

ASSUME ScenarioAssumption ==
    \A sc \in Scenarios, c \in Client : sc.program[c] \in Seq(Request)
ASSUME KvBounds == MaxLog \in Nat /\ Nil \notin Seq(Operation)

kvVars == <<logVars, serverVars, calls, scenario, clerk, acked, elections, restarts>>

OpOf(c, r) ==
    [kind |-> scenario.program[c][r].kind, key |-> scenario.program[c][r].key,
     value |-> scenario.program[c][r].value, client |-> c, req |-> r]

-----------------------------------------------------------------------------
(* Clerk *)

\* One round of the loop for request r: a call to the server that the service
\* discovery names, whichever that is.
SendCall(c, r, s) ==
    /\ clerk[c].call < Len(scenario.program[c]) + scenario.retries[c]
    /\ calls' = calls \cup {[op |-> OpOf(c, r), server |-> s,
                             call |-> clerk[c].call + 1, waiting |-> TRUE,
                             pc |-> "arrived", index |-> 0, value |-> Nil,
                             err |-> Nil]}
    /\ UNCHANGED <<logVars, serverVars, acked, elections, restarts, scenario>>

\* Put, Get or PutFeature is called.
NewRequest(c, s) ==
    LET r == clerk[c].req + 1 IN
    /\ clerk[c].pc = "idle" /\ r <= Len(scenario.program[c])
    /\ SendCall(c, r, s)
    /\ clerk' = [clerk EXCEPT ![c] = [pc |-> "waiting", req |-> r, fails |-> 0,
                                      call |-> @.call + 1]]

\* The loop goes round again.
Retry(c, s) ==
    /\ clerk[c].pc = "ready"
    /\ SendCall(c, clerk[c].req, s)
    /\ clerk' = [clerk EXCEPT ![c].pc = "waiting", ![c].call = @ + 1]

\* The answer: OK and ErrNoKey end the request, ErrWrongLeader repeats it.
ReceiveReply(c) ==
    \E m \in calls :
        /\ m.op.client = c /\ m.waiting /\ m.pc = "replied"
        /\ calls' = calls \ {m}
        /\ clerk' = [clerk EXCEPT ![c].fails = 0, ![c].pc =
                        IF m.err = "ErrWrongLeader" THEN "ready" ELSE "idle"]
        /\ acked' = IF m.err = "OK" /\ m.op.kind # "Get"
                    THEN acked \cup {m.op} ELSE acked
        /\ UNCHANGED <<logVars, serverVars, elections, restarts, scenario>>

\* The call fails or times out.  After too many failures the Clerk returns as
\* if nothing had happened.
RpcFail(c) ==
    /\ clerk[c].pc = "waiting"
    /\ clerk' = [clerk EXCEPT ![c].fails = @ + 1, ![c].pc =
                    IF clerk[c].fails + 1 > scenario.fails THEN "idle" ELSE "ready"]
    /\ calls' = {IF m.op.client = c THEN [m EXCEPT !.waiting = FALSE] ELSE m :
                    m \in {n \in calls : n.op.client = c => n.pc # "replied"}}
    /\ UNCHANGED <<logVars, serverVars, acked, elections, restarts, scenario>>

-----------------------------------------------------------------------------
(* Raft *)

Commit ==
    /\ LogCommit(committed + 1)
    /\ UNCHANGED <<serverVars, calls, clerk, acked, elections, restarts, scenario>>

Elect(s) ==
    /\ elections < scenario.elections
    /\ elections' = elections + 1
    /\ \E n \in 0..Len(log) : LogElect(s, n)
    /\ UNCHANGED <<serverVars, calls, clerk, acked, restarts, scenario>>

Restart(s) ==
    /\ restarts < scenario.restarts
    /\ restarts' = restarts + 1
    /\ ServerRestart(s)
    /\ UNCHANGED <<clerk, acked, elections, scenario>>

-----------------------------------------------------------------------------

KvInit ==
    /\ ServerInit
    /\ scenario \in Scenarios
    /\ clerk = [c \in Client |-> [pc |-> "idle", req |-> 0, fails |-> 0, call |-> 0]]
    /\ acked = {}
    /\ elections = 0 /\ restarts = 0

KvNext ==
    \/ \E c \in Client : ReceiveReply(c) \/ RpcFail(c)
    \/ \E c \in Client, s \in Server : NewRequest(c, s) \/ Retry(c, s)
    \/ ServerStep /\ Len(log') <= scenario.entries
                  /\ UNCHANGED <<clerk, acked, elections, restarts, scenario>>
    \/ Commit
    \/ \E s \in Server : Elect(s) \/ Restart(s)

KvSpec == KvInit /\ [][KvNext]_kvVars

-----------------------------------------------------------------------------
(* Properties *)

Stored == Seq(Datum) \cup {Nil}
Call == [op : Operation, server : Server, call : Nat, waiting : BOOLEAN,
         index : 0..MaxLog, value : Stored,
         err : {"OK", "ErrNoKey", "ErrWrongLeader", Nil},
         pc : {"arrived", "register", "wait", "cached", "read", "record", "replied"}]

\* Every variable keeps its type.
KvTypeOK ==
    /\ log \in Seq(Operation) /\ committed \in 0..Len(log) /\ Len(log) <= MaxLog
    /\ leader \in Server \cup {Nil}
    /\ handed \in [Server -> Seq(Operation)]
    /\ kvdb \in [Server -> [Key -> Stored]]
    /\ index \in [Server -> [Key -> Stored]]
    /\ lastRequests \in [Server -> [Client -> [id : Nat, value : Stored]]]
    /\ waitApplyCh \in [Server -> [1..MaxLog -> Seq(Operation) \cup {Nil}]]
    /\ applier \in [Server -> [pc : {"idle", "execute", "record", "index", "wake"},
                               op : Operation \cup {Nil}]]
    /\ executed \in [Server -> Seq(Operation)]
    /\ calls \subseteq Call
    /\ clerk \in [Client -> [pc : {"idle", "ready", "waiting"},
                             req : Nat, fails : Nat, call : Nat]]
    /\ acked \subseteq Operation
    /\ scenario \in Scenarios

\* No process executes a request twice, and it executes the requests of one
\* client in their order, however often the Clerk repeats them.
ExecutedInOrder ==
    \A s \in Server : \A i, j \in DOMAIN executed[s] :
        i < j /\ executed[s][i].client = executed[s][j].client
            => executed[s][i].req < executed[s][j].req

\* Servers that have been handed the same entries have the same data.
ReplicasAgree ==
    \A s, p \in Server :
        /\ applier[s].pc = "idle" /\ applier[p].pc = "idle"
        /\ handed[s] = handed[p]
        => kvdb[s] = kvdb[p] /\ index[s] = index[p]

\* A write that a Clerk returned from with OK is committed.
AckedIsCommitted ==
    \A op \in acked : \E i \in 1..committed : log[i] = op

\* A server that has been handed an acknowledged write has executed it.
AckedIsExecuted ==
    \A op \in acked, s \in Server :
        applier[s].pc = "idle" /\ (\E i \in DOMAIN handed[s] : handed[s][i] = op)
            => \E i \in DOMAIN executed[s] : executed[s][i] = op

\* While one Leader reigns, its SkipList contains every acknowledged Put and
\* Append, so what it answers to a Get is not older.  A PutFeature is recorded
\* before it is in the index: a handler that times out in between answers OK
\* for a feature that no Search finds yet.
LeaderHasAcked ==
    leader # Nil /\ elections <= 1 =>
        \A op \in acked : ~IsFeature(op) =>
            \E i \in DOMAIN executed[leader] : executed[leader][i] = op

=============================================================================

--------------------------- MODULE ReplicatedLog ---------------------------
(***************************************************************************)
(* What KvServer takes Raft for: one log that the Leader appends to, whose *)
(* committed entries never change and reach every server in order.         *)
(* Raft.tla implements it while one Leader reigns (ImplementsLog, proved   *)
(* in ReignProofs); a change of Leader may break it (run diverge).         *)
(***************************************************************************)
EXTENDS Integers, Sequences

CONSTANTS
    Server,
    LogEntry,    \* what LogNext may append; KvServer appends its own operations
    Nil

VARIABLES
    log,         \* the Leader's log
    committed,   \* how much of it is committed
    leader,      \* the Leader, or Nil
    handed       \* handed[s]: what was handed to the state machine of s

logVars == <<log, committed, leader, handed>>

LogInit ==
    /\ log = <<>>
    /\ committed = 0
    /\ leader = Nil
    /\ handed = [s \in Server |-> <<>>]

\* The Leader appends an entry.
LogAppend(op) ==
    /\ leader # Nil
    /\ log' = Append(log, op)
    /\ UNCHANGED <<committed, leader, handed>>

\* More of the log becomes committed.
LogCommit(n) ==
    /\ n \in (committed + 1)..Len(log)
    /\ committed' = n
    /\ UNCHANGED <<log, leader, handed>>

\* Committed entries are handed to the state machine of s, in order.
LogDeliver(s, n) ==
    /\ n \in (Len(handed[s]) + 1)..committed
    /\ handed' = [handed EXCEPT ![s] = SubSeq(log, 1, n)]
    /\ UNCHANGED <<log, committed, leader>>

\* Another Leader takes over and keeps at least what is committed.
LogElect(s, n) ==
    /\ s # leader
    /\ n \in committed..Len(log)
    /\ log' = SubSeq(log, 1, n)
    /\ leader' = s
    /\ UNCHANGED <<committed, handed>>

\* A new process of s is handed everything again.
LogRestart(s) ==
    /\ handed' = [handed EXCEPT ![s] = <<>>]
    /\ leader' = IF leader = s THEN Nil ELSE leader
    /\ UNCHANGED <<log, committed>>

LogNext ==
    \/ \E op \in LogEntry : LogAppend(op)
    \/ \E n \in 1..Len(log) : LogCommit(n)
    \/ \E s \in Server :
        \/ \E n \in 1..Len(log) : LogDeliver(s, n)
        \/ \E n \in 0..Len(log) : LogElect(s, n)
        \/ LogRestart(s)

LogSpec == LogInit /\ [][LogNext]_logVars

=============================================================================

----------------------------- MODULE Persister -----------------------------
(***************************************************************************)
(* The Persister of Raft/raft.h: persist() hands the new state to an I/O   *)
(* thread and waits until that thread has flushed it.  All callers hold    *)
(* Raft::m_mtx for the whole of persist(), so there is one save at a time; *)
(* the two condition variables and the process's death are what is hard.   *)
(* Snapshots are never saved by this program.                              *)
(***************************************************************************)
EXTENDS Integers

CONSTANTS
    Value,       \* the serialized states that are saved
    Nil,         \* nothing: an empty or absent file, nothing pending
    MaxSaves,    \* bound on the saves of one process
    MaxCrashes   \* bound on the deaths of the process

ASSUME NilNoValue == Nil \notin Value
ASSUME PersisterBounds == MaxSaves \in Nat /\ MaxCrashes \in Nat

VARIABLES
    file,        \* the file of the Raft state
    raftState,   \* m_raftState
    pending,     \* m_pendingRaftState while m_hasPendingRaft, or Nil
    nextSeq, flushedSeq, pendingSeq,
    caller,      \* the thread inside SaveRaftState and WaitFlushed
    writer,      \* the thread of WorkLoop
    failed,      \* history: did the last write of this process fail?
    crashes

seqVars == <<nextSeq, flushedSeq, pendingSeq>>
pVars == <<file, raftState, pending, seqVars, caller, writer, failed, crashes>>

CallerPc == {"idle", "push", "notify", "wait", "asleep"}
WriterPc == {"check", "asleep", "write", "rename", "flushed"}
Idle     == [pc |-> "idle", value |-> Nil, seq |-> 0]
NoWrite  == [pc |-> "check", value |-> Nil, seq |-> 0]

\* The type of every variable.
PTypeOK ==
    /\ file \in Value \cup {Nil}
    /\ raftState \in Value \cup {Nil}
    /\ pending \in Value \cup {Nil}
    /\ nextSeq \in Nat /\ flushedSeq \in Nat /\ pendingSeq \in Nat
    /\ caller \in [pc : CallerPc, value : Value \cup {Nil}, seq : Nat]
    /\ writer \in [pc : WriterPc, value : Value \cup {Nil}, seq : Nat]
    /\ failed \in BOOLEAN /\ crashes \in Nat

-----------------------------------------------------------------------------
(* Mutants *)

Mutant_Flushed(seq) == flushedSeq + 1 >= seq
Mutant_Wake(pc) == pc
Mutant_WriteTmp ==
    /\ writer.pc = "write"
    /\ file' = Nil
    /\ writer' = [writer EXCEPT !.pc = "rename"]
    /\ UNCHANGED <<raftState, pending, seqVars, caller, failed, crashes>>
Mutant_WorkTake ==
    /\ writer.pc = "check"
    /\ writer' = IF pending = Nil THEN [writer EXCEPT !.pc = "asleep"]
                 ELSE [pc |-> "write", value |-> pending, seq |-> pendingSeq]
    /\ UNCHANGED <<file, raftState, pending, seqVars, caller, failed, crashes>>

-----------------------------------------------------------------------------
(* SaveRaftState and WaitFlushed *)

\* A waiting thread that is notified looks at its condition again.
Wake(pc) == IF pc = "asleep" THEN "check" ELSE pc

\* The first critical section: the copy in memory.
SaveRaftState(v) ==
    /\ caller.pc = "idle" /\ nextSeq < MaxSaves
    /\ raftState' = v
    /\ caller' = [pc |-> "push", value |-> v, seq |-> 0]
    /\ UNCHANGED <<file, pending, seqVars, writer, failed, crashes>>

\* The second, under m_ioMtx: the state is pending under a new number.
SavePush ==
    /\ caller.pc = "push"
    /\ pending' = caller.value
    /\ nextSeq' = nextSeq + 1
    /\ pendingSeq' = nextSeq + 1
    /\ caller' = [caller EXCEPT !.pc = "notify", !.seq = nextSeq + 1]
    /\ UNCHANGED <<file, raftState, flushedSeq, writer, failed, crashes>>

\* m_cv.notify_one, after the lock is released.
SaveNotify ==
    /\ caller.pc = "notify"
    /\ caller' = [caller EXCEPT !.pc = "wait"]
    /\ writer' = [writer EXCEPT !.pc = Wake(@)]
    /\ UNCHANGED <<file, raftState, pending, seqVars, failed, crashes>>

\* The condition of WaitFlushed.
Flushed(seq) == flushedSeq >= seq

WaitFlushed ==
    /\ caller.pc = "wait"
    /\ caller' = IF Flushed(caller.seq) THEN Idle
                 ELSE [caller EXCEPT !.pc = "asleep"]
    /\ UNCHANGED <<file, raftState, pending, seqVars, writer, failed, crashes>>

-----------------------------------------------------------------------------
(* WorkLoop *)

\* Takes what is pending, or sleeps.
WorkTake ==
    /\ writer.pc = "check"
    /\ writer' = IF pending = Nil THEN [writer EXCEPT !.pc = "asleep"]
                 ELSE [pc |-> "write", value |-> pending, seq |-> pendingSeq]
    /\ pending' = Nil
    /\ UNCHANGED <<file, raftState, seqVars, caller, failed, crashes>>

\* WriteFileAtomic writes and syncs the temporary file, which nobody reads.
WriteTmp ==
    /\ writer.pc = "write"
    /\ writer' = [writer EXCEPT !.pc = "rename"]
    /\ UNCHANGED <<file, raftState, pending, seqVars, caller, failed, crashes>>

\* rename replaces the file at once.
Rename ==
    /\ writer.pc = "rename"
    /\ file' = writer.value /\ failed' = FALSE
    /\ writer' = [writer EXCEPT !.pc = "flushed"]
    /\ UNCHANGED <<raftState, pending, seqVars, caller, crashes>>

\* open, write or rename fails: WriteFileAtomic returns false, and WorkLoop
\* does not look at it.
WriteFails ==
    /\ writer.pc \in {"write", "rename"}
    /\ failed' = TRUE
    /\ writer' = [writer EXCEPT !.pc = "flushed"]
    /\ UNCHANGED <<file, raftState, pending, seqVars, caller, crashes>>

\* m_flushedSeq advances and all who wait are woken, under m_ioMtx.
WorkFlushed ==
    /\ writer.pc = "flushed"
    /\ flushedSeq' = IF writer.seq > flushedSeq THEN writer.seq ELSE flushedSeq
    /\ caller' = IF caller.pc = "asleep" THEN [caller EXCEPT !.pc = "wait"]
                 ELSE caller
    /\ writer' = NoWrite
    /\ UNCHANGED <<file, raftState, pending, nextSeq, pendingSeq, failed, crashes>>

-----------------------------------------------------------------------------

\* The constructor: both threads start anew, the state is what the file holds.
Load(state) ==
    /\ raftState' = state
    /\ pending' = Nil
    /\ nextSeq' = 0 /\ flushedSeq' = 0 /\ pendingSeq' = 0
    /\ caller' = Idle /\ writer' = NoWrite /\ failed' = FALSE

Crash ==
    /\ crashes < MaxCrashes
    /\ crashes' = crashes + 1
    /\ Load(file)
    /\ UNCHANGED file

PInit ==
    /\ file = Nil /\ raftState = Nil /\ pending = Nil
    /\ nextSeq = 0 /\ flushedSeq = 0 /\ pendingSeq = 0
    /\ caller = Idle /\ writer = NoWrite
    /\ failed = FALSE /\ crashes = 0

Save == (\E v \in Value : SaveRaftState(v)) \/ SavePush \/ SaveNotify \/ WaitFlushed
Work == WorkTake \/ WriteTmp \/ Rename \/ WriteFails \/ WorkFlushed

PNext == Save \/ Work \/ Crash

PSpec == PInit /\ [][PNext]_pVars

\* Both threads keep running once a save has begun.
PFairSpec ==
    /\ PSpec
    /\ WF_pVars(SavePush \/ SaveNotify \/ WaitFlushed)
    /\ WF_pVars(Work)

-----------------------------------------------------------------------------
(* Properties *)

\* When nobody is inside persist(), the file holds what the node believes to
\* be saved, unless the last write failed: "flushed" means on disk, crashes
\* included.
SavedIsDurable == caller.pc = "idle" /\ ~failed => file = raftState

\* Where a save is while its caller waits: not yet taken by the I/O thread,
\* being written, or flushed.
Untaken ==
    /\ pending = caller.value /\ flushedSeq < nextSeq
    /\ writer.pc = "check" \/ (writer.pc = "asleep" /\ caller.pc = "notify")
Writing ==
    /\ pending = Nil /\ flushedSeq < nextSeq
    /\ writer.pc \in {"write", "rename", "flushed"}
    /\ writer.value = caller.value /\ writer.seq = nextSeq
    /\ writer.pc = "flushed" /\ ~failed => file = caller.value
Done ==
    /\ pending = Nil /\ flushedSeq = nextSeq
    /\ writer.pc \in {"check", "asleep"}
    /\ caller.pc # "asleep"
    /\ ~failed => file = caller.value

\* The inductive invariant: the numbers and both threads agree on where the
\* one save in progress is, and nobody sleeps through its notification.
PInv ==
    /\ PTypeOK
    /\ pendingSeq = nextSeq
    /\ IF caller.pc \in {"idle", "push"}
       THEN /\ pending = Nil /\ flushedSeq = nextSeq
            /\ writer.pc \in {"check", "asleep"}
       ELSE /\ caller.seq = nextSeq
            /\ Untaken \/ Writing \/ Done
    /\ IF caller.pc = "idle" THEN ~failed => file = raftState
       ELSE caller.value = raftState /\ caller.value \in Value

\* Every save returns: neither the I/O thread nor the caller misses the
\* notification it sleeps for.
SaveReturns == (caller.pc # "idle") ~> (caller.pc = "idle")

\* The Persister implements the durable cell that Raft.tla takes it for: the
\* cell changes when the file is renamed, and only then.
Cell == INSTANCE DurableCell WITH
    cell <- file,
    save <- IF caller.pc = "idle" THEN [pc |-> "none", value |-> Nil]
            ELSE [pc |-> IF caller.pc # "push" /\
                            (flushedSeq = caller.seq \/ writer.pc = "flushed")
                         THEN IF failed THEN "failed" ELSE "stored"
                         ELSE "open",
                  value |-> caller.value],
    deaths <- crashes

Implements == Cell!CellSpec

=============================================================================

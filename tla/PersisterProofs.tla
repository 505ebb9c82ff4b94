-------------------------- MODULE PersisterProofs --------------------------
(***************************************************************************)
(* Proofs about the Persister: what persist() has returned for is in the   *)
(* file unless the write failed, and the Persister implements the       *)
(* durable cell.  Both rest on PInv, which follows the one save in         *)
(* progress through the two threads.                                       *)
(***************************************************************************)
EXTENDS Persister, TLAPS

\* The invariant holds when the process starts with no file.
LEMMA PInvInit == PInit => PInv
<1> SUFFICES ASSUME PInit PROVE PInv
  OBVIOUS
<1>1. PTypeOK
  BY DEF PInit, PTypeOK, Idle, NoWrite, CallerPc, WriterPc
<1> QED BY <1>1 DEF PInit, PInv, Idle, NoWrite

\* Every step of a save keeps the invariant.
LEMMA SaveKeeps ==
    ASSUME PInv, Save
    PROVE  PInv'
<1> USE NilNoValue DEF PTypeOK, seqVars, CallerPc, WriterPc
<1>0. PTypeOK
  BY DEF PInv
<1>1. ASSUME NEW v \in Value, SaveRaftState(v) PROVE PInv'
  <2>1. /\ caller.pc = "idle" /\ caller'.pc = "push" /\ caller'.value = v
        /\ caller' \in [pc : CallerPc, value : Value \cup {Nil}, seq : Nat]
    BY <1>1 DEF SaveRaftState
  <2>2. raftState' = v /\ UNCHANGED <<file, pending, seqVars, writer, failed, crashes>>
    BY <1>1 DEF SaveRaftState
  <2>3. /\ PTypeOK /\ pendingSeq = nextSeq /\ pending = Nil
        /\ flushedSeq = nextSeq /\ writer.pc \in {"check", "asleep"}
    BY <2>1 DEF PInv
  <2>4. PTypeOK'
    BY <1>1, <2>1, <2>2, <2>3
  <2> QED BY <1>1, <2>1, <2>2, <2>3, <2>4 DEF PInv
<1>2. CASE SavePush
  <2>1. /\ caller.pc = "push" /\ caller'.pc = "notify"
        /\ caller'.value = caller.value /\ caller'.seq = nextSeq + 1
        /\ caller' \in [pc : CallerPc, value : Value \cup {Nil}, seq : Nat]
    <3>1. caller.pc = "push"
          /\ caller' = [pc |-> "notify", value |-> caller.value, seq |-> nextSeq + 1]
      BY <1>0, <1>2 DEF SavePush
    <3>2. nextSeq + 1 \in Nat /\ caller.value \in Value \cup {Nil}
      BY <1>0
    <3> QED BY <3>1, <3>2
  <2>2. /\ pending' = caller.value
        /\ nextSeq' = nextSeq + 1 /\ pendingSeq' = nextSeq + 1
        /\ UNCHANGED <<file, raftState, flushedSeq, writer, failed, crashes>>
    BY <1>2 DEF SavePush
  <2>3. /\ PTypeOK /\ flushedSeq = nextSeq /\ writer.pc \in {"check", "asleep"}
        /\ caller.value = raftState /\ caller.value \in Value
    BY <2>1 DEF PInv
  <2>4. PTypeOK'
    BY <2>1, <2>2, <2>3
  <2>5. Untaken'
    BY <2>1, <2>2, <2>3 DEF Untaken
  <2> QED BY <2>1, <2>2, <2>3, <2>4, <2>5 DEF PInv
<1>3. CASE SaveNotify
  BY <1>3 DEF SaveNotify, Wake, PInv, Untaken, Writing, Done
<1>4. CASE WaitFlushed
  BY <1>4 DEF WaitFlushed, Flushed, Idle, PInv, Untaken, Writing, Done
<1> QED BY <1>1, <1>2, <1>3, <1>4 DEF Save

\* Every step of the I/O thread keeps the invariant.
LEMMA WorkKeeps ==
    ASSUME PInv, Work
    PROVE  PInv'
<1> USE NilNoValue DEF PTypeOK, seqVars, CallerPc, WriterPc
<1>1. CASE WorkTake
  BY <1>1 DEF WorkTake, PInv, Untaken, Writing, Done
<1>2. CASE WriteTmp
  BY <1>2 DEF WriteTmp, PInv, Untaken, Writing, Done
<1>3. CASE Rename
  BY <1>3 DEF Rename, PInv, Untaken, Writing, Done
<1>4. CASE WorkFlushed
  BY <1>4 DEF WorkFlushed, NoWrite, PInv, Untaken, Writing, Done
<1>5. CASE WriteFails
  BY <1>5 DEF WriteFails, PInv, Untaken, Writing, Done
<1> QED BY <1>1, <1>2, <1>3, <1>4, <1>5 DEF Work

\* A new process finds what the file holds.
LEMMA CrashKeeps ==
    ASSUME PInv, Crash
    PROVE  PInv'
<1>1. /\ caller' \in [pc : CallerPc, value : Value \cup {Nil}, seq : Nat]
      /\ writer' \in [pc : WriterPc, value : Value \cup {Nil}, seq : Nat]
  BY DEF Crash, Load, Idle, NoWrite, CallerPc, WriterPc
<1>2. /\ file' = file /\ raftState' = file /\ pending' = Nil
      /\ nextSeq' = 0 /\ flushedSeq' = 0 /\ pendingSeq' = 0
      /\ crashes' = crashes + 1
  BY DEF Crash, Load
<1>3. file \in Value \cup {Nil} /\ crashes \in Nat
  BY DEF PInv, PTypeOK
<1>4. failed' \in BOOLEAN
  BY DEF Crash, Load
<1>5. PTypeOK'
  BY <1>1, <1>2, <1>3, <1>4 DEF PTypeOK
<1> QED BY <1>5 DEF Crash, Load, Idle, NoWrite, PInv

\* The numbers and both threads always agree on where the save in progress is.
THEOREM PersisterInvariance == PSpec => []PInv
<1>1. PInv /\ [PNext]_pVars => PInv'
  <2> SUFFICES ASSUME PInv, [PNext]_pVars PROVE PInv'
    OBVIOUS
  <2>1. CASE UNCHANGED pVars
    BY <2>1 DEF pVars, seqVars, PInv, PTypeOK, Untaken, Writing, Done
  <2> QED BY <2>1, SaveKeeps, WorkKeeps, CrashKeeps DEF PNext
<1> QED BY <1>1, PInvInit, PTL DEF PSpec

\* Whenever no save is in progress and the last write did not fail, the file
\* holds what the node believes to be saved.
THEOREM SavedStaysDurable == PSpec => []SavedIsDurable
<1>1. PInv => SavedIsDurable
  BY DEF PInv, SavedIsDurable
<1> QED BY <1>1, PersisterInvariance, PTL

\* The Persister implements the durable cell: the
\* rename is the moment at which the cell changes, every other step of a
\* thread changes nothing the cell shows, and persist() returns after it.
THEOREM PersisterImplementsCell == PSpec => Implements
<1>1. PInit => Cell!CellInit
  BY DEF PInit, Idle, Cell!CellInit, Cell!NoSave
<1>2. PInv /\ PInv' /\ [PNext]_pVars => [Cell!CellNext]_Cell!cellVars
  <2> SUFFICES ASSUME PInv, PInv', [PNext]_pVars
               PROVE  [Cell!CellNext]_Cell!cellVars
    OBVIOUS
  <2> USE NilNoValue
  <2>1. CASE UNCHANGED pVars
    BY <2>1 DEF pVars, seqVars, Cell!cellVars
  <2>2. ASSUME NEW v \in Value, SaveRaftState(v) PROVE Cell!Begin(v)
    BY <2>2 DEF SaveRaftState, PInv, PTypeOK, Cell!Begin
  <2>3. CASE SavePush
    BY <2>3 DEF SavePush, seqVars, PInv, PTypeOK, Untaken, Writing, Done,
                Cell!cellVars
  <2>4. CASE SaveNotify
    BY <2>4 DEF SaveNotify, Wake, seqVars, PInv, PTypeOK, Cell!cellVars
  <2>5. CASE WaitFlushed
    BY <2>5 DEF WaitFlushed, Flushed, Idle, seqVars, PInv, PTypeOK, Untaken,
                Writing, Done, Cell!cellVars, Cell!Return, Cell!NoSave,
                Cell!CellNext
  <2>6. CASE WorkTake
    BY <2>6 DEF WorkTake, seqVars, PInv, PTypeOK, Cell!cellVars
  <2>7. CASE WriteTmp
    BY <2>7 DEF WriteTmp, seqVars, PInv, PTypeOK, Cell!cellVars
  <2>8. CASE Rename
    BY <2>8 DEF Rename, seqVars, PInv, PTypeOK, Untaken, Writing, Done,
                Cell!Store, Cell!CellNext
  <2>9. CASE WorkFlushed
    BY <2>9 DEF WorkFlushed, NoWrite, seqVars, PInv, PTypeOK, Untaken,
                Writing, Done, Cell!cellVars
  <2>10. CASE Crash
    BY <2>10 DEF Crash, Load, Idle, Cell!Die, Cell!NoSave, Cell!CellNext
  <2>11. CASE WriteFails
    BY <2>11 DEF WriteFails, seqVars, PInv, PTypeOK, Untaken, Writing, Done,
                 Cell!Fail, Cell!CellNext
  <2> QED BY <2>1, <2>2, <2>3, <2>4, <2>5, <2>6, <2>7, <2>8, <2>9, <2>10, <2>11
          DEF PNext, Save, Work, Cell!CellNext
<1> QED BY <1>1, <1>2, PersisterInvariance, PTL
        DEF PSpec, Implements, Cell!CellSpec

=============================================================================

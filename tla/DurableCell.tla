---------------------------- MODULE DurableCell ----------------------------
(***************************************************************************)
(* What Raft::persist relies on: a cell that keeps its value when the      *)
(* process dies.  A save has one moment at which the cell changes or the   *)
(* disk fails, and it returns only after that moment.  A process that dies *)
(* inside a save leaves the old value or the new one, never another.       *)
(***************************************************************************)
EXTENDS Integers

CONSTANTS Value, Nil

VARIABLES
    cell,   \* the durable value, Nil before the first save
    save,   \* "none", or the save in progress
    deaths  \* how often the process died

cellVars == <<cell, save, deaths>>

NoSave == [pc |-> "none", value |-> Nil]

CellInit == cell = Nil /\ save = NoSave /\ deaths = 0

Begin(v) ==
    /\ save.pc = "none"
    /\ save' = [pc |-> "open", value |-> v]
    /\ UNCHANGED <<cell, deaths>>

Store ==
    /\ save.pc = "open"
    /\ cell' = save.value
    /\ save' = [save EXCEPT !.pc = "stored"]
    /\ UNCHANGED deaths

\* The disk fails: the save is over and the cell is what it was.
Fail ==
    /\ save.pc = "open"
    /\ save' = [save EXCEPT !.pc = "failed"]
    /\ UNCHANGED <<cell, deaths>>

Return ==
    /\ save.pc \in {"stored", "failed"}
    /\ save' = NoSave
    /\ UNCHANGED <<cell, deaths>>

Die ==
    /\ deaths' = deaths + 1
    /\ save' = NoSave
    /\ UNCHANGED cell

CellNext == (\E v \in Value : Begin(v)) \/ Store \/ Fail \/ Return \/ Die

CellSpec == CellInit /\ [][CellNext]_cellVars

=============================================================================

---------------------------- MODULE RecallProofs ----------------------------
(***************************************************************************)
(* What holds of the vector index and its locks for any items, any number  *)
(* of Search threads, any committed operations and any capacity: the locks *)
(* are taken in one order and given back, m_activeLabels describes the     *)
(* graph whenever m_mtx is free, and deletePoint meets the element it      *)
(* marks; and, with restarts, what the index owes to the log and to a      *)
(* Search: why the process dies, what the index holds between operations,  *)
(* what a Search must not return and what it must.                         *)
(***************************************************************************)
EXTENDS RecallEngine, FiniteSetTheorems, TLAPS

EngineHeld == {"label", "insert", "hide", "forget"}
ServerHeld == {"visit", "check", "enter", "label", "insert"}
OnItem     == {"check", "enter", "label", "insert", "mark", "hide", "forget"}
ApplierPc  == {"idle", "check", "enter", "label", "insert", "mark", "hide",
               "forget", "wake"}
SearchPc   == {"idle", "build", "visit", "check", "enter", "label", "insert",
               "size", "knn", "copy", "resolve", "done"}

WorkRec == [pc : ApplierPc \cup SearchPc, item : Item \cup {Nil}, vec : Nat,
            existed : BOOLEAN]
Element == [label : Item, vec : Nat, deleted : BOOLEAN]

\* Where the threads are.  A thread that works on the index works on an item,
\* and Apply enters the engine for a feature operation only.
WorkInv ==
    /\ work \in [Worker -> WorkRec]
    /\ work[Applier].pc \in ApplierPc
    /\ \A t \in Searcher : work[t].pc \in SearchPc
    /\ \A w \in Worker : work[w].pc \in OnItem => work[w].item \in Item
    /\ ops \in Seq(Operation) /\ at \in Nat /\ at <= Len(ops)
    /\ kvdb \in [Item -> Nat \cup {Nil}]
    /\ work[Applier].pc = "check" => at # 0 /\ ops[at].kind # "Put"

\* A lock is held by the thread whose place says so, and by no other.
LockInv ==
    /\ mtx \in Worker \cup {Nil} /\ serverMtx \in Searcher \cup {Nil}
    /\ \A w \in Worker : work[w].pc \in EngineHeld <=> mtx = w
    /\ \A t \in Searcher : work[t].pc \in ServerHeld <=> serverMtx = t

\* The shape of the graph: a label leads to an element that carries it, and an
\* element marked deleted is the one its label leads to.
GraphInv ==
    /\ slots \in Seq(Element) /\ lookup \in [Item -> Nat]
    /\ activeLabels \subseteq Item
    /\ \A x \in Item : lookup[x] <= Len(slots)
    /\ \A x \in Item : lookup[x] # 0 => slots[lookup[x]].label = x
    /\ \A n \in Vacant : lookup[slots[n].label] = n

InGraph(x) == lookup[x] # 0 /\ ~slots[lookup[x]].deleted

\* Thread w has changed one of the label tables and the graph for x and not yet
\* the other.
Between(w, x) ==
    /\ mtx = w /\ work[w].item = x
    /\ work[w].pc \in {"hide", "forget"} \/ (work[w].pc = "insert" /\ ~work[w].existed)

\* m_activeLabels is what the graph holds, up to the item between the two; and
\* what a thread read of it before it had m_mtx is still so.
LabelInv ==
    ~dead =>
    /\ \A x \in Item : (\A w \in Worker : ~Between(w, x)) =>
                           (x \in activeLabels <=> InGraph(x))
    /\ \A w \in Worker : work[w].pc = "insert" => work[w].item \in activeLabels
    /\ work[Applier].pc \in {"hide", "forget"} => ~InGraph(work[Applier].item)
    /\ work[Applier].pc = "mark" => work[Applier].item \in activeLabels
    /\ \A w \in Worker : work[w].pc \in {"enter", "label", "insert"} /\ work[w].existed =>
           w = Applier /\ work[w].item \in activeLabels

EngineInv == WorkInv /\ LockInv /\ GraphInv /\ LabelInv

-----------------------------------------------------------------------------
(* One thread moves *)

\* Thread w goes on with the record r, and no other thread moves.
Moved(w, r) ==
    /\ work' = [work EXCEPT ![w] = r]
    /\ r \in WorkRec
    /\ r.pc \in IF w = Applier THEN ApplierPc ELSE SearchPc
    /\ r.pc \in OnItem => r.item \in Item

\* The applier, the searchers and Nil are told apart.
LEMMA WorkerFacts ==
    /\ Applier \in Worker /\ Applier \notin Searcher /\ Nil \notin Worker
    /\ \A t \in Searcher : t \in Worker /\ t # Applier
BY ThreadAssumption DEF Worker

\* A move changes the record of its thread alone.
LEMMA MovedWork ==
    ASSUME WorkInv, NEW w \in Worker, NEW r, Moved(w, r)
    PROVE  /\ work' \in [Worker -> WorkRec]
           /\ work'[w] = r
           /\ \A u \in Worker \ {w} : work'[u] = work[u]
BY DEF WorkInv, Moved

\* A move that takes no operation keeps WorkInv.
LEMMA MovedKeepsWork ==
    ASSUME WorkInv, NEW w \in Worker, NEW r, Moved(w, r),
           UNCHANGED <<ops, at, kvdb>>, w = Applier => r.pc # "check"
    PROVE  WorkInv'
<1>1. /\ work' \in [Worker -> WorkRec]
      /\ work'[w] = r
      /\ \A u \in Worker \ {w} : work'[u] = work[u]
  BY MovedWork
<1>2. \A u \in Worker : work'[u].pc \in OnItem => work'[u].item \in Item
  BY <1>1 DEF WorkInv, Moved
<1>3. /\ work'[Applier].pc \in ApplierPc
      /\ \A t \in Searcher : work'[t].pc \in SearchPc
  BY <1>1, WorkerFacts DEF WorkInv, Moved
<1>4. work'[Applier].pc = "check" => at # 0 /\ ops[at].kind # "Put"
  BY <1>1, WorkerFacts DEF WorkInv
<1> QED BY <1>1, <1>2, <1>3, <1>4 DEF WorkInv

\* A move keeps LockInv if its thread takes and releases what its place says.
LEMMA MovedKeepsLocks ==
    ASSUME WorkInv, LockInv, NEW w \in Worker, NEW r, Moved(w, r),
           r.pc \in EngineHeld <=> mtx' = w,
           mtx' = mtx \/ (mtx = Nil /\ mtx' = w) \/ (mtx = w /\ mtx' = Nil),
           w \in Searcher => (r.pc \in ServerHeld <=> serverMtx' = w),
           \/ serverMtx' = serverMtx
           \/ w \in Searcher /\ serverMtx = Nil /\ serverMtx' = w
           \/ serverMtx = w /\ serverMtx' = Nil
    PROVE  LockInv'
<1>1. /\ work'[w] = r
      /\ \A u \in Worker \ {w} : work'[u] = work[u]
  BY MovedWork
<1>2. mtx' \in Worker \cup {Nil} /\ serverMtx' \in Searcher \cup {Nil}
  BY DEF LockInv
<1>3. ASSUME NEW u \in Worker PROVE work'[u].pc \in EngineHeld <=> mtx' = u
  BY <1>1, WorkerFacts DEF LockInv
<1>4. ASSUME NEW t \in Searcher PROVE work'[t].pc \in ServerHeld <=> serverMtx' = t
  BY <1>1, WorkerFacts DEF LockInv
<1> QED BY <1>2, <1>3, <1>4 DEF LockInv

\* GoesOn is a move that keeps the item.
LEMMA GoesOnMoves ==
    ASSUME WorkInv, NEW w \in Worker, NEW pc, GoesOn(w, pc),
           pc \in IF w = Applier THEN ApplierPc ELSE SearchPc,
           pc \in OnItem => work[w].item \in Item
    PROVE  \E r : /\ Moved(w, r) /\ r.pc = pc
                  /\ r.item = work[w].item /\ r.vec = work[w].vec
                  /\ r.existed = work[w].existed
<1> DEFINE r == [work[w] EXCEPT !.pc = pc]
<1>1. work[w] \in WorkRec
  BY DEF WorkInv
<1>2. /\ r \in WorkRec /\ r.pc = pc /\ r.item = work[w].item
      /\ r.vec = work[w].vec /\ r.existed = work[w].existed
  BY <1>1 DEF WorkRec
<1>3. work' = [work EXCEPT ![w] = r]
  BY DEF GoesOn
<1>4. Moved(w, r)
  BY <1>2, <1>3 DEF Moved
<1> HIDE DEF r
<1> QED BY <1>2, <1>4

-----------------------------------------------------------------------------
(* The places of the threads and the locks *)

\* Setting two fields of a record leaves the other two.
LEMMA TwoFields ==
    ASSUME NEW q \in WorkRec, NEW e, NEW p
    PROVE  [q EXCEPT !.existed = e, !.pc = p]
               = [pc |-> p, item |-> q.item, vec |-> q.vec, existed |-> e]
<1> DEFINE q1 == [q EXCEPT !.existed = e]
<1>1. q1 = [pc |-> q.pc, item |-> q.item, vec |-> q.vec, existed |-> e]
  BY DEF WorkRec
<1> HIDE DEF q1
<1>2. [q1 EXCEPT !.pc = p] = [pc |-> p, item |-> q.item, vec |-> q.vec, existed |-> e]
  BY <1>1
<1> QED BY <1>2, Zenon DEF q1

\* CheckLabel is a move to the place that the label and the operation call for.
LEMMA CheckMoves ==
    ASSUME WorkInv, NEW w \in Worker, CheckLabel(w)
    PROVE  \E r : /\ Moved(w, r)
                  /\ r.item = work[w].item /\ r.vec = work[w].vec
                  /\ r.existed = (work[w].item \in activeLabels)
                  /\ w # Applier => r.pc = IF work[w].item \in activeLabels
                                           THEN "visit" ELSE "enter"
                  /\ w = Applier => \/ r.pc = "enter" /\ ops[at].kind = "PutFeature"
                                    \/ /\ ops[at].kind = "DeleteFeature"
                                       /\ r.pc = IF work[w].item \in activeLabels
                                                 THEN "mark" ELSE "wake"
<1> DEFINE x == work[w].item
           pc == CASE w # Applier -> IF Existed(x) THEN "visit" ELSE "enter"
                   [] w = Applier /\ ops[at].kind = "PutFeature"    -> "enter"
                   [] w = Applier /\ ops[at].kind = "DeleteFeature" -> DeleteGoesOn(x)
           r  == [pc |-> pc, item |-> x, vec |-> work[w].vec, existed |-> Existed(x)]
<1>1. work[w] \in WorkRec /\ work[w].pc = "check" /\ x \in Item
  BY DEF WorkInv, CheckLabel, At, OnItem
<1>2. w = Applier => ops[at].kind \in {"PutFeature", "DeleteFeature"}
  <2>1. w = Applier => at \in 1..Len(ops) /\ ops[at].kind # "Put"
    BY <1>1 DEF WorkInv
  <2>2. w = Applier => ops[at] \in Operation
    BY <2>1 DEF WorkInv
  <2> QED BY <2>1, <2>2 DEF Operation
<1>3. /\ w # Applier => pc = IF x \in activeLabels THEN "visit" ELSE "enter"
      /\ w = Applier => \/ pc = "enter" /\ ops[at].kind = "PutFeature"
                        \/ /\ ops[at].kind = "DeleteFeature"
                           /\ pc = IF x \in activeLabels THEN "mark" ELSE "wake"
  BY <1>2 DEF Existed, DeleteGoesOn
<1>4. Existed(x) \in BOOLEAN
  BY DEF Existed
<1>6. [work[w] EXCEPT !.existed = Existed(x), !.pc = pc] = r
  <2> HIDE DEF pc
  <2> QED BY <1>1, TwoFields, Zenon
<1>7. work' = [work EXCEPT ![w].existed = Existed(x), ![w].pc = pc]
  BY DEF CheckLabel
<1>8. work' = [work EXCEPT ![w] = r]
  BY <1>6, <1>7 DEF WorkInv
<1> HIDE DEF pc
<1>9. pc \in IF w = Applier THEN ApplierPc ELSE SearchPc
  BY <1>3 DEF ApplierPc, SearchPc
<1>10. r \in WorkRec
  BY <1>1, <1>4, <1>9 DEF WorkRec
<1>11. Moved(w, r)
  BY <1>1, <1>8, <1>9, <1>10 DEF Moved
<1>12. r.existed = (x \in activeLabels)
  BY DEF Existed
<1> QED BY <1>3, <1>11, <1>12

\* Every step of the engine keeps the places and the locks in agreement.
LEMMA EngineKeepsPlaces ==
    ASSUME WorkInv, LockInv, NEW w \in Worker, EngineStep(w)
    PROVE  WorkInv' /\ LockInv'
<1> USE WorkerFacts
<1>0. /\ work[w].pc \in EngineHeld <=> mtx = w
      /\ w \in Searcher => (work[w].pc \in ServerHeld <=> serverMtx = w)
      /\ w # Applier => w \in Searcher
      /\ mtx \in Worker \cup {Nil} /\ serverMtx \in Searcher \cup {Nil}
  BY DEF LockInv, Worker
<1>1. CASE CheckLabel(w)
  <2>1. PICK r : /\ Moved(w, r)
                 /\ w # Applier => r.pc \in {"visit", "enter"}
                 /\ w = Applier => r.pc \in {"enter", "wake", "mark"}
    BY <1>1, CheckMoves
  <2>2. work[w].pc = "check" /\ UNCHANGED <<ops, at, kvdb, mtx, serverMtx>>
    BY <1>1 DEF CheckLabel, At, serverVars
  <2>3. WorkInv'
    BY <2>1, <2>2, MovedKeepsWork
  <2>4. LockInv'
    BY <1>0, <2>1, <2>2, MovedKeepsLocks DEF EngineHeld, ServerHeld
  <2> QED BY <2>3, <2>4
<1>2. CASE InsertEnter(w)
  <2>1. /\ work[w].pc = "enter" /\ mtx = Nil /\ mtx' = w /\ GoesOn(w, "label")
        /\ UNCHANGED <<ops, at, kvdb, serverMtx>>
    BY <1>2 DEF InsertEnter, At, serverVars
  <2>2. work[w].item \in Item
    BY <2>1 DEF WorkInv, OnItem
  <2>3. PICK r : Moved(w, r) /\ r.pc = "label"
    BY <2>1, <2>2, GoesOnMoves DEF ApplierPc, SearchPc
  <2>4. WorkInv'
    BY <2>1, <2>3, MovedKeepsWork
  <2>5. LockInv'
    BY <1>0, <2>1, <2>3, MovedKeepsLocks DEF EngineHeld, ServerHeld
  <2> QED BY <2>4, <2>5
<1>3. CASE InsertLabel(w)
  <2>1. /\ work[w].pc = "label" /\ GoesOn(w, "insert")
        /\ UNCHANGED <<ops, at, kvdb, mtx, serverMtx>>
    BY <1>3 DEF InsertLabel, At, serverVars
  <2>2. work[w].item \in Item
    BY <2>1 DEF WorkInv, OnItem
  <2>3. PICK r : Moved(w, r) /\ r.pc = "insert"
    BY <2>1, <2>2, GoesOnMoves DEF ApplierPc, SearchPc
  <2>4. WorkInv'
    BY <2>1, <2>3, MovedKeepsWork
  <2>5. LockInv'
    BY <1>0, <2>1, <2>3, MovedKeepsLocks DEF EngineHeld, ServerHeld
  <2> QED BY <2>4, <2>5
<1>4. CASE InsertPoint(w)
  <2>1. work[w].pc = "insert" /\ UNCHANGED <<ops, at, kvdb, serverMtx>>
    BY <1>4 DEF InsertPoint, At, serverVars
  <2>2. CASE UNCHANGED <<mtx, work>>
    BY <2>1, <2>2 DEF WorkInv, LockInv
  <2>3. CASE mtx' = Nil /\ GoesOn(w, AfterInsert(w))
    <3>1. PICK r : Moved(w, r) /\ r.pc = AfterInsert(w)
      BY <2>3, GoesOnMoves DEF AfterInsert, ApplierPc, SearchPc, OnItem
    <3>2. r.pc = IF w = Applier THEN "wake" ELSE "visit"
      BY <3>1 DEF AfterInsert
    <3>3. WorkInv'
      BY <2>1, <3>1, <3>2, MovedKeepsWork
    <3>4. LockInv'
      BY <1>0, <2>1, <2>3, <3>1, <3>2, MovedKeepsLocks DEF EngineHeld, ServerHeld
    <3> QED BY <3>3, <3>4
  <2> QED BY <1>4, <2>2, <2>3 DEF InsertPoint, Die
<1> QED BY <1>1, <1>2, <1>3, <1>4 DEF EngineStep

\* So does deletePoint.
LEMMA DeleteKeepsPlaces ==
    ASSUME WorkInv, LockInv, DeleteStep
    PROVE  WorkInv' /\ LockInv'
<1> USE WorkerFacts
<1>0. /\ work[Applier].pc \in EngineHeld <=> mtx = Applier
      /\ mtx \in Worker \cup {Nil} /\ serverMtx \in Searcher \cup {Nil}
  BY DEF LockInv
<1>1. UNCHANGED <<ops, at, kvdb, serverMtx>>
  BY DEF DeleteStep, DeleteMark, DeleteHide, DeleteForget, serverVars
<1>2. CASE UNCHANGED <<mtx, work>>
  BY <1>1, <1>2 DEF WorkInv, LockInv
<1>3. CASE /\ work[Applier].pc = "mark" /\ mtx = Nil /\ mtx' = Applier
           /\ GoesOn(Applier, "hide")
  <2>1. work[Applier].item \in Item
    BY <1>3 DEF WorkInv, OnItem
  <2>2. PICK r : Moved(Applier, r) /\ r.pc = "hide"
    BY <1>3, <2>1, GoesOnMoves DEF ApplierPc
  <2>3. WorkInv'
    BY <1>1, <2>2, MovedKeepsWork
  <2>4. LockInv'
    BY <1>0, <1>1, <1>3, <2>2, MovedKeepsLocks DEF EngineHeld
  <2> QED BY <2>3, <2>4
<1>4. CASE work[Applier].pc = "hide" /\ UNCHANGED mtx /\ GoesOn(Applier, "forget")
  <2>1. work[Applier].item \in Item
    BY <1>4 DEF WorkInv, OnItem
  <2>2. PICK r : Moved(Applier, r) /\ r.pc = "forget"
    BY <1>4, <2>1, GoesOnMoves DEF ApplierPc
  <2>3. WorkInv'
    BY <1>1, <2>2, MovedKeepsWork
  <2>4. LockInv'
    BY <1>0, <1>1, <1>4, <2>2, MovedKeepsLocks DEF EngineHeld
  <2> QED BY <2>3, <2>4
<1>5. CASE work[Applier].pc = "forget" /\ mtx' = Nil /\ GoesOn(Applier, "wake")
  <2>1. PICK r : Moved(Applier, r) /\ r.pc = "wake"
    BY <1>5, GoesOnMoves DEF ApplierPc, OnItem
  <2>2. WorkInv'
    BY <1>1, <2>1, MovedKeepsWork
  <2>3. LockInv'
    BY <1>0, <1>1, <1>5, <2>1, MovedKeepsLocks DEF EngineHeld
  <2> QED BY <2>2, <2>3
<1>6. DeleteMark => \/ UNCHANGED <<mtx, work>>
                    \/ /\ work[Applier].pc = "mark" /\ mtx = Nil /\ mtx' = Applier
                       /\ GoesOn(Applier, "hide")
  BY DEF DeleteMark, Die, At
<1>7. DeleteHide => /\ work[Applier].pc = "hide" /\ UNCHANGED mtx
                    /\ GoesOn(Applier, "forget")
  BY DEF DeleteHide, At
<1>8. DeleteForget => /\ work[Applier].pc = "forget" /\ mtx' = Nil
                      /\ GoesOn(Applier, "wake")
  BY DEF DeleteForget, At
<1> QED BY <1>2, <1>3, <1>4, <1>5, <1>6, <1>7, <1>8 DEF DeleteStep

\* So does Apply around it.
LEMMA ApplyKeepsPlaces ==
    ASSUME WorkInv, LockInv, ApplyWake \/ (\E op \in Operation : ApplyTake(op))
    PROVE  WorkInv' /\ LockInv'
<1> USE WorkerFacts
<1>0. /\ work[Applier].pc \in EngineHeld <=> mtx = Applier
      /\ mtx \in Worker \cup {Nil} /\ serverMtx \in Searcher \cup {Nil}
  BY DEF LockInv
<1>1. CASE ApplyWake
  <2>1. Moved(Applier, Idle)
    BY <1>1 DEF ApplyWake, Moved, Idle, WorkRec, ApplierPc, SearchPc, OnItem
  <2>2. /\ work[Applier].pc = "wake"
        /\ UNCHANGED <<ops, at, kvdb, mtx, serverMtx>>
    BY <1>1 DEF ApplyWake, At, serverVars
  <2>3. WorkInv'
    BY <2>1, <2>2, MovedKeepsWork DEF Idle
  <2>4. LockInv'
    BY <1>0, <2>1, <2>2, MovedKeepsLocks DEF Idle, EngineHeld
  <2> QED BY <2>3, <2>4
<1>2. ASSUME NEW op \in Operation, ApplyTake(op) PROVE WorkInv' /\ LockInv'
  <2> DEFINE r == [pc |-> IF op.kind = "Put" THEN "wake" ELSE "check",
                   item |-> op.item, vec |-> at + 1, existed |-> FALSE]
  <2>1. /\ work[Applier].pc = "idle" /\ work' = [work EXCEPT ![Applier] = r]
        /\ UNCHANGED <<mtx, serverMtx>>
    BY <1>2 DEF ApplyTake, At
  <2>2. op.item \in Item /\ op.kind \in {"Put", "PutFeature", "DeleteFeature"}
    BY DEF Operation
  <2>3. Moved(Applier, r)
    BY <2>1, <2>2 DEF Moved, WorkRec, WorkInv, ApplierPc, SearchPc, OnItem
  <2>4. /\ ops' \in Seq(Operation) /\ at' \in Nat /\ at' # 0 /\ at' <= Len(ops')
        /\ ops'[at'] = op
    <3>1. at \in Nat /\ at <= Len(ops) /\ ops \in Seq(Operation)
      BY DEF WorkInv
    <3>2. at' = at + 1
      BY <1>2 DEF ApplyTake
    <3>3. CASE at < Len(ops) /\ op = ops[at + 1] /\ UNCHANGED ops
      BY <3>1, <3>2, <3>3
    <3>4. CASE at = Len(ops) /\ ops' = Append(ops, op)
      BY <3>1, <3>2, <3>4
    <3> QED BY <1>2, <3>3, <3>4 DEF ApplyTake
  <2>5. kvdb' \in [Item -> Nat \cup {Nil}]
    BY <1>2, <2>2 DEF ApplyTake, WorkInv
  <2> HIDE DEF r
  <2>6. /\ work' \in [Worker -> WorkRec] /\ work'[Applier] = r
        /\ \A u \in Worker \ {Applier} : work'[u] = work[u]
    BY <2>3, MovedWork
  <2>7. \A t \in Searcher : work'[t] = work[t]
    BY <2>6
  <2>8. work'[Applier].pc = "check" => ops'[at'].kind # "Put"
    BY <2>4, <2>6 DEF r
  <2>9. \A u \in Worker : work'[u].pc \in OnItem => work'[u].item \in Item
    BY <2>3, <2>6 DEF WorkInv, Moved
  <2>10. WorkInv'
    BY <2>3, <2>4, <2>5, <2>6, <2>7, <2>8, <2>9 DEF WorkInv, Moved
  <2>11. r.pc \notin EngineHeld
    BY DEF r, EngineHeld
  <2>12. work[Applier].pc \notin EngineHeld
    BY <2>1 DEF EngineHeld
  <2>13. LockInv'
    BY <1>0, <2>1, <2>3, <2>11, <2>12, MovedKeepsLocks
  <2> QED BY <2>10, <2>13
<1> QED BY <1>1, <1>2

\* A handler of Search that goes on outside the engine, with or without
\* KvServer::m_mtx.
LEMMA HandlerKeepsPlaces ==
    ASSUME WorkInv, LockInv, NEW t \in Searcher, NEW r, Moved(t, r),
           work[t].pc \notin EngineHeld, r.pc \notin EngineHeld,
           UNCHANGED <<ops, at, kvdb, mtx>>,
           r.pc \in ServerHeld <=> serverMtx' = t,
           serverMtx' \in {serverMtx, t, Nil},
           serverMtx' = t => serverMtx \in {t, Nil},
           serverMtx' = Nil => serverMtx \in {t, Nil}
    PROVE  WorkInv' /\ LockInv'
<1>1. t \in Worker /\ t # Applier
  BY WorkerFacts
<1>2. WorkInv'
  BY <1>1, MovedKeepsWork
<1>3. mtx # t
  BY <1>1 DEF LockInv
<1>4. LockInv'
  BY <1>1, <1>3, MovedKeepsLocks
<1> QED BY <1>2, <1>4

\* Every step of the build and of a Search keeps them.
LEMMA SearchKeepsPlaces ==
    ASSUME WorkInv, LockInv, NEW t \in Searcher,
           SearchStart(t) \/ BuildStep(t) \/ AnswerStep(t)
    PROVE  WorkInv' /\ LockInv'
<1> DEFINE Out == {"idle", "build", "size", "knn", "copy", "resolve", "done"}
<1>0. /\ t \in Worker /\ t # Applier /\ t # Nil
      /\ work[t].pc \in EngineHeld <=> mtx = t
      /\ work[t].pc \in ServerHeld <=> serverMtx = t
      /\ mtx \in Worker \cup {Nil} /\ serverMtx \in Searcher \cup {Nil}
  BY WorkerFacts DEF LockInv
<1>1. ASSUME NEW pc \in Out, work[t].pc \in Out, GoesOn(t, pc),
             UNCHANGED <<ops, at, kvdb, mtx, serverMtx>>
      PROVE  WorkInv' /\ LockInv'
  <2>1. pc \in SearchPc /\ pc \notin OnItem /\ pc \notin EngineHeld \cup ServerHeld
        /\ work[t].pc \notin EngineHeld \cup ServerHeld
    BY <1>1 DEF SearchPc, OnItem, EngineHeld, ServerHeld
  <2>2. PICK r : Moved(t, r) /\ r.pc = pc
    BY <1>0, <1>1, <2>1, GoesOnMoves
  <2> QED BY <1>0, <1>1, <2>1, <2>2, HandlerKeepsPlaces
<1>2. CASE \/ SearchStart(t) \/ SearchSize(t) \/ SearchCopy(t)
           \/ \E k \in TopKs, S \in SUBSET Live : SearchKnn(t, k, S)
           \/ \E seen \in SUBSET Item : SearchResolve(t, seen)
  <2>1. /\ work[t].pc \in Out /\ \E pc \in Out : GoesOn(t, pc)
        /\ UNCHANGED <<ops, at, kvdb, mtx, serverMtx>>
    BY <1>2 DEF SearchStart, SearchSize, SearchKnn, SearchCopy, SearchResolve, At,
                serverVars
  <2> QED BY <1>1, <2>1
<1>3. CASE SearchReply(t)
  <2>1. Moved(t, Idle)
    BY <1>0, <1>3 DEF SearchReply, Moved, Idle, WorkRec, ApplierPc, SearchPc, OnItem
  <2>2. /\ work[t].pc = "done" /\ Idle.pc = "idle"
        /\ UNCHANGED <<ops, at, kvdb, mtx, serverMtx>>
    BY <1>3 DEF SearchReply, At, serverVars, Idle
  <2>3. /\ Idle.pc \notin EngineHeld \cup ServerHeld
        /\ work[t].pc \notin EngineHeld \cup ServerHeld
    BY <2>2 DEF EngineHeld, ServerHeld
  <2> QED BY <1>0, <2>1, <2>2, <2>3, HandlerKeepsPlaces
<1>4. CASE BuildEnter(t)
  <2>1. /\ work[t].pc = "build" /\ serverMtx = Nil
        /\ UNCHANGED <<ops, at, kvdb, mtx>>
    BY <1>4 DEF BuildEnter, At, serverVars
  <2>2. CASE GoesOn(t, "size") /\ UNCHANGED serverMtx
    BY <1>1, <2>1, <2>2
  <2>3. CASE GoesOn(t, "visit") /\ serverMtx' = t
    <3>1. PICK r : Moved(t, r) /\ r.pc = "visit"
      BY <1>0, <2>3, GoesOnMoves DEF SearchPc, OnItem
    <3>2. /\ r.pc \notin EngineHeld /\ r.pc \in ServerHeld
          /\ work[t].pc \notin EngineHeld
      BY <2>1, <3>1 DEF EngineHeld, ServerHeld
    <3> QED BY <1>0, <2>1, <2>3, <3>1, <3>2, HandlerKeepsPlaces
  <2> QED BY <1>4, <2>2, <2>3 DEF BuildEnter
<1>5. ASSUME NEW x \in Item, BuildVisit(t, x) PROVE WorkInv' /\ LockInv'
  <2>1. work[t].pc = "visit" /\ UNCHANGED <<ops, at, kvdb, mtx, serverMtx>>
    BY <1>5 DEF BuildVisit, At, serverVars
  <2>2. CASE UNCHANGED work
    BY <2>1, <2>2 DEF WorkInv, LockInv
  <2>3. CASE kvdb[x] # Nil
    <3> DEFINE r == [pc |-> "check", item |-> x, vec |-> kvdb[x], existed |-> FALSE]
    <3>1. kvdb[x] \in Nat
      BY <2>3 DEF WorkInv
    <3>2. work' = [work EXCEPT ![t] = r]
      BY <1>5, <2>3 DEF BuildVisit
    <3>3. r \in WorkRec
      BY <3>1 DEF WorkRec, SearchPc
    <3>4. Moved(t, r)
      BY <1>0, <3>2, <3>3 DEF Moved, SearchPc
    <3>5. /\ r.pc \notin EngineHeld /\ r.pc \in ServerHeld
          /\ work[t].pc \notin EngineHeld /\ work[t].pc \in ServerHeld
      BY <2>1 DEF EngineHeld, ServerHeld
    <3> HIDE DEF r
    <3> QED BY <1>0, <2>1, <3>4, <3>5, HandlerKeepsPlaces
  <2> QED BY <1>5, <2>2, <2>3 DEF BuildVisit
<1>6. CASE BuildDone(t)
  <2> DEFINE r == [Idle EXCEPT !.pc = "size"]
  <2>1. /\ work[t].pc = "visit" /\ work' = [work EXCEPT ![t] = r]
        /\ serverMtx' = Nil /\ UNCHANGED <<ops, at, kvdb, mtx>>
    BY <1>6 DEF BuildDone, BuildUnlock, At
  <2>2. r \in WorkRec /\ r.pc = "size"
    <3>1. Idle \in WorkRec
      BY DEF Idle, WorkRec, ApplierPc
    <3> QED BY <3>1 DEF WorkRec, SearchPc
  <2> HIDE DEF r
  <2>3. Moved(t, r)
    BY <1>0, <2>1, <2>2 DEF Moved, WorkRec, ApplierPc, SearchPc, OnItem
  <2>4. /\ r.pc \notin EngineHeld /\ r.pc \notin ServerHeld
        /\ work[t].pc \notin EngineHeld /\ work[t].pc \in ServerHeld
    BY <2>1, <2>2 DEF EngineHeld, ServerHeld
  <2> QED BY <1>0, <2>1, <2>3, <2>4, HandlerKeepsPlaces
<1> QED BY <1>2, <1>3, <1>4, <1>5, <1>6 DEF BuildStep, AnswerStep

\* A process starts with every thread idle and both locks free.
LEMMA PlacesInit == RecallInit => WorkInv /\ LockInv
<1> SUFFICES ASSUME RecallInit PROVE WorkInv /\ LockInv
  OBVIOUS
<1>1. \A w \in Worker : work[w] = Idle
  BY DEF RecallInit
<1>2. Idle \in WorkRec /\ Idle.pc = "idle"
  BY DEF Idle, WorkRec, ApplierPc, SearchPc
<1>3. WorkInv
  BY <1>1, <1>2, WorkerFacts DEF RecallInit, WorkInv, ApplierPc, SearchPc, OnItem
<1>4. LockInv
  BY <1>1, <1>2, WorkerFacts DEF RecallInit, LockInv, EngineHeld, ServerHeld
<1> QED BY <1>3, <1>4

\* A restart begins as a process does, with the operations kept.
LEMMA PlacesRestart == WorkInv /\ LockInv /\ RecallRestart => WorkInv' /\ LockInv'
<1> SUFFICES ASSUME WorkInv, LockInv, RecallRestart PROVE WorkInv' /\ LockInv'
  OBVIOUS
<1>1. \A w \in Worker : work'[w] = Idle
  BY DEF RecallRestart
<1>2. Idle \in WorkRec /\ Idle.pc = "idle"
  BY DEF Idle, WorkRec, ApplierPc, SearchPc
<1>3. WorkInv'
  <2>1. ops' \in Seq(Operation) /\ at' = 0 /\ 0 <= Len(ops')
    BY DEF RecallRestart, WorkInv
  <2> QED BY <1>1, <1>2, <2>1, WorkerFacts
      DEF RecallRestart, WorkInv, ApplierPc, SearchPc, OnItem
<1>4. LockInv'
  BY <1>1, <1>2, WorkerFacts DEF RecallRestart, LockInv, EngineHeld, ServerHeld
<1> QED BY <1>3, <1>4

\* WorkInv and LockInv together are inductive.
LEMMA PlacesStep == WorkInv /\ LockInv /\ [RecallNext]_recallVars => WorkInv' /\ LockInv'
<1> SUFFICES ASSUME WorkInv, LockInv, [RecallNext]_recallVars PROVE WorkInv' /\ LockInv'
  OBVIOUS
<1>1. CASE UNCHANGED recallVars
  BY <1>1 DEF recallVars, serverVars, WorkInv, LockInv
<1>2. CASE RecallNext
  BY <1>2, EngineKeepsPlaces, DeleteKeepsPlaces, ApplyKeepsPlaces, SearchKeepsPlaces,
     PlacesRestart DEF RecallNext
<1> QED BY <1>1, <1>2

\* Who holds a lock is where LocksInOrder allows it.
LEMMA PlacesGiveOrder == WorkInv /\ LockInv => LocksInOrder
BY WorkerFacts DEF WorkInv, LockInv, LocksInOrder, EngineHeld, ServerHeld

\* The build, Apply and Search take KvServer::m_mtx before the engine's m_mtx and
\* never the other way round, hold the engine's only inside it and give both
\* back: with any number of threads none waits for another in a circle.
THEOREM LocksAlwaysInOrder == RecallSpec => []LocksInOrder
<1>1. RecallSpec => [](WorkInv /\ LockInv)
  BY PlacesInit, PlacesStep, PTL DEF RecallSpec
<1> QED BY <1>1, PlacesGiveOrder, PTL

-----------------------------------------------------------------------------
(* The graph *)

\* GraphInv, with the elements typed one by one.
LEMMA GraphFacts ==
    ASSUME GraphInv
    PROVE  /\ slots \in Seq(Element) /\ lookup \in [Item -> Nat]
           /\ \A y \in Item : lookup[y] <= Len(slots)
           /\ \A y \in Item : lookup[y] # 0 => slots[lookup[y]].label = y
           /\ \A n \in DOMAIN slots : slots[n].deleted => lookup[slots[n].label] = n
           /\ \A n \in 1..Len(slots) : slots[n] \in Element /\ slots[n].label \in Item
<1>1. slots \in Seq(Element)
  BY DEF GraphInv
<1>2. \A n \in 1..Len(slots) : slots[n] \in Element
  BY <1>1
<1>3. \A e \in Element : e.label \in Item
  BY DEF Element
<1>4. \A n \in DOMAIN slots : slots[n].deleted => lookup[slots[n].label] = n
  BY Zenon DEF GraphInv, Vacant
<1> QED BY <1>1, <1>2, <1>3, <1>4 DEF GraphInv

\* The three changes of the graph keep its shape.
LEMMA AddKeepsGraph ==
    ASSUME GraphInv, NEW x \in Item, NEW v \in Nat, ~AddThrows(x), AddPoint(x, v),
           activeLabels' \subseteq Item
    PROVE  /\ GraphInv' /\ InGraph(x)'
           /\ \A y \in Item \ {x} : InGraph(y)' <=> InGraph(y)
<1> DEFINE e == [label |-> x, vec |-> v, deleted |-> FALSE]
           k == lookup[x]
<1>0. /\ slots \in Seq(Element) /\ lookup \in [Item -> Nat]
      /\ \A y \in Item : lookup[y] <= Len(slots)
      /\ \A y \in Item : lookup[y] # 0 => slots[lookup[y]].label = y
      /\ \A n \in DOMAIN slots : slots[n].deleted => lookup[slots[n].label] = n
      /\ \A n \in 1..Len(slots) : slots[n] \in Element /\ slots[n].label \in Item
  BY GraphFacts
<1>1. CASE k = 0
  <2>1. slots' = Append(slots, e) /\ lookup' = [lookup EXCEPT ![x] = Len(slots) + 1]
    BY <1>1 DEF AddPoint
  <2>2. e \in Element /\ e.label = x /\ ~e.deleted
    BY DEF Element
  <2> HIDE DEF e
  <2>3. /\ slots' \in Seq(Element) /\ Len(slots') = Len(slots) + 1
        /\ \A n \in 1..Len(slots) : slots'[n] = slots[n]
        /\ slots'[Len(slots) + 1] = e
    BY <1>0, <2>1, <2>2
  <2>4. /\ lookup' \in [Item -> Nat] /\ lookup'[x] = Len(slots) + 1
        /\ \A y \in Item \ {x} : lookup'[y] = lookup[y]
    BY <1>0, <2>1
  <2>5. \A y \in Item : lookup'[y] <= Len(slots')
    BY <1>0, <2>3, <2>4
  <2>6. \A y \in Item : lookup'[y] # 0 => slots'[lookup'[y]].label = y
    BY <1>0, <2>2, <2>3, <2>4
  <2>7. ASSUME NEW n \in DOMAIN slots', slots'[n].deleted
        PROVE  lookup'[slots'[n].label] = n
    <3>1. n \in 1..Len(slots)
      BY <1>0, <2>2, <2>3, <2>7
    <3>2. slots'[n] = slots[n] /\ slots[n].label \in Item
      BY <1>0, <2>3, <3>1 DEF Element
    <3>3. lookup[slots[n].label] = n
      BY <1>0, <2>7, <3>1, <3>2
    <3> QED BY <1>1, <2>4, <3>1, <3>2, <3>3
  <2>8. InGraph(x)'
    BY <1>0, <2>2, <2>3, <2>4 DEF InGraph
  <2>9. \A y \in Item \ {x} : InGraph(y)' <=> InGraph(y)
    BY <1>0, <2>3, <2>4 DEF InGraph
  <2> QED BY <2>3, <2>4, <2>5, <2>6, <2>7, <2>8, <2>9 DEF GraphInv, Vacant
<1>2. CASE k # 0
  <2>1. slots' = [slots EXCEPT ![k].vec = v] /\ lookup' = lookup
    BY <1>2 DEF AddPoint
  <2>2. k \in 1..Len(slots) /\ slots[k] \in Element /\ ~slots[k].deleted
    BY <1>0, <1>2 DEF AddThrows
  <2>3. /\ [slots[k] EXCEPT !.vec = v] \in Element
        /\ [slots[k] EXCEPT !.vec = v].label = slots[k].label
        /\ [slots[k] EXCEPT !.vec = v].deleted = slots[k].deleted
    BY <2>2 DEF Element
  <2> HIDE DEF k
  <2>4. /\ slots' \in Seq(Element) /\ Len(slots') = Len(slots)
        /\ \A n \in 1..Len(slots) : /\ slots'[n].label = slots[n].label
                                    /\ slots'[n].deleted = slots[n].deleted
    BY <1>0, <2>1, <2>2, <2>3
  <2>5. \A y \in Item : InGraph(y)' <=> InGraph(y)
    BY <1>0, <2>1, <2>4 DEF InGraph
  <2>6. InGraph(x)
    BY <1>2, <2>2 DEF InGraph, k
  <2>7. \A n \in DOMAIN slots' : slots'[n].deleted => lookup'[slots'[n].label] = n
    BY <1>0, <2>1, <2>4
  <2> QED BY <1>0, <2>1, <2>4, <2>5, <2>6, <2>7 DEF GraphInv, Vacant
<1> QED BY <1>1, <1>2

\* addPoint of hnswlib with replacement: the item gets the vacant element, and
\* no other item loses a live one.
LEMMA ReplaceKeepsGraph ==
    ASSUME GraphInv, NEW x \in Item, NEW v \in Nat, NEW m \in Vacant, InGraph(x),
           ReplacePoint(m, x, v), activeLabels' \subseteq Item
    PROVE  /\ GraphInv' /\ InGraph(x)'
           /\ \A y \in Item \ {x} : InGraph(y)' <=> InGraph(y)
<1> DEFINE e == [label |-> x, vec |-> v, deleted |-> FALSE]
           z == slots[m].label
<1>0. /\ slots \in Seq(Element) /\ lookup \in [Item -> Nat]
      /\ \A y \in Item : lookup[y] <= Len(slots)
      /\ \A y \in Item : lookup[y] # 0 => slots[lookup[y]].label = y
      /\ \A n \in DOMAIN slots : slots[n].deleted => lookup[slots[n].label] = n
      /\ \A n \in 1..Len(slots) : slots[n] \in Element /\ slots[n].label \in Item
  BY GraphFacts
<1>1. m \in 1..Len(slots) /\ slots[m].deleted /\ z \in Item /\ lookup[z] = m
  BY <1>0 DEF Vacant
<1>2. lookup[x] # 0 /\ ~slots[lookup[x]].deleted /\ x # z /\ lookup[x] # m
  BY <1>1 DEF InGraph
<1>3. /\ slots' = [slots EXCEPT ![m] = e]
      /\ lookup' = [lookup EXCEPT ![z] = 0, ![x] = m]
  BY DEF ReplacePoint
<1>4. e \in Element /\ e.label = x /\ ~e.deleted
  BY DEF Element
<1> HIDE DEF e, z
<1>5. /\ slots' \in Seq(Element) /\ Len(slots') = Len(slots) /\ slots'[m] = e
      /\ \A n \in 1..Len(slots) : n # m => slots'[n] = slots[n]
  BY <1>0, <1>1, <1>3, <1>4
<1>6. /\ lookup' \in [Item -> Nat] /\ lookup'[x] = m /\ lookup'[z] = 0
      /\ \A y \in Item \ {x, z} : lookup'[y] = lookup[y]
  BY <1>0, <1>1, <1>2, <1>3
<1>7. \A y \in Item \ {z} : lookup[y] # m
  BY <1>0, <1>1 DEF z
<1>8. ASSUME NEW y \in Item PROVE lookup'[y] <= Len(slots')
  <2>1. lookup[y] <= Len(slots) /\ m <= Len(slots) /\ 0 <= Len(slots)
        /\ Len(slots') = Len(slots)
    BY <1>0, <1>1, <1>5
  <2>2. lookup'[y] \in {m, 0, lookup[y]}
    BY <1>6
  <2> QED BY <2>1, <2>2
<1>9. ASSUME NEW y \in Item, lookup'[y] # 0 PROVE slots'[lookup'[y]].label = y
  BY <1>0, <1>4, <1>5, <1>6, <1>7, <1>9
<1>10. ASSUME NEW n \in DOMAIN slots', slots'[n].deleted
       PROVE  lookup'[slots'[n].label] = n
  <2>1. n \in 1..Len(slots) /\ n # m /\ slots'[n] = slots[n] /\ slots[n].label \in Item
    BY <1>0, <1>4, <1>5, <1>10
  <2>2. lookup[slots[n].label] = n
    BY <1>0, <1>10, <2>1
  <2>3. slots[n].label # z
    BY <1>1, <2>1, <2>2
  <2>4. slots[n].label # x
    BY <1>2, <1>10, <2>1, <2>2
  <2> QED BY <1>6, <2>1, <2>2, <2>3, <2>4
<1>11. InGraph(x)'
  BY <1>1, <1>4, <1>5, <1>6 DEF InGraph
<1>12. ASSUME NEW y \in Item \ {x} PROVE InGraph(y)' <=> InGraph(y)
  <2>1. CASE y = z
    BY <1>1, <1>6, <2>1 DEF InGraph
  <2>2. CASE y # z
    BY <1>0, <1>5, <1>6, <1>7, <2>2 DEF InGraph
  <2> QED BY <2>1, <2>2
<1> QED BY <1>5, <1>6, <1>8, <1>9, <1>10, <1>11, <1>12 DEF GraphInv, Vacant

\* markDelete takes its own item out of the graph and no other.
LEMMA MarkKeepsGraph ==
    ASSUME GraphInv, NEW x \in Item, ~MarkThrows(x), MarkDelete(x),
           UNCHANGED <<lookup, activeLabels>>
    PROVE  /\ GraphInv' /\ ~InGraph(x)'
           /\ \A y \in Item \ {x} : InGraph(y)' <=> InGraph(y)
<1> DEFINE k == lookup[x]
           e == [slots[k] EXCEPT !.deleted = TRUE]
<1>0. /\ slots \in Seq(Element) /\ lookup \in [Item -> Nat]
      /\ \A y \in Item : lookup[y] <= Len(slots)
      /\ \A y \in Item : lookup[y] # 0 => slots[lookup[y]].label = y
      /\ \A n \in DOMAIN slots : slots[n].deleted => lookup[slots[n].label] = n
      /\ \A n \in 1..Len(slots) : slots[n] \in Element /\ slots[n].label \in Item
  BY GraphFacts
<1>1. k \in 1..Len(slots) /\ slots[k].label = x
  BY <1>0 DEF MarkThrows
<1>2. e \in Element /\ e.label = x /\ e.deleted
  BY <1>0, <1>1 DEF Element
<1>3. slots' = [slots EXCEPT ![k] = e]
  BY DEF MarkDelete
<1> HIDE DEF e
<1>4. /\ slots' \in Seq(Element) /\ Len(slots') = Len(slots) /\ slots'[k] = e
      /\ \A n \in 1..Len(slots) : n # k => slots'[n] = slots[n]
  BY <1>0, <1>1, <1>2, <1>3
<1>5. \A y \in Item \ {x} : lookup[y] # k
  BY <1>0, <1>1
<1>6. \A y \in Item : lookup'[y] # 0 => slots'[lookup'[y]].label = y
  BY <1>0, <1>2, <1>4
<1>7. \A n \in DOMAIN slots' : slots'[n].deleted => lookup'[slots'[n].label] = n
  BY <1>0, <1>2, <1>4
<1>8. ~InGraph(x)'
  BY <1>2, <1>4 DEF InGraph
<1>9. \A y \in Item \ {x} : InGraph(y)' <=> InGraph(y)
  BY <1>0, <1>4, <1>5 DEF InGraph
<1> QED BY <1>0, <1>4, <1>6, <1>7, <1>8, <1>9 DEF GraphInv, Vacant

-----------------------------------------------------------------------------
(* m_activeLabels and the graph *)

\* A step of a thread that touches neither keeps LabelInv, if what it remembers
\* of m_activeLabels is so.
LEMMA QuietKeepsLabels ==
    ASSUME WorkInv, LockInv, LabelInv, NEW w \in Worker, ~dead,
           UNCHANGED <<slots, lookup, activeLabels>>,
           \A u \in Worker \ {w} : work'[u] = work[u] /\ (mtx' = u <=> mtx = u),
           work[w].pc \notin {"insert", "hide", "forget"},
           work'[w].pc \notin {"insert", "hide", "forget"},
           work'[w].pc = "mark" => w = Applier /\ work'[w].item \in activeLabels,
           work'[w].pc \in {"enter", "label"} /\ work'[w].existed =>
               w = Applier /\ work'[w].item \in activeLabels
    PROVE  LabelInv'
<1>1. ASSUME NEW x \in Item, NEW u \in Worker PROVE Between(u, x)' <=> Between(u, x)
  <2>1. CASE u = w
    BY <2>1 DEF Between
  <2>2. CASE u # w
    BY <2>2 DEF Between
  <2> QED BY <2>1, <2>2
<1>2. \A x \in Item : InGraph(x)' <=> InGraph(x)
  BY DEF InGraph
<1>3. ASSUME NEW x \in Item, \A u \in Worker : ~Between(u, x)'
      PROVE  x \in activeLabels' <=> InGraph(x)'
  BY <1>1, <1>2, <1>3 DEF LabelInv
<1>4. \A u \in Worker : work'[u].pc = "insert" => work'[u].item \in activeLabels'
  BY DEF LabelInv
<1>5. work'[Applier].pc \in {"hide", "forget"} => ~InGraph(work[Applier].item)'
  <2>1. CASE w = Applier
    BY <2>1
  <2>2. CASE w # Applier
    <3>1. work'[Applier] = work[Applier]
      BY <2>2, WorkerFacts
    <3> QED BY <3>1 DEF LabelInv, InGraph
  <2> QED BY <2>1, <2>2
<1>6. work'[Applier].pc = "mark" => work'[Applier].item \in activeLabels'
  BY WorkerFacts DEF LabelInv
<1>7. \A u \in Worker : work'[u].pc \in {"enter", "label", "insert"} /\ work'[u].existed =>
           u = Applier /\ work'[u].item \in activeLabels'
  BY DEF LabelInv
<1> QED BY <1>3, <1>4, <1>5, <1>6, <1>7 DEF LabelInv

\* GraphInv reads the graph alone.
LEMMA SameGraph ==
    ASSUME GraphInv, UNCHANGED <<slots, lookup>>, activeLabels' \subseteq Item
    PROVE  GraphInv'
BY DEF GraphInv, Vacant

\* What thread w knows that holds m_mtx of the engine.
LEMMA HolderFacts ==
    ASSUME WorkInv, LockInv, NEW w \in Worker, work[w].pc \in EngineHeld
    PROVE  /\ mtx = w /\ w # Nil /\ work[w].item \in Item /\ work[w].vec \in Nat
           /\ \A u \in Worker \ {w} : work[u].pc \notin EngineHeld
           /\ \A u \in Worker, y \in Item :
                  Between(u, y) => u = w /\ y = work[w].item
<1>1. mtx = w /\ w # Nil
  BY WorkerFacts DEF LockInv
<1>2. work[w].item \in Item /\ work[w].vec \in Nat
  <2>1. work[w].pc \in OnItem
    BY DEF EngineHeld, OnItem
  <2>2. work[w] \in WorkRec
    BY DEF WorkInv
  <2> QED BY <2>1, <2>2 DEF WorkInv, WorkRec
<1>3. \A u \in Worker \ {w} : work[u].pc \notin EngineHeld
  BY <1>1 DEF LockInv
<1> QED BY <1>1, <1>2, <1>3 DEF Between

\* The first section of addPoint, upsertPoint and deletePoint remembers what
\* m_activeLabels says.
LEMMA CheckKeepsLabels ==
    ASSUME EngineInv, NEW w \in Worker, CheckLabel(w)
    PROVE  GraphInv' /\ LabelInv'
<1> USE DEF EngineInv
<1>1. PICK r : /\ Moved(w, r) /\ r.item = work[w].item
               /\ r.existed = (work[w].item \in activeLabels)
               /\ w # Applier => r.pc = IF work[w].item \in activeLabels
                                        THEN "visit" ELSE "enter"
               /\ w = Applier => \/ r.pc = "enter" \/ r.pc = "wake"
                                 \/ r.pc = "mark" /\ work[w].item \in activeLabels
  BY CheckMoves
<1>2. /\ work[w].pc = "check" /\ ~dead
      /\ UNCHANGED <<slots, lookup, activeLabels, mtx>>
  BY DEF CheckLabel, At, graphVars, tableVars
<1>3. work'[w] = r /\ \A u \in Worker \ {w} : work'[u] = work[u]
  BY <1>1, MovedWork
<1>4. r.pc \notin {"insert", "hide", "forget"}
      /\ (r.pc = "mark" => w = Applier /\ r.item \in activeLabels)
  BY <1>1
<1>5. r.pc = "enter" /\ r.existed => w = Applier /\ r.item \in activeLabels
  BY <1>1
<1>6. r.pc # "label"
  BY <1>1
<1>7. LabelInv'
  BY <1>2, <1>3, <1>4, <1>5, <1>6, QuietKeepsLabels
<1>8. GraphInv'
  BY <1>2, SameGraph DEF GraphInv
<1> QED BY <1>7, <1>8

\* What was remembered is still so when m_mtx is taken.
LEMMA EnterKeepsLabels ==
    ASSUME EngineInv, NEW w \in Worker, InsertEnter(w)
    PROVE  GraphInv' /\ LabelInv'
<1> USE DEF EngineInv
<1>1. /\ work[w].pc = "enter" /\ ~dead /\ mtx = Nil /\ mtx' = w
      /\ UNCHANGED <<slots, lookup, activeLabels>> /\ GoesOn(w, "label")
  BY DEF InsertEnter, At, graphVars, tableVars
<1>2. work[w].item \in Item
  BY <1>1 DEF WorkInv, OnItem
<1>3. PICK r : /\ Moved(w, r) /\ r.pc = "label" /\ r.item = work[w].item
               /\ r.existed = work[w].existed
  BY <1>1, <1>2, GoesOnMoves DEF ApplierPc, SearchPc
<1>4. work'[w] = r /\ \A u \in Worker \ {w} : work'[u] = work[u]
  BY <1>3, MovedWork
<1>5. r.existed => w = Applier /\ r.item \in activeLabels
  BY <1>1, <1>3 DEF LabelInv
<1>6. \A u \in Worker \ {w} : mtx' = u <=> mtx = u
  BY <1>1, WorkerFacts
<1>7. LabelInv'
  BY <1>1, <1>3, <1>4, <1>5, <1>6, QuietKeepsLabels
<1>8. GraphInv'
  BY <1>1, SameGraph DEF GraphInv
<1> QED BY <1>7, <1>8

\* The label enters m_activeLabels before the element enters the graph.
LEMMA LabelKeepsLabels ==
    ASSUME EngineInv, NEW w \in Worker, InsertLabel(w)
    PROVE  GraphInv' /\ LabelInv'
<1> USE DEF EngineInv
<1>0. PICK x \in Item : x = work[w].item
  <2>1. work[w].pc = "label"
    BY DEF InsertLabel, At
  <2> QED BY <2>1 DEF WorkInv, OnItem
<1>1. /\ work[w].pc = "label" /\ ~dead /\ UNCHANGED <<slots, lookup, mtx, dead>>
      /\ activeLabels' = IF work[w].existed THEN activeLabels ELSE activeLabels \cup {x}
      /\ GoesOn(w, "insert")
  BY <1>0 DEF InsertLabel, At, graphVars
<1>2. /\ mtx = w /\ x \in Item
      /\ \A u \in Worker \ {w} : work[u].pc \notin EngineHeld
      /\ \A u \in Worker, y \in Item : ~Between(u, y)
  BY <1>1, HolderFacts DEF EngineHeld, Between
<1>3. PICK r : /\ Moved(w, r) /\ r.pc = "insert" /\ r.item = x
               /\ r.existed = work[w].existed
  BY <1>0, <1>1, <1>2, GoesOnMoves DEF ApplierPc, SearchPc
<1>4. work'[w] = r /\ \A u \in Worker \ {w} : work'[u] = work[u]
  BY <1>3, MovedWork
<1>5. work[w].existed => w = Applier /\ x \in activeLabels
  BY <1>0, <1>1 DEF LabelInv
<1>6. x \in activeLabels' /\ activeLabels \subseteq activeLabels'
      /\ \A y \in Item \ {x} : y \in activeLabels' <=> y \in activeLabels
  BY <1>1, <1>5
<1>7. \A y \in Item : (InGraph(y)' <=> InGraph(y)) /\ (y \in activeLabels <=> InGraph(y))
  BY <1>1, <1>2 DEF InGraph, LabelInv
<1>8. ASSUME NEW y \in Item, \A u \in Worker : ~Between(u, y)'
      PROVE  y \in activeLabels' <=> InGraph(y)'
  <2>1. CASE y # x
    BY <1>6, <1>7, <2>1
  <2>2. CASE y = x
    <3>1. work[w].existed
      <4>1. ~Between(w, x)'
        BY <1>8, <2>2
      <4> QED BY <1>1, <1>2, <1>3, <1>4, <4>1 DEF Between
    <3> QED BY <1>5, <1>6, <1>7, <2>2, <3>1
  <2> QED BY <2>1, <2>2
<1>9. \A u \in Worker : work'[u].pc = "insert" => work'[u].item \in activeLabels'
  BY <1>2, <1>3, <1>4, <1>6 DEF EngineHeld
<1>10. work'[Applier].pc \notin {"hide", "forget"}
  BY <1>2, <1>3, <1>4, WorkerFacts DEF EngineHeld
<1>11. work'[Applier].pc = "mark" => work'[Applier].item \in activeLabels'
  <2>1. CASE w = Applier
    BY <1>3, <1>4, <2>1
  <2>2. CASE w # Applier
    BY <1>1, <1>4, <1>6, <2>2, WorkerFacts DEF LabelInv
  <2> QED BY <2>1, <2>2
<1>12. ASSUME NEW u \in Worker, work'[u].pc \in {"enter", "label", "insert"},
              work'[u].existed
       PROVE  u = Applier /\ work'[u].item \in activeLabels'
  <2>1. CASE u = w
    BY <1>3, <1>4, <1>5, <1>6, <1>12, <2>1
  <2>2. CASE u # w
    BY <1>1, <1>4, <1>6, <1>12, <2>2 DEF LabelInv
  <2> QED BY <2>1, <2>2
<1>13. LabelInv'
  BY <1>8, <1>9, <1>10, <1>11, <1>12 DEF LabelInv
<1>14. GraphInv'
  <2>1. activeLabels' \subseteq Item
    BY <1>1, <1>2 DEF GraphInv
  <2> QED BY <1>1, <2>1, SameGraph
<1> QED BY <1>13, <1>14

\* When m_mtx is released after an insertion the label is live in the graph.
LEMMA PointKeepsLabels ==
    ASSUME EngineInv, NEW w \in Worker, InsertPoint(w)
    PROVE  GraphInv' /\ LabelInv'
<1> USE DEF EngineInv
<1>1. work[w].pc = "insert" /\ ~dead
  BY DEF InsertPoint, At
<1>0. PICK x \in Item, v \in Nat : x = work[w].item /\ v = work[w].vec
  BY <1>1, HolderFacts DEF EngineHeld
<1>2. /\ mtx = w /\ x \in Item /\ v \in Nat
      /\ \A u \in Worker \ {w} : work[u].pc \notin EngineHeld
      /\ \A u \in Worker, y \in Item : Between(u, y) => u = w /\ y = x
  BY <1>0, <1>1, HolderFacts DEF EngineHeld
<1>3. CASE Die
  <2>1. LabelInv'
    BY <1>3 DEF Die, LabelInv
  <2>2. GraphInv'
    BY <1>3, SameGraph DEF Die, graphVars, tableVars, GraphInv
  <2> QED BY <2>1, <2>2
<1>4. CASE /\ (work[w].existed /\ Vacant # {}) \/ ~AddThrows(x)
           /\ IF work[w].existed THEN UpsertExisting(w) ELSE AddPoint(x, v)
           /\ mtx' = Nil /\ GoesOn(w, AfterInsert(w)) /\ UNCHANGED <<tableVars, dead>>
  <2>1. UNCHANGED <<activeLabels, dead>> /\ activeLabels' \subseteq Item
        /\ x \in activeLabels
    BY <1>0, <1>1, <1>4 DEF tableVars, GraphInv, LabelInv
  <2>2. PICK r : Moved(w, r) /\ r.pc = AfterInsert(w)
    BY <1>4, GoesOnMoves DEF AfterInsert, ApplierPc, SearchPc, OnItem
  <2>3. work'[w] = r /\ \A u \in Worker \ {w} : work'[u] = work[u]
    BY <2>2, MovedWork
  <2>4. /\ GraphInv' /\ InGraph(x)'
        /\ \A y \in Item \ {x} : InGraph(y)' <=> InGraph(y)
    <3>1. CASE AddPoint(x, v) /\ ~AddThrows(x)
      BY <1>2, <2>1, <3>1, AddKeepsGraph
    <3>2. CASE work[w].existed /\ \E n \in Vacant : ReplacePoint(n, x, v)
      <4>1. \A u \in Worker : ~Between(u, x)
        BY <1>1, <1>2, <3>2 DEF Between
      <4>2. InGraph(x)
        BY <1>1, <1>2, <2>1, <4>1 DEF LabelInv
      <4> QED BY <1>2, <2>1, <3>2, <4>2, ReplaceKeepsGraph
    <3> QED BY <1>0, <1>4, <3>1, <3>2 DEF UpsertExisting
  <2>5. \A y \in Item : y \in activeLabels' <=> InGraph(y)'
    BY <1>1, <1>2, <2>1, <2>4 DEF LabelInv
  <2>6. r.pc \in {"wake", "visit"}
    BY <2>2 DEF AfterInsert
  <2>7. /\ \A u \in Worker : work'[u].pc # "insert"
        /\ work'[Applier].pc \notin {"hide", "forget"}
    BY <1>2, <2>3, <2>6, WorkerFacts DEF EngineHeld
  <2>8. work'[Applier].pc = "mark" => work'[Applier].item \in activeLabels'
    BY <1>1, <2>1, <2>3, <2>6, WorkerFacts DEF LabelInv
  <2>9. \A u \in Worker : work'[u].pc \in {"enter", "label"} /\ work'[u].existed =>
            u = Applier /\ work'[u].item \in activeLabels'
    BY <1>1, <2>1, <2>3, <2>6 DEF LabelInv
  <2>10. LabelInv'
    BY <2>5, <2>7, <2>8, <2>9 DEF LabelInv
  <2> QED BY <2>4, <2>10
<1> QED BY <1>0, <1>3, <1>4 DEF InsertPoint

\* deletePoint finds the element it marks: what it read of m_activeLabels before
\* it had m_mtx is what the graph holds when it has it.
MarkFinds == At(Applier, "mark") /\ mtx = Nil => ~MarkThrows(work[Applier].item)

\* With EngineInv deletePoint meets a live element.
LEMMA LabelsGiveMark == EngineInv => MarkFinds
<1> SUFFICES ASSUME EngineInv, ~dead, work[Applier].pc = "mark", mtx = Nil
             PROVE  InGraph(work[Applier].item)
  BY DEF MarkFinds, MarkThrows, InGraph, At
<1>1. work[Applier].item \in Item /\ work[Applier].item \in activeLabels
  BY WorkerFacts DEF EngineInv, WorkInv, LabelInv, OnItem
<1>2. \A u \in Worker : ~Between(u, work[Applier].item)
  BY WorkerFacts DEF Between
<1> QED BY <1>1, <1>2 DEF EngineInv, LabelInv

\* The three sections of deletePoint.
LEMMA DeleteKeepsLabels ==
    ASSUME EngineInv, DeleteStep
    PROVE  GraphInv' /\ LabelInv'
<1> USE WorkerFacts DEF EngineInv
<1>0. PICK x \in Item : x = work[Applier].item
  <2>1. work[Applier].pc \in OnItem
    BY DEF DeleteStep, DeleteMark, DeleteHide, DeleteForget, At, OnItem
  <2> QED BY <2>1 DEF WorkInv
<1>1. ~dead
  BY DEF DeleteStep, DeleteMark, DeleteHide, DeleteForget, At
<1>2. CASE DeleteMark
  <2>1. work[Applier].pc = "mark" /\ mtx = Nil /\ x \in activeLabels
    BY <1>0, <1>1, <1>2 DEF DeleteMark, At, LabelInv
  <2>2. ~MarkThrows(x)
    BY <1>0, <1>1, <2>1, LabelsGiveMark DEF MarkFinds, At
  <2>3. /\ MarkDelete(x) /\ mtx' = Applier /\ GoesOn(Applier, "hide")
        /\ UNCHANGED <<lookup, activeLabels, dead>>
    BY <1>0, <1>2, <2>2 DEF DeleteMark, tableVars
  <2>4. /\ GraphInv' /\ ~InGraph(x)'
        /\ \A y \in Item \ {x} : InGraph(y)' <=> InGraph(y)
    BY <2>2, <2>3, MarkKeepsGraph
  <2>5. PICK r : Moved(Applier, r) /\ r.pc = "hide" /\ r.item = x
    BY <1>0, <2>3, GoesOnMoves DEF ApplierPc
  <2>6. work'[Applier] = r /\ \A u \in Worker \ {Applier} : work'[u] = work[u]
    BY <2>5, MovedWork
  <2>7. Between(Applier, x)'
    BY <2>3, <2>5, <2>6 DEF Between
  <2>8. \A y \in Item, u \in Worker : ~Between(u, y)
    BY <2>1 DEF Between
  <2>9. ASSUME NEW y \in Item, \A u \in Worker : ~Between(u, y)'
        PROVE  y \in activeLabels' <=> InGraph(y)'
    <3>1. y # x
      BY <2>7, <2>9
    <3> QED BY <1>1, <2>3, <2>4, <2>8, <3>1 DEF LabelInv
  <2>10. \A u \in Worker : work'[u].pc # "insert"
    BY <2>1, <2>5, <2>6 DEF LockInv, EngineHeld
  <2>11. \A u \in Worker : work'[u].pc \in {"enter", "label"} => ~work'[u].existed
    BY <1>1, <2>5, <2>6 DEF LabelInv
  <2>12. LabelInv'
    BY <2>4, <2>5, <2>6, <2>9, <2>10, <2>11 DEF LabelInv
  <2> QED BY <2>4, <2>12
<1>3. CASE DeleteHide
  <2>1. /\ work[Applier].pc = "hide" /\ GoesOn(Applier, "forget")
        /\ UNCHANGED <<slots, lookup, activeLabels, mtx, dead>>
    BY <1>3 DEF DeleteHide, At, graphVars
  <2>2. PICK r : Moved(Applier, r) /\ r.pc = "forget" /\ r.item = x
    BY <1>0, <2>1, GoesOnMoves DEF ApplierPc
  <2>3. work'[Applier] = r /\ \A u \in Worker \ {Applier} : work'[u] = work[u]
    BY <2>2, MovedWork
  <2>4. \A y \in Item, u \in Worker : Between(u, y)' <=> Between(u, y)
    BY <1>0, <2>1, <2>2, <2>3 DEF Between
  <2>5. ~InGraph(x) /\ \A y \in Item : InGraph(y)' <=> InGraph(y)
    BY <1>0, <1>1, <2>1 DEF LabelInv, InGraph
  <2>6. ASSUME NEW y \in Item, \A u \in Worker : ~Between(u, y)'
        PROVE  y \in activeLabels' <=> InGraph(y)'
    BY <1>1, <2>1, <2>4, <2>5, <2>6 DEF LabelInv
  <2>7. \A u \in Worker : work'[u].pc = "insert" => work'[u].item \in activeLabels'
    BY <1>1, <2>1, <2>2, <2>3 DEF LabelInv
  <2>8. \A u \in Worker : work'[u].pc \in {"enter", "label", "insert"} => ~work'[u].existed
    BY <1>1, <2>2, <2>3 DEF LabelInv
  <2>9. ~InGraph(work[Applier].item)'
    BY <2>2, <2>3, <2>5 DEF InGraph
  <2>10. LabelInv'
    BY <2>2, <2>3, <2>6, <2>7, <2>8, <2>9 DEF LabelInv
  <2>11. GraphInv'
    BY <2>1, SameGraph DEF GraphInv
  <2> QED BY <2>10, <2>11
<1>4. CASE DeleteForget
  <2>1. /\ work[Applier].pc = "forget" /\ GoesOn(Applier, "wake") /\ mtx' = Nil
        /\ activeLabels' = activeLabels \ {x} /\ UNCHANGED <<slots, lookup, dead>>
    BY <1>0, <1>4 DEF DeleteForget, Forget, At, graphVars
  <2>2. PICK r : Moved(Applier, r) /\ r.pc = "wake"
    BY <2>1, GoesOnMoves DEF ApplierPc, OnItem
  <2>3. work'[Applier] = r /\ \A u \in Worker \ {Applier} : work'[u] = work[u]
    BY <2>2, MovedWork
  <2>4. /\ \A u \in Worker \ {Applier} : work[u].pc \notin EngineHeld
        /\ \A u \in Worker, y \in Item : Between(u, y) => y = x
    BY <1>0, <2>1, HolderFacts DEF EngineHeld
  <2>5. ~InGraph(x) /\ \A y \in Item : InGraph(y)' <=> InGraph(y)
    BY <1>0, <1>1, <2>1 DEF LabelInv, InGraph
  <2>6. ASSUME NEW y \in Item PROVE y \in activeLabels' <=> InGraph(y)'
    <3>1. CASE y = x
      BY <2>1, <2>5, <3>1
    <3>2. CASE y # x
      BY <1>1, <2>1, <2>4, <2>5, <3>2 DEF LabelInv
    <3> QED BY <3>1, <3>2
  <2>7. \A u \in Worker : work'[u].pc # "insert"
    BY <2>2, <2>3, <2>4 DEF EngineHeld
  <2>8. \A u \in Worker : work'[u].pc \in {"enter", "label"} => ~work'[u].existed
    BY <1>1, <2>2, <2>3 DEF LabelInv
  <2>9. LabelInv'
    BY <2>2, <2>3, <2>6, <2>7, <2>8 DEF LabelInv
  <2>10. GraphInv'
    BY <2>1, SameGraph DEF GraphInv
  <2> QED BY <2>9, <2>10
<1> QED BY <1>2, <1>3, <1>4 DEF DeleteStep

\* Apply outside the engine, the build and Search leave both alone.
LEMMA OtherKeepsLabels ==
    ASSUME EngineInv,
           \/ ApplyWake \/ \E op \in Operation : ApplyTake(op)
           \/ \E t \in Searcher : SearchStart(t) \/ BuildStep(t) \/ AnswerStep(t)
    PROVE  GraphInv' /\ LabelInv'
<1> USE WorkerFacts DEF EngineInv
<1> DEFINE Far == {"idle", "build", "visit", "check", "wake", "size", "knn", "copy",
                   "resolve", "done"}
           Calm(w) == /\ ~dead /\ UNCHANGED <<slots, lookup, activeLabels, mtx>>
                      /\ work[w].pc \in Far
           Apart(w) == /\ work'[w].pc \in Far
                       /\ \A u \in Worker \ {w} : work'[u] = work[u]
<1>0. work \in [Worker -> WorkRec]
  BY DEF WorkInv
<1>1. ASSUME NEW w \in Worker, Calm(w), Apart(w) PROVE GraphInv' /\ LabelInv'
  <2>1. LabelInv'
    BY <1>1, QuietKeepsLabels
  <2>2. GraphInv'
    BY <1>1, SameGraph DEF GraphInv
  <2> QED BY <2>1, <2>2
<1>2. ASSUME NEW w \in Worker, NEW pc \in Far, GoesOn(w, pc) PROVE Apart(w)
  BY <1>0, <1>2 DEF GoesOn, WorkRec
<1>3. CASE ApplyWake
  <2>1. Calm(Applier)
    BY <1>3 DEF ApplyWake, At, graphVars, tableVars
  <2>2. work' = [work EXCEPT ![Applier] = Idle] /\ Idle.pc \in Far
    BY <1>3 DEF ApplyWake, Idle
  <2>3. Apart(Applier)
    BY <1>0, <2>2
  <2> QED BY <1>1, <2>1, <2>3
<1>4. ASSUME NEW op \in Operation, ApplyTake(op) PROVE GraphInv' /\ LabelInv'
  <2> DEFINE r == [pc |-> IF op.kind = "Put" THEN "wake" ELSE "check",
                   item |-> op.item, vec |-> at + 1, existed |-> FALSE]
  <2>1. Calm(Applier)
    BY <1>4 DEF ApplyTake, At, graphVars, tableVars
  <2>2. work' = [work EXCEPT ![Applier] = r] /\ r.pc \in Far
    BY <1>4 DEF ApplyTake
  <2> HIDE DEF r
  <2>3. Apart(Applier)
    BY <1>0, <2>2
  <2> QED BY <1>1, <2>1, <2>3
<1>5. ASSUME NEW t \in Searcher, SearchStart(t) \/ BuildStep(t) \/ AnswerStep(t)
      PROVE  GraphInv' /\ LabelInv'
  <2>1. Calm(t)
    BY <1>5 DEF SearchStart, BuildStep, BuildEnter, BuildDone, BuildVisit, AnswerStep,
       SearchSize, SearchKnn, SearchCopy, SearchResolve, SearchReply, At, graphVars,
       tableVars
  <2>2. ASSUME \/ SearchStart(t) \/ BuildEnter(t) \/ SearchSize(t) \/ SearchCopy(t)
               \/ \E k \in TopKs, S \in SUBSET Live : SearchKnn(t, k, S)
               \/ \E seen \in SUBSET Item : SearchResolve(t, seen)
        PROVE  Apart(t)
    <3>1. \E pc \in Far : GoesOn(t, pc)
      BY <2>2 DEF SearchStart, BuildEnter, SearchSize, SearchCopy, SearchKnn,
                  SearchResolve
    <3> QED BY <1>2, <3>1
  <2>3. ASSUME NEW x \in Item, BuildVisit(t, x) PROVE Apart(t)
    <3> DEFINE r == [pc |-> "check", item |-> x, vec |-> kvdb[x], existed |-> FALSE]
    <3>1. UNCHANGED work \/ work' = [work EXCEPT ![t] = r]
      BY <2>3 DEF BuildVisit
    <3>2. r.pc \in Far
      OBVIOUS
    <3> HIDE DEF r
    <3>3. CASE UNCHANGED work
      BY <2>1, <3>3
    <3>4. CASE work' = [work EXCEPT ![t] = r]
      BY <1>0, <3>2, <3>4
    <3> QED BY <3>1, <3>3, <3>4
  <2>4. ASSUME BuildDone(t) PROVE Apart(t)
    <3> DEFINE r == [Idle EXCEPT !.pc = "size"]
    <3>1. work' = [work EXCEPT ![t] = r]
      BY <2>4 DEF BuildDone
    <3>2. r.pc \in Far
      <4>1. Idle \in WorkRec
        BY DEF Idle, WorkRec, ApplierPc
      <4> QED BY <4>1 DEF WorkRec
    <3> HIDE DEF r
    <3> QED BY <1>0, <3>1, <3>2
  <2>5. ASSUME SearchReply(t) PROVE Apart(t)
    <3>1. work' = [work EXCEPT ![t] = Idle] /\ Idle.pc \in Far
      BY <2>5 DEF SearchReply, Idle
    <3> QED BY <1>0, <3>1
  <2> HIDE DEF Calm, Apart
  <2>6. Apart(t)
    BY <1>5, <2>2, <2>3, <2>4, <2>5 DEF BuildStep, AnswerStep
  <2> QED BY <1>1, <2>1, <2>6
<1> QED BY <1>3, <1>4, <1>5

\* EngineInv holds of a process that starts.
LEMMA EngineInvInit == RecallInit => EngineInv
<1> SUFFICES ASSUME RecallInit PROVE EngineInv
  OBVIOUS
<1>1. WorkInv /\ LockInv
  BY PlacesInit
<1>2. GraphInv
  BY DEF RecallInit, GraphInv, Vacant
<1>3. LabelInv
  BY WorkerFacts DEF RecallInit, LabelInv, InGraph, Idle
<1> QED BY <1>1, <1>2, <1>3 DEF EngineInv

\* Every step keeps EngineInv.
LEMMA EngineInvStep == EngineInv /\ [RecallNext]_recallVars => EngineInv'
<1> SUFFICES ASSUME EngineInv, [RecallNext]_recallVars PROVE EngineInv'
  OBVIOUS
<1>1. WorkInv' /\ LockInv'
  BY PlacesStep DEF EngineInv
<1>2. CASE UNCHANGED recallVars
  <2>1. GraphInv'
    BY <1>2, SameGraph DEF recallVars, graphVars, tableVars, EngineInv, GraphInv
  <2>2. LabelInv'
    BY <1>2 DEF recallVars, graphVars, tableVars, EngineInv, LabelInv, Between, InGraph
  <2> QED BY <1>1, <2>1, <2>2 DEF EngineInv
<1>3. CASE RecallRestart
  <2>1. GraphInv'
    BY <1>3 DEF RecallRestart, GraphInv, Vacant
  <2>2. LabelInv'
    BY <1>3, WorkerFacts DEF RecallRestart, LabelInv, InGraph, Idle
  <2> QED BY <1>1, <2>1, <2>2 DEF EngineInv
<1>4. ASSUME NEW w \in Worker, EngineStep(w) PROVE GraphInv' /\ LabelInv'
  BY <1>4, CheckKeepsLabels, EnterKeepsLabels, LabelKeepsLabels, PointKeepsLabels
     DEF EngineStep
<1>5. CASE RecallNext
  BY <1>1, <1>3, <1>4, <1>5, DeleteKeepsLabels, OtherKeepsLabels
     DEF RecallNext, EngineInv
<1> QED BY <1>2, <1>5

\* With m_mtx free no item is between the table and the graph.
LEMMA LabelsGiveActive == EngineInv => ActiveMatchesGraph
<1> SUFFICES ASSUME EngineInv, mtx = Nil, ~dead, NEW x \in Item
             PROVE  x \in activeLabels <=> lookup[x] # 0 /\ ~slots[lookup[x]].deleted
  BY DEF ActiveMatchesGraph
<1>1. \A w \in Worker : ~Between(w, x)
  BY WorkerFacts DEF Between
<1> QED BY <1>1 DEF EngineInv, LabelInv, InGraph

\* addPoint, upsertPoint and deletePoint read m_activeLabels in one critical
\* section and change the graph in another; still, whenever m_mtx is free the
\* table holds exactly the labels that are live in the graph, and deletePoint
\* never meets an element that is absent or marked already, so that its
\* markDelete throws nothing.
THEOREM ActiveAlwaysMatches == RecallSpec => [](ActiveMatchesGraph /\ MarkFinds)
<1>1. RecallSpec => []EngineInv
  BY EngineInvInit, EngineInvStep, PTL DEF RecallSpec
<1> QED BY <1>1, LabelsGiveActive, LabelsGiveMark, PTL

-----------------------------------------------------------------------------
(* The index, the log and a Search: the inductive invariant *)

\* Apply is busy with a feature operation on x; and past the first section.
Taking(x)  == work[Applier].pc \in OnItem /\ work[Applier].item = x
Working(x) == Taking(x) /\ work[Applier].pc # "check"

\* Where the work on an item comes from: Apply has it from the last operation
\* handed to it, the build from the SkipList.
SourceInv ==
    /\ work[Applier].pc \in OnItem =>
          /\ at # 0 /\ ops[at].kind # "Put"
          /\ work[Applier].item = ops[at].item /\ work[Applier].vec = at
          /\ work[Applier].pc \in {"enter", "label", "insert"} =>
                ops[at].kind = "PutFeature"
          /\ work[Applier].pc \in {"mark", "hide", "forget"} =>
                ops[at].kind = "DeleteFeature"
    /\ \A t \in Searcher : work[t].pc \in OnItem => kvdb[work[t].item] # Nil

\* An element marked deleted belongs to an item that was deleted, and as long as
\* nothing was deleted every element is the one its label leads to.
VacantInv ==
    /\ \A n \in Vacant : \E i \in 1..at :
          ops[i].kind = "DeleteFeature" /\ ops[i].item = slots[n].label
    /\ (\A i \in 1..at : ops[i].kind # "DeleteFeature") =>
          \A n \in DOMAIN slots : lookup[slots[n].label] = n
    /\ Len(slots) <= maxElements /\ maxElements \in Nat \ {0}

CauseInv == SourceInv /\ VacantInv /\ DeathHasCause

\* What the thread that holds m_mtx has done to the tables of its item.
TableInv ==
    /\ \A w \in Worker : work[w].pc = "insert" => work[w].item \in labelToItemId
    /\ \A w \in Worker : work[w].pc \in {"label", "insert"} =>
                            work[w].item \notin deletedItems
    /\ work[Applier].pc = "forget" => work[Applier].item \in deletedItems

\* The feature operations on x that are done, and the last of them.
Done(x)  == FeatureOps(x, Applied)
HasLast  == \A x \in Item : Done(x) # {} =>
                \E i \in Done(x) : \A j \in Done(x) : j <= i

\* An item that only Apply inserts is in the index exactly as the log says.
Follows(x) ==
    kvdb[x] = Nil /\ ~Taking(x) =>
        /\ x \in activeLabels <=> Inserted(x)
        /\ Inserted(x) => slots[lookup[x]].vec = LastOf(Done(x))

\* An item that the log inserted and Apply is not deleting can be found.
Findable(x) ==
    InGraph(x) /\ x \in activeLabels /\ x \notin deletedItems /\ x \in labelToItemId
Stays(x)    == Inserted(x) /\ ~(Taking(x) /\ ops[at].kind = "DeleteFeature")
Present(x)  == Stays(x) => Findable(x)

\* An item that is out of the index is hidden, or left nothing behind.
Hidden(x) == x \in deletedItems \/ \A n \in DOMAIN slots : slots[n].label # x
Absent(x) == kvdb[x] = Nil /\ x \notin activeLabels /\ ~Working(x) => Hidden(x)

InStep(x) == Follows(x) /\ Present(x) /\ Absent(x)
LogInv    == TableInv /\ HasLast /\ (~dead => \A x \in Item : InStep(x))

SearchRec == [todo : SUBSET Item, enough : BOOLEAN, exact : BOOLEAN, knn : SUBSET Item,
              delSet : SUBSET Item, found : SUBSET Item, raced : BOOLEAN,
              gone : SUBSET Item, steady : SUBSET Item]

\* A record of a Search that has the whole graph.
Full(r) == r.enough /\ r.exact

\* A Search on its way to what it must return ...
SteadyAt(t) ==
    /\ \A x \in search[t].steady : Stays(x)
    /\ work[t].pc \notin {"copy", "resolve", "done"} => ~Full(search[t])
    /\ work[t].pc \in {"copy", "resolve"} /\ Full(search[t])
          => search[t].steady \subseteq search[t].knn
    /\ work[t].pc = "resolve" => search[t].steady \cap search[t].delSet = {}
    /\ work[t].pc = "done" /\ ~search[t].raced /\ Full(search[t])
          => search[t].steady \subseteq search[t].found

\* ... and to what it must not: an item out of the index that nobody inserts.
Gone(x) == /\ kvdb[x] = Nil /\ Hidden(x)
           /\ ~(Taking(x) /\ ops[at].kind = "PutFeature")

GoneAt(t) ==
    /\ \A x \in search[t].gone : Gone(x)
    /\ work[t].pc # "done" => search[t].found = {}
    /\ work[t].pc = "copy" => search[t].gone \cap search[t].knn \subseteq deletedItems
    /\ work[t].pc = "resolve" =>
          search[t].gone \cap search[t].knn \subseteq search[t].delSet
    /\ work[t].pc = "done" => search[t].found \cap search[t].gone = {}

SearchInv ==
    /\ search \in [Searcher -> SearchRec] /\ deletedItems \subseteq Item
    /\ \A t \in Searcher : SteadyAt(t) /\ GoneAt(t)

-----------------------------------------------------------------------------
(* What a change of the graph leaves alone *)

\* The elements after a change that concerns x: those that were there, and
\* perhaps a live one of x to which its label leads; no other item loses what
\* its label leads to.
ChangedFor(x) ==
    /\ \A n \in DOMAIN slots' :
          \/ /\ n \in DOMAIN slots /\ slots'[n].label = slots[n].label
             /\ slots'[n].deleted => slots[n].deleted
          \/ slots'[n].label = x /\ ~slots'[n].deleted /\ lookup'[x] = n
    /\ \A y \in Item \ {x} : InGraph(y) =>
          lookup'[y] = lookup[y] /\ slots'[lookup'[y]].vec = slots[lookup[y]].vec

\* addPoint of hnswlib.
LEMMA AddChanges ==
    ASSUME GraphInv, NEW x \in Item, NEW v \in Nat, ~AddThrows(x), AddPoint(x, v)
    PROVE  /\ ChangedFor(x) /\ slots'[lookup'[x]].vec = v
           /\ Len(slots') = Len(slots) \/ (Len(slots') = Len(slots) + 1
                                           /\ ~(Len(slots) >= maxElements))
           /\ (\A n \in DOMAIN slots : lookup[slots[n].label] = n) =>
                  \A n \in DOMAIN slots' : lookup'[slots'[n].label] = n
<1> DEFINE e == [label |-> x, vec |-> v, deleted |-> FALSE]
           k == lookup[x]
<1>0. /\ slots \in Seq(Element) /\ lookup \in [Item -> Nat]
      /\ \A y \in Item : lookup[y] <= Len(slots) /\ lookup[y] \in Nat
      /\ \A y \in Item : lookup[y] # 0 => slots[lookup[y]].label = y
      /\ \A n \in 1..Len(slots) : slots[n] \in Element /\ slots[n].label \in Item
      /\ DOMAIN slots = 1..Len(slots) /\ Len(slots) \in Nat
  BY GraphFacts
<1>1. CASE k = 0
  <2>1. slots' = Append(slots, e) /\ lookup' = [lookup EXCEPT ![x] = Len(slots) + 1]
    BY <1>1 DEF AddPoint
  <2>2. e \in Element /\ e.label = x /\ ~e.deleted /\ e.vec = v
    BY DEF Element
  <2> HIDE DEF e
  <2>3. /\ Len(slots') = Len(slots) + 1 /\ DOMAIN slots' = 1..(Len(slots) + 1)
        /\ \A n \in 1..Len(slots) : slots'[n] = slots[n]
        /\ slots'[Len(slots) + 1] = e
    BY <1>0, <2>1, <2>2
  <2>4. /\ lookup'[x] = Len(slots) + 1
        /\ \A y \in Item \ {x} : lookup'[y] = lookup[y]
    BY <1>0, <2>1
  <2>5. \A n \in 1..(Len(slots) + 1) : n \in 1..Len(slots) \/ n = Len(slots) + 1
    BY <1>0
  <2>6. \A y \in Item : lookup[y] # 0 => lookup[y] \in 1..Len(slots)
    BY <1>0
  <2>7. ChangedFor(x)
    <3>1. ASSUME NEW n \in DOMAIN slots'
          PROVE  \/ /\ n \in DOMAIN slots /\ slots'[n].label = slots[n].label
                    /\ slots'[n].deleted => slots[n].deleted
                 \/ slots'[n].label = x /\ ~slots'[n].deleted /\ lookup'[x] = n
      BY <1>0, <2>2, <2>3, <2>4, <2>5
    <3>2. ASSUME NEW y \in Item \ {x}, InGraph(y)
          PROVE  lookup'[y] = lookup[y] /\ slots'[lookup'[y]].vec = slots[lookup[y]].vec
      BY <2>3, <2>4, <2>6, <3>2 DEF InGraph
    <3> QED BY <3>1, <3>2 DEF ChangedFor
  <2>8. ASSUME \A n \in DOMAIN slots : lookup[slots[n].label] = n,
               NEW n \in DOMAIN slots'
        PROVE  lookup'[slots'[n].label] = n
    <3>1. CASE n \in 1..Len(slots)
      <4>1. slots'[n].label = slots[n].label /\ slots[n].label \in Item
            /\ lookup[slots[n].label] = n /\ n # 0
        BY <1>0, <2>3, <2>8, <3>1
      <4>2. slots[n].label # x
        BY <1>1, <4>1
      <4> QED BY <2>4, <4>1, <4>2
    <3>2. CASE n = Len(slots) + 1
      BY <2>2, <2>3, <2>4, <3>2
    <3> QED BY <2>3, <2>5, <3>1, <3>2
  <2>9. ~(Len(slots) >= maxElements)
    BY <1>1 DEF AddThrows
  <2> QED BY <2>2, <2>3, <2>4, <2>7, <2>8, <2>9
<1>2. CASE k # 0
  <2>1. slots' = [slots EXCEPT ![k].vec = v] /\ lookup' = lookup
    BY <1>2 DEF AddPoint
  <2>2. k \in 1..Len(slots) /\ slots[k] \in Element /\ slots[k].label = x
    BY <1>0, <1>2
  <2>3. /\ [slots[k] EXCEPT !.vec = v].vec = v
        /\ [slots[k] EXCEPT !.vec = v].label = slots[k].label
        /\ [slots[k] EXCEPT !.vec = v].deleted = slots[k].deleted
    BY <2>2 DEF Element
  <2> HIDE DEF k
  <2>4. /\ Len(slots') = Len(slots) /\ DOMAIN slots' = DOMAIN slots
        /\ \A n \in 1..Len(slots) : n # k => slots'[n] = slots[n]
        /\ slots'[k].vec = v /\ slots'[k].label = slots[k].label
        /\ slots'[k].deleted = slots[k].deleted
    BY <1>0, <2>1, <2>2, <2>3
  <2>5. \A y \in Item \ {x} : lookup[y] # 0 => lookup[y] \in 1..Len(slots) /\ lookup[y] # k
    BY <1>0, <2>2
  <2>6. \A n \in DOMAIN slots : slots'[n].label = slots[n].label
                               /\ slots'[n].deleted = slots[n].deleted
    BY <1>0, <2>4
  <2>7. ChangedFor(x)
    <3>1. ASSUME NEW y \in Item \ {x}, InGraph(y)
          PROVE  lookup'[y] = lookup[y] /\ slots'[lookup'[y]].vec = slots[lookup[y]].vec
      BY <2>1, <2>4, <2>5, <3>1 DEF InGraph
    <3> QED BY <2>4, <2>6, <3>1 DEF ChangedFor
  <2> QED BY <2>1, <2>4, <2>6, <2>7 DEF k
<1> QED BY <1>1, <1>2

\* addPoint of hnswlib with replacement.
LEMMA ReplaceChanges ==
    ASSUME GraphInv, NEW x \in Item, NEW v \in Nat, NEW m \in Vacant, InGraph(x),
           ReplacePoint(m, x, v)
    PROVE  /\ ChangedFor(x) /\ slots'[lookup'[x]].vec = v /\ Len(slots') = Len(slots)
<1> DEFINE e == [label |-> x, vec |-> v, deleted |-> FALSE]
           z == slots[m].label
<1>0. /\ slots \in Seq(Element) /\ lookup \in [Item -> Nat]
      /\ \A y \in Item : lookup[y] <= Len(slots) /\ lookup[y] \in Nat
      /\ \A n \in DOMAIN slots : slots[n].deleted => lookup[slots[n].label] = n
      /\ \A n \in 1..Len(slots) : slots[n] \in Element /\ slots[n].label \in Item
      /\ DOMAIN slots = 1..Len(slots) /\ Len(slots) \in Nat
  BY GraphFacts
<1>1. m \in 1..Len(slots) /\ slots[m].deleted /\ z \in Item /\ lookup[z] = m
  BY <1>0 DEF Vacant
<1>2. x # z
  BY <1>1 DEF InGraph
<1>3. /\ slots' = [slots EXCEPT ![m] = e]
      /\ lookup' = [lookup EXCEPT ![z] = 0, ![x] = m]
  BY DEF ReplacePoint
<1>4. e \in Element /\ e.label = x /\ ~e.deleted /\ e.vec = v
  BY DEF Element
<1> HIDE DEF e, z
<1>5. /\ Len(slots') = Len(slots) /\ DOMAIN slots' = DOMAIN slots /\ slots'[m] = e
      /\ \A n \in 1..Len(slots) : n # m => slots'[n] = slots[n]
  BY <1>0, <1>1, <1>3, <1>4
<1>6. /\ lookup'[x] = m
      /\ \A y \in Item \ {x, z} : lookup'[y] = lookup[y]
  BY <1>0, <1>1, <1>2, <1>3
<1>7. ASSUME NEW y \in Item \ {x}, InGraph(y)
      PROVE  lookup'[y] = lookup[y] /\ slots'[lookup'[y]].vec = slots[lookup[y]].vec
  <2>1. lookup[y] # 0 /\ ~slots[lookup[y]].deleted /\ lookup[y] \in 1..Len(slots)
    BY <1>0, <1>7 DEF InGraph
  <2>2. lookup[y] # m /\ y # z
    BY <1>1, <2>1
  <2> QED BY <1>5, <1>6, <2>1, <2>2
<1>8. \A n \in DOMAIN slots' :
          \/ n \in DOMAIN slots /\ slots'[n] = slots[n]
          \/ slots'[n].label = x /\ ~slots'[n].deleted /\ lookup'[x] = n
  BY <1>0, <1>4, <1>5, <1>6
<1> QED BY <1>4, <1>5, <1>6, <1>7, <1>8 DEF ChangedFor

\* markDelete of hnswlib: the element of the label, and no other.
LEMMA MarkChanges ==
    ASSUME GraphInv, NEW x \in Item, ~MarkThrows(x), MarkDelete(x), UNCHANGED lookup
    PROVE  /\ Len(slots') = Len(slots) /\ DOMAIN slots' = DOMAIN slots
           /\ \A n \in DOMAIN slots : /\ slots'[n].label = slots[n].label
                                      /\ slots[n].label # x => slots'[n] = slots[n]
<1> DEFINE k == lookup[x]
<1>0. /\ slots \in Seq(Element) /\ lookup \in [Item -> Nat]
      /\ lookup[x] <= Len(slots)
      /\ lookup[x] # 0 => slots[lookup[x]].label = x
      /\ \A n \in 1..Len(slots) : slots[n] \in Element
      /\ DOMAIN slots = 1..Len(slots) /\ Len(slots) \in Nat
  BY GraphFacts
<1>1. k # 0 /\ k \in 1..Len(slots) /\ slots[k] \in Element /\ slots[k].label = x
  BY <1>0 DEF MarkThrows
<1>2. slots' = [slots EXCEPT ![k].deleted = TRUE]
  BY DEF MarkDelete
<1>3. [slots[k] EXCEPT !.deleted = TRUE].label = slots[k].label
  BY <1>1 DEF Element
<1> HIDE DEF k
<1>4. /\ Len(slots') = Len(slots) /\ DOMAIN slots' = DOMAIN slots
      /\ \A n \in 1..Len(slots) : n # k => slots'[n] = slots[n]
      /\ slots'[k].label = slots[k].label
  BY <1>0, <1>1, <1>2, <1>3
<1> QED BY <1>0, <1>1, <1>4

-----------------------------------------------------------------------------
(* The steps of a thread that works on an item *)

\* Thread w goes from place p to place q with the item x in hand.
Went(w, x, p, q) ==
    /\ ~dead /\ x \in Item /\ work[w].item = x /\ work[w].pc = p
    /\ work'[w].item = x /\ work'[w].vec = work[w].vec /\ work'[w].pc = q
    /\ \A u \in Worker \ {w} : work'[u] = work[u]
    /\ UNCHANGED <<ops, at, kvdb, maxElements, search>>

Checks(w, x) ==
    /\ \/ w # Applier /\ \E q \in {"visit", "enter"} : Went(w, x, "check", q)
       \/ w = Applier /\ Went(w, x, "check", "enter") /\ ops[at].kind = "PutFeature"
       \/ /\ w = Applier /\ ops[at].kind = "DeleteFeature"
          /\ \/ Went(w, x, "check", "mark")
             \/ Went(w, x, "check", "wake") /\ x \notin activeLabels
    /\ UNCHANGED <<slots, lookup, labelToItemId, activeLabels, deletedItems, dead>>

Enters(w, x) ==
    /\ Went(w, x, "enter", "label") /\ mtx = Nil
    /\ deletedItems' = deletedItems \ {x}
    /\ UNCHANGED <<slots, lookup, labelToItemId, activeLabels, dead>>

Labels(w, x) ==
    /\ Went(w, x, "label", "insert")
    /\ labelToItemId' = labelToItemId \cup {x}
    /\ activeLabels \subseteq activeLabels' /\ activeLabels' \subseteq activeLabels \cup {x}
    /\ UNCHANGED <<slots, lookup, deletedItems, dead>>

Points(w, x) ==
    /\ Went(w, x, "insert", AfterInsert(w))
    /\ ChangedFor(x) /\ slots'[lookup'[x]].vec = work[w].vec
    /\ InGraph(x)' /\ \A y \in Item \ {x} : InGraph(y)' <=> InGraph(y)
    /\ Len(slots') = Len(slots) \/ (Len(slots') = Len(slots) + 1
                                    /\ ~(Len(slots) >= maxElements))
    /\ Vacant = {} /\ (\A n \in DOMAIN slots : lookup[slots[n].label] = n) =>
           \A n \in DOMAIN slots' : lookup'[slots'[n].label] = n
    /\ UNCHANGED <<labelToItemId, activeLabels, deletedItems, dead>>

Dies(w, x) ==
    /\ ~dead /\ dead' /\ x \in Item /\ work[w].item = x /\ work[w].pc = "insert"
    /\ AddThrows(x)
    /\ UNCHANGED <<ops, at, kvdb, maxElements, search, work, slots, lookup,
                   labelToItemId, activeLabels, deletedItems>>

Marks(x) ==
    /\ Went(Applier, x, "mark", "hide")
    /\ \A n \in DOMAIN slots : /\ slots'[n].label = slots[n].label
                               /\ slots[n].label # x => slots'[n] = slots[n]
    /\ Len(slots') = Len(slots) /\ DOMAIN slots' = DOMAIN slots
    /\ UNCHANGED <<lookup, labelToItemId, activeLabels, deletedItems, dead>>

Hides(x) ==
    /\ Went(Applier, x, "hide", "forget")
    /\ deletedItems' = deletedItems \cup {x}
    /\ UNCHANGED <<slots, lookup, labelToItemId, activeLabels, dead>>

Forgets(x) ==
    /\ Went(Applier, x, "forget", "wake")
    /\ activeLabels' = activeLabels \ {x}
    /\ UNCHANGED <<slots, lookup, labelToItemId, deletedItems, dead>>

Engine(w, x) ==
    \/ Checks(w, x) \/ Enters(w, x) \/ Labels(w, x) \/ Points(w, x) \/ Dies(w, x)
    \/ w = Applier /\ (Marks(x) \/ Hides(x) \/ Forgets(x))

\* A step of GoesOn is such a move.
LEMMA GoesOnWent ==
    ASSUME WorkInv, NEW w \in Worker, NEW p \in OnItem, NEW q, At(w, p), GoesOn(w, q),
           UNCHANGED <<ops, at, kvdb, maxElements, search>>,
           q \in IF w = Applier THEN ApplierPc ELSE SearchPc
    PROVE  Went(w, work[w].item, p, q)
<1>1. work[w].pc = p /\ ~dead /\ work[w].item \in Item
  BY DEF At, WorkInv
<1>2. PICK r : /\ Moved(w, r) /\ r.pc = q
               /\ r.item = work[w].item /\ r.vec = work[w].vec
  BY <1>1, GoesOnMoves
<1>3. work'[w] = r /\ \A u \in Worker \ {w} : work'[u] = work[u]
  BY <1>2, MovedWork
<1> QED BY <1>1, <1>2, <1>3 DEF Went

\* The first section.
LEMMA CheckWent ==
    ASSUME WorkInv, NEW w \in Worker, CheckLabel(w)
    PROVE  Checks(w, work[w].item)
<1> DEFINE x == work[w].item
<1>1. work[w].pc = "check" /\ ~dead /\ x \in Item
  BY DEF CheckLabel, At, WorkInv, OnItem
<1>2. /\ UNCHANGED <<ops, at, kvdb, maxElements, search>>
      /\ UNCHANGED <<slots, lookup, labelToItemId, activeLabels, deletedItems, dead>>
  BY DEF CheckLabel, serverVars, graphVars, tableVars
<1>3. PICK r : /\ Moved(w, r)
               /\ r.item = work[w].item /\ r.vec = work[w].vec
               /\ w # Applier => r.pc = IF work[w].item \in activeLabels
                                        THEN "visit" ELSE "enter"
               /\ w = Applier => \/ r.pc = "enter" /\ ops[at].kind = "PutFeature"
                                 \/ /\ ops[at].kind = "DeleteFeature"
                                    /\ r.pc = IF work[w].item \in activeLabels
                                              THEN "mark" ELSE "wake"
  BY CheckMoves
<1>4. work'[w] = r /\ \A u \in Worker \ {w} : work'[u] = work[u]
  BY <1>3, MovedWork
<1>5. Went(w, x, "check", r.pc)
  BY <1>1, <1>2, <1>3, <1>4 DEF Went
<1> QED BY <1>2, <1>3, <1>5 DEF Checks

\* The insertion of the point.
LEMMA PointWent ==
    ASSUME EngineInv, NEW w \in Worker, InsertPoint(w)
    PROVE  Points(w, work[w].item) \/ Dies(w, work[w].item)
<1> USE DEF EngineInv
<1>1. work[w].pc = "insert" /\ ~dead /\ UNCHANGED <<ops, at, kvdb, maxElements, search>>
  BY DEF InsertPoint, At, serverVars
<1>0. PICK x \in Item, v \in Nat : x = work[w].item /\ v = work[w].vec
  BY <1>1, HolderFacts DEF EngineHeld
<1>2. /\ mtx = w
      /\ \A u \in Worker, y \in Item : Between(u, y) => u = w /\ y = x
  BY <1>0, <1>1, HolderFacts DEF EngineHeld
<1>3. CASE AddThrows(x) /\ Die
  BY <1>0, <1>1, <1>3 DEF Die, Dies, graphVars, tableVars
<1>4. CASE /\ (work[w].existed /\ Vacant # {}) \/ ~AddThrows(x)
           /\ IF work[w].existed THEN UpsertExisting(w) ELSE AddPoint(x, v)
           /\ GoesOn(w, AfterInsert(w)) /\ UNCHANGED <<tableVars, dead>>
  <2>1. UNCHANGED <<labelToItemId, activeLabels, deletedItems, dead>>
        /\ activeLabels' \subseteq Item /\ x \in activeLabels
    BY <1>0, <1>1, <1>4 DEF tableVars, GraphInv, LabelInv
  <2>2. Went(w, x, "insert", AfterInsert(w))
    <3>1. At(w, "insert") /\ "insert" \in OnItem
      BY <1>1 DEF At, OnItem
    <3>2. AfterInsert(w) \in IF w = Applier THEN ApplierPc ELSE SearchPc
      BY DEF AfterInsert, ApplierPc, SearchPc
    <3> QED BY <1>0, <1>1, <1>4, <3>1, <3>2, GoesOnWent
  <2>3. CASE AddPoint(x, v) /\ ~AddThrows(x)
    <3>1. InGraph(x)' /\ \A y \in Item \ {x} : InGraph(y)' <=> InGraph(y)
      BY <2>1, <2>3, AddKeepsGraph
    <3>2. /\ ChangedFor(x) /\ slots'[lookup'[x]].vec = v
          /\ Len(slots') = Len(slots) \/ (Len(slots') = Len(slots) + 1
                                          /\ ~(Len(slots) >= maxElements))
          /\ (\A n \in DOMAIN slots : lookup[slots[n].label] = n) =>
                 \A n \in DOMAIN slots' : lookup'[slots'[n].label] = n
      BY <2>3, AddChanges
    <3>3. Points(w, x)
      BY <1>0, <2>1, <2>2, <3>1, <3>2 DEF Points
    <3> QED BY <1>0, <3>3
  <2>4. CASE work[w].existed /\ \E n \in Vacant : ReplacePoint(n, x, v)
    <3>1. \A u \in Worker : ~Between(u, x)
      BY <1>1, <1>2, <2>4 DEF Between
    <3>2. InGraph(x)
      BY <1>1, <2>1, <3>1 DEF LabelInv
    <3>3. InGraph(x)' /\ \A y \in Item \ {x} : InGraph(y)' <=> InGraph(y)
      BY <2>1, <2>4, <3>2, ReplaceKeepsGraph
    <3>4. /\ ChangedFor(x) /\ slots'[lookup'[x]].vec = v /\ Len(slots') = Len(slots)
      BY <2>4, <3>2, ReplaceChanges
    <3>5. Points(w, x)
      BY <1>0, <2>1, <2>2, <2>4, <3>3, <3>4 DEF Points
    <3> QED BY <1>0, <3>5
  <2> QED BY <1>0, <1>4, <2>3, <2>4 DEF UpsertExisting
<1> QED BY <1>0, <1>3, <1>4 DEF InsertPoint

\* Every step of addPoint, upsertPoint and deletePoint is one of the above.
LEMMA EngineCases ==
    ASSUME EngineInv, NEW w \in Worker, EngineStep(w) \/ (w = Applier /\ DeleteStep)
    PROVE  Engine(w, work[w].item)
<1> USE DEF EngineInv
<1> DEFINE x == work[w].item
<1>0. UNCHANGED <<ops, at, kvdb, maxElements, search>>
  BY DEF EngineStep, CheckLabel, InsertEnter, InsertLabel, InsertPoint, DeleteStep,
         DeleteMark, DeleteHide, DeleteForget, serverVars
<1>1. CASE CheckLabel(w)
  BY <1>1, CheckWent DEF Engine
<1>2. CASE InsertEnter(w)
  <2>1. /\ At(w, "enter") /\ GoesOn(w, "label") /\ "enter" \in OnItem
        /\ "label" \in IF w = Applier THEN ApplierPc ELSE SearchPc
    BY <1>2 DEF InsertEnter, OnItem, ApplierPc, SearchPc
  <2>2. Went(w, x, "enter", "label")
    BY <1>0, <2>1, GoesOnWent
  <2>3. Enters(w, x)
    BY <1>2, <2>2 DEF InsertEnter, Unhide, Enters, graphVars
  <2> QED BY <2>3 DEF Engine
<1>3. CASE InsertLabel(w)
  <2>1. /\ At(w, "label") /\ GoesOn(w, "insert") /\ "label" \in OnItem
        /\ "insert" \in IF w = Applier THEN ApplierPc ELSE SearchPc
    BY <1>3 DEF InsertLabel, OnItem, ApplierPc, SearchPc
  <2>2. Went(w, x, "label", "insert")
    BY <1>0, <2>1, GoesOnWent
  <2>3. Labels(w, x)
    BY <1>3, <2>2 DEF InsertLabel, Labels, graphVars
  <2> QED BY <2>3 DEF Engine
<1>4. CASE InsertPoint(w)
  BY <1>4, PointWent DEF Engine
<1>5. CASE w = Applier /\ DeleteMark
  <2>1. At(Applier, "mark") /\ mtx = Nil /\ "mark" \in OnItem /\ "hide" \in ApplierPc
    BY <1>5 DEF DeleteMark, OnItem, ApplierPc
  <2>2. ~MarkThrows(x) /\ x \in Item
    BY <1>5, <2>1, LabelsGiveMark DEF MarkFinds, At, WorkInv
  <2>3. /\ MarkDelete(x) /\ GoesOn(Applier, "hide")
        /\ UNCHANGED <<lookup, labelToItemId, activeLabels, deletedItems, dead>>
    BY <1>5, <2>2 DEF DeleteMark, tableVars
  <2>4. Went(Applier, x, "mark", "hide")
    BY <1>0, <1>5, <2>1, <2>3, GoesOnWent
  <2>5. Marks(x)
    BY <2>2, <2>3, <2>4, MarkChanges DEF Marks
  <2> QED BY <1>5, <2>5 DEF Engine
<1>6. CASE w = Applier /\ DeleteHide
  <2>1. /\ At(Applier, "hide") /\ GoesOn(Applier, "forget")
        /\ "hide" \in OnItem /\ "forget" \in ApplierPc
    BY <1>6 DEF DeleteHide, OnItem, ApplierPc
  <2>2. Went(Applier, x, "hide", "forget")
    BY <1>0, <1>6, <2>1, GoesOnWent
  <2>3. Hides(x)
    BY <1>6, <2>2 DEF DeleteHide, Hides, graphVars
  <2> QED BY <1>6, <2>3 DEF Engine
<1>7. CASE w = Applier /\ DeleteForget
  <2>1. /\ At(Applier, "forget") /\ GoesOn(Applier, "wake")
        /\ "forget" \in OnItem /\ "wake" \in ApplierPc
    BY <1>7 DEF DeleteForget, OnItem, ApplierPc
  <2>2. Went(Applier, x, "forget", "wake")
    BY <1>0, <1>7, <2>1, GoesOnWent
  <2>3. Forgets(x)
    BY <1>7, <2>2 DEF DeleteForget, Forget, Forgets, graphVars
  <2> QED BY <1>7, <2>3 DEF Engine
<1> QED BY <1>1, <1>2, <1>3, <1>4, <1>5, <1>6, <1>7 DEF EngineStep, DeleteStep

-----------------------------------------------------------------------------
(* The other steps *)

\* A handler of Search, outside the engine.
Handles(t) ==
    /\ ~dead /\ work[t].pc \notin OnItem
    /\ \A u \in Worker \ {t} : work'[u] = work[u]
    /\ work'[t].pc \in OnItem => work'[t].pc = "check" /\ kvdb[work'[t].item] # Nil
    /\ UNCHANGED <<ops, at, kvdb, maxElements, slots, lookup, labelToItemId,
                   activeLabels, deletedItems, dead>>

\* Apply answers and is idle again.
Wakes ==
    /\ ~dead /\ work[Applier].pc = "wake" /\ work'[Applier] = Idle
    /\ \A u \in Worker \ {Applier} : work'[u] = work[u]
    /\ UNCHANGED <<ops, at, kvdb, maxElements, slots, lookup, labelToItemId,
                   activeLabels, deletedItems, dead, search>>

\* Apply takes op, which is then the last operation it was handed.
Takes(op) ==
    /\ ~dead /\ work[Applier].pc = "idle" /\ op.item \in Item
    /\ op.kind \in {"Put", "PutFeature", "DeleteFeature"}
    /\ at' = at + 1 /\ ops'[at + 1] = op /\ \A i \in 1..at : ops'[i] = ops[i]
    /\ work'[Applier].item = op.item /\ work'[Applier].vec = at + 1
    /\ work'[Applier].pc = IF op.kind = "Put" THEN "wake" ELSE "check"
    /\ \A u \in Worker \ {Applier} : work'[u] = work[u]
    /\ \A x \in Item : kvdb'[x] = IF op.kind = "Put" /\ x = op.item THEN at + 1
                                  ELSE kvdb[x]
    /\ UNCHANGED <<maxElements, slots, lookup, labelToItemId, activeLabels,
                   deletedItems, dead>>

\* The handlers of Search.
LEMMA HandlerCases ==
    ASSUME EngineInv, NEW t \in Searcher,
           SearchStart(t) \/ BuildStep(t) \/ AnswerStep(t)
    PROVE  Handles(t)
<1> USE WorkerFacts DEF EngineInv
<1>0. work \in [Worker -> WorkRec]
  BY DEF WorkInv
<1>1. /\ ~dead /\ work[t].pc \notin OnItem
      /\ UNCHANGED <<ops, at, kvdb, maxElements, slots, lookup, labelToItemId,
                     activeLabels, deletedItems, dead>>
  BY DEF SearchStart, BuildStep, BuildEnter, BuildDone, BuildVisit, AnswerStep,
     SearchSize, SearchKnn, SearchCopy, SearchResolve, SearchReply, At, graphVars,
     tableVars, serverVars, OnItem
<1> DEFINE Apart == /\ work'[t].pc \in OnItem => work'[t].pc = "check"
                                                 /\ kvdb[work'[t].item] # Nil
                    /\ \A u \in Worker \ {t} : work'[u] = work[u]
<1>2. ASSUME \/ SearchStart(t) \/ BuildEnter(t) \/ SearchSize(t) \/ SearchCopy(t)
             \/ \E k \in TopKs, S \in SUBSET Live : SearchKnn(t, k, S)
             \/ \E seen \in SUBSET Item : SearchResolve(t, seen)
      PROVE  Apart
  <2>1. \E pc \in {"size", "build", "visit", "done", "knn", "resolve", "copy"} :
            GoesOn(t, pc)
    BY <1>2 DEF SearchStart, BuildEnter, SearchSize, SearchCopy, SearchKnn,
                SearchResolve
  <2>2. PICK pc \in {"size", "build", "visit", "done", "knn", "resolve", "copy"} :
            GoesOn(t, pc)
    BY <2>1
  <2>3. pc \notin OnItem
    BY DEF OnItem
  <2>4. work'[t].pc = pc /\ \A u \in Worker \ {t} : work'[u] = work[u]
    BY <1>0, <2>2 DEF GoesOn, WorkRec
  <2> QED BY <2>3, <2>4
<1>3. ASSUME NEW x \in Item, BuildVisit(t, x) PROVE Apart
  <2> DEFINE r == [pc |-> "check", item |-> x, vec |-> kvdb[x], existed |-> FALSE]
  <2>1. UNCHANGED work \/ (kvdb[x] # Nil /\ work' = [work EXCEPT ![t] = r])
    BY <1>3 DEF BuildVisit
  <2>2. r.pc = "check" /\ r.item = x
    OBVIOUS
  <2> HIDE DEF r
  <2>3. CASE UNCHANGED work
    BY <1>1, <2>3
  <2>4. CASE kvdb[x] # Nil /\ work' = [work EXCEPT ![t] = r]
    BY <1>0, <2>2, <2>4
  <2> QED BY <2>1, <2>3, <2>4
<1>4. ASSUME BuildDone(t) PROVE Apart
  <2> DEFINE r == [Idle EXCEPT !.pc = "size"]
  <2>1. work' = [work EXCEPT ![t] = r]
    BY <1>4 DEF BuildDone
  <2>2. r.pc \notin OnItem
    <3>1. Idle \in WorkRec
      BY DEF Idle, WorkRec, ApplierPc
    <3> QED BY <3>1 DEF WorkRec, OnItem
  <2> HIDE DEF r
  <2> QED BY <1>0, <2>1, <2>2
<1>5. ASSUME SearchReply(t) PROVE Apart
  <2>1. work' = [work EXCEPT ![t] = Idle] /\ Idle.pc \notin OnItem
    BY <1>5 DEF SearchReply, Idle, OnItem
  <2> QED BY <1>0, <2>1
<1> HIDE DEF Apart
<1>6. Apart
  BY <1>2, <1>3, <1>4, <1>5 DEF BuildStep, AnswerStep
<1> QED BY <1>1, <1>6 DEF Handles, Apart

\* Apply between two operations.
LEMMA WakeCases == ASSUME EngineInv, ApplyWake PROVE Wakes
BY WorkerFacts DEF EngineInv, WorkInv, ApplyWake, At, Wakes, serverVars, graphVars,
   tableVars

\* Apply takes the next operation.
LEMMA TakeCases ==
    ASSUME EngineInv, NEW op \in Operation, ApplyTake(op)
    PROVE  Takes(op)
<1> USE WorkerFacts DEF EngineInv
<1> DEFINE r == [pc |-> IF op.kind = "Put" THEN "wake" ELSE "check",
                 item |-> op.item, vec |-> at + 1, existed |-> FALSE]
<1>1. /\ ~dead /\ work[Applier].pc = "idle" /\ work' = [work EXCEPT ![Applier] = r]
      /\ UNCHANGED <<maxElements, slots, lookup, labelToItemId, activeLabels,
                     deletedItems, dead>>
  BY DEF ApplyTake, At, graphVars, tableVars
<1>2. op.item \in Item /\ op.kind \in {"Put", "PutFeature", "DeleteFeature"}
  BY DEF Operation
<1>3. /\ r.item = op.item /\ r.vec = at + 1
      /\ r.pc = IF op.kind = "Put" THEN "wake" ELSE "check"
  OBVIOUS
<1>4. at' = at + 1 /\ ops'[at + 1] = op /\ \A i \in 1..at : ops'[i] = ops[i]
  <2>1. at \in Nat /\ at <= Len(ops) /\ ops \in Seq(Operation)
    BY DEF WorkInv
  <2>2. at' = at + 1
    BY DEF ApplyTake
  <2>3. CASE at < Len(ops) /\ op = ops[at + 1] /\ UNCHANGED ops
    BY <2>1, <2>2, <2>3
  <2>4. CASE at = Len(ops) /\ ops' = Append(ops, op)
    BY <2>1, <2>2, <2>4
  <2> QED BY <2>3, <2>4 DEF ApplyTake
<1> HIDE DEF r
<1>5. work'[Applier] = r /\ \A u \in Worker \ {Applier} : work'[u] = work[u]
  BY <1>1 DEF WorkInv
<1>6. \A x \in Item : kvdb'[x] = IF op.kind = "Put" /\ x = op.item THEN at + 1
                                ELSE kvdb[x]
  <2>1. kvdb \in [Item -> Nat \cup {Nil}]
    BY DEF WorkInv
  <2>2. kvdb' = IF op.kind = "Put" THEN [kvdb EXCEPT ![op.item] = at + 1] ELSE kvdb
    BY DEF ApplyTake
  <2> QED BY <1>2, <2>1, <2>2
<1> QED BY <1>1, <1>2, <1>3, <1>4, <1>5, <1>6 DEF Takes

-----------------------------------------------------------------------------
(* Why the process dies *)

\* The engine keeps the source of the work on an item.
LEMMA EngineKeepsSource ==
    ASSUME EngineInv, SourceInv, NEW w \in Worker, NEW x, Engine(w, x)
    PROVE  SourceInv'
<1> USE WorkerFacts
<1>1. CASE UNCHANGED work /\ UNCHANGED <<ops, at, kvdb>>
  BY <1>1 DEF SourceInv
<1>2. ASSUME NEW p, NEW q, Went(w, x, p, q), p \in OnItem,
             w = Applier /\ q \in {"enter", "label", "insert"} =>
                 ops[at].kind = "PutFeature",
             w = Applier /\ q \in {"mark", "hide", "forget"} =>
                 ops[at].kind = "DeleteFeature"
      PROVE  SourceInv'
  <2>1. /\ work[w].item = x /\ work[w].pc = p /\ work'[w].item = x
        /\ work'[w].vec = work[w].vec /\ work'[w].pc = q
        /\ \A u \in Worker \ {w} : work'[u] = work[u]
        /\ ops' = ops /\ at' = at /\ kvdb' = kvdb
    BY <1>2 DEF Went
  <2>2. ASSUME NEW t \in Searcher, work'[t].pc \in OnItem
        PROVE  kvdb'[work'[t].item] # Nil
    BY <1>2, <2>1, <2>2 DEF SourceInv
  <2>3. CASE w = Applier
    BY <1>2, <2>1, <2>2, <2>3 DEF SourceInv
  <2>4. CASE w # Applier
    <3>1. work'[Applier] = work[Applier]
      BY <2>1, <2>4
    <3> QED BY <2>1, <2>2, <3>1 DEF SourceInv
  <2> QED BY <2>3, <2>4
<1>3. CASE Checks(w, x)
  <2>1. "check" \in OnItem
    BY DEF OnItem
  <2>2. PICK q \in {"visit", "enter", "mark", "wake"} :
           /\ Went(w, x, "check", q)
           /\ w = Applier /\ q = "enter" => ops[at].kind = "PutFeature"
           /\ w = Applier /\ q = "mark" => ops[at].kind = "DeleteFeature"
    BY <1>3 DEF Checks
  <2> QED BY <1>2, <2>1, <2>2
<1>4. ASSUME NEW p \in {"enter", "label"}, NEW q \in {"label", "insert"},
             Went(w, x, p, q)
      PROVE  SourceInv'
  <2>1. work[w].pc = p /\ p \in OnItem
    BY <1>4 DEF Went, OnItem
  <2>2. w = Applier => ops[at].kind = "PutFeature"
    BY <2>1 DEF SourceInv
  <2> QED BY <1>2, <1>4, <2>1, <2>2
<1>5. CASE Points(w, x)
  <2>1. Went(w, x, "insert", AfterInsert(w)) /\ "insert" \in OnItem
    BY <1>5 DEF Points, OnItem
  <2>2. AfterInsert(w) \in {"wake", "visit"}
    BY DEF AfterInsert
  <2> QED BY <1>2, <2>1, <2>2
<1>6. ASSUME w = Applier, NEW p \in {"mark", "hide", "forget"},
             NEW q \in {"hide", "forget", "wake"}, Went(w, x, p, q)
      PROVE  SourceInv'
  <2>1. work[w].pc = p /\ p \in OnItem
    BY <1>6 DEF Went, OnItem
  <2>2. ops[at].kind = "DeleteFeature"
    BY <1>6, <2>1 DEF SourceInv
  <2> QED BY <1>2, <1>6, <2>1, <2>2
<1>7. Dies(w, x) => UNCHANGED work /\ UNCHANGED <<ops, at, kvdb>>
  BY DEF Dies
<1>8. Enters(w, x) => Went(w, x, "enter", "label")
  BY DEF Enters
<1>9. Labels(w, x) => Went(w, x, "label", "insert")
  BY DEF Labels
<1>10. w = Applier /\ (Marks(x) \/ Hides(x) \/ Forgets(x)) =>
           \E p \in {"mark", "hide", "forget"}, q \in {"hide", "forget", "wake"} :
               Went(w, x, p, q)
  BY DEF Marks, Hides, Forgets
<1> QED BY <1>1, <1>3, <1>4, <1>5, <1>6, <1>7, <1>8, <1>9, <1>10 DEF Engine

\* So do the other steps.
LEMMA OthersKeepSource ==
    ASSUME EngineInv, SourceInv,
           (\E t \in Searcher : Handles(t)) \/ Wakes \/ \E op \in Operation : Takes(op)
    PROVE  SourceInv'
<1> USE WorkerFacts
<1>1. ASSUME NEW t \in Searcher, Handles(t) PROVE SourceInv'
  <2>1. /\ \A u \in Worker \ {t} : work'[u] = work[u]
        /\ work'[t].pc \in OnItem => kvdb[work'[t].item] # Nil
        /\ ops' = ops /\ at' = at /\ kvdb' = kvdb
    BY <1>1 DEF Handles
  <2>2. work'[Applier] = work[Applier]
    BY <2>1
  <2>3. ASSUME NEW u \in Searcher, work'[u].pc \in OnItem
        PROVE  kvdb'[work'[u].item] # Nil
    BY <2>1, <2>3 DEF SourceInv
  <2> QED BY <2>1, <2>2, <2>3 DEF SourceInv
<1>2. CASE Wakes
  <2>1. work'[Applier].pc \notin OnItem
    BY <1>2 DEF Wakes, Idle, OnItem
  <2>2. kvdb' = kvdb /\ \A u \in Searcher : work'[u] = work[u]
    BY <1>2 DEF Wakes
  <2> QED BY <2>1, <2>2 DEF SourceInv
<1>3. ASSUME NEW op \in Operation, Takes(op) PROVE SourceInv'
  <2>1. at \in Nat /\ at' = at + 1 /\ at' # 0
    BY <1>3 DEF Takes, EngineInv, WorkInv
  <2>2. /\ work'[Applier].pc = IF op.kind = "Put" THEN "wake" ELSE "check"
        /\ ops'[at'] = op /\ work'[Applier].item = op.item /\ work'[Applier].vec = at'
        /\ \A u \in Searcher : work'[u] = work[u]
        /\ \A x \in Item : kvdb'[x] = IF op.kind = "Put" /\ x = op.item THEN at + 1
                                      ELSE kvdb[x]
    BY <1>3 DEF Takes
  <2>3. at + 1 # Nil
    BY <2>1, NilAssumption
  <2>4. ASSUME NEW u \in Searcher, work'[u].pc \in OnItem
        PROVE  kvdb'[work'[u].item] # Nil
    <3>1. kvdb[work[u].item] # Nil /\ work[u].item \in Item
      BY <2>2, <2>4 DEF SourceInv, EngineInv, WorkInv
    <3> QED BY <2>2, <2>3, <3>1
  <2>5. work'[Applier].pc \in OnItem => work'[Applier].pc = "check" /\ op.kind # "Put"
    BY <2>2 DEF OnItem
  <2> QED BY <2>1, <2>2, <2>4, <2>5 DEF SourceInv
<1> QED BY <1>1, <1>2, <1>3

\* An exception of addPoint has the cause that DeathHasCause names.
LEMMA DeathExplained ==
    ASSUME EngineInv, SourceInv, VacantInv, NEW w \in Worker, NEW x, Dies(w, x)
    PROVE  DeathHasCause'
<1> USE DEF EngineInv
<1>1. /\ x \in Item /\ work[w].item = x /\ work[w].pc = "insert" /\ AddThrows(x)
      /\ ops' = ops /\ at' = at /\ kvdb' = kvdb /\ slots' = slots
      /\ maxElements' = maxElements
  BY DEF Dies
<1>2. CASE lookup[x] = 0
  <2>1. Len(slots) >= maxElements
    BY <1>1, <1>2 DEF AddThrows
  <2> QED BY <1>1, <2>1 DEF DeathHasCause
<1>3. CASE lookup[x] # 0
  <2>1. slots[lookup[x]].deleted
    BY <1>1, <1>3 DEF AddThrows
  <2>2. lookup[x] \in DOMAIN slots /\ slots[lookup[x]].label = x
    BY <1>1, <1>3, GraphFacts DEF GraphInv
  <2>3. lookup[x] \in Vacant
    BY <2>1, <2>2 DEF Vacant
  <2>4. PICK i \in 1..at : ops[i].kind = "DeleteFeature" /\ ops[i].item = x
    BY <2>2, <2>3 DEF VacantInv
  <2>5. CASE w # Applier
    <3>1. kvdb[x] # Nil
      BY <1>1, <2>5 DEF SourceInv, Worker, OnItem
    <3> QED BY <1>1, <2>4, <3>1 DEF DeathHasCause
  <2>6. CASE w = Applier
    <3>1. at # 0 /\ ops[at].kind = "PutFeature" /\ ops[at].item = x
      BY <1>1, <2>6 DEF SourceInv, OnItem
    <3>2. at \in 1..Len(ops) /\ at \in Nat
      BY <3>1 DEF WorkInv
    <3>3. ops[at] \in Operation
      BY <3>2 DEF WorkInv
    <3>4. ops[at] = [kind |-> "PutFeature", item |-> x]
      BY <3>1, <3>3 DEF Operation
    <3>5. i # at
      BY <2>4, <3>1
    <3>6. at \in i+1..at
      BY <2>4, <3>2, <3>5
    <3> QED BY <1>1, <2>4, <3>4, <3>6 DEF DeathHasCause
  <2> QED BY <2>5, <2>6
<1> QED BY <1>2, <1>3

\* The engine keeps VacantInv.
LEMMA EngineKeepsVacant ==
    ASSUME EngineInv, SourceInv, VacantInv, NEW w \in Worker, NEW x, Engine(w, x)
    PROVE  VacantInv'
<1> USE DEF EngineInv
<1>0. ops' = ops /\ at' = at /\ maxElements' = maxElements
  BY DEF Engine, Checks, Enters, Labels, Points, Dies, Marks, Hides, Forgets, Went
<1>a. Len(slots) <= maxElements /\ maxElements \in Nat \ {0} /\ Len(slots) \in Nat
  BY DEF VacantInv, GraphInv
<1>1. CASE UNCHANGED <<slots, lookup>>
  BY <1>0, <1>1 DEF VacantInv, Vacant
<1>2. CASE Points(w, x)
  <2>1. Len(slots') <= maxElements
    <3>1. Len(slots') = Len(slots) \/ (Len(slots') = Len(slots) + 1
                                       /\ ~(Len(slots) >= maxElements))
      BY <1>2 DEF Points
    <3> QED BY <1>a, <3>1
  <2>2. ASSUME NEW n \in Vacant'
        PROVE  \E i \in 1..at : ops[i].kind = "DeleteFeature" /\ ops[i].item = slots'[n].label
    <3>1. n \in DOMAIN slots' /\ slots'[n].deleted
      BY DEF Vacant
    <3>2. n \in DOMAIN slots /\ slots'[n].label = slots[n].label /\ slots[n].deleted
      BY <1>2, <3>1 DEF Points, ChangedFor
    <3>3. n \in Vacant
      BY <3>2 DEF Vacant
    <3> QED BY <3>2, <3>3 DEF VacantInv
  <2>3. ASSUME \A i \in 1..at : ops[i].kind # "DeleteFeature"
        PROVE  \A n \in DOMAIN slots' : lookup'[slots'[n].label] = n
    <3>1. Vacant = {}
      BY <2>3 DEF VacantInv
    <3>2. \A n \in DOMAIN slots : lookup[slots[n].label] = n
      BY <2>3 DEF VacantInv
    <3> QED BY <1>2, <3>1, <3>2 DEF Points
  <2> QED BY <1>0, <1>a, <2>1, <2>2, <2>3 DEF VacantInv
<1>3. CASE w = Applier /\ Marks(x)
  <2>1. /\ work[Applier].pc = "mark" /\ work[Applier].item = x
        /\ Len(slots') = Len(slots) /\ DOMAIN slots' = DOMAIN slots
        /\ \A n \in DOMAIN slots : /\ slots'[n].label = slots[n].label
                                   /\ slots[n].label # x => slots'[n] = slots[n]
    BY <1>3 DEF Marks, Went
  <2>2. at # 0 /\ ops[at].kind = "DeleteFeature" /\ ops[at].item = x
    BY <2>1 DEF SourceInv, OnItem
  <2>3. at \in 1..at
    BY <2>2 DEF WorkInv
  <2>4. ASSUME NEW n \in Vacant'
        PROVE  \E i \in 1..at : ops[i].kind = "DeleteFeature" /\ ops[i].item = slots'[n].label
    <3>1. n \in DOMAIN slots' /\ slots'[n].deleted
      BY DEF Vacant
    <3>2. CASE slots[n].label = x
      BY <2>1, <2>2, <2>3, <3>1, <3>2
    <3>3. CASE slots[n].label # x
      <4>1. n \in Vacant /\ slots'[n].label = slots[n].label
        BY <2>1, <3>1, <3>3 DEF Vacant
      <4> QED BY <4>1 DEF VacantInv
    <3> QED BY <3>2, <3>3
  <2> QED BY <1>0, <1>a, <2>1, <2>2, <2>3, <2>4 DEF VacantInv
<1>4. Checks(w, x) \/ Enters(w, x) \/ Labels(w, x) \/ Dies(w, x) \/ Hides(x) \/ Forgets(x)
          => UNCHANGED <<slots, lookup>>
  BY DEF Checks, Enters, Labels, Dies, Hides, Forgets
<1> QED BY <1>1, <1>2, <1>3, <1>4 DEF Engine

\* CauseInv holds of a process that starts.
LEMMA CauseInit == RecallInit => CauseInv
<1> SUFFICES ASSUME RecallInit PROVE CauseInv
  OBVIOUS
<1>1. /\ slots = <<>> /\ maxElements \in Nat \ {0} /\ ~dead
      /\ \A w \in Worker : work[w] = Idle
  BY RecallBounds DEF RecallInit
<1>2. SourceInv
  BY <1>1, WorkerFacts DEF SourceInv, Idle, OnItem
<1>3. VacantInv
  BY <1>1 DEF VacantInv, Vacant
<1> QED BY <1>1, <1>2, <1>3 DEF CauseInv, DeathHasCause

\* What a restart leaves: an empty index and idle threads.
LEMMA RestartFacts ==
    ASSUME RecallRestart
    PROVE  /\ slots' = <<>> /\ ~dead' /\ at' = 0 /\ mtx' = Nil
           /\ labelToItemId' = {} /\ activeLabels' = {} /\ deletedItems' = {}
           /\ (\A w \in Worker : work'[w] = Idle)
           /\ UNCHANGED <<ops, maxElements>>
           /\ \A t \in Searcher : search'[t] = NoSearch
           /\ search' = [t \in Searcher |-> NoSearch]
BY DEF RecallRestart

\* Every step keeps CauseInv.
LEMMA CauseStep ==
    EngineInv /\ CauseInv /\ [RecallNext]_recallVars => CauseInv'
<1> SUFFICES ASSUME EngineInv, CauseInv, [RecallNext]_recallVars PROVE CauseInv'
  OBVIOUS
<1> USE DEF CauseInv
<1>1. CASE UNCHANGED recallVars
  BY <1>1 DEF recallVars, graphVars, tableVars, serverVars, SourceInv, VacantInv,
              Vacant, DeathHasCause
<1>2. CASE RecallRestart
  <2>1. SourceInv'
    BY <1>2, RestartFacts, WorkerFacts DEF SourceInv, Idle, OnItem
  <2>2. slots' = <<>> /\ maxElements' \in Nat \ {0} /\ ~dead'
    BY <1>2, RestartFacts DEF VacantInv
  <2>3. VacantInv'
    BY <2>2 DEF VacantInv, Vacant
  <2> QED BY <2>1, <2>2, <2>3 DEF DeathHasCause
<1>3. ASSUME NEW w \in Worker, NEW x, Engine(w, x) PROVE CauseInv'
  <2>1. SourceInv' /\ VacantInv'
    BY <1>3, EngineKeepsSource, EngineKeepsVacant
  <2>2. CASE Dies(w, x)
    BY <2>1, <2>2, DeathExplained
  <2>3. CASE ~Dies(w, x)
    <3>1. ~dead'
      BY <1>3, <2>3 DEF Engine, Checks, Enters, Labels, Points, Marks, Hides, Forgets, Went
    <3> QED BY <2>1, <3>1 DEF DeathHasCause
  <2> QED BY <2>2, <2>3
<1>4. ASSUME (\E t \in Searcher : Handles(t)) \/ Wakes \/ \E op \in Operation : Takes(op)
      PROVE  CauseInv'
  <2>1. SourceInv'
    BY <1>4, OthersKeepSource
  <2>2. ~dead' /\ UNCHANGED <<slots, lookup, maxElements>>
    BY <1>4 DEF Handles, Wakes, Takes
  <2>3. at \in Nat /\ at' \in Nat /\ at <= at' /\ \A i \in 1..at : ops'[i] = ops[i]
    <3>1. at \in Nat
      BY DEF EngineInv, WorkInv
    <3> QED BY <1>4, <3>1 DEF Handles, Wakes, Takes
  <2>4. 1..at \subseteq 1..at'
    BY <2>3
  <2>5. ASSUME NEW n \in Vacant
        PROVE  \E i \in 1..at' : ops'[i].kind = "DeleteFeature" /\ ops'[i].item = slots[n].label
    <3>1. PICK i \in 1..at : ops[i].kind = "DeleteFeature" /\ ops[i].item = slots[n].label
      BY DEF VacantInv
    <3> QED BY <2>3, <2>4, <3>1
  <2>6. (\A i \in 1..at' : ops'[i].kind # "DeleteFeature") =>
            \A i \in 1..at : ops[i].kind # "DeleteFeature"
    BY <2>3, <2>4
  <2>7. Vacant' = Vacant
    BY <2>2 DEF Vacant
  <2>8. VacantInv'
    BY <2>2, <2>5, <2>6, <2>7 DEF VacantInv
  <2> QED BY <2>1, <2>2, <2>8 DEF DeathHasCause
<1>5. CASE RecallNext
  BY <1>2, <1>3, <1>4, <1>5, EngineCases, HandlerCases, WakeCases, TakeCases,
     WorkerFacts DEF RecallNext
<1> QED BY <1>1, <1>5

\* The process ends by an exception only when the graph is full, or because an
\* item is inserted again, by PutFeature or by the build of the index, after it
\* was deleted: upsertPoint with a label that is not active asks hnswlib for the
\* element marked deleted, which refuses it.
THEOREM DeathAlwaysHasCause == RecallSpec => []DeathHasCause
<1>1. RecallSpec => []EngineInv
  BY EngineInvInit, EngineInvStep, PTL DEF RecallSpec
<1>2. RecallSpec => []CauseInv
  BY <1>1, CauseInit, CauseStep, PTL DEF RecallSpec
<1>3. CauseInv => DeathHasCause
  BY DEF CauseInv
<1> QED BY <1>2, <1>3, PTL

-----------------------------------------------------------------------------
(* The log, as far as it is applied *)

\* Where Apply is says how much of the log is applied.
LEMMA AppliedType ==
    ASSUME EngineInv, SourceInv
    PROVE  /\ Applied \in Nat /\ Applied <= Len(ops)
           /\ Applied = IF work[Applier].pc \in OnItem THEN at - 1 ELSE at
<1>1. /\ at \in Nat /\ at <= Len(ops) /\ work[Applier].pc \in ApplierPc
      /\ Len(ops) \in Nat
  BY DEF EngineInv, WorkInv
<1>2. work[Applier].pc \in OnItem <=> work[Applier].pc \notin {"idle", "wake"}
  BY <1>1 DEF ApplierPc, OnItem
<1>3. work[Applier].pc \in OnItem => at # 0
  BY DEF SourceInv
<1>4. Applied = IF work[Applier].pc \in OnItem THEN at - 1 ELSE at
  BY <1>2 DEF Applied
<1> QED BY <1>1, <1>3, <1>4

\* The last of the operations done is one of them.
LEMMA LastIsDone ==
    ASSUME HasLast, NEW x \in Item, Done(x) # {}
    PROVE  LastOf(Done(x)) \in Done(x) /\ \A j \in Done(x) : j <= LastOf(Done(x))
BY DEF HasLast, LastOf

\* What the log says of x stays as it is.
SameLog(x) ==
    Done(x)' = Done(x) /\ (Inserted(x)' <=> Inserted(x))
    /\ LastOf(Done(x))' = LastOf(Done(x))

\* A step that applies nothing changes nothing that the log says.
LEMMA LogKept ==
    ASSUME HasLast, Applied' = Applied, \A i \in 1..Applied : ops'[i] = ops[i]
    PROVE  HasLast' /\ \A x \in Item : SameLog(x)
<1>1. ASSUME NEW x \in Item PROVE SameLog(x)
  <2>1. Done(x)' = Done(x)
    BY DEF Done, FeatureOps
  <2>2. LastOf(Done(x))' = LastOf(Done(x))
    BY <2>1 DEF LastOf
  <2>3. Done(x) # {} => LastOf(Done(x)) \in 1..Applied
    BY LastIsDone DEF Done, FeatureOps
  <2>4. Inserted(x) <=> Done(x) # {} /\ ops[LastOf(Done(x))].kind = "PutFeature"
    BY DEF Inserted, Done
  <2>5. Inserted(x)' <=> Done(x)' # {} /\ ops'[LastOf(Done(x))'].kind = "PutFeature"
    BY DEF Inserted, Done
  <2> QED BY <2>1, <2>2, <2>3, <2>4, <2>5 DEF SameLog
<1>2. HasLast'
  <2>1. \A x \in Item : Done(x)' = Done(x)
    BY <1>1 DEF SameLog
  <2> QED BY <2>1 DEF HasLast
<1> QED BY <1>1, <1>2

\* A step that applies op makes it the last of its item.
LEMMA LogGrows ==
    ASSUME HasLast, Applied \in Nat, Applied' = Applied + 1,
           \A i \in 1..Applied : ops'[i] = ops[i], NEW op, ops'[Applied + 1] = op
    PROVE  /\ HasLast'
           /\ \A x \in Item : op.item # x \/ op.kind = "Put" => SameLog(x)
           /\ \A x \in Item : op.item = x /\ op.kind # "Put" =>
                 /\ Inserted(x)' <=> op.kind = "PutFeature"
                 /\ LastOf(Done(x))' = Applied + 1
<1> DEFINE n == Applied
<1>0. n \in Nat /\ Applied' = n + 1 /\ (\A i \in 1..n : ops'[i] = ops[i])
      /\ ops'[n + 1] = op
  OBVIOUS
<1>a. /\ \A i \in 1..(n + 1) : i \in 1..n \/ i = n + 1
      /\ \A i \in 1..n : i \in 1..(n + 1) /\ i <= n + 1 /\ i # n + 1
      /\ n + 1 \in 1..(n + 1) /\ n + 1 <= n + 1
  BY <1>0
<1>1. ASSUME NEW x \in Item
      PROVE  /\ Done(x) = {i \in 1..n : ops[i].item = x /\ ops[i].kind # "Put"}
             /\ Done(x)' = {i \in 1..(n + 1) : ops'[i].item = x /\ ops'[i].kind # "Put"}
  BY <1>0 DEF Done, FeatureOps
<1> HIDE DEF n
<1>2. ASSUME NEW x \in Item, op.item # x \/ op.kind = "Put" PROVE SameLog(x)
  <2>1. Done(x)' = Done(x)
    <3>1. ASSUME NEW i PROVE i \in Done(x)' <=> i \in Done(x)
      BY <1>0, <1>a, <1>1, <1>2
    <3> QED BY <3>1
  <2>2. LastOf(Done(x))' = LastOf(Done(x))
    BY <2>1 DEF LastOf
  <2>3. Done(x) # {} => LastOf(Done(x)) \in 1..n
    BY <1>1, LastIsDone
  <2>4. Inserted(x) <=> Done(x) # {} /\ ops[LastOf(Done(x))].kind = "PutFeature"
    BY DEF Inserted, Done
  <2>5. Inserted(x)' <=> Done(x)' # {} /\ ops'[LastOf(Done(x))'].kind = "PutFeature"
    BY DEF Inserted, Done
  <2> QED BY <1>0, <2>1, <2>2, <2>3, <2>4, <2>5 DEF SameLog
<1>3. ASSUME NEW x \in Item, op.item = x, op.kind # "Put"
      PROVE  /\ n + 1 \in Done(x)' /\ \A j \in Done(x)' : j <= n + 1
             /\ LastOf(Done(x))' = n + 1
             /\ Inserted(x)' <=> op.kind = "PutFeature"
  <2>1. n + 1 \in Done(x)' /\ \A j \in Done(x)' : j <= n + 1 /\ j \in Nat
    BY <1>0, <1>a, <1>1, <1>3
  <2>2. LastOf(Done(x))' \in Done(x)' /\ \A j \in Done(x)' : j <= LastOf(Done(x))'
    BY <2>1 DEF LastOf
  <2>3. LastOf(Done(x))' = n + 1
    <3>1. PICK c \in Nat : c = LastOf(Done(x))'
      BY <2>1, <2>2
    <3>2. c <= n + 1 /\ n + 1 <= c
      BY <2>1, <2>2, <3>1
    <3> QED BY <1>0, <3>1, <3>2
  <2>4. Inserted(x)' <=> Done(x)' # {} /\ ops'[LastOf(Done(x))'].kind = "PutFeature"
    BY DEF Inserted, Done
  <2> QED BY <1>0, <2>1, <2>3, <2>4
<1>4. HasLast'
  <2>1. ASSUME NEW x \in Item, Done(x)' # {}
        PROVE  \E i \in Done(x)' : \A j \in Done(x)' : j <= i
    <3>1. CASE op.item # x \/ op.kind = "Put"
      BY <1>2, <2>1, <3>1 DEF SameLog, HasLast
    <3>2. CASE op.item = x /\ op.kind # "Put"
      BY <1>3, <3>2
    <3> QED BY <3>1, <3>2
  <2> QED BY <2>1 DEF HasLast
<1> QED BY <1>2, <1>3, <1>4 DEF n

-----------------------------------------------------------------------------
(* The index follows the log *)

\* A step that does not concern x.
Kept(x) ==
    /\ x \in activeLabels' <=> x \in activeLabels
    /\ x \in deletedItems' <=> x \in deletedItems
    /\ x \in labelToItemId => x \in labelToItemId'
    /\ InGraph(x)' <=> InGraph(x)
    /\ InGraph(x) => slots'[lookup'[x]].vec = slots[lookup[x]].vec
    /\ Hidden(x) => Hidden(x)'
    /\ kvdb'[x] = kvdb[x]
    /\ Taking(x)' <=> Taking(x)
    /\ Working(x)' <=> Working(x)
    /\ Taking(x) => ops'[at'] = ops[at]

\* A step with the same tables and the same graph, and Apply on the same item.
LEMMA FrameKeeps ==
    ASSUME NEW x \in Item,
           UNCHANGED <<slots, lookup, labelToItemId, activeLabels, deletedItems>>,
           kvdb'[x] = kvdb[x], Taking(x)' <=> Taking(x), Working(x)' <=> Working(x),
           Taking(x) => ops'[at'] = ops[at]
    PROVE  Kept(x)
BY DEF Kept, InGraph, Hidden

\* A step on another item.
LEMMA EngineKeepsItem ==
    ASSUME EngineInv, NEW w \in Worker, NEW y, Engine(w, y), ~dead', NEW x \in Item, x # y
    PROVE  Kept(x)
<1> USE WorkerFacts
<1>0. PICK p, q : Went(w, y, p, q)
  BY DEF Engine, Checks, Enters, Labels, Points, Dies, Marks, Hides, Forgets
<1>1. /\ work[w].item = y /\ work'[w].item = y
      /\ \A u \in Worker \ {w} : work'[u] = work[u]
      /\ ops' = ops /\ at' = at /\ kvdb' = kvdb
  BY <1>0 DEF Went
<1>2. (Taking(x)' <=> Taking(x)) /\ (Working(x)' <=> Working(x))
  BY <1>1 DEF Taking, Working
<1>3. /\ x \in activeLabels' <=> x \in activeLabels
      /\ x \in deletedItems' <=> x \in deletedItems
      /\ x \in labelToItemId => x \in labelToItemId'
  BY DEF Engine, Checks, Enters, Labels, Points, Dies, Marks, Hides, Forgets
<1>4. /\ InGraph(x)' <=> InGraph(x)
      /\ InGraph(x) => slots'[lookup'[x]].vec = slots[lookup[x]].vec
      /\ (\A n \in DOMAIN slots : slots[n].label # x) =>
             \A n \in DOMAIN slots' : slots'[n].label # x
  <2>1. CASE Points(w, y)
    BY <2>1 DEF Points, ChangedFor
  <2>2. CASE w = Applier /\ Marks(y)
    <3>1. /\ lookup' = lookup /\ DOMAIN slots' = DOMAIN slots
          /\ \A n \in DOMAIN slots : /\ slots'[n].label = slots[n].label
                                     /\ slots[n].label # y => slots'[n] = slots[n]
      BY <2>2 DEF Marks
    <3>2. lookup[x] # 0 => lookup[x] \in DOMAIN slots /\ slots[lookup[x]].label = x
      BY GraphFacts DEF EngineInv
    <3>3. lookup[x] # 0 => slots'[lookup'[x]] = slots[lookup[x]]
      BY <3>1, <3>2
    <3> QED BY <3>1, <3>3 DEF InGraph
  <2>3. CASE UNCHANGED <<slots, lookup>>
    BY <2>3 DEF InGraph
  <2>4. Checks(w, y) \/ Enters(w, y) \/ Labels(w, y) \/ Dies(w, y) \/ Hides(y) \/ Forgets(y)
            => UNCHANGED <<slots, lookup>>
    BY DEF Checks, Enters, Labels, Dies, Hides, Forgets
  <2> QED BY <2>1, <2>2, <2>3, <2>4 DEF Engine
<1>5. Hidden(x) => Hidden(x)'
  BY <1>3, <1>4 DEF Hidden
<1> QED BY <1>1, <1>2, <1>3, <1>4, <1>5 DEF Kept

\* An item that no thread has in hand and that is active is in the graph.
LEMMA ActiveInGraph ==
    ASSUME EngineInv, SourceInv, ~dead, NEW x \in Item, kvdb[x] = Nil, ~Taking(x),
           x \in activeLabels
    PROVE  InGraph(x)
<1>1. ASSUME NEW w \in Worker, Between(w, x) PROVE FALSE
  <2>1. work[w].item = x /\ work[w].pc \in OnItem
    BY <1>1 DEF Between, OnItem
  <2>2. CASE w = Applier
    BY <2>1, <2>2 DEF Taking
  <2>3. CASE w # Applier
    BY <2>1, <2>3 DEF SourceInv, Worker
  <2> QED BY <2>2, <2>3
<1> QED BY <1>1 DEF EngineInv, LabelInv

\* An item that a step does not concern stays in step with the log.
LEMMA KeptInStep ==
    ASSUME EngineInv, SourceInv, ~dead, NEW x \in Item, InStep(x), Kept(x), SameLog(x)
    PROVE  InStep(x)'
<1>1. Follows(x)'
  <2>1. SUFFICES ASSUME kvdb'[x] = Nil, ~Taking(x)'
                 PROVE  /\ x \in activeLabels' <=> Inserted(x)'
                        /\ Inserted(x)' => slots'[lookup'[x]].vec = LastOf(Done(x))'
    BY DEF Follows
  <2>2. kvdb[x] = Nil /\ ~Taking(x)
    BY <2>1 DEF Kept
  <2>3. /\ x \in activeLabels <=> Inserted(x)
        /\ Inserted(x) => slots[lookup[x]].vec = LastOf(Done(x))
    BY <2>2 DEF InStep, Follows
  <2>4. Inserted(x) => InGraph(x)
    BY <2>2, <2>3, ActiveInGraph
  <2> QED BY <2>3, <2>4 DEF Kept, SameLog
<1>2. Present(x)'
  <2>1. SUFFICES ASSUME Stays(x)' PROVE Findable(x)'
    BY DEF Present
  <2>2. Stays(x)
    BY <2>1 DEF Stays, Kept, SameLog
  <2>3. Findable(x)
    BY <2>2 DEF InStep, Present
  <2> QED BY <2>3 DEF Findable, Kept
<1>3. Absent(x)'
  BY DEF InStep, Absent, Kept
<1> QED BY <1>1, <1>2, <1>3 DEF InStep

\* Apply ends its work on y.
Ends(w, y) == w = Applier /\ work'[Applier].pc = "wake"

\* The log is applied further when Apply ends its work, and then by one.
LEMMA EngineLog ==
    ASSUME EngineInv, SourceInv, HasLast, NEW w \in Worker, NEW y, Engine(w, y)
    PROVE  /\ HasLast' /\ \A x \in Item \ {y} : SameLog(x)
           /\ ~Ends(w, y) \/ dead' => SameLog(y)
           /\ Ends(w, y) /\ ~dead' => /\ Inserted(y)' <=> ops[at].kind = "PutFeature"
                                      /\ LastOf(Done(y))' = at
<1> USE WorkerFacts
<1>0. /\ Applied \in Nat /\ Applied <= Len(ops)
      /\ Applied = IF work[Applier].pc \in OnItem THEN at - 1 ELSE at
      /\ at \in Nat
  BY AppliedType DEF EngineInv, WorkInv
<1>a. ops' = ops /\ at' = at /\ y \in Item /\ work[w].item = y
  BY DEF Engine, Checks, Enters, Labels, Points, Dies, Marks, Hides, Forgets, Went
<1>b. Applied' = IF work'[Applier].pc \in {"idle", "wake"} THEN at ELSE at - 1
  BY <1>a DEF Applied
<1>1. CASE Dies(w, y)
  <2>1. Applied' = Applied /\ dead'
    BY <1>1 DEF Dies, Applied
  <2> QED BY <1>a, <2>1, LogKept
<1>2. CASE ~Dies(w, y) /\ ~Ends(w, y)
  <2>1. ~dead'
    BY <1>2 DEF Engine, Checks, Enters, Labels, Points, Marks, Hides, Forgets, Went
  <2>2. Applied' = Applied
    <3>1. CASE w # Applier
      <4>1. work'[Applier] = work[Applier]
        BY <1>2, <3>1 DEF Engine, Checks, Enters, Labels, Points, Went
      <4> QED BY <1>a, <4>1 DEF Applied
    <3>2. CASE w = Applier
      <4>1. work[Applier].pc \in OnItem /\ work'[Applier].pc \notin {"idle", "wake"}
        <5>1. AfterInsert(Applier) = "wake"
          BY DEF AfterInsert
        <5>2. work'[Applier].pc # "wake"
          BY <1>2, <3>2 DEF Ends
        <5> QED BY <1>2, <3>2, <5>1, <5>2 DEF Engine, Checks, Enters, Labels, Points,
                  Marks, Hides, Forgets, Went, OnItem
      <4> QED BY <1>0, <1>b, <4>1
    <3> QED BY <3>1, <3>2
  <2> QED BY <1>a, <1>2, <2>1, <2>2, LogKept
<1>3. CASE ~Dies(w, y) /\ Ends(w, y)
  <2>1. w = Applier /\ work'[Applier].pc = "wake"
    BY <1>3 DEF Ends
  <2>2. work[Applier].pc \in OnItem /\ ~dead'
    BY <1>3, <2>1 DEF Engine, Checks, Enters, Labels, Points,
                  Marks, Hides, Forgets, Went, OnItem
  <2>3. at # 0 /\ ops[at].kind # "Put" /\ ops[at].item = y
    BY <1>a, <2>1, <2>2 DEF SourceInv
  <2>4. Applied' = Applied + 1 /\ Applied + 1 = at
    BY <1>0, <1>b, <2>1, <2>2
  <2>5. /\ HasLast'
        /\ \A x \in Item : ops[at].item # x \/ ops[at].kind = "Put" => SameLog(x)
        /\ \A x \in Item : ops[at].item = x /\ ops[at].kind # "Put" =>
              /\ Inserted(x)' <=> ops[at].kind = "PutFeature"
              /\ LastOf(Done(x))' = Applied + 1
    BY <1>0, <1>a, <2>4, LogGrows
  <2> QED BY <1>a, <1>3, <2>2, <2>3, <2>4, <2>5
<1> QED BY <1>1, <1>2, <1>3

\* What a step on y does to y.
LEMMA EngineInStep ==
    ASSUME EngineInv, SourceInv, TableInv, NEW w \in Worker, NEW y, Engine(w, y), ~dead',
           InStep(y), ~Ends(w, y) => SameLog(y),
           Ends(w, y) => /\ Inserted(y)' <=> ops[at].kind = "PutFeature"
                         /\ LastOf(Done(y))' = at
    PROVE  InStep(y)'
<1> USE WorkerFacts
<1>0. PICK p, q : Went(w, y, p, q) /\ p \in OnItem /\ ~Dies(w, y)
  BY DEF Engine, Checks, Enters, Labels, Points, Dies, Marks, Hides, Forgets, OnItem
<1>1. /\ y \in Item /\ work[w].item = y /\ work'[w].item = y /\ work[w].pc \in OnItem
      /\ \A u \in Worker \ {w} : work'[u] = work[u]
      /\ ops' = ops /\ at' = at /\ kvdb' = kvdb /\ ~dead
  BY <1>0 DEF Went
<1>2. Findable(y) /\ ~Marks(y) /\ ~Hides(y) /\ ~Forgets(y) => Findable(y)'
  <2>1. CASE Points(w, y)
    BY <2>1 DEF Points, Findable
  <2>2. CASE Checks(w, y) \/ Enters(w, y) \/ Labels(w, y)
    BY <2>2 DEF Checks, Enters, Labels, Findable, InGraph
  <2> QED BY <1>0, <2>1, <2>2 DEF Engine
<1>3. CASE w # Applier
  <2>1. kvdb[y] # Nil /\ work'[Applier] = work[Applier]
    BY <1>1, <1>3 DEF SourceInv, Worker
  <2>2. (Taking(y)' <=> Taking(y)) /\ SameLog(y)
    BY <1>3, <2>1 DEF Taking, Ends
  <2>3. Stays(y)' => Stays(y)
    BY <1>1, <2>2 DEF Stays, SameLog
  <2>4. ~Marks(y) /\ ~Hides(y) /\ ~Forgets(y)
    <3>1. work'[w].pc # work[w].pc
      BY <1>3, <1>0 DEF Engine, Checks, Enters, Labels, Points, Went, AfterInsert
    <3>2. Marks(y) \/ Hides(y) \/ Forgets(y) => work'[w] = work[w]
      BY <1>3 DEF Marks, Hides, Forgets, Went
    <3> QED BY <3>1, <3>2
  <2>5. Present(y)'
    BY <1>2, <2>3, <2>4 DEF InStep, Present
  <2> QED BY <1>1, <2>1, <2>5 DEF InStep, Follows, Absent
<1>4. CASE w = Applier
  <2>0. /\ Taking(y) /\ at # 0 /\ work[Applier].vec = at
        /\ work[Applier].pc \in {"enter", "label", "insert"} => ops[at].kind = "PutFeature"
        /\ work[Applier].pc \in {"mark", "hide", "forget"} => ops[at].kind = "DeleteFeature"
    BY <1>1, <1>4 DEF Taking, SourceInv
  <2>1. ASSUME Went(w, y, p, q), q \in OnItem \ {"check"},
               ops[at].kind = "DeleteFeature" \/ (Findable(y) => Findable(y)')
        PROVE  InStep(y)'
    <3>1. Taking(y)' /\ Working(y)' /\ SameLog(y)
      BY <1>4, <2>1 DEF Went, Taking, Working, Ends, OnItem
    <3>2. Present(y)'
      BY <1>1, <2>0, <2>1, <3>1 DEF Present, Stays, SameLog, InStep
    <3> QED BY <3>1, <3>2 DEF InStep, Follows, Absent
  <2>2. ASSUME work'[Applier].pc = "wake", ops[at].kind = "DeleteFeature",
               y \notin activeLabels', Hidden(y)'
        PROVE  InStep(y)'
    <3>1. ~Taking(y)' /\ ~Inserted(y)'
      BY <1>4, <2>2 DEF Taking, Ends, OnItem
    <3> QED BY <2>2, <3>1 DEF InStep, Follows, Present, Absent, Stays
  <2>3. CASE Checks(w, y)
    <3>1. CASE Went(w, y, "check", "enter") \/ Went(w, y, "check", "mark")
      <4>1. PICK q1 \in {"enter", "mark"} : Went(w, y, "check", q1)
        BY <3>1
      <4>2. q = q1 /\ q \in OnItem \ {"check"}
        BY <1>0, <4>1 DEF Went, OnItem
      <4>3. Findable(y) => Findable(y)'
        BY <2>3 DEF Checks, Findable, InGraph
      <4> QED BY <1>0, <2>1, <4>2, <4>3
    <3>2. CASE /\ Went(w, y, "check", "wake") /\ y \notin activeLabels
               /\ ops[at].kind = "DeleteFeature"
      <4>1. ~Working(y) /\ work'[Applier].pc = "wake"
        BY <1>4, <3>2 DEF Went, Working
      <4>2. UNCHANGED <<slots, deletedItems, activeLabels>>
        BY <2>3 DEF Checks
      <4>3. ASSUME kvdb[y] = Nil PROVE Hidden(y)'
        BY <3>2, <4>1, <4>2, <4>3 DEF InStep, Absent, Hidden
      <4>4. CASE kvdb[y] = Nil
        BY <2>2, <3>2, <4>1, <4>2, <4>3, <4>4
      <4>5. CASE kvdb[y] # Nil
        <5>1. ~Inserted(y)'
          BY <1>4, <3>2, <4>1 DEF Ends
        <5> QED BY <1>1, <4>5, <5>1 DEF InStep, Follows, Present, Absent, Stays
      <4> QED BY <4>4, <4>5
    <3> QED BY <1>4, <2>3, <3>1, <3>2 DEF Checks
  <2>4. CASE Enters(w, y) \/ Labels(w, y)
    <3>1. Findable(y) => Findable(y)'
      BY <2>4 DEF Enters, Labels, Findable, InGraph
    <3>2. work'[w].pc \in {"label", "insert"}
      BY <2>4 DEF Enters, Labels, Went
    <3>3. q \in OnItem \ {"check"}
      BY <1>0, <3>2 DEF Went, OnItem
    <3> QED BY <1>0, <2>1, <3>1, <3>3
  <2>5. CASE Points(w, y)
    <3>1. /\ work[Applier].pc = "insert" /\ work'[Applier].pc = "wake"
          /\ InGraph(y)' /\ slots'[lookup'[y]].vec = at
          /\ UNCHANGED <<labelToItemId, activeLabels, deletedItems>>
      BY <1>4, <2>0, <2>5 DEF Points, Went, AfterInsert
    <3>2. y \in activeLabels /\ y \in labelToItemId /\ y \notin deletedItems
      BY <1>1, <1>4, <3>1 DEF EngineInv, LabelInv, TableInv
    <3>3. ~Taking(y)' /\ Inserted(y)' /\ LastOf(Done(y))' = at
      BY <1>4, <2>0, <3>1 DEF Taking, Ends, OnItem
    <3>4. Findable(y)'
      BY <3>1, <3>2 DEF Findable
    <3> QED BY <3>1, <3>2, <3>3, <3>4 DEF InStep, Follows, Present, Absent
  <2>6. CASE Marks(y) \/ Hides(y)
    <3>1. /\ work'[w].pc \in {"hide", "forget"}
          /\ work[Applier].pc \in {"mark", "hide", "forget"}
      BY <1>4, <2>6 DEF Marks, Hides, Went
    <3>2. q \in OnItem \ {"check"} /\ ops[at].kind = "DeleteFeature"
      BY <1>0, <2>0, <3>1 DEF Went, OnItem
    <3> QED BY <1>0, <2>1, <3>2
  <2>7. CASE Forgets(y)
    <3>1. /\ work[Applier].pc = "forget" /\ work'[Applier].pc = "wake"
          /\ y \notin activeLabels' /\ deletedItems' = deletedItems
      BY <2>7 DEF Forgets, Went
    <3>2. Hidden(y)'
      BY <1>1, <1>4, <3>1 DEF TableInv, Hidden
    <3> QED BY <2>0, <2>2, <3>1, <3>2
  <2> QED BY <1>0, <2>3, <2>4, <2>5, <2>6, <2>7 DEF Engine
<1> QED BY <1>3, <1>4

\* The engine keeps the tables of the item that its holder has in hand.
LEMMA EngineKeepsTables ==
    ASSUME EngineInv, TableInv, NEW w \in Worker, NEW y, Engine(w, y)
    PROVE  TableInv'
<1> USE WorkerFacts
<1>1. CASE Dies(w, y)
  BY <1>1 DEF Dies, TableInv
<1>2. ASSUME NEW p, NEW q, Went(w, y, p, q), q \notin EngineHeld,
             UNCHANGED <<labelToItemId, deletedItems>>
      PROVE  TableInv'
  <2>1. work'[w].pc = q /\ \A u \in Worker \ {w} : work'[u] = work[u]
    BY <1>2 DEF Went
  <2>2. ASSUME NEW u \in Worker, work'[u].pc \in EngineHeld PROVE work'[u] = work[u]
    BY <1>2, <2>1, <2>2
  <2> QED BY <1>2, <2>2 DEF TableInv, EngineHeld
<1>3. ASSUME NEW p, NEW q, Went(w, y, p, q), mtx = w \/ mtx = Nil,
             q \in {"label", "insert"} => y \notin deletedItems',
             q = "insert" => y \in labelToItemId',
             q = "forget" => y \in deletedItems'
      PROVE  TableInv'
  <2>1. /\ work'[w].pc = q /\ work'[w].item = y
        /\ \A u \in Worker \ {w} : work'[u] = work[u]
    BY <1>3 DEF Went
  <2>2. ASSUME NEW u \in Worker, u # w PROVE work'[u].pc \notin EngineHeld
    BY <1>3, <2>1, <2>2 DEF EngineInv, LockInv
  <2>3. \A u \in Worker : work'[u].pc \in EngineHeld => u = w
    BY <2>2
  <2> QED BY <1>3, <2>1, <2>3 DEF TableInv, EngineHeld
<1>4. CASE Checks(w, y)
  <2>1. PICK q \in {"visit", "enter", "mark", "wake"} : Went(w, y, "check", q)
    BY <1>4 DEF Checks
  <2>2. q \notin EngineHeld /\ UNCHANGED <<labelToItemId, deletedItems>>
    BY <1>4 DEF Checks, EngineHeld
  <2> QED BY <1>2, <2>1, <2>2
<1>5. CASE Enters(w, y)
  BY <1>3, <1>5 DEF Enters
<1>6. CASE Labels(w, y)
  <2>1. /\ Went(w, y, "label", "insert") /\ work[w].pc = "label" /\ work[w].item = y
        /\ y \in labelToItemId' /\ deletedItems' = deletedItems
    BY <1>6 DEF Labels, Went
  <2>2. mtx = w /\ y \notin deletedItems
    BY <2>1, HolderFacts DEF EngineInv, EngineHeld, TableInv
  <2> QED BY <1>3, <2>1, <2>2
<1>7. CASE Points(w, y)
  <2>1. Went(w, y, "insert", AfterInsert(w)) /\ UNCHANGED <<labelToItemId, deletedItems>>
    BY <1>7 DEF Points
  <2>2. AfterInsert(w) \notin EngineHeld
    BY DEF AfterInsert, EngineHeld
  <2> QED BY <1>2, <2>1, <2>2
<1>8. CASE w = Applier /\ Marks(y)
  <2>1. Went(w, y, "mark", "hide") /\ work'[w].pc = "hide"
        /\ UNCHANGED <<labelToItemId, deletedItems>>
        /\ \A u \in Worker \ {w} : work'[u] = work[u]
    BY <1>8 DEF Marks, Went
  <2>2. ASSUME NEW u \in Worker, work'[u].pc \in {"label", "insert", "forget"}
        PROVE  work'[u] = work[u]
    BY <2>1, <2>2
  <2> QED BY <2>1, <2>2 DEF TableInv
<1>9. CASE w = Applier /\ Hides(y)
  <2>1. /\ Went(w, y, "hide", "forget") /\ work[w].pc = "hide" /\ y \in deletedItems'
    BY <1>9 DEF Hides, Went
  <2>2. mtx = w
    BY <2>1, HolderFacts DEF EngineInv, EngineHeld
  <2> QED BY <1>3, <2>1, <2>2
<1>10. CASE w = Applier /\ Forgets(y)
  <2>1. Went(w, y, "forget", "wake") /\ UNCHANGED <<labelToItemId, deletedItems>>
    BY <1>10 DEF Forgets
  <2>2. "wake" \notin EngineHeld
    BY DEF EngineHeld
  <2> QED BY <1>2, <2>1, <2>2
<1> QED BY <1>1, <1>4, <1>5, <1>6, <1>7, <1>8, <1>9, <1>10 DEF Engine

\* addPoint, upsertPoint and deletePoint keep the index in step with the log.
LEMMA EngineKeepsLog ==
    ASSUME EngineInv, SourceInv, LogInv, NEW w \in Worker, NEW y, Engine(w, y)
    PROVE  LogInv'
<1> USE DEF LogInv
<1>0. ~dead
  BY DEF Engine, Checks, Enters, Labels, Points, Dies, Marks, Hides, Forgets, Went
<1>1. TableInv'
  BY EngineKeepsTables
<1>2. /\ HasLast' /\ \A x \in Item \ {y} : SameLog(x)
      /\ ~Ends(w, y) \/ dead' => SameLog(y)
      /\ Ends(w, y) /\ ~dead' => /\ Inserted(y)' <=> ops[at].kind = "PutFeature"
                                 /\ LastOf(Done(y))' = at
  BY EngineLog
<1>3. ASSUME ~dead', NEW x \in Item PROVE InStep(x)'
  <2>1. CASE x = y
    BY <1>0, <1>2, <1>3, <2>1, EngineInStep
  <2>2. CASE x # y
    <3>1. Kept(x)
      BY <1>3, <2>2, EngineKeepsItem
    <3> QED BY <1>0, <1>2, <2>2, <3>1, KeptInStep
  <2> QED BY <2>1, <2>2
<1> QED BY <1>1, <1>2, <1>3

\* So do the handlers of Search, and Apply when it answers.
LEMMA FrameKeepsLog ==
    ASSUME EngineInv, SourceInv, LogInv, (\E t \in Searcher : Handles(t)) \/ Wakes
    PROVE  /\ LogInv' /\ ~dead /\ ~dead'
           /\ \A x \in Item : Kept(x) /\ SameLog(x)
<1> USE WorkerFacts DEF LogInv
<1>1. /\ UNCHANGED <<ops, at, kvdb, slots, lookup, labelToItemId, activeLabels, deletedItems>>
      /\ ~dead /\ ~dead'
  BY DEF Handles, Wakes
<1>2. /\ \/ work'[Applier] = work[Applier]
         \/ work[Applier].pc = "wake" /\ work'[Applier] = Idle
      /\ \A u \in Worker : work'[u] = work[u] \/ work'[u].pc \notin {"label", "insert", "forget"}
  <2>1. ASSUME NEW t \in Searcher, Handles(t)
        PROVE  /\ work'[Applier] = work[Applier]
               /\ \A u \in Worker : work'[u] = work[u]
                                    \/ work'[u].pc \notin {"label", "insert", "forget"}
    BY <2>1 DEF Handles, OnItem
  <2>2. Idle.pc = "idle"
    BY DEF Idle
  <2>3. CASE Wakes
    BY <2>2, <2>3 DEF Wakes
  <2> QED BY <2>1, <2>3
<1>3. Applied' = Applied
  BY <1>1, <1>2 DEF Applied, Idle
<1>4. HasLast' /\ \A x \in Item : SameLog(x)
  BY <1>1, <1>3, LogKept
<1>5. ASSUME NEW x \in Item PROVE Kept(x)
  <2>1. (Taking(x)' <=> Taking(x)) /\ (Working(x)' <=> Working(x))
    BY <1>2 DEF Taking, Working, Idle, OnItem
  <2> QED BY <1>1, <2>1, FrameKeeps
<1>6. TableInv'
  BY <1>1, <1>2 DEF TableInv
<1>7. ASSUME NEW x \in Item PROVE InStep(x)'
  BY <1>1, <1>4, <1>5, KeptInStep
<1> QED BY <1>1, <1>4, <1>5, <1>6, <1>7

\* Apply takes an operation: what the log says stays, for a Put because it is no
\* feature operation, for the others because they are yet to be done.
LEMMA TakeKeepsLog ==
    ASSUME EngineInv, SourceInv, LogInv, NEW op \in Operation, Takes(op)
    PROVE  /\ LogInv' /\ ~dead /\ ~dead'
           /\ \A x \in Item : SameLog(x) /\ ~Taking(x)
           /\ \A x \in Item : Taking(x)' <=> op.kind # "Put" /\ x = op.item
           /\ \A x \in Item : Hidden(x) => Hidden(x)'
<1> USE WorkerFacts DEF LogInv
<1>1. /\ UNCHANGED <<slots, lookup, labelToItemId, activeLabels, deletedItems>>
      /\ ~dead /\ ~dead' /\ op.item \in Item
      /\ work[Applier].pc = "idle" /\ work'[Applier].item = op.item
      /\ work'[Applier].pc = IF op.kind = "Put" THEN "wake" ELSE "check"
      /\ \A u \in Worker \ {Applier} : work'[u] = work[u]
  BY DEF Takes
<1>2. /\ at \in Nat /\ at' = at + 1 /\ ops'[at + 1] = op
      /\ \A i \in 1..at : ops'[i] = ops[i]
  BY DEF Takes, EngineInv, WorkInv
<1>3. Applied = at /\ Applied' = IF op.kind = "Put" THEN at + 1 ELSE at
  BY <1>1, <1>2 DEF Applied
<1>4. HasLast' /\ \A x \in Item : SameLog(x)
  <2>1. CASE op.kind = "Put"
    BY <1>2, <1>3, <2>1, LogGrows
  <2>2. CASE op.kind # "Put"
    BY <1>2, <1>3, <2>2, LogKept
  <2> QED BY <2>1, <2>2
<1>5. /\ \A x \in Item : ~Taking(x) /\ ~Working(x) /\ ~Working(x)'
      /\ \A x \in Item : Taking(x)' <=> op.kind # "Put" /\ x = op.item
  BY <1>1 DEF Taking, Working, OnItem
<1>6. TableInv'
  <2>1. work'[Applier].pc \notin {"label", "insert", "forget"}
    BY <1>1
  <2>2. \A u \in Worker : work'[u] = work[u]
                          \/ work'[u].pc \notin {"label", "insert", "forget"}
    BY <1>1, <2>1
  <2> QED BY <1>1, <2>1, <2>2 DEF TableInv
<1>7. \A x \in Item : (Hidden(x)' <=> Hidden(x)) /\ (Findable(x)' <=> Findable(x))
  BY <1>1 DEF Hidden, Findable, InGraph
<1>8. ASSUME NEW x \in Item PROVE InStep(x)'
  <2>1. kvdb'[x] = Nil => kvdb[x] = Nil
    <3>1. at + 1 # Nil
      BY <1>2, NilAssumption
    <3> QED BY <3>1 DEF Takes
  <2>2. InStep(x)
    BY <1>1
  <2>3. Follows(x)'
    BY <1>1, <1>4, <1>5, <2>1, <2>2 DEF Follows, InStep, SameLog
  <2>4. Present(x)'
    BY <1>4, <1>5, <1>7, <2>2 DEF Present, InStep, Stays, SameLog
  <2>5. Absent(x)'
    BY <1>1, <1>5, <1>7, <2>1, <2>2 DEF Absent, InStep
  <2> QED BY <2>3, <2>4, <2>5 DEF InStep
<1> QED BY <1>1, <1>4, <1>5, <1>6, <1>7, <1>8

\* LogInv holds of a process that starts.
LEMMA LogInit == RecallInit => LogInv
<1> SUFFICES ASSUME RecallInit PROVE LogInv
  OBVIOUS
<1>1. /\ slots = <<>> /\ activeLabels = {} /\ deletedItems = {} /\ labelToItemId = {}
      /\ at = 0 /\ \A w \in Worker : work[w].pc = "idle"
  BY DEF RecallInit, Idle
<1>2. TableInv
  BY <1>1, WorkerFacts DEF TableInv
<1>3. \A x \in Item : Done(x) = {}
  BY <1>1, WorkerFacts DEF Done, FeatureOps, Applied
<1>4. \A x \in Item : ~Inserted(x) /\ Hidden(x)
  BY <1>1, <1>3 DEF Inserted, Done, Hidden
<1> QED BY <1>1, <1>2, <1>3, <1>4 DEF LogInv, HasLast, InStep, Follows, Present, Stays,
           Absent

\* Every step keeps LogInv.
LEMMA LogStep ==
    EngineInv /\ CauseInv /\ LogInv /\ [RecallNext]_recallVars => LogInv'
<1> SUFFICES ASSUME EngineInv, SourceInv, LogInv, [RecallNext]_recallVars PROVE LogInv'
  BY DEF CauseInv
<1>1. CASE UNCHANGED recallVars
  <2>1. /\ UNCHANGED <<ops, at, kvdb, slots, lookup, labelToItemId, activeLabels,
                       deletedItems>>
        /\ work' = work /\ dead' = dead
    BY <1>1 DEF recallVars, graphVars, tableVars, serverVars
  <2>2. Applied' = Applied
    BY <2>1 DEF Applied
  <2>3. HasLast' /\ \A x \in Item : SameLog(x)
    BY <2>1, <2>2, LogKept DEF LogInv
  <2>4. ASSUME NEW x \in Item, ~dead PROVE InStep(x)'
    <3>1. (Taking(x)' <=> Taking(x)) /\ (Working(x)' <=> Working(x))
      BY <2>1 DEF Taking, Working
    <3>2. Kept(x)
      BY <2>1, <3>1, FrameKeeps
    <3> QED BY <2>3, <2>4, <3>2, KeptInStep DEF LogInv
  <2>5. TableInv'
    BY <2>1 DEF TableInv, LogInv
  <2> QED BY <2>1, <2>3, <2>4, <2>5 DEF LogInv
<1>2. CASE RecallRestart
  <2>1. /\ slots' = <<>> /\ activeLabels' = {} /\ deletedItems' = {}
        /\ labelToItemId' = {} /\ at' = 0 /\ \A w \in Worker : work'[w].pc = "idle"
    BY <1>2, RestartFacts DEF Idle
  <2>2. TableInv'
    BY <2>1, WorkerFacts DEF TableInv
  <2>3. \A x \in Item : Done(x)' = {}
    BY <2>1, WorkerFacts DEF Done, FeatureOps, Applied
  <2>4. \A x \in Item : ~Inserted(x)' /\ Hidden(x)'
    BY <2>1, <2>3 DEF Inserted, Done, Hidden
  <2> QED BY <2>1, <2>2, <2>3, <2>4 DEF LogInv, HasLast, InStep, Follows, Present, Stays,
             Absent
<1>3. CASE RecallNext
  BY <1>2, <1>3, EngineCases, HandlerCases, WakeCases, TakeCases, EngineKeepsLog,
     FrameKeepsLog, TakeKeepsLog, WorkerFacts DEF RecallNext
<1> QED BY <1>1, <1>3

\* Between operations LogInv and VacantInv give IndexFollowsLog.
LEMMA LogGivesIndex == EngineInv /\ CauseInv /\ LogInv => IndexFollowsLog
<1> SUFFICES ASSUME EngineInv, SourceInv, VacantInv, LogInv, ~dead,
                    work[Applier].pc = "idle"
             PROVE  /\ \A x \in Item : kvdb[x] = Nil =>
                         /\ Inserted(x) =>
                               /\ x \in activeLabels
                               /\ slots[lookup[x]].vec = LastOf(FeatureOps(x, at))
                         /\ ~Inserted(x) => x \notin activeLabels
                    /\ (\A i \in 1..at : ops[i].kind # "DeleteFeature") =>
                         \A m, n \in Live : slots[m].label = slots[n].label => m = n
  BY DEF IndexFollowsLog, CauseInv, At
<1>1. ASSUME NEW x \in Item, kvdb[x] = Nil
      PROVE  /\ Inserted(x) => /\ x \in activeLabels
                               /\ slots[lookup[x]].vec = LastOf(FeatureOps(x, at))
             /\ ~Inserted(x) => x \notin activeLabels
  <2>1. ~Taking(x)
    BY DEF Taking, OnItem
  <2>2. Done(x) = FeatureOps(x, at)
    BY DEF Done, Applied
  <2> QED BY <1>1, <2>1, <2>2 DEF LogInv, InStep, Follows
<1>2. ASSUME \A i \in 1..at : ops[i].kind # "DeleteFeature", NEW m \in Live, NEW n \in Live,
             slots[m].label = slots[n].label
      PROVE  m = n
  BY <1>2 DEF VacantInv, Live
<1> QED BY <1>1, <1>2

\* Whatever the build inserts meanwhile and however often the process restarts:
\* between two operations, with m_mtx free, an item that is in no SkipList is in
\* the index exactly if its last feature operation is PutFeature, and then its
\* element has the embedding of that operation; and no item has two live
\* elements as long as nothing was deleted.
THEOREM IndexAlwaysFollows == RecallSpec => []IndexFollowsLog
<1>1. RecallSpec => []EngineInv
  BY EngineInvInit, EngineInvStep, PTL DEF RecallSpec
<1>2. RecallSpec => []CauseInv
  BY <1>1, CauseInit, CauseStep, PTL DEF RecallSpec
<1>3. RecallSpec => []LogInv
  BY <1>1, <1>2, LogInit, LogStep, PTL DEF RecallSpec
<1> QED BY <1>1, <1>2, <1>3, LogGivesIndex, PTL

-----------------------------------------------------------------------------
(* What a Search returns *)

\* What a step leaves of what a Search must and must not return.
StayKept(x) == Stays(x) => Stays(x)'
GoneKept(x) == Gone(x) => Gone(x)' /\ (x \in deletedItems => x \in deletedItems')

\* A Search that a step at most holds to fewer items.
Narrows(t) ==
    /\ search'[t].steady \subseteq search[t].steady
    /\ search'[t].gone \subseteq search[t].gone
    /\ (Full(search'[t]) <=> Full(search[t])) /\ search'[t].knn = search[t].knn
    /\ search'[t].delSet = search[t].delSet /\ search'[t].found = search[t].found
    /\ search'[t].raced = search[t].raced

\* A Search that a step does not concern.
LEMMA SearchCarried ==
    ASSUME NEW t \in Searcher, SteadyAt(t), GoneAt(t), Narrows(t),
           \/ work'[t].pc = work[t].pc
           \/ {work[t].pc, work'[t].pc} \cap {"copy", "resolve", "done"} = {},
           \A x \in search'[t].steady : StayKept(x),
           \A x \in search'[t].gone : GoneKept(x)
    PROVE  SteadyAt(t)' /\ GoneAt(t)'
<1>1. /\ search'[t].steady \subseteq search[t].steady
      /\ search'[t].gone \subseteq search[t].gone
      /\ (Full(search'[t]) <=> Full(search[t])) /\ search'[t].knn = search[t].knn
      /\ search'[t].delSet = search[t].delSet /\ search'[t].found = search[t].found
      /\ search'[t].raced = search[t].raced
  BY DEF Narrows
<1>2. SteadyAt(t)'
  <2>1. \A x \in search'[t].steady : Stays(x)'
    BY <1>1 DEF SteadyAt, StayKept
  <2>2. work'[t].pc \notin {"copy", "resolve", "done"} => ~Full(search'[t])
    BY <1>1 DEF SteadyAt
  <2>3. work'[t].pc \in {"copy", "resolve"} /\ Full(search'[t])
            => search'[t].steady \subseteq search'[t].knn
    BY <1>1 DEF SteadyAt
  <2>4. work'[t].pc = "resolve" => search'[t].steady \cap search'[t].delSet = {}
    BY <1>1 DEF SteadyAt
  <2>5. work'[t].pc = "done" /\ ~search'[t].raced /\ Full(search'[t])
            => search'[t].steady \subseteq search'[t].found
    BY <1>1 DEF SteadyAt
  <2> QED BY <2>1, <2>2, <2>3, <2>4, <2>5 DEF SteadyAt
<1>3. GoneAt(t)'
  <2>1. \A x \in search'[t].gone : Gone(x) /\ Gone(x)'
                                   /\ (x \in deletedItems => x \in deletedItems')
    BY <1>1 DEF GoneAt, GoneKept
  <2>2. work'[t].pc # "done" => search'[t].found = {}
    BY <1>1 DEF GoneAt
  <2>3. work'[t].pc = "copy" => search'[t].gone \cap search'[t].knn \subseteq deletedItems'
    BY <1>1, <2>1 DEF GoneAt
  <2>4. work'[t].pc = "resolve" =>
            search'[t].gone \cap search'[t].knn \subseteq search'[t].delSet
    BY <1>1 DEF GoneAt
  <2>5. work'[t].pc = "done" => search'[t].found \cap search'[t].gone = {}
    BY <1>1 DEF GoneAt
  <2> QED BY <2>1, <2>2, <2>3, <2>4, <2>5 DEF GoneAt
<1> QED BY <1>2, <1>3

\* What a step does not concern stays, or stays gone.
LEMMA KeptStays ==
    ASSUME NEW x \in Item, Kept(x), SameLog(x)
    PROVE  StayKept(x) /\ GoneKept(x)
<1>1. StayKept(x)
  BY DEF StayKept, Stays, Kept, SameLog
<1>2. GoneKept(x)
  BY DEF GoneKept, Gone, Kept
<1> QED BY <1>1, <1>2

\* The engine takes no item from a Search that Apply is not deleting, and shows
\* it none that nobody inserts.
LEMMA EngineKeepsStays ==
    ASSUME EngineInv, SourceInv, LogInv, NEW w \in Worker, NEW y, Engine(w, y),
           NEW x \in Item
    PROVE  StayKept(x) /\ GoneKept(x)
<1> USE WorkerFacts
<1>0. /\ HasLast' /\ \A z \in Item \ {y} : SameLog(z)
      /\ ~Ends(w, y) \/ dead' => SameLog(y)
      /\ Ends(w, y) /\ ~dead' => /\ Inserted(y)' <=> ops[at].kind = "PutFeature"
                                 /\ LastOf(Done(y))' = at
  BY EngineLog DEF LogInv
<1>1. CASE Dies(w, y)
  <2>1. /\ UNCHANGED <<slots, lookup, labelToItemId, activeLabels, deletedItems, ops, at,
                       kvdb, work>>
        /\ dead'
    BY <1>1 DEF Dies
  <2>2. (Taking(x)' <=> Taking(x)) /\ (Working(x)' <=> Working(x))
    BY <2>1 DEF Taking, Working
  <2>3. Kept(x)
    BY <2>1, <2>2, FrameKeeps
  <2>4. SameLog(x)
    BY <1>0, <2>1
  <2> QED BY <2>3, <2>4, KeptStays
<1>2. CASE ~Dies(w, y) /\ x # y
  <2>1. ~dead'
    BY <1>2 DEF Engine, Checks, Enters, Labels, Points, Marks, Hides, Forgets, Went
  <2>2. Kept(x)
    BY <1>2, <2>1, EngineKeepsItem
  <2> QED BY <1>0, <1>2, <2>2, KeptStays
<1>3. CASE ~Dies(w, y) /\ x = y
  <2>1. /\ ~dead' /\ work[w].item = y /\ work'[w].item = y /\ work[w].pc \in OnItem
        /\ \A u \in Worker \ {w} : work'[u] = work[u]
        /\ ops' = ops /\ at' = at /\ kvdb' = kvdb
    BY <1>3 DEF Engine, Checks, Enters, Labels, Points, Marks, Hides, Forgets, Went, OnItem
  <2>2. CASE w # Applier
    <3>1. kvdb[y] # Nil /\ work'[Applier] = work[Applier]
      BY <2>1, <2>2 DEF SourceInv, Worker
    <3>2. (Taking(y)' <=> Taking(y)) /\ SameLog(y)
      BY <1>0, <2>2, <3>1 DEF Taking, Ends
    <3>3. StayKept(y)
      BY <2>1, <3>2 DEF StayKept, Stays, SameLog
    <3> QED BY <1>3, <3>1, <3>3 DEF GoneKept, Gone
  <2>3. CASE w = Applier /\ ops[at].kind = "PutFeature"
    <3>1. Taking(y)
      BY <2>1, <2>3 DEF Taking
    <3>2. Inserted(y) => Inserted(y)'
      BY <1>0, <2>1, <2>3 DEF SameLog
    <3>3. StayKept(y)
      BY <2>1, <2>3, <3>2 DEF StayKept, Stays
    <3> QED BY <1>3, <2>3, <3>1, <3>3 DEF GoneKept, Gone
  <2>4. CASE w = Applier /\ ops[at].kind = "DeleteFeature"
    <3>1. Taking(y)
      BY <2>1, <2>4 DEF Taking
    <3>2. StayKept(y)
      BY <2>4, <3>1 DEF StayKept, Stays
    <3>3. work[Applier].pc \in {"check", "mark", "hide", "forget"}
      BY <2>1, <2>4 DEF SourceInv, OnItem
    <3>4. Checks(w, y) \/ Marks(y) \/ Hides(y) \/ Forgets(y)
      BY <1>3, <2>4, <3>3 DEF Engine, Enters, Labels, Points, Went
    <3>5. y \in deletedItems => y \in deletedItems'
      BY <3>4 DEF Checks, Marks, Hides, Forgets
    <3>6. (\A n \in DOMAIN slots : slots[n].label # y) =>
              \A n \in DOMAIN slots' : slots'[n].label # y
      <4>1. CASE Marks(y)
        BY <4>1 DEF Marks
      <4>2. CASE ~Marks(y)
        <5>1. slots' = slots
          BY <3>4, <4>2 DEF Checks, Hides, Forgets
        <5> QED BY <5>1
      <4> QED BY <4>1, <4>2
    <3>7. Hidden(y) => Hidden(y)'
      BY <3>5, <3>6 DEF Hidden
    <3>8. GoneKept(y)
      BY <2>1, <2>4, <3>5, <3>7 DEF GoneKept, Gone
    <3> QED BY <1>3, <3>2, <3>8
  <2>5. w = Applier => ops[at].kind \in {"PutFeature", "DeleteFeature"}
    <3>1. w = Applier => at \in 1..Len(ops) /\ ops[at].kind # "Put"
      BY <2>1 DEF SourceInv, EngineInv, WorkInv
    <3>2. w = Applier => ops[at] \in Operation
      BY <3>1 DEF EngineInv, WorkInv
    <3> QED BY <3>1, <3>2 DEF Operation
  <2> QED BY <2>2, <2>3, <2>4, <2>5
<1> QED BY <1>1, <1>2, <1>3

\* So no step of the engine disturbs a Search.
LEMMA EngineKeepsSearch ==
    ASSUME EngineInv, SourceInv, LogInv, SearchInv, NEW w \in Worker, NEW y, Engine(w, y)
    PROVE  SearchInv'
<1> USE WorkerFacts
<1>1. search' = search
  BY DEF Engine, Checks, Enters, Labels, Points, Dies, Marks, Hides, Forgets, Went
<1>2. deletedItems' \subseteq Item
  BY DEF Engine, Checks, Enters, Labels, Points, Dies, Marks, Hides, Forgets, Went,
         SearchInv
<1>3. ASSUME NEW t \in Searcher
      PROVE  \/ work'[t].pc = work[t].pc
             \/ {work[t].pc, work'[t].pc} \cap {"copy", "resolve", "done"} = {}
  <2>1. AfterInsert(w) \in {"wake", "visit"}
    BY DEF AfterInsert
  <2>2. \/ work' = work
        \/ /\ \A u \in Worker \ {w} : work'[u] = work[u]
           /\ work[w].pc \in {"check", "enter", "label", "insert", "mark", "hide", "forget"}
           /\ work'[w].pc \in {"visit", "enter", "label", "insert", "mark", "hide",
                               "forget", "wake"}
    BY <2>1 DEF Engine, Checks, Enters, Labels, Points, Dies, Marks, Hides, Forgets, Went
  <2> QED BY <2>2
<1>4. ASSUME NEW t \in Searcher PROVE SteadyAt(t)' /\ GoneAt(t)'
  <2>1. search[t] \in SearchRec /\ SteadyAt(t) /\ GoneAt(t) /\ search'[t] = search[t]
    BY <1>1 DEF SearchInv
  <2>2. /\ \A x \in search'[t].steady : StayKept(x)
        /\ \A x \in search'[t].gone : GoneKept(x)
    <3>1. search'[t].steady \subseteq Item /\ search'[t].gone \subseteq Item
      BY <2>1 DEF SearchRec
    <3> QED BY <3>1, EngineKeepsStays
  <2>3. Narrows(t)
    BY <2>1 DEF Narrows
  <2> QED BY <1>1, <1>3, <2>1, <2>2, <2>3, SearchCarried
<1> QED BY <1>1, <1>2, <1>4 DEF SearchInv

\* Nor does Apply when it answers, or when it takes an operation: a Search that
\* runs then is no longer held to the item of a DeleteFeature, nor to hide the
\* item of another.
LEMMA ApplyKeepsSearch ==
    ASSUME EngineInv, SourceInv, LogInv, SearchInv,
           ApplyWake \/ \E op \in Operation : ApplyTake(op)
    PROVE  SearchInv'
<1> USE WorkerFacts
<1>1. CASE ApplyWake
  <2>1. Wakes
    BY <1>1, WakeCases
  <2>2. \A x \in Item : Kept(x) /\ SameLog(x)
    BY <2>1, FrameKeepsLog
  <2>3. /\ search' = search /\ deletedItems' = deletedItems
        /\ \A u \in Searcher : work'[u] = work[u]
    BY <2>1 DEF Wakes
  <2>4. ASSUME NEW t \in Searcher PROVE SteadyAt(t)' /\ GoneAt(t)'
    <3>1. search[t] \in SearchRec /\ SteadyAt(t) /\ GoneAt(t) /\ search'[t] = search[t]
      BY <2>3 DEF SearchInv
    <3>2. search'[t].steady \subseteq Item /\ search'[t].gone \subseteq Item
      BY <3>1 DEF SearchRec
    <3>3. /\ \A x \in search'[t].steady : StayKept(x)
          /\ \A x \in search'[t].gone : GoneKept(x)
      BY <2>2, <3>2, KeptStays
    <3>4. Narrows(t)
      BY <3>1 DEF Narrows
    <3> QED BY <2>3, <3>1, <3>3, <3>4, SearchCarried
  <2> QED BY <2>3, <2>4 DEF SearchInv
<1>2. ASSUME NEW op \in Operation, ApplyTake(op) PROVE SearchInv'
  <2>1. Takes(op)
    BY <1>2, TakeCases
  <2>2. /\ \A x \in Item : SameLog(x) /\ ~Taking(x)
        /\ \A x \in Item : Taking(x)' <=> op.kind # "Put" /\ x = op.item
        /\ \A x \in Item : Hidden(x) => Hidden(x)'
    BY <2>1, TakeKeepsLog
  <2>3. /\ deletedItems' = deletedItems
        /\ ops'[at'] = op /\ \A u \in Searcher : work'[u] = work[u]
        /\ op.kind \in {"Put", "PutFeature", "DeleteFeature"}
        /\ \A x \in Item : kvdb'[x] = IF op.kind = "Put" /\ x = op.item THEN at + 1
                                      ELSE kvdb[x]
    BY <2>1 DEF Takes
  <2>4. search' = [t \in Searcher |-> IF op.kind = "DeleteFeature"
                    THEN [search[t] EXCEPT !.steady = @ \ {op.item}]
                    ELSE [search[t] EXCEPT !.gone   = @ \ {op.item}]]
    BY <1>2 DEF ApplyTake
  <2>5. ASSUME NEW x \in Item, op.kind # "DeleteFeature" \/ x # op.item PROVE StayKept(x)
    BY <2>2, <2>3, <2>5 DEF StayKept, Stays, SameLog
  <2>6. ASSUME NEW x \in Item, op.kind = "DeleteFeature" \/ x # op.item PROVE GoneKept(x)
    BY <2>2, <2>3, <2>6 DEF GoneKept, Gone
  <2>7. ASSUME NEW t \in Searcher
        PROVE  search'[t] \in SearchRec /\ SteadyAt(t)' /\ GoneAt(t)'
    <3>1. search[t] \in SearchRec /\ SteadyAt(t) /\ GoneAt(t)
      BY DEF SearchInv
    <3>2. CASE op.kind = "DeleteFeature"
      <4>1. search'[t] = [search[t] EXCEPT !.steady = search[t].steady \ {op.item}]
        BY <2>4, <3>2
      <4>2. /\ search'[t] \in SearchRec /\ Narrows(t)
            /\ op.item \notin search'[t].steady
        BY <3>1, <4>1 DEF SearchRec, Narrows, Full
      <4>3. search'[t].steady \subseteq Item /\ search'[t].gone \subseteq Item
        BY <4>2 DEF SearchRec
      <4>4. /\ \A x \in search'[t].steady : StayKept(x)
            /\ \A x \in search'[t].gone : GoneKept(x)
        BY <2>5, <2>6, <3>2, <4>2, <4>3
      <4> QED BY <2>3, <3>1, <4>2, <4>4, SearchCarried
    <3>3. CASE op.kind # "DeleteFeature"
      <4>1. search'[t] = [search[t] EXCEPT !.gone = search[t].gone \ {op.item}]
        BY <2>4, <3>3
      <4>2. /\ search'[t] \in SearchRec /\ Narrows(t)
            /\ op.item \notin search'[t].gone
        BY <3>1, <4>1 DEF SearchRec, Narrows, Full
      <4>3. search'[t].steady \subseteq Item /\ search'[t].gone \subseteq Item
        BY <4>2 DEF SearchRec
      <4>4. /\ \A x \in search'[t].steady : StayKept(x)
            /\ \A x \in search'[t].gone : GoneKept(x)
        BY <2>5, <2>6, <3>3, <4>2, <4>3
      <4> QED BY <2>3, <3>1, <4>2, <4>4, SearchCarried
    <3> QED BY <3>2, <3>3
  <2>8. search' \in [Searcher -> SearchRec]
    BY <2>4, <2>7
  <2> QED BY <2>3, <2>7, <2>8 DEF SearchInv
<1> QED BY <1>1, <1>2

\* A handler of Search touches no Search but its own.
LEMMA HandlerSteps ==
    ASSUME EngineInv, SourceInv, LogInv, SearchInv, NEW t \in Searcher, Handles(t), NEW r,
           search' = [search EXCEPT ![t] = r], r \in SearchRec,
           search'[t] = r => SteadyAt(t)' /\ GoneAt(t)'
    PROVE  SearchInv'
<1> USE WorkerFacts
<1>1. /\ deletedItems' = deletedItems
      /\ \A u \in Searcher \ {t} : work'[u] = work[u]
  BY DEF Handles
<1>2. /\ search \in [Searcher -> SearchRec] /\ search' \in [Searcher -> SearchRec]
      /\ search'[t] = r /\ \A u \in Searcher \ {t} : search'[u] = search[u]
  BY DEF SearchInv
<1>3. \A x \in Item : Kept(x) /\ SameLog(x)
  BY FrameKeepsLog
<1>4. ASSUME NEW u \in Searcher, u # t PROVE SteadyAt(u)' /\ GoneAt(u)'
  <2>1. search[u] \in SearchRec /\ SteadyAt(u) /\ GoneAt(u) /\ search'[u] = search[u]
    BY <1>2, <1>4 DEF SearchInv
  <2>2. search'[u].steady \subseteq Item /\ search'[u].gone \subseteq Item
    BY <2>1 DEF SearchRec
  <2>3. /\ \A x \in search'[u].steady : StayKept(x)
        /\ \A x \in search'[u].gone : GoneKept(x)
    BY <1>3, <2>2, KeptStays
  <2>4. Narrows(u)
    BY <2>1 DEF Narrows
  <2> QED BY <1>1, <1>4, <2>1, <2>3, <2>4, SearchCarried
<1>5. SteadyAt(t)' /\ GoneAt(t)'
  BY <1>2
<1> QED BY <1>1, <1>2, <1>4, <1>5 DEF SearchInv

\* What the handler of a Search may rely on in its own step.
LEMMA OwnSearch ==
    ASSUME EngineInv, SourceInv, LogInv, SearchInv, NEW t \in Searcher, Handles(t)
    PROVE  /\ search[t] \in SearchRec /\ SteadyAt(t) /\ GoneAt(t)
           /\ search[t].steady \subseteq Item /\ search[t].gone \subseteq Item
           /\ deletedItems' = deletedItems /\ ~dead
           /\ \A x \in Item : InStep(x) /\ (Stays(x) => Stays(x)') /\ (Gone(x) => Gone(x)')
           /\ \A x \in search[t].steady : Findable(x)
<1>1. search[t] \in SearchRec /\ SteadyAt(t) /\ GoneAt(t)
  BY DEF SearchInv
<1>2. search[t].steady \subseteq Item /\ search[t].gone \subseteq Item
  BY <1>1 DEF SearchRec
<1>3. deletedItems' = deletedItems /\ ~dead
  BY DEF Handles
<1>4. \A x \in Item : Kept(x) /\ SameLog(x)
  BY FrameKeepsLog
<1>5. \A x \in Item : InStep(x) /\ (Stays(x) => Stays(x)') /\ (Gone(x) => Gone(x)')
  BY <1>3, <1>4, KeptStays DEF LogInv, StayKept, GoneKept
<1>6. \A x \in search[t].steady : Findable(x)
  BY <1>1, <1>2, <1>5 DEF SteadyAt, InStep, Present
<1> QED BY <1>1, <1>2, <1>3, <1>5, <1>6

\* The steps of the build, and the question for the size.
LEMMA BuildKeepsSearch ==
    ASSUME EngineInv, SourceInv, LogInv, SearchInv, NEW t \in Searcher,
           BuildStep(t) \/ SearchSize(t)
    PROVE  SearchInv'
<1> USE WorkerFacts
<1>0. Handles(t)
  BY HandlerCases DEF AnswerStep
<1>1. /\ search[t] \in SearchRec /\ SteadyAt(t) /\ GoneAt(t)
      /\ search[t].steady \subseteq Item /\ search[t].gone \subseteq Item
      /\ \A x \in Item : (Stays(x) => Stays(x)') /\ (Gone(x) => Gone(x)')
  BY <1>0, OwnSearch
<1>2. work \in [Worker -> WorkRec]
  BY DEF EngineInv, WorkInv
<1>3. /\ work[t].pc \in {"build", "visit", "size"}
      /\ work'[t].pc \in {"visit", "size", "check", "knn", "done"}
  <2>1. ASSUME NEW q \in {"visit", "size", "knn", "done"}, GoesOn(t, q) PROVE work'[t].pc = q
    BY <1>2, <2>1 DEF GoesOn, WorkRec
  <2>2. ASSUME NEW x \in Item, BuildVisit(t, x) PROVE work'[t].pc \in {"visit", "check"}
    <3>1. work[t].pc = "visit"
      BY <2>2 DEF BuildVisit, At
    <3> QED BY <1>2, <2>2, <3>1 DEF BuildVisit
  <2>3. ASSUME BuildDone(t) PROVE work'[t].pc = "size"
    <3>1. work' = [work EXCEPT ![t] = [Idle EXCEPT !.pc = "size"]]
      BY <2>3 DEF BuildDone
    <3>2. [Idle EXCEPT !.pc = "size"].pc = "size"
      BY DEF Idle
    <3> QED BY <1>2, <3>1, <3>2
  <2>4. BuildEnter(t) => GoesOn(t, "size") \/ GoesOn(t, "visit")
    BY DEF BuildEnter
  <2>5. SearchSize(t) => GoesOn(t, "done") \/ GoesOn(t, "knn")
    BY DEF SearchSize
  <2>6. work'[t].pc \in {"visit", "size", "check", "knn", "done"}
    BY <2>1, <2>2, <2>3, <2>4, <2>5 DEF BuildStep
  <2>7. work[t].pc \in {"build", "visit", "size"}
    BY DEF BuildStep, BuildEnter, BuildVisit, BuildDone, SearchSize, At
  <2> QED BY <2>6, <2>7
<1>4. PICK T \in SUBSET Item : search' = [search EXCEPT ![t] = [search[t] EXCEPT !.todo = T]]
  <2>1. search \in [Searcher -> SearchRec] /\ search[t].todo \in SUBSET Item
    BY <1>1 DEF SearchInv, SearchRec
  <2>2. [search EXCEPT ![t] = [search[t] EXCEPT !.todo = search[t].todo]] = search
    BY <2>1 DEF SearchRec
  <2>3. \/ search' = search
        \/ search' = [search EXCEPT ![t] = [search[t] EXCEPT !.todo = Item]]
        \/ \E x \in Item : search' = [search EXCEPT ![t] =
                                       [search[t] EXCEPT !.todo = search[t].todo \ {x}]]
    BY DEF BuildStep, BuildEnter, BuildVisit, BuildDone, SearchSize
  <2> QED BY <2>1, <2>2, <2>3
<1> DEFINE r == [search[t] EXCEPT !.todo = T]
<1>5. /\ r \in SearchRec /\ r.steady = search[t].steady /\ r.gone = search[t].gone
      /\ (Full(r) <=> Full(search[t])) /\ r.found = search[t].found
  BY <1>1 DEF SearchRec, Full
<1>6. ~Full(search[t]) /\ search[t].found = {}
  BY <1>1, <1>3 DEF SteadyAt, GoneAt
<1> HIDE DEF r
<1>8. ASSUME search'[t] = r PROVE SteadyAt(t)' /\ GoneAt(t)'
  <2>1. \A x \in search'[t].steady : Stays(x)'
    BY <1>1, <1>5, <1>8 DEF SteadyAt
  <2>2. \A x \in search'[t].gone : Gone(x)'
    BY <1>1, <1>5, <1>8 DEF GoneAt
  <2>3. ~Full(search'[t]) /\ search'[t].found = {} /\ work'[t].pc \notin {"copy", "resolve"}
    BY <1>3, <1>5, <1>6, <1>8
  <2> QED BY <2>1, <2>2, <2>3 DEF SteadyAt, GoneAt
<1> QED BY <1>0, <1>4, <1>5, <1>8, HandlerSteps DEF r

\* A Search begins, with what the log says at that moment, and ends.
LEMMA StartKeepsSearch ==
    ASSUME EngineInv, SourceInv, LogInv, SearchInv, NEW t \in Searcher,
           SearchStart(t) \/ SearchReply(t)
    PROVE  SearchInv'
<1> USE WorkerFacts
<1>0. Handles(t)
  BY HandlerCases DEF AnswerStep
<1>1. /\ ~dead
      /\ \A x \in Item : InStep(x) /\ (Stays(x) => Stays(x)') /\ (Gone(x) => Gone(x)')
  BY <1>0, OwnSearch
<1>2. work \in [Worker -> WorkRec]
  BY DEF EngineInv, WorkInv
<1>a. /\ NoSearch \in SearchRec /\ ~Full(NoSearch) /\ NoSearch.found = {}
      /\ NoSearch.gone = {} /\ NoSearch.steady = {}
  BY DEF NoSearch, SearchRec, Full
<1>3. PICK r \in SearchRec : /\ search' = [search EXCEPT ![t] = r]
                             /\ ~Full(r) /\ r.found = {}
                             /\ \A x \in r.gone : x \in Item /\ Gone(x)
                             /\ \A x \in r.steady : x \in Item /\ Stays(x)
  <2>1. CASE SearchStart(t)
    <3> DEFINE G == {x \in Item : Deleted(x) /\ kvdb[x] = Nil /\ work[Applier].item # x}
               S == {x \in Item : Inserted(x) /\ ~(work[Applier].item = x
                                                   /\ ops[at].kind = "DeleteFeature")}
    <3>1. search' = [search EXCEPT ![t] = [NoSearch EXCEPT !.gone = G, !.steady = S]]
      BY <2>1 DEF SearchStart
    <3>2. ASSUME NEW x \in S PROVE Stays(x)
      BY DEF Stays, Taking
    <3>3. ASSUME NEW x \in G PROVE Gone(x)
      <4>1. kvdb[x] = Nil /\ ~Taking(x) /\ ~Working(x) /\ ~Inserted(x) /\ x \in Item
        BY DEF Taking, Working, Inserted, Deleted
      <4>2. x \notin activeLabels
        BY <1>1, <4>1 DEF InStep, Follows
      <4>3. Hidden(x)
        BY <1>1, <4>1, <4>2 DEF InStep, Absent
      <4> QED BY <4>1, <4>3 DEF Gone
    <3>4. G \in SUBSET Item /\ S \in SUBSET Item
      OBVIOUS
    <3> HIDE DEF G, S
    <3>5. PICK g \in SUBSET Item, s \in SUBSET Item : g = G /\ s = S
      BY <3>4
    <3>6. PICK r : r = [NoSearch EXCEPT !.gone = g, !.steady = s]
      OBVIOUS
    <3>7. r \in SearchRec /\ ~Full(r) /\ r.found = {} /\ r.gone = g /\ r.steady = s
      BY <1>a, <3>6 DEF SearchRec, Full
    <3>8. search' = [search EXCEPT ![t] = r]
      BY <3>1, <3>5, <3>6
    <3> QED BY <3>2, <3>3, <3>5, <3>7, <3>8
  <2>2. CASE SearchReply(t)
    <3>1. search' = [search EXCEPT ![t] = NoSearch]
      BY <2>2 DEF SearchReply
    <3> QED BY <1>a, <3>1
  <2> QED BY <2>1, <2>2
<1>5. work'[t].pc \in {"size", "build", "idle"}
  <2>1. SearchStart(t) => GoesOn(t, "size") \/ GoesOn(t, "build")
    BY DEF SearchStart
  <2>2. ASSUME NEW q \in {"size", "build"}, GoesOn(t, q) PROVE work'[t].pc = q
    BY <1>2, <2>2 DEF GoesOn, WorkRec
  <2>3. SearchReply(t) => work'[t].pc = "idle"
    BY <1>2 DEF SearchReply, Idle
  <2> QED BY <2>1, <2>2, <2>3
<1>6. ASSUME search'[t] = r PROVE SteadyAt(t)' /\ GoneAt(t)'
  <2>1. \A x \in search'[t].steady : Stays(x)'
    BY <1>1, <1>3, <1>6
  <2>2. \A x \in search'[t].gone : Gone(x)'
    BY <1>1, <1>3, <1>6
  <2>3. ~Full(search'[t]) /\ search'[t].found = {}
    BY <1>3, <1>6
  <2> QED BY <1>5, <2>1, <2>2, <2>3 DEF SteadyAt, GoneAt
<1> QED BY <1>0, <1>3, <1>6, HandlerSteps

\* Where no fewer are asked for than are live, a search that misses none gets all.
LEMMA KnnTakesAll ==
    ASSUME EngineInv, NEW k \in Int, NEW S \in SUBSET Live,
           Cardinality(S) = AllWanted(k), k >= Cardinality(Live)
    PROVE  S = Live
<1> DEFINE n == Len(slots)
<1>1. n \in Nat /\ DOMAIN slots = 1..n
  BY DEF EngineInv, GraphInv
<1>2. IsFiniteSet(1..n)
  <2>1. n \in Int /\ 1 \in Int
    BY <1>1
  <2> HIDE DEF n
  <2> QED BY <2>1, FS_Interval, Zenon
<1>3. Live \in SUBSET (1..n)
  BY <1>1 DEF Live
<1>4. IsFiniteSet(Live)
  BY <1>2, <1>3, FS_Subset
<1>5. Cardinality(Live) \in Nat
  BY <1>4, FS_CardinalityType
<1>6. Cardinality(S) = Cardinality(Live)
  BY <1>5 DEF AllWanted
<1> QED BY <1>4, <1>6, FS_Subset

\* searchTopK on the graph.
LEMMA KnnKeepsSearch ==
    ASSUME EngineInv, SourceInv, LogInv, SearchInv, NEW t \in Searcher,
           NEW k \in TopKs, NEW S \in SUBSET Live, SearchKnn(t, k, S)
    PROVE  SearchInv'
<1> USE WorkerFacts
<1>0. Handles(t)
  BY HandlerCases DEF AnswerStep
<1>1. /\ search[t] \in SearchRec /\ SteadyAt(t) /\ GoneAt(t)
      /\ search[t].steady \subseteq Item /\ search[t].gone \subseteq Item
      /\ deletedItems' = deletedItems
      /\ \A x \in Item : (Stays(x) => Stays(x)') /\ (Gone(x) => Gone(x)')
      /\ \A x \in search[t].steady : Findable(x)
  BY <1>0, OwnSearch
<1> DEFINE K == {slots[n].label : n \in S}
           c == TopK(k)
           e == c >= Cardinality(Live)
           a == Cardinality(S) = AllWanted(c)
           r == [search[t] EXCEPT !.knn = K, !.enough = e, !.exact = a]
<1>2. /\ work[t].pc = "knn" /\ GoesOn(t, "copy")
      /\ search' = [search EXCEPT ![t].knn = K, ![t].enough = e, ![t].exact = a]
  BY DEF SearchKnn, At
<1>3. c \in Int
  BY RecallBounds DEF TopK
<1>4. K \subseteq Item
  BY GraphFacts DEF EngineInv, Live, Vacant
<1>5. work'[t].pc = "copy"
  BY <1>2 DEF GoesOn, EngineInv, WorkInv, WorkRec
<1>6. e /\ a => search[t].steady \subseteq K
  <2>1. SUFFICES ASSUME e, a, NEW x \in search[t].steady PROVE x \in K
    OBVIOUS
  <2>2. S = Live
    BY <1>3, <2>1, KnnTakesAll
  <2>3. lookup[x] # 0 /\ ~slots[lookup[x]].deleted /\ x \in Item
    BY <1>1 DEF Findable, InGraph
  <2>4. lookup[x] \in DOMAIN slots /\ slots[lookup[x]].label = x
    BY <2>3, GraphFacts DEF EngineInv
  <2>5. lookup[x] \in Live
    BY <2>3, <2>4 DEF Live, Vacant
  <2> QED BY <2>2, <2>4, <2>5
<1>7. search[t].gone \cap K \subseteq deletedItems
  <2>1. SUFFICES ASSUME NEW x \in search[t].gone, x \in K PROVE x \in deletedItems
    OBVIOUS
  <2>2. PICK n \in S : slots[n].label = x
    BY <2>1
  <2>3. n \in DOMAIN slots
    BY DEF Live
  <2> QED BY <1>1, <2>2, <2>3 DEF GoneAt, Gone, Hidden
<1>b. e \in BOOLEAN /\ a \in BOOLEAN
  OBVIOUS
<1> HIDE DEF K, c, e, a
<1>c. PICK p \in BOOLEAN, q \in BOOLEAN : p = e /\ q = a
  BY <1>b
<1>d. p /\ q => search[t].steady \subseteq K
  BY <1>6, <1>c
<1>8. search' = [search EXCEPT ![t] = r]
  <2>1. search \in [Searcher -> SearchRec]
    BY DEF SearchInv
  <2> QED BY <1>1, <1>2, <2>1 DEF SearchRec
<1>e. r = [search[t] EXCEPT !.knn = K, !.enough = p, !.exact = q]
  BY <1>c
<1>9. /\ r \in SearchRec /\ r.knn = K /\ r.steady = search[t].steady
      /\ r.gone = search[t].gone /\ r.found = search[t].found
      /\ (Full(r) => p /\ q)
  <2> HIDE DEF r
  <2> QED BY <1>1, <1>4, <1>e DEF SearchRec, Full
<1> HIDE DEF r
<1>10. ASSUME search'[t] = r PROVE SteadyAt(t)' /\ GoneAt(t)'
  <2>1. \A x \in search'[t].steady : Stays(x)'
    BY <1>1, <1>9, <1>10 DEF SteadyAt
  <2>2. \A x \in search'[t].gone : Gone(x)'
    BY <1>1, <1>9, <1>10 DEF GoneAt
  <2>3. search'[t].found = {}
    BY <1>1, <1>2, <1>9, <1>10 DEF GoneAt
  <2>4. Full(search'[t]) => search'[t].steady \subseteq search'[t].knn
    BY <1>d, <1>9, <1>10
  <2>5. search'[t].gone \cap search'[t].knn \subseteq deletedItems'
    BY <1>1, <1>7, <1>9, <1>10
  <2> QED BY <1>5, <2>1, <2>2, <2>3, <2>4, <2>5 DEF SteadyAt, GoneAt
<1> QED BY <1>0, <1>8, <1>9, <1>10, HandlerSteps

\* The copy of m_deletedItems.
LEMMA CopyKeepsSearch ==
    ASSUME EngineInv, SourceInv, LogInv, SearchInv, NEW t \in Searcher,
           SearchCopy(t)
    PROVE  SearchInv'
<1> USE WorkerFacts
<1>0. Handles(t)
  BY HandlerCases DEF AnswerStep
<1>1. /\ search[t] \in SearchRec /\ SteadyAt(t) /\ GoneAt(t)
      /\ search[t].steady \subseteq Item /\ search[t].gone \subseteq Item
      /\ \A x \in Item : (Stays(x) => Stays(x)') /\ (Gone(x) => Gone(x)')
      /\ \A x \in search[t].steady : Findable(x)
  BY <1>0, OwnSearch
<1> DEFINE r == [search[t] EXCEPT !.delSet = deletedItems]
<1>2. /\ work[t].pc = "copy" /\ GoesOn(t, "resolve")
      /\ search' = [search EXCEPT ![t] = r]
  BY DEF SearchCopy, At
<1>3. work'[t].pc = "resolve"
  BY <1>2 DEF GoesOn, EngineInv, WorkInv, WorkRec
<1>4. /\ r \in SearchRec /\ r.knn = search[t].knn /\ (Full(r) <=> Full(search[t]))
      /\ r.steady = search[t].steady /\ r.gone = search[t].gone
      /\ r.found = search[t].found /\ r.delSet = deletedItems
  <2>1. deletedItems \in SUBSET Item
    BY DEF SearchInv
  <2> QED BY <1>1, <2>1 DEF SearchRec, Full
<1> HIDE DEF r
<1>5. ASSUME search'[t] = r PROVE SteadyAt(t)' /\ GoneAt(t)'
  <2>1. \A x \in search'[t].steady : Stays(x)'
    BY <1>1, <1>4, <1>5 DEF SteadyAt
  <2>2. \A x \in search'[t].gone : Gone(x)'
    BY <1>1, <1>4, <1>5 DEF GoneAt
  <2>3. search'[t].found = {}
    BY <1>1, <1>2, <1>4, <1>5 DEF GoneAt
  <2>4. Full(search'[t]) => search'[t].steady \subseteq search'[t].knn
    BY <1>1, <1>2, <1>4, <1>5 DEF SteadyAt
  <2>5. search'[t].steady \cap search'[t].delSet = {}
    BY <1>1, <1>4, <1>5 DEF Findable
  <2>6. search'[t].gone \cap search'[t].knn \subseteq search'[t].delSet
    BY <1>1, <1>2, <1>4, <1>5 DEF GoneAt
  <2> QED BY <1>3, <2>1, <2>2, <2>3, <2>4, <2>5, <2>6 DEF SteadyAt, GoneAt
<1> QED BY <1>0, <1>2, <1>4, <1>5, HandlerSteps

\* The labels become items, without those that are hidden.
LEMMA ResolveKeepsSearch ==
    ASSUME EngineInv, SourceInv, LogInv, SearchInv, NEW t \in Searcher,
           NEW seen \in SUBSET Item, SearchResolve(t, seen)
    PROVE  SearchInv'
<1> USE WorkerFacts
<1>0. Handles(t)
  BY HandlerCases DEF AnswerStep
<1>1. /\ search[t] \in SearchRec /\ SteadyAt(t) /\ GoneAt(t)
      /\ search[t].steady \subseteq Item /\ search[t].gone \subseteq Item
      /\ \A x \in Item : (Stays(x) => Stays(x)') /\ (Gone(x) => Gone(x)')
      /\ \A x \in search[t].steady : Findable(x)
  BY <1>0, OwnSearch
<1> DEFINE F == {x \in search[t].knn \cap seen : Shown(x, t)}
           r == [search[t] EXCEPT !.found = F, !.raced = Racing, !.knn = {}, !.delSet = {}]
<1>2. /\ work[t].pc = "resolve" /\ GoesOn(t, "done")
      /\ (~Racing => seen = labelToItemId)
      /\ search' = [search EXCEPT ![t].found = F, ![t].raced = Racing,
                                  ![t].knn = {}, ![t].delSet = {}]
  BY DEF SearchResolve, At
<1>3. work'[t].pc = "done"
  BY <1>2 DEF GoesOn, EngineInv, WorkInv, WorkRec
<1>4. F \subseteq Item /\ Racing \in BOOLEAN
  BY DEF Racing
<1>5. ASSUME ~Racing, Full(search[t]) PROVE search[t].steady \subseteq F
  <2>1. ASSUME NEW x \in search[t].steady PROVE x \in F
    <3>1. x \in search[t].knn /\ x \notin search[t].delSet
      BY <1>1, <1>2, <1>5 DEF SteadyAt
    <3>2. x \in seen
      BY <1>1, <1>2, <1>5 DEF Findable
    <3> QED BY <3>1, <3>2 DEF Shown
  <2> QED BY <2>1
<1>6. F \cap search[t].gone = {}
  BY <1>1, <1>2 DEF GoneAt, Shown
<1> HIDE DEF F
<1>7. PICK b \in BOOLEAN : b = Racing
  BY <1>4
<1>8. search' = [search EXCEPT ![t] = r]
  <2>1. search \in [Searcher -> SearchRec]
    BY DEF SearchInv
  <2> QED BY <1>1, <1>2, <1>4, <2>1 DEF SearchRec
<1>9. /\ r \in SearchRec /\ (Full(r) <=> Full(search[t]))
      /\ r.steady = search[t].steady /\ r.gone = search[t].gone
      /\ r.found = F /\ r.raced = b
  BY <1>1, <1>4, <1>7 DEF SearchRec, Full
<1> HIDE DEF r
<1>10. ASSUME search'[t] = r PROVE SteadyAt(t)' /\ GoneAt(t)'
  <2>1. \A x \in search'[t].steady : Stays(x)'
    BY <1>1, <1>9, <1>10 DEF SteadyAt
  <2>2. \A x \in search'[t].gone : Gone(x)'
    BY <1>1, <1>9, <1>10 DEF GoneAt
  <2>3. search'[t].found \cap search'[t].gone = {}
    BY <1>6, <1>9, <1>10
  <2>4. ~search'[t].raced /\ Full(search'[t])
            => search'[t].steady \subseteq search'[t].found
    BY <1>1, <1>5, <1>7, <1>9, <1>10
  <2> QED BY <1>3, <2>1, <2>2, <2>3, <2>4 DEF SteadyAt, GoneAt
<1> QED BY <1>0, <1>8, <1>9, <1>10, HandlerSteps

\* No Search is on its way when the process starts, or starts again.
LEMMA SearchBegins ==
    /\ RecallInit => SearchInv
    /\ RecallRestart => SearchInv'
<1>1. /\ NoSearch \in SearchRec /\ ~Full(NoSearch) /\ NoSearch.found = {}
      /\ NoSearch.gone = {} /\ NoSearch.steady = {}
  BY DEF NoSearch, SearchRec, Full
<1>2. Idle.pc = "idle"
  BY DEF Idle
<1>3. ASSUME RecallInit PROVE SearchInv
  <2>1. /\ search \in [Searcher -> SearchRec] /\ deletedItems = {}
        /\ \A t \in Searcher : search[t] = NoSearch /\ work[t].pc = "idle"
    BY <1>1, <1>2, <1>3, RecallBounds, WorkerFacts DEF RecallInit
  <2> QED BY <1>1, <2>1 DEF SearchInv, SteadyAt, GoneAt
<1>4. ASSUME RecallRestart PROVE SearchInv'
  <2>1. /\ search' \in [Searcher -> SearchRec] /\ deletedItems' = {}
        /\ \A t \in Searcher : search'[t] = NoSearch /\ work'[t].pc = "idle"
    BY <1>1, <1>2, <1>4, RestartFacts, WorkerFacts
  <2> QED BY <1>1, <2>1 DEF SearchInv, SteadyAt, GoneAt
<1> QED BY <1>3, <1>4

\* Every step keeps SearchInv.
LEMMA SearchStep ==
    EngineInv /\ CauseInv /\ LogInv /\ SearchInv /\ [RecallNext]_recallVars => SearchInv'
<1> SUFFICES ASSUME EngineInv, SourceInv, LogInv, SearchInv,
                    [RecallNext]_recallVars
             PROVE  SearchInv'
  BY DEF CauseInv
<1>1. CASE UNCHANGED recallVars
  <2>1. /\ UNCHANGED <<slots, deletedItems, ops, at, kvdb, work, search>>
    BY <1>1 DEF recallVars, graphVars, tableVars, serverVars
  <2>2. Applied' = Applied
    BY <2>1 DEF Applied
  <2>3. \A x \in Item : SameLog(x)
    BY <2>1, <2>2, LogKept DEF LogInv
  <2>4. \A x \in Item : (Stays(x) => Stays(x)') /\ (Gone(x) => Gone(x)')
    BY <2>1, <2>3 DEF Stays, Gone, Taking, Hidden, SameLog
  <2>5. \A t \in Searcher : search[t].steady \subseteq Item /\ search[t].gone \subseteq Item
    BY DEF SearchInv, SearchRec
  <2>6. ASSUME NEW t \in Searcher PROVE SteadyAt(t)' /\ GoneAt(t)'
    <3>1. SteadyAt(t) /\ GoneAt(t)
      BY DEF SearchInv
    <3>2. SteadyAt(t)'
      BY <2>1, <2>4, <2>5, <3>1 DEF SteadyAt
    <3>3. GoneAt(t)'
      BY <2>1, <2>4, <2>5, <3>1 DEF GoneAt
    <3> QED BY <3>2, <3>3
  <2> QED BY <2>1, <2>6 DEF SearchInv
<1>2. CASE RecallRestart
  BY <1>2, SearchBegins
<1>3. ASSUME NEW w \in Worker, EngineStep(w) \/ (w = Applier /\ DeleteStep)
      PROVE  SearchInv'
  BY <1>3, EngineCases, EngineKeepsSearch
<1>4. ASSUME NEW t \in Searcher, SearchStart(t) \/ BuildStep(t) \/ AnswerStep(t)
      PROVE  SearchInv'
  BY <1>4, StartKeepsSearch, BuildKeepsSearch, KnnKeepsSearch, CopyKeepsSearch,
     ResolveKeepsSearch DEF AnswerStep
<1>5. CASE RecallNext
  BY <1>2, <1>3, <1>4, <1>5, ApplyKeepsSearch, WorkerFacts DEF RecallNext
<1> QED BY <1>1, <1>5

\* The invariants that lead to what a Search returns.
LEMMA SearchAlways == RecallSpec => []SearchInv
<1>1. RecallSpec => []EngineInv
  BY EngineInvInit, EngineInvStep, PTL DEF RecallSpec
<1>2. RecallSpec => []CauseInv
  BY <1>1, CauseInit, CauseStep, PTL DEF RecallSpec
<1>3. RecallSpec => []LogInv
  BY <1>1, <1>2, LogInit, LogStep, PTL DEF RecallSpec
<1>4. RecallInit => SearchInv
  BY SearchBegins
<1> QED BY <1>1, <1>2, <1>3, <1>4, SearchStep, PTL DEF RecallSpec

\* A Search never returns an item that was deleted before it began and that
\* nobody has inserted since, although hnswlib keeps its vectors: m_deletedItems
\* covers what a replaced element leaves behind.
THEOREM DeletedAlwaysHidden == RecallSpec => []SearchHidesDeleted
<1>1. SearchInv => SearchHidesDeleted
  BY DEF SearchInv, GoneAt, SearchHidesDeleted
<1> QED BY <1>1, SearchAlways, PTL

\* A Search that asks for as many elements as are live, and whose walk through
\* the graph misses none of them, returns every item that the log had inserted
\* when it began and that no DeleteFeature takes out while it runs, whatever
\* Apply and the build insert or replace meanwhile, unless m_labelToItemId
\* changed while it was read without m_mtx.
THEOREM SteadyAlwaysFound == RecallSpec => []SearchFindsSteady
<1>1. SearchInv => SearchFindsSteady
  BY DEF SearchInv, SteadyAt, SearchFindsSteady, Full
<1> QED BY <1>1, SearchAlways, PTL
=============================================================================

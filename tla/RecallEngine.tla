---------------------------- MODULE RecallEngine ----------------------------
(***************************************************************************)
(* The vector index of one process (KvServer/RecallEngine.cpp), the thread *)
(* that applies committed operations to it and the handlers of Search that *)
(* build it once from the SkipList and then ask it (KvServer/KvServer.cpp).*)
(* Every critical section is a step; m_delMtx and m_labelMtx are never     *)
(* held across a step, m_mtx of the engine and m_mtx of the server are.    *)
(* Items are their own labels: two items whose hashes collide are left out.*)
(***************************************************************************)
EXTENDS Integers, Sequences, FiniteSets

CONSTANTS
    Item,         \* item_id, and the label made from it
    Searcher,     \* the threads that handle Search
    Applier,      \* the thread that calls Apply
    Nil,
    TopKs,        \* what the requests ask for
    Capacities,   \* maxElements of the constructor
    Feeds,        \* the sequences of operations that may be committed
    MaxRestarts   \* bound on the restarts of the process

ASSUME ThreadAssumption == Applier \notin Searcher /\ Nil \notin Searcher \cup {Applier}
ASSUME NilAssumption == Nil \notin Nat
ASSUME RecallBounds ==
    /\ TopKs \subseteq Int /\ Capacities \subseteq Nat \ {0}
    /\ MaxRestarts \in Nat

VARIABLES
    ops,            \* the committed operations; the i-th carries embedding i
    at,             \* how many this process has been handed
    kvdb,           \* the feature that Put left under an item, or Nil
    indexBuilt, serverMtx,  \* m_indexBuilt; who holds KvServer::m_mtx
    slots,          \* hnswlib: the elements, in the order of their internal ids
    lookup,         \* hnswlib: label_lookup_, 0 for a label that is not there
    maxElements,
    labelToItemId, activeLabels, deletedItems,
    mtx,            \* who holds RecallEngine::m_mtx
    work,           \* work[w]: where thread w is, and on which item
    search,         \* search[t]: the Search that thread t handles
    dead, restarts

graphVars  == <<slots, lookup>>
tableVars  == <<labelToItemId, activeLabels, deletedItems>>
serverVars == <<ops, at, kvdb, indexBuilt, maxElements>>
recallVars == <<serverVars, serverMtx, graphVars, tableVars, mtx, work, search,
                dead, restarts>>

Worker   == Searcher \cup {Applier}
Idle     == [pc |-> "idle", item |-> Nil, vec |-> 0, existed |-> FALSE]
NoSearch == [todo |-> {}, enough |-> FALSE, exact |-> FALSE, knn |-> {},
             delSet |-> {}, found |-> {}, raced |-> FALSE, gone |-> {}, steady |-> {}]

At(w, pc)     == ~dead /\ work[w].pc = pc
GoesOn(w, pc) == work' = [work EXCEPT ![w].pc = pc]

\* After a point is in, Apply wakes its RPC and the build visits the next item.
AfterInsert(w) == IF w = Applier THEN "wake" ELSE "visit"

-----------------------------------------------------------------------------
(* Mutants *)

Mutant_KeepsHidden(x)   == deletedItems
Mutant_KeepsActive(x)   == activeLabels
Mutant_DeletesAll(x)    == "mark"
Mutant_NoFilter(x, t)   == TRUE
Mutant_KeepsLock(t)     == serverMtx' = t
Mutant_NoUpdate(w)      == UNCHANGED graphVars

-----------------------------------------------------------------------------
(* hnswlib, with replacement of deleted elements *)

\* addPoint(data, label): updates the element of the label or takes a new one.
\* It refuses an element that is marked deleted, and one more than fits.
AddThrows(x) ==
    IF lookup[x] = 0 THEN Len(slots) >= maxElements ELSE slots[lookup[x]].deleted

AddPoint(x, v) ==
    IF lookup[x] = 0
    THEN /\ slots'  = Append(slots, [label |-> x, vec |-> v, deleted |-> FALSE])
         /\ lookup' = [lookup EXCEPT ![x] = Len(slots) + 1]
    ELSE /\ slots'  = [slots EXCEPT ![lookup[x]].vec = v]
         /\ UNCHANGED lookup

Vacant == {n \in DOMAIN slots : slots[n].deleted}
Live   == DOMAIN slots \ Vacant

\* addPoint(data, label, true): some deleted element becomes the label's.  The
\* element that the label had before stays as it is.
ReplacePoint(n, x, v) ==
    /\ slots'  = [slots EXCEPT ![n] = [label |-> x, vec |-> v, deleted |-> FALSE]]
    /\ lookup' = [lookup EXCEPT ![slots[n].label] = 0, ![x] = n]

MarkThrows(x) == lookup[x] # 0 => slots[lookup[x]].deleted
MarkDelete(x) == slots' = [slots EXCEPT ![lookup[x]].deleted = TRUE]

\* An exception leaves the thread and ends the process.
Die == dead' = TRUE /\ UNCHANGED <<graphVars, tableVars, mtx, work>>

-----------------------------------------------------------------------------
(* RecallEngine: addPoint of the build, upsertPoint and deletePoint of Apply *)

\* m_activeLabels.count(label), under m_labelMtx alone.
Existed(x) == x \in activeLabels

\* deletePoint returns if the label is not there.
DeleteGoesOn(x) == IF Existed(x) THEN "mark" ELSE "wake"

\* m_deletedItems.erase(itemId).
Unhide(x) == deletedItems \ {x}

\* m_activeLabels.erase(label).
Forget(x) == activeLabels \ {x}

\* The first section: addPoint ends if the label is there, the other two
\* remember it.
CheckLabel(w) ==
    LET x == work[w].item IN
    /\ At(w, "check")
    /\ work' = [work EXCEPT ![w].existed = Existed(x), ![w].pc =
            CASE w # Applier -> IF Existed(x) THEN "visit" ELSE "enter"
              [] w = Applier /\ ops[at].kind = "PutFeature"    -> "enter"
              [] w = Applier /\ ops[at].kind = "DeleteFeature" -> DeleteGoesOn(x)]
    /\ UNCHANGED <<serverVars, serverMtx, graphVars, tableVars, mtx, search,
                   dead, restarts>>

\* m_mtx is taken and the item is no longer hidden.
InsertEnter(w) ==
    /\ At(w, "enter") /\ mtx = Nil
    /\ mtx' = w
    /\ deletedItems' = Unhide(work[w].item)
    /\ GoesOn(w, "label")
    /\ UNCHANGED <<serverVars, serverMtx, graphVars, labelToItemId, activeLabels,
                   search, dead, restarts>>

InsertLabel(w) ==
    LET x == work[w].item IN
    /\ At(w, "label")
    /\ labelToItemId' = labelToItemId \cup {x}
    /\ activeLabels' = IF work[w].existed THEN activeLabels ELSE activeLabels \cup {x}
    /\ GoesOn(w, "insert")
    /\ UNCHANGED <<serverVars, serverMtx, graphVars, deletedItems, mtx, search,
                   dead, restarts>>

\* m_index->addPoint of upsertPoint for a label that was there.
UpsertExisting(w) ==
    LET x == work[w].item IN
    IF Vacant = {} THEN AddPoint(x, work[w].vec)
    ELSE \E n \in Vacant : ReplacePoint(n, x, work[w].vec)

\* m_index->addPoint, and m_mtx is released.
InsertPoint(w) ==
    LET x       == work[w].item
        replace == work[w].existed /\ Vacant # {}
    IN  /\ At(w, "insert")
        /\ \/ /\ ~replace /\ AddThrows(x)
              /\ Die
           \/ /\ replace \/ ~AddThrows(x)
              /\ IF work[w].existed THEN UpsertExisting(w) ELSE AddPoint(x, work[w].vec)
              /\ mtx' = Nil
              /\ GoesOn(w, AfterInsert(w))
              /\ UNCHANGED <<tableVars, dead>>
        /\ UNCHANGED <<serverVars, serverMtx, search, restarts>>

\* deletePoint: the element is marked, the item hidden, its label forgotten.
DeleteMark ==
    LET x == work[Applier].item IN
    /\ At(Applier, "mark") /\ mtx = Nil
    /\ \/ MarkThrows(x) /\ Die
       \/ /\ ~MarkThrows(x) /\ MarkDelete(x)
          /\ mtx' = Applier
          /\ GoesOn(Applier, "hide")
          /\ UNCHANGED <<lookup, tableVars, dead>>
    /\ UNCHANGED <<serverVars, serverMtx, search, restarts>>

DeleteHide ==
    /\ At(Applier, "hide")
    /\ deletedItems' = deletedItems \cup {work[Applier].item}
    /\ GoesOn(Applier, "forget")
    /\ UNCHANGED <<serverVars, serverMtx, graphVars, labelToItemId, activeLabels,
                   mtx, search, dead, restarts>>

DeleteForget ==
    /\ At(Applier, "forget")
    /\ activeLabels' = Forget(work[Applier].item)
    /\ mtx' = Nil
    /\ GoesOn(Applier, "wake")
    /\ UNCHANGED <<serverVars, serverMtx, graphVars, labelToItemId, deletedItems,
                   search, dead, restarts>>

-----------------------------------------------------------------------------
(* Apply *)

Operation == [kind : {"Put", "PutFeature", "DeleteFeature"}, item : Item]

\* The log may grow by op.
MayCommit(op) ==
    \E f \in Feeds : Len(ops) < Len(f) /\ Append(ops, op) = SubSeq(f, 1, Len(ops) + 1)

\* The next operation: one that was committed before, after a restart, or a new
\* one.  Put goes to the SkipList alone, the features to the index alone.
ApplyTake(op) ==
    /\ At(Applier, "idle")
    /\ \/ at < Len(ops) /\ op = ops[at + 1] /\ UNCHANGED ops
       \/ at = Len(ops) /\ MayCommit(op) /\ ops' = Append(ops, op)
    /\ at' = at + 1
    /\ kvdb' = IF op.kind = "Put" THEN [kvdb EXCEPT ![op.item] = at + 1] ELSE kvdb
    /\ work' = [work EXCEPT ![Applier] =
                    [pc |-> IF op.kind = "Put" THEN "wake" ELSE "check",
                     item |-> op.item, vec |-> at + 1, existed |-> FALSE]]
    /\ search' = [t \in Searcher |-> IF op.kind = "DeleteFeature"
                    THEN [search[t] EXCEPT !.steady = @ \ {op.item}]
                    ELSE [search[t] EXCEPT !.gone   = @ \ {op.item}]]
    /\ UNCHANGED <<indexBuilt, maxElements, serverMtx, graphVars, tableVars, mtx,
                   dead, restarts>>

\* waitApplyCh is asked under KvServer::m_mtx, which the build holds throughout.
ApplyWake ==
    /\ At(Applier, "wake") /\ serverMtx = Nil
    /\ work' = [work EXCEPT ![Applier] = Idle]
    /\ UNCHANGED <<serverVars, serverMtx, graphVars, tableVars, mtx, search, dead,
                   restarts>>

-----------------------------------------------------------------------------
(* What the log says about an item: the reference for the properties *)

Applied == IF work[Applier].pc \in {"idle", "wake"} THEN at ELSE at - 1

FeatureOps(x, n) == {i \in 1..n : ops[i].item = x /\ ops[i].kind # "Put"}
LastOf(S)        == CHOOSE i \in S : \A j \in S : j <= i
Inserted(x)      == LET S == FeatureOps(x, Applied)
                    IN  S # {} /\ ops[LastOf(S)].kind = "PutFeature"
Deleted(x)       == LET S == FeatureOps(x, Applied)
                    IN  S # {} /\ ops[LastOf(S)].kind = "DeleteFeature"

-----------------------------------------------------------------------------
(* Search *)

\* The number asked for, brought into range.
TopK(k) == IF k <= 0 THEN 10 ELSE IF k > 100 THEN 100 ELSE k

\* The handler begins; m_indexBuilt is first read without the lock.
SearchStart(t) ==
    /\ At(t, "idle")
    /\ GoesOn(t, IF indexBuilt THEN "size" ELSE "build")
    /\ search' = [search EXCEPT ![t] = [NoSearch EXCEPT
            !.gone = {x \in Item : Deleted(x) /\ kvdb[x] = Nil
                                   /\ work[Applier].item # x},
            !.steady = {x \in Item : Inserted(x) /\ ~(work[Applier].item = x
                                   /\ ops[at].kind = "DeleteFeature")}]]
    /\ UNCHANGED <<serverVars, serverMtx, graphVars, tableVars, mtx, dead, restarts>>

\* buildIndexIfNeeded holds KvServer::m_mtx from here to the end of the build.
BuildEnter(t) ==
    /\ At(t, "build") /\ serverMtx = Nil
    /\ \/ /\ indexBuilt
          /\ GoesOn(t, "size")
          /\ UNCHANGED <<serverMtx, search>>
       \/ /\ ~indexBuilt
          /\ GoesOn(t, "visit")
          /\ serverMtx' = t
          /\ search' = [search EXCEPT ![t].todo = Item]
    /\ UNCHANGED <<serverVars, graphVars, tableVars, mtx, dead, restarts>>

\* foreach comes to an item; what is there now is what addPoint gets.
BuildVisit(t, x) ==
    /\ At(t, "visit") /\ x \in search[t].todo
    /\ search' = [search EXCEPT ![t].todo = @ \ {x}]
    /\ work' = IF kvdb[x] = Nil THEN work
               ELSE [work EXCEPT ![t] = [pc |-> "check", item |-> x,
                                         vec |-> kvdb[x], existed |-> FALSE]]
    /\ UNCHANGED <<serverVars, serverMtx, graphVars, tableVars, mtx, dead, restarts>>

\* The lock of the server is released when the build is over.
BuildUnlock(t) == serverMtx' = Nil

BuildDone(t) ==
    /\ At(t, "visit") /\ search[t].todo = {}
    /\ indexBuilt' = TRUE
    /\ BuildUnlock(t)
    /\ work' = [work EXCEPT ![t] = [Idle EXCEPT !.pc = "size"]]
    /\ UNCHANGED <<ops, at, kvdb, maxElements, graphVars, tableVars, mtx, search,
                   dead, restarts>>

\* size() is asked first, under m_mtx.
SearchSize(t) ==
    /\ At(t, "size") /\ mtx = Nil
    /\ GoesOn(t, IF slots = <<>> THEN "done" ELSE "knn")
    /\ UNCHANGED <<serverVars, serverMtx, graphVars, tableVars, mtx, search, dead,
                   restarts>>

\* How many elements a search that misses none returns.
AllWanted(k) == IF Cardinality(Live) < k THEN Cardinality(Live) ELSE k

\* searchTopK: no more than that many of the elements that are not marked
\* deleted.  The walk of searchKnn through the graph is approximate and may miss
\* any; the Search keeps whether it asked for all, and whether it missed none.
SearchKnn(t, k, S) ==
    /\ At(t, "knn") /\ mtx = Nil
    /\ Cardinality(S) <= TopK(k)
    /\ search' = [search EXCEPT ![t].knn = {slots[n].label : n \in S},
                                ![t].enough = TopK(k) >= Cardinality(Live),
                                ![t].exact = (Cardinality(S) = AllWanted(TopK(k)))]
    /\ GoesOn(t, "copy")
    /\ UNCHANGED <<serverVars, serverMtx, graphVars, tableVars, mtx, dead, restarts>>

SearchCopy(t) ==
    /\ At(t, "copy")
    /\ search' = [search EXCEPT ![t].delSet = deletedItems]
    /\ GoesOn(t, "resolve")
    /\ UNCHANGED <<serverVars, serverMtx, graphVars, tableVars, mtx, dead, restarts>>

\* delSet.find(it->second).
Shown(x, t) == x \notin search[t].delSet

\* m_labelToItemId is read without m_mtx.  While another thread puts a new label
\* into it, a label that is there may be missed.  The list of labels and the copy
\* of m_deletedItems end with searchTopK.
Racing == \E w \in Worker : work[w].pc = "label" /\ work[w].item \notin labelToItemId

SearchResolve(t, seen) ==
    /\ At(t, "resolve")
    /\ seen \subseteq labelToItemId /\ (~Racing => seen = labelToItemId)
    /\ search' = [search EXCEPT ![t].found = {x \in search[t].knn \cap seen : Shown(x, t)},
                                ![t].raced = Racing,
                                ![t].knn = {}, ![t].delSet = {}]
    /\ GoesOn(t, "done")
    /\ UNCHANGED <<serverVars, serverMtx, graphVars, tableVars, mtx, dead, restarts>>

SearchReply(t) ==
    /\ At(t, "done")
    /\ work' = [work EXCEPT ![t] = Idle]
    /\ search' = [search EXCEPT ![t] = NoSearch]
    /\ UNCHANGED <<serverVars, serverMtx, graphVars, tableVars, mtx, dead, restarts>>

-----------------------------------------------------------------------------

RecallInit ==
    /\ ops = <<>> /\ at = 0
    /\ kvdb = [x \in Item |-> Nil]
    /\ indexBuilt = FALSE /\ serverMtx = Nil
    /\ slots = <<>> /\ lookup = [x \in Item |-> 0]
    /\ maxElements \in Capacities
    /\ labelToItemId = {} /\ activeLabels = {} /\ deletedItems = {}
    /\ mtx = Nil
    /\ work = [w \in Worker |-> Idle]
    /\ search = [t \in Searcher |-> NoSearch]
    /\ dead = FALSE /\ restarts = 0

\* The process ends, killed or by an exception; the new one is handed the log
\* from its start.
RecallRestart ==
    /\ restarts < MaxRestarts /\ restarts' = restarts + 1
    /\ at' = 0 /\ kvdb' = [x \in Item |-> Nil]
    /\ indexBuilt' = FALSE /\ serverMtx' = Nil
    /\ slots' = <<>> /\ lookup' = [x \in Item |-> 0]
    /\ labelToItemId' = {} /\ activeLabels' = {} /\ deletedItems' = {}
    /\ mtx' = Nil
    /\ work' = [w \in Worker |-> Idle]
    /\ search' = [t \in Searcher |-> NoSearch]
    /\ dead' = FALSE
    /\ UNCHANGED <<ops, maxElements>>

EngineStep(w) == CheckLabel(w) \/ InsertEnter(w) \/ InsertLabel(w) \/ InsertPoint(w)
DeleteStep    == DeleteMark \/ DeleteHide \/ DeleteForget
BuildStep(t)  == BuildEnter(t) \/ BuildDone(t) \/ \E x \in Item : BuildVisit(t, x)
AnswerStep(t) ==
    \/ SearchSize(t) \/ SearchCopy(t) \/ SearchReply(t)
    \/ \E k \in TopKs, S \in SUBSET Live : SearchKnn(t, k, S)
    \/ \E seen \in SUBSET Item : SearchResolve(t, seen)

RecallNext ==
    \/ \E w \in Worker : EngineStep(w)
    \/ DeleteStep \/ ApplyWake \/ RecallRestart
    \/ \E op \in Operation : ApplyTake(op)
    \/ \E t \in Searcher : SearchStart(t) \/ BuildStep(t) \/ AnswerStep(t)

RecallSpec == RecallInit /\ [][RecallNext]_recallVars

-----------------------------------------------------------------------------
(* Properties *)

\* An item deleted before a Search began, and not inserted since, is not among
\* what it returns, although its vectors stay in the graph.
SearchHidesDeleted ==
    \A t \in Searcher :
        work[t].pc = "done" => search[t].found \cap search[t].gone = {}

\* An item that was in the index before a Search began, and is not deleted while
\* it runs, is found, whatever is inserted, replaced or built meanwhile: if the
\* Search asks for as many as are live in the graph, if the walk of hnswlib
\* missed none of those, which is assumed here and not promised by it, and
\* unless m_labelToItemId changed under its eyes.
SearchFindsSteady ==
    \A t \in Searcher :
        work[t].pc = "done" /\ search[t].enough /\ search[t].exact /\ ~search[t].raced
            => search[t].steady \subseteq search[t].found

\* Whenever m_mtx is free, m_activeLabels holds exactly the labels whose element
\* is in the graph and not marked deleted: upsertPoint and deletePoint, which go
\* by m_activeLabels, meet the graph they expect.
ActiveMatchesGraph ==
    mtx = Nil /\ ~dead =>
        \A x \in Item : x \in activeLabels <=>
            lookup[x] # 0 /\ ~slots[lookup[x]].deleted

\* Between operations the index holds, for an item that is in no SkipList, the
\* embedding of its last PutFeature, and nothing after a DeleteFeature; and no
\* second element of the item, unless something was deleted before.
IndexFollowsLog ==
    At(Applier, "idle") /\ mtx = Nil =>
        /\ \A x \in Item : kvdb[x] = Nil =>
              /\ Inserted(x) => /\ x \in activeLabels
                                /\ slots[lookup[x]].vec = LastOf(FeatureOps(x, at))
              /\ ~Inserted(x) => x \notin activeLabels
        /\ (\A i \in 1..at : ops[i].kind # "DeleteFeature") =>
              \A m, n \in Live : slots[m].label = slots[n].label => m = n

\* An exception ends the process only when the graph is full, or when an item
\* is inserted, by PutFeature or by the build, after it was deleted.
DeathHasCause ==
    dead =>
        \/ Len(slots) >= maxElements
        \/ \E i \in 1..at : /\ ops[i].kind = "DeleteFeature"
                            /\ \/ kvdb[ops[i].item] # Nil
                               \/ \E j \in i+1..at : ops[j] = [kind |-> "PutFeature",
                                                               item |-> ops[i].item]

\* No thread keeps a lock it is done with: who holds m_mtx of the engine waits
\* for nothing, and who holds m_mtx of the server waits for the engine's at most,
\* so that the threads cannot wait for each other.
LocksInOrder ==
    /\ mtx # Nil => work[mtx].pc \in {"label", "insert", "hide", "forget"}
    /\ serverMtx # Nil =>
          work[serverMtx].pc \in {"visit", "check", "enter", "label", "insert"}

=============================================================================

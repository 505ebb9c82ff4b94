------------------------------ MODULE MCRecall ------------------------------
(***************************************************************************)
(* Instances of RecallEngine for TLC: what is committed.                   *)
(***************************************************************************)
EXTENDS RecallEngine, TLC

CONSTANTS x1, x2

Insert(x) == [kind |-> "PutFeature", item |-> x]
Delete(x) == [kind |-> "DeleteFeature", item |-> x]
Store(x)  == [kind |-> "Put", item |-> x]

\* Any two operations after a deletion, or after an item is in the SkipList.
FeatureFeeds ==
    {p \o f : p \in {<<Insert(x1), Insert(x2), Delete(x2)>>, <<Store(x1)>>},
              f \in [1..2 -> {Insert(x1), Insert(x2), Delete(x1), Delete(x2)}]}

ThreadsAlike == Permutations(Searcher)

=============================================================================

------------------------------- MODULE MCRaft -------------------------------
(***************************************************************************)
(* Instances of Raft for TLC.  Servers and commands are interchangeable as *)
(* far as Campaigns does not tell them apart: no definition of Raft orders *)
(* them.                                                                   *)
(***************************************************************************)
EXTENDS Raft, TLC

CONSTANTS s1, s2, s3

\* Any node may campaign in terms 1 and 2.
TwoTerms == Server \X (1..2)
\* s1 campaigns once: there is one leader at most.
StableLeader == {<<s1, 1>>}
\* s1 campaigns in term 1, s2 in term 2.
LeaderChange == {<<s1, 1>>, <<s2, 2>>}

\* Every Leader takes operations up to index 1 or 2, or none.
NoRequest   == {}
OneRequest  == Server \X {1}
TwoRequests == Server \X (1..2)

\* A heartbeat leaves when no other call, or at most one, is in progress, or
\* there are none, or only s2 has one.
NoBeat     == {}
LoneBeat   == Server \X {1}
PairBeat   == Server \X {1, 2}
SecondBeat == {<<s2, 1>>}

CommandsAlike == Permutations(Command)
AllAlike    == Permutations(Server) \cup Permutations(Command)
OthersAlike == Permutations(Server \ {s1}) \cup Permutations(Command)

\* The peers of a stable leader are alike, so one of them stands for both.
FairSpec == Spec /\ FairTo(s1, s2)

\* Under FairSpec, what s1 has committed is applied by s2 once s2 holds it.
CommitSpreads == CommitReaches(s1, s2)

\* Under FairSpec, what s1 appends to its log arrives in the log of s2.
EntriesReachPeer == EntriesReach(s1, s2)

=============================================================================

--------------------------- MODULE ElectionProofs ---------------------------
(***************************************************************************)
(* Proofs about the elections of Raft: one vote per node and term, one     *)
(* winner per term, nobody wins a term twice.                              *)
(***************************************************************************)
EXTENDS RaftProofs

-----------------------------------------------------------------------------
(* Counting *)

\* The cluster and its majority are numbers, and two majorities are more than
\* the cluster.
LEMMA MajorityType ==
    /\ IsFiniteSet(Server) /\ Cardinality(Server) \in Nat /\ Majority \in Nat
    /\ Majority >= 1 /\ Majority + Majority > Cardinality(Server)
<1>1. IsFiniteSet(Server) /\ Cardinality(Server) \in Nat
  BY ServerAssumption, FS_CardinalityType
<1> QED BY <1>1 DEF Majority

\* A set of servers is no larger than a set it is part of.
LEMMA ServerSubset ==
    ASSUME NEW S \in SUBSET Server, NEW T \in SUBSET S
    PROVE  /\ IsFiniteSet(S) /\ IsFiniteSet(T)
           /\ Cardinality(S) \in Nat /\ Cardinality(T) \in Nat
           /\ Cardinality(T) <= Cardinality(S)
<1>1. IsFiniteSet(S)
  BY MajorityType, FS_Subset
<1>2. IsFiniteSet(T) /\ Cardinality(T) <= Cardinality(S)
  BY <1>1, FS_Subset
<1> QED BY <1>1, <1>2, FS_CardinalityType

-----------------------------------------------------------------------------
(* Steps that add no vote and no winner *)

\* Terms move forward; within a term a vote stays and nobody becomes Leader.
TermsAdvance ==
    \A x \in Server :
        /\ currentTerm'[x] \in Nat /\ currentTerm'[x] >= currentTerm[x]
        /\ currentTerm'[x] = currentTerm[x] =>
            /\ votedFor'[x] = votedFor[x]
            /\ status'[x] = "Leader" => status[x] = "Leader"
        /\ currentTerm'[x] # currentTerm[x] => status'[x] # "Leader"

\* A step that grants no vote, lowers no term and changes no vote within a
\* term keeps the votes remembered.
LEMMA RememberedKept ==
    ASSUME TypeOK, VotesRemembered, TermsAdvance, UNCHANGED votes
    PROVE  VotesRemembered'
<1> SUFFICES ASSUME NEW v \in votes
             PROVE  /\ v.term <= currentTerm'[v.voter]
                    /\ v.term = currentTerm'[v.voter] => votedFor'[v.voter] = v.cand
  BY DEF VotesRemembered
<1>1. v \in [voter : Server, term : Nat, cand : Server]
  BY DEF TypeOK
<1>2. v.voter \in Server /\ v.term \in Nat
  BY <1>1
<1>3. /\ currentTerm[v.voter] \in Nat /\ currentTerm'[v.voter] \in Nat
      /\ currentTerm'[v.voter] >= currentTerm[v.voter]
      /\ currentTerm'[v.voter] = currentTerm[v.voter] =>
            votedFor'[v.voter] = votedFor[v.voter]
  BY <1>2 DEF TypeOK, TermsAdvance
<1>4. /\ v.term <= currentTerm[v.voter]
      /\ v.term = currentTerm[v.voter] => votedFor[v.voter] = v.cand
  BY DEF VotesRemembered
<1> QED BY <1>2, <1>3, <1>4

\* More votes and later terms: the winners still have their majorities.
LEMMA WinnersKept ==
    ASSUME TypeOK, WinnersHaveMajority, votes \subseteq votes',
           \A x \in Server : currentTerm'[x] \in Nat
                             /\ currentTerm'[x] >= currentTerm[x],
           NEW w \in won
    PROVE  /\ w.term <= currentTerm'[w.node]
           /\ Cardinality({v \in Server :
                [voter |-> v, term |-> w.term, cand |-> w.node] \in votes'})
              >= Majority
<1> DEFINE T == Voters(w.node, w.term)
           S == {v \in Server :
                   [voter |-> v, term |-> w.term, cand |-> w.node] \in votes'}
<1>1. w \in [node : Server, term : Nat]
  BY DEF TypeOK
<1>2. w.node \in Server /\ w.term \in Nat
  BY <1>1
<1>3. currentTerm[w.node] \in Nat
  BY <1>2 DEF TypeOK
<1>4. w.term <= currentTerm[w.node] /\ Cardinality(T) >= Majority
  BY DEF WinnersHaveMajority
<1>5. S \in SUBSET Server /\ T \in SUBSET S
  BY DEF Voters
<1> HIDE DEF S, T
<1>6. Cardinality(S) \in Nat /\ Cardinality(T) \in Nat
      /\ Cardinality(T) <= Cardinality(S)
  BY <1>5, ServerSubset
<1>7. Cardinality(S) >= Majority
  BY <1>4, <1>6, MajorityType
<1>8. w.term <= currentTerm'[w.node]
  BY <1>2, <1>3, <1>4
<1> QED BY <1>7, <1>8 DEF S

\* A step that lowers no term and elects nobody keeps the majorities.
LEMMA SameWinners ==
    ASSUME TypeOK, WinnersHaveMajority, votes \subseteq votes',
           \A x \in Server : currentTerm'[x] \in Nat
                             /\ currentTerm'[x] >= currentTerm[x],
           UNCHANGED won
    PROVE  WinnersHaveMajority'
  BY WinnersKept DEF WinnersHaveMajority, Voters

\* A step that makes nobody Leader, and moves no Leader to another term,
\* keeps every Leader a winner.
LEMMA LeadersKept ==
    ASSUME TypeOK, LeaderHasWon, TermsAdvance, UNCHANGED won
    PROVE  LeaderHasWon'
  BY DEF LeaderHasWon, TermsAdvance

\* The clause of CountedVotes for one candidacy.
Counted(s, e, voteSet, wonSet, term) ==
    /\ e.term <= term
    /\ e.voteNum <= Cardinality({v \in Server \ e.todo :
            [voter |-> v, term |-> e.term, cand |-> s] \in voteSet})
    /\ e.voteNum + Cardinality(e.todo) <= Cardinality(Server)
    /\ [node |-> s, term |-> e.term] \in wonSet =>
        e.voteNum + Cardinality(e.todo) < Majority

\* CountedVotes says the clause Counted of every node that is still asking.
LEMMA CountedClause ==
    /\ CountedVotes <=> \A x \in Server : elect[x].peer # Nil =>
         /\ elect[x].peer \in elect[x].todo
         /\ Counted(x, elect[x], votes, won, currentTerm[x])
    /\ CountedVotes' <=> \A x \in Server : elect'[x].peer # Nil =>
         /\ elect'[x].peer \in elect'[x].todo
         /\ Counted(x, elect'[x], votes', won', currentTerm'[x])
  BY DEF CountedVotes, Counted, Granted

\* A candidacy stays well counted while votes and terms grow.
LEMMA CountedGrows ==
    ASSUME NEW s \in Server, NEW e \in Election, NEW V, NEW W, NEW X \in SUBSET W,
           NEW t \in Nat, NEW u \in Nat, t <= u,
           Counted(s, e, V, W, t), V \subseteq votes'
    PROVE  Counted(s, e, votes', X, u)
<1> DEFINE T == {v \in Server \ e.todo :
                   [voter |-> v, term |-> e.term, cand |-> s] \in V}
           S == {v \in Server \ e.todo :
                   [voter |-> v, term |-> e.term, cand |-> s] \in votes'}
<1>1. e.term \in Nat /\ e.voteNum \in Nat
  BY DEF Election
<1>2. S \in SUBSET Server /\ T \in SUBSET S
  OBVIOUS
<1>3. e.voteNum <= Cardinality(T)
  BY DEF Counted
<1> HIDE DEF S, T
<1>4. Cardinality(S) \in Nat /\ Cardinality(T) \in Nat
      /\ Cardinality(T) <= Cardinality(S)
  BY <1>2, ServerSubset
<1>5. e.voteNum <= Cardinality(S)
  BY <1>1, <1>3, <1>4
<1>6. e.term <= u
  BY <1>1 DEF Counted
<1> QED BY <1>5, <1>6 DEF Counted, S

\* The candidacies of the nodes that go on as before, or end.
LEMMA CountedKept ==
    ASSUME TypeOK, CountedVotes, votes \subseteq votes', NEW x \in Server,
           currentTerm'[x] \in Nat, currentTerm'[x] >= currentTerm[x],
           won' \subseteq won \cup {w \in [node : Server, term : Nat] : w.node # x},
           elect'[x] \in {elect[x], NoElection}, elect'[x].peer # Nil
    PROVE  /\ elect'[x].peer \in elect'[x].todo
           /\ Counted(x, elect'[x], votes', won', currentTerm'[x])
<1>1. NoElection.peer = Nil
  BY DEF NoElection
<1>2. elect'[x] = elect[x] /\ elect[x].peer # Nil
  BY <1>1
<1>3. elect[x] \in Election /\ currentTerm[x] \in Nat
  BY DEF TypeOK
<1>4. elect[x].peer \in elect[x].todo
      /\ Counted(x, elect[x], votes, won, currentTerm[x])
  BY <1>2, CountedClause
<1>5. Counted(x, elect[x], votes', won, currentTerm'[x])
  BY <1>3, <1>4, CountedGrows
<1>6. Counted(x, elect[x], votes', won', currentTerm'[x])
  BY <1>5 DEF Counted
<1> QED BY <1>2, <1>4, <1>6

\* A step that adds no answer keeps every positive answer a vote.
LEMMA FewerVoteReplies ==
    ASSUME AnswersAreVotes, votes \subseteq votes', voteRep' \subseteq voteRep
    PROVE  AnswersAreVotes'
  BY DEF AnswersAreVotes

\* Steps that only move terms forward, and may end candidacies.
LEMMA QuietTerms ==
    ASSUME TypeOK, ElectionInv, TermsAdvance, UNCHANGED <<votes, won>>,
           \A x \in Server : elect'[x] \in {elect[x], NoElection},
           voteRep' \subseteq voteRep
    PROVE  ElectionInv'
<1>1. OneVotePerTerm' /\ AnswersAreVotes'
  BY FewerVoteReplies DEF ElectionInv, OneVotePerTerm
<1>2. \A x \in Server : currentTerm'[x] \in Nat
                        /\ currentTerm'[x] >= currentTerm[x]
  BY DEF TermsAdvance
<1>3. VotesRemembered' /\ WinnersHaveMajority' /\ LeaderHasWon'
  BY <1>2, RememberedKept, SameWinners, LeadersKept DEF ElectionInv
<1>4. CountedVotes'
  <2> SUFFICES ASSUME NEW x \in Server, elect'[x].peer # Nil
               PROVE  /\ elect'[x].peer \in elect'[x].todo
                      /\ Counted(x, elect'[x], votes', won', currentTerm'[x])
    BY CountedClause
  <2>1. won' \subseteq won \cup {w \in [node : Server, term : Nat] : w.node # x}
    OBVIOUS
  <2> QED BY <1>2, <2>1, CountedKept DEF ElectionInv
<1> QED BY <1>1, <1>3, <1>4 DEF ElectionInv

-----------------------------------------------------------------------------
(* The steps of an election keep ElectionInv *)

\* The other nodes go on; the candidate goes on with e.
LEMMA CandidacyGoesOn ==
    ASSUME TypeOK, CountedVotes, votes \subseteq votes', NEW s \in Server,
           \A x \in Server : currentTerm'[x] \in Nat
                             /\ currentTerm'[x] >= currentTerm[x],
           won' \subseteq won \cup {w \in [node : Server, term : Nat] : w.node = s},
           NEW e \in Election, NEW calls, AskNext(s, e, calls),
           Counted(s, e, votes', won', currentTerm'[s])
    PROVE  CountedVotes'
<1> SUFFICES ASSUME NEW x \in Server, elect'[x].peer # Nil
             PROVE  /\ elect'[x].peer \in elect'[x].todo
                    /\ Counted(x, elect'[x], votes', won', currentTerm'[x])
  BY CountedClause
<1>1. elect \in [Server -> Election]
  BY DEF TypeOK
<1>2. CASE x # s
  <2>1. elect'[x] = elect[x]
    BY <1>1, <1>2 DEF AskNext
  <2>2. won' \subseteq won \cup {w \in [node : Server, term : Nat] : w.node # x}
    BY <1>2
  <2> QED BY <2>1, <2>2, CountedKept
<1>3. CASE x = s
  <2>1. CASE elect' = [elect EXCEPT ![s] = NoElection]
    BY <1>1, <1>3, <2>1 DEF NoElection
  <2>2. CASE \E p \in e.todo : elect' = [elect EXCEPT ![s] = [e EXCEPT !.peer = p]]
    <3>1. PICK p \in e.todo : elect' = [elect EXCEPT ![s] = [e EXCEPT !.peer = p]]
      BY <2>2
    <3>2. elect'[x] = [e EXCEPT !.peer = p]
      BY <1>1, <1>3, <3>1
    <3>3. elect'[x].peer = p /\ elect'[x].todo = e.todo
          /\ elect'[x].term = e.term /\ elect'[x].voteNum = e.voteNum
      BY <3>2 DEF Election
    <3> QED BY <1>3, <3>3 DEF Counted
  <2> QED BY <2>1, <2>2 DEF AskNext
<1> QED BY <1>2, <1>3

\* The start of an election keeps the election invariant.
LEMMA DoElectionVotes ==
    ASSUME TypeOK, ElectionInv, NEW s \in Server, DoElection(s)
    PROVE  ElectionInv'
<1> DEFINE t == currentTerm[s] + 1
           mine == [voter |-> s, term |-> t, cand |-> s]
           e == [term |-> t, lastIndex |-> LastLogIndex(s),
                 lastTerm |-> LastLogTerm(s), todo |-> Server \ {s},
                 peer |-> Nil, voteNum |-> 1]
<1>1. /\ OneVotePerTerm /\ VotesRemembered /\ AnswersAreVotes /\ CountedVotes
      /\ WinnersHaveMajority /\ LeaderHasWon
  BY DEF ElectionInv
<1>2. /\ currentTerm \in [Server -> Nat] /\ status \in [Server -> Status]
      /\ votedFor \in [Server -> Server \cup {Nil}]
      /\ votes \subseteq [voter : Server, term : Nat, cand : Server]
      /\ won \subseteq [node : Server, term : Nat]
  BY DEF TypeOK
<1>3. /\ currentTerm' = [currentTerm EXCEPT ![s] = t]
      /\ votedFor' = [votedFor EXCEPT ![s] = s]
      /\ status' = [status EXCEPT ![s] = "Candidate"]
      /\ votes' = votes \cup {mine} /\ AskNext(s, e, voteReq)
      /\ UNCHANGED <<voteRep, won>>
  BY DEF DoElection
<1>4. t \in Nat /\ t > currentTerm[s]
  BY <1>2
<1>5. e \in Election
  BY <1>4, LastLogType DEF Election
<1>6. \A x \in Server : currentTerm'[x] \in Nat
                        /\ currentTerm'[x] >= currentTerm[x]
  BY <1>2, <1>3, <1>4
<1>7. \A v \in votes : v.voter = s => v.term < t
  <2> SUFFICES ASSUME NEW v \in votes, v.voter = s PROVE v.term < t
    OBVIOUS
  <2>1. v \in [voter : Server, term : Nat, cand : Server]
    BY <1>2
  <2>2. v.term \in Nat /\ v.term <= currentTerm[s]
    BY <1>1, <2>1 DEF VotesRemembered
  <2> QED BY <1>2, <1>4, <2>2
<1>8. OneVotePerTerm'
  <2> SUFFICES ASSUME NEW v \in votes', NEW w \in votes',
                      v.voter = w.voter, v.term = w.term
               PROVE  v.cand = w.cand
    BY DEF OneVotePerTerm
  <2>1. mine.voter = s /\ mine.term = t /\ mine.cand = s
    OBVIOUS
  <2>2. \A u \in votes : u.term \in Nat
    BY <1>2
  <2> HIDE DEF mine, t
  <2>3. CASE v \in votes /\ w \in votes
    BY <1>1, <2>3 DEF OneVotePerTerm
  <2>4. CASE v = mine /\ w \in votes
    BY <1>4, <1>7, <2>1, <2>2, <2>4
  <2>5. CASE v \in votes /\ w = mine
    BY <1>4, <1>7, <2>1, <2>2, <2>5
  <2>6. CASE v = mine /\ w = mine
    BY <2>6
  <2> QED BY <1>3, <2>3, <2>4, <2>5, <2>6
<1>9. VotesRemembered'
  <2> SUFFICES ASSUME NEW v \in votes'
               PROVE  /\ v.term <= currentTerm'[v.voter]
                      /\ v.term = currentTerm'[v.voter] =>
                            votedFor'[v.voter] = v.cand
    BY DEF VotesRemembered
  <2>1. CASE v = mine
    BY <1>2, <1>3, <1>4, <2>1
  <2>2. CASE v \in votes
    <3>1. v \in [voter : Server, term : Nat, cand : Server]
      BY <1>2, <2>2
    <3>2. v.voter \in Server /\ v.term \in Nat /\ v.term <= currentTerm[v.voter]
          /\ (v.term = currentTerm[v.voter] => votedFor[v.voter] = v.cand)
      BY <1>1, <2>2, <3>1 DEF VotesRemembered
    <3>3. CASE v.voter = s
      <4>1. v.term < t /\ currentTerm'[s] = t
        BY <1>2, <1>3, <1>7, <2>2, <3>3
      <4> HIDE DEF t
      <4> QED BY <1>4, <3>2, <3>3, <4>1
    <3>4. CASE v.voter # s
      BY <1>2, <1>3, <3>2, <3>4
    <3> QED BY <3>3, <3>4
  <2> QED BY <1>3, <2>1, <2>2
<1>10. AnswersAreVotes' /\ WinnersHaveMajority'
  <2>1. votes \subseteq votes' /\ voteRep' \subseteq voteRep /\ UNCHANGED won
    BY <1>3
  <2> QED BY <1>1, <1>6, <2>1, FewerVoteReplies, SameWinners
<1>11. LeaderHasWon'
  <2> SUFFICES ASSUME NEW x \in Server, status'[x] = "Leader"
               PROVE  [node |-> x, term |-> currentTerm'[x]] \in won
    BY <1>3 DEF LeaderHasWon
  <2>1. x # s /\ status[x] = "Leader" /\ currentTerm'[x] = currentTerm[x]
    BY <1>2, <1>3
  <2> QED BY <1>1, <2>1 DEF LeaderHasWon
<1>12. Counted(s, e, votes', won', currentTerm'[s])
  <2> DEFINE S == {v \in Server \ e.todo :
                     [voter |-> v, term |-> e.term, cand |-> s] \in votes'}
  <2>1. e.term = t /\ e.voteNum = 1 /\ e.todo = Server \ {s}
        /\ currentTerm'[s] = t
    BY <1>2, <1>3
  <2>2. S \in SUBSET Server /\ s \in S
    BY <1>3, <2>1
  <2>3. IsFiniteSet(S) /\ Cardinality(S) \in Nat /\ Cardinality(S) >= 1
    <3>1. {s} \in SUBSET S
      BY <2>2
    <3> HIDE DEF S
    <3> QED BY <2>2, <3>1, ServerSubset, FS_Singleton
  <2>4. Cardinality(Server \ {s}) = Cardinality(Server) - 1
    BY MajorityType, FS_RemoveElement
  <2>5. [node |-> s, term |-> t] \notin won
    <3> SUFFICES ASSUME [node |-> s, term |-> t] \in won PROVE FALSE
      OBVIOUS
    <3>1. t <= currentTerm[s]
      BY <1>1 DEF WinnersHaveMajority
    <3> QED BY <1>2, <1>4, <3>1
  <2> HIDE DEF e, t
  <2> QED BY <1>3, <1>4, <2>1, <2>3, <2>4, <2>5, MajorityType DEF Counted
<1>13. CountedVotes'
  <2> HIDE DEF e
  <2>1. won' \subseteq won \cup {w \in [node : Server, term : Nat] : w.node = s}
        /\ votes \subseteq votes'
    BY <1>3
  <2> QED BY <1>1, <1>3, <1>5, <1>6, <1>12, <2>1, CandidacyGoesOn
<1> QED BY <1>8, <1>9, <1>10, <1>11, <1>13 DEF ElectionInv

\* RequestVote1 keeps the election invariant.
LEMMA HandleRequestVoteVotes ==
    ASSUME TypeOK, ElectionInv, NEW m \in voteReq, HandleRequestVote(m)
    PROVE  ElectionInv'
<1> DEFINE s == m.dst
           newer == m.term > currentTerm[s]
           voted == IF newer THEN Nil ELSE votedFor[s]
           grant == /\ m.term >= currentTerm[s]
                    /\ UPtodata(s, m.lastIndex, m.lastTerm)
                    /\ MayVote(voted, m.src)
           vote == [voter |-> s, term |-> m.term, cand |-> m.src]
           rep == [src |-> m.src, dst |-> s, reqTerm |-> m.term,
                   term |-> Larger(m.term, currentTerm[s]), granted |-> grant]
<1>1. /\ OneVotePerTerm /\ VotesRemembered /\ AnswersAreVotes /\ CountedVotes
      /\ WinnersHaveMajority /\ LeaderHasWon
  BY DEF ElectionInv
<1>2. /\ currentTerm \in [Server -> Nat] /\ status \in [Server -> Status]
      /\ votedFor \in [Server -> Server \cup {Nil}]
      /\ votes \subseteq [voter : Server, term : Nat, cand : Server]
      /\ won \subseteq [node : Server, term : Nat] /\ voteReq \subseteq VoteReq
  BY DEF TypeOK
<1>3. s \in Server /\ m.src \in Server /\ m.term \in Nat /\ currentTerm[s] \in Nat
  BY <1>2 DEF VoteReq
<1>4. /\ status' = IF newer THEN [status EXCEPT ![s] = "Follower"] ELSE status
      /\ currentTerm' = [currentTerm EXCEPT ![s] = Larger(m.term, currentTerm[s])]
      /\ votedFor' = [votedFor EXCEPT ![s] = IF grant THEN m.src ELSE voted]
      /\ votes' = IF grant THEN votes \cup {vote} ELSE votes
      /\ voteRep' = IF Waits(m) THEN voteRep \cup {rep} ELSE voteRep
      /\ UNCHANGED <<elect, won>>
  BY DEF HandleRequestVote
<1>5. /\ currentTerm'[s] = Larger(m.term, currentTerm[s])
      /\ \A x \in Server \ {s} : /\ currentTerm'[x] = currentTerm[x]
                                 /\ votedFor'[x] = votedFor[x]
                                 /\ status'[x] = status[x]
      /\ votedFor'[s] = IF grant THEN m.src ELSE voted
  <2> HIDE DEF grant, voted, newer, s
  <2> QED BY <1>2, <1>3, <1>4
<1>6. /\ currentTerm'[s] \in Nat /\ currentTerm'[s] >= currentTerm[s]
      /\ newer => currentTerm'[s] = m.term
      /\ ~newer => currentTerm'[s] = currentTerm[s]
      /\ grant => currentTerm'[s] = m.term
      /\ newer <=> currentTerm'[s] # currentTerm[s]
  BY <1>3, <1>5 DEF Larger
\* A vote of s in its new term is one for whom it votes now.
<1>7. ASSUME NEW v \in votes, v.voter = s
      PROVE  /\ v.term <= currentTerm'[s] /\ v.term \in Nat
             /\ v.term = currentTerm'[s] => ~newer /\ votedFor'[s] = v.cand
             /\ grant /\ v.term = m.term => v.cand = m.src
  <2>1. v \in [voter : Server, term : Nat, cand : Server]
    BY <1>2
  <2>2. v.term \in Nat /\ v.cand \in Server /\ v.term <= currentTerm[s]
        /\ (v.term = currentTerm[s] => votedFor[s] = v.cand)
    BY <1>1, <1>7, <2>1 DEF VotesRemembered
  <2>3. v.term <= currentTerm'[s]
    BY <1>3, <1>6, <2>2
  <2>4. ASSUME v.term = currentTerm'[s]
        PROVE  ~newer /\ votedFor[s] = v.cand /\ voted = v.cand /\ v.cand # Nil
    <3>1. ~newer /\ v.term = currentTerm[s]
      BY <1>3, <1>6, <2>2, <2>4
    <3> QED BY <2>2, <3>1, NilAssumption
  <2>5. v.term = currentTerm'[s] /\ grant => v.cand = m.src
    BY <2>4 DEF MayVote
  <2>6. v.term = currentTerm'[s] => votedFor'[s] = v.cand
    BY <1>5, <2>4, <2>5
  <2> QED BY <1>6, <2>2, <2>3, <2>4, <2>5, <2>6
<1>8. vote.voter = s /\ vote.term = m.term /\ vote.cand = m.src
  OBVIOUS
<1> HIDE DEF s, newer, voted, grant
<1>9. OneVotePerTerm'
  <2> SUFFICES ASSUME NEW v \in votes', NEW w \in votes',
                      v.voter = w.voter, v.term = w.term
               PROVE  v.cand = w.cand
    BY DEF OneVotePerTerm
  <2> HIDE DEF vote
  <2>1. CASE v \in votes /\ w \in votes
    BY <1>1, <2>1 DEF OneVotePerTerm
  <2>2. CASE grant /\ v = vote /\ w \in votes
    BY <1>7, <1>8, <2>2
  <2>3. CASE grant /\ v \in votes /\ w = vote
    BY <1>7, <1>8, <2>3
  <2>4. CASE v = vote /\ w = vote
    BY <2>4
  <2> QED BY <1>4, <2>1, <2>2, <2>3, <2>4
<1>10. VotesRemembered'
  <2> SUFFICES ASSUME NEW v \in votes'
               PROVE  /\ v.term <= currentTerm'[v.voter]
                      /\ v.term = currentTerm'[v.voter] =>
                            votedFor'[v.voter] = v.cand
    BY DEF VotesRemembered
  <2>1. CASE grant /\ v = vote
    <3> HIDE DEF vote
    <3> QED BY <1>3, <1>5, <1>6, <1>8, <2>1
  <2>2. CASE v \in votes /\ v.voter = s
    BY <1>7, <2>2
  <2>3. CASE v \in votes /\ v.voter # s
    <3>1. v \in [voter : Server, term : Nat, cand : Server]
      BY <1>2, <2>3
    <3>2. v.voter \in Server \ {s}
      BY <2>3, <3>1
    <3> QED BY <1>1, <1>5, <2>3, <3>2 DEF VotesRemembered
  <2> HIDE DEF vote
  <2> QED BY <1>4, <2>1, <2>2, <2>3
<1>11. \A x \in Server : currentTerm'[x] \in Nat
                         /\ currentTerm'[x] >= currentTerm[x]
  BY <1>2, <1>5, <1>6
<1>12. votes \subseteq votes' /\ UNCHANGED won
  BY <1>4
<1>13. AnswersAreVotes'
  <2> SUFFICES ASSUME NEW r \in voteRep', r.granted
               PROVE  /\ r.term = r.reqTerm
                      /\ [voter |-> r.dst, term |-> r.reqTerm, cand |-> r.src]
                            \in votes'
    BY DEF AnswersAreVotes
  <2>1. CASE r \in voteRep
    BY <1>1, <1>12, <2>1 DEF AnswersAreVotes
  <2>2. CASE r = rep
    <3>1. grant /\ r.term = Larger(m.term, currentTerm[s]) /\ r.reqTerm = m.term
          /\ r.dst = s /\ r.src = m.src
      BY <2>2
    <3> QED BY <1>4, <1>5, <1>6, <3>1
  <2> HIDE DEF rep
  <2> QED BY <1>4, <2>1, <2>2
<1>14. WinnersHaveMajority'
  BY <1>1, <1>11, <1>12, SameWinners
<1>15. LeaderHasWon'
  <2> SUFFICES ASSUME NEW x \in Server, status'[x] = "Leader"
               PROVE  [node |-> x, term |-> currentTerm'[x]] \in won
    BY <1>12 DEF LeaderHasWon
  <2>1. status[x] = "Leader" /\ currentTerm'[x] = currentTerm[x]
    <3>1. CASE x = s
      <4>1. ~newer
        BY <1>2, <1>3, <1>4, <3>1
      <4> QED BY <1>4, <1>6, <3>1, <4>1
    <3>2. CASE x # s
      BY <1>5, <3>2
    <3> QED BY <3>1, <3>2
  <2> QED BY <1>1, <2>1 DEF LeaderHasWon
<1>16. CountedVotes'
  <2> SUFFICES ASSUME NEW x \in Server, elect'[x].peer # Nil
               PROVE  /\ elect'[x].peer \in elect'[x].todo
                      /\ Counted(x, elect'[x], votes', won', currentTerm'[x])
    BY CountedClause
  <2>1. won' \subseteq won \cup {w \in [node : Server, term : Nat] : w.node # x}
        /\ elect'[x] \in {elect[x], NoElection}
    BY <1>4
  <2> QED BY <1>1, <1>11, <1>12, <2>1, CountedKept
<1> QED BY <1>9, <1>10, <1>13, <1>14, <1>15, <1>16 DEF ElectionInv

\* A candidacy from which one peer is struck off: its votes are those before,
\* and the peer's if it has voted for the candidate.
LEMMA StrikePeer ==
    ASSUME TypeOK, CountedVotes, NEW s \in Server, elect[s].peer # Nil,
           NEW p, p = elect[s].peer
    PROVE  /\ elect[s] \in Election /\ p \in Server
           /\ elect[s].term <= currentTerm[s] /\ elect[s].voteNum \in Nat
           /\ elect[s].todo \ {p} \in SUBSET Server
           /\ Cardinality(elect[s].todo) \in Nat
           /\ Cardinality(elect[s].todo \ {p}) = Cardinality(elect[s].todo) - 1
           /\ elect[s].voteNum + Cardinality(elect[s].todo) <= Cardinality(Server)
           /\ [node |-> s, term |-> elect[s].term] \in won =>
                elect[s].voteNum + Cardinality(elect[s].todo) < Majority
           /\ LET G == {v \in Server \ (elect[s].todo \ {p}) :
                          [voter |-> v, term |-> elect[s].term, cand |-> s] \in votes}
              IN  /\ Cardinality(G) \in Nat /\ elect[s].voteNum <= Cardinality(G)
                  /\ [voter |-> p, term |-> elect[s].term, cand |-> s] \in votes
                     => elect[s].voteNum + 1 <= Cardinality(G)
<1> DEFINE todo == elect[s].todo
           T == Granted(s, elect[s])
           G == {v \in Server \ (todo \ {p}) :
                   [voter |-> v, term |-> elect[s].term, cand |-> s] \in votes}
<1>1. elect[s] \in Election
  BY DEF TypeOK
<1>2. todo \in SUBSET Server /\ elect[s].voteNum \in Nat
  BY <1>1 DEF Election
<1>3. /\ p \in todo /\ elect[s].term <= currentTerm[s]
      /\ elect[s].voteNum <= Cardinality(T)
      /\ elect[s].voteNum + Cardinality(todo) <= Cardinality(Server)
      /\ [node |-> s, term |-> elect[s].term] \in won =>
            elect[s].voteNum + Cardinality(todo) < Majority
  BY DEF CountedVotes
<1>4. /\ Cardinality(todo) \in Nat /\ Cardinality(todo \ {p}) = Cardinality(todo) - 1
  <2>1. IsFiniteSet(todo)
    BY <1>2, MajorityType, FS_Subset
  <2> QED BY <1>3, <2>1, FS_RemoveElement, FS_CardinalityType
<1>5. /\ G \in SUBSET Server /\ T \in SUBSET G /\ p \notin T
      /\ [voter |-> p, term |-> elect[s].term, cand |-> s] \in votes => p \in G
  BY <1>2, <1>3 DEF Granted
<1> HIDE DEF T, G
<1>6. /\ IsFiniteSet(G) /\ IsFiniteSet(T)
      /\ Cardinality(G) \in Nat /\ Cardinality(T) \in Nat
      /\ Cardinality(T) <= Cardinality(G)
  BY <1>5, ServerSubset
<1>7. elect[s].voteNum <= Cardinality(G)
  BY <1>2, <1>3, <1>6
<1>8. ASSUME [voter |-> p, term |-> elect[s].term, cand |-> s] \in votes
      PROVE  elect[s].voteNum + 1 <= Cardinality(G)
  <2>1. T \cup {p} \in SUBSET G
    BY <1>5, <1>8
  <2>2. Cardinality(T \cup {p}) = Cardinality(T) + 1
    BY <1>5, <1>6, FS_AddElement
  <2>3. Cardinality(T \cup {p}) <= Cardinality(G)
    BY <1>5, <2>1, ServerSubset
  <2> QED BY <1>2, <1>3, <1>6, <2>2, <2>3
<1> QED BY <1>1, <1>2, <1>3, <1>4, <1>6, <1>7, <1>8 DEF G

\* A failed RequestVote call keeps the election invariant.
LEMMA VoteRpcFailVotes ==
    ASSUME TypeOK, ElectionInv, NEW s \in Server, VoteRpcFail(s)
    PROVE  ElectionInv'
<1> DEFINE p == elect[s].peer
           e == [elect[s] EXCEPT !.todo = @ \ {p}]
<1>1. /\ OneVotePerTerm /\ VotesRemembered /\ AnswersAreVotes /\ CountedVotes
      /\ WinnersHaveMajority /\ LeaderHasWon
  BY DEF ElectionInv
<1>2. /\ p # Nil /\ voteRep' \subseteq voteRep
      /\ UNCHANGED <<currentTerm, votedFor, status, votes, won>>
  BY DEF VoteRpcFail, nodeVars, histVars
<1>3. PICK calls : AskNext(s, e, calls)
  BY DEF VoteRpcFail
<1>4. currentTerm \in [Server -> Nat]
  BY DEF TypeOK
<1>5. /\ OneVotePerTerm' /\ VotesRemembered' /\ WinnersHaveMajority'
      /\ LeaderHasWon' /\ AnswersAreVotes'
  BY <1>1, <1>2 DEF OneVotePerTerm, VotesRemembered, WinnersHaveMajority, Voters,
     LeaderHasWon, AnswersAreVotes
<1>6. elect[s] \in Election /\ elect[s].todo \ {p} \in SUBSET Server
  BY <1>1, <1>2, StrikePeer
<1>7. e \in Election /\ e.term = elect[s].term /\ e.voteNum = elect[s].voteNum
      /\ e.todo = elect[s].todo \ {p}
  BY <1>6 DEF Election
<1> HIDE DEF e
<1>8. Counted(s, e, votes, won, currentTerm[s])
  <2> DEFINE G == {v \in Server \ (elect[s].todo \ {p}) :
                     [voter |-> v, term |-> elect[s].term, cand |-> s] \in votes}
             n == Cardinality(elect[s].todo)
  <2>1. /\ elect[s].term <= currentTerm[s] /\ elect[s].voteNum \in Nat
        /\ n \in Nat /\ Cardinality(elect[s].todo \ {p}) = n - 1
        /\ elect[s].voteNum + n <= Cardinality(Server)
        /\ [node |-> s, term |-> elect[s].term] \in won =>
              elect[s].voteNum + n < Majority
        /\ elect[s].voteNum <= Cardinality(G)
    BY <1>1, <1>2, StrikePeer
  <2>2. {v \in Server \ e.todo :
            [voter |-> v, term |-> e.term, cand |-> s] \in votes} = G
    BY <1>7
  <2> HIDE DEF G, n, p
  <2>3. /\ e.voteNum + Cardinality(e.todo) <= Cardinality(Server)
        /\ [node |-> s, term |-> e.term] \in won =>
              e.voteNum + Cardinality(e.todo) < Majority
    BY <1>7, <2>1, MajorityType
  <2> QED BY <1>7, <2>1, <2>2, <2>3 DEF Counted
<1>9. CountedVotes'
  BY <1>1, <1>2, <1>3, <1>4, <1>7, <1>8, CandidacyGoesOn
<1> QED BY <1>5, <1>9 DEF ElectionInv

\* Counting an answer, and winning by it, keeps the election invariant.
LEMMA ReceiveVoteReplyVotes ==
    ASSUME TypeOK, ElectionInv, NEW m \in voteRep, ReceiveVoteReply(m)
    PROVE  ElectionInv'
<1> DEFINE s == m.src
           p == m.dst
           counted == m.term = currentTerm[s] /\ m.granted
           num == elect[s].voteNum + (IF counted THEN 1 ELSE 0)
           wins == counted /\ num >= Majority
           e == [elect[s] EXCEPT !.todo = @ \ {p},
                                 !.voteNum = VotesAfter(wins, num)]
           G == {v \in Server \ (elect[s].todo \ {p}) :
                   [voter |-> v, term |-> elect[s].term, cand |-> s] \in votes}
<1>1. /\ OneVotePerTerm /\ VotesRemembered /\ AnswersAreVotes /\ CountedVotes
      /\ WinnersHaveMajority /\ LeaderHasWon
  BY DEF ElectionInv
<1>2. /\ currentTerm \in [Server -> Nat] /\ status \in [Server -> Status]
      /\ votedFor \in [Server -> Server \cup {Nil}]
      /\ voteRep \subseteq VoteRep
  BY DEF TypeOK
<1>3. s \in Server /\ p \in Server /\ m.term \in Nat /\ p # Nil
      /\ currentTerm[s] \in Nat
  BY <1>2, NilAssumption DEF VoteRep
<1>4. /\ elect[s].peer = p /\ elect[s].term = m.reqTerm
      /\ voteRep' \subseteq voteRep /\ AskNext(s, e, voteReq) /\ UNCHANGED votes
  BY DEF ReceiveVoteReply
<1>5. /\ elect[s] \in Election
      /\ elect[s].term <= currentTerm[s] /\ elect[s].voteNum \in Nat
      /\ elect[s].todo \ {p} \in SUBSET Server
      /\ Cardinality(elect[s].todo) \in Nat
      /\ Cardinality(elect[s].todo \ {p}) = Cardinality(elect[s].todo) - 1
      /\ elect[s].voteNum + Cardinality(elect[s].todo) <= Cardinality(Server)
      /\ [node |-> s, term |-> elect[s].term] \in won =>
            elect[s].voteNum + Cardinality(elect[s].todo) < Majority
      /\ Cardinality(G) \in Nat /\ elect[s].voteNum <= Cardinality(G)
      /\ [voter |-> p, term |-> elect[s].term, cand |-> s] \in votes
            => elect[s].voteNum + 1 <= Cardinality(G)
  <2> HIDE DEF s, p
  <2> QED BY <1>1, <1>3, <1>4, StrikePeer
<1>6. counted => /\ elect[s].term = currentTerm[s]
                 /\ elect[s].voteNum + 1 <= Cardinality(G)
  BY <1>1, <1>4, <1>5 DEF AnswersAreVotes
<1>7. /\ num \in Nat /\ num <= Cardinality(G)
      /\ num + Cardinality(elect[s].todo \ {p}) <= Cardinality(Server)
      /\ [node |-> s, term |-> elect[s].term] \in won =>
            num + Cardinality(elect[s].todo \ {p}) < Majority
  <2> HIDE DEF G
  <2>1. CASE counted
    <3>1. num = elect[s].voteNum + 1
      BY <2>1
    <3> HIDE DEF num
    <3> QED BY <1>5, <1>6, <2>1, <3>1, MajorityType
  <2>2. CASE ~counted
    <3>1. num = elect[s].voteNum
      BY <1>5, <2>2
    <3> HIDE DEF num
    <3> QED BY <1>5, <2>2, <3>1, MajorityType
  <2> QED BY <2>1, <2>2
<1>8. /\ e \in Election /\ e.term = elect[s].term /\ e.todo = elect[s].todo \ {p}
      /\ (wins => e.voteNum = 0) /\ (~wins => e.voteNum = num)
  <2> HIDE DEF num, wins
  <2> QED BY <1>5, <1>7 DEF Election, VotesAfter
<1>9. wins => /\ elect[s].term = currentTerm[s] /\ Majority <= num
              /\ Majority <= Cardinality(G)
              /\ Cardinality(elect[s].todo \ {p}) < Majority
  <2>1. counted /\ num >= Majority =>
            num + Cardinality(elect[s].todo \ {p}) <= Cardinality(Server)
    BY <1>7
  <2>2. Cardinality(elect[s].todo \ {p}) \in Int
    BY <1>5
  <2> HIDE DEF num, counted, G
  <2> QED BY <1>5, <1>6, <1>7, <2>1, <2>2, MajorityType
\* The candidacy after the answer, whether or not it has won.
<1>10. ASSUME NEW W, NEW u \in Nat, currentTerm[s] <= u,
              W = won \/ (wins /\ W = won \cup {[node |-> s, term |-> currentTerm[s]]})
       PROVE  Counted(s, e, votes, W, u)
  <2>1. e.term \in Nat /\ e.term <= currentTerm[s] /\ e.voteNum \in Nat
    BY <1>5, <1>8 DEF Election
  <2>2. e.term <= u
    BY <1>3, <1>10, <2>1
  <2>3. {v \in Server \ e.todo :
            [voter |-> v, term |-> e.term, cand |-> s] \in votes} = G
    BY <1>8
  <2>4. Cardinality(e.todo) \in Nat
    <3>1. e.todo \in SUBSET Server
      BY <1>5, <1>8
    <3> QED BY <3>1, ServerSubset
  <2> HIDE DEF e, G
  <2>5. CASE wins
    <3>1. e.voteNum = 0 /\ Cardinality(e.todo) < Majority
      BY <1>8, <1>9, <2>5
    <3>2. Cardinality(e.todo) <= Cardinality(Server)
      BY <1>7, <1>8, <2>4, MajorityType
    <3>3. /\ e.voteNum <= Cardinality(G)
          /\ e.voteNum + Cardinality(e.todo) <= Cardinality(Server)
          /\ e.voteNum + Cardinality(e.todo) < Majority
      BY <1>5, <2>4, <3>1, <3>2
    <3> QED BY <2>2, <2>3, <3>3 DEF Counted
  <2>6. CASE ~wins
    <3>1. e.voteNum = num /\ W = won
      BY <1>8, <1>10, <2>6
    <3> HIDE DEF num, wins
    <3> QED BY <1>7, <1>8, <2>2, <2>3, <3>1 DEF Counted
  <2> QED BY <2>5, <2>6
<1>11. AnswersAreVotes' /\ OneVotePerTerm' /\ votes \subseteq votes'
  BY <1>1, <1>4 DEF AnswersAreVotes, OneVotePerTerm
<1>12. ASSUME \A x \in Server : currentTerm'[x] \in Nat
                                /\ currentTerm'[x] >= currentTerm[x],
              won' = won
              \/ (wins /\ won' = won \cup {[node |-> s, term |-> currentTerm[s]]})
       PROVE  CountedVotes'
  <2>1. Counted(s, e, votes', won', currentTerm'[s])
    <3>1. currentTerm'[s] \in Nat /\ currentTerm[s] <= currentTerm'[s]
      BY <1>3, <1>12
    <3>2. Counted(s, e, votes, won', currentTerm'[s])
      BY <1>10, <1>12, <3>1
    <3> QED BY <1>4, <3>2
  <2>2. won' \subseteq won \cup {w \in [node : Server, term : Nat] : w.node = s}
    BY <1>3, <1>12
  <2> HIDE DEF e, s
  <2> QED BY <1>1, <1>3, <1>4, <1>8, <1>11, <1>12, <2>1, <2>2, CandidacyGoesOn
<1>13. CASE BecomeLeader(s) /\ wins
  <2>1. /\ UNCHANGED <<currentTerm, votedFor>>
        /\ status' = [status EXCEPT ![s] = "Leader"]
        /\ won' = won \cup {[node |-> s, term |-> currentTerm[s]]}
    BY <1>13 DEF BecomeLeader
  <2>2. CountedVotes'
    BY <1>2, <1>12, <1>13, <2>1
  <2>3. VotesRemembered'
    BY <1>1, <1>4, <2>1 DEF VotesRemembered
  <2>4. LeaderHasWon'
    <3> SUFFICES ASSUME NEW x \in Server, status'[x] = "Leader"
                 PROVE  [node |-> x, term |-> currentTerm[x]] \in won'
      BY <2>1 DEF LeaderHasWon
    <3>1. CASE x = s
      BY <2>1, <3>1
    <3>2. CASE x # s
      <4>1. status[x] = "Leader"
        BY <1>2, <2>1, <3>2
      <4> QED BY <1>1, <2>1, <4>1 DEF LeaderHasWon
    <3> QED BY <3>1, <3>2
  <2>5. WinnersHaveMajority'
    <3> SUFFICES ASSUME NEW w \in won'
                 PROVE  /\ w.term <= currentTerm[w.node]
                        /\ Cardinality(Voters(w.node, w.term)) >= Majority
      BY <1>4, <2>1 DEF WinnersHaveMajority, Voters
    <3>1. CASE w \in won
      BY <1>1, <3>1 DEF WinnersHaveMajority
    <3>2. CASE w = [node |-> s, term |-> currentTerm[s]]
      <4>1. w.node = s /\ w.term = currentTerm[s] /\ elect[s].term = currentTerm[s]
        BY <1>9, <1>13, <3>2
      <4>2. Voters(s, elect[s].term) \in SUBSET Server
            /\ G \in SUBSET Voters(s, elect[s].term)
        BY DEF Voters
      <4>3. Cardinality(G) >= Majority
        BY <1>5, <1>9, <1>13, MajorityType
      <4> HIDE DEF G, s, wins
      <4>4. Cardinality(Voters(s, elect[s].term)) >= Majority
        <5>1. /\ Cardinality(Voters(s, elect[s].term)) \in Nat
              /\ Cardinality(G) \in Nat
              /\ Cardinality(G) <= Cardinality(Voters(s, elect[s].term))
          BY <4>2, ServerSubset
        <5> QED BY <4>3, <5>1, MajorityType
      <4> QED BY <1>3, <4>1, <4>4
    <3> QED BY <2>1, <3>1, <3>2
  <2> QED BY <1>11, <2>2, <2>3, <2>4, <2>5 DEF ElectionInv
<1>14. CASE /\ UNCHANGED won
            /\ \/ UNCHANGED nodeVars
               \/ m.term > currentTerm[s] /\ StepDown(s, m.term)
  <2>1. TermsAdvance
    <3>1. CASE UNCHANGED nodeVars
      BY <1>2, <3>1 DEF nodeVars, TermsAdvance
    <3>2. CASE m.term > currentTerm[s] /\ StepDown(s, m.term)
      BY <1>2, <1>3, <3>2 DEF StepDown, TermsAdvance
    <3> QED BY <1>14, <3>1, <3>2
  <2>2. \A x \in Server : currentTerm'[x] \in Nat
                          /\ currentTerm'[x] >= currentTerm[x]
    BY <2>1 DEF TermsAdvance
  <2>3. VotesRemembered' /\ WinnersHaveMajority' /\ LeaderHasWon'
    BY <1>1, <1>4, <1>11, <1>14, <2>1, <2>2, RememberedKept, SameWinners,
       LeadersKept
  <2>4. CountedVotes'
    BY <1>12, <1>14, <2>2
  <2> QED BY <1>11, <2>3, <2>4 DEF ElectionInv
<1>15. \/ BecomeLeader(s) /\ wins
       \/ /\ UNCHANGED won
          /\ \/ UNCHANGED nodeVars
             \/ m.term > currentTerm[s] /\ StepDown(s, m.term)
  BY DEF ReceiveVoteReply
<1> QED BY <1>13, <1>14, <1>15

-----------------------------------------------------------------------------
(* The other steps *)

\* A restart keeps the election invariant: term and vote are on disk.
LEMMA RestartVotes ==
    ASSUME TypeOK, DurableState, ElectionInv, NEW s \in Server, Restart(s)
    PROVE  ElectionInv'
<1>1. /\ currentTerm \in [Server -> Nat] /\ status \in [Server -> Status]
      /\ votedFor \in [Server -> Server \cup {Nil}]
      /\ elect \in [Server -> Election]
  BY DEF TypeOK
<1>2. disk[s].term = currentTerm[s] /\ disk[s].votedFor = votedFor[s]
  <2>1. disk[s] = [term |-> currentTerm[s], votedFor |-> votedFor[s],
                   logs |-> logs[s]]
    BY DEF DurableState
  <2> QED BY <2>1
<1>3. currentTerm' = currentTerm /\ votedFor' = votedFor
  BY <1>1, <1>2 DEF Restart
<1>4. TermsAdvance
  BY <1>1, <1>3 DEF Restart, TermsAdvance
<1>5. /\ UNCHANGED <<votes, won>> /\ voteRep' \subseteq voteRep
      /\ \A x \in Server : elect'[x] \in {elect[x], NoElection}
  BY <1>1 DEF Restart, histVars
<1> QED BY <1>4, <1>5, QuietTerms

\* AppendEntries1 keeps the election invariant.
LEMMA HandleAppendEntriesVotes ==
    ASSUME TypeOK, ElectionInv, NEW m \in appReq, HandleAppendEntries(m)
    PROVE  ElectionInv'
<1>1. /\ currentTerm \in [Server -> Nat] /\ status \in [Server -> Status]
      /\ votedFor \in [Server -> Server \cup {Nil}] /\ appReq \subseteq AppReq
  BY DEF TypeOK
<1>2. m.dst \in Server /\ m.term \in Nat
  BY <1>1 DEF AppReq
<1>3. Follow(m) \/ UNCHANGED nodeVars
  BY DEF HandleAppendEntries, AppendStale, AppendGap, AppendMismatch, AppendMatch
<1>4. TermsAdvance
  <2>1. CASE Follow(m)
    BY <1>1, <1>2, <2>1 DEF Follow, TermsAdvance
  <2>2. CASE UNCHANGED nodeVars
    BY <1>1, <2>2 DEF nodeVars, TermsAdvance
  <2> QED BY <1>3, <2>1, <2>2
<1>5. UNCHANGED <<votes, won, voteRep, elect>>
  BY DEF HandleAppendEntries, voteVars, histVars
<1> QED BY <1>4, <1>5, QuietTerms

\* An answer to sendAppendEntries keeps the election invariant.
LEMMA ReceiveAppendReplyVotes ==
    ASSUME TypeOK, ElectionInv, NEW m \in appRep, ReceiveAppendReply(m)
    PROVE  ElectionInv'
<1>1. /\ currentTerm \in [Server -> Nat] /\ status \in [Server -> Status]
      /\ votedFor \in [Server -> Server \cup {Nil}] /\ appRep \subseteq AppRep
  BY DEF TypeOK
<1>2. m.src \in Server /\ m.term \in Nat
  BY <1>1 DEF AppRep
<1>3. (m.term > currentTerm[m.src] /\ StepDown(m.src, m.term)) \/ UNCHANGED nodeVars
  BY DEF ReceiveAppendReply
<1>4. TermsAdvance
  <2>1. CASE m.term > currentTerm[m.src] /\ StepDown(m.src, m.term)
    BY <1>1, <1>2, <2>1 DEF StepDown, TermsAdvance
  <2>2. CASE UNCHANGED nodeVars
    BY <1>1, <2>2 DEF nodeVars, TermsAdvance
  <2> QED BY <1>3, <2>1, <2>2
<1>5. UNCHANGED <<votes, won, voteRep, elect>>
  BY DEF ReceiveAppendReply, voteVars, histVars
<1> QED BY <1>4, <1>5, QuietTerms

\* Steps that change no term, no vote and no status.
LEMMA OtherVotes ==
    ASSUME TypeOK, ElectionInv,
           UNCHANGED <<currentTerm, votedFor, status, votes, won, voteRep, elect>>
    PROVE  ElectionInv'
<1>1. currentTerm \in [Server -> Nat]
  BY DEF TypeOK
<1>2. TermsAdvance
  BY <1>1 DEF TermsAdvance
<1> QED BY <1>2, QuietTerms

-----------------------------------------------------------------------------
(* The inductive invariant of elections *)

\* Every step keeps the election invariant.
LEMMA ElectionStep ==
    ASSUME IndexInv, ElectionInv, [Next]_vars
    PROVE  ElectionInv'
<1>1. TypeOK /\ DurableState
  BY DEF IndexInv
<1>2. CASE UNCHANGED vars
  BY <1>1, <1>2, OtherVotes DEF vars, nodeVars, voteVars, histVars
<1>3. CASE \E s \in Server : Restart(s) \/ DoElection(s) \/ VoteRpcFail(s)
  BY <1>1, <1>3, RestartVotes, DoElectionVotes, VoteRpcFailVotes
<1>4. CASE \/ \E m \in voteReq : HandleRequestVote(m)
           \/ \E m \in voteRep : ReceiveVoteReply(m)
           \/ \E m \in appReq : HandleAppendEntries(m)
           \/ \E m \in appRep : ReceiveAppendReply(m)
  BY <1>1, <1>4, HandleRequestVoteVotes, ReceiveVoteReplyVotes,
     HandleAppendEntriesVotes, ReceiveAppendReplyVotes
<1>5. CASE \/ \E s \in Server, c \in Command : Start(s, c)
           \/ \E s \in Server : BatchCheckLeader(s) \/ BatchReadTerm(s)
                                \/ BatchReadPrev(s) \/ BatchSend(s)
           \/ \E s \in Server, flush \in SUBSET Server : BatchCollect(s, flush)
           \/ \E s \in Server, p \in Server : BatchRecheck(s, p)
           \/ \E s \in Server, reach \in SUBSET Server : DoHeartBeat(s, reach)
           \/ LoseAppend
           \/ \E s \in Server : Applier(s)
  <2>1. UNCHANGED <<currentTerm, votedFor, status, votes, won, voteRep, elect>>
    BY <1>5 DEF Start, BatchCheckLeader, BatchReadTerm, BatchReadPrev, BatchSend,
       BatchCollect, BatchRecheck, DoHeartBeat, LoseAppend, Applier, nodeVars,
       voteVars, histVars
  <2> QED BY <1>1, <2>1, OtherVotes
<1> QED BY <1>2, <1>3, <1>4, <1>5 DEF Next

\* ElectionInv holds in every reachable state.
THEOREM ElectionInvariance == Spec => []ElectionInv
<1>1. Init => ElectionInv
  BY DEF Init, ElectionInv, OneVotePerTerm, VotesRemembered, AnswersAreVotes,
     CountedVotes, WinnersHaveMajority, LeaderHasWon, NoElection
<1>2. IndexInv /\ ElectionInv /\ [Next]_vars => ElectionInv'
  BY ElectionStep
<1> QED BY <1>1, <1>2, IndexInvariance, PTL DEF Spec

\* A node never grants two votes in one term, restarts included.
THEOREM VoteOnce == Spec => []OneVotePerTerm
<1>1. ElectionInv => OneVotePerTerm
  BY DEF ElectionInv
<1> QED BY <1>1, ElectionInvariance, PTL

\* Two majorities share a voter, and the voter voted once.
LEMMA WinnerUnique ==
    ASSUME TypeOK, ElectionInv
    PROVE  OneWinnerPerTerm
<1> SUFFICES ASSUME NEW x \in won, NEW y \in won, x.term = y.term
             PROVE  x.node = y.node
  BY DEF OneWinnerPerTerm
<1> DEFINE S == Voters(x.node, x.term)
           T == Voters(y.node, x.term)
<1>1. S \in SUBSET Server /\ T \in SUBSET Server
  BY DEF Voters
<1>2. Cardinality(S) >= Majority /\ Cardinality(T) >= Majority
  BY DEF ElectionInv, WinnersHaveMajority
<1>3. S \cap T # {}
  <2> HIDE DEF S, T
  <2>1. Cardinality(S) \in Nat /\ Cardinality(T) \in Nat
    BY <1>1, ServerSubset
  <2>2. Cardinality(S) + Cardinality(T) > Cardinality(Server)
    BY <1>2, <2>1, MajorityType
  <2> QED BY <1>1, <2>2, MajorityType, FS_MajoritiesIntersect
<1>4. PICK v \in S \cap T : TRUE
  BY <1>3
<1>5. /\ [voter |-> v, term |-> x.term, cand |-> x.node] \in votes
      /\ [voter |-> v, term |-> x.term, cand |-> y.node] \in votes
  BY <1>4 DEF Voters
<1> QED BY <1>5 DEF ElectionInv, OneVotePerTerm

\* A term has at most one winner.
THEOREM ElectionSafety == Spec => []OneWinnerPerTerm
<1>1. IndexInv => TypeOK
  BY DEF IndexInv
<1> QED BY <1>1, WinnerUnique, IndexInvariance, ElectionInvariance, PTL

\* The assertion of sendRequestVote never fails: no vote makes a node Leader
\* of a term it already leads.
THEOREM NoSecondWin == Spec => []NeverLeaderTwice
<1>1. ASSUME TypeOK, ElectionInv PROVE NeverLeaderTwice
  <2> SUFFICES ASSUME NEW m \in voteRep,
                      elect[m.src].peer = m.dst, elect[m.src].term = m.reqTerm,
                      m.granted, m.term = currentTerm[m.src],
                      elect[m.src].voteNum + 1 >= Majority,
                      status[m.src] = "Leader"
               PROVE  FALSE
    BY DEF NeverLeaderTwice
  <2> DEFINE s == m.src
  <2>1. m \in VoteRep
    BY <1>1 DEF TypeOK
  <2>2. s \in Server /\ m.dst \in Server /\ elect[s].peer # Nil
    BY <2>1, NilAssumption DEF VoteRep
  <2>3. AnswersAreVotes /\ LeaderHasWon /\ CountedVotes
    BY <1>1 DEF ElectionInv
  <2>4. [node |-> s, term |-> elect[s].term] \in won
    <3>1. elect[s].term = currentTerm[s]
      BY <2>3 DEF AnswersAreVotes
    <3> QED BY <2>2, <2>3, <3>1 DEF LeaderHasWon
  <2> HIDE DEF s
  <2>5. /\ elect[s].voteNum \in Nat /\ Cardinality(elect[s].todo) \in Nat
        /\ elect[s].voteNum + Cardinality(elect[s].todo) < Majority
    BY <1>1, <2>2, <2>3, <2>4, StrikePeer
  <2>6. Cardinality(elect[s].todo) >= 1
    <3>1. elect[s] \in Election
      BY <1>1, <2>2 DEF TypeOK
    <3>2. elect[s].todo \in SUBSET Server /\ elect[s].peer \in elect[s].todo
      BY <2>2, <2>3, <3>1 DEF Election, CountedVotes
    <3>3. {elect[s].peer} \in SUBSET elect[s].todo
      BY <3>2
    <3> QED BY <3>2, <3>3, ServerSubset, FS_Singleton
  <2>7. elect[s].voteNum + 1 >= Majority
    BY DEF s
  <2> QED BY <2>5, <2>6, <2>7, MajorityType
<1>2. IndexInv => TypeOK
  BY DEF IndexInv
<1> QED BY <1>1, <1>2, IndexInvariance, ElectionInvariance, PTL

-----------------------------------------------------------------------------
(* Votes are stable *)

\* What VoteStable says of one step.
StableStep ==
    \A s \in Server :
        /\ currentTerm'[s] >= currentTerm[s]
        /\ currentTerm'[s] = currentTerm[s] /\ votedFor[s] # Nil
           => votedFor'[s] = votedFor[s]

\* No step lowers a term, or changes a vote within a term.
LEMMA NextStable ==
    ASSUME TypeOK, DurableState, [Next]_vars
    PROVE  StableStep
<1>1. /\ currentTerm \in [Server -> Nat] /\ voteReq \subseteq VoteReq
      /\ votedFor \in [Server -> Server \cup {Nil}] /\ voteRep \subseteq VoteRep
      /\ appReq \subseteq AppReq /\ appRep \subseteq AppRep
  BY DEF TypeOK
<1>2. CASE UNCHANGED <<currentTerm, votedFor>>
  BY <1>1, <1>2 DEF StableStep
<1>3. ASSUME NEW s \in Server, Restart(s) PROVE StableStep
  <2>1. disk[s] = [term |-> currentTerm[s], votedFor |-> votedFor[s],
                   logs |-> logs[s]]
    BY DEF DurableState
  <2>2. disk[s].term = currentTerm[s] /\ disk[s].votedFor = votedFor[s]
    BY <2>1
  <2>3. UNCHANGED <<currentTerm, votedFor>>
    BY <1>1, <1>3, <2>2 DEF Restart
  <2> QED BY <1>2, <2>3
<1>4. ASSUME NEW s \in Server, DoElection(s) PROVE StableStep
  BY <1>1, <1>4 DEF DoElection, StableStep
<1>5. ASSUME NEW s \in Server, NEW t \in Nat, t > currentTerm[s], StepDown(s, t)
      PROVE  StableStep
  BY <1>1, <1>5 DEF StepDown, StableStep
<1>6. ASSUME NEW m \in voteReq, HandleRequestVote(m) PROVE StableStep
  <2> DEFINE s == m.dst
             newer == m.term > currentTerm[s]
             voted == IF newer THEN Nil ELSE votedFor[s]
             grant == /\ m.term >= currentTerm[s]
                      /\ UPtodata(s, m.lastIndex, m.lastTerm)
                      /\ MayVote(voted, m.src)
  <2>1. s \in Server /\ m.term \in Nat
    BY <1>1 DEF VoteReq
  <2>2. /\ currentTerm' = [currentTerm EXCEPT ![s] = Larger(m.term, currentTerm[s])]
        /\ votedFor' = [votedFor EXCEPT ![s] = IF grant THEN m.src ELSE voted]
    BY <1>6 DEF HandleRequestVote
  <2>3. ~newer /\ votedFor[s] # Nil =>
            (IF grant THEN m.src ELSE voted) = votedFor[s]
    BY DEF MayVote
  <2>4. Larger(m.term, currentTerm[s]) >= currentTerm[s]
        /\ (Larger(m.term, currentTerm[s]) = currentTerm[s] => ~newer)
    BY <1>1, <2>1 DEF Larger
  <2> HIDE DEF s, newer, voted, grant
  <2> QED BY <1>1, <2>1, <2>2, <2>3, <2>4 DEF StableStep
<1>7. ASSUME NEW m \in voteRep, ReceiveVoteReply(m) PROVE StableStep
  <2>1. m.src \in Server /\ m.term \in Nat
    BY <1>1 DEF VoteRep
  <2>2. \/ m.term > currentTerm[m.src] /\ StepDown(m.src, m.term)
        \/ UNCHANGED <<currentTerm, votedFor>>
    BY <1>7 DEF ReceiveVoteReply, BecomeLeader, nodeVars
  <2> QED BY <1>2, <1>5, <2>1, <2>2
<1>8. ASSUME NEW m \in appReq, HandleAppendEntries(m) PROVE StableStep
  <2>1. m.dst \in Server /\ m.term \in Nat
    BY <1>1 DEF AppReq
  <2>2. Follow(m) \/ UNCHANGED <<currentTerm, votedFor>>
    BY <1>8 DEF HandleAppendEntries, AppendStale, AppendGap, AppendMismatch,
       AppendMatch, nodeVars
  <2>3. CASE Follow(m)
    BY <1>1, <2>1, <2>3 DEF Follow, StableStep
  <2> QED BY <1>2, <2>2, <2>3
<1>9. ASSUME NEW m \in appRep, ReceiveAppendReply(m) PROVE StableStep
  <2>1. m.src \in Server /\ m.term \in Nat
    BY <1>1 DEF AppRep
  <2>2. \/ m.term > currentTerm[m.src] /\ StepDown(m.src, m.term)
        \/ UNCHANGED <<currentTerm, votedFor>>
    BY <1>9 DEF ReceiveAppendReply, nodeVars
  <2> QED BY <1>2, <1>5, <2>1, <2>2
<1>10. \/ UNCHANGED <<currentTerm, votedFor>>
       \/ \E s \in Server : Restart(s) \/ DoElection(s)
       \/ \E m \in voteReq : HandleRequestVote(m)
       \/ \E m \in voteRep : ReceiveVoteReply(m)
       \/ \E m \in appReq : HandleAppendEntries(m)
       \/ \E m \in appRep : ReceiveAppendReply(m)
  BY DEF Next, vars, Start, BatchCheckLeader, BatchReadTerm, BatchReadPrev,
     BatchSend, BatchCollect, BatchRecheck, DoHeartBeat, LoseAppend, Applier,
     VoteRpcFail, nodeVars
<1> QED BY <1>2, <1>3, <1>4, <1>6, <1>7, <1>8, <1>9, <1>10

\* No step lowers a term or changes a vote within its term: what a node has
\* promised a candidate survives every handler and a restart.
THEOREM VotesStable == Spec => VoteStable
<1>1. IndexInv /\ [Next]_vars => [StableStep]_vars
  BY NextStable DEF IndexInv
<1>2. VoteStable <=> [][StableStep]_vars
  BY PTL DEF VoteStable, StableStep
<1> QED BY <1>1, <1>2, IndexInvariance, PTL DEF Spec

=============================================================================

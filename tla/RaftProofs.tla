------------------------------ MODULE RaftProofs -----------------------------
(***************************************************************************)
(* Theorems about Raft, for clusters of any size and any number of         *)
(* elections.                                                              *)
(***************************************************************************)
EXTENDS Raft, FiniteSetTheorems, TLAPS

-----------------------------------------------------------------------------
(* The inductive invariant *)

\* An election asks each node once: a request on its way has not been granted,
\* and is of no term its sender has yet to reach.
RequestsAreNew ==
  \A m \in network : m.type = "RequestVote" =>
    /\ m.term <= currentTerm[m.from]
    /\ <<m.to, m.from, m.term>> \notin granted

RepliesAreGranted ==
  \A m \in network : m.type = "VoteGranted" => <<m.from, m.to, m.term>> \in granted

GrantsArePast ==
  \A v \in Node, n \in Node, t \in Nat : <<v, n, t>> \in granted => t <= currentTerm[n]

\* Votes for n in its term whose reply is no longer on its way.
Counted(n) ==
  {v \in VotersFor(n, currentTerm[n]) :
     [type |-> "VoteGranted", term |-> currentTerm[n], from |-> v, to |-> n] \notin network}

\* votesReceived is a bare number: what makes it mean voters is that no vote can
\* be counted twice.
VotesAreCounted ==
  \A n \in Node : role[n] = "Candidate" => votesReceived[n] <= Cardinality(Counted(n))

IInv == /\ TypeOK
        /\ RequestsAreNew
        /\ RepliesAreGranted
        /\ GrantsArePast
        /\ VotesAreCounted

LEMMA InitIInv == Init => IInv
<1> SUFFICES ASSUME Init PROVE IInv
  OBVIOUS
<1>1. Cardinality(Node) \in Nat
  BY RaftAssumption, FS_CardinalityType
<1>2. TypeOK
  BY <1>1 DEF Init, TypeOK, Role
<1>3. RequestsAreNew /\ RepliesAreGranted /\ GrantsArePast /\ VotesAreCounted
  BY DEF Init, RequestsAreNew, RepliesAreGranted, GrantsArePast, VotesAreCounted
<1> QED
  BY <1>2, <1>3 DEF IInv

-----------------------------------------------------------------------------
(* Messages and sets of voters *)

LEMMA MessageParts ==
  ASSUME TypeOK, NEW m \in network
  PROVE  /\ m.type \in {"RequestVote", "VoteGranted", "AppendEntries"}
         /\ m.term \in Nat /\ m.from \in Node /\ m.to \in Node
         /\ m = [type |-> m.type, term |-> m.term, from |-> m.from, to |-> m.to]
<1>1. m \in RequestVote \/ m \in VoteGranted \/ m \in AppendEntries
  BY DEF TypeOK
<1> QED
  BY <1>1 DEF RequestVote, VoteGranted, AppendEntries

LEMMA Voters ==
  ASSUME NEW S \in SUBSET Node
  PROVE  /\ IsFiniteSet(S)
         /\ Cardinality(S) \in 0 .. Cardinality(Node)
         /\ \A T \in SUBSET S : Cardinality(T) <= Cardinality(S)
         /\ \A v \in S : Cardinality(S \ {v}) = Cardinality(S) - 1
<1>1. IsFiniteSet(S) /\ Cardinality(S) <= Cardinality(Node)
  BY RaftAssumption, FS_Subset
<1>2. Cardinality(S) \in Nat /\ Cardinality(Node) \in Nat
  BY <1>1, RaftAssumption, FS_CardinalityType
<1>3. \A T \in SUBSET S : Cardinality(T) <= Cardinality(S)
  BY <1>1, FS_Subset
<1>4. \A v \in S : Cardinality(S \ {v}) = Cardinality(S) - 1
  BY <1>1, FS_RemoveElement
<1> QED
  BY <1>1, <1>2, <1>3, <1>4

LEMMA CountedType ==
  ASSUME NEW n \in Node
  PROVE  /\ Counted(n) \in SUBSET Node
         /\ Cardinality(Counted(n)) \in 0 .. Cardinality(Node)
<1>1. Counted(n) \in SUBSET Node
  BY DEF Counted, VotersFor
<1> QED
  BY <1>1, Voters

\* A step that leaves n a candidate of its term without another vote and drops
\* none of the counted ones keeps the count honest.
LEMMA SameCount ==
  ASSUME IInv, NEW n \in Node, role'[n] = "Candidate" => role[n] = "Candidate",
         votesReceived'[n] = votesReceived[n],
         Counted(n) \subseteq Counted(n)'
  PROVE  role'[n] = "Candidate" => votesReceived'[n] <= Cardinality(Counted(n)')
<1>1. Counted(n)' \in SUBSET Node
  BY DEF Counted, VotersFor
<1>2. Cardinality(Counted(n)) <= Cardinality(Counted(n)')
  BY <1>1, Voters
<1>3. Cardinality(Counted(n)) \in Nat /\ Cardinality(Counted(n)') \in Nat
  BY <1>1, Voters, CountedType
<1> QED
  BY <1>2, <1>3 DEF IInv, VotesAreCounted, TypeOK

-----------------------------------------------------------------------------
(* Steps *)

LEMMA TimeoutIInv ==
  ASSUME IInv, NEW n \in Node, ElectionTimeout(n)
  PROVE  IInv'
<1> DEFINE t == currentTerm[n] + 1
           asked == {[type |-> "RequestVote", term |-> t, from |-> n, to |-> p] : p \in Others(n)}
<1>1. currentTerm[n] \in Nat /\ t \in Nat /\ Cardinality(Node) \in Nat /\ Cardinality(Node) # 0
  BY RaftAssumption, FS_CardinalityType, FS_EmptySet DEF IInv, TypeOK
<1>2. /\ currentTerm' = [currentTerm EXCEPT ![n] = t]
      /\ currentTerm'[n] = t
      /\ \A k \in Node \ {n} : currentTerm'[k] = currentTerm[k]
  BY DEF ElectionTimeout, IInv, TypeOK
<1>3. /\ granted' = granted \cup {<<n, n, t>>}
      /\ network' = network \cup asked
      /\ votesReceived' = [votesReceived EXCEPT ![n] = 1]
      /\ votedFor' = [votedFor EXCEPT ![n] = n]
  BY <1>2 DEF ElectionTimeout
<1>4. role' \in [Node -> Role] /\ \A k \in Node \ {n} : role'[k] = role[k]
  BY DEF ElectionTimeout, IInv, TypeOK, Role
<1>5. asked \subseteq RequestVote
  BY <1>1 DEF RequestVote, Others
<1>6. TypeOK'
  <2>1. votesReceived' \in [Node -> 0 .. Cardinality(Node)]
    BY <1>1, <1>3 DEF IInv, TypeOK
  <2> QED
    BY <1>1, <1>2, <1>3, <1>4, <1>5, <2>1 DEF IInv, TypeOK
<1>7. GrantsArePast'
  BY <1>1, <1>2, <1>3 DEF IInv, TypeOK, GrantsArePast
<1>8. ASSUME NEW v \in Node PROVE <<v, n, t>> \notin granted
  BY <1>1 DEF IInv, GrantsArePast
<1>9. RequestsAreNew'
  <2> SUFFICES ASSUME NEW m \in network', m.type = "RequestVote"
               PROVE  /\ m.term <= currentTerm'[m.from]
                      /\ <<m.to, m.from, m.term>> \notin granted'
    BY DEF RequestsAreNew
  <2>1. CASE m \in asked
    BY <1>1, <1>2, <1>3, <1>8, <2>1 DEF Others
  <2>2. CASE m \in network
    <3>1. m.term \in Nat /\ m.from \in Node /\ m.to \in Node
      BY <2>2, MessageParts DEF IInv
    <3>2. m.term <= currentTerm[m.from] /\ <<m.to, m.from, m.term>> \notin granted
      BY <2>2 DEF IInv, RequestsAreNew
    <3>3. currentTerm[m.from] <= currentTerm'[m.from] /\ currentTerm[m.from] \in Nat
      BY <1>1, <1>2, <3>1 DEF IInv, TypeOK
    <3>4. <<m.to, m.from, m.term>> # <<n, n, t>>
      BY <1>1, <3>1, <3>2
    <3> QED
      BY <1>1, <1>2, <1>3, <3>1, <3>2, <3>3, <3>4
  <2> QED
    BY <1>3, <2>1, <2>2
<1>10. RepliesAreGranted'
  BY <1>3 DEF IInv, RepliesAreGranted
<1>11. VotesAreCounted'
  <2> SUFFICES ASSUME NEW k \in Node
               PROVE  role'[k] = "Candidate" => votesReceived'[k] <= Cardinality(Counted(k)')
    BY DEF VotesAreCounted
  <2>1. CASE k = n
    <3>1. [type |-> "VoteGranted", term |-> t, from |-> n, to |-> n] \notin network'
      BY <1>3, <1>8 DEF IInv, RepliesAreGranted
    <3>2. n \in Counted(n)'
      <4>1. <<n, n, t>> \in granted'
        BY <1>3
      <4> HIDE DEF t
      <4> QED
        BY <1>2, <3>1, <4>1 DEF Counted, VotersFor
    <3>3. Counted(n)' \in SUBSET Node /\ {n} \in SUBSET Counted(n)'
      BY <3>2 DEF Counted, VotersFor
    <3>4. Cardinality({n}) <= Cardinality(Counted(n)') /\ Cardinality({n}) = 1
      BY <3>3, Voters, FS_Singleton
    <3>5. votesReceived'[n] = 1
      BY <1>3 DEF IInv, TypeOK
    <3> QED
      BY <2>1, <3>4, <3>5
  <2>2. CASE k # n
    <3>1. /\ role'[k] = role[k] /\ currentTerm'[k] = currentTerm[k]
          /\ votesReceived'[k] = votesReceived[k]
      BY <1>2, <1>3, <1>4, <2>2 DEF IInv, TypeOK
    <3>2. Counted(k) \subseteq Counted(k)'
      BY <1>3, <3>1 DEF Counted, VotersFor
    <3> QED
      BY <3>1, <3>2, SameCount
  <2> QED
    BY <2>1, <2>2
<1> QED
  BY <1>6, <1>7, <1>9, <1>10, <1>11 DEF IInv

LEMMA HeartbeatIInv ==
  ASSUME IInv, NEW n \in Node, Heartbeat(n)
  PROVE  IInv'
<1> DEFINE beats == {[type |-> "AppendEntries", term |-> currentTerm[n], from |-> n, to |-> p] :
                       p \in Others(n)}
<1>1. network' = network \cup beats /\ UNCHANGED <<nodeVars, granted>>
  BY DEF Heartbeat
<1>2. beats \subseteq AppendEntries
  BY DEF IInv, TypeOK, AppendEntries, Others
<1>3. TypeOK'
  BY <1>1, <1>2 DEF IInv, TypeOK, nodeVars
<1>4. GrantsArePast' /\ RequestsAreNew' /\ RepliesAreGranted'
  BY <1>1 DEF IInv, GrantsArePast, RequestsAreNew, RepliesAreGranted, nodeVars
<1>5. ASSUME NEW k \in Node
      PROVE  role'[k] = "Candidate" => votesReceived'[k] <= Cardinality(Counted(k)')
  <2>1. Counted(k) \subseteq Counted(k)'
    BY <1>1 DEF Counted, VotersFor, nodeVars
  <2> QED
    BY <1>1, <2>1, SameCount DEF nodeVars
<1> QED
  BY <1>3, <1>4, <1>5 DEF IInv, VotesAreCounted

LEMMA RequestVoteIInv ==
  ASSUME IInv, NEW n \in Node, NEW m \in network, m.to = n, HandleRequestVote(n, m)
  PROVE  IInv'
<1> DEFINE reply == [type |-> "VoteGranted", term |-> m.term, from |-> n, to |-> m.from]
<1>1. /\ m.term \in Nat /\ m.from \in Node /\ m.type = "RequestVote"
      /\ m = [type |-> "RequestVote", term |-> m.term, from |-> m.from, to |-> n]
      /\ m.term <= currentTerm[m.from]
      /\ <<n, m.from, m.term>> \notin granted
  BY MessageParts DEF HandleRequestVote, IInv, RequestsAreNew
<1>2. /\ currentTerm' \in [Node -> Nat] /\ role' \in [Node -> Role]
      /\ \A k \in Node : currentTerm[k] \in Nat /\ currentTerm'[k] >= currentTerm[k]
      /\ \A k \in Node : role'[k] = "Candidate" =>
           role[k] = "Candidate" /\ currentTerm'[k] = currentTerm[k]
  BY <1>1 DEF HandleRequestVote, IInv, TypeOK, Role
<1>3. /\ votedFor' \in [Node -> Node \cup {NoNode}]
      /\ granted \subseteq granted' /\ granted' \subseteq granted \cup {<<n, m.from, m.term>>}
      /\ network' \subseteq (network \ {m}) \cup {reply}
      /\ reply \in network' => <<n, m.from, m.term>> \in granted'
      /\ UNCHANGED votesReceived
  <2>1. reply \in network => <<n, m.from, m.term>> \in granted
    BY DEF IInv, RepliesAreGranted
  <2>2. CASE Grants(n, m)
    BY <1>1, <2>2 DEF HandleRequestVote, IInv, TypeOK
  <2>3. CASE ~Grants(n, m)
    BY <2>1, <2>3 DEF HandleRequestVote, IInv, TypeOK
  <2> QED
    BY <2>2, <2>3
<1> HIDE DEF reply
<1>4. reply \in VoteGranted
  BY <1>1 DEF reply, VoteGranted
<1>5. TypeOK'
  <2>1. <<n, m.from, m.term>> \in Node \X Node \X Nat
    BY <1>1
  <2> QED
    BY <1>2, <1>3, <1>4, <2>1 DEF IInv, TypeOK
<1>6. GrantsArePast'
  <2> SUFFICES ASSUME NEW v \in Node, NEW k \in Node, NEW t \in Nat, <<v, k, t>> \in granted'
               PROVE  t <= currentTerm'[k]
    BY DEF GrantsArePast
  <2>1. t <= currentTerm[k]
    <3>1. CASE <<v, k, t>> \in granted
      BY <3>1 DEF IInv, GrantsArePast
    <3>2. CASE <<v, k, t>> = <<n, m.from, m.term>>
      BY <1>1, <3>2
    <3> QED
      BY <1>3, <3>1, <3>2
  <2> QED
    BY <1>2, <2>1 DEF IInv, TypeOK
<1>7. RequestsAreNew'
  <2> SUFFICES ASSUME NEW q \in network', q.type = "RequestVote"
               PROVE  /\ q.term <= currentTerm'[q.from]
                      /\ <<q.to, q.from, q.term>> \notin granted'
    BY DEF RequestsAreNew
  <2>1. q \in network /\ q # m
    BY <1>3 DEF reply
  <2>2. /\ q.term \in Nat /\ q.from \in Node
        /\ q = [type |-> "RequestVote", term |-> q.term, from |-> q.from, to |-> q.to]
    BY <2>1, MessageParts DEF IInv
  <2>3. q.term <= currentTerm[q.from] /\ <<q.to, q.from, q.term>> \notin granted
    BY <2>1 DEF IInv, RequestsAreNew
  <2>4. <<q.to, q.from, q.term>> # <<n, m.from, m.term>>
    BY <1>1, <2>1, <2>2
  <2> QED
    BY <1>2, <1>3, <2>2, <2>3, <2>4
<1>8. RepliesAreGranted'
  <2> SUFFICES ASSUME NEW q \in network', q.type = "VoteGranted"
               PROVE  <<q.from, q.to, q.term>> \in granted'
    BY DEF RepliesAreGranted
  <2>1. CASE q \in network
    BY <1>3, <2>1 DEF IInv, RepliesAreGranted
  <2>2. CASE q = reply
    BY <1>3, <2>2 DEF reply
  <2> QED
    BY <1>3, <2>1, <2>2
<1>9. ASSUME NEW k \in Node, role'[k] = "Candidate"
      PROVE  votesReceived'[k] <= Cardinality(Counted(k)')
  <2>1. role[k] = "Candidate" /\ currentTerm'[k] = currentTerm[k]
    BY <1>2, <1>9
  <2>2. Counted(k) \subseteq Counted(k)'
    <3> SUFFICES ASSUME NEW v \in Counted(k)
                 PROVE  [type |-> "VoteGranted", term |-> currentTerm[k], from |-> v, to |-> k]
                          \notin network'
      BY <1>3, <2>1 DEF Counted, VotersFor
    <3>1. /\ <<v, k, currentTerm[k]>> \in granted
          /\ [type |-> "VoteGranted", term |-> currentTerm[k], from |-> v, to |-> k] \notin network
      BY DEF Counted, VotersFor
    <3>2. [type |-> "VoteGranted", term |-> currentTerm[k], from |-> v, to |-> k] # reply
      BY <1>1, <3>1 DEF reply
    <3> QED
      BY <1>3, <3>1, <3>2
  <2> QED
    BY <1>3, <1>9, <2>1, <2>2, SameCount
<1> QED
  BY <1>5, <1>6, <1>7, <1>8, <1>9 DEF IInv, VotesAreCounted

LEMMA VoteGrantedIInv ==
  ASSUME IInv, NEW n \in Node, NEW m \in network, m.to = n, HandleVoteGranted(n, m)
  PROVE  IInv'
<1>1. /\ m.type = "VoteGranted" /\ m.from \in Node /\ m.term \in Nat
      /\ m = [type |-> "VoteGranted", term |-> m.term, from |-> m.from, to |-> n]
      /\ <<m.from, n, m.term>> \in granted
  BY MessageParts DEF HandleVoteGranted, IInv, RepliesAreGranted
<1>2. network' = network \ {m} /\ UNCHANGED <<role, currentTerm, votedFor, granted>>
  BY DEF HandleVoteGranted
<1>3. GrantsArePast' /\ RequestsAreNew' /\ RepliesAreGranted'
  BY <1>2 DEF IInv, GrantsArePast, RequestsAreNew, RepliesAreGranted
<1>4. ASSUME NEW k \in Node PROVE Counted(k) \subseteq Counted(k)'
  BY <1>2 DEF Counted, VotersFor
<1>5. CASE Counts(n, m)
  <2>1. m.term = currentTerm[n] /\ role[n] = "Candidate"
    BY <1>5 DEF Counts
  <2>2. m.from \in Counted(n)' /\ m.from \notin Counted(n)
    BY <1>1, <1>2, <2>1 DEF Counted, VotersFor
  <2>3. Cardinality(Counted(n)) + 1 <= Cardinality(Counted(n)')
    <3>1. Counted(n)' \in SUBSET Node
      BY DEF Counted, VotersFor
    <3>2. Counted(n) \in SUBSET (Counted(n)' \ {m.from}) /\ Counted(n)' \ {m.from} \in SUBSET Node
      BY <1>4, <2>2, <3>1
    <3>3. Cardinality(Counted(n)) <= Cardinality(Counted(n)' \ {m.from})
      BY <3>2, Voters
    <3>4. Cardinality(Counted(n)' \ {m.from}) = Cardinality(Counted(n)') - 1
      BY <2>2, <3>1, Voters
    <3>5. Cardinality(Counted(n)) \in Nat /\ Cardinality(Counted(n)') \in Nat
      BY <3>1, Voters, CountedType
    <3> QED
      BY <3>3, <3>4, <3>5
  <2>4. votesReceived' = [votesReceived EXCEPT ![n] = @ + 1]
    BY <1>5 DEF HandleVoteGranted
  <2>5. /\ votesReceived[n] \in 0 .. Cardinality(Node)
        /\ votesReceived[n] <= Cardinality(Counted(n))
        /\ Cardinality(Counted(n)) \in Nat
    BY <2>1, CountedType DEF IInv, TypeOK, VotesAreCounted
  <2>6. Cardinality(Counted(n)') \in 0 .. Cardinality(Node) /\ Cardinality(Node) \in Nat
    <3>1. Counted(n)' \in SUBSET Node
      BY DEF Counted, VotersFor
    <3> QED
      BY <3>1, Voters, RaftAssumption, FS_CardinalityType
  <2>7. /\ votesReceived[n] + 1 <= Cardinality(Counted(n)')
        /\ votesReceived[n] + 1 \in 0 .. Cardinality(Node)
    BY <2>3, <2>5, <2>6
  <2>8. TypeOK'
    BY <1>2, <2>4, <2>7 DEF IInv, TypeOK
  <2>9. ASSUME NEW k \in Node, role'[k] = "Candidate"
        PROVE  votesReceived'[k] <= Cardinality(Counted(k)')
    <3>1. CASE k = n
      BY <2>4, <2>7, <3>1 DEF IInv, TypeOK
    <3>2. CASE k # n
      <4>1. votesReceived'[k] = votesReceived[k]
        BY <2>4, <3>2 DEF IInv, TypeOK
      <4> QED
        BY <1>2, <1>4, <2>9, <4>1, SameCount
    <3> QED
      BY <3>1, <3>2
  <2> QED
    BY <1>3, <2>8, <2>9 DEF IInv, VotesAreCounted
<1>6. CASE ~Counts(n, m)
  <2>1. UNCHANGED votesReceived
    BY <1>6 DEF HandleVoteGranted
  <2>2. TypeOK'
    BY <1>2, <2>1 DEF IInv, TypeOK
  <2>3. VotesAreCounted'
    BY <1>2, <1>4, <2>1, SameCount DEF VotesAreCounted
  <2> QED
    BY <1>3, <2>2, <2>3 DEF IInv
<1> QED
  BY <1>5, <1>6

LEMMA AppendEntriesIInv ==
  ASSUME IInv, NEW n \in Node, NEW m \in network, m.to = n, HandleAppendEntries(n, m)
  PROVE  IInv'
<1>1. m.term \in Nat /\ network' = network \ {m} /\ UNCHANGED <<votesReceived, granted>>
  BY MessageParts DEF HandleAppendEntries, IInv
<1>2. /\ currentTerm' \in [Node -> Nat] /\ role' \in [Node -> Role]
      /\ votedFor' \in [Node -> Node \cup {NoNode}]
      /\ \A k \in Node : currentTerm[k] \in Nat /\ currentTerm'[k] >= currentTerm[k]
      /\ \A k \in Node : role'[k] = "Candidate" =>
           role[k] = "Candidate" /\ currentTerm'[k] = currentTerm[k]
  BY <1>1 DEF HandleAppendEntries, IInv, TypeOK, Role
<1>3. TypeOK'
  BY <1>1, <1>2 DEF IInv, TypeOK
<1>4. GrantsArePast'
  BY <1>1, <1>2 DEF IInv, GrantsArePast
<1>5. RequestsAreNew'
  <2> SUFFICES ASSUME NEW q \in network', q.type = "RequestVote"
               PROVE  q.term <= currentTerm'[q.from]
    BY <1>1 DEF IInv, RequestsAreNew
  <2>1. q.term \in Nat /\ q.from \in Node /\ q.term <= currentTerm[q.from]
    BY <1>1, MessageParts DEF IInv, RequestsAreNew
  <2> QED
    BY <1>2, <2>1
<1>6. RepliesAreGranted'
  BY <1>1 DEF IInv, RepliesAreGranted
<1>7. ASSUME NEW k \in Node, role'[k] = "Candidate"
      PROVE  votesReceived'[k] <= Cardinality(Counted(k)')
  <2>1. Counted(k) \subseteq Counted(k)'
    BY <1>1, <1>2, <1>7 DEF Counted, VotersFor
  <2> QED
    BY <1>1, <1>2, <1>7, <2>1, SameCount
<1> QED
  BY <1>3, <1>4, <1>5, <1>6, <1>7 DEF IInv, VotesAreCounted

LEMMA PromoteIInv ==
  ASSUME IInv, NEW n \in Node, TryPromote(n)
  PROVE  IInv'
<1>1. /\ UNCHANGED <<currentTerm, votedFor, votesReceived, network, granted>>
      /\ role' = [role EXCEPT ![n] = "Leader"]
  BY DEF TryPromote
<1>2. TypeOK'
  BY <1>1 DEF IInv, TypeOK, Role
<1>3. GrantsArePast' /\ RequestsAreNew' /\ RepliesAreGranted'
  BY <1>1 DEF IInv, GrantsArePast, RequestsAreNew, RepliesAreGranted
<1>4. ASSUME NEW k \in Node
      PROVE  role'[k] = "Candidate" => votesReceived'[k] <= Cardinality(Counted(k)')
  <2>1. role'[k] = "Candidate" => role[k] = "Candidate"
    BY <1>1 DEF IInv, TypeOK
  <2>2. Counted(k) \subseteq Counted(k)'
    BY <1>1 DEF Counted, VotersFor
  <2> QED
    BY <1>1, <2>1, <2>2, SameCount
<1> QED
  BY <1>2, <1>3, <1>4 DEF IInv, VotesAreCounted

LEMMA NextIInv == IInv /\ [Next]_vars => IInv'
<1> SUFFICES ASSUME IInv, [Next]_vars PROVE IInv'
  OBVIOUS
<1>1. ASSUME NEW n \in Node, ElectionTimeout(n) PROVE IInv'
  BY <1>1, TimeoutIInv
<1>2. ASSUME NEW n \in Node, Heartbeat(n) PROVE IInv'
  BY <1>2, HeartbeatIInv
<1>3. ASSUME NEW n \in Node, HandleMessage(n) PROVE IInv'
  BY <1>3, RequestVoteIInv, VoteGrantedIInv, AppendEntriesIInv DEF HandleMessage
<1>4. ASSUME NEW n \in Node, TryPromote(n) PROVE IInv'
  BY <1>4, PromoteIInv
<1>5. CASE UNCHANGED vars
  BY <1>5 DEF vars, nodeVars, IInv, TypeOK, RequestsAreNew, RepliesAreGranted, GrantsArePast,
              VotesAreCounted, Counted, VotersFor
<1> QED
  BY <1>1, <1>2, <1>3, <1>4, <1>5 DEF Next

LEMMA SpecIInv == Spec => []IInv
  BY InitIInv, NextIInv, PTL DEF Spec

-----------------------------------------------------------------------------
(* The theorems *)

\* Every variable of the election keeps its type: in particular no node ever
\* counts more votes than there are nodes.
THEOREM RaftTypes == Spec => []TypeOK
<1>1. IInv => TypeOK
  BY DEF IInv
<1> QED
  BY <1>1, SpecIInv, PTL

\* A cluster of two is the one in which RaftNode::tick lets a candidate win with
\* less than a majority (the run raft_pair shows it).
NotAPair == Cardinality(Node) # 2

LEMMA NodesCount == /\ Cardinality(Node) \in Nat \ {0}
                    /\ Majority \in Nat
                    /\ (NotAPair /\ WinsAlone) => Majority = 1
<1>1. Cardinality(Node) \in Nat \ {0}
  BY RaftAssumption, FS_CardinalityType, FS_EmptySet
<1> QED
  BY <1>1 DEF Majority, WinsAlone, NotAPair

LEMMA LeaderInit == Init => LeaderHasMajority
  BY DEF Init, LeaderHasMajority

\* A leader that stays in its term keeps its voters.
LEMMA StaysLeader ==
  ASSUME IInv, LeaderHasMajority, NEW k \in Node,
         role[k] = "Leader", currentTerm'[k] = currentTerm[k], granted \subseteq granted'
  PROVE  Cardinality(VotersFor(k, currentTerm[k])') >= Majority
<1> DEFINE before == VotersFor(k, currentTerm[k])
           after == {v \in Node : <<v, k, currentTerm'[k]>> \in granted'}
<1>1. before \in SUBSET after /\ after \in SUBSET Node
  BY DEF VotersFor
<1>2. Cardinality(before) >= Majority
  BY DEF LeaderHasMajority
<1>3. VotersFor(k, currentTerm[k])' = after
  BY DEF VotersFor
<1> HIDE DEF before, after
<1>4. /\ Cardinality(before) <= Cardinality(after)
      /\ Cardinality(before) \in Nat /\ Cardinality(after) \in Nat
  BY <1>1, Voters
<1> QED
  BY <1>2, <1>3, <1>4, NodesCount

LEMMA LeaderStep == NotAPair /\ IInv /\ LeaderHasMajority /\ [Next]_vars => LeaderHasMajority'
<1> SUFFICES ASSUME NotAPair, IInv, LeaderHasMajority, [Next]_vars,
                    NEW k \in Node, role'[k] = "Leader"
             PROVE  Cardinality(VotersFor(k, currentTerm[k])') >= Majority
  BY DEF LeaderHasMajority, Majority
<1>1. ASSUME role[k] = "Leader", currentTerm'[k] = currentTerm[k], granted \subseteq granted'
      PROVE  Cardinality(VotersFor(k, currentTerm[k])') >= Majority
  BY <1>1, StaysLeader
<1>2. ASSUME NEW n \in Node, ElectionTimeout(n)
      PROVE  Cardinality(VotersFor(k, currentTerm[k])') >= Majority
  <2>1. CASE k = n
    <3>1. WinsAlone
      BY <1>2, <2>1 DEF ElectionTimeout, IInv, TypeOK
    <3>2. <<k, k, currentTerm'[k]>> \in granted'
      BY <1>2, <2>1 DEF ElectionTimeout
    <3>3. VotersFor(k, currentTerm[k])' \in SUBSET Node
          /\ {k} \in SUBSET VotersFor(k, currentTerm[k])'
      BY <3>2 DEF VotersFor
    <3>4. /\ Cardinality({k}) <= Cardinality(VotersFor(k, currentTerm[k])')
          /\ Cardinality(VotersFor(k, currentTerm[k])') \in Nat
      BY <3>3, Voters
    <3>5. Cardinality({k}) = 1
      BY FS_Singleton
    <3> QED
      BY <3>1, <3>4, <3>5, NodesCount
  <2>2. CASE k # n
    <3>1. role[k] = "Leader" /\ currentTerm'[k] = currentTerm[k] /\ granted \subseteq granted'
      BY <1>2, <2>2 DEF ElectionTimeout, IInv, TypeOK
    <3> QED
      BY <1>1, <3>1
  <2> QED
    BY <2>1, <2>2
<1>3. ASSUME NEW n \in Node, Heartbeat(n)
      PROVE  Cardinality(VotersFor(k, currentTerm[k])') >= Majority
  BY <1>1, <1>3 DEF Heartbeat, nodeVars
<1>4. ASSUME NEW n \in Node, HandleMessage(n)
      PROVE  Cardinality(VotersFor(k, currentTerm[k])') >= Majority
  <2>1. PICK m \in network : \/ HandleRequestVote(n, m)
                            \/ HandleVoteGranted(n, m)
                            \/ HandleAppendEntries(n, m)
    BY <1>4 DEF HandleMessage
  <2>2. role[k] = "Leader" /\ currentTerm'[k] = currentTerm[k] /\ granted \subseteq granted'
    BY <2>1 DEF HandleRequestVote, HandleVoteGranted, HandleAppendEntries, IInv, TypeOK
  <2> QED
    BY <1>1, <2>2
<1>5. ASSUME NEW n \in Node, TryPromote(n)
      PROVE  Cardinality(VotersFor(k, currentTerm[k])') >= Majority
  <2>1. UNCHANGED <<currentTerm, granted>>
    BY <1>5 DEF TryPromote
  <2>2. CASE k = n
    <3>1. votesReceived[k] >= Majority /\ votesReceived[k] <= Cardinality(Counted(k))
      BY <1>5, <2>2 DEF TryPromote, IInv, VotesAreCounted
    <3>2. /\ Counted(k) \in SUBSET VotersFor(k, currentTerm[k])
          /\ VotersFor(k, currentTerm[k]) \in SUBSET Node
          /\ Counted(k) \in SUBSET Node
      BY DEF Counted, VotersFor
    <3>3. /\ Cardinality(Counted(k)) <= Cardinality(VotersFor(k, currentTerm[k]))
          /\ Cardinality(Counted(k)) \in Nat
          /\ Cardinality(VotersFor(k, currentTerm[k])) \in Nat
      BY <3>2, Voters
    <3>4. VotersFor(k, currentTerm[k])' = VotersFor(k, currentTerm[k])
      BY <2>1 DEF VotersFor
    <3>5. votesReceived[k] \in Nat
      BY NodesCount DEF IInv, TypeOK
    <3> QED
      BY <3>1, <3>3, <3>4, <3>5, NodesCount
  <2>3. CASE k # n
    <3>1. role[k] = "Leader"
      BY <1>5, <2>3 DEF TryPromote, IInv, TypeOK
    <3> QED
      BY <1>1, <2>1, <3>1
  <2> QED
    BY <2>2, <2>3
<1>6. CASE UNCHANGED vars
  BY <1>1, <1>6 DEF vars, nodeVars
<1> QED
  BY <1>2, <1>3, <1>4, <1>5, <1>6 DEF Next

\* Except in a cluster of two, whoever leads a term has the votes of a majority
\* of different nodes in that very term, although handle_message counts replies
\* without looking at who sent them and however late they come in.
THEOREM LeadersAreElected == NotAPair => (Spec => []LeaderHasMajority)
<1> SUFFICES ASSUME NotAPair PROVE Spec => []LeaderHasMajority
  OBVIOUS
<1>1. IInv /\ LeaderHasMajority /\ [Next]_vars => LeaderHasMajority'
  BY LeaderStep
<1> QED
  BY <1>1, LeaderInit, SpecIInv, PTL DEF Spec

KeepsVote(n) ==
  (/\ currentTerm'[n] = currentTerm[n]
   /\ votedFor[n] # NoNode
   /\ votedFor'[n] # votedFor[n]) =>
     \E m \in network \ network' : m.type = "AppendEntries" /\ m.term = currentTerm[n]

TermAdvances(n) ==
  /\ currentTerm'[n] >= currentTerm[n]
  /\ (currentTerm'[n] > currentTerm[n] /\ role'[n] # "Follower") => votedFor'[n] = n

LEMMA NextOnOneNode ==
  ASSUME IInv, [Next]_vars, NEW k \in Node
  PROVE  KeepsVote(k) /\ TermAdvances(k)
<1>1. currentTerm[k] \in Nat
  BY DEF IInv, TypeOK
<1>2. ASSUME currentTerm'[k] = currentTerm[k], votedFor'[k] = votedFor[k]
      PROVE  KeepsVote(k) /\ TermAdvances(k)
  BY <1>1, <1>2 DEF KeepsVote, TermAdvances
<1>3. ASSUME NEW n \in Node, ElectionTimeout(n) PROVE KeepsVote(k) /\ TermAdvances(k)
  BY <1>1, <1>2, <1>3 DEF ElectionTimeout, KeepsVote, TermAdvances, IInv, TypeOK
<1>4. ASSUME NEW n \in Node, Heartbeat(n) \/ TryPromote(n)
      PROVE  KeepsVote(k) /\ TermAdvances(k)
  BY <1>2, <1>4 DEF Heartbeat, TryPromote, nodeVars
<1>5. ASSUME NEW n \in Node, NEW m \in network, m.to = n, HandleRequestVote(n, m)
      PROVE  KeepsVote(k) /\ TermAdvances(k)
  <2>1. CASE k = n
    BY <1>1, <1>5, <2>1, MessageParts
       DEF HandleRequestVote, Grants, KeepsVote, TermAdvances, IInv, TypeOK
  <2>2. CASE k # n
    BY <1>2, <1>5, <2>2 DEF HandleRequestVote, IInv, TypeOK
  <2> QED
    BY <2>1, <2>2
<1>6. ASSUME NEW n \in Node, NEW m \in network, m.to = n, HandleVoteGranted(n, m)
      PROVE  KeepsVote(k) /\ TermAdvances(k)
  BY <1>2, <1>6 DEF HandleVoteGranted
<1>7. ASSUME NEW n \in Node, NEW m \in network, m.to = n, HandleAppendEntries(n, m)
      PROVE  KeepsVote(k) /\ TermAdvances(k)
  <2>1. CASE k = n
    BY <1>1, <1>7, <2>1, MessageParts
       DEF HandleAppendEntries, KeepsVote, TermAdvances, IInv, TypeOK
  <2>2. CASE k # n
    BY <1>2, <1>7, <2>2 DEF HandleAppendEntries, IInv, TypeOK
  <2> QED
    BY <2>1, <2>2
<1>8. CASE UNCHANGED vars
  BY <1>2, <1>8 DEF vars, nodeVars
<1> QED
  BY <1>3, <1>4, <1>5, <1>6, <1>7, <1>8 DEF Next, HandleMessage

\* A node changes its vote within a term only when a heartbeat of that term, and
\* so a leader of it, has reached it.
THEOREM VotesAreKept == Spec => VoteKeptUntilLeader
<1>1. IInv /\ [Next]_vars => [\A n \in Node : KeepsVote(n)]_vars
  BY NextOnOneNode
<1> QED
  BY <1>1, SpecIInv, PTL DEF Spec, VoteKeptUntilLeader, KeepsVote

\* Terms do not go back, and no candidate or leader is carried into a later term:
\* it steps down first or starts an election of its own.
THEOREM TermsNeverGoBack == Spec => TermsAdvance
<1>1. IInv /\ [Next]_vars => [\A n \in Node : TermAdvances(n)]_vars
  BY NextOnOneNode
<1> QED
  BY <1>1, SpecIInv, PTL DEF Spec, TermsAdvance, TermAdvances

\* Somebody voted for both of any two leaders of one term.
TwiceGranted == \A m, n \in Node :
  (role[m] = "Leader" /\ role[n] = "Leader" /\ currentTerm[m] = currentTerm[n])
    => \E v \in Node : {<<v, m, currentTerm[m]>>, <<v, n, currentTerm[n]>>} \subseteq granted

\* Two nodes that lead one term, as they may, owe it to a voter of both: what
\* breaks election safety is a vote taken back, never a miscount of votes
\* (RaftNode::handle_message).
THEOREM RivalsShareVoter == NotAPair => (Spec => []TwiceGranted)
<1> SUFFICES ASSUME NotAPair PROVE Spec => []TwiceGranted
  OBVIOUS
<1>1. LeaderHasMajority => TwiceGranted
  <2> SUFFICES ASSUME LeaderHasMajority, NEW m \in Node, NEW n \in Node,
                      role[m] = "Leader", role[n] = "Leader", currentTerm[m] = currentTerm[n]
               PROVE  \E v \in Node : {<<v, m, currentTerm[m]>>, <<v, n, currentTerm[n]>>}
                                        \subseteq granted
    BY DEF TwiceGranted
  <2> DEFINE S == VotersFor(m, currentTerm[m])
             T == VotersFor(n, currentTerm[n])
  <2>1. S \subseteq Node /\ T \subseteq Node
    BY DEF VotersFor
  <2>2. Cardinality(S) >= Majority /\ Cardinality(T) >= Majority
    BY DEF LeaderHasMajority
  <2>3. /\ Cardinality(S) \in Nat /\ Cardinality(T) \in Nat /\ Cardinality(Node) \in Nat
        /\ IsFiniteSet(Node)
    BY <2>1, RaftAssumption, FS_Subset, FS_CardinalityType
  <2>4. Cardinality(S) + Cardinality(T) > Cardinality(Node)
    BY <2>2, <2>3 DEF Majority
  <2>5. S \cap T # {}
    BY <2>1, <2>3, <2>4, FS_MajoritiesIntersect
  <2> QED
    BY <2>5 DEF VotersFor
<1> QED
  BY <1>1, LeadersAreElected, PTL

=============================================================================

-------------------------------- MODULE Raft ---------------------------------
(***************************************************************************)
(* RaftNode (src/src/topology/raft.rs): cluster-head election among the    *)
(* nodes of a cluster.  tick takes any elapsed time, so an election        *)
(* timeout or a heartbeat may be due at any moment.  No code appends to a  *)
(* log: every log stays empty and AppendEntries is a heartbeat.  Replies   *)
(* handle_message ignores are not sent: its Ack, and a vote not granted.   *)
(*                                                                         *)
(* The code leaves to its caller that a reply goes to the node that asked, *)
(* that messages arrive at most once, which peers tick is told of, and     *)
(* when try_promote is called and for how large a cluster.                 *)
(***************************************************************************)
EXTENDS Integers, FiniteSets

CONSTANTS Node, NoNode, MaxTerm   \* MaxTerm bounds the elections

ASSUME RaftAssumption == /\ IsFiniteSet(Node) /\ Node # {}
                         /\ NoNode \notin Node
                         /\ MaxTerm \in Nat

VARIABLES role,            \* Follower, Candidate or Leader
          currentTerm,
          votedFor,
          votesReceived,
          network,         \* messages on their way
          granted          \* history: <<voter, candidate, term>> of each vote

nodeVars == <<role, currentTerm, votedFor, votesReceived>>
vars == <<nodeVars, network, granted>>

Role == {"Follower", "Candidate", "Leader"}

RequestVote == [type : {"RequestVote"}, term : Nat, from : Node, to : Node]
VoteGranted == [type : {"VoteGranted"}, term : Nat, from : Node, to : Node]
AppendEntries == [type : {"AppendEntries"}, term : Nat, from : Node, to : Node]

TypeOK == /\ role \in [Node -> Role]
          /\ currentTerm \in [Node -> Nat]
          /\ votedFor \in [Node -> Node \cup {NoNode}]
          /\ votesReceived \in [Node -> 0 .. Cardinality(Node)]
          /\ network \subseteq RequestVote \cup VoteGranted \cup AppendEntries
          /\ granted \subseteq Node \X Node \X Nat

Init == /\ role = [n \in Node |-> "Follower"]
        /\ currentTerm = [n \in Node |-> 0]
        /\ votedFor = [n \in Node |-> NoNode]
        /\ votesReceived = [n \in Node |-> 0]
        /\ network = {}
        /\ granted = {}

-----------------------------------------------------------------------------

Others(n) == Node \ {n}

Majority == Cardinality(Node) \div 2 + 1

\* tick is told of the other nodes: with one of them its quorum is one.
WinsAlone == Cardinality(Node) - 1 <= 1

\* tick of a follower or candidate whose election timeout is over.
ElectionTimeout(n) ==
  /\ role[n] # "Leader"
  /\ currentTerm[n] < MaxTerm
  /\ currentTerm' = [currentTerm EXCEPT ![n] = @ + 1]
  /\ role' = [role EXCEPT ![n] = IF WinsAlone THEN "Leader" ELSE "Candidate"]
  /\ votedFor' = [votedFor EXCEPT ![n] = n]
  /\ votesReceived' = [votesReceived EXCEPT ![n] = 1]
  /\ granted' = granted \cup {<<n, n, currentTerm'[n]>>}
  /\ network' = network \cup {[type |-> "RequestVote", term |-> currentTerm'[n],
                               from |-> n, to |-> p] : p \in Others(n)}

\* tick of a leader that is due a heartbeat.
Heartbeat(n) ==
  /\ role[n] = "Leader"
  /\ network' = network \cup {[type |-> "AppendEntries", term |-> currentTerm[n],
                               from |-> n, to |-> p] : p \in Others(n)}
  /\ UNCHANGED <<nodeVars, granted>>

-----------------------------------------------------------------------------
(* handle_message *)

\* Mutant: a vote given in the term does not count against another candidate.
GrantsAnyone(n, m) == m.term >= currentTerm[n]

Grants(n, m) ==
  \/ m.term > currentTerm[n]
  \/ m.term = currentTerm[n] /\ votedFor[n] \in {NoNode, m.from}

HandleRequestVote(n, m) ==
  /\ m.type = "RequestVote"
  /\ IF m.term > currentTerm[n]
     THEN /\ currentTerm' = [currentTerm EXCEPT ![n] = m.term]
          /\ role' = [role EXCEPT ![n] = "Follower"]
     ELSE UNCHANGED <<currentTerm, role>>
  /\ IF Grants(n, m)
     THEN /\ votedFor' = [votedFor EXCEPT ![n] = m.from]
          /\ granted' = granted \cup {<<n, m.from, m.term>>}
          /\ network' = (network \ {m}) \cup
               {[type |-> "VoteGranted", term |-> m.term, from |-> n, to |-> m.from]}
     ELSE /\ network' = network \ {m}
          /\ UNCHANGED <<votedFor, granted>>
  /\ UNCHANGED votesReceived

\* Mutant: a vote of an earlier term counts.
CountsAnyTerm(n, m) == role[n] = "Candidate"

\* The voter is not looked at.
Counts(n, m) == m.term = currentTerm[n] /\ role[n] = "Candidate"

HandleVoteGranted(n, m) ==
  /\ m.type = "VoteGranted"
  /\ votesReceived' = IF Counts(n, m) THEN [votesReceived EXCEPT ![n] = @ + 1]
                                      ELSE votesReceived
  /\ network' = network \ {m}
  /\ UNCHANGED <<role, currentTerm, votedFor, granted>>

\* Mutant: a heartbeat of any term is obeyed.
HandleAnyAppendEntries(n, m) ==
  /\ m.type = "AppendEntries"
  /\ currentTerm' = [currentTerm EXCEPT ![n] = m.term]
  /\ role' = [role EXCEPT ![n] = "Follower"]
  /\ votedFor' = [votedFor EXCEPT ![n] = NoNode]
  /\ network' = network \ {m}
  /\ UNCHANGED <<votesReceived, granted>>

\* A heartbeat of the current term or a later one; an earlier one changes nothing.
HandleAppendEntries(n, m) ==
  /\ m.type = "AppendEntries"
  /\ IF m.term >= currentTerm[n]
     THEN /\ currentTerm' = [currentTerm EXCEPT ![n] = m.term]
          /\ role' = [role EXCEPT ![n] = "Follower"]
          /\ votedFor' = [votedFor EXCEPT ![n] = NoNode]
     ELSE UNCHANGED <<currentTerm, role, votedFor>>
  /\ network' = network \ {m}
  /\ UNCHANGED <<votesReceived, granted>>

HandleMessage(n) ==
  \E m \in network : /\ m.to = n
                     /\ \/ HandleRequestVote(n, m)
                        \/ HandleVoteGranted(n, m)
                        \/ HandleAppendEntries(n, m)

TryPromote(n) ==
  /\ role[n] = "Candidate"
  /\ votesReceived[n] >= Majority
  /\ role' = [role EXCEPT ![n] = "Leader"]
  /\ UNCHANGED <<currentTerm, votedFor, votesReceived, network, granted>>

\* A lost message is one that stays in the network.
Next == \E n \in Node : \/ ElectionTimeout(n)
                       \/ Heartbeat(n)
                       \/ HandleMessage(n)
                       \/ TryPromote(n)

Spec == Init /\ [][Next]_vars

-----------------------------------------------------------------------------

Leaders(t) == {n \in Node : role[n] = "Leader" /\ currentTerm[n] = t}

VotersFor(n, t) == {v \in Node : <<v, n, t>> \in granted}

\* A node leads a term only with the votes of a majority of different nodes in
\* that very term, however late votes of other elections come in.
LeaderHasMajority ==
  \A n \in Node : role[n] = "Leader" =>
    Cardinality(VotersFor(n, currentTerm[n])) >= Majority

\* A node that changes its vote within a term has heard of a leader of that term:
\* either it has none, or it takes back its vote because of a heartbeat.
VoteKeptUntilLeader ==
  [][\A n \in Node :
       (/\ currentTerm'[n] = currentTerm[n]
        /\ votedFor[n] # NoNode
        /\ votedFor'[n] # votedFor[n]) =>
          \E m \in network \ network' : m.type = "AppendEntries" /\ m.term = currentTerm[n]]_vars

\* Terms do not go back, and a candidate or leader is never put into a later
\* term without having become a follower or started an election of its own.
TermsAdvance ==
  [][\A n \in Node :
       /\ currentTerm'[n] >= currentTerm[n]
       /\ (currentTerm'[n] > currentTerm[n] /\ role'[n] # "Follower") =>
            votedFor'[n] = n]_vars

\* Election safety, what a cluster head elected by Raft consensus promises.
OneLeaderPerTerm == \A t \in 0 .. MaxTerm : Cardinality(Leaders(t)) <= 1

=============================================================================

--------------------------------- MODULE Gossip --------------------------------
(***************************************************************************)
(* GossipState (src/src/topology/gossip.rs): a versioned value that nodes  *)
(* spread to a few random others, who merge it into theirs.  A node may    *)
(* bump any copy it holds, and bump keeps the origin of the copy: a state  *)
(* is foreign when somebody else wrote it in the name of its origin.       *)
(***************************************************************************)
EXTENDS Integers, FiniteSets

CONSTANTS GossipNode,        \* ids, compared as numbers
          Fanout, MaxVersion

ASSUME GossipAssumption == /\ GossipNode \subseteq Nat /\ IsFiniteSet(GossipNode)
                           /\ {Fanout, MaxVersion} \subseteq Nat \ {0}

VARIABLE replica             \* the GossipState each node holds

gossipVars == replica

\* A value is named by its writer: nobody writes twice at one version and origin.
GossipState == [value : GossipNode, version : 1 .. MaxVersion, origin : GossipNode]

New(n) == [value |-> n, version |-> 1, origin |-> n]

\* Everybody begins with a value of its own, or with a copy of one.
GossipInit == \/ replica = [n \in GossipNode |-> New(n)]
              \/ \E n \in GossipNode : replica = [m \in GossipNode |-> New(n)]

\* Mutant: a tie between origins goes to what came last.
MergeByVersion(a, b) == IF a.version > b.version THEN a ELSE b

Merge(a, b) == IF a.version > b.version THEN a
               ELSE IF b.version > a.version THEN b
               ELSE IF a.origin >= b.origin THEN a ELSE b

\* bump, of whatever copy the node holds, with the value it is for.
Bump(n) == /\ replica[n].version < MaxVersion
           /\ replica' = [replica EXCEPT ![n].version = @ + 1, ![n].value = n]

SpreadCandidates(n) == GossipNode \ {n, replica[n].origin}

\* As many of the candidates, whichever, as the fan-out allows.
Spread(n) ==
  LET candidates == SpreadCandidates(n)
      size == IF Cardinality(candidates) < Fanout THEN Cardinality(candidates) ELSE Fanout
  IN  {chosen \in SUBSET candidates : Cardinality(chosen) = size}

GossipTo(n, chosen) ==
  /\ chosen # {}
  /\ replica' = [m \in GossipNode |->
                   IF m \in chosen THEN Merge(replica[m], replica[n]) ELSE replica[m]]

GossipNext == \E n \in GossipNode :
                \/ Bump(n)
                \/ \E chosen \in Spread(n) : GossipTo(n, chosen)

-----------------------------------------------------------------------------

\* The order replicas advance in: by version, and by origin where that ties.
Behind(a, b) == a.version < b.version \/ (a.version = b.version /\ a.origin <= b.origin)

\* Nothing anybody may still tell anybody changes a replica.
Settled == \A n \in GossipNode : \A chosen \in Spread(n) :
             \A m \in chosen : Merge(replica[m], replica[n]) = replica[m]

ForeignWrite(a) == a.value # a.origin

\* How two replicas may differ at rest: one stamp for two values, or an origin
\* that is behind because nobody tells it what goes by its name.
SameStamp(a, b) == a.version = b.version /\ a.origin = b.origin
Untold(n, a) == n = a.origin /\ ForeignWrite(a) /\ Behind(replica[n], a)

\* Writers in different places and spreads that skip the origin: no replica goes
\* back to a state it has left, and where gossip comes to rest two replicas are
\* the same, unless a foreign write gave the stamp they share to two values, or
\* one is the origin and the other a foreign write it is never told.
ReplicasConverge ==
  /\ [][\A n \in GossipNode : Behind(replica[n], replica'[n])]_gossipVars
  /\ [](Settled => \A m, n \in GossipNode :
           \/ replica[m] = replica[n]
           \/ /\ SameStamp(replica[m], replica[n])
              /\ ForeignWrite(replica[m]) \/ ForeignWrite(replica[n])
           \/ Untold(m, replica[n]) \/ Untold(n, replica[m]))
=============================================================================

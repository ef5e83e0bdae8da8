--------------------------------- MODULE Auction -------------------------------
(***************************************************************************)
(* AuctionAllocator (src/src/allocation/auction.rs) over the members of a  *)
(* MeshTopology (src/src/topology/mesh.rs): tasks are announced, nodes bid *)
(* and drop out, and now and then everything pending is resolved.          *)
(***************************************************************************)
EXTENDS Integers, Sequences, SequencesExt

CONSTANTS Task, Bidder,
          Score,             \* finite bid scores, lower is better
          MaxBids, MaxAwards

ASSUME AuctionAssumption == /\ Score \subseteq Nat
                            /\ {MaxBids, MaxAwards} \subseteq Nat

\* What a score is of a drone with an unreadable battery or position.
NotANumber == -1

VARIABLES nodes,             \* of the mesh
          clusterHead,
          pendingTasks,
          bids,              \* for each task, in the order they came
          awards,            \* history: results of resolve, task and winner
          bidders            \* history: who bid while the task was open

auctionVars == <<nodes, clusterHead, pendingTasks, bids, awards, bidders>>

NoNode == "none"
Bid == [node : Bidder, score : Score \cup {NotANumber}]

AuctionInit == /\ nodes = {} /\ clusterHead = NoNode
               /\ pendingTasks = {}
               /\ bids = [t \in Task |-> <<>>]
               /\ awards = <<>>
               /\ bidders = [t \in Task |-> {}]

-----------------------------------------------------------------------------
(* MeshTopology *)

UpdateNode(n) == /\ nodes' = nodes \cup {n}
                 /\ clusterHead' \in {clusterHead, n}
                 /\ UNCHANGED <<pendingTasks, bids, awards, bidders>>

RemoveNode(n) == /\ n \in nodes
                 /\ nodes' = nodes \ {n}
                 /\ clusterHead' = IF clusterHead = n THEN NoNode ELSE clusterHead
                 /\ UNCHANGED <<pendingTasks, bids, awards, bidders>>

-----------------------------------------------------------------------------
(* AuctionAllocator *)

\* Announcing an id again replaces the task and keeps its bids.
AnnounceTask(t) == /\ pendingTasks' = pendingTasks \cup {t}
                   /\ UNCHANGED <<nodes, clusterHead, bids, awards, bidders>>

\* Mutant: a bid that comes too late is kept for the next time.
AcceptsLate(t) == TRUE

Accepts(t) == t \in pendingTasks

SubmitBid(t, b) ==
  /\ b.node \in nodes
  /\ Len(bids[t]) < MaxBids
  /\ bids' = IF Accepts(t) THEN [bids EXCEPT ![t] = Append(@, b)] ELSE bids
  /\ bidders' = IF t \in pendingTasks THEN [bidders EXCEPT ![t] = @ \cup {b.node}] ELSE bidders
  /\ UNCHANGED <<nodes, clusterHead, pendingTasks, awards>>

\* partial_cmp, with what cannot be compared taken as equal.
Beats(b, a) == NotANumber \notin {a.score, b.score} /\ b.score < a.score

\* min_by: the first of several that are equal.
Best(offers) == FoldLeft(LAMBDA best, b : IF Beats(b, best) THEN b ELSE best,
                         Head(offers), Tail(offers))

\* One pass over the tasks that are pending, in any order.
Resolve ==
  LET won == {t \in pendingTasks : bids[t] # <<>>}
  IN  /\ won # {}
      /\ Len(awards) < MaxAwards
      /\ \E order \in SetToSeqs(won) :
           awards' = awards \o [k \in 1 .. Len(order) |->
                                  [task |-> order[k], winner |-> Best(bids[order[k]]).node,
                                   open |-> bidders[order[k]]]]
      /\ bids' = [t \in Task |-> IF t \in won THEN <<>> ELSE bids[t]]
      /\ pendingTasks' = pendingTasks \ won
      /\ bidders' = [t \in Task |-> IF t \in won THEN {} ELSE bidders[t]]
      /\ UNCHANGED <<nodes, clusterHead>>

AuctionNext == \/ \E n \in Bidder : UpdateNode(n) \/ RemoveNode(n)
               \/ \E t \in Task : AnnounceTask(t)
               \/ \E t \in Task, b \in Bid : SubmitBid(t, b)
               \/ Resolve

-----------------------------------------------------------------------------

\* Whatever comes late or again, an award goes to somebody who bid for the
\* task between its last award and this one.
AwardedToBidder == \A k \in DOMAIN awards : awards[k].winner \in awards[k].open
=============================================================================

---------------------------- MODULE AdvisoryStore ----------------------------
(***************************************************************************)
(* From a verified advisory to a decision: LatentMeshNode (src/src/        *)
(* latentmesh/node.rs) admits advisories of a source in order and stamps   *)
(* them with an expiry, the deployment hands them to the orchestrator in   *)
(* whatever order it gets to it, and SwarmOrchestrator (src/src/           *)
(* orchestrator/mod.rs) stores the newest of each source, drops expired    *)
(* ones and answers who is eligible for new cooperative work.              *)
(*                                                                         *)
(* A mark stands for (epoch, logical_sequence), which the store compares   *)
(* as one ordered pair.                                                    *)
(***************************************************************************)
EXTENDS Naturals

CONSTANTS Source, NoAdvisory,
          AdvisoryTtl,     \* RxConfig::advisory_ttl_ms
          MaxContextAge,   \* CapabilityConfig::max_context_age_ms
          MaxMark, MaxNow  \* bounds

Advisory == [source : Source, mark : 1 .. MaxMark, expires : Nat, fit : BOOLEAN]

ASSUME StoreAssumption == /\ NoAdvisory \notin Advisory
                          /\ AdvisoryTtl \in Nat /\ MaxContextAge \in Nat
                          /\ MaxMark \in Nat /\ MaxNow \in Nat

VARIABLES admitted,     \* newest mark the node admitted of each source
          handed,       \* advisories out of the node, not yet stored
          advisories,   \* latentmesh_advisories
          received,     \* history: newest mark stored of each source
          now

vars == <<admitted, handed, advisories, received, now>>

TypeOK == /\ admitted \in [Source -> 0 .. MaxMark]
          /\ handed \subseteq Advisory
          /\ advisories \in [Source -> Advisory \cup {NoAdvisory}]
          /\ received \in [Source -> 0 .. MaxMark]
          /\ now \in 0 .. MaxNow

Init == /\ admitted = [s \in Source |-> 0]
        /\ handed = {}
        /\ advisories = [s \in Source |-> NoAdvisory]
        /\ received = [s \in Source |-> 0]
        /\ now = 0

-----------------------------------------------------------------------------

Min2(a, b) == IF a < b THEN a ELSE b

\* LatentMeshNode::ingest_frame_bytes: an admitted message becomes a verified
\* advisory, good for the shorter of the two lifetimes.  fit says whether it
\* reports a nominal drone with battery and link to spare.
Ingest(s) ==
  \E mark \in admitted[s] + 1 .. MaxMark, fit \in BOOLEAN :
    /\ admitted' = [admitted EXCEPT ![s] = mark]
    /\ handed' = handed \cup {[source |-> s, mark |-> mark, fit |-> fit,
                               expires |-> now + Min2(AdvisoryTtl, MaxContextAge)]}
    /\ UNCHANGED <<advisories, received, now>>

\* Mutant: whatever comes last is stored.
SupersedesAlways(a) == TRUE

Supersedes(a) == advisories[a.source] # NoAdvisory =>
                   a.mark > advisories[a.source].mark

\* receive_latentmesh_advisory: an advisory no newer than the one held is
\* dropped, one that is already expired is not.
ReceiveLatentmeshAdvisory(a) ==
  /\ handed' = handed \ {a}
  /\ IF Supersedes(a)
     THEN /\ advisories' = [advisories EXCEPT ![a.source] = a]
          /\ received' = [received EXCEPT ![a.source] =
                            IF a.mark > @ THEN a.mark ELSE @]
     ELSE UNCHANGED <<advisories, received>>
  /\ UNCHANGED <<admitted, now>>

Current(a) == now <= a.expires

ExpireLatentmeshAdvisories ==
  /\ advisories' = [s \in Source |->
                      IF advisories[s] # NoAdvisory /\ ~Current(advisories[s])
                      THEN NoAdvisory ELSE advisories[s]]
  /\ UNCHANGED <<admitted, handed, received, now>>

\* Mutant: what is stored is taken to be current.
PeerIsEligibleUnlessUnfit(s) ==
  advisories[s] # NoAdvisory /\ advisories[s].fit

LatentmeshPeerIsEligible(s) ==
  /\ advisories[s] # NoAdvisory
  /\ Current(advisories[s])
  /\ advisories[s].fit

Tick == /\ now < MaxNow
        /\ now' = now + 1
        /\ UNCHANGED <<admitted, handed, advisories, received>>

Next == \/ \E s \in Source : Ingest(s)
        \/ \E a \in handed : ReceiveLatentmeshAdvisory(a)
        \/ ExpireLatentmeshAdvisories
        \/ Tick

Spec == Init /\ [][Next]_vars

-----------------------------------------------------------------------------

\* Expiry forgets a source's high-water mark, and what was handed over before
\* may still arrive after it.  A peer is nevertheless never judged by an older
\* report than the newest the store has seen of it.
EligibleByNewest ==
  \A s \in Source :
    LatentmeshPeerIsEligible(s) => advisories[s].mark = received[s]

\* While a report that rules a peer out is current and stored, it stays so:
\* only a newer report brings the peer back.
UnfitUntilNewer ==
  [][\A s \in Source :
       (/\ advisories[s] # NoAdvisory /\ Current(advisories[s])
        /\ ~advisories[s].fit
        /\ LatentmeshPeerIsEligible(s)')
       => advisories'[s].mark > advisories[s].mark]_vars

=============================================================================

--------------------------- MODULE AdvisoryLedger ----------------------------
(***************************************************************************)
(* What the LatentMesh session layer promises a drone about its peers: for *)
(* every source a mark (epoch, sequence) that only a restart may move      *)
(* back, and then no further than the mark last made durable, and a view   *)
(* that is either withheld or exactly a state the source published under   *)
(* the current mark.                                                       *)
(***************************************************************************)
EXTENDS Integers

CONSTANTS Source, State, NoState

VARIABLES published,   \* what the sources ever published
          mark,        \* newest (epoch, sequence) admitted of each source
          view,        \* state shown for each source, or NoState
          saved        \* durable marks

vars == <<published, mark, view, saved>>

Mark == (Nat \X Nat) \cup {<<-1, -1>>}
NoMark == <<-1, -1>>

Newer(a, b) == a[1] > b[1] \/ (a[1] = b[1] /\ a[2] > b[2])

Publication == [src : Source, mark : Nat \X Nat, state : State]

TypeOK == /\ published \subseteq Publication
          /\ mark \in [Source -> Mark]
          /\ view \in [Source -> State \cup {NoState}]
          /\ saved \in [Source -> Mark]

Init == /\ published = {}
        /\ mark = [s \in Source |-> NoMark]
        /\ view = [s \in Source |-> NoState]
        /\ saved = [s \in Source |-> NoMark]

Publish == /\ published \subseteq published'
           /\ published' \subseteq Publication
           /\ UNCHANGED <<mark, view, saved>>

Admit == \E p \in published :
  /\ Newer(p.mark, mark[p.src])
  /\ mark' = [mark EXCEPT ![p.src] = p.mark]
  /\ view' = [view EXCEPT ![p.src] = p.state]
  /\ UNCHANGED <<published, saved>>

\* Some views age out together; their marks stay.
Withdraw == \E S \in SUBSET Source :
  /\ view' = [s \in Source |-> IF s \in S THEN NoState ELSE view[s]]
  /\ UNCHANGED <<published, mark, saved>>

Save == /\ saved' = mark
        /\ UNCHANGED <<published, mark, view>>

Recover == /\ mark' = saved
           /\ view' = [s \in Source |-> NoState]
           /\ UNCHANGED <<published, saved>>

Next == Publish \/ Admit \/ Withdraw \/ Save \/ Recover

Spec == Init /\ [][Next]_vars

=============================================================================

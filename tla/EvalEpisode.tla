------------------------------ MODULE EvalEpisode ------------------------------
(***************************************************************************)
(* run_episode (src/src/evals/runner.rs): drones fly a pattern over an     *)
(* area and the episode measures how well: cells marked, collisions, the   *)
(* first sight of a victim and the GDOP (gdop.rs) of who saw it.  Lengths  *)
(* are in half units, as the waypoints of Patterns.  The estimate of the   *)
(* place seen and its noise are left out.                                  *)
(***************************************************************************)
EXTENDS Patterns, Sequences, FiniteSetsExt

CONSTANTS EvalContexts,      \* areas, swarms and scan widths of the evaluations
          EvalSteps,         \* steps of an episode, by pattern; other patterns are not run
          EvalVictim,        \* [x, y]
          MaxVisited,        \* 32
          MinEvalSeparation  \* min_separation_m

\* The strips of a swarm are of whole width: the unit of length is that fine.
ASSUME EvalAssumption ==
  /\ EvalContexts \subseteq [swarm : Nat \ {0}, width : Nat \ {0}, height : Nat \ {0},
                             scan : Nat \ {0}]
  /\ \A a \in EvalContexts : a.width % a.swarm = 0
  /\ DOMAIN EvalSteps \subseteq FlightPattern /\ \A p \in DOMAIN EvalSteps : EvalSteps[p] \in Nat
  /\ EvalVictim \in Seq([x : Int, y : Int])
  /\ MaxVisited \in Nat /\ MinEvalSeparation \in Nat \ {0}

NotSeen == [step |-> 0, views |-> 0, gdop |-> FALSE]

VARIABLES flight, area,      \* pattern and context of the episode
          coverCount,        \* by cell <<column, row>>
          visited,           \* the ring of recent places
          collisions,
          sighting,          \* of the first victim seen: when, by how many, whether
                             \* their geometry gives a GDOP
          flown              \* history: where everybody was after each step

episodeVars == <<flight, area, coverCount, visited, collisions, sighting, flown>>

Flyer == 0 .. area.swarm - 1

\* As many cells as scan widths, of equal size: narrower than a scan width, then,
\* where that does not divide the area.
Columns(a) == Greater(Ceil(a.width, a.scan), 1)
Rows(a) == Greater(Ceil(a.height, a.scan), 1)
Cells(a) == (1 .. Columns(a)) \X (1 .. Rows(a))

CellOf(p, a) == <<Lesser((p.x * Columns(a)) \div Twice(a.width), Columns(a) - 1) + 1,
                  Lesser((p.y * Rows(a)) \div Twice(a.height), Rows(a) - 1) + 1>>

Square2(n) == n * n
Distance2(p, q) == Square2(p.x - q.x) + Square2(p.y - q.y)

EpisodeInit == /\ flight \in DOMAIN EvalSteps
               /\ area \in EvalContexts
               /\ coverCount = [c \in Cells(area) |-> 0]
               /\ visited = <<>>
               /\ collisions = 0
               /\ sighting = NotSeen
               /\ flown = <<>>

-----------------------------------------------------------------------------

CoverAfter(there) == [c \in Cells(area) |->
                  coverCount[c] + Cardinality({d \in Flyer : CellOf(there[d], area) = c})]

\* The newest MaxVisited of a list.
Newest(s) == SubSeq(s, Greater(Len(s) - MaxVisited, 0) + 1, Len(s))

InTurn(there) == [k \in 1 .. area.swarm |-> there[k - 1]]

TooClose(there) == {pair \in Flyer \X Flyer :
                    /\ pair[1] < pair[2]
                    /\ Distance2(there[pair[1]], there[pair[2]]) < Square2(Twice(MinEvalSeparation))}

Contributors(v, there) == {d \in Flyer : Distance2(there[d], v) <= Square2(Twice(area.scan))}

\* Two of them at least, none upon the victim, and not all on one line with it.
GdopDefined(seers, v, there) ==
  /\ \A d \in seers : Distance2(there[d], v) > 0
  /\ \E d, e \in seers : (there[d].x - v.x) * (there[e].y - v.y) # (there[d].y - v.y) * (there[e].x - v.x)

\* The first victim in the list that anybody sees.
Seen(there) == {k \in DOMAIN EvalVictim : Contributors(EvalVictim[k], there) # {}}

Sighted(there, step) ==
  IF Seen(there) = {} THEN NotSeen
  ELSE LET v == EvalVictim[Min(Seen(there))]
           seers == Contributors(v, there)
       IN  [step |-> step, views |-> Cardinality(seers), gdop |-> GdopDefined(seers, v, there)]

\* Mutant: a later sight replaces the first.
DetectAnew(there, step) == IF Seen(there) # {} THEN Sighted(there, step) ELSE sighting

Detect(there, step) == IF sighting = NotSeen THEN Sighted(there, step) ELSE sighting

EpisodeStep ==
  LET step == Len(flown) + 1
  IN  /\ step <= EvalSteps[flight]
      /\ \E there \in [Flyer -> UNION {NextTargets(flight, area, d, step - 1) : d \in Flyer}] :
           /\ \A d \in Flyer : there[d] \in NextTargets(flight, area, d, step - 1)
           /\ coverCount' = CoverAfter(there)
           /\ visited' = Newest(visited \o InTurn(there))
           /\ collisions' = collisions + Cardinality(TooClose(there))
           /\ sighting' = Detect(there, step)
           /\ flown' = Append(flown, there)
      /\ UNCHANGED <<flight, area>>

Scanned == {c \in Cells(area) : coverCount[c] > 0}
Overlapped == {c \in Cells(area) : coverCount[c] > 1}

-----------------------------------------------------------------------------

\* Time to detection is the time of the first sight, by everybody in range then.
FirstSightCounts ==
  LET sights == {k \in DOMAIN flown : Seen(flown[k]) # {}}
  IN  sighting = IF sights = {} THEN NotSeen ELSE Sighted(flown[Min(sights)], Min(sights))

\* The ring holds the newest places of everybody, oldest first.
RingIsNewest ==
  \A k \in DOMAIN visited :
    LET back == Len(visited) - k
        step == Len(flown) - (back \div area.swarm)
    IN  visited[k] = flown[step][area.swarm - 1 - (back % area.swarm)]

ScanDivides(length) == length % area.scan = 0

\* What the comparison of the patterns rests on: where the scan width divides the
\* strips, one sweep of the partition marks every cell once, and drones whose strips
\* are wide enough never collide.  Unpartitioned, all drones fly the same lawnmower,
\* so they collide at every step, and no sight of theirs has a GDOP.
\* (Where it does not divide them, a sweep may leave cells out.)
PatternsCompare ==
  /\ /\ flight = "PartitionedLawnmower" /\ Len(flown) = Sweep(flight, area)
     /\ ScanDivides(area.width \div area.swarm) /\ ScanDivides(area.height)
     => Scanned = Cells(area) /\ Overlapped = {}
  /\ flight = "PartitionedLawnmower" /\ area.width \div area.swarm >= MinEvalSeparation
     => collisions = 0
  /\ flight = "Boustrophedon" =>
       /\ 2 * collisions = Len(flown) * area.swarm * (area.swarm - 1)
       /\ ~sighting.gdop

EpisodeAccounted == FirstSightCounts /\ RingIsNewest /\ PatternsCompare

\* What the patterns are flown for, and what their evaluation says of it.
PatternsCover == SweepsOwnStrip /\ EpisodeAccounted
=============================================================================

-------------------------- MODULE MCDecisionLayer --------------------------
(***************************************************************************)
(* Two sessions, a hotel with two Decisions over two days and a second     *)
(* hotel that shares only the run sequence.                                *)
(***************************************************************************)
EXTENDS DecisionLayer

CONSTANTS h1, h2, d1, d2

MCEval(d, s, r) == [identity |-> d, status |-> s, reading |-> r]

MCJob(h, day, evaluations, c) ==
  [property |-> h, asOf |-> day, evaluations |-> evaluations,
   ranked |-> {evaluations[k] : k \in
                 {k \in DOMAIN evaluations : evaluations[k].status = "TRIGGERED"}},
   context |-> c]

MCBothTriggered ==
  MCJob(h1, 1, <<MCEval(d1, "TRIGGERED", 1), MCEval(d2, "TRIGGERED", 1)>>, 1)

MCInput ==
  { MCBothTriggered,
    \* the same evaluations in another order: the same logical input
    MCJob(h1, 1, <<MCEval(d2, "TRIGGERED", 1), MCEval(d1, "TRIGGERED", 1)>>, 1),
    \* a repeated evaluation: another input
    MCJob(h1, 1, <<MCEval(d1, "TRIGGERED", 1), MCEval(d1, "TRIGGERED", 1)>>, 1),
    MCJob(h1, 1, <<MCEval(d1, "CLEAR", 1), MCEval(d2, "TRIGGERED", 2)>>, 1),
    MCJob(h1, 2, <<MCEval(d1, "CLEAR", 2), MCEval(d2, "INSUFFICIENT_DATA", 1)>>, 1),
    MCJob(h1, 2, <<MCEval(d1, "TRIGGERED", 2), MCEval(d2, "NOT_APPLICABLE", 1)>>, 2),
    MCJob(h2, 1, <<MCEval(d1, "TRIGGERED", 1)>>, 1),
    \* two readings of one Decision, and a ranking of something else
    MCJob(h1, 1, <<MCEval(d1, "CLEAR", 1), MCEval(d1, "CLEAR", 2)>>, 1),
    [MCBothTriggered EXCEPT !.ranked = {}] }

-----------------------------------------------------------------------------
(* Where a ranking comes from: rank() over every list of three of these      *)
(* evaluations, against what sync() later demands of it.                     *)
P == INSTANCE PriorityRanking

Fall(key, print, percent) ==
  [type |-> "REV_PICKUP_LOW", status |-> "TRIGGERED", workspace |-> 1, hotel |-> 1,
   fingerprint |-> print, key |-> key, confidence |-> 60, asOf |-> 10, target |-> 12,
   holds |-> {"percent", "rooms"}, size |-> 0 - percent, extent |-> 4, fence |-> 0]

Cost == [Fall(3, 4, 40) EXCEPT !.type = "COST_CPOR_ANOMALY", !.target = 5,
                               !.holds = {"above", "relative", "fence", "gap"},
                               !.size = 40, !.extent = 7, !.fence = 5]

Evaluations ==
  { Fall(1, 1, 30), Fall(1, 2, 40), Fall(2, 3, 30), Cost,
    \* refused: below its own gate; computed the day before; a night gone by
    [Cost EXCEPT !.confidence = 54, !.fingerprint = 5],
    [Fall(4, 6, 30) EXCEPT !.asOf = 9],
    [Fall(5, 7, 30) EXCEPT !.target = 9],
    \* the same, not triggered: only counted
    [Cost EXCEPT !.confidence = 54, !.status = "SUPPRESSED_LOW_CONFIDENCE"],
    [Fall(6, 8, 30) EXCEPT !.hotel = 2, !.status = "CLEAR"] }

Ranking(list) == P!RankEvaluations([day |-> 10, workspace |-> 1, hotel |-> 1], list)
Given(list, status) == {list[i] : i \in {i \in DOMAIN list : list[i].status = status}}
Lists == [1 .. 3 -> Evaluations]

\* A ranking is the same whatever order the evaluations arrive in ("Input order is
\* irrelevant", priority/ranking.py), its ranks are 1..n, and its candidates are the
\* triggered evaluations and no others: the set sync() compares it with.
ASSUME RankingIsOfTheSet ==
  \A list \in Lists :
    LET r == Ranking(list) IN
    /\ r = Ranking(<<list[3], list[1], list[2]>>)
    /\ r = Ranking(<<list[2], list[1], list[3]>>)
    /\ {x.rank : x \in r.ranks} = 1 .. Cardinality(r.ranks)
    /\ ~r.refused => {x.candidate.fingerprint : x \in r.ranks}
                       = {e.fingerprint : e \in Given(list, "TRIGGERED")}

\* One refused evaluation, another hotel's or a conflict leaves nothing ranked: no
\* ranking of the rest ("nothing partial is returned", priority/service.py).
ASSUME RefusalIsWhole ==
  \A list \in Lists :
    Ranking(list).refused <=>
      \/ \E i \in DOMAIN list : list[i].hotel = 2 \/ list[i].fingerprint \in {6, 7}
      \/ \E e \in Given(list, "TRIGGERED") : e.fingerprint = 5
      \/ {1, 2} \subseteq {e.fingerprint : e \in Given(list, "TRIGGERED")}

=============================================================================

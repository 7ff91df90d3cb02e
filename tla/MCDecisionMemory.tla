------------------------- MODULE MCDecisionMemory -------------------------
(***************************************************************************)
(* Every history of up to MaxSequence runs over one hotel, two Decisions   *)
(* and two days: d1 in every run, with each kind of status the rules tell  *)
(* apart; d2 in some, with the two that change a status.                   *)
(***************************************************************************)
EXTENDS DecisionMemory

CONSTANTS h1, d1, d2

MCEval(d, s) == [identity |-> d, status |-> s, reading |-> 1]

MCLists(d, statuses) == {<<MCEval(d, s)>> : s \in statuses}

MCInput ==
  { [property |-> h1, asOf |-> day, evaluations |-> first \o second,
     ranked |-> {e \in {(first \o second)[k] : k \in DOMAIN (first \o second)} :
                   e.status = "TRIGGERED"},
     context |-> 1] :
      day \in 1..2,
      first \in MCLists(d1, {"TRIGGERED", "CLEAR", "INSUFFICIENT_DATA"}),
      second \in {<<>>} \cup MCLists(d2, {"TRIGGERED", "CLEAR"}) }
=============================================================================

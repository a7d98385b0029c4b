----------------------------- MODULE WorkerPool -----------------------------
(***************************************************************************)
(* What a subagent team promises: no more than Limit workers are busy at a *)
(* time, and a worker is started once; one that ended never works again.   *)
(***************************************************************************)
EXTENDS Naturals, FiniteSets

CONSTANTS Workers, Limit

VARIABLES
  busy,   \* workers that were started and have not ended
  used    \* workers that were started at some time

vars == <<busy, used>>

Init == busy = {} /\ used = {}

\* Some workers end and others take their places.
Next ==
  \E ended \in SUBSET busy, started \in SUBSET (Workers \ used) :
    /\ busy' = (busy \ ended) \cup started
    /\ used' = used \cup started
    /\ Cardinality(busy') <= Limit

Spec == Init /\ [][Next]_vars
=============================================================================

---------------------------- MODULE KeyedWorkers ----------------------------
(***************************************************************************)
(* What the track pool of DeOSS promises to the rest of the gateway: every *)
(* worker works for one key, no key has two workers, and at most Limit     *)
(* workers exist at any time.  A restart of the process loses them all.    *)
(***************************************************************************)
EXTENDS Integers, FiniteSets

CONSTANTS Keys,     \* what a worker may work for
          Limit     \* how many workers may exist at once

VARIABLE work       \* work[k]: the number of workers of key k

Busy == {k \in Keys : work[k] > 0}

Init == work = [k \in Keys |-> 0]

(* A worker starts only for an idle key, and only below the limit.         *)
Start(k) ==
  /\ work[k] = 0
  /\ Cardinality(Busy) < Limit
  /\ work' = [work EXCEPT ![k] = 1]

Finish(k) ==
  /\ work[k] = 1
  /\ work' = [work EXCEPT ![k] = 0]

Restart == work' = [k \in Keys |-> 0]

Next == Restart \/ \E k \in Keys : Start(k) \/ Finish(k)

Spec == Init /\ [][Next]_work
=============================================================================

---------------------------- MODULE InitBarrier ----------------------------
(***************************************************************************)
(* What the mpi module makes of init(), seen from the whole MPI job: a     *)
(* barrier.  A rank leaves its n-th init() only after every other rank has *)
(* come to the end of its own n-th init(), so no graph is finished before  *)
(* every process has said where it runs.                                   *)
(***************************************************************************)
EXTENDS Naturals

CONSTANT Ranks

VARIABLES
  arrived,   \* how many times each rank has given away its CPU set
  left       \* how many times it has received those of all the others

Init ==
  /\ arrived = [r \in Ranks |-> 0]
  /\ left = [r \in Ranks |-> 0]

Arrive(r) ==
  /\ arrived[r] = left[r]
  /\ arrived' = [arrived EXCEPT ![r] = @ + 1]
  /\ UNCHANGED left

Leave(r) ==
  /\ left[r] < arrived[r]
  /\ \A s \in Ranks : left[r] < arrived[s]
  /\ left' = [left EXCEPT ![r] = @ + 1]
  /\ UNCHANGED arrived

Next == \E r \in Ranks : Arrive(r) \/ Leave(r)

Spec == Init /\ [][Next]_<<arrived, left>>
=============================================================================

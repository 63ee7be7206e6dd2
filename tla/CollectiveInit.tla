--------------------------- MODULE CollectiveInit ---------------------------
(***************************************************************************)
(* init() in every process of an MPI job.  The supermuc and mpi modules    *)
(* exchange names and CPU sets by MPI_Allgather on MPI_COMM_WORLD, and     *)
(* what each rank calls depends on its own processor name, on its own GPUs *)
(* and on when it called MPI_Init.  MPI pairs the k-th collective call of  *)
(* one rank with the k-th of every other, whatever module made it.         *)
(*                                                                         *)
(* YlocInit is what one of these processes does to its graph; here only    *)
(* the calls are kept that processes may wait for.                         *)
(***************************************************************************)
EXTENDS Integers, Sequences

CONSTANTS
  Ranks,      \* the processes of MPI_COMM_WORLD
  Enabled,    \* the modules that are built in and enabled
  MaxInits    \* bound on the calls of init() each rank makes after MPI_Init

ASSUME CollectiveConstants ==
  /\ Enabled \subseteq {"hwloc", "mpi", "nvml", "rocm", "supermuc"}
  /\ MaxInits \in Nat

(* The three gathers: supermuc sends 32 bytes of the name, mpi the whole   *)
(* buffer, and then the cpu_set_t.                                         *)
Gathers == {"supermuc_names", "mpi_names", "mpi_cpusets"}

VARIABLES
  conforms,   \* the ranks whose processor name follows iXXrXXcXXsXX
  up,         \* what MPI_Initialized tells each rank
  at,         \* where each rank is in init(): about to call a module, inside
              \* a gather, or not in init(); "gone" if the process has ended
  inits,      \* the calls of init() each rank has made since MPI_Init
  calls       \* the gathers each rank has called so far

vars == <<conforms, up, at, inits, calls>>

TypeOK ==
  /\ conforms \subseteq Ranks
  /\ up \in [Ranks -> BOOLEAN]
  /\ at \in [Ranks -> Gathers \cup {"idle", "supermuc", "mpi", "affinity", "gone"}]
  /\ inits \in [Ranks -> 0..MaxInits]
  /\ calls \in [Ranks -> Seq(Gathers)]

Init ==
  /\ conforms \in SUBSET Ranks
  /\ up = [r \in Ranks |-> FALSE]
  /\ at = [r \in Ranks |-> "idle"]
  /\ inits = [r \in Ranks |-> 0]
  /\ calls = [r \in Ranks |-> <<>>]

(* The application calls MPI_Init.                                         *)
StartMpi(r) ==
  /\ at[r] = "idle" /\ ~up[r]
  /\ up' = [up EXCEPT ![r] = TRUE]
  /\ UNCHANGED <<conforms, at, inits, calls>>

(* Mutant of CallInit: one call more than the bound.                       *)
CallInitOnceMore(r) ==
  /\ at[r] = "idle" /\ inits[r] <= MaxInits
  /\ at' = [at EXCEPT ![r] = "supermuc"]
  /\ inits' = [inits EXCEPT ![r] = IF up[r] THEN @ + 1 ELSE @]
  /\ UNCHANGED <<conforms, up, calls>>

(* The application calls init(), before or after MPI_Init.                 *)
CallInit(r) ==
  /\ at[r] = "idle" /\ inits[r] < MaxInits
  /\ at' = [at EXCEPT ![r] = "supermuc"]
  /\ inits' = [inits EXCEPT ![r] = IF up[r] THEN @ + 1 ELSE @]
  /\ UNCHANGED <<conforms, up, calls>>

(* The rank calls MPI_Allgather, which will not return before all others   *)
(* have called it too.                                                     *)
Enter(r, gather) ==
  /\ at' = [at EXCEPT ![r] = gather]
  /\ calls' = [calls EXCEPT ![r] = Append(@, gather)]
  /\ UNCHANGED <<conforms, up, inits>>

(* The rank goes on to where.                                              *)
GoTo(r, where) ==
  /\ at' = [at EXCEPT ![r] = where]
  /\ UNCHANGED <<conforms, up, inits, calls>>

(* Every rank has made the call that r waits in.  Where another rank made  *)
(* a different one instead, the program is erroneous: r does not go on.    *)
Complete(r) ==
  LET k == Len(calls[r])
  IN \A s \in Ranks : Len(calls[s]) >= k /\ calls[s][k] = calls[r][k]

(* A module that runs before mpi fails: its exception leaves init() and    *)
(* nobody catches it, or its assert ends the process (nvml and rocm).      *)
Die(r) ==
  /\ at[r] \in {"supermuc", "mpi"}
  /\ Enabled \cap {"nvml", "rocm"} # {}
  /\ GoTo(r, "gone")

(* Mutant of Gathering: the name is not compared with the convention.      *)
GatheringAnyName(r) == "supermuc" \in Enabled /\ up[r]

Gathering(r) == "supermuc" \in Enabled /\ up[r] /\ r \in conforms

(* ModuleSuperMUC::init_graph returns early, or the module is disabled.    *)
PassSupermuc(r) ==
  /\ at[r] = "supermuc" /\ ~Gathering(r)
  /\ GoTo(r, "mpi")

SupermucNames(r) ==
  /\ at[r] = "supermuc" /\ Gathering(r)
  /\ Enter(r, "supermuc_names")

SupermucReturn(r) ==
  /\ at[r] = "supermuc_names" /\ Complete(r)
  /\ GoTo(r, "mpi")

(* ModuleMPI::init_graph returns early, or the module is disabled.         *)
PassMpi(r) ==
  /\ at[r] = "mpi" /\ ~("mpi" \in Enabled /\ up[r])
  /\ GoTo(r, "idle")

MpiNames(r) ==
  /\ at[r] = "mpi" /\ "mpi" \in Enabled /\ up[r]
  /\ Enter(r, "mpi_names")

(* sched_getaffinity, between the two gathers.                             *)
MpiAffinity(r) ==
  /\ at[r] = "mpi_names" /\ Complete(r)
  /\ GoTo(r, "affinity")

(* Mutant of MpiCpusets: init_graph returns if sched_getaffinity fails.    *)
MpiCpusetsSkipped(r) ==
  /\ at[r] = "affinity"
  /\ Enter(r, "mpi_cpusets") \/ GoTo(r, "idle")

MpiCpusets(r) ==
  /\ at[r] = "affinity"
  /\ Enter(r, "mpi_cpusets")

MpiReturn(r) ==
  /\ at[r] = "mpi_cpusets" /\ Complete(r)
  /\ GoTo(r, "idle")

(* What rank r does inside init() when nothing fails.                      *)
Step(r) ==
  \/ PassSupermuc(r) \/ SupermucNames(r) \/ SupermucReturn(r)
  \/ PassMpi(r) \/ MpiNames(r) \/ MpiAffinity(r) \/ MpiCpusets(r) \/ MpiReturn(r)

Next == \E r \in Ranks : StartMpi(r) \/ CallInit(r) \/ Die(r) \/ Step(r)

(* Inside init() a rank that can go on does.  init() is collective once    *)
(* MPI runs: every process of the job calls MPI_Init and then init()       *)
(* (example-mpi.cc:15-17); before MPI_Init nobody has to call it.          *)
Spec ==
  /\ Init /\ [][Next]_vars
  /\ \A r \in Ranks : WF_vars(Step(r)) /\ SF_vars(StartMpi(r))
                        /\ WF_vars(up[r] /\ CallInit(r))

------------------------------------------------------------------------------
(* All ranks decide alike whether to take part in supermuc's gather.       *)
Uniform == "supermuc" \in Enabled => conforms \in {{}, Ranks}

(* The k-th gather of one rank is the k-th of every other: no name is ever *)
(* received as a CPU set and no rank of the next init() meets one that is  *)
(* still in the last, whenever the ranks called MPI_Init and init().       *)
CollectivesMatch ==
  Uniform => \A r, s \in Ranks : \A k \in 1..Len(calls[r]) :
               k <= Len(calls[s]) => calls[r][k] = calls[s][k]

(* Nobody waits in an Allgather for a rank that has made all its calls of  *)
(* init(): only a process that ended inside init() can keep others there.  *)
NoneStranded ==
  Uniform => \A r, s \in Ranks :
    at[r] \in Gathers /\ at[s] = "idle" /\ inits[s] = MaxInits
      => Len(calls[r]) <= Len(calls[s])

(* Where the host names are mixed no rank comes out of a gather of         *)
(* supermuc, and with mpi enabled no rank comes out of init().             *)
MixedNamesBlock ==
  ~Uniform => \A r \in Ranks : up[r] =>
    /\ r \in conforms => Len(calls[r]) <= 1
    /\ "mpi" \in Enabled => Len(calls[r]) <= 1

(* The mpi module makes init() a barrier, whether or not supermuc runs,    *)
(* processes end, or names are mixed.                                      *)
Arrived(r) ==
  IF up[r] /\ at[r] \in {"supermuc", "supermuc_names", "mpi", "mpi_names", "affinity", "gone"}
  THEN inits[r] - 1 ELSE inits[r]
Departed(r) == IF up[r] /\ at[r] # "idle" THEN inits[r] - 1 ELSE inits[r]
Barrier == INSTANCE InitBarrier WITH
  arrived <- [r \in Ranks |-> Arrived(r)],
  left <- [r \in Ranks |-> Departed(r)]
ImplementsBarrier == Barrier!Spec

(* If all names follow the convention or none does and no process ends     *)
(* inside init(), every call of init() returns.                            *)
CollectivesReturn ==
  [](Uniform /\ \A r \in Ranks : at[r] # "gone")
    => \A r \in Ranks : at[r] # "idle" ~> at[r] = "idle"
=============================================================================

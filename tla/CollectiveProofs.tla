-------------------------- MODULE CollectiveProofs --------------------------
(***************************************************************************)
(* Proofs about CollectiveInit for any number of ranks.  The argument is   *)
(* that where the names are uniform every rank makes the same Round of     *)
(* gathers in each init(), so how many it has made, and which, follows     *)
(* from where it is; and where they are mixed, that the first gathers      *)
(* never match.                                                            *)
(***************************************************************************)
EXTENDS CollectiveInit, TLAPS

Places == Gathers \cup {"idle", "supermuc", "mpi", "affinity", "gone"}

LEMMA InitTypes == ASSUME Init PROVE TypeOK
<1>1. 0 \in 0..MaxInits
  BY CollectiveConstants
<1>2. <<>> \in Seq(Gathers)
  OBVIOUS
<1> QED
  BY <1>1, <1>2 DEF Init, TypeOK

(* Each action of a rank moves only that rank.                             *)
LEMMA GoToTypes ==
  ASSUME TypeOK, NEW r \in Ranks, NEW where \in Places, GoTo(r, where)
  PROVE  TypeOK'
BY DEF TypeOK, GoTo, Places

LEMMA EnterTypes ==
  ASSUME TypeOK, NEW r \in Ranks, NEW gather \in Gathers, Enter(r, gather)
  PROVE  TypeOK'
<1>1. calls[r] \in Seq(Gathers)
  BY DEF TypeOK
<1>2. Append(calls[r], gather) \in Seq(Gathers)
  BY <1>1
<1> QED
  BY <1>2 DEF TypeOK, Enter

LEMMA NextTypes == ASSUME TypeOK, [Next]_vars PROVE TypeOK'
<1>1. CASE UNCHANGED vars
  BY <1>1 DEF TypeOK, vars
<1>2. ASSUME NEW r \in Ranks, StartMpi(r) PROVE TypeOK'
  BY <1>2 DEF TypeOK, StartMpi
<1>3. ASSUME NEW r \in Ranks, CallInit(r) PROVE TypeOK'
  <2>1. inits[r] + 1 \in 0..MaxInits
    BY <1>3, CollectiveConstants DEF TypeOK, CallInit
  <2> QED
    BY <1>3, <2>1 DEF TypeOK, CallInit
<1>4. ASSUME NEW r \in Ranks, Die(r) PROVE TypeOK'
  BY <1>4, GoToTypes DEF Die, Places
<1>5. ASSUME NEW r \in Ranks, Step(r) PROVE TypeOK'
  BY <1>5, GoToTypes, EnterTypes
     DEF Step, PassSupermuc, SupermucNames, SupermucReturn, PassMpi, MpiNames,
         MpiAffinity, MpiCpusets, MpiReturn, Places, Gathers
<1> QED
  BY <1>1, <1>2, <1>3, <1>4, <1>5 DEF Next

(* Every variable keeps its type.                                          *)
THEOREM TypeCorrect == Spec => []TypeOK
<1>1. Init => TypeOK
  BY InitTypes
<1>2. TypeOK /\ [Next]_vars => TypeOK'
  BY NextTypes
<1> QED
  BY <1>1, <1>2, PTL DEF Spec

------------------------------------------------------------------------------
(* The gathers of one init() where the names are uniform, in their order.  *)
Base == IF "supermuc" \in Enabled /\ conforms = Ranks THEN 1 ELSE 0
Size == IF "mpi" \in Enabled THEN Base + 2 ELSE Base

(* The k-th gather of a rank.                                              *)
Place(p) == IF p < Base THEN "supermuc_names"
            ELSE IF p = Base THEN "mpi_names" ELSE "mpi_cpusets"
GatherAt(k) == IF Size = 3 THEN Place((k - 1) % 3)
               ELSE IF Size = 2 THEN Place((k - 1) % 2) ELSE "supermuc_names"

(* How many gathers of its init() a rank has called when it is at p.       *)
Progress(p) ==
  IF p = "supermuc" THEN 0
  ELSE IF p = "supermuc_names" THEN 1
  ELSE IF p = "mpi" THEN Base
  ELSE IF p \in {"mpi_names", "affinity"} THEN Base + 1
  ELSE Size

(* Before MPI_Init a rank calls nothing.                                   *)
Early(r) ==
  ~up[r] => calls[r] = <<>> /\ inits[r] = 0 /\ at[r] \in {"idle", "supermuc", "mpi", "gone"}

(* A rank is only where its modules take it.                               *)
Reachable(r) ==
  /\ at[r] = "supermuc_names" => Base = 1
  /\ at[r] \in {"mpi_names", "affinity", "mpi_cpusets"} => "mpi" \in Enabled
  /\ up[r] /\ at[r] # "idle" => inits[r] >= 1

Counted(r) ==
  up[r] => IF at[r] = "gone"
             THEN /\ Len(calls[r]) >= Size * (inits[r] - 1)
                  /\ Len(calls[r]) <= Size * (inits[r] - 1) + Base
             ELSE Len(calls[r]) = Size * (inits[r] - 1) + Progress(at[r])

InOrder(r) == \A k \in 1..Len(calls[r]) : calls[r][k] = GatherAt(k)

Good(r) == Early(r) /\ Reachable(r) /\ Counted(r) /\ InOrder(r)
UniformInv == \A r \in Ranks : Good(r)

(* Where the names are mixed: each rank is stuck in its first gather.      *)
Stuck(r) ==
  IF r \in conforms
  THEN /\ up[r] => at[r] \in {"idle", "supermuc", "supermuc_names", "gone"}
       /\ calls[r] = IF at[r] = "supermuc_names" THEN <<"supermuc_names">> ELSE <<>>
  ELSE /\ at[r] \notin {"supermuc_names", "affinity", "mpi_cpusets"}
       /\ calls[r] = IF at[r] = "mpi_names" THEN <<"mpi_names">> ELSE <<>>
MixedInv == \A r \in Ranks : Early(r) /\ Stuck(r)

Inv == TypeOK /\ (Uniform => UniformInv) /\ (~Uniform => MixedInv)

LEMMA Sizes ==
  /\ Base \in 0..1 /\ Size \in 0..3
  /\ "mpi" \in Enabled => Size = Base + 2
  /\ "mpi" \notin Enabled => Size = Base
BY DEF Base, Size

(* One more init() is one more round.                                      *)
LEMMA OneMoreRound ==
  ASSUME NEW n \in Int PROVE Size * ((n + 1) - 1) = Size * (n - 1) + Size
<1>1. CASE Size = 0
  BY <1>1
<1>2. CASE Size = 1
  BY <1>2
<1>3. CASE Size = 2
  BY <1>3
<1>4. CASE Size = 3
  BY <1>4
<1> QED
  BY <1>1, <1>2, <1>3, <1>4, Sizes

(* The next gather of a rank in its n-th init().                           *)
LEMMA NextGather ==
  ASSUME NEW n \in Int, NEW p \in 0 .. Size - 1
  PROVE  GatherAt(Size * (n - 1) + p + 1) = Place(p)
<1>1. CASE Size = 0
  BY <1>1
<1>2. CASE Size = 1
  BY <1>2, Sizes DEF GatherAt, Place
<1>3. CASE Size = 2
  <2>1. ((2 * (n - 1) + p + 1) - 1) % 2 = p
    BY <1>3
  <2> QED
    BY <1>3, <2>1 DEF GatherAt
<1>4. CASE Size = 3
  <2>1. ((3 * (n - 1) + p + 1) - 1) % 3 = p
    BY <1>4
  <2> QED
    BY <1>4, <2>1 DEF GatherAt
<1> QED
  BY <1>1, <1>2, <1>3, <1>4, Sizes

LEMMA InitInv == ASSUME Init PROVE Inv
<1>1. \A r \in Ranks : Len(calls[r]) = 0 /\ inits[r] = 0 /\ at[r] = "idle" /\ ~up[r]
                       /\ calls[r] = <<>>
  BY DEF Init
<1> QED
  BY <1>1, InitTypes
     DEF Inv, UniformInv, MixedInv, Good, Early, Reachable, Counted, InOrder, Stuck

------------------------------------------------------------------------------
LEMMA RoundFixed ==
  ASSUME UNCHANGED conforms
  PROVE  /\ Base' = Base /\ Size' = Size
         /\ \A k \in Int : GatherAt(k)' = GatherAt(k)
         /\ \A p \in Places : Progress(p)' = Progress(p)
BY DEF Base, Size, GatherAt, Place, Progress

(* A rank that does not move stays good.                                   *)
LEMMA OthersGood ==
  ASSUME TypeOK, UNCHANGED conforms, NEW s \in Ranks, Good(s),
         up'[s] = up[s], at'[s] = at[s], inits'[s] = inits[s], calls'[s] = calls[s]
  PROVE  Good(s)'
<1>1. at[s] \in Places /\ Len(calls[s]) \in Nat
  BY DEF TypeOK, Places
<1> QED
  BY <1>1, RoundFixed DEF Good, Early, Reachable, Counted, InOrder

(* A rank that goes on without a gather.                                   *)
LEMMA GoToGood ==
  ASSUME TypeOK, NEW r \in Ranks, Good(r), NEW where \in Places, GoTo(r, where),
         where # "gone" => Progress(where) = Progress(at[r]),
         where = "gone" => at[r] \in {"supermuc", "mpi"}, at[r] # "gone",
         ~up[r] => where \in {"idle", "mpi", "gone"},
         where = "supermuc_names" => Base = 1,
         where \in {"mpi_names", "affinity", "mpi_cpusets"} => "mpi" \in Enabled,
         up[r] => at[r] # "idle"
  PROVE  Good(r)'
<1>1. /\ at' = [at EXCEPT ![r] = where] /\ at'[r] = where
      /\ UNCHANGED <<conforms, up, inits, calls>>
  BY DEF GoTo, TypeOK
<1>2. inits[r] \in Int /\ Len(calls[r]) \in Nat /\ at[r] \in Places
  BY DEF TypeOK, Places
<1>3. Early(r)' /\ Reachable(r)' /\ InOrder(r)'
  BY <1>1, <1>2, RoundFixed DEF Good, Early, Reachable, InOrder
<1>4. where = "gone" => Progress(at[r]) \in 0..Base
  BY Sizes DEF Progress
<1>5. ASSUME up[r] PROVE Len(calls[r]) = Size * (inits[r] - 1) + Progress(at[r])
  BY <1>5 DEF Good, Counted
<1>8. Size * (inits[r] - 1) \in Int
  BY <1>2, Sizes
<1>9. Counted(r)'
  <2>1. CASE where = "gone"
    BY <2>1, <1>1, <1>2, <1>4, <1>5, <1>8, Sizes, RoundFixed DEF Counted
  <2>2. CASE where # "gone"
    BY <2>2, <1>1, <1>2, <1>5, RoundFixed DEF Counted
  <2> QED
    BY <2>1, <2>2
<1> QED
  BY <1>3, <1>9 DEF Good

(* A rank that calls the next gather of its round.                         *)
LEMMA EnterGood ==
  ASSUME TypeOK, NEW r \in Ranks, Good(r), NEW gather \in Gathers, Enter(r, gather),
         up[r], at[r] \notin {"gone", "idle"},
         Progress(at[r]) < Size, gather = Place(Progress(at[r])),
         Progress(gather) = Progress(at[r]) + 1,
         gather = "supermuc_names" => Base = 1,
         gather # "supermuc_names" => "mpi" \in Enabled
  PROVE  Good(r)'
<1>1. /\ at'[r] = gather /\ calls'[r] = Append(calls[r], gather)
      /\ UNCHANGED <<conforms, up, inits>>
  BY DEF Enter, TypeOK
<1>2. inits[r] \in Int /\ calls[r] \in Seq(Gathers) /\ at[r] \in Places
  BY DEF TypeOK, Places
<1>3. Early(r)' /\ Reachable(r)'
  BY <1>1, <1>2, RoundFixed DEF Good, Early, Reachable, Gathers
<1>4. Progress(at[r]) \in 0 .. Size - 1
  BY <1>2, Sizes DEF Progress
<1>5. Len(calls[r]) = Size * (inits[r] - 1) + Progress(at[r])
  BY DEF Good, Counted
<1>6. GatherAt(Len(calls[r]) + 1) = gather
  BY <1>2, <1>4, <1>5, NextGather
<1>7. Len(calls'[r]) = Len(calls[r]) + 1 /\ Len(calls[r]) \in Nat
  BY <1>1, <1>2
<1>8. Counted(r)'
  <2>1. Size * (inits[r] - 1) \in Int
    BY <1>2, Sizes
  <2> QED
    BY <1>1, <1>2, <1>4, <1>5, <1>7, <2>1, RoundFixed DEF Counted, Gathers, Places
<1>9. InOrder(r)'
  <2>1. \A k \in 1..Len(calls[r]) : calls'[r][k] = calls[r][k]
    BY <1>1, <1>2
  <2>2. calls'[r][Len(calls[r]) + 1] = gather
    BY <1>1, <1>2
  <2>3. SUFFICES ASSUME NEW k \in 1 .. Len(calls[r]) + 1 PROVE calls'[r][k] = GatherAt(k)
    BY <1>1, <1>7, RoundFixed DEF InOrder
  <2> QED
    BY <2>1, <2>2, <1>6, <1>7 DEF Good, InOrder
<1> QED
  BY <1>3, <1>8, <1>9 DEF Good

------------------------------------------------------------------------------
LEMMA UniformStep ==
  ASSUME TypeOK, Uniform, UniformInv, [Next]_vars
  PROVE  UniformInv'
<1>1. CASE UNCHANGED vars
  BY <1>1, OthersGood DEF vars, UniformInv
<1>2. ASSUME NEW r \in Ranks, StartMpi(r) \/ CallInit(r) \/ Die(r) \/ Step(r)
      PROVE  UniformInv'
  <2>1. /\ UNCHANGED conforms
        /\ \A s \in Ranks \ {r} : up'[s] = up[s] /\ at'[s] = at[s]
                                   /\ inits'[s] = inits[s] /\ calls'[s] = calls[s]
    BY <1>2 DEF TypeOK, StartMpi, CallInit, Die, Step, PassSupermuc, SupermucNames,
         SupermucReturn, PassMpi, MpiNames, MpiAffinity, MpiCpusets, MpiReturn, GoTo, Enter
  <2>2. \A s \in Ranks \ {r} : Good(s)'
    BY <2>1, OthersGood DEF UniformInv
  <2> SUFFICES Good(r)'
    BY <2>2 DEF UniformInv
  <2>3. Good(r)
    BY DEF UniformInv
  <2>4. /\ at[r] \in Places /\ inits[r] \in Int /\ Len(calls[r]) \in Nat
        /\ calls[r] \in Seq(Gathers)
    BY DEF TypeOK, Places
  <2>5. Gathering(r) <=> up[r] /\ Base = 1
    BY DEF Gathering, Uniform, Base
  <2>6. CASE StartMpi(r)
    <3>1. /\ up'[r] /\ inits'[r] = 0 /\ calls'[r] = <<>> /\ at'[r] = "idle"
      BY <2>3, <2>6 DEF StartMpi, TypeOK, Good, Early
    <3>2. Counted(r)'
      <4>1. Size * (0 - 1) + Size = 0
        BY Sizes
      <4> QED
        BY <3>1, <4>1, <2>1, RoundFixed DEF Counted, Progress
    <3> QED
      BY <3>1, <3>2 DEF Good, Early, Reachable, InOrder
  <2>7. CASE CallInit(r)
    <3>1. CASE up[r]
      <4>1. up'[r] /\ inits'[r] = inits[r] + 1 /\ calls'[r] = calls[r] /\ at'[r] = "supermuc"
        BY <2>7, <3>1 DEF CallInit, TypeOK
      <4>2. Len(calls[r]) = Size * (inits[r] - 1) + Size
        BY <2>3, <2>7, <3>1 DEF Good, Counted, CallInit, Progress
      <4>3. Len(calls[r]) = Size * ((inits[r] + 1) - 1)
        BY <4>2, <2>4, OneMoreRound
      <4>4. Counted(r)'
        BY <4>1, <4>3, <2>1, <2>4, RoundFixed DEF Counted, Progress
      <4>5. InOrder(r)'
        BY <4>1, <2>1, <2>3, <2>4, RoundFixed DEF Good, InOrder
      <4>6. inits[r] + 1 >= 1
        BY <3>1 DEF TypeOK
      <4> QED
        BY <4>1, <4>4, <4>5, <4>6 DEF Good, Early, Reachable
    <3>2. CASE ~up[r]
      <4>1. ~up'[r] /\ inits'[r] = 0 /\ calls'[r] = <<>> /\ at'[r] = "supermuc"
        BY <2>3, <2>7, <3>2 DEF CallInit, TypeOK, Good, Early
      <4> QED
        BY <4>1 DEF Good, Early, Reachable, Counted, InOrder
    <3> QED
      BY <3>1, <3>2
  <2>8. CASE Die(r)
    BY <2>3, <2>8, GoToGood DEF Die, Places
  <2>9. CASE Step(r)
    <3>1. CASE PassSupermuc(r)
      <4>1. ~up[r] \/ Base = 0
        BY <3>1, <2>5, Sizes DEF PassSupermuc
      <4>2. CASE ~up[r]
        <5>1. at'[r] = "mpi" /\ UNCHANGED <<conforms, up, inits, calls>>
          BY <3>1 DEF PassSupermuc, GoTo, TypeOK
        <5> QED
          BY <2>3, <4>2, <5>1 DEF Good, Early, Reachable, Counted, InOrder
      <4>3. CASE Base = 0
        BY <2>3, <3>1, <4>3, GoToGood DEF PassSupermuc, Places, Progress
      <4> QED
        BY <4>1, <4>2, <4>3
    <3>2. CASE SupermucNames(r)
      <4>1. Base = 1 /\ up[r] /\ Size >= 1
        BY <3>2, <2>5, Sizes DEF SupermucNames
      <4>2. /\ Progress(at[r]) = 0 /\ Progress("supermuc_names") = 1
            /\ Place(0) = "supermuc_names" /\ 0 < Size
        BY <3>2, <4>1, Sizes DEF SupermucNames, Progress, Place
      <4> QED
        BY <2>3, <3>2, <4>1, <4>2, EnterGood DEF SupermucNames, Gathers
    <3>3. CASE SupermucReturn(r)
      <4>1. Base = 1 /\ up[r]
        BY <2>3, <3>3 DEF SupermucReturn, Good, Reachable, Early
      <4> QED
        BY <2>3, <3>3, <4>1, GoToGood DEF SupermucReturn, Places, Progress
    <3>4. CASE PassMpi(r)
      <4>1. CASE ~up[r]
        <5>1. at'[r] = "idle" /\ UNCHANGED <<conforms, up, inits, calls>>
          BY <3>4 DEF PassMpi, GoTo, TypeOK
        <5> QED
          BY <2>3, <4>1, <5>1 DEF Good, Early, Reachable, Counted, InOrder
      <4>2. CASE "mpi" \notin Enabled
        BY <2>3, <3>4, <4>2, Sizes, GoToGood DEF PassMpi, Places, Progress
      <4> QED
        BY <3>4, <4>1, <4>2 DEF PassMpi
    <3>5. CASE MpiNames(r)
      <4>1. /\ Progress(at[r]) = Base /\ Progress("mpi_names") = Base + 1
            /\ Base < Size /\ Place(Base) = "mpi_names"
        BY <3>5, Sizes DEF MpiNames, Progress, Place
      <4> QED
        BY <2>3, <3>5, <4>1, EnterGood DEF MpiNames, Gathers
    <3>6. CASE MpiAffinity(r)
      BY <2>3, <3>6, Sizes, GoToGood
         DEF MpiAffinity, Places, Progress, Good, Reachable, Early
    <3>7. CASE MpiCpusets(r)
      BY <2>3, <3>7, Sizes, EnterGood
         DEF MpiCpusets, Gathers, Progress, Place, Good, Reachable, Early
    <3>8. CASE MpiReturn(r)
      BY <2>3, <3>8, Sizes, GoToGood
         DEF MpiReturn, Places, Progress, Good, Reachable, Early
    <3> QED
      BY <2>9, <3>1, <3>2, <3>3, <3>4, <3>5, <3>6, <3>7, <3>8 DEF Step
  <2> QED
    BY <1>2, <2>6, <2>7, <2>8, <2>9
<1> QED
  BY <1>1, <1>2 DEF Next

(* Where the names are mixed no gather completes: some rank has called     *)
(* supermuc's first and some other has not.                                *)
LEMMA MixedNeverComplete ==
  ASSUME TypeOK, ~Uniform, MixedInv, NEW r \in Ranks, Len(calls[r]) > 0
  PROVE  ~Complete(r)
<1>1. PICK a \in Ranks, b \in Ranks : a \in conforms /\ b \notin conforms
  BY DEF Uniform, TypeOK
<1>2. calls[a] \in {<<>>, <<"supermuc_names">>} /\ calls[b] \in {<<>>, <<"mpi_names">>}
  BY <1>1 DEF MixedInv, Stuck
<1>3. calls[r] \in {<<"supermuc_names">>, <<"mpi_names">>} /\ Len(calls[r]) = 1
  BY DEF MixedInv, Stuck
<1>4. SUFFICES ASSUME Complete(r) PROVE FALSE
  OBVIOUS
<1>5. \A s \in Ranks : Len(calls[s]) >= 1 /\ calls[s][1] = calls[r][1]
  BY <1>3, <1>4 DEF Complete
<1>6. calls[a][1] = "supermuc_names" /\ calls[b][1] = "mpi_names"
  BY <1>1, <1>2, <1>5
<1> QED
  BY <1>1, <1>5, <1>6

LEMMA MixedStep ==
  ASSUME TypeOK, ~Uniform, MixedInv, [Next]_vars
  PROVE  MixedInv'
<1>1. CASE UNCHANGED vars
  BY <1>1 DEF vars, MixedInv, Early, Stuck
<1>2. ASSUME NEW r \in Ranks, StartMpi(r) \/ CallInit(r) \/ Die(r) \/ Step(r)
      PROVE  MixedInv'
  <2>1. /\ UNCHANGED conforms
        /\ \A s \in Ranks \ {r} : up'[s] = up[s] /\ at'[s] = at[s]
                                   /\ inits'[s] = inits[s] /\ calls'[s] = calls[s]
    BY <1>2 DEF TypeOK, StartMpi, CallInit, Die, Step, PassSupermuc, SupermucNames,
         SupermucReturn, PassMpi, MpiNames, MpiAffinity, MpiCpusets, MpiReturn, GoTo, Enter
  <2>2. \A s \in Ranks \ {r} : Early(s)' /\ Stuck(s)'
    BY <2>1 DEF MixedInv, Early, Stuck
  <2> SUFFICES Early(r)' /\ Stuck(r)'
    BY <2>2 DEF MixedInv
  <2>3. Early(r) /\ Stuck(r)
    BY DEF MixedInv
  <2>4. "supermuc" \in Enabled
    BY DEF Uniform
  <2>5. CASE StartMpi(r)
    BY <2>1, <2>3, <2>5 DEF StartMpi, TypeOK, Early, Stuck
  <2>6. CASE CallInit(r)
    BY <2>1, <2>3, <2>6 DEF CallInit, TypeOK, Early, Stuck
  <2>7. CASE Die(r)
    BY <2>1, <2>3, <2>7 DEF Die, GoTo, TypeOK, Early, Stuck
  <2>8. CASE Step(r)
    <3>1. CASE PassSupermuc(r)
      BY <2>1, <2>3, <2>4, <3>1 DEF PassSupermuc, Gathering, GoTo, TypeOK, Early, Stuck
    <3>2. CASE SupermucNames(r)
      <4>1. calls[r] = <<>> /\ r \in conforms /\ up[r]
        BY <2>3, <3>2 DEF SupermucNames, Gathering, Stuck
      <4>2. at'[r] = "supermuc_names" /\ calls'[r] = <<"supermuc_names">> /\ up'[r]
        BY <3>2, <4>1 DEF SupermucNames, Enter, TypeOK
      <4> QED
        BY <2>1, <4>1, <4>2 DEF Early, Stuck
    <3>3. CASE SupermucReturn(r)
      <4>1. Len(calls[r]) > 0
        BY <2>3, <3>3 DEF SupermucReturn, Stuck
      <4> QED
        BY <3>3, <4>1, MixedNeverComplete DEF SupermucReturn
    <3>4. CASE PassMpi(r)
      BY <2>1, <2>3, <3>4 DEF PassMpi, GoTo, TypeOK, Early, Stuck
    <3>5. CASE MpiNames(r)
      <4>1. calls[r] = <<>> /\ r \notin conforms /\ up[r]
        BY <2>3, <3>5 DEF MpiNames, Stuck
      <4>2. at'[r] = "mpi_names" /\ calls'[r] = <<"mpi_names">> /\ up'[r]
        BY <3>5, <4>1 DEF MpiNames, Enter, TypeOK
      <4> QED
        BY <2>1, <4>1, <4>2 DEF Early, Stuck
    <3>6. CASE MpiAffinity(r)
      <4>1. Len(calls[r]) > 0
        BY <2>3, <3>6 DEF MpiAffinity, Stuck, Early
      <4> QED
        BY <3>6, <4>1, MixedNeverComplete DEF MpiAffinity
    <3>7. CASE MpiCpusets(r)
      BY <2>3, <3>7 DEF MpiCpusets, Stuck, Early
    <3>8. CASE MpiReturn(r)
      BY <2>3, <3>8 DEF MpiReturn, Stuck, Early
    <3> QED
      BY <2>8, <3>1, <3>2, <3>3, <3>4, <3>5, <3>6, <3>7, <3>8 DEF Step
  <2> QED
    BY <1>2, <2>5, <2>6, <2>7, <2>8
<1> QED
  BY <1>1, <1>2 DEF Next

LEMMA ConformsFixed == ASSUME [Next]_vars PROVE UNCHANGED conforms
BY DEF Next, vars, StartMpi, CallInit, Die, Step, PassSupermuc, SupermucNames,
       SupermucReturn, PassMpi, MpiNames, MpiAffinity, MpiCpusets, MpiReturn, GoTo, Enter

LEMMA NextInv == ASSUME Inv, [Next]_vars PROVE Inv'
<1>1. TypeOK'
  BY NextTypes DEF Inv
<1>2. Uniform' <=> Uniform
  BY ConformsFixed DEF Uniform
<1> QED
  BY <1>1, <1>2, UniformStep, MixedStep DEF Inv

LEMMA InvAlways == Spec => []Inv
<1>1. Init => Inv
  BY InitInv
<1>2. Inv /\ [Next]_vars => Inv'
  BY NextInv
<1> QED
  BY <1>1, <1>2, PTL DEF Spec

------------------------------------------------------------------------------
(* Collective calls of different ranks never meet the wrong partner: the   *)
(* k-th gather follows from k alone.                                       *)
THEOREM CallsMatch == Spec => []CollectivesMatch
<1>1. Inv => CollectivesMatch
  <2> SUFFICES ASSUME Inv, Uniform, NEW r \in Ranks, NEW s \in Ranks,
                      NEW k \in 1..Len(calls[r]), k <= Len(calls[s])
               PROVE  calls[r][k] = calls[s][k]
    BY DEF CollectivesMatch
  <2>1. InOrder(r) /\ InOrder(s)
    BY DEF Inv, UniformInv, Good
  <2>2. k \in 1..Len(calls[s])
    BY DEF Inv, TypeOK
  <2> QED
    BY <2>1, <2>2 DEF InOrder
<1> QED
  BY <1>1, InvAlways, PTL

(* No rank waits for one that has made all its calls of init().            *)
THEOREM NobodyStranded == Spec => []NoneStranded
<1>1. Inv => NoneStranded
  <2> SUFFICES ASSUME Inv, Uniform, NEW r \in Ranks, NEW s \in Ranks,
                      at[r] \in Gathers, at[s] = "idle", inits[s] = MaxInits
               PROVE  Len(calls[r]) <= Len(calls[s])
    BY DEF NoneStranded
  <2>1. Good(r) /\ Good(s) /\ inits[r] \in 0..MaxInits /\ MaxInits \in Nat
        /\ Len(calls[r]) \in Nat /\ Len(calls[s]) \in Nat
    BY CollectiveConstants DEF Inv, UniformInv, TypeOK
  <2>2. CASE ~up[r]
    BY <2>1, <2>2 DEF Good, Early
  <2>3. CASE up[r]
    <3>1. inits[r] >= 1
      BY <2>1, <2>3 DEF Good, Reachable, Gathers
    <3>2. up[s]
      BY <2>1, <3>1 DEF Good, Early
    <3>3. Len(calls[s]) = Size * (MaxInits - 1) + Size
      BY <2>1, <3>2 DEF Good, Counted, Progress
    <3>4. Progress(at[r]) <= Size /\ Progress(at[r]) \in Int
      BY <2>1, Sizes DEF Progress, Good, Reachable, Gathers
    <3>5. Len(calls[r]) = Size * (inits[r] - 1) + Progress(at[r])
      BY <2>1, <2>3 DEF Good, Counted, Gathers
    <3>6. Size * (inits[r] - 1) <= Size * (MaxInits - 1)
      <4>1. CASE Size = 0
        BY <4>1, <2>1
      <4>2. CASE Size = 1
        BY <4>2, <2>1
      <4>3. CASE Size = 2
        BY <4>3, <2>1
      <4>4. CASE Size = 3
        BY <4>4, <2>1
      <4> QED
        BY <4>1, <4>2, <4>3, <4>4, Sizes
    <3>7. Size * (inits[r] - 1) \in Int /\ Size * (MaxInits - 1) \in Int
      BY <2>1, Sizes
    <3> QED
      BY <3>3, <3>4, <3>5, <3>6, <3>7, Sizes
  <2> QED
    BY <2>2, <2>3
<1> QED
  BY <1>1, InvAlways, PTL

(* A mixed job goes no further than the first gather.                      *)
THEOREM MixedJobsBlock == Spec => []MixedNamesBlock
<1>1. Inv => MixedNamesBlock
  <2> SUFFICES ASSUME Inv, ~Uniform, NEW r \in Ranks PROVE Len(calls[r]) <= 1
    BY DEF MixedNamesBlock
  <2>1. CASE calls[r] = <<>>
    BY <2>1
  <2>2. CASE calls[r] = <<"supermuc_names">>
    BY <2>2
  <2>3. CASE calls[r] = <<"mpi_names">>
    BY <2>3
  <2> QED
    BY <2>1, <2>2, <2>3 DEF Inv, MixedInv, Stuck
<1> QED
  BY <1>1, InvAlways, PTL

------------------------------------------------------------------------------
(* Where the mpi module is enabled, init() is a barrier: it implements     *)
(* InitBarrier.                                                            *)
Arrivals == [r \in Ranks |-> Arrived(r)]
Departures == [r \in Ranks |-> Departed(r)]

(* A rank whose Arrived and Departed stay as they are.                     *)
LEMMA BarrierStutters ==
  ASSUME \A s \in Ranks : Arrived(s)' = Arrived(s) /\ Departed(s)' = Departed(s)
  PROVE  UNCHANGED <<Arrivals, Departures>>
BY DEF Arrivals, Departures

LEMMA OthersDoNotArrive ==
  ASSUME NEW s \in Ranks, up'[s] = up[s], at'[s] = at[s], inits'[s] = inits[s]
  PROVE  Arrived(s)' = Arrived(s) /\ Departed(s)' = Departed(s)
BY DEF Arrived, Departed

(* A rank that has received every CPU set of its n-th init(): all the      *)
(* others have sent theirs.                                                *)
LEMMA EveryoneArrived ==
  ASSUME Inv, Uniform, "mpi" \in Enabled, NEW r \in Ranks, at[r] = "mpi_cpusets",
         Complete(r), NEW s \in Ranks
  PROVE  Departed(r) < Arrived(s)
<1>1. Good(r) /\ Good(s) /\ inits[r] \in Int /\ inits[s] \in Int
      /\ Len(calls[r]) \in Nat /\ Len(calls[s]) \in Nat /\ at[s] \in Places
  BY DEF Inv, UniformInv, TypeOK, Places
<1>2. up[r] /\ inits[r] >= 1
  BY <1>1 DEF Good, Early, Reachable
<1>3. Len(calls[r]) = Size * (inits[r] - 1) + Size
  BY <1>1, <1>2 DEF Good, Counted, Progress
<1>4. Len(calls[s]) >= Len(calls[r])
  BY DEF Complete
<1>5. Size \in 2..3 /\ Base \in 0..1
  BY Sizes
<1>6. up[s]
  <2>1. Len(calls[r]) > 0
    <3>1. CASE Size = 2
      BY <1>1, <1>2, <1>3, <3>1
    <3>2. CASE Size = 3
      BY <1>1, <1>2, <1>3, <3>2
    <3> QED
      BY <3>1, <3>2, <1>5
  <2> QED
    BY <2>1, <1>1, <1>4 DEF Good, Early
<1>7. Departed(r) = inits[r] - 1
  BY <1>2 DEF Departed
<1>8. CASE at[s] \in {"idle", "mpi_cpusets"}
  <2>1. Len(calls[s]) = Size * (inits[s] - 1) + Size
    BY <1>1, <1>6, <1>8 DEF Good, Counted, Progress
  <2>2. inits[s] >= inits[r]
    <3>1. CASE Size = 2
      BY <1>1, <1>3, <1>4, <2>1, <3>1
    <3>2. CASE Size = 3
      BY <1>1, <1>3, <1>4, <2>1, <3>2
    <3> QED
      BY <3>1, <3>2, <1>5
  <2> QED
    BY <1>1, <1>7, <1>8, <2>2 DEF Arrived
<1>9. CASE at[s] \notin {"idle", "mpi_cpusets", "gone"}
  <2>1. Progress(at[s]) < Size /\ Progress(at[s]) \in Int
    BY <1>1, <1>9, Sizes DEF Progress, Places, Gathers, Good, Reachable
  <2>2. Len(calls[s]) = Size * (inits[s] - 1) + Progress(at[s])
    BY <1>1, <1>6, <1>9 DEF Good, Counted
  <2>3. inits[s] - 1 >= inits[r]
    <3>1. CASE Size = 2
      BY <1>1, <1>3, <1>4, <2>1, <2>2, <3>1
    <3>2. CASE Size = 3
      BY <1>1, <1>3, <1>4, <2>1, <2>2, <3>2
    <3> QED
      BY <3>1, <3>2, <1>5
  <2>4. Arrived(s) = inits[s] - 1
    BY <1>1, <1>6, <1>9 DEF Arrived, Places, Gathers
  <2> QED
    BY <1>1, <1>7, <2>3, <2>4
<1>10. CASE at[s] = "gone"
  <2>1. /\ Len(calls[s]) <= Size * (inits[s] - 1) + Base
        /\ Base < Size
    BY <1>1, <1>6, <1>10, Sizes DEF Good, Counted
  <2>2. inits[s] - 1 >= inits[r]
    <3>1. CASE Size = 2
      BY <1>1, <1>3, <1>4, <1>5, <2>1, <3>1
    <3>2. CASE Size = 3
      BY <1>1, <1>3, <1>4, <1>5, <2>1, <3>2
    <3> QED
      BY <3>1, <3>2, <1>5
  <2>3. Arrived(s) = inits[s] - 1
    BY <1>6, <1>10 DEF Arrived
  <2> QED
    BY <1>1, <1>7, <2>2, <2>3
<1> QED
  BY <1>8, <1>9, <1>10

LEMMA BarrierInit ==
  ASSUME Init PROVE Barrier!Init
BY DEF Init, Barrier!Init, Arrived, Departed

LEMMA BarrierStep ==
  ASSUME Inv, "mpi" \in Enabled, [Next]_vars
  PROVE  [Barrier!Next]_<<Arrivals, Departures>>
<1>1. CASE UNCHANGED vars
  BY <1>1, OthersDoNotArrive, BarrierStutters DEF vars
<1>2. ASSUME NEW r \in Ranks, StartMpi(r) \/ CallInit(r) \/ Die(r) \/ Step(r)
      PROVE  [Barrier!Next]_<<Arrivals, Departures>>
  <2>1. \A s \in Ranks \ {r} : up'[s] = up[s] /\ at'[s] = at[s] /\ inits'[s] = inits[s]
    BY <1>2 DEF Inv, TypeOK, StartMpi, CallInit, Die, Step, PassSupermuc, SupermucNames,
         SupermucReturn, PassMpi, MpiNames, MpiAffinity, MpiCpusets, MpiReturn, GoTo, Enter
  <2>2. \A s \in Ranks \ {r} : Arrived(s)' = Arrived(s) /\ Departed(s)' = Departed(s)
    BY <2>1, OthersDoNotArrive
  <2>3. Early(r) /\ inits[r] \in Nat
    BY DEF Inv, UniformInv, MixedInv, Good, TypeOK
  <2>4. CASE StartMpi(r)
    <3>1. Arrived(r)' = Arrived(r) /\ Departed(r)' = Departed(r)
      BY <2>3, <2>4 DEF StartMpi, Inv, TypeOK, Early, Arrived, Departed
    <3> QED
      BY <2>2, <3>1, BarrierStutters
  <2>5. CASE CallInit(r)
    <3>1. Arrived(r)' = Arrived(r) /\ Departed(r)' = Departed(r)
      BY <2>3, <2>5 DEF CallInit, Inv, TypeOK, Arrived, Departed
    <3> QED
      BY <2>2, <3>1, BarrierStutters
  <2>6. CASE Die(r)
    <3>1. Arrived(r)' = Arrived(r) /\ Departed(r)' = Departed(r)
      BY <2>3, <2>6 DEF Die, GoTo, Inv, TypeOK, Arrived, Departed
    <3> QED
      BY <2>2, <3>1, BarrierStutters
  <2>7. CASE PassSupermuc(r) \/ SupermucNames(r) \/ SupermucReturn(r)
               \/ PassMpi(r) \/ MpiNames(r) \/ MpiAffinity(r)
    <3>1. Arrived(r)' = Arrived(r) /\ Departed(r)' = Departed(r)
      BY <2>3, <2>7 DEF PassSupermuc, SupermucNames, SupermucReturn, PassMpi, MpiNames,
           MpiAffinity, GoTo, Enter, Inv, TypeOK, Arrived, Departed
    <3> QED
      BY <2>2, <3>1, BarrierStutters
  <2>8. CASE MpiCpusets(r)
    <3>1. up[r]
      BY <2>8 DEF MpiCpusets, Inv, UniformInv, MixedInv, Good, Early, Stuck
    <3>2. /\ Arrived(r) = Departed(r) /\ Departed(r) = inits[r] - 1
          /\ Arrived(r)' = Arrived(r) + 1 /\ Departed(r)' = Departed(r)
      BY <2>3, <2>8, <3>1 DEF MpiCpusets, Enter, Inv, TypeOK, Arrived, Departed
    <3>3. Departures' = Departures
      BY <2>2, <3>2 DEF Departures
    <3>4. Arrivals' = [Arrivals EXCEPT ![r] = @ + 1]
      BY <2>2, <3>2 DEF Arrivals
    <3>5. Barrier!Arrive(r)
      BY <3>2, <3>3, <3>4 DEF Barrier!Arrive, Arrivals, Departures
    <3> QED
      BY <3>5 DEF Barrier!Next
  <2>9. CASE MpiReturn(r)
    <3>1. up[r] /\ Uniform
      BY <2>9 DEF MpiReturn, Inv, UniformInv, MixedInv, Good, Early, Stuck
    <3>2. /\ Departed(r)' = Departed(r) + 1 /\ Arrived(r)' = Arrived(r)
      BY <2>3, <2>9, <3>1 DEF MpiReturn, GoTo, Inv, TypeOK, Arrived, Departed
    <3>3. \A s \in Ranks : Departed(r) < Arrived(s)
      BY <2>9, <3>1, EveryoneArrived DEF MpiReturn
    <3>4. Arrivals' = Arrivals
      BY <2>2, <3>2 DEF Arrivals
    <3>5. Departures' = [Departures EXCEPT ![r] = @ + 1]
      BY <2>2, <3>2 DEF Departures
    <3>6. Barrier!Leave(r)
      BY <3>3, <3>4, <3>5 DEF Barrier!Leave, Arrivals, Departures
    <3> QED
      BY <3>6 DEF Barrier!Next
  <2> QED
    BY <1>2, <2>4, <2>5, <2>6, <2>7, <2>8, <2>9 DEF Step
<1> QED
  BY <1>1, <1>2 DEF Next

THEOREM InitIsABarrier ==
  ASSUME "mpi" \in Enabled
  PROVE  Spec => ImplementsBarrier
<1>1. Init => Barrier!Init
  BY BarrierInit
<1>2. Inv /\ [Next]_vars => [Barrier!Next]_<<Arrivals, Departures>>
  BY BarrierStep
<1> QED
  BY <1>1, <1>2, InvAlways, PTL
     DEF Spec, ImplementsBarrier, Barrier!Spec, Arrivals, Departures
=============================================================================

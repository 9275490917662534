----------------------------- MODULE GpuProofs -----------------------------
(***************************************************************************)
(* The GPU accounting is right for every device list and every set of      *)
(* tasks.  The lemmas are about the operators of GpuSlots alone; SlotProofs *)
(* uses GPUCountEach for what the admission transactions do with them.     *)
(*                                                                         *)
(* A device list is called list below: any function on 1 .. n.             *)
(***************************************************************************)
EXTENDS GpuHost, FiniteSetTheorems, FunctionTheorems, TLAPS

IsList(list) == \E n \in Nat : DOMAIN list = 1 .. n

----------------------------------------------------------------------------
\* Which entry of a list Picked takes for each position of its result.

Rank(I, i) == Cardinality({j \in I : j <= i})

At(I, n) == CHOOSE i \in I : Rank(I, i) = n

\* The rank of a position grows with the position and stays within the size.
LEMMA RankGrows ==
  ASSUME NEW I \in SUBSET Int, IsFiniteSet(I), NEW i \in I
  PROVE  /\ Rank(I, i) \in 1 .. Cardinality(I)
         /\ \A j \in I : i < j => Rank(I, i) < Rank(I, j)
<1> DEFINE Upto(k) == {j \in I : j <= k}
<1>0. Cardinality(I) \in Nat
  BY FS_CardinalityType
<1>1. ASSUME NEW k \in I
      PROVE  /\ IsFiniteSet(Upto(k))
             /\ Cardinality(Upto(k)) \in Nat
             /\ Cardinality(Upto(k)) <= Cardinality(I)
  <2>1. Upto(k) \in SUBSET I
    OBVIOUS
  <2> HIDE DEF Upto
  <2> QED BY <2>1, FS_Subset, FS_CardinalityType
<1>2. Cardinality(Upto(i)) # 0
  <2>1. i \in Upto(i)
    OBVIOUS
  <2> HIDE DEF Upto
  <2> QED BY <1>1, <2>1, FS_EmptySet
<1>3. ASSUME NEW j \in I, i < j PROVE Cardinality(Upto(i)) < Cardinality(Upto(j))
  <2>1. /\ Upto(i) \in SUBSET Upto(j)
        /\ j \in Upto(j)
        /\ j \notin Upto(i)
    <3>1. \A x \in I : x \in Int
      OBVIOUS
    <3>2. j <= j /\ ~(j <= i) /\ \A x \in I : x <= i => x <= j
      BY <1>3, <3>1
    <3> QED BY <3>2
  <2> HIDE DEF Upto
  <2>2. /\ Cardinality(Upto(i)) <= Cardinality(Upto(j))
        /\ Cardinality(Upto(j)) = Cardinality(Upto(i)) => Upto(j) = Upto(i)
    BY <1>1, <2>1, FS_Subset
  <2> QED BY <1>1, <2>1, <2>2
<1>4. \A k \in I : Rank(I, k) = Cardinality(Upto(k))
  BY DEF Rank
<1> HIDE DEF Upto
<1> QED BY <1>0, <1>1, <1>2, <1>3, <1>4

\* Every rank up to the size is the rank of one position.
LEMMA RankOnto ==
  ASSUME NEW I \in SUBSET Int, IsFiniteSet(I), NEW n \in 1 .. Cardinality(I)
  PROVE  \E i \in I : Rank(I, i) = n
<1> DEFINE R == [i \in I |-> Rank(I, i)]
           C == Cardinality(I)
<1>1. C \in Nat
  BY FS_CardinalityType
<1>2. R \in [I -> 1 .. C]
  BY RankGrows
<1>3. ASSUME NEW i \in I, NEW j \in I, R[i] = R[j] PROVE i = j
  <2>1. i < j => Rank(I, i) < Rank(I, j)
    BY RankGrows
  <2>2. j < i => Rank(I, j) < Rank(I, i)
    BY RankGrows
  <2>3. Rank(I, i) \in 1 .. C /\ Rank(I, j) \in 1 .. C /\ Rank(I, i) = Rank(I, j)
    BY <1>3, RankGrows
  <2>4. i \in Int /\ j \in Int
    OBVIOUS
  <2> HIDE DEF C
  <2> QED BY <2>1, <2>2, <2>3, <2>4
<1>4. R \in Injection(I, 1 .. C)
  <2> HIDE DEF R, C
  <2> QED BY <1>2, <1>3, Fun_IsInj
<1>5. IsFiniteSet(1 .. C) /\ Cardinality(1 .. C) = C
  BY <1>1, FS_Interval
<1>6. R \in Surjection(I, 1 .. C)
  <2>1. C = Cardinality(I)
    OBVIOUS
  <2> HIDE DEF R, C
  <2> QED BY <1>4, <1>5, <2>1, FS_Injection
<1>7. \A m \in 1 .. C : \E i \in I : R[i] = m
  <2> HIDE DEF R, C
  <2> QED BY <1>6, Fun_SurjectionProperties
<1> QED BY <1>7

\* Picked keeps the entries at I, each once and in their order.
LEMMA PickedKeeps ==
  ASSUME NEW s, NEW I \in SUBSET Int, IsFiniteSet(I)
  PROVE  /\ Cardinality(I) \in Nat
         /\ DOMAIN Picked(s, I) = 1 .. Cardinality(I)
         /\ \A n \in DOMAIN Picked(s, I) :
              At(I, n) \in I /\ Rank(I, At(I, n)) = n /\ Picked(s, I)[n] = s[At(I, n)]
         /\ \A m, n \in DOMAIN Picked(s, I) : m < n => At(I, m) < At(I, n)
         /\ \A i \in I : Rank(I, i) \in DOMAIN Picked(s, I) /\ At(I, Rank(I, i)) = i
<1>1. Cardinality(I) \in Nat
  BY FS_CardinalityType
<1>2. DOMAIN Picked(s, I) = 1 .. Cardinality(I)
  BY DEF Picked
<1>3. \A n \in 1 .. Cardinality(I) : At(I, n) \in I /\ Rank(I, At(I, n)) = n
  BY RankOnto DEF At
<1>4. \A n \in 1 .. Cardinality(I) : Picked(s, I)[n] = s[At(I, n)]
  BY DEF Picked, At, Rank
<1>5. ASSUME NEW i \in I, NEW j \in I, Rank(I, i) <= Rank(I, j) PROVE i <= j
  <2>1. j < i => Rank(I, j) < Rank(I, i)
    BY RankGrows
  <2>2. Rank(I, i) \in 1 .. Cardinality(I) /\ Rank(I, j) \in 1 .. Cardinality(I)
    BY RankGrows
  <2>3. i \in Int /\ j \in Int
    OBVIOUS
  <2> QED BY <1>1, <1>5, <2>1, <2>2, <2>3
<1>6. ASSUME NEW m \in 1 .. Cardinality(I), NEW n \in 1 .. Cardinality(I), m < n
      PROVE  At(I, m) < At(I, n)
  <2>1. At(I, m) \in I /\ At(I, n) \in I /\ Rank(I, At(I, m)) = m /\ Rank(I, At(I, n)) = n
    BY <1>3
  <2>2. At(I, m) <= At(I, n)
    <3>1. Rank(I, At(I, m)) <= Rank(I, At(I, n))
      BY <1>1, <1>6, <2>1
    <3> QED BY <1>5, <2>1, <3>1
  <2>3. At(I, m) # At(I, n)
    BY <1>1, <1>6, <2>1
  <2>4. At(I, m) \in Int /\ At(I, n) \in Int
    BY <2>1
  <2> QED BY <2>2, <2>3, <2>4
<1>7. ASSUME NEW i \in I PROVE Rank(I, i) \in 1 .. Cardinality(I) /\ At(I, Rank(I, i)) = i
  <2>1. Rank(I, i) \in 1 .. Cardinality(I)
    BY RankGrows
  <2>2. At(I, Rank(I, i)) \in I /\ Rank(I, At(I, Rank(I, i))) = Rank(I, i)
    BY <1>3, <2>1
  <2>3. At(I, Rank(I, i)) <= i /\ i <= At(I, Rank(I, i))
    <3>1. /\ Rank(I, At(I, Rank(I, i))) <= Rank(I, i)
          /\ Rank(I, i) <= Rank(I, At(I, Rank(I, i)))
      BY <1>1, <2>1, <2>2
    <3> QED BY <1>5, <2>2, <3>1
  <2>4. i \in Int /\ At(I, Rank(I, i)) \in Int
    BY <2>2
  <2> QED BY <2>1, <2>3, <2>4
<1> QED BY <1>1, <1>2, <1>3, <1>4, <1>6, <1>7

----------------------------------------------------------------------------
\* Lists of devices.

\* The positions of a list that hold an id, and those of its first occurrences.
Kept(list) == {i \in DOMAIN list : list[i] # Blank}

Firsts(list) == {i \in DOMAIN list : \A j \in 1 .. i - 1 : list[j] # list[i]}

FirstOf(list, d) == CHOOSE i \in DOMAIN list : list[i] = d /\ \A j \in 1 .. i - 1 : list[j] # d

Slots(list, d) == Cardinality({i \in DOMAIN list : list[i] = d})

\* There is one first occurrence.
LEMMA FirstIsOne ==
  ASSUME NEW list, IsList(list), NEW p \in Firsts(list)
  PROVE  FirstOf(list, list[p]) = p
<1>1. PICK n \in Nat : DOMAIN list = 1 .. n
  BY DEF IsList
<1>2. p \in DOMAIN list /\ \A j \in 1 .. p - 1 : list[j] # list[p]
  BY DEF Firsts
<1> DEFINE q == FirstOf(list, list[p])
<1>3. q \in DOMAIN list /\ list[q] = list[p] /\ \A j \in 1 .. q - 1 : list[j] # list[p]
  BY <1>2 DEF FirstOf
<1> HIDE DEF q
<1>4. ~(q < p) /\ ~(p < q)
  BY <1>1, <1>2, <1>3
<1>5. p \in Int /\ q \in Int
  BY <1>1, <1>2, <1>3
<1>6. q = p
  BY <1>4, <1>5
<1> QED BY <1>6 DEF q

\* The first entry of every id exists: the least of its positions.
LEMMA FirstExists ==
  ASSUME NEW list, IsList(list), NEW i \in DOMAIN list
  PROVE  \E p \in Firsts(list) : list[p] = list[i]
<1>1. PICK n \in Nat : DOMAIN list = 1 .. n
  BY DEF IsList
<1> DEFINE Here == {j \in 1 .. n : list[j] = list[i]}
<1>2. Here \in SUBSET Int /\ IsFiniteSet(Here) /\ i \in Here
  <2>1. Here \in SUBSET (1 .. n)
    OBVIOUS
  <2>2. IsFiniteSet(1 .. n)
    BY FS_Interval
  <2> QED BY <1>1, <2>1, <2>2, FS_Subset
<1>3. 1 \in 1 .. Cardinality(Here)
  <2>1. Cardinality(Here) \in Nat /\ Cardinality(Here) # 0
    BY <1>2, FS_CardinalityType, FS_EmptySet
  <2> QED BY <2>1
<1>4. PICK p \in Here : Rank(Here, p) = 1
  BY <1>2, <1>3, RankOnto
<1>5. ASSUME NEW j \in 1 .. p - 1, list[j] = list[p] PROVE FALSE
  <2>1. p \in 1 .. n /\ j \in 1 .. n /\ j < p /\ list[j] = list[i]
    BY <1>1, <1>4, <1>5
  <2>2. j \in Here
    BY <2>1
  <2>3. Rank(Here, j) < Rank(Here, p) /\ Rank(Here, j) \in 1 .. Cardinality(Here)
    BY <1>2, <1>4, <2>1, <2>2, RankGrows
  <2> QED BY <1>4, <2>3
<1>6. p \in Firsts(list)
  BY <1>1, <1>4, <1>5 DEF Firsts
<1> QED BY <1>4, <1>6

\* The list a GPU container is given: from the first entry of every device, in
\* the order of these entries.
LEMMA AttachList ==
  ASSUME NEW list, IsList(list)
  PROVE  LET attach == ResolveNVIDIADeviceIDsForAttach(list)
         IN  /\ \E c \in Nat : DOMAIN attach = 1 .. c
             /\ {attach[n] : n \in DOMAIN attach} = Devices(list)
             /\ \A m, n \in DOMAIN attach :
                  m < n => FirstOf(list, attach[m]) < FirstOf(list, attach[n])
<1> DEFINE trim   == TrimGPUIDList(list)
           W      == Kept(list)
           F      == Firsts(trim)
           attach == ResolveNVIDIADeviceIDsForAttach(list)
<1>1. PICK k \in Nat : DOMAIN list = 1 .. k
  BY DEF IsList
<1>2. W \in SUBSET Int /\ IsFiniteSet(W)
  <2>1. W \in SUBSET (1 .. k)
    BY <1>1 DEF Kept
  <2>2. IsFiniteSet(1 .. k)
    BY FS_Interval
  <2> HIDE DEF W
  <2>3. IsFiniteSet(W)
    BY <2>1, <2>2, FS_Subset
  <2> QED BY <2>1, <2>3
<1>3. trim = Picked(list, W)
  BY DEF TrimGPUIDList, Kept
<1>4. /\ Cardinality(W) \in Nat
      /\ DOMAIN trim = 1 .. Cardinality(W)
      /\ \A n \in DOMAIN trim : At(W, n) \in W /\ trim[n] = list[At(W, n)]
      /\ \A m, n \in DOMAIN trim : m < n => At(W, m) < At(W, n)
      /\ \A i \in W : Rank(W, i) \in DOMAIN trim /\ At(W, Rank(W, i)) = i
  <2> HIDE DEF W, trim
  <2> QED BY <1>2, <1>3, PickedKeeps
<1>5. F \in SUBSET Int /\ IsFiniteSet(F) /\ IsList(trim)
  <2>1. F \in SUBSET (1 .. Cardinality(W))
    <3> HIDE DEF trim
    <3> QED BY <1>4 DEF Firsts
  <2>2. IsFiniteSet(1 .. Cardinality(W))
    <3> HIDE DEF trim, W
    <3>1. Cardinality(W) \in Nat
      BY <1>4
    <3>2. \A c \in Nat : IsFiniteSet(1 .. c)
      BY FS_Interval
    <3> QED BY <3>1, <3>2
  <2>3. IsList(trim)
    <3> HIDE DEF trim, W
    <3> QED BY <1>4 DEF IsList
  <2> HIDE DEF F, W
  <2>4. IsFiniteSet(F)
    BY <2>1, <2>2, FS_Subset
  <2> QED BY <2>1, <2>3, <2>4
<1>6. attach = Picked(trim, F)
  BY DEF ResolveNVIDIADeviceIDsForAttach, Firsts
<1>7. /\ Cardinality(F) \in Nat
      /\ DOMAIN attach = 1 .. Cardinality(F)
      /\ \A n \in DOMAIN attach : At(F, n) \in F /\ attach[n] = trim[At(F, n)]
      /\ \A m, n \in DOMAIN attach : m < n => At(F, m) < At(F, n)
      /\ \A i \in F : Rank(F, i) \in DOMAIN attach /\ At(F, Rank(F, i)) = i
  <2> HIDE DEF F, trim, attach
  <2> QED BY <1>5, <1>6, PickedKeeps
<1>8. F \in SUBSET DOMAIN trim
  BY DEF Firsts
<1>9. W \in SUBSET DOMAIN list
  BY DEF Kept
<1>10. ASSUME NEW q \in F
       PROVE  At(W, q) \in Firsts(list) /\ trim[q] = list[At(W, q)]
  <2> DEFINE p == At(W, q)
  <2>1. p \in W /\ trim[q] = list[p] /\ q \in DOMAIN trim
    <3> HIDE DEF trim, W, F
    <3> QED BY <1>4, <1>8
  <2>2. p \in DOMAIN list /\ list[p] # Blank /\ p \in Int
    BY <1>1, <2>1 DEF Kept
  <2>3. ASSUME NEW j \in 1 .. p - 1, list[j] = list[p] PROVE FALSE
    <3>1. j \in DOMAIN list /\ j < p
      BY <1>1, <2>2, <2>3
    <3>2. j \in W
      BY <2>2, <2>3, <3>1 DEF Kept
    <3> DEFINE r == Rank(W, j)
    <3>3. r \in DOMAIN trim /\ At(W, r) = j
      <4> HIDE DEF W, trim
      <4> QED BY <1>4, <3>2
    <3>4. trim[r] = trim[q]
      <4> HIDE DEF W, trim, r
      <4> QED BY <1>4, <2>1, <2>3, <3>3
    <3>5. ~(q < r) /\ r # q
      <4>1. j \in Int /\ j # p /\ ~(p < j)
        BY <2>2, <3>1
      <4> HIDE DEF W, trim, r
      <4> QED BY <1>4, <2>1, <3>3, <4>1
    <3>6. r \in 1 .. q - 1
      <4> HIDE DEF W, trim, r
      <4> QED BY <1>4, <2>1, <3>3, <3>5
    <3>7. \A i \in 1 .. q - 1 : trim[i] # trim[q]
      BY DEF Firsts
    <3> HIDE DEF trim, r
    <3> QED BY <3>4, <3>6, <3>7
  <2>4. p \in Firsts(list)
    BY <2>2, <2>3 DEF Firsts
  <2> QED BY <2>1, <2>4
<1> HIDE DEF trim, W, F, attach
<1>11. \A n \in DOMAIN attach : FirstOf(list, attach[n]) = At(W, At(F, n))
  BY <1>7, <1>10, FirstIsOne
<1>12. ASSUME NEW m \in DOMAIN attach, NEW n \in DOMAIN attach, m < n
       PROVE  FirstOf(list, attach[m]) < FirstOf(list, attach[n])
  <2>1. At(F, m) \in DOMAIN trim /\ At(F, n) \in DOMAIN trim /\ At(F, m) < At(F, n)
    BY <1>7, <1>8, <1>12
  <2>2. At(W, At(F, m)) < At(W, At(F, n))
    BY <1>4, <2>1
  <2> QED BY <1>11, <2>2
<1>13. ASSUME NEW n \in DOMAIN attach PROVE attach[n] \in Devices(list)
  <2>1. At(F, n) \in DOMAIN trim /\ attach[n] = trim[At(F, n)]
    BY <1>7, <1>8
  <2>2. At(W, At(F, n)) \in W /\ attach[n] = list[At(W, At(F, n))]
    BY <1>4, <2>1
  <2> QED BY <2>2 DEF W, Kept, Devices
<1>14. ASSUME NEW d \in Devices(list) PROVE \E n \in DOMAIN attach : attach[n] = d
  <2>1. PICK i \in DOMAIN list : list[i] = d /\ d # Blank
    BY DEF Devices
  <2>2. i \in W
    BY <2>1 DEF W, Kept
  <2>3. Rank(W, i) \in DOMAIN trim /\ trim[Rank(W, i)] = d
    BY <1>4, <2>1, <2>2
  <2>4. PICK q \in F : trim[q] = d
    BY <1>5, <2>3, FirstExists DEF F
  <2>5. Rank(F, q) \in DOMAIN attach /\ attach[Rank(F, q)] = d
    BY <1>7, <2>4
  <2> QED BY <2>5
<1>15. {attach[n] : n \in DOMAIN attach} = Devices(list)
  BY <1>13, <1>14
<1> QED BY <1>7, <1>12, <1>15 DEF attach

----------------------------------------------------------------------------
\* The check of the admission transaction.

\* Every device stands once in the list a container is given.
LEMMA AttachOnce ==
  ASSUME NEW list, IsList(list), NEW d \in Devices(list)
  PROVE  LET attach == ResolveNVIDIADeviceIDsForAttach(list)
         IN  Cardinality({n \in DOMAIN attach : attach[n] = d}) = 1
<1> DEFINE attach == ResolveNVIDIADeviceIDsForAttach(list)
           Here   == {n \in DOMAIN attach : attach[n] = d}
<1>1. /\ \E c \in Nat : DOMAIN attach = 1 .. c
      /\ {attach[n] : n \in DOMAIN attach} = Devices(list)
      /\ \A m, n \in DOMAIN attach :
           m < n => FirstOf(list, attach[m]) < FirstOf(list, attach[n])
  BY AttachList
<1>2. PICK c \in Nat : DOMAIN attach = 1 .. c
  BY <1>1
<1>3. PICK n \in DOMAIN attach : attach[n] = d
  BY <1>1
<1>4. \E p \in DOMAIN list : list[p] = d /\ FirstOf(list, d) = p
  <2>1. PICK i \in DOMAIN list : list[i] = d
    BY DEF Devices
  <2>2. PICK p \in Firsts(list) : list[p] = d
    BY <2>1, FirstExists
  <2>3. FirstOf(list, d) = p
    BY <2>2, FirstIsOne
  <2> QED BY <2>2, <2>3 DEF Firsts
<1>5. FirstOf(list, d) \in Int
  BY <1>4 DEF IsList
<1> HIDE DEF attach
<1>6. ASSUME NEW m \in DOMAIN attach, attach[m] = d PROVE m = n
  <2>1. ~(m < n) /\ ~(n < m)
    BY <1>1, <1>3, <1>5, <1>6
  <2> QED BY <1>2, <1>3, <2>1
<1>7. Here = {n}
  BY <1>3, <1>6
<1> QED BY <1>7, FS_Singleton DEF attach

\* What a set of tasks takes, per device: nothing, or one slot each.
LEMMA NeedsOfTasks ==
  ASSUME NEW list, IsList(list), NEW W, IsFiniteSet(W)
  PROVE  SumTaskGPUNeeds(W, list) =
           IF W = {} THEN [d \in {} |-> 0] ELSE [d \in Devices(list) |-> Cardinality(W)]
<1>1. CASE W = {}
  <2> DEFINE attach == << >>
             none   == {attach[n] : n \in DOMAIN attach}
  <2>1. DOMAIN attach = {}
    OBVIOUS
  <2>2. none = {}
    BY <2>1
  <2>3. TaskGPUSlotNeed(FALSE, list)
          = [d \in none |-> Cardinality({n \in DOMAIN attach : attach[n] = d})]
    BY DEF TaskGPUSlotNeed
  <2>4. DOMAIN TaskGPUSlotNeed(FALSE, list) = {}
    <3> HIDE DEF none
    <3> QED BY <2>2, <2>3
  <2>5. SumTaskGPUNeeds(W, list)
          = [d \in {} |-> Cardinality(W) * TaskGPUSlotNeed(FALSE, list)[d]]
    BY <1>1, <2>4 DEF SumTaskGPUNeeds
  <2> QED BY <1>1, <2>5
<1>2. CASE W # {}
  <2> DEFINE attach == ResolveNVIDIADeviceIDsForAttach(list)
             Times(d) == Cardinality({n \in DOMAIN attach : attach[n] = d})
  <2>1. {attach[n] : n \in DOMAIN attach} = Devices(list)
    BY AttachList
  <2>2. \A d \in Devices(list) : Times(d) = 1
    BY AttachOnce
  <2>3. TaskGPUSlotNeed(TRUE, list) = [d \in Devices(list) |-> 1]
    <3>1. TaskGPUSlotNeed(TRUE, list)
            = [d \in {attach[n] : n \in DOMAIN attach} |-> Times(d)]
      BY DEF TaskGPUSlotNeed
    <3> HIDE DEF attach, Times
    <3> QED BY <2>1, <2>2, <3>1
  <2>4. SumTaskGPUNeeds(W, list) = [d \in Devices(list) |-> Cardinality(W) * 1]
    BY <1>2, <2>3 DEF SumTaskGPUNeeds
  <2>5. Cardinality(W) \in Nat
    BY FS_CardinalityType
  <2> QED BY <1>2, <2>4, <2>5
<1> QED BY <1>1, <1>2

\* The check comes down to counting: no task asks for a GPU, or the host has
\* devices and as many slots of each as there are tasks.
LEMMA GPUCountEach ==
  ASSUME NEW list, IsList(list), NEW W, IsFiniteSet(W)
  PROVE  GPUOccupancyOK(W, list)
           <=> \/ W = {}
               \/ /\ Devices(list) # {}
                  /\ \A d \in Devices(list) : Cardinality(W) <= Slots(list, d)
<1>1. DOMAIN HostGPUSlotCapacity(list) = Devices(list)
  BY DEF HostGPUSlotCapacity
<1>2. \A d \in Devices(list) : HostGPUSlotCapacity(list)[d] = Slots(list, d)
  BY DEF HostGPUSlotCapacity, Slots
<1>3. CASE W = {}
  <2>1. DOMAIN SumTaskGPUNeeds(W, list) = {}
    BY <1>3, NeedsOfTasks
  <2> QED BY <1>3, <2>1 DEF GPUOccupancyOK, WithinCapacity
<1>4. CASE W # {}
  <2>1. SumTaskGPUNeeds(W, list) = [d \in Devices(list) |-> Cardinality(W)]
    BY <1>4, NeedsOfTasks
  <2> QED BY <1>1, <1>2, <1>4, <2>1 DEF GPUOccupancyOK, WithinCapacity
<1> QED BY <1>3, <1>4

\* Separate entries for separate tasks: there are enough of them.
LEMMA PlacesByCounting ==
  ASSUME NEW S, NEW T, IsFiniteSet(S), IsFiniteSet(T)
  PROVE  (\E place \in [S -> T] : \A s, t \in S : place[s] = place[t] => s = t)
           <=> Cardinality(S) <= Cardinality(T)
<1> DEFINE a == Cardinality(S)
           b == Cardinality(T)
<1>1. /\ a \in Nat /\ b \in Nat
      /\ ExistsBijection(1 .. a, S) /\ ExistsBijection(1 .. b, T)
  BY FS_CardinalityType
<1>2. ASSUME NEW place \in [S -> T], \A s, t \in S : place[s] = place[t] => s = t
      PROVE  a <= b
  BY <1>2, Fun_IsInj, FS_Injection
<1>3. ASSUME a <= b
      PROVE  \E place \in [S -> T] : \A s, t \in S : place[s] = place[t] => s = t
  <2> HIDE DEF a, b
  <2>1. ExistsInjection(S, 1 .. a) /\ ExistsInjection(1 .. b, T)
    BY <1>1, Fun_ExistsBijEquiv
  <2>2. ExistsInjection(1 .. a, 1 .. b)
    BY <1>1, <1>3, Fun_NatInjLeq
  <2>3. ExistsInjection(S, 1 .. b)
    BY <2>1, <2>2, Fun_ExistsInjTransitive
  <2>4. ExistsInjection(S, T)
    BY <2>1, <2>3, Fun_ExistsInjTransitive
  <2>5. PICK place \in Injection(S, T) : TRUE
    BY <2>4, Fun_ExistsInj
  <2> QED BY <2>5, Fun_InjectionProperties
<1> QED BY <1>2, <1>3

----------------------------------------------------------------------------
\* The states of a host: any list of ids up to the bound, any of the tasks.

HostTypeOK ==
  /\ ids \in UNION {[1 .. n -> Ids] : n \in 0 .. MaxEntries}
  /\ held \subseteq GpuTasks

\* The list never changes and only GPU tasks are let in.
LEMMA HostTypes == HostSpec => []HostTypeOK
<1>1. HostInit => HostTypeOK
  BY DEF HostInit, HostTypeOK
<1>2. HostTypeOK /\ [HostNext]_<<ids, held>> => HostTypeOK'
  BY DEF HostNext, Enter, Leave, HostTypeOK
<1> QED BY <1>1, <1>2, PTL DEF HostSpec

LEMMA HostShape ==
  ASSUME HostTypeOK
  PROVE  /\ IsList(ids)
         /\ IsFiniteSet(held)
         /\ \A t \in GpuTasks \ held :
              IsFiniteSet(held \cup {t}) /\ Cardinality(held \cup {t}) = Cardinality(held) + 1
<1>1. IsList(ids)
  BY GpuHostAssumption DEF HostTypeOK, IsList
<1>2. IsFiniteSet(held)
  BY GpuHostAssumption, FS_Subset DEF HostTypeOK
<1>3. \A t \in GpuTasks \ held :
        IsFiniteSet(held \cup {t}) /\ Cardinality(held \cup {t}) = Cardinality(held) + 1
  BY <1>2, FS_AddElement
<1> QED BY <1>1, <1>2, <1>3

\* The check of CheckDockerGPUOccupancyWithCandidate lets a task in exactly when it
\* and the tasks already there can be placed on separate entries of gpu_ids.
THEOREM CountingIsPlacing == HostSpec => []LetsInWhatFits
<1>1. ASSUME HostTypeOK, NEW t \in GpuTasks \ held
      PROVE  GPUOccupancyOK(held \cup {t}, ids) <=> Placeable(held \cup {t})
  <2> DEFINE tasks == held \cup {t}
             entries(d) == {i \in DOMAIN ids : ids[i] = d}
  <2>1. IsList(ids) /\ IsFiniteSet(tasks) /\ tasks # {}
    BY <1>1, HostShape
  <2>2. \A d : IsFiniteSet(entries(d))
    <3> TAKE d
    <3>1. PICK n \in Nat : DOMAIN ids = 1 .. n
      BY <2>1 DEF IsList
    <3>2. entries(d) \in SUBSET (1 .. n) /\ IsFiniteSet(1 .. n)
      BY <3>1, FS_Interval
    <3> QED BY <3>2, FS_Subset
  <2>3. \A d : Cardinality(tasks) <= Slots(ids, d)
                 <=> \E place \in [tasks -> entries(d)] :
                       \A s, u \in tasks : place[s] = place[u] => s = u
    <3> TAKE d
    <3>1. Slots(ids, d) = Cardinality(entries(d))
      BY DEF Slots
    <3> HIDE DEF tasks, entries
    <3> QED BY <2>1, <2>2, <3>1, PlacesByCounting
  <2>4. GPUOccupancyOK(tasks, ids)
          <=> /\ Devices(ids) # {}
              /\ \A d \in Devices(ids) : Cardinality(tasks) <= Slots(ids, d)
    <3> HIDE DEF tasks
    <3> QED BY <2>1, GPUCountEach
  <2>5. Placeable(tasks)
          <=> /\ Devices(ids) # {}
              /\ \A d \in Devices(ids) :
                   \E place \in [tasks -> entries(d)] :
                     \A s, u \in tasks : place[s] = place[u] => s = u
    <3> HIDE DEF tasks
    <3> QED BY DEF Placeable
  <2> HIDE DEF tasks, entries
  <2>6. GPUOccupancyOK(tasks, ids) <=> Placeable(tasks)
    BY <2>3, <2>4, <2>5
  <2> QED BY <2>6 DEF tasks
<1>2. HostTypeOK => LetsInWhatFits
  BY <1>1 DEF LetsInWhatFits
<1> QED BY <1>2, HostTypes, PTL

\* ResolveNVIDIADeviceIDsForAttach gives a container every device of the host,
\* no device twice and no blank id, in the order of their first entries.
THEOREM AttachIsEachDevice == HostSpec => []AttachesEachDeviceOnce
<1>1. HostTypeOK => AttachesEachDeviceOnce
  BY HostShape, AttachList DEF AttachesEachDeviceOnce, FirstOf
<1> QED BY <1>1, HostTypes, PTL

\* RemainingGPUSlots and the check of the transaction do not drift apart: a slot is
\* reported left on every device exactly when one more task is let in.
THEOREM RemainingIsTrue == HostSpec => []RemainingPredictsEntry
<1>1. ASSUME HostTypeOK, NEW t \in GpuTasks \ held
      PROVE  LET left == RemainingGPUSlots(HostGPUSlotCapacity(ids), SumTaskGPUNeeds(held, ids))
             IN  GPUOccupancyOK(held \cup {t}, ids)
                   <=> DOMAIN left # {} /\ \A d \in DOMAIN left : left[d] > 0
  <2> DEFINE cap  == HostGPUSlotCapacity(ids)
             used == SumTaskGPUNeeds(held, ids)
             left == RemainingGPUSlots(cap, used)
             more == held \cup {t}
  <2>1. /\ IsList(ids) /\ IsFiniteSet(held) /\ IsFiniteSet(more) /\ more # {}
        /\ Cardinality(more) = Cardinality(held) + 1 /\ Cardinality(held) \in Nat
    BY <1>1, HostShape, FS_CardinalityType
  <2>2. GPUOccupancyOK(more, ids)
          <=> /\ Devices(ids) # {}
              /\ \A d \in Devices(ids) : Cardinality(more) <= Slots(ids, d)
    <3> HIDE DEF more
    <3> QED BY <2>1, GPUCountEach
  <2>3. /\ DOMAIN cap = Devices(ids)
        /\ \A d \in Devices(ids) : cap[d] = Slots(ids, d)
    BY DEF HostGPUSlotCapacity, Slots
  <2>4. \A d \in Devices(ids) : Slots(ids, d) \in Nat
    <3> TAKE d \in Devices(ids)
    <3>1. PICK n \in Nat : DOMAIN ids = 1 .. n
      BY <2>1 DEF IsList
    <3> DEFINE here == {i \in DOMAIN ids : ids[i] = d}
    <3>2. here \in SUBSET (1 .. n) /\ IsFiniteSet(1 .. n)
      BY <3>1, FS_Interval
    <3>3. IsFiniteSet(here)
      <4> HIDE DEF here
      <4> QED BY <3>2, FS_Subset
    <3> QED BY <3>3, FS_CardinalityType DEF Slots
  <2>5. used = IF held = {} THEN [d \in {} |-> 0]
                            ELSE [d \in Devices(ids) |-> Cardinality(held)]
    BY <2>1, NeedsOfTasks
  <2>6. \A d \in Devices(ids) :
          (IF d \in DOMAIN used THEN used[d] ELSE 0) = Cardinality(held)
    <3>1. held = {} => Cardinality(held) = 0
      BY FS_EmptySet
    <3> HIDE DEF used
    <3> QED BY <2>5, <3>1
  <2>7. DOMAIN left = Devices(ids)
    <3> HIDE DEF cap, used
    <3> QED BY <2>3 DEF RemainingGPUSlots
  <2>8. \A d \in Devices(ids) :
          left[d] = IF cap[d] > Cardinality(held) THEN cap[d] - Cardinality(held) ELSE 0
    <3> HIDE DEF cap, used
    <3> QED BY <2>3, <2>6 DEF RemainingGPUSlots
  <2> HIDE DEF cap, used, left, more
  <2>9. \A d \in Devices(ids) : left[d] > 0 <=> Cardinality(more) <= Slots(ids, d)
    BY <2>1, <2>3, <2>4, <2>8
  <2>10. GPUOccupancyOK(more, ids) <=> DOMAIN left # {} /\ \A d \in DOMAIN left : left[d] > 0
    BY <2>2, <2>7, <2>9
  <2> QED BY <2>10 DEF cap, used, left, more
<1>2. HostTypeOK => RemainingPredictsEntry
  BY <1>1 DEF RemainingPredictsEntry
<1> QED BY <1>2, HostTypes, PTL
=============================================================================

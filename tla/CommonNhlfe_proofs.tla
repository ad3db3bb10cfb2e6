------------------------- MODULE CommonNhlfe_proofs -------------------------
(***************************************************************************)
(* Proofs about CommonNhlfe for tables of any size, any number of API      *)
(* threads and any use of the next hops.                                   *)
(***************************************************************************)
EXTENDS CommonNhlfe, FiniteSetTheorems, TLAPS

(***************************************************************************)
(* Typing.                                                                 *)
(***************************************************************************)
LEMMA InitTypeOK == Init => TypeOK
  <1> SUFFICES ASSUME Init PROVE TypeOK
    OBVIOUS
  <1>1. Idle \in Call
    BY DEF Idle, Call
  <1>2. QED
    BY <1>1 DEF Init, TypeOK

LEMMA NextTypeOK == TypeOK /\ [Next]_vars => TypeOK'
  <1> SUFFICES ASSUME TypeOK, [Next]_vars PROVE TypeOK'
    OBVIOUS
  <1> USE SizeAssumption, WidthAssumption, ThreadAssumption, FreeAssumption DEF RefCounts
  <1>1. ASSUME NEW t \in Threads, NEW n \in Neighbors, NEW name \in Names,
               NEW mac \in Macs, RegisterCommonNeighbor(t, n, name, mac)
        PROVE  TypeOK'
    BY <1>1 DEF TypeOK, RegisterCommonNeighbor, Neighbor
  <1>2. ASSUME NEW t \in Threads, NEW n \in Neighbors, NEW name \in Names,
               NEW mac \in Macs, RefreshCommonNeighborMac(t, n, name, mac)
        PROVE  TypeOK'
    BY <1>2 DEF TypeOK, RefreshCommonNeighborMac, Neighbor
  <1>3. ASSUME NEW t \in Threads, NEW n \in Neighbors, DeleteCommonNeighbor(t, n)
        PROVE  TypeOK'
    BY <1>3 DEF TypeOK, DeleteCommonNeighbor
  <1>4. ASSUME NEW t \in Threads, NEW h \in Nexthops, NEW iface \in Ifaces,
               NEW n \in Neighbors, RegisterCommonNexthop(t, h, iface, n)
        PROVE  TypeOK'
    BY <1>4 DEF TypeOK, RegisterCommonNexthop, Nexthop, Call, Nexthops
  <1>5. ASSUME NEW t \in Threads, ReferenceCommonNeighbor(t)
        PROVE  TypeOK'
    <2> DEFINE n == nexthop[call[t].hop].common_neighbor_index
    <2>1. Idle \in Call
      BY DEF Idle, Call
    <2>2. CASE neighbor[n] = Free
      BY <1>5, <2>2 DEF TypeOK, ReferenceCommonNeighbor
    <2>3. CASE neighbor[n] # Free /\ n \in Neighbors
      <3>1. neighbor[n] \in Neighbor
        BY <2>3 DEF TypeOK
      <3>2. neighbor' = [neighbor EXCEPT ![n].ref_cnt = Incremented(@)]
        BY <1>5, <2>3 DEF ReferenceCommonNeighbor
      <3>3. neighbor'[n] \in Neighbor
        BY <2>3, <3>1, <3>2 DEF TypeOK, Neighbor, Incremented
      <3>4. neighbor' \in [Neighbors -> Neighbor \cup {Free}]
        BY <3>2, <3>3 DEF TypeOK
      <3>5. QED
        BY <1>5, <2>1, <2>3, <3>4 DEF TypeOK, ReferenceCommonNeighbor
    <2>4. CASE neighbor[n] # Free /\ n \notin Neighbors
      <3>1. neighbor' = neighbor
        BY <1>5, <2>4 DEF ReferenceCommonNeighbor, TypeOK
      <3>2. QED
        BY <1>5, <2>1, <2>4, <3>1 DEF TypeOK, ReferenceCommonNeighbor
    <2>5. QED
      BY <2>2, <2>3, <2>4
  <1>6. ASSUME NEW t \in Threads, NEW h \in Nexthops, DereferenceCommonNeighbor(t, h)
        PROVE  TypeOK'
    <2> DEFINE n == nexthop[h].common_neighbor_index
    <2>1. n \in Neighbors
      BY <1>6 DEF DereferenceCommonNeighbor, Deletable, TypeOK, Nexthop
    <2>2. neighbor' \in [Neighbors -> Neighbor \cup {Free}]
      <3>1. CASE neighbor[n] # Free /\ neighbor[n].ref_cnt > 0
        <4>1. neighbor[n] \in Neighbor
          BY <2>1, <3>1 DEF TypeOK
        <4>2. neighbor' = [neighbor EXCEPT ![n].ref_cnt = @ - 1]
          BY <1>6, <3>1 DEF DereferenceCommonNeighbor, Deletable
        <4>3. neighbor'[n] \in Neighbor
          BY <2>1, <3>1, <4>1, <4>2 DEF TypeOK, Neighbor
        <4>4. QED
          BY <4>2, <4>3 DEF TypeOK
      <3>2. CASE ~ (neighbor[n] # Free /\ neighbor[n].ref_cnt > 0)
        BY <1>6, <3>2 DEF DereferenceCommonNeighbor, Deletable, TypeOK
      <3>3. QED
        BY <3>1, <3>2
    <2>3. call' \in [Threads -> Call]
      BY <1>6 DEF DereferenceCommonNeighbor, Deletable, TypeOK, Call, Nexthops
    <2>4. QED
      BY <1>6, <2>2, <2>3 DEF TypeOK, DereferenceCommonNeighbor
  <1>7. ASSUME NEW t \in Threads, DeleteCommonNexthop(t)
        PROVE  TypeOK'
    BY <1>7 DEF TypeOK, DeleteCommonNexthop, Call, Idle
  <1>8. ASSUME NEW t \in Threads, NEW h \in Nexthops, ReferenceCommonNexthop(t, h)
        PROVE  TypeOK'
    BY <1>8 DEF TypeOK, ReferenceCommonNexthop, Nexthop, Incremented
  <1>9. ASSUME NEW t \in Threads, NEW h \in Nexthops, DereferenceCommonNexthop(t, h)
        PROVE  TypeOK'
    BY <1>9 DEF TypeOK, DereferenceCommonNexthop, Nexthop
  <1>10. CASE UNCHANGED vars
    BY <1>10 DEF TypeOK, vars
  <1>11. QED
    BY <1>1, <1>2, <1>3, <1>4, <1>5, <1>6, <1>7, <1>8, <1>9, <1>10 DEF Next

\* Every table, counter and lock keeps its type.
THEOREM TypeCorrect == Spec => []TypeOK
  BY InitTypeOK, NextTypeOK, PTL DEF Spec

(***************************************************************************)
(* The lock discipline and the next hops' own counters.                    *)
(***************************************************************************)
LEMMA AllIdle ==
  ASSUME TypeOK, GuardDiscipline, nexthop_guard = NoThread
  PROVE  \A t \in Threads : call[t].pc = "idle"
  BY ThreadAssumption DEF GuardDiscipline

LEMMA InitGuard == Init => GuardDiscipline
  BY DEF Init, Idle, GuardDiscipline

LEMMA NextGuard == TypeOK /\ GuardDiscipline /\ [Next]_vars => GuardDiscipline'
  <1> SUFFICES ASSUME TypeOK, GuardDiscipline, [Next]_vars
               PROVE  GuardDiscipline'
    OBVIOUS
  <1> USE ThreadAssumption DEF GuardDiscipline
  <1>1. ASSUME NEW t \in Threads, NEW n \in Neighbors, NEW name \in Names,
               NEW mac \in Macs, RegisterCommonNeighbor(t, n, name, mac)
        PROVE  GuardDiscipline'
    BY <1>1 DEF RegisterCommonNeighbor
  <1>2. ASSUME NEW t \in Threads, NEW n \in Neighbors, NEW name \in Names,
               NEW mac \in Macs, RefreshCommonNeighborMac(t, n, name, mac)
        PROVE  GuardDiscipline'
    BY <1>2 DEF RefreshCommonNeighborMac
  <1>3. ASSUME NEW t \in Threads, NEW n \in Neighbors, DeleteCommonNeighbor(t, n)
        PROVE  GuardDiscipline'
    BY <1>3 DEF DeleteCommonNeighbor, Deletable
  <1>4. ASSUME NEW t \in Threads, NEW h \in Nexthops, NEW iface \in Ifaces,
               NEW n \in Neighbors, RegisterCommonNexthop(t, h, iface, n)
        PROVE  GuardDiscipline'
    <2>1. nexthop[h] = Free /\ nexthop'[h].ref_cnt = 0
      BY <1>4 DEF RegisterCommonNexthop, IsFirstFree, TypeOK
    <2>2. nexthop'[h] # Free
      <3>1. [local_e3iface |-> iface, common_neighbor_index |-> n, ref_cnt |-> 0] \in Nexthop
        BY WidthAssumption, SizeAssumption DEF Nexthop, RefCounts
      <3>2. QED
        BY <1>4, <3>1, FreeAssumption DEF RegisterCommonNexthop, TypeOK
    <2>3. \A u \in Threads : call[u].pc = "idle"
      BY <1>4, AllIdle DEF RegisterCommonNexthop, MayLockNexthop
    <2>4. QED
      BY <1>4, <2>1, <2>2, <2>3 DEF RegisterCommonNexthop, TypeOK
  <1>5. ASSUME NEW t \in Threads, ReferenceCommonNeighbor(t)
        PROVE  GuardDiscipline'
    BY <1>5 DEF ReferenceCommonNeighbor, Idle, TypeOK
  <1>6. ASSUME NEW t \in Threads, NEW h \in Nexthops, DereferenceCommonNeighbor(t, h)
        PROVE  GuardDiscipline'
    <2>1. \A u \in Threads : call[u].pc = "idle"
      BY <1>6, AllIdle DEF DereferenceCommonNeighbor, Deletable, MayLockNexthop
    <2>2. QED
      BY <1>6, <2>1 DEF DereferenceCommonNeighbor, Deletable, TypeOK
  <1>7. ASSUME NEW t \in Threads, DeleteCommonNexthop(t)
        PROVE  GuardDiscipline'
    BY <1>7 DEF DeleteCommonNexthop, Idle, TypeOK
  <1>8. ASSUME NEW t \in Threads, NEW h \in Nexthops,
               ReferenceCommonNexthop(t, h) \/ DereferenceCommonNexthop(t, h)
        PROVE  GuardDiscipline'
    <2>1. \A u \in Threads : call[u].pc = "idle"
      BY <1>8, AllIdle DEF ReferenceCommonNexthop, DereferenceCommonNexthop, MayLockNexthop
    <2>2. QED
      BY <1>8, <2>1 DEF ReferenceCommonNexthop, DereferenceCommonNexthop
  <1>9. CASE UNCHANGED vars
    BY <1>9 DEF vars
  <1>10. QED
    BY <1>1, <1>2, <1>3, <1>4, <1>5, <1>6, <1>7, <1>8, <1>9 DEF Next

\* No next hop is held as often as its ref_cnt has values: fewer than 2^16 times.
NoOverflow == \A h \in Nexthops : held[h] < RefModulus

LEMMA InitCounts == Init => NexthopAccounting
  BY DEF Init, NexthopAccounting

LEMMA NextCounts ==
  TypeOK /\ GuardDiscipline /\ NexthopAccounting /\ NoOverflow' /\ [Next]_vars
    => NexthopAccounting'
  <1> SUFFICES ASSUME TypeOK, GuardDiscipline, NexthopAccounting, NoOverflow', [Next]_vars
               PROVE  NexthopAccounting'
    OBVIOUS
  <1> USE DEF NexthopAccounting
  <1>1. ASSUME UNCHANGED <<nexthop, held>> PROVE NexthopAccounting'
    BY <1>1
  <1>2. ASSUME NEW t \in Threads, NEW h \in Nexthops, NEW iface \in Ifaces,
               NEW n \in Neighbors, RegisterCommonNexthop(t, h, iface, n)
        PROVE  NexthopAccounting'
    <2>1. nexthop[h] = Free /\ nexthop'[h].ref_cnt = 0
      BY <1>2 DEF RegisterCommonNexthop, IsFirstFree, TypeOK
    <2>2. \A g \in Nexthops : g # h => nexthop'[g] = nexthop[g]
      BY <1>2 DEF RegisterCommonNexthop, TypeOK
    <2>3. QED
      BY <1>2, <2>1, <2>2 DEF RegisterCommonNexthop
  <1>3. ASSUME NEW t \in Threads, DeleteCommonNexthop(t)
        PROVE  NexthopAccounting'
    <2>1. held[call[t].hop] = 0 /\ call[t].hop \in Nexthops
      BY <1>3 DEF DeleteCommonNexthop, GuardDiscipline
    <2>2. QED
      BY <1>3, <2>1 DEF DeleteCommonNexthop, TypeOK
  <1>4. ASSUME NEW t \in Threads, NEW h \in Nexthops, ReferenceCommonNexthop(t, h)
        PROVE  NexthopAccounting'
    <2>1. nexthop[h] \in Nexthop /\ nexthop[h] # Free
      BY <1>4 DEF ReferenceCommonNexthop, TypeOK
    <2>2. held'[h] = held[h] + 1 /\ held[h] + 1 < RefModulus /\ held[h] \in Nat
      BY <1>4 DEF ReferenceCommonNexthop, TypeOK, NoOverflow
    <2>3. Incremented(nexthop[h].ref_cnt) = held[h] + 1
      <3>1. nexthop[h].ref_cnt = held[h]
        BY <2>1
      <3>2. QED
        BY <2>2, <3>1, WidthAssumption DEF Incremented
    <2>4. nexthop'[h].ref_cnt = held[h] + 1
      BY <1>4, <2>1, <2>3 DEF ReferenceCommonNexthop, TypeOK, Nexthop
    <2>5. \A g \in Nexthops : g # h => nexthop'[g] = nexthop[g] /\ held'[g] = held[g]
      BY <1>4 DEF ReferenceCommonNexthop, TypeOK
    <2>6. nexthop'[h] # Free
      <3>1. [nexthop[h] EXCEPT !.ref_cnt = held[h] + 1] \in Nexthop
        <4>1. PICK k : k = held[h] + 1
          OBVIOUS
        <4>2. k \in RefCounts
          BY <2>2, <4>1, WidthAssumption DEF RefCounts
        <4>3. [nexthop[h] EXCEPT !.ref_cnt = k] \in Nexthop
          BY <2>1, <4>2 DEF Nexthop
        <4>4. QED
          BY <4>1, <4>3
      <3>2. nexthop'[h] = [nexthop[h] EXCEPT !.ref_cnt = held[h] + 1]
        BY <1>4, <2>3 DEF ReferenceCommonNexthop, TypeOK
      <3>3. QED
        BY <3>1, <3>2, FreeAssumption
    <2>7. QED
      BY <2>2, <2>4, <2>5, <2>6
  <1>5. ASSUME NEW t \in Threads, NEW h \in Nexthops, DereferenceCommonNexthop(t, h)
        PROVE  NexthopAccounting'
    <2>1. nexthop[h] # Free /\ nexthop[h].ref_cnt = held[h] /\ held[h] > 0
      BY <1>5 DEF DereferenceCommonNexthop, TypeOK
    <2>2. nexthop[h] \in Nexthop
      BY <2>1 DEF TypeOK
    <2>3. nexthop' = [nexthop EXCEPT ![h].ref_cnt = @ - 1]
      BY <1>5, <2>1 DEF DereferenceCommonNexthop
    <2>4. nexthop'[h] # Free /\ nexthop'[h].ref_cnt = nexthop[h].ref_cnt - 1
      BY <2>1, <2>2, <2>3, FreeAssumption, WidthAssumption DEF TypeOK, Nexthop, RefCounts
    <2>5. \A g \in Nexthops : g # h => nexthop'[g] = nexthop[g] /\ held'[g] = held[g]
      BY <1>5, <2>3 DEF DereferenceCommonNexthop, TypeOK
    <2>6. held'[h] = held[h] - 1
      BY <1>5 DEF DereferenceCommonNexthop, TypeOK
    <2>7. QED
      BY <2>1, <2>4, <2>5, <2>6
  <1>6. QED
    BY <1>1, <1>2, <1>3, <1>4, <1>5
       DEF Next, vars, RegisterCommonNeighbor, RefreshCommonNeighborMac,
           DeleteCommonNeighbor, ReferenceCommonNeighbor, DereferenceCommonNeighbor

\* A half-done call holds nexthop_guard and works on a slot whose ref_cnt is 0.
THEOREM CallsKeepTheGuard == Spec => []GuardDiscipline
  BY TypeCorrect, InitGuard, NextGuard, PTL DEF Spec

\* Every next hop's ref_cnt is what its clients hold and nothing is held on a
\* deleted one, as long as no next hop is held 2^16 times at once: the count is
\* a uint16_t that ReferenceCommonNexthop increments with no test.
THEOREM NexthopCounts == Spec => ([]NoOverflow => []NexthopAccounting)
  BY TypeCorrect, CallsKeepTheGuard, InitCounts, NextCounts, PTL DEF Spec

(***************************************************************************)
(* The neighbors' counters.  A step keeps them right when it keeps the     *)
(* settled next hops of each neighbor, or adds or removes one together     *)
(* with the reference.                                                     *)
(***************************************************************************)
Accounting == NeighborAccounting /\ NoDanglingNeighbor

IInv == TypeOK /\ GuardDiscipline /\ Accounting

LEMMA SomeNexthopsFinite ==
  ASSUME NEW S, S \subseteq Nexthops
  PROVE  IsFiniteSet(S) /\ Cardinality(S) \in Nat /\ Cardinality(S) <= MAX_COMMON_NEXTHOPS
  <1>1. IsFiniteSet(Nexthops) /\ Cardinality(Nexthops) = MAX_COMMON_NEXTHOPS
    <2>1. CASE MAX_COMMON_NEXTHOPS = 0
      BY <2>1, FS_EmptySet DEF Nexthops
    <2>2. CASE MAX_COMMON_NEXTHOPS # 0
      BY <2>2, SizeAssumption, FS_Interval DEF Nexthops
    <2>3. QED
      BY <2>1, <2>2
  <1>2. IsFiniteSet(S) /\ Cardinality(S) <= Cardinality(Nexthops)
    BY <1>1, FS_Subset
  <1>3. QED
    BY <1>1, <1>2, FS_CardinalityType

LEMMA SettledViaFinite ==
  ASSUME NEW n \in Neighbors
  PROVE  IsFiniteSet(SettledVia(n)) /\ Cardinality(SettledVia(n)) \in Nat
  <1>1. SettledVia(n) \subseteq Nexthops
    BY DEF SettledVia
  <1>2. QED
    BY <1>1, SomeNexthopsFinite

\* A step that leaves the settled next hops and their neighbors as they are.
KeepsSettled ==
  \A h \in Nexthops :
    /\ Settled(h)' <=> Settled(h)
    /\ Settled(h) => nexthop'[h].common_neighbor_index
                       = nexthop[h].common_neighbor_index

LEMMA KeepsSettledVia ==
  ASSUME KeepsSettled, NEW n \in Neighbors
  PROVE  SettledVia(n)' = SettledVia(n)
  BY DEF KeepsSettled, SettledVia

\* The next hops' side of a step that changes only the neighbor table.
LEMMA NeighborStepKeepsSettled ==
  ASSUME UNCHANGED <<nexthop, call>>
  PROVE  KeepsSettled
  BY DEF KeepsSettled, Settled

LEMMA InitAccounting == Init => Accounting
  BY DEF Init, Accounting, NeighborAccounting, NoDanglingNeighbor, Settled

LEMMA NextAccounting == IInv /\ [Next]_vars => Accounting'
  <1> SUFFICES ASSUME IInv, [Next]_vars PROVE Accounting'
    OBVIOUS
  <1> USE SizeAssumption, WidthAssumption, ThreadAssumption, FreeAssumption DEF RefCounts
  <1>0. \A n \in Neighbors : neighbor[n] # Free => neighbor[n] \in Neighbor
    BY DEF IInv, TypeOK
  \* A step that keeps the settled next hops, the neighbors and their counters.
  <1>a. ASSUME KeepsSettled,
               \A n \in Neighbors :
                 /\ neighbor'[n] = Free <=> neighbor[n] = Free
                 /\ neighbor[n] # Free =>
                      neighbor'[n].ref_cnt = neighbor[n].ref_cnt
        PROVE  Accounting'
    <2>1. NeighborAccounting'
      BY <1>a, KeepsSettledVia DEF IInv, Accounting, NeighborAccounting
    <2>2. NoDanglingNeighbor'
      <3> SUFFICES ASSUME NEW h \in Nexthops, Settled(h)'
                   PROVE  neighbor'[nexthop'[h].common_neighbor_index] # Free
        BY DEF NoDanglingNeighbor
      <3>1. Settled(h) /\ nexthop'[h].common_neighbor_index
                            = nexthop[h].common_neighbor_index
        BY <1>a DEF KeepsSettled
      <3>2. nexthop[h].common_neighbor_index \in Neighbors
        BY <3>1 DEF IInv, TypeOK, Settled, Nexthop
      <3>3. QED
        BY <1>a, <3>1, <3>2 DEF IInv, Accounting, NoDanglingNeighbor
    <2>3. QED
      BY <2>1, <2>2 DEF Accounting
  <1>1. ASSUME NEW t \in Threads, NEW m \in Neighbors, NEW name \in Names,
               NEW mac \in Macs, RegisterCommonNeighbor(t, m, name, mac)
        PROVE  Accounting'
    <2>1. KeepsSettled
      BY <1>1, NeighborStepKeepsSettled DEF RegisterCommonNeighbor
    <2>2. /\ neighbor[m] = Free
          /\ neighbor'[m].ref_cnt = 0
          /\ neighbor'[m] # Free
          /\ \A n \in Neighbors : n # m => neighbor'[n] = neighbor[n]
      BY <1>1 DEF RegisterCommonNeighbor, IsFirstFree, IInv, TypeOK, Neighbor
    <2>3. SettledVia(m) = {}
      BY <2>2 DEF SettledVia, IInv, Accounting, NoDanglingNeighbor
    <2>4. NeighborAccounting'
      BY <2>1, <2>2, <2>3, KeepsSettledVia, FS_EmptySet
         DEF IInv, Accounting, NeighborAccounting
    <2>5. NoDanglingNeighbor'
      <3> SUFFICES ASSUME NEW h \in Nexthops, Settled(h)'
                   PROVE  neighbor'[nexthop'[h].common_neighbor_index] # Free
        BY DEF NoDanglingNeighbor
      <3>1. Settled(h) /\ nexthop' = nexthop
        BY <1>1, <2>1 DEF KeepsSettled, RegisterCommonNeighbor
      <3>2. nexthop[h].common_neighbor_index \in Neighbors
        BY <3>1 DEF IInv, TypeOK, Settled, Nexthop
      <3>3. QED
        BY <2>2, <3>1, <3>2 DEF IInv, Accounting, NoDanglingNeighbor
    <2>6. QED
      BY <2>4, <2>5 DEF Accounting
  <1>2. ASSUME NEW t \in Threads, NEW m \in Neighbors, NEW name \in Names,
               NEW mac \in Macs, RefreshCommonNeighborMac(t, m, name, mac)
        PROVE  Accounting'
    <2>1. KeepsSettled
      BY <1>2, NeighborStepKeepsSettled DEF RefreshCommonNeighborMac
    <2>2. neighbor[m] \in Neighbor /\ neighbor' = [neighbor EXCEPT ![m].mac = mac]
      BY <1>0, <1>2 DEF RefreshCommonNeighborMac
    <2>3. neighbor'[m] \in Neighbor /\ neighbor'[m].ref_cnt = neighbor[m].ref_cnt
      BY <2>2 DEF IInv, TypeOK, Neighbor
    <2>4. \A n \in Neighbors : n # m => neighbor'[n] = neighbor[n]
      BY <2>2 DEF IInv, TypeOK
    <2>5. QED
      BY <1>a, <2>1, <2>2, <2>3, <2>4
  <1>3. ASSUME NEW t \in Threads, NEW m \in Neighbors, DeleteCommonNeighbor(t, m)
        PROVE  Accounting'
    <2>1. KeepsSettled
      BY <1>3, NeighborStepKeepsSettled DEF DeleteCommonNeighbor, Deletable
    <2>2. /\ neighbor'[m] = Free
          /\ \A n \in Neighbors : n # m => neighbor'[n] = neighbor[n]
      BY <1>3 DEF DeleteCommonNeighbor, Deletable, IInv, TypeOK
    <2>3. SettledVia(m) = {}
      <3>1. Cardinality(SettledVia(m)) = 0
        BY <1>3 DEF DeleteCommonNeighbor, Deletable, IInv, Accounting, NeighborAccounting
      <3>2. QED
        BY <3>1, SettledViaFinite, FS_EmptySet
    <2>4. NeighborAccounting'
      BY <2>1, <2>2, KeepsSettledVia DEF IInv, Accounting, NeighborAccounting
    <2>5. NoDanglingNeighbor'
      <3> SUFFICES ASSUME NEW h \in Nexthops, Settled(h)'
                   PROVE  neighbor'[nexthop'[h].common_neighbor_index] # Free
        BY DEF NoDanglingNeighbor
      <3>1. Settled(h) /\ nexthop' = nexthop
        BY <1>3, <2>1 DEF KeepsSettled, DeleteCommonNeighbor
      <3>2. nexthop[h].common_neighbor_index \in Neighbors
        BY <3>1 DEF IInv, TypeOK, Settled, Nexthop
      <3>3. nexthop[h].common_neighbor_index # m
        BY <2>3, <3>1 DEF SettledVia
      <3>4. QED
        BY <2>2, <3>1, <3>2, <3>3 DEF IInv, Accounting, NoDanglingNeighbor
    <2>6. QED
      BY <2>4, <2>5 DEF Accounting
  <1>4. ASSUME NEW t \in Threads, NEW g \in Nexthops, NEW iface \in Ifaces,
               NEW m \in Neighbors, RegisterCommonNexthop(t, g, iface, m)
        PROVE  Accounting'
    <2>1. \A u \in Threads : call[u].pc = "idle"
      BY <1>4, AllIdle DEF RegisterCommonNexthop, MayLockNexthop, IInv
    <2>2. /\ nexthop[g] = Free
          /\ \A h \in Nexthops : h # g => nexthop'[h] = nexthop[h]
          /\ call'[t].pc = "reference" /\ call'[t].hop = g
          /\ \A u \in Threads : u # t => call'[u] = call[u]
      BY <1>4 DEF RegisterCommonNexthop, IsFirstFree, IInv, TypeOK
    <2>3. KeepsSettled
      BY <2>1, <2>2 DEF KeepsSettled, Settled
    <2>4. QED
      BY <1>4, <1>a, <2>3 DEF RegisterCommonNexthop
  <1>5. ASSUME NEW t \in Threads, ReferenceCommonNeighbor(t)
        PROVE  Accounting'
    <2>0. PICK g \in Nexthops : g = call[t].hop
      BY <1>5 DEF ReferenceCommonNeighbor, IInv, GuardDiscipline
    <2>1. /\ nexthop[g] # Free /\ nexthop' = nexthop /\ call[t].pc = "reference"
          /\ \A u \in Threads : u # t => call[u].pc = "idle"
      BY <1>5, <2>0 DEF ReferenceCommonNeighbor, IInv, GuardDiscipline
    <2>2. PICK m \in Neighbors : m = nexthop[g].common_neighbor_index
      BY <2>1 DEF IInv, TypeOK, Nexthop
    <2>3. CASE neighbor[m] = Free
      <3>1. UNCHANGED <<nexthop, call, neighbor>>
        BY <1>5, <2>0, <2>2, <2>3 DEF ReferenceCommonNeighbor
      <3>2. QED
        BY <1>a, <3>1, NeighborStepKeepsSettled
    <2>4. CASE neighbor[m] # Free
      <3>1. /\ neighbor' = [neighbor EXCEPT ![m].ref_cnt = Incremented(@)]
            /\ call' = [call EXCEPT ![t] = Idle]
        BY <1>5, <2>0, <2>2, <2>4 DEF ReferenceCommonNeighbor
      <3>2. \A u \in Threads : call'[u].pc = "idle"
        BY <2>1, <3>1 DEF IInv, TypeOK, Idle
      <3>3. ~ Settled(g) /\ Settled(g)'
        BY <2>0, <2>1, <3>2 DEF Settled
      <3>4. \A h \in Nexthops : h # g => (Settled(h)' <=> Settled(h))
        BY <2>0, <2>1, <3>2 DEF Settled
      <3>5. /\ neighbor[m] \in Neighbor /\ neighbor'[m] # Free
            /\ neighbor'[m].ref_cnt = Incremented(neighbor[m].ref_cnt)
        BY <1>0, <2>2, <2>4, <3>1 DEF IInv, TypeOK, Neighbor, Incremented
      <3>6. \A n \in Neighbors : n # m => neighbor'[n] = neighbor[n]
        BY <2>2, <3>1 DEF IInv, TypeOK
      <3>7. SettledVia(m)' = SettledVia(m) \cup {g} /\ g \notin SettledVia(m)
        BY <2>1, <2>2, <3>3, <3>4 DEF SettledVia
      <3>8. Cardinality(SettledVia(m)') = neighbor'[m].ref_cnt
        <4>1. Cardinality(SettledVia(m) \cup {g}) = Cardinality(SettledVia(m)) + 1
          BY <3>7, SettledViaFinite, FS_AddElement
        <4>2. neighbor[m].ref_cnt = Cardinality(SettledVia(m))
          BY <2>4 DEF IInv, Accounting, NeighborAccounting
        <4>3. Cardinality(SettledVia(m)) + 1 <= MAX_COMMON_NEXTHOPS
          <5>1. SettledVia(m) \cup {g} \subseteq Nexthops
            BY DEF SettledVia
          <5>2. QED
            BY <4>1, <5>1, SomeNexthopsFinite
        <4>4. Incremented(neighbor[m].ref_cnt) = Cardinality(SettledVia(m)) + 1
          BY <2>2, <4>2, <4>3, SettledViaFinite DEF Incremented
        <4>5. QED
          BY <3>5, <3>7, <4>1, <4>4
      <3>9. \A n \in Neighbors : n # m => SettledVia(n)' = SettledVia(n)
        BY <2>1, <2>2, <3>3, <3>4 DEF SettledVia
      <3>10. NeighborAccounting'
        BY <3>6, <3>8, <3>9 DEF IInv, Accounting, NeighborAccounting
      <3>11. NoDanglingNeighbor'
        <4> SUFFICES ASSUME NEW h \in Nexthops, Settled(h)'
                     PROVE  neighbor'[nexthop'[h].common_neighbor_index] # Free
          BY DEF NoDanglingNeighbor
        <4>1. nexthop[h].common_neighbor_index \in Neighbors
          BY <2>1 DEF IInv, TypeOK, Settled, Nexthop
        <4>2. QED
          BY <2>1, <2>2, <3>4, <3>5, <3>6, <4>1 DEF IInv, Accounting, NoDanglingNeighbor
      <3>12. QED
        BY <3>10, <3>11 DEF Accounting
    <2>5. QED
      BY <2>3, <2>4
  <1>6. ASSUME NEW t \in Threads, NEW g \in Nexthops, DereferenceCommonNeighbor(t, g)
        PROVE  Accounting'
    <2>1. /\ nexthop[g] # Free /\ nexthop' = nexthop
          /\ \A u \in Threads : call[u].pc = "idle"
          /\ call'[t].pc = "invalidate" /\ call'[t].hop = g
          /\ \A u \in Threads : u # t => call'[u] = call[u]
      BY <1>6, AllIdle DEF DereferenceCommonNeighbor, Deletable, MayLockNexthop, IInv, TypeOK
    <2>m. PICK m \in Neighbors : m = nexthop[g].common_neighbor_index
      BY <2>1 DEF IInv, TypeOK, Nexthop
    <2>2. Settled(g) /\ ~ Settled(g)'
      BY <2>1 DEF Settled
    <2>3. \A h \in Nexthops : h # g => (Settled(h)' <=> Settled(h))
      BY <2>1 DEF Settled
    <2>4. neighbor[m] # Free /\ neighbor[m] \in Neighbor
      BY <1>0, <2>2, <2>m DEF IInv, Accounting, NoDanglingNeighbor
    <2>5. /\ g \in SettledVia(m)
          /\ SettledVia(m)' = SettledVia(m) \ {g}
          /\ \A n \in Neighbors : n # m => SettledVia(n)' = SettledVia(n)
      BY <2>1, <2>2, <2>m, <2>3 DEF SettledVia
    <2>6. neighbor[m].ref_cnt = Cardinality(SettledVia(m)) /\ neighbor[m].ref_cnt > 0
      <3>1. neighbor[m].ref_cnt = Cardinality(SettledVia(m))
        BY <2>2, <2>4 DEF IInv, Accounting, NeighborAccounting
      <3>2. Cardinality(SettledVia(m)) # 0
        BY <2>2, <2>5, SettledViaFinite, FS_EmptySet
      <3>3. QED
        BY <2>2, <3>1, <3>2, SettledViaFinite
    <2>7. neighbor' = [neighbor EXCEPT ![m].ref_cnt = @ - 1]
      BY <1>6, <2>4, <2>m, <2>6 DEF DereferenceCommonNeighbor, Deletable
    <2>8. neighbor'[m].ref_cnt = neighbor[m].ref_cnt - 1 /\ neighbor'[m] # Free
      BY <2>2, <2>4, <2>6, <2>7 DEF IInv, TypeOK, Neighbor
    <2>9. \A n \in Neighbors : n # m => neighbor'[n] = neighbor[n]
      BY <2>2, <2>7 DEF IInv, TypeOK
    <2>10. Cardinality(SettledVia(m)') = neighbor'[m].ref_cnt
      BY <2>2, <2>5, <2>6, <2>8, SettledViaFinite, FS_RemoveElement
    <2>11. NeighborAccounting'
      BY <2>5, <2>9, <2>10 DEF IInv, Accounting, NeighborAccounting
    <2>12. NoDanglingNeighbor'
      <3> SUFFICES ASSUME NEW h \in Nexthops, Settled(h)'
                   PROVE  neighbor'[nexthop'[h].common_neighbor_index] # Free
        BY DEF NoDanglingNeighbor
      <3>1. nexthop[h].common_neighbor_index \in Neighbors
        BY <2>1 DEF IInv, TypeOK, Settled, Nexthop
      <3>2. QED
        BY <2>1, <2>2, <2>m, <2>3, <2>8, <2>9, <3>1
           DEF IInv, Accounting, NoDanglingNeighbor
    <2>13. QED
      BY <2>11, <2>12 DEF Accounting
  <1>7. ASSUME NEW t \in Threads, DeleteCommonNexthop(t)
        PROVE  Accounting'
    <2> DEFINE g == call[t].hop
    <2>1. /\ g \in Nexthops /\ call[t].pc # "idle" /\ nexthop'[g] = Free
          /\ \A h \in Nexthops : h # g => nexthop'[h] = nexthop[h]
          /\ \A u \in Threads : u # t => call[u].pc = "idle"
      BY <1>7 DEF DeleteCommonNexthop, IInv, GuardDiscipline, TypeOK
    <2>2. \A u \in Threads : call'[u].pc = "idle"
      BY <1>7, <2>1 DEF DeleteCommonNexthop, IInv, TypeOK, Idle
    <2>3. KeepsSettled
      BY <2>1, <2>2 DEF KeepsSettled, Settled
    <2>4. QED
      BY <1>7, <1>a, <2>3 DEF DeleteCommonNexthop
  <1>8. ASSUME NEW t \in Threads, NEW g \in Nexthops, ReferenceCommonNexthop(t, g)
        PROVE  Accounting'
    <2>1. nexthop[g] \in Nexthop /\ nexthop' = [nexthop EXCEPT ![g].ref_cnt = Incremented(@)]
      BY <1>8 DEF ReferenceCommonNexthop, IInv, TypeOK
    <2>2. /\ nexthop'[g] # Free /\ nexthop[g] # Free
          /\ nexthop'[g].common_neighbor_index = nexthop[g].common_neighbor_index
          /\ \A h \in Nexthops : h # g => nexthop'[h] = nexthop[h]
      BY <2>1 DEF IInv, TypeOK, Nexthop, Incremented
    <2>3. KeepsSettled
      BY <1>8, <2>2 DEF KeepsSettled, Settled, ReferenceCommonNexthop
    <2>4. QED
      BY <1>8, <1>a, <2>3 DEF ReferenceCommonNexthop
  <1>9. ASSUME NEW t \in Threads, NEW g \in Nexthops, DereferenceCommonNexthop(t, g)
        PROVE  Accounting'
    <2>1. CASE ~ (nexthop[g] # Free /\ nexthop[g].ref_cnt > 0)
      BY <1>9, <1>a, <2>1, NeighborStepKeepsSettled DEF DereferenceCommonNexthop
    <2>2. CASE nexthop[g] # Free /\ nexthop[g].ref_cnt > 0
      <3>1. nexthop[g] \in Nexthop /\ nexthop' = [nexthop EXCEPT ![g].ref_cnt = @ - 1]
        BY <1>9, <2>2 DEF DereferenceCommonNexthop, IInv, TypeOK
      <3>2. /\ nexthop'[g] # Free
            /\ nexthop'[g].common_neighbor_index = nexthop[g].common_neighbor_index
            /\ \A h \in Nexthops : h # g => nexthop'[h] = nexthop[h]
        BY <2>2, <3>1 DEF IInv, TypeOK, Nexthop
      <3>3. KeepsSettled
        BY <1>9, <2>2, <3>2 DEF KeepsSettled, Settled, DereferenceCommonNexthop
      <3>4. QED
        BY <1>9, <1>a, <3>3 DEF DereferenceCommonNexthop
    <2>3. QED
      BY <2>1, <2>2
  <1>10. CASE UNCHANGED vars
    BY <1>10, <1>a, NeighborStepKeepsSettled DEF vars
  <1>11. QED
    BY <1>1, <1>2, <1>3, <1>4, <1>5, <1>6, <1>7, <1>8, <1>9, <1>10 DEF Next

\* With any number of API threads a neighbor's ref_cnt counts the settled next
\* hops that use it, and no settled next hop uses a freed neighbor slot.  This
\* count cannot overflow: the table has fewer next hops than ref_cnt has values.
THEOREM NeighborsStayAccounted == Spec => [](NeighborAccounting /\ NoDanglingNeighbor)
  <1>1. Init => IInv
    BY InitTypeOK, InitGuard, InitAccounting DEF IInv
  <1>2. IInv /\ [Next]_vars => IInv'
    BY NextTypeOK, NextGuard, NextAccounting DEF IInv
  <1>3. IInv => NeighborAccounting /\ NoDanglingNeighbor
    BY DEF IInv, Accounting
  <1>4. QED
    BY <1>1, <1>2, <1>3, PTL DEF Spec

(***************************************************************************)
(* One API thread.  With the single API endpoint that the default build    *)
(* starts, no step comes between the lookup of a neighbor and its          *)
(* reference.                                                              *)
(***************************************************************************)
ReferencePending ==
  \A t \in Threads : call[t].pc = "reference" =>
    neighbor[nexthop[call[t].hop].common_neighbor_index] # Free

LEMMA NextReferencePending ==
  ASSUME \A t, u \in Threads : t = u,
         TypeOK, GuardDiscipline, ReferencePending, ReferenceSucceeds, [Next]_vars
  PROVE  ReferencePending' /\ ReferenceSucceeds'
  <1> USE DEF ReferenceSucceeds
  <1>1. ASSUME NEW t \in Threads, call[t] = Idle, UNCHANGED <<call, exited>>
        PROVE  ReferencePending' /\ ReferenceSucceeds'
    BY <1>1 DEF ReferencePending, Idle
  <1>2. ASSUME NEW t \in Threads, NEW h \in Nexthops, NEW iface \in Ifaces,
               NEW n \in Neighbors, RegisterCommonNexthop(t, h, iface, n)
        PROVE  ReferencePending' /\ ReferenceSucceeds'
    <2>1. call'[t] = [pc |-> "reference", hop |-> h]
      BY <1>2 DEF RegisterCommonNexthop, TypeOK
    <2>2. nexthop'[h].common_neighbor_index = n
      BY <1>2 DEF RegisterCommonNexthop, TypeOK
    <2>3. neighbor'[n] # Free /\ exited' = exited
      BY <1>2 DEF RegisterCommonNexthop
    <2>4. QED
      BY <2>1, <2>2, <2>3 DEF ReferencePending
  <1>3. ASSUME NEW t \in Threads, ReferenceCommonNeighbor(t)
        PROVE  ReferencePending' /\ ReferenceSucceeds'
    <2>1. neighbor[nexthop[call[t].hop].common_neighbor_index] # Free
      BY <1>3 DEF ReferenceCommonNeighbor, ReferencePending
    <2>2. call' = [call EXCEPT ![t] = Idle] /\ exited' = exited
      BY <1>3, <2>1 DEF ReferenceCommonNeighbor
    <2>3. QED
      BY <2>2 DEF ReferencePending, TypeOK, Idle
  <1>4. ASSUME NEW t \in Threads, NEW h \in Nexthops, DereferenceCommonNeighbor(t, h)
        PROVE  ReferencePending' /\ ReferenceSucceeds'
    <2>1. call'[t].pc = "invalidate" /\ exited' = exited
      BY <1>4 DEF DereferenceCommonNeighbor, Deletable, TypeOK
    <2>2. QED
      BY <2>1 DEF ReferencePending
  <1>5. ASSUME NEW t \in Threads, DeleteCommonNexthop(t)
        PROVE  ReferencePending' /\ ReferenceSucceeds'
    <2>1. call'[t].pc = "idle" /\ exited' = exited
      BY <1>5 DEF DeleteCommonNexthop, TypeOK, Idle
    <2>2. QED
      BY <2>1 DEF ReferencePending
  <1>6. CASE UNCHANGED vars
    BY <1>6 DEF vars, ReferencePending
  <1>7. QED
    BY <1>1, <1>2, <1>3, <1>4, <1>5, <1>6
       DEF Next, RegisterCommonNeighbor, RefreshCommonNeighborMac,
           DeleteCommonNeighbor, ReferenceCommonNexthop, DereferenceCommonNexthop,
           MayLockNexthop, Ready

\* With one API thread E3_ASSERT(!reference_common_nrighbor(neighbor->index))
\* never fails.
THEOREM OneThreadNeverAsserts ==
  ASSUME \A t, u \in Threads : t = u
  PROVE  Spec => []ReferenceSucceeds
  <1>1. Init => TypeOK /\ GuardDiscipline /\ ReferencePending /\ ReferenceSucceeds
    BY InitTypeOK, InitGuard DEF Init, ReferencePending, ReferenceSucceeds, Idle
  <1>2. /\ TypeOK /\ GuardDiscipline
        /\ ReferencePending /\ ReferenceSucceeds /\ [Next]_vars
        => ReferencePending' /\ ReferenceSucceeds'
    BY NextReferencePending
  <1>3. QED
    BY <1>1, <1>2, TypeCorrect, CallsKeepTheGuard, PTL DEF Spec

(***************************************************************************)
(* The tables implement the registry.  NoDuplicates makes the names, and   *)
(* the routes of next hops, keys of the tables.                            *)
(***************************************************************************)

\* A neighbor that a step keeps, but for its count.
Alike(n) ==
  /\ neighbor'[n] = Free <=> neighbor[n] = Free
  /\ neighbor[n] # Free =>
       neighbor'[n].name = neighbor[n].name /\ neighbor'[n].mac = neighbor[n].mac

\* A reference on a neighbor changes its count alone.
LEMMA CountIsNotSeen ==
  ASSUME TypeOK, NEW n \in Neighbors, neighbor[n] # Free, NEW k \in RefCounts,
         neighbor' = [neighbor EXCEPT ![n].ref_cnt = k]
  PROVE  \A m \in Neighbors : Alike(m)
<1>1. neighbor[n] \in Neighbor
  BY DEF TypeOK
<1>2. PICK e : e = [neighbor[n] EXCEPT !.ref_cnt = k]
  OBVIOUS
<1>3. e \in Neighbor /\ e.name = neighbor[n].name /\ e.mac = neighbor[n].mac
  BY <1>1, <1>2 DEF Neighbor
<1>4. \A m \in Neighbors : neighbor'[m] = IF m = n THEN e ELSE neighbor[m]
  BY <1>1, <1>2 DEF TypeOK
<1>5. e # Free
  BY <1>3, FreeAssumption
<1> QED
  BY <1>1, <1>3, <1>4, <1>5 DEF Alike

UniqueNames ==
  \A m, n \in Neighbors :
    neighbor[m] # Free /\ neighbor[n] # Free /\ neighbor[m].name = neighbor[n].name => m = n

UniqueHops ==
  \A g, h \in Nexthops :
    /\ nexthop[g] # Free /\ nexthop[h] # Free
    /\ nexthop[g].local_e3iface = nexthop[h].local_e3iface
    /\ nexthop[g].common_neighbor_index = nexthop[h].common_neighbor_index
    => g = h

LEMMA NoDuplicatesSplit == NoDuplicates <=> UniqueNames /\ UniqueHops
BY DEF NoDuplicates, UniqueNames, UniqueHops

\* A next hop that a step keeps, but for its count.
HopAlike(h) ==
  /\ nexthop'[h] = Free <=> nexthop[h] = Free
  /\ nexthop[h] # Free =>
       /\ nexthop'[h].local_e3iface = nexthop[h].local_e3iface
       /\ nexthop'[h].common_neighbor_index = nexthop[h].common_neighbor_index

LEMMA HopCountIsNotSeen ==
  ASSUME TypeOK, NEW h \in Nexthops, nexthop[h] # Free, NEW k \in RefCounts,
         nexthop' = [nexthop EXCEPT ![h].ref_cnt = k]
  PROVE  \A g \in Nexthops : HopAlike(g)
<1>1. nexthop[h] \in Nexthop
  BY DEF TypeOK
<1>2. PICK e : e = [nexthop[h] EXCEPT !.ref_cnt = k]
  OBVIOUS
<1>3. /\ e \in Nexthop /\ e.local_e3iface = nexthop[h].local_e3iface
      /\ e.common_neighbor_index = nexthop[h].common_neighbor_index
  BY <1>1, <1>2 DEF Nexthop
<1>4. \A g \in Nexthops : nexthop'[g] = IF g = h THEN e ELSE nexthop[g]
  BY <1>1, <1>2 DEF TypeOK
<1>5. e # Free
  BY <1>3, FreeAssumption
<1> QED
  BY <1>1, <1>3, <1>4, <1>5 DEF HopAlike

(***************************************************************************)
(* What a step does to the neighbors: it keeps them, enters one, gives one *)
(* another MAC, or deletes one.                                            *)
(***************************************************************************)
Enters(n, name, mac) ==
  /\ \A m \in Neighbors : neighbor[m] # Free => neighbor[m].name # name
  /\ neighbor[n] = Free /\ neighbor'[n] # Free
  /\ neighbor'[n].name = name /\ neighbor'[n].mac = mac
  /\ \A m \in Neighbors \ {n} : Alike(m)

Refreshes(n, mac) ==
  /\ neighbor[n] # Free /\ neighbor'[n] # Free
  /\ neighbor'[n].name = neighbor[n].name /\ neighbor'[n].mac = mac
  /\ \A m \in Neighbors \ {n} : Alike(m)

Leaves(n) ==
  /\ neighbor[n] # Free /\ neighbor'[n] = Free
  /\ \A m \in Neighbors \ {n} : Alike(m)

LEMMA NeighborEnters ==
  ASSUME TypeOK, NEW t \in Threads, NEW n \in Neighbors, NEW name \in Names, NEW mac \in Macs,
         RegisterCommonNeighbor(t, n, name, mac)
  PROVE  Enters(n, name, mac)
<1>1. PICK e : e = [name |-> name, mac |-> mac, ref_cnt |-> 0]
  OBVIOUS
<1>2. e \in Neighbor /\ e.name = name /\ e.mac = mac
  BY <1>1, SizeAssumption, WidthAssumption DEF Neighbor, RefCounts
<1>3. \A m \in Neighbors : neighbor'[m] = IF m = n THEN e ELSE neighbor[m]
  BY <1>1 DEF RegisterCommonNeighbor, TypeOK
<1>4. e # Free
  BY <1>2, FreeAssumption
<1> QED
  BY <1>2, <1>3, <1>4 DEF RegisterCommonNeighbor, IsFirstFree, Enters, Alike

LEMMA NeighborRefreshes ==
  ASSUME TypeOK, NEW t \in Threads, NEW n \in Neighbors, NEW name \in Names, NEW mac \in Macs,
         RefreshCommonNeighborMac(t, n, name, mac)
  PROVE  Refreshes(n, mac)
<1>1. neighbor[n] \in Neighbor
  BY DEF TypeOK, RefreshCommonNeighborMac
<1>2. PICK e : e = [neighbor[n] EXCEPT !.mac = mac]
  OBVIOUS
<1>3. e \in Neighbor /\ e.name = neighbor[n].name /\ e.mac = mac
  BY <1>1, <1>2 DEF Neighbor
<1>4. \A m \in Neighbors : neighbor'[m] = IF m = n THEN e ELSE neighbor[m]
  BY <1>1, <1>2 DEF RefreshCommonNeighborMac, TypeOK
<1>5. e # Free /\ neighbor[n] # Free
  BY <1>3, FreeAssumption DEF RefreshCommonNeighborMac
<1> QED
  BY <1>3, <1>4, <1>5 DEF Refreshes, Alike

LEMMA NeighborLeaves ==
  ASSUME TypeOK, NEW t \in Threads, NEW n \in Neighbors, DeleteCommonNeighbor(t, n)
  PROVE  Leaves(n)
BY DEF TypeOK, DeleteCommonNeighbor, Deletable, Leaves, Alike

LEMMA NamesStayUnique ==
  ASSUME UniqueNames,
         \/ \A m \in Neighbors : Alike(m)
         \/ \E n \in Neighbors : \/ \E name, mac : Enters(n, name, mac)
                                 \/ \E mac : Refreshes(n, mac)
                                 \/ Leaves(n)
  PROVE  UniqueNames'
<1>1. CASE \A m \in Neighbors : Alike(m)
  BY <1>1 DEF UniqueNames, Alike
<1>2. ASSUME NEW n \in Neighbors, NEW name, NEW mac, Enters(n, name, mac) PROVE UniqueNames'
  <2>1. \A m \in Neighbors \ {n} : neighbor'[m] # Free =>
           neighbor[m] # Free /\ neighbor'[m].name = neighbor[m].name /\ neighbor'[m].name # name
    BY <1>2 DEF Enters, Alike
  <2> QED
    BY <1>2, <2>1 DEF UniqueNames, Enters
<1>3. ASSUME NEW n \in Neighbors, NEW mac, Refreshes(n, mac) PROVE UniqueNames'
  BY <1>3 DEF UniqueNames, Refreshes, Alike
<1>4. ASSUME NEW n \in Neighbors, Leaves(n) PROVE UniqueNames'
  BY <1>4 DEF UniqueNames, Leaves, Alike
<1> QED
  BY <1>1, <1>2, <1>3, <1>4

(***************************************************************************)
(* What a step does to the settled next hops: it keeps them, settles one,  *)
(* or unsettles one.                                                       *)
(***************************************************************************)
HopStays(h) ==
  /\ Settled(h)' <=> Settled(h)
  /\ Settled(h) => HopAlike(h)

Settles(h) ==
  /\ ~Settled(h) /\ Settled(h)' /\ HopAlike(h) /\ held'[h] = held[h]
  /\ \A g \in Nexthops \ {h} : HopStays(g) /\ held'[g] = held[g]

Unsettles(h) ==
  /\ Settled(h) /\ ~Settled(h)'
  /\ \A g \in Nexthops \ {h} : HopStays(g) /\ held'[g] = held[g]

LEMMA SameHops ==
  ASSUME UNCHANGED <<nexthop, call>>
  PROVE  \A h \in Nexthops : HopAlike(h) /\ HopStays(h)
BY DEF HopAlike, HopStays, Settled

LEMMA RegisterHop ==
  ASSUME IInv, UniqueHops, NEW t \in Threads, NEW h \in Nexthops, NEW iface \in Ifaces,
         NEW n \in Neighbors, RegisterCommonNexthop(t, h, iface, n)
  PROVE  (\A g \in Nexthops : HopStays(g)) /\ UniqueHops'
<1>1. PICK e : e = [local_e3iface |-> iface, common_neighbor_index |-> n, ref_cnt |-> 0]
  OBVIOUS
<1>2. e.local_e3iface = iface /\ e.common_neighbor_index = n
  BY <1>1
<1>3. \A g \in Nexthops : nexthop'[g] = IF g = h THEN e ELSE nexthop[g]
  BY <1>1 DEF RegisterCommonNexthop, IInv, TypeOK
<1>4. nexthop[h] = Free
  BY DEF RegisterCommonNexthop, IsFirstFree
<1>5. \A u \in Threads : call[u].pc = "idle"
  BY AllIdle DEF IInv, RegisterCommonNexthop, MayLockNexthop
<1>6. call'[t].pc = "reference" /\ call'[t].hop = h
  BY DEF RegisterCommonNexthop, IInv, TypeOK
<1>7. \A u \in Threads \ {t} : call'[u] = call[u]
  BY DEF RegisterCommonNexthop, IInv, TypeOK
<1>8. ~Settled(h) /\ ~Settled(h)'
  BY <1>4, <1>6 DEF Settled
<1>9. \A g \in Nexthops \ {h} : HopAlike(g) /\ (Settled(g)' <=> Settled(g))
  BY <1>3, <1>5, <1>6, <1>7 DEF HopAlike, Settled
<1>10. \A g \in Nexthops : HopStays(g)
  BY <1>8, <1>9 DEF HopStays
<1>11. \A g \in Nexthops : nexthop[g] # Free =>
         ~(nexthop[g].local_e3iface = iface /\ nexthop[g].common_neighbor_index = n)
  BY DEF RegisterCommonNexthop
<1> QED
  BY <1>2, <1>3, <1>10, <1>11 DEF UniqueHops

\* Between two critical sections one call at most is half done.
LEMMA OthersIdle ==
  ASSUME IInv, NEW t \in Threads, call[t].pc # "idle"
  PROVE  \A u \in Threads \ {t} : call[u].pc = "idle"
BY ThreadAssumption DEF IInv, GuardDiscipline

LEMMA ReferenceSettles ==
  ASSUME IInv, NEW t \in Threads, ReferenceCommonNeighbor(t), UNCHANGED exited
  PROVE  Settles(call[t].hop) /\ \A m \in Neighbors : Alike(m)
<1>1. PICK h \in Nexthops : h = call[t].hop
  BY DEF IInv, GuardDiscipline, ReferenceCommonNeighbor
<1>2. PICK n : n = nexthop[h].common_neighbor_index
  OBVIOUS
<1>3. call[t].pc = "reference" /\ nexthop[h] # Free
  BY <1>1 DEF IInv, GuardDiscipline, ReferenceCommonNeighbor
<1>4. n \in Neighbors
  BY <1>2, <1>3 DEF IInv, TypeOK, Nexthop
<1>5. /\ neighbor[n] # Free
      /\ neighbor' = [neighbor EXCEPT ![n].ref_cnt = Incremented(@)]
      /\ call' = [call EXCEPT ![t] = Idle]
      /\ UNCHANGED <<nexthop, held>>
  BY <1>1, <1>2 DEF ReferenceCommonNeighbor
<1>6. PICK k : k = Incremented(neighbor[n].ref_cnt)
  OBVIOUS
<1>7. \A m \in Neighbors : Alike(m)
  <2>1. neighbor[n].ref_cnt \in RefCounts
    BY <1>4, <1>5 DEF IInv, TypeOK, Neighbor
  <2>2. k \in RefCounts
    BY <1>6, <2>1, SizeAssumption, WidthAssumption DEF RefCounts, Incremented
  <2>3. neighbor' = [neighbor EXCEPT ![n].ref_cnt = k]
    BY <1>5, <1>6
  <2> QED
    BY <1>4, <1>5, <2>2, <2>3, CountIsNotSeen DEF IInv
<1>8. \A u \in Threads \ {t} : call[u].pc = "idle"
  BY <1>3, OthersIdle
<1>9. \A u \in Threads : call'[u].pc = "idle"
  BY <1>5, <1>8 DEF IInv, TypeOK, Idle
<1>10. \A g \in Nexthops : HopAlike(g) /\ held'[g] = held[g]
  BY <1>5 DEF HopAlike
<1>11. ~Settled(h) /\ Settled(h)'
  BY <1>1, <1>3, <1>5, <1>9 DEF Settled
<1>12. \A g \in Nexthops \ {h} : Settled(g)' <=> Settled(g)
  BY <1>1, <1>5, <1>8, <1>9 DEF Settled
<1>13. Settles(h)
  BY <1>10, <1>11, <1>12 DEF Settles, HopStays
<1> QED
  BY <1>1, <1>7, <1>13

LEMMA DereferenceUnsettles ==
  ASSUME IInv, NEW t \in Threads, NEW h \in Nexthops, DereferenceCommonNeighbor(t, h)
  PROVE  /\ Unsettles(h) /\ nexthop[h] # Free /\ nexthop[h].ref_cnt = 0
         /\ \A m \in Neighbors : Alike(m)
<1>1. PICK n : n = nexthop[h].common_neighbor_index
  OBVIOUS
<1>2. /\ nexthop[h] # Free /\ nexthop[h].ref_cnt = 0
      /\ UNCHANGED <<nexthop, held>>
      /\ neighbor' = IF neighbor[n] # Free /\ neighbor[n].ref_cnt > 0
                     THEN [neighbor EXCEPT ![n].ref_cnt = @ - 1]
                     ELSE neighbor
  BY <1>1 DEF DereferenceCommonNeighbor, Deletable
<1>3. n \in Neighbors
  BY <1>1, <1>2 DEF IInv, TypeOK, Nexthop
<1>4. \A m \in Neighbors : Alike(m)
  <2>1. CASE neighbor[n] # Free /\ neighbor[n].ref_cnt > 0
    <3>1. neighbor[n].ref_cnt - 1 \in RefCounts
      <4>1. neighbor[n].ref_cnt \in RefCounts
        BY <1>3, <2>1 DEF IInv, TypeOK, Neighbor
      <4> QED
        BY <2>1, <4>1, WidthAssumption DEF RefCounts
    <3>2. neighbor' = [neighbor EXCEPT ![n].ref_cnt = neighbor[n].ref_cnt - 1]
      BY <1>2, <2>1
    <3> QED
      BY <1>3, <2>1, <3>1, <3>2, CountIsNotSeen DEF IInv
  <2>2. CASE ~(neighbor[n] # Free /\ neighbor[n].ref_cnt > 0)
    BY <1>2, <2>2 DEF Alike
  <2> QED
    BY <2>1, <2>2
<1>5. \A u \in Threads : call[u].pc = "idle"
  BY AllIdle DEF IInv, DereferenceCommonNeighbor, MayLockNexthop
<1>6. call'[t].pc = "invalidate" /\ call'[t].hop = h
  BY DEF DereferenceCommonNeighbor, IInv, TypeOK
<1>7. \A u \in Threads \ {t} : call'[u] = call[u]
  BY DEF DereferenceCommonNeighbor, IInv, TypeOK
<1>8. Settled(h) /\ ~Settled(h)'
  BY <1>2, <1>5, <1>6 DEF Settled
<1>9. \A g \in Nexthops \ {h} : HopAlike(g) /\ held'[g] = held[g] /\ (Settled(g)' <=> Settled(g))
  BY <1>2, <1>5, <1>6, <1>7 DEF HopAlike, Settled
<1>10. Unsettles(h)
  BY <1>8, <1>9 DEF Unsettles, HopStays
<1> QED
  BY <1>2, <1>4, <1>10

LEMMA DeleteHop ==
  ASSUME IInv, UniqueHops, NEW t \in Threads, DeleteCommonNexthop(t)
  PROVE  (\A g \in Nexthops : HopStays(g)) /\ UniqueHops'
<1>1. PICK h \in Nexthops : h = call[t].hop
  BY DEF IInv, GuardDiscipline, DeleteCommonNexthop
<1>2. call[t].pc = "invalidate" /\ call' = [call EXCEPT ![t] = Idle]
  BY DEF DeleteCommonNexthop
<1>3. \A g \in Nexthops : nexthop'[g] = IF g = h THEN Free ELSE nexthop[g]
  BY <1>1 DEF DeleteCommonNexthop, IInv, TypeOK
<1>4. \A u \in Threads \ {t} : call[u].pc = "idle"
  BY <1>2, OthersIdle
<1>5. \A u \in Threads : call'[u].pc = "idle"
  BY <1>2, <1>4 DEF IInv, TypeOK, Idle
<1>6. ~Settled(h) /\ ~Settled(h)'
  BY <1>1, <1>2, <1>3 DEF Settled
<1>7. \A g \in Nexthops \ {h} : HopAlike(g) /\ (Settled(g)' <=> Settled(g))
  BY <1>1, <1>3, <1>4, <1>5 DEF HopAlike, Settled
<1> QED
  BY <1>3, <1>6, <1>7 DEF HopStays, UniqueHops

\* A reference on a next hop, and its release, change the count alone.
LEMMA CountsKeepHops ==
  ASSUME IInv, NEW t \in Threads, NEW h \in Nexthops,
         ReferenceCommonNexthop(t, h) \/ DereferenceCommonNexthop(t, h)
  PROVE  \A g \in Nexthops : HopAlike(g) /\ HopStays(g)
<1>1. CASE nexthop' = nexthop
  BY <1>1, SameHops DEF ReferenceCommonNexthop, DereferenceCommonNexthop
<1>2. ASSUME nexthop[h] # Free, NEW k \in RefCounts,
             nexthop' = [nexthop EXCEPT ![h].ref_cnt = k]
      PROVE  \A g \in Nexthops : HopAlike(g) /\ HopStays(g)
  <2>1. \A g \in Nexthops : HopAlike(g)
    BY <1>2, HopCountIsNotSeen DEF IInv
  <2>2. call' = call
    BY DEF ReferenceCommonNexthop, DereferenceCommonNexthop
  <2> QED
    BY <2>1, <2>2 DEF HopStays, HopAlike, Settled
<1>3. nexthop[h] # Free => nexthop[h].ref_cnt \in RefCounts
  BY DEF IInv, TypeOK, Nexthop
<1>4. CASE ReferenceCommonNexthop(t, h)
  <2>1. PICK k : k = Incremented(nexthop[h].ref_cnt)
    OBVIOUS
  <2>2. nexthop[h] # Free /\ nexthop' = [nexthop EXCEPT ![h].ref_cnt = k]
    BY <1>4, <2>1 DEF ReferenceCommonNexthop
  <2>3. k \in RefCounts
    BY <1>3, <2>1, <2>2, SizeAssumption, WidthAssumption DEF RefCounts, Incremented
  <2> QED
    BY <1>2, <2>2, <2>3
<1>5. CASE DereferenceCommonNexthop(t, h) /\ nexthop[h] # Free /\ nexthop[h].ref_cnt > 0
  <2>1. PICK k : k = nexthop[h].ref_cnt - 1
    OBVIOUS
  <2>2. nexthop' = [nexthop EXCEPT ![h].ref_cnt = k]
    BY <1>5, <2>1 DEF DereferenceCommonNexthop
  <2>3. k \in RefCounts
    BY <1>3, <1>5, <2>1, WidthAssumption DEF RefCounts
  <2> QED
    BY <1>2, <1>5, <2>2, <2>3
<1>6. CASE DereferenceCommonNexthop(t, h) /\ ~(nexthop[h] # Free /\ nexthop[h].ref_cnt > 0)
  BY <1>1, <1>6 DEF DereferenceCommonNexthop
<1> QED
  BY <1>4, <1>5, <1>6

\* While the counts are exact, uses begin and end on settled next hops.
LEMMA CountUses ==
  ASSUME IInv, NexthopAccounting, NEW t \in Threads, NEW h \in Nexthops,
         ReferenceCommonNexthop(t, h) \/ DereferenceCommonNexthop(t, h)
  PROVE  /\ Settled(h) /\ \A g \in Nexthops : HopAlike(g) /\ HopStays(g)
         /\ \/ held' = [held EXCEPT ![h] = held[h] + 1]
            \/ held[h] > 0 /\ held' = [held EXCEPT ![h] = held[h] - 1]
<1>1. \A u \in Threads : call[u].pc = "idle"
  BY AllIdle DEF IInv, ReferenceCommonNexthop, DereferenceCommonNexthop, MayLockNexthop
<1>2. nexthop[h] # Free
  BY DEF IInv, TypeOK, NexthopAccounting, ReferenceCommonNexthop, DereferenceCommonNexthop
<1>3. Settled(h)
  BY <1>1, <1>2 DEF Settled
<1>4. \/ held' = [held EXCEPT ![h] = held[h] + 1]
      \/ held[h] > 0 /\ held' = [held EXCEPT ![h] = held[h] - 1]
  <2>1. CASE ReferenceCommonNexthop(t, h)
    BY <2>1 DEF ReferenceCommonNexthop
  <2>2. CASE DereferenceCommonNexthop(t, h)
    BY <2>2 DEF DereferenceCommonNexthop
  <2> QED
    BY <2>1, <2>2
<1> QED
  BY <1>3, <1>4, CountsKeepHops

(***************************************************************************)
(* The registry that the tables stand for.                                 *)
(***************************************************************************)
KeysInv == IInv /\ UniqueNames /\ UniqueHops

RegistryInv == IInv /\ NexthopAccounting /\ UniqueNames /\ UniqueHops

\* What MacOf and UsesOf say when names and routes are keys.
MacsSeen ==
  /\ \A n \in Neighbors : \A name :
       neighbor[n] # Free /\ neighbor[n].name = name => MacOf(name) = neighbor[n].mac
  /\ \A name :
       (\A n \in Neighbors : neighbor[n] # Free => neighbor[n].name # name) => MacOf(name) = Free

UsesSeen ==
  /\ \A h \in Nexthops : \A r : Settled(h) /\ Route(h) = r => UsesOf(r) = held[h]
  /\ \A r : r \notin Routes => UsesOf(r) = 0

LEMMA MacsAreSeen == UniqueNames => MacsSeen
BY DEF UniqueNames, MacsSeen, MacOf

LEMMA RoutesAreUnique ==
  ASSUME RegistryInv, NEW g \in Nexthops, NEW h \in Nexthops, Settled(g), Settled(h),
         Route(g) = Route(h)
  PROVE  g = h
<1>1. /\ nexthop[g].local_e3iface = nexthop[h].local_e3iface /\ Via(g) = Via(h)
      /\ nexthop[g] # Free /\ nexthop[h] # Free
  BY DEF Route, Settled
<1>2. /\ nexthop[g].common_neighbor_index \in Neighbors
      /\ nexthop[h].common_neighbor_index \in Neighbors
  BY <1>1 DEF RegistryInv, IInv, TypeOK, Nexthop
<1>3. nexthop[g].common_neighbor_index = nexthop[h].common_neighbor_index
  BY <1>1, <1>2 DEF RegistryInv, IInv, Accounting, NoDanglingNeighbor, UniqueNames, Via
<1> QED
  BY <1>1, <1>3 DEF RegistryInv, UniqueHops

RouteKeys ==
  \A g, h \in Nexthops : Settled(g) /\ Settled(h) /\ Route(g) = Route(h) => g = h

LEMMA RoutesAreKeys == RegistryInv => RouteKeys
BY RoutesAreUnique DEF RouteKeys

LEMMA UsesAreSeen == RegistryInv => UsesSeen
<1> SUFFICES ASSUME RegistryInv PROVE UsesSeen
  OBVIOUS
<1>1. ASSUME NEW h \in Nexthops, NEW r, Settled(h), Route(h) = r PROVE UsesOf(r) = held[h]
  <2>1. r \in Routes
    BY <1>1 DEF Routes
  <2>2. \A g \in Nexthops : Settled(g) /\ Route(g) = r => g = h
    BY <1>1, RoutesAreUnique
  <2>3. h = CHOOSE g \in Nexthops : Settled(g) /\ Route(g) = r
    BY <1>1, <2>2
  <2> QED
    BY <2>1, <2>3 DEF UsesOf
<1> QED
  BY <1>1 DEF UsesSeen, UsesOf

Seen == MacsSeen /\ UsesSeen

LEMMA InvIsSeen == RegistryInv => Seen
BY MacsAreSeen, UsesAreSeen DEF Seen, RegistryInv

\* A settled next hop leads to a registered neighbor under a route of its own.
LEMMA SettledIsTyped ==
  ASSUME RegistryInv, NEW h \in Nexthops, Settled(h)
  PROVE  /\ nexthop[h].common_neighbor_index \in Neighbors
         /\ nexthop[h].local_e3iface \in Ifaces
         /\ neighbor[nexthop[h].common_neighbor_index] # Free
         /\ Via(h) \in Names /\ Route(h) \in Ifaces \X Names
<1>1. nexthop[h] \in Nexthop
  BY DEF Settled, RegistryInv, IInv, TypeOK
<1>2. neighbor[nexthop[h].common_neighbor_index] \in Neighbor
  BY <1>1 DEF RegistryInv, IInv, TypeOK, Accounting, NoDanglingNeighbor, Nexthop
<1> QED
  BY <1>1, <1>2, FreeAssumption DEF Nexthop, Neighbor, Via, Route

(* The steps of the registry, in these terms. *)
MacsStay   == \A name \in Names : MacOf(name)' = MacOf(name)
RoutesStay == Routes' = Routes /\ \A r \in Ifaces \X Names : UsesOf(r)' = UsesOf(r)
OneMac(name, m) == MacOf(name)' = m /\ \A x \in Names \ {name} : MacOf(x)' = MacOf(x)
OneUse(r, n) ==
  Routes' = Routes /\ UsesOf(r)' = n /\ \A x \in (Ifaces \X Names) \ {r} : UsesOf(x)' = UsesOf(x)
UsesStay == \A r \in Ifaces \X Names : UsesOf(r)' = UsesOf(r)

RegistryMac == [name \in Names |-> MacOf(name)]
RegistryUses == [route \in Ifaces \X Names |-> UsesOf(route)]

LEMMA MacsStayMac ==
  ASSUME MacsStay PROVE RegistryMac' = RegistryMac
BY DEF MacsStay, RegistryMac

LEMMA UsesStayUses ==
  ASSUME UsesStay PROVE RegistryUses' = RegistryUses
BY DEF UsesStay, RegistryUses

LEMMA AsStutter ==
  ASSUME MacsStay, Routes' = Routes, UsesStay
  PROVE  [Registry!Next]_(Registry!vars)
<1>1. RegistryMac' = RegistryMac /\ RegistryUses' = RegistryUses
  BY MacsStayMac, UsesStayUses
<1> QED
  BY <1>1 DEF Registry!vars, RegistryMac, RegistryUses

LEMMA AsSetMac ==
  ASSUME NEW name \in Names, NEW m \in Macs, OneMac(name, m), Routes' = Routes, UsesStay
  PROVE  Registry!SetMac(name, m)
<1>1. RegistryUses' = RegistryUses
  BY UsesStayUses
<1>2. RegistryMac' = [RegistryMac EXCEPT ![name] = m]
  BY DEF OneMac, RegistryMac
<1> QED
  BY <1>1, <1>2 DEF Registry!SetMac, RegistryMac, RegistryUses

LEMMA AsForget ==
  ASSUME NEW name \in Names, OneMac(name, Free), Routes' = Routes, UsesStay,
         \A iface \in Ifaces : <<iface, name>> \notin Routes
  PROVE  Registry!Forget(name)
<1>1. RegistryUses' = RegistryUses
  BY UsesStayUses
<1>2. RegistryMac' = [RegistryMac EXCEPT ![name] = Free]
  BY DEF OneMac, RegistryMac
<1> QED
  BY <1>1, <1>2 DEF Registry!Forget, RegistryMac, RegistryUses

LEMMA AsAddRoute ==
  ASSUME NEW iface \in Ifaces, NEW name \in Names, MacsStay, UsesStay,
         MacOf(name) # Free, <<iface, name>> \notin Routes,
         Routes' = Routes \cup {<<iface, name>>}
  PROVE  Registry!AddRoute(iface, name)
<1>1. RegistryMac' = RegistryMac /\ RegistryUses' = RegistryUses
  BY MacsStayMac, UsesStayUses
<1>2. RegistryMac[name] # Free
  BY DEF RegistryMac
<1> QED
  BY <1>1, <1>2 DEF Registry!AddRoute, RegistryMac, RegistryUses

LEMMA AsDropRoute ==
  ASSUME NEW r \in Ifaces \X Names, MacsStay, UsesStay, UsesOf(r) = 0,
         Routes' = Routes \ {r}
  PROVE  Registry!DropRoute(r)
<1>1. RegistryMac' = RegistryMac /\ RegistryUses' = RegistryUses
  BY MacsStayMac, UsesStayUses
<1>2. RegistryUses[r] = 0
  BY DEF RegistryUses
<1> QED
  BY <1>1, <1>2 DEF Registry!DropRoute, RegistryMac, RegistryUses

LEMMA AsUse ==
  ASSUME NEW r \in Ifaces \X Names, MacsStay, OneUse(r, UsesOf(r) + 1)
  PROVE  Registry!Use(r)
<1>1. RegistryMac' = RegistryMac /\ Routes' = Routes
  BY MacsStayMac DEF OneUse
<1>2. RegistryUses' = [RegistryUses EXCEPT ![r] = @ + 1]
  BY DEF OneUse, RegistryUses
<1> QED
  BY <1>1, <1>2 DEF Registry!Use, RegistryMac, RegistryUses

LEMMA AsRelease ==
  ASSUME NEW r \in Ifaces \X Names, MacsStay, UsesOf(r) > 0, OneUse(r, UsesOf(r) - 1)
  PROVE  Registry!Release(r)
<1>1. RegistryMac' = RegistryMac /\ Routes' = Routes
  BY MacsStayMac DEF OneUse
<1>2. RegistryUses' = [RegistryUses EXCEPT ![r] = @ - 1] /\ RegistryUses[r] > 0
  BY DEF OneUse, RegistryUses
<1> QED
  BY <1>1, <1>2 DEF Registry!Release, RegistryMac, RegistryUses

(***************************************************************************)
(* What the steps of the tables are to the registry.                       *)
(***************************************************************************)

LEMMA AlikeMacs ==
  ASSUME Seen, Seen', \A n \in Neighbors : Alike(n)
  PROVE  MacsStay
<1> SUFFICES ASSUME NEW name \in Names PROVE MacOf(name)' = MacOf(name)
  BY DEF MacsStay
<1>1. CASE \E n \in Neighbors : neighbor[n] # Free /\ neighbor[n].name = name
  BY <1>1 DEF Seen, MacsSeen, Alike
<1>2. CASE \A n \in Neighbors : neighbor[n] # Free => neighbor[n].name # name
  BY <1>2 DEF Seen, MacsSeen, Alike
<1> QED
  BY <1>1, <1>2

\* A name that one neighbor has or had, and no other, is the only one to change.
LEMMA OneNameMoves ==
  ASSUME Seen, Seen', NEW n \in Neighbors, NEW name, \A m \in Neighbors \ {n} : Alike(m),
         neighbor[n] # Free => neighbor[n].name = name,
         neighbor'[n] # Free => neighbor'[n].name = name
  PROVE  \A x \in Names \ {name} : MacOf(x)' = MacOf(x)
<1> SUFFICES ASSUME NEW x \in Names \ {name} PROVE MacOf(x)' = MacOf(x)
  OBVIOUS
<1>1. CASE \E m \in Neighbors : neighbor[m] # Free /\ neighbor[m].name = x
  BY <1>1 DEF Seen, MacsSeen, Alike
<1>2. CASE \A m \in Neighbors : neighbor[m] # Free => neighbor[m].name # x
  BY <1>2 DEF Seen, MacsSeen, Alike
<1> QED
  BY <1>1, <1>2

\* The neighbors of the settled next hops keep their names.
KeepsVia ==
  \A h \in Nexthops : Settled(h) /\ Settled(h)' /\ HopAlike(h) =>
    \A r : Route(h)' = r <=> Route(h) = r

LEMMA AlikeVia ==
  ASSUME RegistryInv, \A n \in Neighbors : Alike(n)
  PROVE  KeepsVia
<1> SUFFICES ASSUME NEW h \in Nexthops, Settled(h), HopAlike(h)
             PROVE  Route(h)' = Route(h)
  BY DEF KeepsVia
<1>1. PICK n \in Neighbors : n = nexthop[h].common_neighbor_index /\ neighbor[n] # Free
  BY SettledIsTyped
<1>2. nexthop'[h].common_neighbor_index = n
      /\ nexthop'[h].local_e3iface = nexthop[h].local_e3iface
  BY <1>1 DEF HopAlike, Settled
<1>3. neighbor'[n].name = neighbor[n].name
  BY <1>1 DEF Alike
<1> QED
  BY <1>1, <1>2, <1>3 DEF Route, Via

\* A step of one neighbor that no settled next hop leads to, or that keeps its
\* name.
LEMMA OneNeighborVia ==
  ASSUME RegistryInv, NEW n \in Neighbors, \A m \in Neighbors \ {n} : Alike(m),
         \/ neighbor'[n].name = neighbor[n].name
         \/ \A h \in Nexthops : Settled(h) => nexthop[h].common_neighbor_index # n
  PROVE  KeepsVia
<1> SUFFICES ASSUME NEW h \in Nexthops, Settled(h), HopAlike(h)
             PROVE  Route(h)' = Route(h)
  BY DEF KeepsVia
<1>1. PICK k \in Neighbors : k = nexthop[h].common_neighbor_index /\ neighbor[k] # Free
  BY SettledIsTyped
<1>2. nexthop'[h].common_neighbor_index = k
      /\ nexthop'[h].local_e3iface = nexthop[h].local_e3iface
  BY <1>1 DEF HopAlike, Settled
<1>3. neighbor'[k].name = neighbor[k].name
  BY <1>1 DEF Alike
<1> QED
  BY <1>1, <1>2, <1>3 DEF Route, Via

RouteSet == \A r : r \in Routes <=> \E h \in Nexthops : Settled(h) /\ Route(h) = r

LEMMA RoutesSeen == RouteSet /\ RouteSet'
<1>1. RouteSet
  BY DEF RouteSet, Routes
<1> QED
  BY <1>1, PTL

LEMMA HopsStayRoutes ==
  ASSUME Seen, Seen', KeepsVia, \A h \in Nexthops : HopStays(h), held' = held
  PROVE  Routes' = Routes /\ UsesStay
<1>1. \A h \in Nexthops : \A r : (Settled(h) /\ Route(h) = r)' <=> Settled(h) /\ Route(h) = r
  BY DEF KeepsVia, HopStays
<1>2. \A r : r \in Routes' <=> r \in Routes
  BY <1>1, RoutesSeen DEF RouteSet
<1>3. \A r : UsesOf(r)' = UsesOf(r)
  <2> SUFFICES ASSUME NEW r PROVE UsesOf(r)' = UsesOf(r)
    OBVIOUS
  <2>1. CASE r \in Routes
    <3>1. PICK h \in Nexthops : Settled(h) /\ Route(h) = r
      BY <2>1, RoutesSeen DEF RouteSet
    <3>2. Settled(h)' /\ (Route(h) = r)'
      BY <1>1, <3>1
    <3> QED
      BY <3>1, <3>2 DEF Seen, UsesSeen
  <2>2. CASE r \notin Routes
    BY <1>2, <2>2 DEF Seen, UsesSeen
  <2> QED
    BY <2>1, <2>2
<1> QED
  BY <1>2, <1>3 DEF UsesStay

RegistryStep == [Registry!Next]_(Registry!vars)

LEMMA EntersRegistry ==
  ASSUME RegistryInv, RegistryInv', NEW n \in Neighbors, NEW name \in Names, NEW mac \in Macs,
         Enters(n, name, mac), UNCHANGED <<nexthop, call, held>>
  PROVE  RegistryStep
<1>1. Seen /\ Seen'
  BY InvIsSeen, PTL
<1>2. \A h \in Nexthops : Settled(h) => nexthop[h].common_neighbor_index # n
  BY SettledIsTyped DEF Enters
<1>3. KeepsVia
  BY <1>2, OneNeighborVia DEF Enters
<1>4. Routes' = Routes /\ UsesStay
  BY <1>1, <1>3, SameHops, HopsStayRoutes
<1>5. MacOf(name)' = mac
  BY <1>1 DEF Seen, MacsSeen, Enters
<1>6. \A x \in Names \ {name} : MacOf(x)' = MacOf(x)
  BY <1>1, OneNameMoves DEF Enters
<1>7. Registry!SetMac(name, mac)
  BY <1>4, <1>5, <1>6, AsSetMac DEF OneMac
<1> QED
  BY <1>7 DEF RegistryStep, Registry!Next

LEMMA RefreshesRegistry ==
  ASSUME RegistryInv, RegistryInv', NEW n \in Neighbors, NEW mac \in Macs,
         Refreshes(n, mac), UNCHANGED <<nexthop, call, held>>
  PROVE  RegistryStep
<1>1. Seen /\ Seen'
  BY InvIsSeen, PTL
<1>2. PICK name \in Names : name = neighbor[n].name
  BY DEF Refreshes, RegistryInv, IInv, TypeOK, Neighbor
<1>3. KeepsVia
  BY OneNeighborVia DEF Refreshes
<1>4. Routes' = Routes /\ UsesStay
  BY <1>1, <1>3, SameHops, HopsStayRoutes
<1>5. MacOf(name)' = mac
  BY <1>1, <1>2 DEF Seen, MacsSeen, Refreshes
<1>6. \A x \in Names \ {name} : MacOf(x)' = MacOf(x)
  BY <1>1, <1>2, OneNameMoves DEF Refreshes
<1>7. Registry!SetMac(name, mac)
  BY <1>4, <1>5, <1>6, AsSetMac DEF OneMac
<1> QED
  BY <1>7 DEF RegistryStep, Registry!Next

\* delete_common_neighbor frees a neighbor that no route names.
LEMMA LeavesRegistry ==
  ASSUME RegistryInv, RegistryInv', NEW n \in Neighbors, neighbor[n] # Free,
         neighbor[n].ref_cnt = 0, Leaves(n), UNCHANGED <<nexthop, call, held>>
  PROVE  RegistryStep
<1>1. Seen /\ Seen'
  BY InvIsSeen, PTL
<1>2. PICK name \in Names : name = neighbor[n].name
  BY DEF RegistryInv, IInv, TypeOK, Neighbor
<1>3. SettledVia(n) = {}
  <2>1. Cardinality(SettledVia(n)) = 0
    BY DEF RegistryInv, IInv, Accounting, NeighborAccounting
  <2> QED
    BY <2>1, SettledViaFinite, FS_EmptySet
<1>4. \A h \in Nexthops : Settled(h) => nexthop[h].common_neighbor_index # n
  BY <1>3 DEF SettledVia
<1>5. KeepsVia
  BY <1>4, OneNeighborVia DEF Leaves
<1>6. Routes' = Routes /\ UsesStay
  BY <1>1, <1>5, SameHops, HopsStayRoutes
<1>7. MacOf(name)' = Free
  <2>1. \A m \in Neighbors : neighbor'[m] # Free => neighbor'[m].name # name
    BY <1>2 DEF Leaves, Alike, RegistryInv, UniqueNames
  <2> QED
    BY <1>1, <2>1 DEF Seen, MacsSeen
<1>8. \A x \in Names \ {name} : MacOf(x)' = MacOf(x)
  BY <1>1, <1>2, OneNameMoves DEF Leaves
<1>9. \A iface \in Ifaces : <<iface, name>> \notin Routes
  <2> SUFFICES ASSUME NEW iface \in Ifaces, <<iface, name>> \in Routes PROVE FALSE
    OBVIOUS
  <2>1. PICK h \in Nexthops : Settled(h) /\ Route(h) = <<iface, name>>
    BY RoutesSeen DEF RouteSet
  <2>2. Via(h) = name
    BY <2>1 DEF Route
  <2>3. PICK m \in Neighbors : m = nexthop[h].common_neighbor_index /\ neighbor[m] # Free
    BY <2>1, SettledIsTyped
  <2>4. m = n
    BY <1>2, <2>2, <2>3 DEF Via, RegistryInv, UniqueNames
  <2> QED
    BY <1>4, <2>1, <2>3, <2>4
<1>10. Registry!Forget(name)
  BY <1>6, <1>7, <1>8, <1>9, AsForget DEF OneMac
<1> QED
  BY <1>10 DEF RegistryStep, Registry!Next

LEMMA StaysRegistry ==
  ASSUME RegistryInv, RegistryInv', \A n \in Neighbors : Alike(n),
         \A h \in Nexthops : HopStays(h), held' = held
  PROVE  RegistryStep
<1>1. Seen /\ Seen'
  BY InvIsSeen, PTL
<1>2. MacsStay
  BY <1>1, AlikeMacs
<1>3. Routes' = Routes /\ UsesStay
  BY <1>1, AlikeVia, HopsStayRoutes
<1> QED
  BY <1>2, <1>3, AsStutter DEF RegistryStep

\* The second half of register_common_nexthop adds a route that no other next
\* hop stands for, and that nobody uses.
LEMMA SettlesRegistry ==
  ASSUME RegistryInv, RegistryInv', NEW h \in Nexthops, Settles(h), held[h] = 0,
         \A n \in Neighbors : Alike(n)
  PROVE  RegistryStep
<1>1. Seen /\ Seen'
  BY InvIsSeen, PTL
<1>2. MacsStay
  BY <1>1, AlikeMacs
<1>3. KeepsVia
  BY AlikeVia
<1>4. PICK iface \in Ifaces, name \in Names : Route(h)' = <<iface, name>>
                 /\ MacOf(name) # Free
  <2>1. nexthop[h] # Free /\ nexthop'[h] # Free
    BY DEF Settles, HopAlike, Settled
  <2>2. PICK n \in Neighbors : n = nexthop[h].common_neighbor_index
    BY <2>1 DEF RegistryInv, IInv, TypeOK, Nexthop
  <2>3. n = nexthop'[h].common_neighbor_index
    BY <2>1, <2>2 DEF Settles, HopAlike
  <2>4. neighbor'[n] # Free
    BY <2>3 DEF Settles, RegistryInv, IInv, Accounting, NoDanglingNeighbor
  <2>5. neighbor[n] # Free /\ neighbor'[n].name = neighbor[n].name
    BY <2>4 DEF Alike
  <2>6. neighbor[n].name \in Names /\ neighbor[n].mac \in Macs
    BY <2>5 DEF RegistryInv, IInv, TypeOK, Neighbor
  <2>7. MacOf(neighbor[n].name) = neighbor[n].mac
    BY <1>1, <2>5 DEF Seen, MacsSeen
  <2>8. nexthop'[h].local_e3iface = nexthop[h].local_e3iface
        /\ nexthop[h].local_e3iface \in Ifaces
    BY <2>1 DEF Settles, HopAlike, RegistryInv, IInv, TypeOK, Nexthop
  <2>9. Route(h)' = <<nexthop[h].local_e3iface, neighbor[n].name>>
    BY <2>3, <2>5, <2>8 DEF Route, Via
  <2> QED
    BY <2>6, <2>7, <2>8, <2>9, FreeAssumption
<1>5. PICK r : r = <<iface, name>>
  OBVIOUS
<1>6. \A g \in Nexthops \ {h} : \A x : (Settled(g) /\ Route(g) = x)' <=> Settled(g) /\ Route(g) = x
  BY <1>3 DEF KeepsVia, Settles, HopStays
<1>7. r \notin Routes
  <2> SUFFICES ASSUME r \in Routes PROVE FALSE
    OBVIOUS
  <2>1. PICK g \in Nexthops : Settled(g) /\ Route(g) = r
    BY RoutesSeen DEF RouteSet
  <2>2. g # h
    BY <2>1 DEF Settles
  <2>3. Settled(g)' /\ Route(g)' = r
    BY <1>6, <2>1, <2>2
  <2>4. RouteKeys'
    BY RoutesAreKeys, PTL
  <2> QED
    BY <1>4, <1>5, <2>2, <2>3, <2>4 DEF RouteKeys, Settles
<1>8. \A x : x \in Routes' <=> x \in Routes \/ x = r
  BY <1>4, <1>5, <1>6, RoutesSeen DEF RouteSet, Settles
<1>9. \A x : UsesOf(x)' = UsesOf(x)
  <2> SUFFICES ASSUME NEW x PROVE UsesOf(x)' = UsesOf(x)
    OBVIOUS
  <2>1. CASE x \in Routes
    <3>1. PICK g \in Nexthops : Settled(g) /\ Route(g) = x
      BY <2>1, RoutesSeen DEF RouteSet
    <3>2. g # h
      BY <3>1 DEF Settles
    <3>3. (Settled(g) /\ Route(g) = x)' /\ held'[g] = held[g]
      BY <1>6, <3>1, <3>2 DEF Settles
    <3> QED
      BY <1>1, <3>1, <3>3 DEF Seen, UsesSeen
  <2>2. CASE x = r
    <3>1. UsesOf(x) = 0
      BY <1>1, <1>7, <2>2 DEF Seen, UsesSeen
    <3>2. UsesOf(x)' = held'[h]
      BY <1>1, <1>4, <1>5, <2>2 DEF Seen, UsesSeen, Settles
    <3> QED
      BY <3>1, <3>2 DEF Settles
  <2>3. CASE x \notin Routes /\ x # r
    BY <1>1, <1>8, <2>3 DEF Seen, UsesSeen
  <2> QED
    BY <2>1, <2>2, <2>3
<1>10. Registry!AddRoute(iface, name)
  <2>1. Routes' = Routes \cup {<<iface, name>>}
    BY <1>5, <1>8
  <2> QED
    BY <1>2, <1>4, <1>5, <1>7, <1>9, <2>1, AsAddRoute DEF UsesStay
<1> QED
  BY <1>10 DEF RegistryStep, Registry!Next

\* The first half of delete_common_nexthop withdraws a route that nobody uses.
LEMMA UnsettlesRegistry ==
  ASSUME RegistryInv, RegistryInv', NEW h \in Nexthops, Unsettles(h), held[h] = 0,
         \A n \in Neighbors : Alike(n)
  PROVE  RegistryStep
<1>1. Seen /\ Seen'
  BY InvIsSeen, PTL
<1>2. MacsStay
  BY <1>1, AlikeMacs
<1>3. KeepsVia
  BY AlikeVia
<1>4. PICK r \in Ifaces \X Names : r = Route(h)
  BY SettledIsTyped DEF Unsettles
<1>5. \A g \in Nexthops \ {h} : \A x : (Settled(g) /\ Route(g) = x)' <=> Settled(g) /\ Route(g) = x
  BY <1>3 DEF KeepsVia, Unsettles, HopStays
<1>6. UsesOf(r) = 0 /\ r \in Routes
  BY <1>1, <1>4, RoutesSeen DEF Seen, UsesSeen, RouteSet, Unsettles
<1>7. \A g \in Nexthops \ {h} : Settled(g) => Route(g) # r
  BY <1>4, RoutesAreUnique DEF Unsettles
<1>8. \A x : x \in Routes' <=> x \in Routes /\ x # r
  BY <1>4, <1>5, <1>7, RoutesSeen DEF RouteSet, Unsettles
<1>9. \A x : UsesOf(x)' = UsesOf(x)
  <2> SUFFICES ASSUME NEW x PROVE UsesOf(x)' = UsesOf(x)
    OBVIOUS
  <2>1. CASE x \in Routes /\ x # r
    <3>1. PICK g \in Nexthops : Settled(g) /\ Route(g) = x
      BY <2>1, RoutesSeen DEF RouteSet
    <3>2. g # h
      BY <1>4, <2>1, <3>1
    <3>3. (Settled(g) /\ Route(g) = x)' /\ held'[g] = held[g]
      BY <1>5, <3>1, <3>2 DEF Unsettles
    <3> QED
      BY <1>1, <3>1, <3>3 DEF Seen, UsesSeen
  <2>2. CASE x \notin Routes \/ x = r
    <3>1. UsesOf(x)' = 0
      BY <1>1, <1>8, <2>2 DEF Seen, UsesSeen
    <3> QED
      BY <1>1, <1>6, <2>2, <3>1 DEF Seen, UsesSeen
  <2> QED
    BY <2>1, <2>2
<1>10. Registry!DropRoute(r)
  <2>1. Routes' = Routes \ {r}
    BY <1>8
  <2> QED
    BY <1>2, <1>6, <1>9, <2>1, AsDropRoute DEF UsesStay
<1> QED
  BY <1>6, <1>10 DEF RegistryStep, Registry!Next

LEMMA CountsRegistry ==
  ASSUME RegistryInv, RegistryInv', NEW h \in Nexthops, Settled(h), UNCHANGED <<neighbor>>,
         \A g \in Nexthops : HopStays(g),
         \/ held' = [held EXCEPT ![h] = held[h] + 1]
         \/ held[h] > 0 /\ held' = [held EXCEPT ![h] = held[h] - 1]
  PROVE  RegistryStep
<1>1. Seen /\ Seen'
  BY InvIsSeen, PTL
<1>2. \A n \in Neighbors : Alike(n)
  BY DEF Alike
<1>3. MacsStay
  BY <1>1, <1>2, AlikeMacs
<1>4. KeepsVia
  BY <1>2, AlikeVia
<1>5. PICK r \in Ifaces \X Names : r = Route(h)
  BY SettledIsTyped
<1>6. \A g \in Nexthops : \A x : (Settled(g) /\ Route(g) = x)' <=> Settled(g) /\ Route(g) = x
  BY <1>4 DEF KeepsVia, HopStays
<1>7. \A x : x \in Routes' <=> x \in Routes
  BY <1>6, RoutesSeen DEF RouteSet
<1>8. r \in Routes /\ UsesOf(r) = held[h] /\ UsesOf(r)' = held'[h]
  BY <1>1, <1>5, <1>6, RoutesSeen DEF Seen, UsesSeen, RouteSet
<1>9. held \in [Nexthops -> Nat]
  BY DEF RegistryInv, IInv, TypeOK
<1>10. \A x : x # r => UsesOf(x)' = UsesOf(x)
  <2> SUFFICES ASSUME NEW x, x # r PROVE UsesOf(x)' = UsesOf(x)
    OBVIOUS
  <2>1. CASE x \in Routes
    <3>1. PICK g \in Nexthops : Settled(g) /\ Route(g) = x
      BY <2>1, RoutesSeen DEF RouteSet
    <3>2. g # h
      BY <1>5, <3>1
    <3>3. (Settled(g) /\ Route(g) = x)' /\ held'[g] = held[g]
      BY <1>6, <1>9, <3>1, <3>2
    <3> QED
      BY <1>1, <3>1, <3>3 DEF Seen, UsesSeen
  <2>2. CASE x \notin Routes
    BY <1>1, <1>7, <2>2 DEF Seen, UsesSeen
  <2> QED
    BY <2>1, <2>2
<1>11. Routes' = Routes
  BY <1>7
<1>12. CASE held' = [held EXCEPT ![h] = held[h] + 1]
  <2>1. held'[h] = held[h] + 1
    BY <1>9, <1>12
  <2>2. Registry!Use(r)
    BY <1>3, <1>8, <1>10, <1>11, <2>1, AsUse DEF OneUse
  <2> QED
    BY <1>8, <2>2 DEF RegistryStep, Registry!Next
<1>13. CASE held[h] > 0 /\ held' = [held EXCEPT ![h] = held[h] - 1]
  <2>1. held'[h] = held[h] - 1
    BY <1>9, <1>13
  <2>2. Registry!Release(r)
    BY <1>3, <1>8, <1>10, <1>11, <1>13, <2>1, AsRelease DEF OneUse
  <2> QED
    BY <1>8, <2>2 DEF RegistryStep, Registry!Next
<1> QED
  BY <1>12, <1>13

(***************************************************************************)
(* The invariant, and the refinement.                                      *)
(***************************************************************************)
LEMMA HopsStayUnique ==
  ASSUME UniqueHops, \A h \in Nexthops : HopAlike(h)
  PROVE  UniqueHops'
BY DEF UniqueHops, HopAlike

LEMMA InitRegistry == Init => RegistryInv /\ Registry!Init
<1> SUFFICES ASSUME Init PROVE RegistryInv /\ Registry!Init
  OBVIOUS
<1>1. RegistryInv
  BY InitTypeOK, InitGuard, InitAccounting, InitCounts
  DEF RegistryInv, IInv, Init, UniqueNames, UniqueHops
<1>2. Seen
  BY <1>1, InvIsSeen
<1>3. \A name : MacOf(name) = Free
  BY <1>2 DEF Seen, MacsSeen, Init
<1>4. Routes = {}
  BY DEF Routes, Settled, Init
<1>5. \A r : UsesOf(r) = 0
  BY <1>4 DEF UsesOf
<1> QED
  BY <1>1, <1>3, <1>4, <1>5 DEF Registry!Init

LEMMA NextUnique ==
  ASSUME KeysInv, [Next]_vars
  PROVE  UniqueNames' /\ UniqueHops'
<1> USE DEF KeysInv, IInv
<1>1. ASSUME NEW t \in Threads, NEW n \in Neighbors, NEW name \in Names, NEW mac \in Macs,
             RegisterCommonNeighbor(t, n, name, mac) \/ RefreshCommonNeighborMac(t, n, name, mac)
      PROVE  UniqueNames' /\ UniqueHops'
  <2>1. UniqueHops'
    BY <1>1 DEF RegisterCommonNeighbor, RefreshCommonNeighborMac, UniqueHops
  <2> QED
    BY <1>1, <2>1, NeighborEnters, NeighborRefreshes, NamesStayUnique
<1>2. ASSUME NEW t \in Threads, NEW n \in Neighbors, DeleteCommonNeighbor(t, n)
      PROVE  UniqueNames' /\ UniqueHops'
  <2>1. UniqueHops'
    BY <1>2 DEF DeleteCommonNeighbor, UniqueHops
  <2> QED
    BY <1>2, <2>1, NeighborLeaves, NamesStayUnique
<1>3. ASSUME NEW t \in Threads, NEW h \in Nexthops, NEW iface \in Ifaces, NEW n \in Neighbors,
             RegisterCommonNexthop(t, h, iface, n)
      PROVE  UniqueNames' /\ UniqueHops'
  <2>1. UniqueNames'
    BY <1>3 DEF RegisterCommonNexthop, UniqueNames
  <2> QED
    BY <1>3, <2>1, RegisterHop
<1>4. ASSUME NEW t \in Threads, ReferenceCommonNeighbor(t)
      PROVE  UniqueNames' /\ UniqueHops'
  <2>1. UniqueHops'
    BY <1>4 DEF ReferenceCommonNeighbor, UniqueHops
  <2>2. CASE UNCHANGED neighbor
    BY <2>1, <2>2 DEF UniqueNames
  <2>3. CASE UNCHANGED exited
    BY <1>4, <2>1, <2>3, ReferenceSettles, NamesStayUnique
  <2> QED
    BY <1>4, <2>2, <2>3 DEF ReferenceCommonNeighbor
<1>5. ASSUME NEW t \in Threads, NEW h \in Nexthops, DereferenceCommonNeighbor(t, h)
      PROVE  UniqueNames' /\ UniqueHops'
  <2>1. UniqueHops'
    BY <1>5 DEF DereferenceCommonNeighbor, UniqueHops
  <2> QED
    BY <1>5, <2>1, DereferenceUnsettles, NamesStayUnique
<1>6. ASSUME NEW t \in Threads, DeleteCommonNexthop(t)
      PROVE  UniqueNames' /\ UniqueHops'
  <2>1. UniqueNames'
    BY <1>6 DEF DeleteCommonNexthop, UniqueNames
  <2> QED
    BY <1>6, <2>1, DeleteHop
<1>7. ASSUME NEW t \in Threads, NEW h \in Nexthops,
             ReferenceCommonNexthop(t, h) \/ DereferenceCommonNexthop(t, h)
      PROVE  UniqueNames' /\ UniqueHops'
  <2>1. UniqueNames'
    BY <1>7 DEF ReferenceCommonNexthop, DereferenceCommonNexthop, UniqueNames
  <2> QED
    BY <1>7, <2>1, CountsKeepHops, HopsStayUnique
<1>8. CASE UNCHANGED vars
  BY <1>8 DEF vars, UniqueNames, UniqueHops
<1> QED
  BY <1>1, <1>2, <1>3, <1>4, <1>5, <1>6, <1>7, <1>8 DEF Next

LEMMA NextKeys == KeysInv /\ [Next]_vars => KeysInv'
BY NextTypeOK, NextGuard, NextAccounting, NextUnique DEF KeysInv, IInv

LEMMA RegistryKeys == RegistryInv <=> KeysInv /\ NexthopAccounting
BY DEF RegistryInv, KeysInv

LEMMA NextInv == RegistryInv /\ NoOverflow' /\ [Next]_vars => RegistryInv'
<1>1. KeysInv /\ NexthopAccounting => TypeOK /\ GuardDiscipline
  BY DEF KeysInv, IInv
<1>2. RegistryInv' <=> KeysInv' /\ NexthopAccounting'
  BY DEF RegistryInv, KeysInv
<1> QED
  BY <1>1, <1>2, RegistryKeys, NextKeys, NextCounts

LEMMA NextRegistry ==
  ASSUME RegistryInv, RegistryInv', [Next]_vars
  PROVE  RegistryStep
<1>0. IInv /\ NexthopAccounting /\ TypeOK /\ UniqueHops
  BY DEF RegistryInv, IInv
<1>1. ASSUME NEW t \in Threads, NEW n \in Neighbors, NEW name \in Names, NEW mac \in Macs,
             RegisterCommonNeighbor(t, n, name, mac)
      PROVE  RegistryStep
  <2>1. UNCHANGED <<nexthop, call, held>>
    BY <1>1 DEF RegisterCommonNeighbor
  <2> QED
    BY <1>0, <1>1, <2>1, NeighborEnters, EntersRegistry
<1>2. ASSUME NEW t \in Threads, NEW n \in Neighbors, NEW name \in Names, NEW mac \in Macs,
             RefreshCommonNeighborMac(t, n, name, mac)
      PROVE  RegistryStep
  <2>1. UNCHANGED <<nexthop, call, held>>
    BY <1>2 DEF RefreshCommonNeighborMac
  <2> QED
    BY <1>0, <1>2, <2>1, NeighborRefreshes, RefreshesRegistry
<1>3. ASSUME NEW t \in Threads, NEW n \in Neighbors, DeleteCommonNeighbor(t, n)
      PROVE  RegistryStep
  <2>1. UNCHANGED <<nexthop, call, held>> /\ neighbor[n] # Free /\ neighbor[n].ref_cnt = 0
    BY <1>3 DEF DeleteCommonNeighbor, Deletable
  <2> QED
    BY <1>0, <1>3, <2>1, NeighborLeaves, LeavesRegistry
<1>4. ASSUME NEW t \in Threads, NEW h \in Nexthops, NEW iface \in Ifaces, NEW n \in Neighbors,
             RegisterCommonNexthop(t, h, iface, n)
      PROVE  RegistryStep
  <2>1. held' = held /\ \A m \in Neighbors : Alike(m)
    BY <1>4 DEF RegisterCommonNexthop, Alike
  <2> QED
    BY <1>0, <1>4, <2>1, RegisterHop, StaysRegistry
<1>5. ASSUME NEW t \in Threads, ReferenceCommonNeighbor(t)
      PROVE  RegistryStep
  <2>1. CASE UNCHANGED exited
    <3>1. PICK h \in Nexthops : h = call[t].hop
      BY <1>0, <1>5 DEF IInv, GuardDiscipline, ReferenceCommonNeighbor
    <3>2. held[h] = 0
      BY <1>0, <1>5, <3>1
      DEF IInv, GuardDiscipline, NexthopAccounting, ReferenceCommonNeighbor
    <3>3. Settles(h) /\ \A m \in Neighbors : Alike(m)
      BY <1>0, <1>5, <2>1, <3>1, ReferenceSettles
    <3> QED
      BY <3>2, <3>3, SettlesRegistry
  <2>2. CASE UNCHANGED <<neighbor, nexthop_guard, call>>
    <3>1. held' = held /\ nexthop' = nexthop
      BY <1>5 DEF ReferenceCommonNeighbor
    <3>2. (\A m \in Neighbors : Alike(m)) /\ \A h \in Nexthops : HopStays(h)
      BY <2>2, <3>1, SameHops DEF Alike
    <3> QED
      BY <3>1, <3>2, StaysRegistry
  <2> QED
    BY <1>5, <2>1, <2>2 DEF ReferenceCommonNeighbor
<1>6. ASSUME NEW t \in Threads, NEW h \in Nexthops, DereferenceCommonNeighbor(t, h)
      PROVE  RegistryStep
  <2>1. /\ Unsettles(h) /\ nexthop[h] # Free /\ nexthop[h].ref_cnt = 0
        /\ \A m \in Neighbors : Alike(m)
    BY <1>0, <1>6, DereferenceUnsettles
  <2>2. held[h] = 0
    BY <1>0, <2>1 DEF NexthopAccounting
  <2> QED
    BY <2>1, <2>2, UnsettlesRegistry
<1>7. ASSUME NEW t \in Threads, DeleteCommonNexthop(t)
      PROVE  RegistryStep
  <2>1. held' = held /\ \A m \in Neighbors : Alike(m)
    BY <1>7 DEF DeleteCommonNexthop, Alike
  <2> QED
    BY <1>0, <1>7, <2>1, DeleteHop, StaysRegistry
<1>8. ASSUME NEW t \in Threads, NEW h \in Nexthops,
             ReferenceCommonNexthop(t, h) \/ DereferenceCommonNexthop(t, h)
      PROVE  RegistryStep
  <2>1. UNCHANGED <<neighbor>>
    BY <1>8 DEF ReferenceCommonNexthop, DereferenceCommonNexthop
  <2> QED
    BY <1>0, <1>8, <2>1, CountUses, CountsRegistry
<1>9. CASE UNCHANGED vars
  <2>1. held' = held /\ \A m \in Neighbors : Alike(m)
    BY <1>9 DEF vars, Alike
  <2>2. \A h \in Nexthops : HopStays(h)
    BY <1>9, SameHops DEF vars
  <2> QED
    BY <2>1, <2>2, StaysRegistry
<1> QED
  BY <1>1, <1>2, <1>3, <1>4, <1>5, <1>6, <1>7, <1>8, <1>9 DEF Next

\* Names identify registered neighbors and <interface, neighbor> registered next
\* hops, as the searches of register_common_neighbor and register_common_nexthop
\* want it, with any number of API threads.
THEOREM KeysAreUnique == Spec => []NoDuplicates
<1>1. Init => KeysInv
  BY InitRegistry, RegistryKeys
<1>2. KeysInv => NoDuplicates
  BY NoDuplicatesSplit DEF KeysInv
<1> QED
  BY <1>1, <1>2, NextKeys, PTL DEF Spec

\* The tables, slots, counters and two-step calls of common-nhlfe.c implement the
\* registry of names and routes, for any number of API threads: a neighbor in
\* use cannot be deleted, a route in use cannot be dropped, and a route keeps the
\* neighbor it stands for, as long as no next hop is held 2^16 times at once.
\* (With 2^16 uses its ref_cnt is 0 and delete_common_nexthop drops the route.)
THEOREM TablesImplementRegistry == Spec => ([]NoOverflow => ImplementsRegistry)
<1>1. Init => RegistryInv /\ Registry!Init
  BY InitRegistry
<1>2. RegistryInv /\ RegistryInv' /\ [Next]_vars => [Registry!Next]_(Registry!vars)
  BY NextRegistry DEF RegistryStep
<1>3. Registry!Spec <=> Registry!Init /\ [][Registry!Next]_(Registry!vars)
  BY DEF Registry!Spec
<1> QED
  BY <1>1, <1>2, <1>3, NextInv, PTL DEF Spec, ImplementsRegistry

============================================================================

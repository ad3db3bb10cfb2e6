---------------------------- MODULE CommonNhlfe ----------------------------
(***************************************************************************)
(* The neighbor and next-hop tables of e3net/common-nhlfe.c, shared by the *)
(* leaf and the spine.  A next hop <local interface, neighbor> holds one   *)
(* reference on its neighbor; E-services, label groups and label entries   *)
(* hold references on next hops.  Both tables are arrays with a reader-    *)
(* writer lock each, changed by the threads that run API callbacks.        *)
(*                                                                         *)
(* A critical section is one step.  register_common_nexthop and            *)
(* delete_common_nexthop keep nexthop_guard while they take and release    *)
(* neighbor_guard, so each is two steps with nexthop_guard held between.   *)
(* A call that fails changes nothing and is a stuttering step.             *)
(***************************************************************************)
EXTENDS Naturals, FiniteSets

CONSTANTS
  MAX_COMMON_NEIGHBORS,  \* length of neighbor_base
  MAX_COMMON_NEXTHOPS,   \* length of nexthop_base
  Names,                 \* neighbor names
  Macs,                  \* neighbor MAC addresses
  Ifaces,                \* values of local_e3iface (the code checks none)
  Threads,               \* threads that run API callbacks
  NoThread,              \* holder of a free lock
  Free,                  \* content of a slot whose is_valid is 0
  RefModulus,            \* 2^16: both ref_cnt are uint16_t
  MaxHeld                \* bound: references the clients hold on one next hop

Neighbors == 0 .. MAX_COMMON_NEIGHBORS - 1
Nexthops  == 0 .. MAX_COMMON_NEXTHOPS - 1

RefCounts == 0 .. RefModulus - 1
Neighbor  == [name: Names, mac: Macs, ref_cnt: RefCounts]
Nexthop   == [local_e3iface: Ifaces, common_neighbor_index: Neighbors,
              ref_cnt: RefCounts]

ASSUME SizeAssumption ==
  MAX_COMMON_NEIGHBORS \in Nat /\ MAX_COMMON_NEXTHOPS \in Nat /\ MaxHeld \in Nat
\* The next hops (2048) do not fill the count of a neighbor.
ASSUME WidthAssumption == RefModulus \in Nat /\ MAX_COMMON_NEXTHOPS < RefModulus
ASSUME ThreadAssumption == NoThread \notin Threads
ASSUME FreeAssumption == Free \notin Neighbor /\ Free \notin Nexthop /\ Free \notin Macs

VARIABLES
  neighbor,       \* neighbor_base: what each slot holds
  nexthop,        \* nexthop_base: what each slot holds
  nexthop_guard,  \* writer that keeps nexthop_guard between two steps
  call,           \* the half of a two-step call each thread has left to run
  held,           \* references on each next hop owned by leaf and spine
  exited          \* an E3_ASSERT failed and the process ended

vars == <<neighbor, nexthop, nexthop_guard, call, held, exited>>

Idle == [pc |-> "idle", hop |-> 0]
Call == [pc: {"idle", "reference", "invalidate"}, hop: Nat]

TypeOK ==
  /\ neighbor \in [Neighbors -> Neighbor \cup {Free}]
  /\ nexthop \in [Nexthops -> Nexthop \cup {Free}]
  /\ nexthop_guard \in Threads \cup {NoThread}
  /\ call \in [Threads -> Call]
  /\ held \in [Nexthops -> Nat]
  /\ exited \in BOOLEAN

\* Mutant: the scan for a free slot stops one slot early.
FirstFreeOrLastTaken(table, i) == \A j \in DOMAIN table : j < i => table[j] # Free

IsFirstFree(table, i) ==
  table[i] = Free /\ \A j \in DOMAIN table : j < i => table[j] # Free

\* Mutant: the ref_cnt test of the two delete functions is missing.
DeletableWhileReferenced(table, i) == table[i] # Free

Deletable(table, i) == table[i] # Free /\ table[i].ref_cnt = 0

\* ref_cnt++ of a uint16_t.
Incremented(count) == (count + 1) % RefModulus

----------------------------------------------------------------------------
Init ==
  /\ neighbor = [n \in Neighbors |-> Free]
  /\ nexthop = [h \in Nexthops |-> Free]
  /\ nexthop_guard = NoThread
  /\ call = [t \in Threads |-> Idle]
  /\ held = [h \in Nexthops |-> 0]
  /\ exited = FALSE

\* Thread t may enter a critical section of neighbor_guard alone.
Ready(t) == ~exited /\ call[t] = Idle

\* Thread t may enter a critical section of nexthop_guard.
MayLockNexthop(t) == Ready(t) /\ nexthop_guard = NoThread

----------------------------------------------------------------------------
(* Neighbors: each call is one critical section of neighbor_guard.         *)

RegisterCommonNeighbor(t, n, name, mac) ==
  /\ Ready(t)
  /\ \A m \in Neighbors : neighbor[m] # Free => neighbor[m].name # name
  /\ IsFirstFree(neighbor, n)
  /\ neighbor' = [neighbor EXCEPT
                    ![n] = [name |-> name, mac |-> mac, ref_cnt |-> 0]]
  /\ UNCHANGED <<nexthop, nexthop_guard, call, held, exited>>

RefreshCommonNeighborMac(t, n, name, mac) ==
  /\ Ready(t)
  /\ neighbor[n] # Free /\ neighbor[n].name = name
  /\ neighbor' = [neighbor EXCEPT ![n].mac = mac]
  /\ UNCHANGED <<nexthop, nexthop_guard, call, held, exited>>

DeleteCommonNeighbor(t, n) ==
  /\ Ready(t)
  /\ Deletable(neighbor, n)
  /\ neighbor' = [neighbor EXCEPT ![n] = Free]
  /\ UNCHANGED <<nexthop, nexthop_guard, call, held, exited>>

----------------------------------------------------------------------------
(* Next hops.                                                              *)

\* The slot is filled after the neighbor was looked up; neighbor_guard is
\* released between the lookup and the reference that follows.
RegisterCommonNexthop(t, h, iface, n) ==
  /\ MayLockNexthop(t)
  /\ \A g \in Nexthops : nexthop[g] # Free =>
       ~ (nexthop[g].local_e3iface = iface /\ nexthop[g].common_neighbor_index = n)
  /\ neighbor[n] # Free
  /\ IsFirstFree(nexthop, h)
  /\ nexthop' = [nexthop EXCEPT
                   ![h] = [local_e3iface |-> iface,
                           common_neighbor_index |-> n, ref_cnt |-> 0]]
  /\ nexthop_guard' = t
  /\ call' = [call EXCEPT ![t] = [pc |-> "reference", hop |-> h]]
  /\ UNCHANGED <<neighbor, held, exited>>

\* E3_ASSERT(!reference_common_nrighbor(neighbor->index)).
ReferenceCommonNeighbor(t) ==
  LET n == nexthop[call[t].hop].common_neighbor_index
  IN  /\ ~exited /\ call[t].pc = "reference"
      /\ \/ /\ neighbor[n] # Free
            /\ neighbor' = [neighbor EXCEPT ![n].ref_cnt = Incremented(@)]
            /\ nexthop_guard' = NoThread
            /\ call' = [call EXCEPT ![t] = Idle]
            /\ exited' = exited
         \/ /\ neighbor[n] = Free
            /\ exited' = TRUE
            /\ UNCHANGED <<neighbor, nexthop_guard, call>>
      /\ UNCHANGED <<nexthop, held>>

\* Mutant: delete_common_nexthop keeps the reference on the neighbor.
KeepCommonNeighbor(t, h) ==
  /\ MayLockNexthop(t)
  /\ Deletable(nexthop, h)
  /\ nexthop_guard' = t
  /\ call' = [call EXCEPT ![t] = [pc |-> "invalidate", hop |-> h]]
  /\ UNCHANGED <<neighbor, nexthop, held, exited>>

\* delete_common_nexthop releases the neighbor, then the slot.
DereferenceCommonNeighbor(t, h) ==
  LET n == nexthop[h].common_neighbor_index
  IN  /\ MayLockNexthop(t)
      /\ Deletable(nexthop, h)
      /\ neighbor' = IF neighbor[n] # Free /\ neighbor[n].ref_cnt > 0
                     THEN [neighbor EXCEPT ![n].ref_cnt = @ - 1]
                     ELSE neighbor
      /\ nexthop_guard' = t
      /\ call' = [call EXCEPT ![t] = [pc |-> "invalidate", hop |-> h]]
      /\ UNCHANGED <<nexthop, held, exited>>

DeleteCommonNexthop(t) ==
  /\ ~exited /\ call[t].pc = "invalidate"
  /\ nexthop' = [nexthop EXCEPT ![call[t].hop] = Free]
  /\ nexthop_guard' = NoThread
  /\ call' = [call EXCEPT ![t] = Idle]
  /\ UNCHANGED <<neighbor, held, exited>>

(* The clients reference a next hop once for each use they record, and     *)
(* dereference it when they drop the use.                                  *)

ReferenceCommonNexthop(t, h) ==
  /\ MayLockNexthop(t)
  /\ nexthop[h] # Free
  /\ held[h] < MaxHeld
  /\ nexthop' = [nexthop EXCEPT ![h].ref_cnt = Incremented(@)]
  /\ held' = [held EXCEPT ![h] = @ + 1]
  /\ UNCHANGED <<neighbor, nexthop_guard, call, exited>>

\* Mutant: an error path releases the next hop a second time.
DereferenceNexthopTwice(t, h) ==
  /\ MayLockNexthop(t)
  /\ held[h] > 0
  /\ nexthop' = [nexthop EXCEPT ![h].ref_cnt = @ - 2]
  /\ held' = [held EXCEPT ![h] = @ - 1]
  /\ UNCHANGED <<neighbor, nexthop_guard, call, exited>>

DereferenceCommonNexthop(t, h) ==
  /\ MayLockNexthop(t)
  /\ held[h] > 0
  /\ nexthop' = IF nexthop[h] # Free /\ nexthop[h].ref_cnt > 0
                THEN [nexthop EXCEPT ![h].ref_cnt = @ - 1]
                ELSE nexthop
  /\ held' = [held EXCEPT ![h] = @ - 1]
  /\ UNCHANGED <<neighbor, nexthop_guard, call, exited>>

Next ==
  \E t \in Threads :
    \/ \E n \in Neighbors, name \in Names, mac \in Macs :
         \/ RegisterCommonNeighbor(t, n, name, mac)
         \/ RefreshCommonNeighborMac(t, n, name, mac)
    \/ \E n \in Neighbors : DeleteCommonNeighbor(t, n)
    \/ \E h \in Nexthops, iface \in Ifaces, n \in Neighbors :
         RegisterCommonNexthop(t, h, iface, n)
    \/ ReferenceCommonNeighbor(t)
    \/ \E h \in Nexthops : DereferenceCommonNeighbor(t, h)
    \/ DeleteCommonNexthop(t)
    \/ \E h \in Nexthops : ReferenceCommonNexthop(t, h)
    \/ \E h \in Nexthops : DereferenceCommonNexthop(t, h)

Spec == Init /\ [][Next]_vars

----------------------------------------------------------------------------
(* Properties.                                                             *)

\* A next hop is settled unless its registration or its deletion is half done.
Settled(h) ==
  nexthop[h] # Free /\ \A t \in Threads : call[t].pc # "idle" => call[t].hop # h

SettledVia(n) ==
  {h \in Nexthops : Settled(h) /\ nexthop[h].common_neighbor_index = n}

\* A thread between the two halves of a call holds nexthop_guard, and the slot
\* it works on is filled and referenced by nobody.
GuardDiscipline ==
  \A t \in Threads : call[t].pc # "idle" =>
    /\ nexthop_guard = t
    /\ call[t].hop \in Nexthops
    /\ nexthop[call[t].hop] # Free
    /\ nexthop[call[t].hop].ref_cnt = 0

\* A neighbor's ref_cnt is the number of settled next hops that name it, so
\* delete_common_neighbor refuses exactly the neighbors that are in use.
NeighborAccounting ==
  \A n \in Neighbors :
    neighbor[n] # Free => neighbor[n].ref_cnt = Cardinality(SettledVia(n))

\* A settled next hop always resolves to a registered neighbor: forwarding
\* never takes the MAC of a freed neighbor slot.
NoDanglingNeighbor ==
  \A h \in Nexthops :
    Settled(h) => neighbor[nexthop[h].common_neighbor_index] # Free

\* A next hop's ref_cnt is the number of references its clients hold, and no
\* client holds one on a deleted next hop.  It takes 2^16 references at once to
\* break it: ref_cnt is then 0 and the next hop may be deleted.
NexthopAccounting ==
  \A h \in Nexthops :
    IF nexthop[h] = Free THEN held[h] = 0 ELSE nexthop[h].ref_cnt = held[h]

\* Names identify neighbors and <interface, neighbor> identifies next hops.
NoDuplicates ==
  /\ \A m, n \in Neighbors :
       neighbor[m] # Free /\ neighbor[n] # Free /\ m # n
         => neighbor[m].name # neighbor[n].name
  /\ \A g, h \in Nexthops :
       nexthop[g] # Free /\ nexthop[h] # Free /\ g # h
         => <<nexthop[g].local_e3iface, nexthop[g].common_neighbor_index>>
              # <<nexthop[h].local_e3iface, nexthop[h].common_neighbor_index>>

\* The neighbor that register_common_nexthop found is still registered when
\* it is referenced: E3_ASSERT(!reference_common_nrighbor(neighbor->index)).
ReferenceSucceeds == ~exited

\* The name of the neighbor a next hop in the table resolves to.
Via(h) == neighbor[nexthop[h].common_neighbor_index].name

(***************************************************************************)
(* What the tables promise, whatever the slots and the two-step calls.     *)
(***************************************************************************)
MacOf(name) ==
  IF \E n \in Neighbors : neighbor[n] # Free /\ neighbor[n].name = name
  THEN neighbor[CHOOSE n \in Neighbors :
                  neighbor[n] # Free /\ neighbor[n].name = name].mac
  ELSE Free

Route(h) == <<nexthop[h].local_e3iface, Via(h)>>
Routes   == {Route(h) : h \in {g \in Nexthops : Settled(g)}}

UsesOf(route) ==
  IF route \in Routes
  THEN held[CHOOSE h \in Nexthops : Settled(h) /\ Route(h) = route]
  ELSE 0

Registry == INSTANCE NhlfeRegistry WITH
  mac    <- [name \in Names |-> MacOf(name)],
  routes <- Routes,
  uses   <- [route \in Ifaces \X Names |-> UsesOf(route)]

\* The tables implement the registry: a neighbor in use cannot disappear, and
\* a next hop never changes the neighbor it stands for.
ImplementsRegistry == Registry!Spec
============================================================================

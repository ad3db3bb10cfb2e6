----------------------------- MODULE SpineLabel -----------------------------
(***************************************************************************)
(* The spine: multicast groups of next hops (spine-label-mnexthop.c) and   *)
(* the label FIB of each provider backbone port (spine-label-fib.c).       *)
(*                                                                         *)
(* A member of a group holds one reference on its next hop.  A FIB holds   *)
(* one reference on the next hop or group its labels lead to, however many *)
(* of them do.  pbp_guard is held for a whole call on a FIB, but the       *)
(* tables of next hops and groups have locks of their own, so the          *)
(* references are given back and taken in critical sections of their own.  *)
(* The RCU thread clears the FIB of an unregistered port without pbp_guard.*)
(***************************************************************************)
EXTENDS Naturals, Sequences, FiniteSets

CONSTANTS
  MAX_COMMON_NEXTHOPS, MAX_MULTICAST_NEXT_HOPS, MAX_HOPS_IN_MULTICAST_GROUP,
  RefModulus,  \* 2^16: the ref_cnt of a next hop and of a group is a uint16_t
  NrLabels,    \* bound: labels of a port (NR_SPINE_LABEL_ENTRY)
  PushLabels,  \* values of label_to_push
  SwapLabels,  \* values of swapped_label
  Pbps,        \* provider backbone facing interfaces
  Threads,     \* threads that run API callbacks
  Rcu,         \* the RCU callback thread
  Free,        \* content of a slot whose is_valid is 0
  None         \* nothing to work on

Nexthops  == 0 .. MAX_COMMON_NEXTHOPS - 1
Mnexthops == 0 .. MAX_MULTICAST_NEXT_HOPS - 1
Slots     == 0 .. MAX_HOPS_IN_MULTICAST_GROUP - 1
Labels    == 0 .. NrLabels - 1

\* Values of a ref_cnt; one that is counted up past the last comes round to 0.
RefCounts == 0 .. RefModulus - 1
Incremented(count) == (count + 1) % RefModulus

Member == [next_hop: Nexthops, label_to_push: PushLabels]
MulticastNextHops == [nexthops: [Slots -> Member \cup {Free}], ref_cnt: RefCounts]

\* What a label leads to.
LabelEntry ==
  [is_unicast: {TRUE}, NHLFE: Nexthops, swapped_label: SwapLabels]
    \cup [is_unicast: {FALSE}, NHLFE: Mnexthops, swapped_label: SwapLabels]

ASSUME SpineAssumption ==
  /\ MAX_COMMON_NEXTHOPS \in Nat /\ MAX_MULTICAST_NEXT_HOPS \in Nat
  /\ MAX_HOPS_IN_MULTICAST_GROUP \in Nat /\ NrLabels \in Nat
ASSUME ProcessAssumption == Rcu \notin Threads /\ None \notin Pbps
ASSUME PortsAssumption == IsFiniteSet(Pbps)  \* global_e3iface_array has MAX_NUMBER_OF_E3INTERFACE slots
\* A group has at most one reference of each port: its count cannot come round.
\* That of a next hop can, by the members of 2048 groups of 64 slots.
ASSUME WidthAssumption == RefModulus \in Nat /\ Cardinality(Pbps) < RefModulus
ASSUME FreeAssumption ==
  /\ Free \notin Nat /\ Free \notin Member
  /\ Free \notin MulticastNextHops /\ Free \notin LabelEntry

VARIABLES
  nexthop,    \* ref_cnt of each registered next hop
  mnexthop,   \* mnext_hops_base
  labels,     \* pbp_private.label_base of each port
  state,      \* of each port: "absent", "up", or "dying" once unregistered
  call,       \* what each process has left to do of its call
  rcu         \* ports queued by call_rcu

vars == <<nexthop, mnexthop, labels, state, call, rcu>>

Processes == Threads \cup {Rcu}
Pc   == {"idle", "write", "reference", "clear"}
Idle == [pc |-> "idle", iface |-> None, index |-> 0, entry |-> Free]

TypeOK ==
  /\ nexthop \in [Nexthops -> RefCounts \cup {Free}]
  /\ mnexthop \in [Mnexthops -> MulticastNextHops \cup {Free}]
  /\ labels \in [Pbps -> [Labels -> LabelEntry \cup {Free}]]
  /\ state \in [Pbps -> {"absent", "up", "dying"}]
  /\ call \in [Processes -> [pc: Pc, iface: Pbps \cup {None}, index: Nat,
                             entry: LabelEntry \cup {Free}]]
  /\ rcu \in Seq(Pbps)

Init ==
  /\ nexthop = [h \in Nexthops |-> Free]
  /\ mnexthop = [m \in Mnexthops |-> Free]
  /\ labels = [p \in Pbps |-> [b \in Labels |-> Free]]
  /\ state = [p \in Pbps |-> "absent"]
  /\ call = [a \in Processes |-> Idle]
  /\ rcu = <<>>

Ready(t) == call[t] = Idle

IsFirst(i, S) == i \in S /\ \A j \in S : i <= j

----------------------------------------------------------------------------
(* References.                                                             *)

ReferenceNexthop(h)   == nexthop' = [nexthop EXCEPT ![h] = Incremented(@)]
DereferenceNexthop(h) ==
  nexthop' = IF nexthop[h] \notin {Free, 0}
             THEN [nexthop EXCEPT ![h] = @ - 1] ELSE nexthop

ReferenceMnexthop(m)   == mnexthop' = [mnexthop EXCEPT ![m].ref_cnt = Incremented(@)]
DereferenceMnexthop(m) ==
  mnexthop' = IF mnexthop[m] # Free /\ mnexthop[m].ref_cnt > 0
              THEN [mnexthop EXCEPT ![m].ref_cnt = @ - 1] ELSE mnexthop

----------------------------------------------------------------------------
(* Next hops (module CommonNhlfe has the rest) and groups.                 *)

RegisterCommonNexthop(t, h) ==
  /\ Ready(t) /\ nexthop[h] = Free
  /\ nexthop' = [nexthop EXCEPT ![h] = 0]
  /\ UNCHANGED <<mnexthop, labels, state, call, rcu>>

DeleteCommonNexthop(t, h) ==
  /\ Ready(t) /\ nexthop[h] = 0
  /\ nexthop' = [nexthop EXCEPT ![h] = Free]
  /\ UNCHANGED <<mnexthop, labels, state, call, rcu>>

RegisterMulticastNexthop(t, m) ==
  /\ Ready(t)
  /\ IsFirst(m, {g \in Mnexthops : mnexthop[g] = Free})
  /\ mnexthop' = [mnexthop EXCEPT
                    ![m] = [nexthops |-> [k \in Slots |-> Free], ref_cnt |-> 0]]
  /\ UNCHANGED <<nexthop, labels, state, call, rcu>>

Members(m, h) ==
  {k \in Slots : mnexthop[m].nexthops[k] # Free /\ mnexthop[m].nexthops[k].next_hop = h}

\* The members give back their next hops one after the other.  mnexthop_guard
\* is held: nobody else sees or changes the group meanwhile.
DereferenceMembers(m) ==
  nexthop' = [h \in Nexthops |->
                LET n == Cardinality(Members(m, h))
                IN  IF nexthop[h] = Free THEN Free
                    ELSE IF nexthop[h] < n THEN 0 ELSE nexthop[h] - n]

DeleteMulticastNexthop(t, m) ==
  /\ Ready(t)
  /\ mnexthop[m] # Free /\ mnexthop[m].ref_cnt = 0
  /\ DereferenceMembers(m)
  /\ mnexthop' = [mnexthop EXCEPT ![m] = Free]
  /\ UNCHANGED <<labels, state, call, rcu>>

RegisterNexthopInMnexthops(t, m, k, member) ==
  /\ Ready(t)
  /\ mnexthop[m] # Free
  /\ \A j \in Slots : mnexthop[m].nexthops[j] # member
  /\ IsFirst(k, {j \in Slots : mnexthop[m].nexthops[j] = Free})
  /\ nexthop[member.next_hop] # Free
  /\ ReferenceNexthop(member.next_hop)
  /\ mnexthop' = [mnexthop EXCEPT ![m].nexthops[k] = member]
  /\ UNCHANGED <<labels, state, call, rcu>>

\* Mutant: the slot is cleared before its next hop is read.
DeleteMemberOnly(t, m, member) ==
  /\ Ready(t)
  /\ mnexthop[m] # Free
  /\ \E k \in Slots :
       /\ mnexthop[m].nexthops[k] = member
       /\ mnexthop' = [mnexthop EXCEPT ![m].nexthops[k] = Free]
  /\ UNCHANGED <<nexthop, labels, state, call, rcu>>

DeleteNexthopInMnexthops(t, m, member) ==
  /\ Ready(t)
  /\ mnexthop[m] # Free
  /\ \E k \in Slots :
       /\ mnexthop[m].nexthops[k] = member
       /\ DereferenceNexthop(member.next_hop)
       /\ mnexthop' = [mnexthop EXCEPT ![m].nexthops[k] = Free]
  /\ UNCHANGED <<labels, state, call, rcu>>

----------------------------------------------------------------------------
(* Label FIBs.                                                             *)

LeadsTo(entry, unicast, n) ==
  entry # Free /\ entry.is_unicast = unicast /\ entry.NHLFE = n

\* Mutant: only the next label of the FIB is compared.
IsOnlyAmongNext(p, b) ==
  \A d \in Labels :
    d = b + 1 => ~LeadsTo(labels[p][d], labels[p][b].is_unicast, labels[p][b].NHLFE)

\* update_spine_label_entry_relationship: no other label of the FIB leads to
\* the same next hop or group.
IsOnlyLabel(p, b) ==
  \A d \in Labels \ {b} :
    ~LeadsTo(labels[p][d], labels[p][b].is_unicast, labels[p][b].NHLFE)

Dereference(entry) ==
  IF entry.is_unicast
  THEN DereferenceNexthop(entry.NHLFE) /\ UNCHANGED mnexthop
  ELSE DereferenceMnexthop(entry.NHLFE) /\ UNCHANGED nexthop

\* The reference of the label is given back, and the label is still valid.
Release(p, b) ==
  IF labels[p][b] # Free /\ IsOnlyLabel(p, b)
  THEN Dereference(labels[p][b])
  ELSE UNCHANGED <<nexthop, mnexthop>>

\* pbp_guard: no other call works on the port.
Unlocked(p) == \A a \in Processes : call[a].iface # p

\* find_e3interface_by_index no longer finds an unregistered port.
MayChange(t, p) == Ready(t) /\ Unlocked(p) /\ state[p] = "up"

SetupLabelEntry(t, p, b, entry) ==
  /\ MayChange(t, p)
  /\ Release(p, b)
  /\ call' = [call EXCEPT ![t] = [pc |-> "write", iface |-> p, index |-> b,
                                  entry |-> entry]]
  /\ UNCHANGED <<labels, state, rcu>>

DeleteLabelEntry(t, p, b) ==
  /\ MayChange(t, p)
  /\ Release(p, b)
  /\ call' = [call EXCEPT ![t] = [pc |-> "clear", iface |-> p, index |-> b,
                                  entry |-> Free]]
  /\ UNCHANGED <<labels, state, rcu>>

\* set_spine_label_entry makes the label valid, then takes the reference.
WriteLabel(t) ==
  /\ call[t].pc = "write"
  /\ labels' = [labels EXCEPT ![call[t].iface][call[t].index] = call[t].entry]
  /\ call' = [call EXCEPT ![t].pc = "reference"]
  /\ UNCHANGED <<nexthop, mnexthop, state, rcu>>

Found(entry) ==
  IF entry.is_unicast THEN nexthop[entry.NHLFE] # Free
                      ELSE mnexthop[entry.NHLFE] # Free

\* Mutant: the result of the reference is not looked at, as on the leaf.
ReferenceUnchecked(t) ==
  LET c == call[t]
  IN  /\ c.pc = "reference"
      /\ IF ~IsOnlyLabel(c.iface, c.index) \/ ~Found(c.entry)
         THEN UNCHANGED <<nexthop, mnexthop>>
         ELSE \/ c.entry.is_unicast /\ ReferenceNexthop(c.entry.NHLFE)
                 /\ UNCHANGED mnexthop
              \/ ~c.entry.is_unicast /\ ReferenceMnexthop(c.entry.NHLFE)
                 /\ UNCHANGED nexthop
      /\ call' = [call EXCEPT ![t] = Idle]
      /\ UNCHANGED <<labels, state, rcu>>

\* A label whose reference fails is made invalid again.
ReferenceLabel(t) ==
  LET c == call[t]
  IN  /\ c.pc = "reference"
      /\ \/ /\ ~IsOnlyLabel(c.iface, c.index)
            /\ UNCHANGED <<nexthop, mnexthop, labels>>
         \/ /\ IsOnlyLabel(c.iface, c.index) /\ Found(c.entry)
            /\ \/ c.entry.is_unicast /\ ReferenceNexthop(c.entry.NHLFE)
                  /\ UNCHANGED mnexthop
               \/ ~c.entry.is_unicast /\ ReferenceMnexthop(c.entry.NHLFE)
                  /\ UNCHANGED nexthop
            /\ UNCHANGED labels
         \/ /\ IsOnlyLabel(c.iface, c.index) /\ ~Found(c.entry)
            /\ labels' = [labels EXCEPT ![c.iface][c.index] = Free]
            /\ UNCHANGED <<nexthop, mnexthop>>
      /\ call' = [call EXCEPT ![t] = Idle]
      /\ UNCHANGED <<state, rcu>>

\* reset_spine_label_entry makes the label invalid after the release.
ClearLabel(a) ==
  /\ call[a].pc = "clear"
  /\ labels' = [labels EXCEPT ![call[a].iface][call[a].index] = Free]
  /\ call' = [call EXCEPT ![a] = Idle]
  /\ UNCHANGED <<nexthop, mnexthop, state, rcu>>

----------------------------------------------------------------------------
(* Ports.                                                                  *)

RegisterPort(t, p) ==
  /\ Ready(t) /\ state[p] = "absent"
  /\ state' = [state EXCEPT ![p] = "up"]
  /\ UNCHANGED <<nexthop, mnexthop, labels, call, rcu>>

\* Mutant: the port is taken out of the table but not handed to call_rcu.
ForgetPort(t, p) ==
  /\ Ready(t) /\ state[p] = "up"
  /\ state' = [state EXCEPT ![p] = "dying"]
  /\ UNCHANGED <<nexthop, mnexthop, labels, call, rcu>>

UnregisterPort(t, p) ==
  /\ Ready(t) /\ state[p] = "up"
  /\ state' = [state EXCEPT ![p] = "dying"]
  /\ rcu' = Append(rcu, p)
  /\ UNCHANGED <<nexthop, mnexthop, labels, call>>

\* The callback at the head of the queue works on p: no call of a thread does.
TearsDown(p) == rcu # <<>> /\ Head(rcu) = p /\ call[Rcu] = Idle /\ Unlocked(p)

BoundLabels(p) == {b \in Labels : labels[p][b] # Free}

\* provider_backbone_port_iface_delete resets each valid label.
ReleaseLabel(p, b) ==
  /\ TearsDown(p)
  /\ IsFirst(b, BoundLabels(p))
  /\ Release(p, b)
  /\ call' = [call EXCEPT ![Rcu] = [pc |-> "clear", iface |-> p, index |-> b,
                                    entry |-> Free]]
  /\ UNCHANGED <<labels, state, rcu>>

DetachPort(p) ==
  /\ TearsDown(p)
  /\ BoundLabels(p) = {}
  /\ state' = [state EXCEPT ![p] = "absent"]
  /\ rcu' = Tail(rcu)
  /\ UNCHANGED <<nexthop, mnexthop, labels, call>>

----------------------------------------------------------------------------
RcuStep ==
  \/ ClearLabel(Rcu)
  \/ \E p \in Pbps : DetachPort(p) \/ \E b \in Labels : ReleaseLabel(p, b)

Continue(t) == WriteLabel(t) \/ ReferenceLabel(t) \/ ClearLabel(t)

Begin(t) ==
  \/ \E h \in Nexthops : RegisterCommonNexthop(t, h) \/ DeleteCommonNexthop(t, h)
  \/ \E m \in Mnexthops :
       \/ RegisterMulticastNexthop(t, m)
       \/ DeleteMulticastNexthop(t, m)
       \/ \E member \in Member :
            \/ \E k \in Slots : RegisterNexthopInMnexthops(t, m, k, member)
            \/ DeleteNexthopInMnexthops(t, m, member)
  \/ \E p \in Pbps :
       \/ RegisterPort(t, p)
       \/ UnregisterPort(t, p)
       \/ \E b \in Labels :
            \/ DeleteLabelEntry(t, p, b)
            \/ \E entry \in LabelEntry : SetupLabelEntry(t, p, b, entry)

Next == RcuStep \/ \E t \in Threads : Begin(t) \/ Continue(t)

Spec == Init /\ [][Next]_vars

\* A call that has begun ends, and the RCU thread runs its callbacks.
FairSpec ==
  Spec /\ WF_vars(RcuStep) /\ \A t \in Threads : WF_vars(Continue(t))

----------------------------------------------------------------------------
(* Properties.                                                             *)

\* The label has a share in a reference unless a call works on it.
Settled(p, b) ==
  labels[p][b] # Free /\ \A a \in Processes : ~(call[a].iface = p /\ call[a].index = b)

\* The ports with a settled label to a next hop or group.
Fibs(unicast, n) ==
  {p \in Pbps : \E b \in Labels : Settled(p, b) /\ LeadsTo(labels[p][b], unicast, n)}

\* The members of groups that use a next hop.
Uses(h) == {u \in Mnexthops \X Slots : mnexthop[u[1]] # Free /\ u[2] \in Members(u[1], h)}

\* A next hop's ref_cnt is the number of group members that use it and of
\* ports with a settled unicast label to it: delete_common_nexthop refuses
\* exactly the next hops in use.  It is so as long as a next hop has fewer
\* than 2^16 uses: ref_cnt then comes round and delete_common_nexthop accepts
\* a next hop in use.
NexthopAccounting ==
  \A h \in Nexthops :
    LET users == Cardinality(Uses(h))
                   + Cardinality(Fibs(TRUE, h))
    IN  IF nexthop[h] = Free THEN users = 0 ELSE nexthop[h] = users

\* A group's ref_cnt is the number of ports with a settled multicast label to
\* it, so delete_multicast_nexthop refuses exactly the groups in use.
MnexthopAccounting ==
  \A m \in Mnexthops :
    LET fibs == Fibs(FALSE, m)
    IN  IF mnexthop[m] = Free THEN fibs = {} ELSE mnexthop[m].ref_cnt = Cardinality(fibs)

\* A settled label leads to a registered next hop or group, whose members are
\* registered: _pbp_multicast_fordward_slow_path uses them without a check.
LabelsResolve ==
  \A p \in Pbps, b \in Labels :
    Settled(p, b) =>
      /\ Found(labels[p][b])
      /\ ~labels[p][b].is_unicast =>
           \A h \in Nexthops :
             Members(labels[p][b].NHLFE, h) # {} => nexthop[h] # Free

\* An unregistered port gives back all its references and is detached.
DyingPortIsDetached == \A p \in Pbps : state[p] = "dying" ~> state[p] = "absent"
=============================================================================

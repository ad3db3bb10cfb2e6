-------------------------- MODULE SpineForwarding --------------------------
(***************************************************************************)
(* The input node of a provider backbone port                              *)
(* (spine/provider-backbone-port.c) beside the calls of SpineLabel.        *)
(*                                                                         *)
(* An I/O lcore takes no lock: it reads labels, groups, next hops and      *)
(* interfaces while API calls change them, keeps what it found for a label *)
(* in a cache for the length of a burst, and looks part of it up again     *)
(* when it posts the packets.  RCU protects the memory of a port, not the  *)
(* slots of the tables.                                                    *)
(***************************************************************************)
EXTENDS SpineLabel, ExpressDelivery

CONSTANTS
  PBP_CACHE_SIZE,
  MaxChanges,  \* bound: API calls that begin
  MaxBursts    \* bound: bursts that arrive

ASSUME CacheAssumption == PBP_CACHE_SIZE \in Nat \ {0}
ASSUME NullAssumption == None \notin Nat  \* NULL is no entry of a table
ASSUME TablesAssumption ==  \* the tables have 2048 entries each, a FIB 2^20 labels
  MAX_COMMON_NEXTHOPS > 0 /\ MAX_MULTICAST_NEXT_HOPS > 0 /\ NrLabels > 1
ASSUME FilledAssumption ==  \* the initial tables use a next hop once for each port and once more
  Cardinality(Pbps) + 1 < RefModulus

VARIABLES
  local,      \* local_e3iface of each next hop
  words,      \* the words of each label entry, valid or not
  hopOf,      \* the word next_hop of each group slot, valid or not
  burst,      \* the port and the packets of the burst
  cache,      \* pbp_cache
  slow,       \* variables of _pbp_multicast_fordward_slow_path
  fate,       \* ghost: how often each packet was given to a ring or freed
  waits,      \* ports the present burst keeps from being reclaimed
  crashed,    \* an invalid pointer was used
  changes,    \* bound: API calls that have begun
  bursts,     \* bound: bursts that have arrived
  seen        \* ghost: what calls did to the tables since the burst began

fwdVars  == <<burst, cache, slow, fate, crashed>>
allVars  == <<vars, deliveryVars, fwdVars, local, words, hopOf, waits, changes, bursts, seen>>

Packet == [kind: {"host", "expired"}, label: {0}] \cup [kind: {"mpls"}, label: Labels]

SpineDecisions ==
  {<<"drop">>, <<"host">>} \cup ({"unicast"} \X Pbps) \cup ({"multicast"} \X Labels)

ASSUME DecisionsAssumption == SpineDecisions \subseteq Decisions

NoCache == [c \in 0 .. PBP_CACHE_SIZE - 1 |->
              [label |-> 0, is_valid |-> FALSE, hop |-> None]]
NoSlow  == [pc |-> "none", group |-> 0, packet |-> 0, idx_hop |-> 0, iptr |-> 0,
            consumed |-> FALSE, invt |-> [k \in Slots |-> <<>>]]
Nobody  == [iface |-> None, mbufs |-> <<>>]

\* A packet that is copied stands in invt as itself, its copy as 0.
Copy == 0

\* Every table is filled, as calls of SpineLabel fill it: each port has a next
\* hop, group 0 has a member for each of them, label 1 leads to the group and
\* the other labels to next hop 0, which is not the way packets came.
Populated ==
  \E at \in [Nexthops -> Pbps], push \in [Nexthops -> PushLabels], swap \in SwapLabels :
    LET unicast   == [is_unicast |-> TRUE, NHLFE |-> 0, swapped_label |-> swap]
        multicast == [is_unicast |-> FALSE, NHLFE |-> 0, swapped_label |-> swap]
        fib == [b \in Labels |-> IF b = 1 THEN multicast ELSE unicast]
    IN  /\ \A p \in Pbps : \E h \in Nexthops : at[h] = p
        /\ push[0] # swap
        /\ local = at
        /\ labels = [p \in Pbps |-> fib]
        /\ words = labels
        /\ mnexthop = [m \in Mnexthops |->
             [nexthops |-> [k \in Slots |-> IF m = 0 /\ k \in Nexthops
                                            THEN [next_hop |-> k, label_to_push |-> push[k]]
                                            ELSE Free],
              ref_cnt |-> IF m = 0 THEN Cardinality(Pbps) ELSE 0]]
        /\ hopOf = [m \in Mnexthops |-> [k \in Slots |-> IF k \in Nexthops THEN k ELSE 0]]
        /\ nexthop = [h \in Nexthops |->
             (IF h \in Slots THEN 1 ELSE 0) + (IF h = 0 THEN Cardinality(Pbps) ELSE 0)]

ForwardingInit ==
  /\ Populated
  /\ state = [p \in Pbps |-> "up"]
  /\ call = [a \in Processes |-> Idle]
  /\ rcu = <<>>
  /\ DeliveryInit
  /\ burst = Nobody /\ cache = NoCache /\ slow = NoSlow /\ fate = <<>>
  /\ waits = {} /\ crashed = FALSE /\ changes = 0 /\ bursts = 0 /\ seen = {}

----------------------------------------------------------------------------
(* The burst: what the input node reads.                                   *)

\* find_e3interface_by_index no longer finds an unregistered port.
IsUp(p) == state[p] = "up"

TablesUnchanged == UNCHANGED <<vars, local, words, hopOf, changes>>

\* provider_backbone_port_iface_input_iface: a burst arrives, the cache is zeroed.
RxBurst(p, mbufs) ==
  /\ IsUp(p)
  /\ Receive(Len(mbufs))
  /\ burst' = [iface |-> p, mbufs |-> mbufs]
  /\ cache' = NoCache /\ slow' = NoSlow
  /\ fate' = [i \in 1 .. Len(mbufs) |-> 0]
  /\ seen' = {}
  /\ bursts < MaxBursts /\ bursts' = bursts + 1
  /\ UNCHANGED <<waits, crashed>> /\ TablesUnchanged

\* Nothing arrives, or the port is gone.
NoBurstYet == loop.pc = "idle" /\ UNCHANGED allVars

NextPacket == burst.mbufs[loop.peek + 1]
CacheIndex(b) == b % PBP_CACHE_SIZE
Hit(b) == cache[CacheIndex(b)].label = b

\* Mutant: the cached entry is valid whatever the lookup found.
LookupUnchecked ==
  LET b == NextPacket.label
      found == labels[burst.iface][b]
      hop == CASE found = Free \/ ~found.is_unicast -> cache[CacheIndex(b)].hop
               [] OTHER -> IF nexthop[found.NHLFE] # Free THEN found.NHLFE ELSE None
  IN  /\ MayPeek /\ NextPacket.kind = "mpls" /\ ~Hit(b)
      /\ cache' = [cache EXCEPT ![CacheIndex(b)] =
                     [label |-> b, is_valid |-> TRUE, hop |-> hop]]
      /\ UNCHANGED <<deliveryVars, burst, slow, fate, crashed, waits, bursts, seen>>
      /\ TablesUnchanged

\* The label is not in the cache: it is looked up.  Unless it is a unicast label,
\* the pointer that an earlier label left in the entry is not reset.
Lookup ==
  LET b == NextPacket.label
      found == labels[burst.iface][b]
      hop == CASE found = Free \/ ~found.is_unicast -> cache[CacheIndex(b)].hop
               [] OTHER -> IF nexthop[found.NHLFE] # Free THEN found.NHLFE ELSE None
  IN  /\ MayPeek /\ NextPacket.kind = "mpls" /\ ~Hit(b)
      /\ cache' = [cache EXCEPT ![CacheIndex(b)] =
                     [label |-> b, is_valid |-> found # Free /\ Found(found), hop |-> hop]]
      /\ UNCHANGED <<deliveryVars, burst, slow, fate, crashed, waits, bursts, seen>>
      /\ TablesUnchanged

\* The entry says valid, and the label is read again to see how to forward.
Cached(b) == cache[CacheIndex(b)]
IsUnicastNow(b) == words[burst.iface][b].is_unicast

Decision(packet) ==
  LET b == packet.label
      hop == Cached(b).hop
  IN  CASE packet.kind = "host" -> <<"host">>
        [] packet.kind = "expired" -> <<"drop">>
        [] packet.kind = "mpls" ->
             IF ~Cached(b).is_valid THEN <<"drop">>
             ELSE IF ~IsUnicastNow(b) THEN <<"multicast", b>>
             ELSE IF IsUp(local[hop]) THEN <<"unicast", local[hop]>>
             ELSE <<"drop">>

\* The unicast branch uses a next hop that no lookup has stored.
UsesNoNexthop(packet) ==
  /\ packet.kind = "mpls"
  /\ Cached(packet.label).is_valid /\ IsUnicastNow(packet.label)
  /\ Cached(packet.label).hop = None

\* The rest of _process_pbp_input_packet, and proceed_mbuf.
Decide ==
  /\ MayPeek
  /\ NextPacket.kind = "mpls" => Hit(NextPacket.label)
  /\ ~UsesNoNexthop(NextPacket)
  /\ Proceed(Decision(NextPacket))
  /\ UNCHANGED <<fwdVars, waits, bursts, seen>> /\ TablesUnchanged

DecideCrashes ==
  /\ MayPeek
  /\ NextPacket.kind = "mpls" => Hit(NextPacket.label)
  /\ UsesNoNexthop(NextPacket)
  /\ crashed' = TRUE
  /\ UNCHANGED <<deliveryVars, burst, cache, slow, fate, waits, bursts, seen>> /\ TablesUnchanged

\* The loop is over: what waits is posted.
EndOfBurst ==
  /\ Drain
  /\ UNCHANGED <<fwdVars, waits, bursts, seen>> /\ TablesUnchanged

----------------------------------------------------------------------------
(* The burst: posting.                                                     *)

Disposed(S) == [i \in DOMAIN fate |-> IF i \in S THEN fate[i] + 1 ELSE fate[i]]

\* The run of packets is posted.  When the burst has ended its lcore reports
\* a quiescent state.
Posted ==
  /\ Post
  /\ slow' = NoSlow
  /\ IF loop.pc = "last" THEN burst' = Nobody /\ cache' = NoCache /\ waits' = {}
                         ELSE UNCHANGED <<burst, cache, waits>>
  /\ UNCHANGED <<crashed, bursts, seen>> /\ TablesUnchanged

\* _post_pbp_input_packet_process, except for multicast: the packets go to the
\* ring of a port, as many as it takes, and the rest is freed; all are freed if
\* they are to be dropped or the port is not found.
PostAtOnce ==
  /\ Posting /\ LatestIdentifier[1] # "multicast"
  /\ fate' = Disposed(Waiting)
  /\ Posted

\* Lines 128 and on: the label and its group are looked up again, though the
\* label may be invalid by now, or lead to a next hop.
BeginSlowPath ==
  LET m == words[burst.iface][LatestIdentifier[2]].NHLFE
      found == m \in Mnexthops /\ mnexthop[m] # Free
  IN  /\ Posting /\ LatestIdentifier[1] = "multicast" /\ slow.pc = "none"
      /\ slow' = IF found
                 THEN [NoSlow EXCEPT !.pc = "copy", !.group = m,
                                     !.packet = loop.latest_unsent]
                 ELSE slow
      /\ crashed' = ~found
      /\ UNCHANGED <<deliveryVars, burst, cache, fate, waits, bursts, seen>> /\ TablesUnchanged

MemberAt(m, k) == IF mnexthop[m] = Free THEN Free ELSE mnexthop[m].nexthops[k]
NrHops(m) == Cardinality({k \in Slots : MemberAt(m, k) # Free})

MayCopy ==
  slow.pc = "copy" /\ slow.idx_hop < NrHops(slow.group) /\ slow.iptr \in Slots

\* The label to push is that of the way the packet came: reverse path check.
IsReversePath(member) ==
  member.label_to_push = words[burst.iface][LatestIdentifier[2]].swapped_label

Reachable(h) == nexthop[h] # Free /\ IsUp(local[h])

\* One round of the inner loop: the last member takes the packet itself, the
\* others a copy, which the pool of mbufs may not have.
CopyToMember ==
  LET k == slow.iptr
      member == MemberAt(slow.group, k)
      isLast == slow.idx_hop + 1 = NrHops(slow.group)
      step == [slow EXCEPT !.iptr = k + 1,
                           !.idx_hop = IF member = Free THEN @ ELSE @ + 1]
      given == IF isLast THEN slow.packet ELSE Copy
  IN  /\ MayCopy
      /\ \/ /\ \/ member = Free
               \/ member # Free /\ (~Reachable(member.next_hop) \/ IsReversePath(member))
               \/ member # Free /\ ~isLast  \* no mbuf for the copy
            /\ slow' = step
         \/ /\ member # Free /\ Reachable(member.next_hop) /\ ~IsReversePath(member)
            /\ slow' = [step EXCEPT !.invt[k] = Append(@, given),
                                    !.consumed = @ \/ isLast]
      /\ UNCHANGED <<deliveryVars, burst, cache, fate, crashed, waits, bursts, seen>>
      /\ TablesUnchanged

\* Mutant: the packet is freed though a member has taken it.
FreeAfterCopies ==
  /\ slow.pc = "copy" /\ ~MayCopy
  /\ fate' = Disposed({slow.packet})
  /\ slow' = IF slow.packet < loop.current
             THEN [slow EXCEPT !.packet = @ + 1, !.idx_hop = 0, !.iptr = 0,
                               !.consumed = FALSE]
             ELSE [slow EXCEPT !.pc = "send", !.iptr = 0]
  /\ UNCHANGED <<deliveryVars, burst, cache, crashed, waits, bursts, seen>> /\ TablesUnchanged

\* The packet has been copied: it is freed unless the last member took it.
EndOfMembers ==
  /\ slow.pc = "copy" /\ ~MayCopy
  /\ fate' = IF slow.consumed THEN fate ELSE Disposed({slow.packet})
  /\ slow' = IF slow.packet < loop.current
             THEN [slow EXCEPT !.packet = @ + 1, !.idx_hop = 0, !.iptr = 0,
                               !.consumed = FALSE]
             ELSE [slow EXCEPT !.pc = "send", !.iptr = 0]
  /\ UNCHANGED <<deliveryVars, burst, cache, crashed, waits, bursts, seen>> /\ TablesUnchanged

\* Lines 212 and on: the next hop of the slot and its port are looked up again
\* and used unchecked.
SendToMember ==
  LET k == slow.iptr
      packets == slow.invt[k]
  IN  /\ slow.pc = "send" /\ k \in Slots
      /\ crashed' = (packets # <<>> /\ ~Reachable(hopOf[slow.group][k]))
      /\ fate' = IF crashed' THEN fate
                 ELSE Disposed({packets[i] : i \in DOMAIN packets})
      /\ slow' = IF crashed' THEN slow ELSE [slow EXCEPT !.iptr = k + 1]
      /\ UNCHANGED <<deliveryVars, burst, cache, waits, bursts, seen>> /\ TablesUnchanged

EndOfSlowPath ==
  /\ slow.pc = "send" /\ slow.iptr \notin Slots
  /\ UNCHANGED fate
  /\ Posted

----------------------------------------------------------------------------
(* API calls and the RCU thread, as the burst sees them.                   *)

\* The words of an entry stay when it is made invalid; reset_spine_label_entry clears
\* the index of a label, register_multicast_nexthop the whole group.
ClearsLabel(p, b) ==
  \E a \in Processes : call[a].pc = "clear" /\ call[a].iface = p /\ call[a].index = b
                         /\ call'[a] = Idle

KeepWords ==
  /\ words' = [p \in Pbps |-> [b \in Labels |->
       IF labels'[p][b] # Free THEN labels'[p][b]
       ELSE IF ClearsLabel(p, b) THEN [words[p][b] EXCEPT !.NHLFE = 0]
       ELSE words[p][b]]]
  /\ hopOf' = [m \in Mnexthops |-> [k \in Slots |->
       IF mnexthop'[m] # Free /\ mnexthop'[m].nexthops[k] # Free
       THEN mnexthop'[m].nexthops[k].next_hop
       ELSE IF mnexthop[m] = Free /\ mnexthop'[m] # Free THEN 0
       ELSE hopOf[m][k]]]
  /\ \E at \in [{h \in Nexthops : nexthop[h] = Free /\ nexthop'[h] # Free} -> Pbps] :
       local' = [h \in Nexthops |-> IF h \in DOMAIN at THEN at[h] ELSE local[h]]

\* Something a burst may have read is no longer there.
Withdraws ==
  \/ \E h \in Nexthops : nexthop[h] # Free /\ nexthop'[h] = Free
  \/ \E m \in Mnexthops : mnexthop[m] # Free /\ mnexthop'[m] = Free
  \/ \E m \in Mnexthops, k \in Slots :
       MemberAt(m, k) # Free /\ (mnexthop'[m] = Free \/ mnexthop'[m].nexthops[k] = Free)
  \/ \E p \in Pbps : IsUp(p) /\ state'[p] # "up"
  \/ \E p \in Pbps, b \in Labels : labels[p][b] # Free /\ labels'[p][b] # labels[p][b]

Joins ==
  \E m \in Mnexthops, k \in Slots :
    MemberAt(m, k) = Free /\ mnexthop'[m] # Free /\ mnexthop'[m].nexthops[k] # Free

Watch ==
  seen' = IF burst = Nobody THEN seen
          ELSE seen \cup (IF Withdraws THEN {"withdrawal"} ELSE {})
                    \cup (IF Joins THEN {"joined"} ELSE {})

\* Mutant: the callbacks do not wait for the burst that was going on.
NoGracePeriod == waits' = waits

\* call_rcu: the callback runs once the burst that is going on has ended.
GracePeriod ==
  waits' = waits \cup {p \in Pbps : burst # Nobody /\ IsUp(p) /\ state'[p] = "dying"}

ApiStep ==
  \E t \in Threads :
    /\ \/ changes < MaxChanges /\ Begin(t) /\ changes' = changes + 1
       \/ Continue(t) /\ UNCHANGED changes
    /\ KeepWords /\ Watch /\ GracePeriod
    /\ UNCHANGED <<deliveryVars, fwdVars, bursts>>

ReclaimStep ==
  /\ rcu # <<>> => Head(rcu) \notin waits
  /\ RcuStep
  /\ KeepWords /\ Watch
  /\ UNCHANGED <<deliveryVars, fwdVars, waits, changes, bursts>>

----------------------------------------------------------------------------
BurstStep ==
  \/ Lookup \/ Decide \/ DecideCrashes \/ EndOfBurst
  \/ PostAtOnce \/ BeginSlowPath \/ CopyToMember \/ EndOfMembers
  \/ SendToMember \/ EndOfSlowPath

\* The process is gone.
Halted == crashed /\ UNCHANGED allVars

ForwardingNext ==
  \/ Halted
  \/ /\ ~crashed
     /\ \/ NoBurstYet
        \/ \E p \in Pbps, n \in 1 .. MaxBurst, mbufs \in [1 .. MaxBurst -> Packet] :
             RxBurst(p, SubSeq(mbufs, 1, n))
        \/ BurstStep
        \/ ApiStep
        \/ ReclaimStep

ForwardingSpec == ForwardingInit /\ [][ForwardingNext]_allVars

----------------------------------------------------------------------------
(* Properties.                                                             *)

\* A packet of the burst is never left allocated and never freed or delivered
\* twice, unless a member joined a group during the burst: nr_hops is read
\* again for every member, so the packet may then be taken by two of them.
MbufsAreConserved ==
  /\ \A i \in DOMAIN fate : fate[i] > 1 => "joined" \in seen
  /\ \A i \in 1 .. Len(posted) : fate[i] > 0

\* Forwarding uses no invalid pointer unless a call took something away during
\* the burst: registrations alone never harm it, and what was taken away
\* before the burst is never used.
OnlyWithdrawalsHarm == crashed => "withdrawal" \in seen

\* The port whose label FIB a burst reads is not reclaimed under it.
BurstHoldsItsPort == burst.iface # None => state[burst.iface] # "absent"

\* A label whose lookup succeeded has a next hop stored when the unicast
\* branch uses it (the comment "until here we are sure the fwd credentials are
\* ready", provider-backbone-port.c:94).
CredentialsAreReady ==
  MayPeek /\ NextPacket.kind = "mpls" /\ Hit(NextPacket.label) => ~UsesNoNexthop(NextPacket)
=============================================================================

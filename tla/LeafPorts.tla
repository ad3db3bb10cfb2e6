----------------------------- MODULE LeafPorts ------------------------------
(***************************************************************************)
(* The customer service ports and customer backbone ports of the leaf, and *)
(* the API callbacks that bind their VLANs and labels to E-services.       *)
(*                                                                         *)
(* Three kinds of process change this state: the threads that run API      *)
(* callbacks (one, the master lcore, in the default build), and the RCU    *)
(* callback thread, which tears down released interfaces and E-LANs.  The  *)
(* I/O lcores only read it.                                                *)
(*                                                                         *)
(* The RCU thread runs the callbacks in the order of call_rcu.  A callback *)
(* waits for a grace period; the part of it that matters here is that no   *)
(* API callback still works on the interface.                              *)
(***************************************************************************)
EXTENDS LeafEService

CONSTANTS
  Cbps,            \* customer backbone facing interfaces
  NrLabels,        \* bound: labels of an interface (NR_LEAF_LABEL_ENTRY)
  Threads,         \* threads that run API callbacks
  Rcu,             \* the RCU callback thread
  ServicePortApi,  \* do clients call leaf_api_{register,delete}_e_service_port?
  EgressApi,       \* do clients call leaf_api_{set,clear}_cbp_egress_nhlfe_index?
  MaxRefCnt        \* bound: references of an E-LINE that the service API adds to

Labels == 0 .. NrLabels - 1
Ifaces == Csps \cup Cbps

Service == [e_service: {"e_line", "e_lan"}, service_index: Nat]
Services == {[e_service |-> "e_line", service_index |-> s] : s \in ELines}
              \cup {[e_service |-> "e_lan", service_index |-> l] : l \in ELans}

\* egress is the egress_nhlfe_index; path records the <NHLFE, label_to_push>
\* that the client asked for.
Egress == [slot: NhlfeSlots, path: Nhlfe]
LabelEntry == [service: Services, egress: Egress \cup {None}]

\* What a process has left to do of its call: release the binding of a VLAN,
\* delete the E-LAN port it found, register the new one; check the service of
\* a label, bind the label.
Pc == {"idle", "release", "delete", "register", "check", "bind"}
Idle == [pc |-> "idle", iface |-> None, entry |-> 0, service |-> None, slot |-> 0]

ASSUME LeafAssumption ==
  /\ Csps \cap Cbps = {} /\ Rcu \notin Threads /\ None \notin Ifaces
  /\ IsFiniteSet(Cbps)
  /\ ServicePortApi \in BOOLEAN /\ EgressApi \in BOOLEAN
  /\ None \notin Services /\ None \notin LabelEntry

VARIABLES
  state,   \* of each interface: "absent", "up", or "dying" once unregistered
  vlans,   \* csp_private.vlans of each customer service port
  labels,  \* cbp_private.label_base of each customer backbone port
  call,    \* what each process has left to do of its call
  rcu      \* callbacks queued by call_rcu

ports == <<state, vlans, labels, call, rcu>>
vars == <<tables, ports>>

Callback == [func: {"elan"}, of: ELans] \cup [func: {"iface"}, of: Ifaces]

TypeOK ==
  /\ TablesTypeOK
  /\ state \in [Ifaces -> {"absent", "up", "dying"}]
  /\ vlans \in [Csps -> [Vlans -> Services \cup {None}]]
  /\ labels \in [Cbps -> [Labels -> LabelEntry \cup {None}]]
  /\ call \in [Threads \cup {Rcu} ->
                [pc: Pc, iface: Ifaces \cup {None}, entry: Vlans \cup Labels \cup {0},
                 service: Services \cup {None}, slot: PortSlots \cup {0}]]
  /\ rcu \in Seq(Callback)

Init ==
  /\ TablesInit
  /\ state = [i \in Ifaces |-> "absent"]
  /\ vlans = [i \in Csps |-> [v \in Vlans |-> None]]
  /\ labels = [c \in Cbps |-> [b \in Labels |-> None]]
  /\ call = [a \in Threads \cup {Rcu} |-> Idle]
  /\ rcu = <<>>

Ready(t) == call[t] = Idle

\* csp_guard and cbp_guard: no other call works on the interface.
Unlocked(i) == \A t \in Threads : call[t].iface # i

\* find_e3interface_by_index no longer finds a released interface.
MayChange(t, i) == Ready(t) /\ Unlocked(i) /\ state[i] = "up"

----------------------------------------------------------------------------
(* The service API: calls of one step.                                     *)

ServiceStep(t) ==
  /\ Ready(t)
  /\ \/ \E h \in Nexthops :
          \/ RegisterCommonNexthop(h)
          \/ DeleteCommonNexthop(h)
     \/ \E s \in ELines :
          \/ RegisterELineService(s)
          \/ DeleteELineService(s)
          \/ \E n \in Nhlfe : RegisterELineNhlfe(s, n)
          \/ DeleteELineNhlfe(s)
     \/ \E l \in ELans :
          \/ RegisterELanService(l)
          \/ \E k \in NhlfeSlots, n \in Nhlfe : RegisterELanNhlfe(l, k, n)
          \/ \E k \in NhlfeSlots : DeleteELanNhlfe(l, k)
          \/ \E mac \in Macs, e \in Port \cup Nhlfe : RegisterELanFwdEntry(l, mac, e)
          \/ \E mac \in Macs : DeleteELanFwdEntry(l, mac)
          \/ \E h \in Nexthops : SetELanMulticast(l, h)
          \/ ResetELanMulticast(l)
  /\ UNCHANGED ports

DeleteELan(t, l) ==
  /\ Ready(t)
  /\ DeleteELanService(l)
  /\ rcu' = Append(rcu, [func |-> "elan", of |-> l])
  /\ UNCHANGED <<state, vlans, labels, call>>

\* leaf_api_register_e_service_port and leaf_api_delete_e_service_port reach
\* the tables without the interface's VLAN table.
ServicePortStep(t) ==
  /\ ServicePortApi /\ Ready(t)
  /\ \/ \E s \in ELines :
          \/ \E p \in Port :
               RegisterELinePort(s, p) /\ eline[s].ref_cnt < MaxRefCnt
          \/ DeleteELinePort(s)
     \/ \E l \in ELans, k \in PortSlots :
          \/ \E p \in Port : RegisterELanPort(l, k, p)
          \/ DeleteELanPort(l, k)
  /\ UNCHANGED ports

----------------------------------------------------------------------------
(* VLANs of customer service ports.  csp_guard is held from the first step *)
(* to the last.                                                            *)

\* An E-LINE service that has a port is refused.
CspSetupPort(t, i, v, service) ==
  /\ MayChange(t, i)
  /\ ~ (service.e_service = "e_line" /\ HasELinePort(service.service_index))
  /\ call' = [call EXCEPT ![t] = [pc |-> "release", iface |-> i, entry |-> v,
                                  service |-> service, slot |-> 0]]
  /\ UNCHANGED <<tables, state, vlans, labels, rcu>>

CspWithdrawPort(t, i, v) ==
  /\ MayChange(t, i)
  /\ call' = [call EXCEPT ![t] = [pc |-> "release", iface |-> i, entry |-> v,
                                  service |-> None, slot |-> 0]]
  /\ UNCHANGED <<tables, state, vlans, labels, rcu>>

PortOf(c) == [iface |-> c.iface, vlan_tci |-> c.entry]

\* The VLAN of a call is unbound; a setup goes on to the new binding.
Unbound(a) ==
  LET c == call[a]
  IN  /\ vlans' = [vlans EXCEPT ![c.iface][c.entry] = None]
      /\ call' = [call EXCEPT ![a] =
                    IF c.service = None THEN Idle
                    ELSE [c EXCEPT !.pc = "register", !.slot = 0]]
      /\ UNCHANGED <<state, labels, rcu>>

\* delete_e_line_port, or the search for the E-LAN port.
ReleaseBinding(a) ==
  LET c == call[a]
      bound == vlans[c.iface][c.entry]
      slots == ELanPortSlots(bound.service_index, PortOf(c))
  IN  /\ c.pc = "release"
      /\ \/ bound = None /\ Unbound(a) /\ UNCHANGED tables
         \/ /\ bound # None /\ bound.e_service = "e_line"
            /\ \/ DeleteELinePort(bound.service_index)
               \/ ~HasELinePort(bound.service_index) /\ UNCHANGED tables
            /\ Unbound(a)
         \/ /\ bound # None /\ bound.e_service = "e_lan"
            /\ \/ slots = {} /\ Unbound(a)
               \/ /\ \E k \in slots :
                       call' = [call EXCEPT ![a].pc = "delete", ![a].slot = k]
                  /\ UNCHANGED <<state, vlans, labels, rcu>>
            /\ UNCHANGED tables

\* delete_e_lan_port, in a critical section of its own.
DeleteFoundPort(a) ==
  LET l == vlans[call[a].iface][call[a].entry].service_index
      k == call[a].slot
  IN  /\ call[a].pc = "delete"
      /\ \/ DeleteELanPort(l, k)
         \/ ~HasELanPort(l, k) /\ UNCHANGED tables
      /\ Unbound(a)

\* The VLAN is valid only if the service took the port.
RegisterBinding(t) ==
  LET c == call[t]
      s == c.service.service_index
      Bind == vlans' = [vlans EXCEPT ![c.iface][c.entry] = c.service]
  IN  /\ c.pc = "register"
      /\ \/ /\ c.service.e_service = "e_line"
            /\ \/ RegisterELinePort(s, PortOf(c)) /\ Bind
               \/ ~ELinePortIsFree(s, PortOf(c)) /\ UNCHANGED <<tables, vlans>>
         \/ /\ c.service.e_service = "e_lan"
            /\ \/ (\E k \in PortSlots : RegisterELanPort(s, k, PortOf(c))) /\ Bind
               \/ ~ELanTakesPort(s, PortOf(c)) /\ UNCHANGED <<tables, vlans>>
      /\ call' = [call EXCEPT ![t] = Idle]
      /\ UNCHANGED <<state, labels, rcu>>

----------------------------------------------------------------------------
(* Labels of customer backbone ports.  A label FIB holds one reference on  *)
(* a service however many of its labels are bound to the service.          *)

IsBound(c, b, service) == labels[c][b] # None /\ labels[c][b].service = service

\* update_leaf_label_entry_relationship(base, index, is_removed): the last
\* label, or the first, that the FIB binds to the service.
IsOnlyLabel(c, b, service) == \A d \in Labels \ {b} : ~IsBound(c, d, service)

WithRefCnt(table, s, n) == [table EXCEPT ![s].ref_cnt = n]

Reference(service) ==
  LET s == service.service_index
  IN  IF service.e_service = "e_line"
      THEN /\ eline' = IF FindELine(s)
                       THEN WithRefCnt(eline, s, eline[s].ref_cnt + 1) ELSE eline
           /\ UNCHANGED <<elan, nexthop>>
      ELSE /\ elan' = IF FindELan(s)
                      THEN WithRefCnt(elan, s, elan[s].ref_cnt + 1) ELSE elan
           /\ UNCHANGED <<eline, nexthop>>

Dereference(service) ==
  LET s == service.service_index
  IN  IF service.e_service = "e_line"
      THEN /\ eline' = IF FindELine(s)
                       THEN WithRefCnt(eline, s, Decremented(eline[s].ref_cnt))
                       ELSE eline
           /\ UNCHANGED <<elan, nexthop>>
      ELSE /\ elan' = IF FindELan(s)
                      THEN WithRefCnt(elan, s, Decremented(elan[s].ref_cnt))
                      ELSE elan
           /\ UNCHANGED <<eline, nexthop>>

\* reset_leaf_label_entry.
ResetLabel(c, b) ==
  LET e == labels[c][b]
  IN  /\ labels' = [labels EXCEPT ![c][b] = None]
      /\ IF e # None /\ IsOnlyLabel(c, b, e.service)
         THEN Dereference(e.service)
         ELSE UNCHANGED tables

\* The previous binding is released even if the new service does not exist.
CbpSetupLabel(t, c, b, service) ==
  /\ MayChange(t, c)
  /\ ResetLabel(c, b)
  /\ call' = [call EXCEPT ![t] = [pc |-> "check", iface |-> c, entry |-> b,
                                  service |-> service, slot |-> 0]]
  /\ UNCHANGED <<state, vlans, rcu>>

FindService(service) ==
  \/ service.e_service = "e_line" /\ FindELine(service.service_index)
  \/ service.e_service = "e_lan" /\ FindELan(service.service_index)

\* set_leaf_label_entry looks at the service without a lock.
CheckLabelService(t) ==
  /\ call[t].pc = "check"
  /\ call' = [call EXCEPT ![t] = IF FindService(call[t].service)
                                 THEN [call[t] EXCEPT !.pc = "bind"] ELSE Idle]
  /\ UNCHANGED <<tables, state, vlans, labels, rcu>>

\* Mutant: the reference is taken for the first label only.
BindLabelOnce(t) ==
  LET c == call[t]
  IN  /\ c.pc = "bind"
      /\ labels' = [labels EXCEPT ![c.iface][c.entry] =
                      [service |-> c.service, egress |-> None]]
      /\ IF \A b \in Labels : labels[c.iface][b] = None
         THEN Reference(c.service)
         ELSE UNCHANGED tables
      /\ call' = [call EXCEPT ![t] = Idle]
      /\ UNCHANGED <<state, vlans, rcu>>

\* The entry is written, then the service is referenced; the result of
\* reference_e_*_service_locked is not looked at.
BindLabel(t) ==
  LET c == call[t]
  IN  /\ c.pc = "bind"
      /\ labels' = [labels EXCEPT ![c.iface][c.entry] =
                      [service |-> c.service, egress |-> None]]
      /\ IF IsOnlyLabel(c.iface, c.entry, c.service)
         THEN Reference(c.service)
         ELSE UNCHANGED tables
      /\ call' = [call EXCEPT ![t] = Idle]
      /\ UNCHANGED <<state, vlans, rcu>>

CbpClearLabel(t, c, b) ==
  /\ MayChange(t, c)
  /\ ResetLabel(c, b)
  /\ UNCHANGED <<state, vlans, call, rcu>>

CbpSetEgress(t, c, b, path) ==
  /\ EgressApi /\ MayChange(t, c)
  /\ labels[c][b] # None /\ labels[c][b].service.e_service = "e_lan"
  /\ \E k \in ELanNhlfeSlots(labels[c][b].service.service_index, path) :
       labels' = [labels EXCEPT ![c][b].egress = [slot |-> k, path |-> path]]
  /\ UNCHANGED <<tables, state, vlans, call, rcu>>

CbpClearEgress(t, c, b) ==
  /\ EgressApi /\ MayChange(t, c)
  /\ labels[c][b] # None
  /\ labels' = [labels EXCEPT ![c][b].egress = None]
  /\ UNCHANGED <<tables, state, vlans, call, rcu>>

----------------------------------------------------------------------------
(* Interfaces, and the callbacks of the RCU thread.  An entry that a       *)
(* callback has released is cleared, which stands for its loop index: the  *)
(* interface is freed after the loop.                                      *)

\* post_setup: all VLAN and label entries are invalid.
RegisterIface(t, i) ==
  /\ Ready(t) /\ state[i] = "absent"
  /\ state' = [state EXCEPT ![i] = "up"]
  /\ UNCHANGED <<tables, vlans, labels, call, rcu>>

\* Mutant: the interface is taken out of the table but not handed to call_rcu.
ForgetIface(t, i) ==
  /\ Ready(t) /\ state[i] = "up"
  /\ state' = [state EXCEPT ![i] = "dying"]
  /\ UNCHANGED <<tables, vlans, labels, call, rcu>>

\* unregister_e3interface takes neither csp_guard nor cbp_guard.
UnregisterIface(t, i) ==
  /\ Ready(t) /\ state[i] = "up"
  /\ state' = [state EXCEPT ![i] = "dying"]
  /\ rcu' = Append(rcu, [func |-> "iface", of |-> i])
  /\ UNCHANGED <<tables, vlans, labels, call>>

\* The callback at the head of the queue works on interface i.
TearsDown(i) ==
  rcu # <<>> /\ Head(rcu) = [func |-> "iface", of |-> i] /\ Unlocked(i)

BoundVlans(i)  == {v \in Vlans : vlans[i][v] # None}
BoundLabels(c) == {b \in Labels : labels[c][b] # None}

\* customer_service_port_iface_delete runs ReleaseBinding and DeleteFoundPort
\* for each bound VLAN, without csp_guard.
ReleaseVlan(i) ==
  /\ TearsDown(i) /\ call[Rcu] = Idle
  /\ \E v \in BoundVlans(i) :
       /\ IsFirst(v, BoundVlans(i))
       /\ call' = [call EXCEPT ![Rcu] = [pc |-> "release", iface |-> i, entry |-> v,
                                         service |-> None, slot |-> 0]]
  /\ UNCHANGED <<tables, state, vlans, labels, rcu>>

ReleaseLabel(c) ==
  /\ TearsDown(c)
  /\ \E b \in BoundLabels(c) : IsFirst(b, BoundLabels(c)) /\ ResetLabel(c, b)
  /\ UNCHANGED <<state, vlans, call, rcu>>

\* The port is detached: its index can be registered again.
DetachIface(i) ==
  /\ TearsDown(i) /\ call[Rcu] = Idle
  /\ i \in Csps => BoundVlans(i) = {}
  /\ i \in Cbps => BoundLabels(i) = {}
  /\ state' = [state EXCEPT ![i] = "absent"]
  /\ rcu' = Tail(rcu)
  /\ UNCHANGED <<tables, vlans, labels, call>>

\* Mutant: the E-LAN slot is released before the references it holds.
DropELan(l) ==
  /\ rcu # <<>> /\ Head(rcu) = [func |-> "elan", of |-> l]
  /\ elan' = [elan EXCEPT ![l] = Free]
  /\ rcu' = Tail(rcu)
  /\ UNCHANGED <<eline, nexthop, state, vlans, labels, call>>

\* Mutant: is_releasing is not reset.
KeepReleasing(l) ==
  /\ rcu # <<>> /\ Head(rcu) = [func |-> "elan", of |-> l]
  /\ \/ /\ ReleaseMulticast(l) \/ \E k \in NhlfeSlots : ReleaseNhlfe(l, k)
        /\ rcu' = rcu
     \/ /\ elan[l].multicast_NHLFE = None /\ Unreleased(l) = {}
        /\ rcu' = Tail(rcu)
        /\ UNCHANGED tables
  /\ UNCHANGED <<state, vlans, labels, call>>

PostDeleteELan(l) ==
  /\ rcu # <<>> /\ Head(rcu) = [func |-> "elan", of |-> l]
  /\ \/ /\ ReleaseMulticast(l) \/ \E k \in NhlfeSlots : ReleaseNhlfe(l, k)
        /\ rcu' = rcu
     \/ ReleaseELan(l) /\ rcu' = Tail(rcu)
  /\ UNCHANGED <<state, vlans, labels, call>>

----------------------------------------------------------------------------
RcuStep ==
  \/ \E i \in Csps : ReleaseVlan(i)
  \/ ReleaseBinding(Rcu)
  \/ DeleteFoundPort(Rcu)
  \/ \E c \in Cbps : ReleaseLabel(c)
  \/ \E i \in Ifaces : DetachIface(i)
  \/ \E l \in ELans : PostDeleteELan(l)

\* The rest of a call that a thread has begun.
Continue(t) ==
  \/ ReleaseBinding(t)
  \/ DeleteFoundPort(t)
  \/ RegisterBinding(t)
  \/ CheckLabelService(t)
  \/ BindLabel(t)

Begin(t) ==
  \/ ServiceStep(t)
  \/ ServicePortStep(t)
  \/ \E l \in ELans : DeleteELan(t, l)
  \/ \E i \in Csps, v \in Vlans :
       \/ \E service \in Services : CspSetupPort(t, i, v, service)
       \/ CspWithdrawPort(t, i, v)
  \/ \E c \in Cbps, b \in Labels :
       \/ \E service \in Services : CbpSetupLabel(t, c, b, service)
       \/ CbpClearLabel(t, c, b)
       \/ \E path \in Nhlfe : CbpSetEgress(t, c, b, path)
       \/ CbpClearEgress(t, c, b)
  \/ \E i \in Ifaces : RegisterIface(t, i) \/ UnregisterIface(t, i)

Next == RcuStep \/ \E t \in Threads : Begin(t) \/ Continue(t)

Spec == Init /\ [][Next]_vars

\* A call that has begun ends, and the RCU thread runs its callbacks.
FairSpec ==
  Spec /\ WF_vars(RcuStep) /\ \A t \in Threads : WF_vars(Continue(t))

----------------------------------------------------------------------------
(* Properties.                                                             *)

\* Where a service can record the use of a next hop, and the one it records.
UsePlaces ==
  ({"e_line"} \X ELines \X {0}) \cup ({"multicast"} \X ELans \X {0})
    \cup ({"nhlfe"} \X ELans \X NhlfeSlots)

NhlfeIn(u) ==
  CASE u[1] = "e_line" /\ eline[u[2]] # Free -> eline[u[2]].nhlfe
    [] u[1] = "nhlfe" /\ elan[u[2]] # Free -> elan[u[2]].nhlfes[u[3]]
    [] OTHER -> None

NexthopOf(u) ==
  CASE u[1] = "multicast" /\ elan[u[2]] # Free -> elan[u[2]].multicast_NHLFE
    [] NhlfeIn(u) # None -> NhlfeIn(u).NHLFE
    [] OTHER -> None

Users(h) == {u \in UsePlaces : NexthopOf(u) = h}

\* The label FIBs that lead to a service.
Fibs(service) == {c \in Cbps : \E b \in Labels : IsBound(c, b, service)}

ELineService(s) == [e_service |-> "e_line", service_index |-> s]
ELanService(l)  == [e_service |-> "e_lan", service_index |-> l]

HasPort(service, port) ==
  LET s == service.service_index
  IN  \/ service.e_service = "e_line" /\ FindELine(s) /\ eline[s].port = port
      \/ service.e_service = "e_lan" /\ ELanPortSlots(s, port) # {}

\* A next hop's ref_cnt is the number of its uses by services, those that an
\* E-LAN under release has not given back included.
NexthopAccounting ==
  \A h \in Nexthops :
    IF nexthop[h] = Free THEN Users(h) = {} ELSE nexthop[h] = Cardinality(Users(h))

\* A service's ref_cnt is the number of its ports and of the label FIBs that
\* lead to it: delete_e_*_service refuses exactly the services in use.
ServiceAccounting ==
  /\ \A s \in ELines : FindELine(s) =>
       eline[s].ref_cnt = (IF eline[s].port = None THEN 0 ELSE 1)
                            + Cardinality(Fibs(ELineService(s)))
  /\ \A l \in ELans : FindELan(l) =>
       elan[l].ref_cnt = Cardinality(PortSlots \ FreePortSlots(l))
                           + Cardinality(Fibs(ELanService(l)))

\* A VLAN entry of an interface leads to a service if and only if that service
\* has the port, whatever API callbacks and interface releases are under way.
VlansMatchPorts ==
  \A i \in Csps, v \in Vlans, service \in Services :
    vlans[i][v] = service <=> HasPort(service, [iface |-> i, vlan_tci |-> v])

\* A valid label leads to a registered service: the input path of a customer
\* backbone port never reaches a deleted one.
LabelsResolve ==
  \A c \in Cbps, b \in Labels :
    labels[c][b] # None => FindService(labels[c][b].service)

\* A MAC entry that the API registered leads to a port or an nhlfe that the
\* E-LAN still has.
NoStaleMac ==
  \A l \in ELans, mac \in Macs :
    FindELan(l) /\ elan[l].fib[mac] # None =>
      ELanPortSlots(l, elan[l].fib[mac]) \cup ELanNhlfeSlots(l, elan[l].fib[mac]) # {}

\* An E-LAN that was deleted becomes a free slot again.
ReleasedELanIsReusable ==
  \A l \in ELans : elan[l] # Free /\ ~elan[l].is_valid ~> elan[l] = Free

\* An interface that was unregistered is detached, whatever it was bound to.
DyingIfaceIsDetached == \A i \in Ifaces : state[i] = "dying" ~> state[i] = "absent"

(* What comments and tests of the code say, and the code does not do.      *)

\* leaf-e-service.c, delete_e_line_service: a ref_cnt that is not zero means
\* that the service is "still referenced by other entity".
ReferencedELineHasUser ==
  \A s \in ELines : FindELine(s) /\ eline[s].ref_cnt # 0 =>
    eline[s].port # None \/ Fibs(ELineService(s)) # {}

\* customer-backbone-port-api.c: the egress index of a label stands for the
\* <nhlfe, label_to_push> it was set to, which is registered into the E-LAN.
EgressReachesSource ==
  \A c \in Cbps, b \in Labels :
    labels[c][b] # None /\ labels[c][b].egress # None =>
      elan[labels[c][b].service.service_index].nhlfes[labels[c][b].egress.slot]
        \in {labels[c][b].egress.path, None}

=============================================================================

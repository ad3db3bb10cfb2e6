---------------------------- MODULE LeafEService ----------------------------
(***************************************************************************)
(* The E-LINE and E-LAN service tables of the leaf (leaf/leaf-e-service.c) *)
(* and the reference counts of the next hops they use.                     *)
(*                                                                         *)
(* Each operator below is one function of leaf-e-service.c: a critical     *)
(* section of e_line_guard or e_lan_guard that succeeds.  A function also  *)
(* takes nexthop_guard inside its own critical section; what it does under *)
(* the inner lock is folded into the step.  LeafPorts composes these       *)
(* functions with the handlers that call them.                             *)
(***************************************************************************)
EXTENDS Integers, Sequences, FiniteSets

CONSTANTS
  MAX_E_LINE_SERVICES, MAX_E_LAN_SERVICES,
  MAX_PORTS_IN_E_LAN_SERVICE, MAX_NHLFE_IN_E_LAN_SERVICE,
  MAX_COMMON_NEXTHOPS,
  NexthopRefModulus,  \* 2^16: common_nexthop.ref_cnt is a uint16_t
  Csps,               \* customer user facing interfaces
  NrVlans,            \* bound: VLAN ids per interface (4096 in the code)
  PushLabels,         \* values of label_to_push
  Macs,               \* customer MAC addresses
  Free,               \* content of a slot that can be registered
  None                \* an unset port, path, multicast next hop, MAC entry

ELines   == 0 .. MAX_E_LINE_SERVICES - 1
ELans    == 0 .. MAX_E_LAN_SERVICES - 1
Nexthops == 0 .. MAX_COMMON_NEXTHOPS - 1
Vlans    == 0 .. NrVlans - 1
PortSlots  == 0 .. MAX_PORTS_IN_E_LAN_SERVICE - 1
NhlfeSlots == 0 .. MAX_NHLFE_IN_E_LAN_SERVICE - 1

Port  == [iface: Csps, vlan_tci: Vlans]
Nhlfe == [NHLFE: Nexthops, label_to_push: PushLabels]

\* is_csp_ready is port # None and is_cbp_ready is nhlfe # None.
ELine == [port: Port \cup {None}, nhlfe: Nhlfe \cup {None}, ref_cnt: Nat]

\* is_releasing is ~is_valid: a slot with both flags clear is Free.
ELan == [is_valid: BOOLEAN, ports: [PortSlots -> Port \cup {None}],
         nhlfes: [NhlfeSlots -> Nhlfe \cup {None}],
         multicast_NHLFE: Nexthops \cup {None},
         fib: [Macs -> Port \cup Nhlfe \cup {None}], ref_cnt: Nat]

ASSUME SizesAssumption ==
  /\ MAX_E_LINE_SERVICES \in Nat /\ MAX_E_LAN_SERVICES \in Nat
  /\ MAX_PORTS_IN_E_LAN_SERVICE \in Nat /\ MAX_NHLFE_IN_E_LAN_SERVICE \in Nat
  /\ MAX_COMMON_NEXTHOPS \in Nat /\ NexthopRefModulus \in Nat \ {0} /\ NrVlans \in Nat
ASSUME FreeAssumption ==
  /\ Free \notin Nat /\ Free \notin ELine /\ Free \notin ELan
  /\ None \notin Nat /\ None \notin Port /\ None \notin Nhlfe

VARIABLES
  eline,    \* e_line_base
  elan,     \* e_lan_base
  nexthop   \* ref_cnt of each registered next hop

tables == <<eline, elan, nexthop>>

TablesTypeOK ==
  /\ eline \in [ELines -> ELine \cup {Free}]
  /\ elan \in [ELans -> ELan \cup {Free}]
  /\ nexthop \in [Nexthops -> 0 .. NexthopRefModulus - 1 \cup {Free}]

TablesInit ==
  /\ eline = [s \in ELines |-> Free]
  /\ elan = [l \in ELans |-> Free]
  /\ nexthop = [h \in Nexthops |-> Free]

\* find_e_line_service and find_e_lan_service.
FindELine(s) == s \in ELines /\ eline[s] # Free
FindELan(l)  == l \in ELans /\ elan[l] # Free /\ elan[l].is_valid

IsFirst(i, S) == i \in S /\ \A j \in S : i <= j

----------------------------------------------------------------------------
(* Next hops, as the leaf uses them (module CommonNhlfe has the rest).     *)

RegisterCommonNexthop(h) ==
  /\ nexthop[h] = Free
  /\ nexthop' = [nexthop EXCEPT ![h] = 0]
  /\ UNCHANGED <<eline, elan>>

DeleteCommonNexthop(h) ==
  /\ nexthop[h] = 0
  /\ nexthop' = [nexthop EXCEPT ![h] = Free]
  /\ UNCHANGED <<eline, elan>>

\* ref_cnt++ of a uint16_t.
Referenced(table, h) == [table EXCEPT ![h] = (@ + 1) % NexthopRefModulus]

\* dereference_common_nexthop fails on an index that is not in the table.
Dereferenced(table, h) ==
  IF h \in Nexthops /\ table[h] \notin {Free, 0}
  THEN [table EXCEPT ![h] = @ - 1] ELSE table

----------------------------------------------------------------------------
(* E-LINE services.                                                        *)

RegisterELineService(s) ==
  /\ IsFirst(s, {r \in ELines : eline[r] = Free})
  /\ eline' = [eline EXCEPT ![s] = [port |-> None, nhlfe |-> None, ref_cnt |-> 0]]
  /\ UNCHANGED <<elan, nexthop>>

\* Mutant: the ref_cnt test is missing.
DeleteELineInUse(s) ==
  /\ FindELine(s)
  /\ nexthop' = IF eline[s].nhlfe = None THEN nexthop
                ELSE Dereferenced(nexthop, eline[s].nhlfe.NHLFE)
  /\ eline' = [eline EXCEPT ![s] = Free]
  /\ UNCHANGED elan

DeleteELineService(s) ==
  /\ FindELine(s)
  /\ eline[s].ref_cnt = 0
  /\ nexthop' = IF eline[s].nhlfe = None THEN nexthop
                ELSE Dereferenced(nexthop, eline[s].nhlfe.NHLFE)
  /\ eline' = [eline EXCEPT ![s] = Free]
  /\ UNCHANGED elan

\* The search for a duplicate skips the service itself.
ELinePortIsFree(s, port) ==
  FindELine(s) /\ \A r \in ELines \ {s} : FindELine(r) => eline[r].port # port

RegisterELinePort(s, port) ==
  /\ ELinePortIsFree(s, port)
  /\ eline' = [eline EXCEPT ![s].port = port, ![s].ref_cnt = @ + 1]
  /\ UNCHANGED <<elan, nexthop>>

HasELinePort(s) == FindELine(s) /\ eline[s].port # None

\* dereference_e_line_service: the count stays at zero.
Decremented(n) == IF n > 0 THEN n - 1 ELSE 0

DeleteELinePort(s) ==
  /\ HasELinePort(s)
  /\ eline' = [eline EXCEPT ![s].port = None, ![s].ref_cnt = Decremented(@)]
  /\ UNCHANGED <<elan, nexthop>>

RegisterELineNhlfe(s, nhlfe) ==
  /\ FindELine(s)
  /\ \A r \in ELines \ {s} : FindELine(r) => eline[r].nhlfe # nhlfe
  /\ nexthop[nhlfe.NHLFE] # Free
  /\ LET taken == Referenced(nexthop, nhlfe.NHLFE)
     IN  nexthop' = IF eline[s].nhlfe = None THEN taken
                    ELSE Dereferenced(taken, eline[s].nhlfe.NHLFE)
  /\ eline' = [eline EXCEPT ![s].nhlfe = nhlfe]
  /\ UNCHANGED elan

DeleteELineNhlfe(s) ==
  /\ FindELine(s) /\ eline[s].nhlfe # None
  /\ nexthop' = Dereferenced(nexthop, eline[s].nhlfe.NHLFE)
  /\ eline' = [eline EXCEPT ![s].nhlfe = None]
  /\ UNCHANGED elan

----------------------------------------------------------------------------
(* E-LAN services.                                                         *)

RegisterELanService(l) ==
  /\ IsFirst(l, {k \in ELans : elan[k] = Free})
  /\ elan' = [elan EXCEPT ![l] =
                [is_valid |-> TRUE, ports |-> [k \in PortSlots |-> None],
                 nhlfes |-> [k \in NhlfeSlots |-> None], multicast_NHLFE |-> None,
                 fib |-> [mac \in Macs |-> None], ref_cnt |-> 0]]
  /\ UNCHANGED <<eline, nexthop>>

\* Mutant: the ref_cnt test is missing.
DeleteELanInUse(l) ==
  /\ FindELan(l)
  /\ elan' = [elan EXCEPT ![l].is_valid = FALSE]
  /\ UNCHANGED <<eline, nexthop>>

\* The caller hands post_delete_e_lan_service to call_rcu.
DeleteELanService(l) ==
  /\ FindELan(l)
  /\ elan[l].ref_cnt = 0
  /\ elan' = [elan EXCEPT ![l].is_valid = FALSE]
  /\ UNCHANGED <<eline, nexthop>>

FreePortSlots(l) == {k \in PortSlots : elan[l].ports[k] = None}

ELanTakesPort(l, port) ==
  /\ FindELan(l)
  /\ \A k \in PortSlots : elan[l].ports[k] # port
  /\ FreePortSlots(l) # {}

RegisterELanPort(l, k, port) ==
  /\ ELanTakesPort(l, port)
  /\ IsFirst(k, FreePortSlots(l))
  /\ elan' = [elan EXCEPT ![l].ports[k] = port, ![l].ref_cnt = @ + 1]
  /\ UNCHANGED <<eline, nexthop>>

\* find_e_lan_port.
ELanPortSlots(l, port) ==
  IF FindELan(l) THEN {k \in PortSlots : elan[l].ports[k] = port} ELSE {}

\* find_e_lan_nhlfe.
ELanNhlfeSlots(l, nhlfe) ==
  IF FindELan(l) THEN {k \in NhlfeSlots : elan[l].nhlfes[k] = nhlfe} ELSE {}

\* delete_e_lan_port purges the MAC entries of the whole interface.
WithoutIface(fib, iface) ==
  [mac \in Macs |-> IF fib[mac] \in Port /\ fib[mac].iface = iface
                    THEN None ELSE fib[mac]]

\* delete_e_lan_nhlfe purges the MAC entries of the whole next hop.
WithoutNexthop(fib, h) ==
  [mac \in Macs |-> IF fib[mac] \in Nhlfe /\ fib[mac].NHLFE = h
                    THEN None ELSE fib[mac]]

HasELanPort(l, k) ==
  FindELan(l) /\ k \in PortSlots /\ elan[l].ports[k] # None

\* Mutant: the MAC entries of the port stay in the table.
DeleteELanPortOnly(l, k) ==
  /\ HasELanPort(l, k)
  /\ elan' = [elan EXCEPT ![l].ports[k] = None, ![l].ref_cnt = Decremented(@)]
  /\ UNCHANGED <<eline, nexthop>>

DeleteELanPort(l, k) ==
  /\ HasELanPort(l, k)
  /\ elan' = [elan EXCEPT ![l].fib = WithoutIface(@, elan[l].ports[k].iface),
                          ![l].ports[k] = None, ![l].ref_cnt = Decremented(@)]
  /\ UNCHANGED <<eline, nexthop>>

RegisterELanNhlfe(l, k, nhlfe) ==
  /\ FindELan(l)
  /\ \A j \in NhlfeSlots : elan[l].nhlfes[j] # nhlfe
  /\ IsFirst(k, {j \in NhlfeSlots : elan[l].nhlfes[j] = None})
  /\ nexthop[nhlfe.NHLFE] # Free
  /\ nexthop' = Referenced(nexthop, nhlfe.NHLFE)
  /\ elan' = [elan EXCEPT ![l].nhlfes[k] = nhlfe]
  /\ UNCHANGED eline

DeleteELanNhlfe(l, k) ==
  /\ FindELan(l) /\ elan[l].nhlfes[k] # None
  /\ LET h == elan[l].nhlfes[k].NHLFE
     IN  /\ nexthop' = Dereferenced(nexthop, h)
         /\ elan' = [elan EXCEPT ![l].fib = WithoutNexthop(@, h),
                                 ![l].nhlfes[k] = None]
  /\ UNCHANGED eline

\* register_e_lan_fwd_entry: the port or the nhlfe must be in the service.
RegisterELanFwdEntry(l, mac, entry) ==
  /\ ELanPortSlots(l, entry) \cup ELanNhlfeSlots(l, entry) # {}
  /\ elan' = [elan EXCEPT ![l].fib[mac] = entry]
  /\ UNCHANGED <<eline, nexthop>>

DeleteELanFwdEntry(l, mac) ==
  /\ FindELan(l)
  /\ elan' = [elan EXCEPT ![l].fib[mac] = None]
  /\ UNCHANGED <<eline, nexthop>>

\* The previous next hop is released before the new one is looked up, so a
\* call with a next hop that is not registered unsets the entry.
SetELanMulticast(l, h) ==
  /\ FindELan(l)
  /\ LET released == Dereferenced(nexthop, elan[l].multicast_NHLFE)
     IN  IF nexthop[h] # Free
         THEN /\ nexthop' = Referenced(released, h)
              /\ elan' = [elan EXCEPT ![l].multicast_NHLFE = h]
         ELSE /\ nexthop' = released
              /\ elan' = [elan EXCEPT ![l].multicast_NHLFE = None]
  /\ UNCHANGED eline

ResetELanMulticast(l) ==
  /\ FindELan(l)
  /\ nexthop' = Dereferenced(nexthop, elan[l].multicast_NHLFE)
  /\ elan' = [elan EXCEPT ![l].multicast_NHLFE = None]
  /\ UNCHANGED eline

----------------------------------------------------------------------------
(* post_delete_e_lan_service, in the RCU callback thread: one step for each *)
(* next hop it releases, then the slot.  A slot that was released is        *)
(* cleared here, which stands for the loop index.                           *)

Unreleased(l) == {k \in NhlfeSlots : elan[l].nhlfes[k] # None}

ReleaseMulticast(l) ==
  /\ elan[l].multicast_NHLFE # None
  /\ nexthop' = Dereferenced(nexthop, elan[l].multicast_NHLFE)
  /\ elan' = [elan EXCEPT ![l].multicast_NHLFE = None]
  /\ UNCHANGED eline

ReleaseNhlfe(l, k) ==
  /\ elan[l].multicast_NHLFE = None /\ IsFirst(k, Unreleased(l))
  /\ nexthop' = Dereferenced(nexthop, elan[l].nhlfes[k].NHLFE)
  /\ elan' = [elan EXCEPT ![l].nhlfes[k] = None]
  /\ UNCHANGED eline

ReleaseELan(l) ==
  /\ elan[l].multicast_NHLFE = None /\ Unreleased(l) = {}
  /\ elan' = [elan EXCEPT ![l] = Free]
  /\ UNCHANGED <<eline, nexthop>>
=============================================================================

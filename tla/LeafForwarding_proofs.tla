------------------------ MODULE LeafForwarding_proofs ------------------------
EXTENDS LeafForwarding, ExpressDelivery_proofs, FiniteSetTheorems,
        SequenceTheorems, TLAPS

(***************************************************************************)
(* What holds of the leaf's services, ports and labels for every value of  *)
(* the constants.                                                          *)
(*                                                                         *)
(* LeafType adds to the types that a call works on its interface alone and *)
(* that the RCU queue holds what was handed to call_rcu.  The steps are    *)
(* then seen three times, each time by what they do to one aspect of the   *)
(* tables: UseStep moves uses of next hops, TableStep what MAC entries     *)
(* lead to, ServiceMove, Gains and Loses the ports and counts of services. *)
(* Bindings is the invariant over VLANs, labels and calls under way.       *)
(***************************************************************************)

(* The entry of a service after a step, field by field; the other entries are *)
(* as before.                                                                 *)
ELineBecomes(s, port, nhlfe, n) ==
  /\ eline' \in [ELines -> ELine \cup {Free}]
  /\ \A r \in ELines \ {s} : eline'[r] = eline[r]
  /\ eline'[s] \in ELine /\ eline'[s] # Free
  /\ eline'[s].port = port /\ eline'[s].nhlfe = nhlfe /\ eline'[s].ref_cnt = n

ELanBecomes(l, valid, portsOf, nhlfes, multicast, fib, n) ==
  /\ elan' \in [ELans -> ELan \cup {Free}]
  /\ \A m \in ELans \ {l} : elan'[m] = elan[m]
  /\ elan'[l] \in ELan /\ elan'[l] # Free
  /\ elan'[l].is_valid = valid /\ elan'[l].ports = portsOf /\ elan'[l].nhlfes = nhlfes
  /\ elan'[l].multicast_NHLFE = multicast /\ elan'[l].fib = fib /\ elan'[l].ref_cnt = n

LEMMA ELinePut ==
  ASSUME TablesTypeOK, NEW s \in ELines, NEW port \in Port \cup {None},
         NEW nhlfe \in Nhlfe \cup {None}, NEW n \in Nat, NEW r,
         r = [port |-> port, nhlfe |-> nhlfe, ref_cnt |-> n],
         eline' = [eline EXCEPT ![s] = r]
  PROVE  ELineBecomes(s, port, nhlfe, n)
<1>1. r \in ELine /\ r # Free
  BY FreeAssumption DEF ELine
<1>2. r.port = port /\ r.nhlfe = nhlfe /\ r.ref_cnt = n
  OBVIOUS
<1> QED
  BY <1>1, <1>2 DEF TablesTypeOK, ELineBecomes

LEMMA ELanPut ==
  ASSUME TablesTypeOK, NEW l \in ELans, NEW valid \in BOOLEAN,
         NEW ps \in [PortSlots -> Port \cup {None}],
         NEW ns \in [NhlfeSlots -> Nhlfe \cup {None}], NEW h \in Nexthops \cup {None},
         NEW fib \in [Macs -> Port \cup Nhlfe \cup {None}], NEW n \in Nat, NEW r,
         r = [is_valid |-> valid, ports |-> ps, nhlfes |-> ns, multicast_NHLFE |-> h,
              fib |-> fib, ref_cnt |-> n],
         elan' = [elan EXCEPT ![l] = r]
  PROVE  ELanBecomes(l, valid, ps, ns, h, fib, n)
<1>1. r \in ELan /\ r # Free
  BY FreeAssumption DEF ELan
<1>2. /\ r.is_valid = valid /\ r.ports = ps /\ r.nhlfes = ns /\ r.multicast_NHLFE = h
      /\ r.fib = fib /\ r.ref_cnt = n
  OBVIOUS
<1> QED
  BY <1>1, <1>2 DEF TablesTypeOK, ELanBecomes

LEMMA RegisterELineBecomes ==
  ASSUME TablesTypeOK, NEW s \in ELines, RegisterELineService(s)
  PROVE  ELineBecomes(s, None, None, 0)
BY ELinePut DEF RegisterELineService

LEMMA NewELanBecomes ==
  ASSUME TablesTypeOK, NEW l \in ELans, RegisterELanService(l)
  PROVE  ELanBecomes(l, TRUE, [k \in PortSlots |-> None], [k \in NhlfeSlots |-> None], None,
                     [mac \in Macs |-> None], 0)
BY ELanPut DEF RegisterELanService

\* What several operators do to one field.
PutMulticast(l, h)  == elan' = [elan EXCEPT ![l].multicast_NHLFE = h]
ClearNhlfe(l, k)    == elan' = [elan EXCEPT ![l].nhlfes[k] = None]
PutELanCount(l, n)  == elan' = WithRefCnt(elan, l, n)
PutELineCount(s, n) == eline' = WithRefCnt(eline, s, n)

LEMMA ELinePortBecomes ==
  ASSUME TablesTypeOK, NEW s \in ELines, NEW port \in Port, RegisterELinePort(s, port)
  PROVE  ELineBecomes(s, port, eline[s].nhlfe, eline[s].ref_cnt + 1)
<1>1. eline[s] \in ELine /\ eline[s] # Free
  BY DEF RegisterELinePort, ELinePortIsFree, FindELine, TablesTypeOK
<1>2. PICK e : e = eline[s]
  OBVIOUS
<1>3. PICK r : r = [e EXCEPT !.port = port, !.ref_cnt = e.ref_cnt + 1]
  OBVIOUS
<1>4. eline' = [eline EXCEPT ![s] = r]
  BY <1>2, <1>3 DEF RegisterELinePort, ELinePortIsFree, TablesTypeOK
<1>5. r = [port |-> port, nhlfe |-> e.nhlfe, ref_cnt |-> e.ref_cnt + 1]
  BY <1>1, <1>2, <1>3 DEF ELine
<1>6. port \in Port \cup {None} /\ e.nhlfe \in Nhlfe \cup {None} /\ e.ref_cnt + 1 \in Nat
  BY <1>1, <1>2 DEF ELine
<1> QED
  BY <1>2, <1>4, <1>5, <1>6, ELinePut

LEMMA NoELinePortBecomes ==
  ASSUME TablesTypeOK, NEW s \in ELines, DeleteELinePort(s)
  PROVE  ELineBecomes(s, None, eline[s].nhlfe, Decremented(eline[s].ref_cnt))
<1>1. eline[s] \in ELine /\ eline[s] # Free
  BY DEF DeleteELinePort, HasELinePort, FindELine, TablesTypeOK
<1>2. PICK e : e = eline[s]
  OBVIOUS
<1>3. PICK r : r = [e EXCEPT !.port = None, !.ref_cnt = Decremented(e.ref_cnt)]
  OBVIOUS
<1>4. eline' = [eline EXCEPT ![s] = r]
  BY <1>2, <1>3 DEF DeleteELinePort, HasELinePort, TablesTypeOK
<1>5. r = [port |-> None, nhlfe |-> e.nhlfe, ref_cnt |-> Decremented(e.ref_cnt)]
  BY <1>1, <1>2, <1>3 DEF ELine
<1>6. None \in Port \cup {None} /\ e.nhlfe \in Nhlfe \cup {None} /\ Decremented(e.ref_cnt) \in Nat
  BY <1>1, <1>2 DEF ELine, Decremented
<1> QED
  BY <1>2, <1>4, <1>5, <1>6, ELinePut

LEMMA ELineNhlfeBecomes ==
  ASSUME TablesTypeOK, NEW s \in ELines, NEW nhlfe \in Nhlfe, RegisterELineNhlfe(s, nhlfe)
  PROVE  ELineBecomes(s, eline[s].port, nhlfe, eline[s].ref_cnt)
<1>1. eline[s] \in ELine /\ eline[s] # Free
  BY DEF RegisterELineNhlfe, FindELine, TablesTypeOK
<1>2. PICK e : e = eline[s]
  OBVIOUS
<1>3. PICK r : r = [e EXCEPT !.nhlfe = nhlfe]
  OBVIOUS
<1>4. eline' = [eline EXCEPT ![s] = r]
  BY <1>2, <1>3 DEF RegisterELineNhlfe, TablesTypeOK
<1>5. r = [port |-> e.port, nhlfe |-> nhlfe, ref_cnt |-> e.ref_cnt]
  BY <1>1, <1>2, <1>3 DEF ELine
<1>6. e.port \in Port \cup {None} /\ nhlfe \in Nhlfe \cup {None} /\ e.ref_cnt \in Nat
  BY <1>1, <1>2 DEF ELine
<1> QED
  BY <1>2, <1>4, <1>5, <1>6, ELinePut

LEMMA NoELineNhlfeBecomes ==
  ASSUME TablesTypeOK, NEW s \in ELines, DeleteELineNhlfe(s)
  PROVE  ELineBecomes(s, eline[s].port, None, eline[s].ref_cnt)
<1>1. eline[s] \in ELine /\ eline[s] # Free
  BY DEF DeleteELineNhlfe, FindELine, TablesTypeOK
<1>2. PICK e : e = eline[s]
  OBVIOUS
<1>3. PICK r : r = [e EXCEPT !.nhlfe = None]
  OBVIOUS
<1>4. eline' = [eline EXCEPT ![s] = r]
  BY <1>2, <1>3 DEF DeleteELineNhlfe, TablesTypeOK
<1>5. r = [port |-> e.port, nhlfe |-> None, ref_cnt |-> e.ref_cnt]
  BY <1>1, <1>2, <1>3 DEF ELine
<1>6. e.port \in Port \cup {None} /\ None \in Nhlfe \cup {None} /\ e.ref_cnt \in Nat
  BY <1>1, <1>2 DEF ELine
<1> QED
  BY <1>2, <1>4, <1>5, <1>6, ELinePut

LEMMA ELineCountBecomes ==
  ASSUME TablesTypeOK, NEW s \in ELines, NEW n \in Nat, FindELine(s), PutELineCount(s, n)
  PROVE  ELineBecomes(s, eline[s].port, eline[s].nhlfe, n)
<1>1. eline[s] \in ELine /\ eline[s] # Free
  BY DEF PutELineCount, WithRefCnt, FindELine, TablesTypeOK
<1>2. PICK e : e = eline[s]
  OBVIOUS
<1>3. PICK r : r = [e EXCEPT !.ref_cnt = n]
  OBVIOUS
<1>4. eline' = [eline EXCEPT ![s] = r]
  BY <1>2, <1>3 DEF PutELineCount, WithRefCnt, TablesTypeOK
<1>5. r = [port |-> e.port, nhlfe |-> e.nhlfe, ref_cnt |-> n]
  BY <1>1, <1>2, <1>3 DEF ELine
<1>6. e.port \in Port \cup {None} /\ e.nhlfe \in Nhlfe \cup {None} /\ n \in Nat
  BY <1>1, <1>2 DEF ELine
<1> QED
  BY <1>2, <1>4, <1>5, <1>6, ELinePut

LEMMA ReleasedELanBecomes ==
  ASSUME TablesTypeOK, NEW l \in ELans, DeleteELanService(l)
  PROVE  ELanBecomes(l, FALSE, elan[l].ports,
                     elan[l].nhlfes, elan[l].multicast_NHLFE,
                     elan[l].fib, elan[l].ref_cnt)
<1>1. elan[l] \in ELan /\ elan[l] # Free
  BY DEF DeleteELanService, FindELan, TablesTypeOK
<1>2. PICK e : e = elan[l]
  OBVIOUS
<1>3. PICK r : r = [e EXCEPT !.is_valid = FALSE]
  OBVIOUS
<1>4. elan' = [elan EXCEPT ![l] = r]
  BY <1>2, <1>3 DEF DeleteELanService, TablesTypeOK
<1>5. r = [is_valid |-> FALSE, ports |-> e.ports,
           nhlfes |-> e.nhlfes, multicast_NHLFE |-> e.multicast_NHLFE,
           fib |-> e.fib, ref_cnt |-> e.ref_cnt]
  BY <1>1, <1>2, <1>3 DEF ELan
<1>6. /\ FALSE \in BOOLEAN
      /\ e.ports \in [PortSlots -> Port \cup {None}]
      /\ e.nhlfes \in [NhlfeSlots -> Nhlfe \cup {None}]
      /\ e.multicast_NHLFE \in Nexthops \cup {None}
      /\ e.fib \in [Macs -> Port \cup Nhlfe \cup {None}]
      /\ e.ref_cnt \in Nat
  BY <1>1, <1>2 DEF ELan
<1> QED
  BY <1>2, <1>4, <1>5, <1>6, ELanPut

LEMMA ELanPortBecomes ==
  ASSUME TablesTypeOK, NEW l \in ELans, NEW k \in PortSlots, NEW port \in Port,
         RegisterELanPort(l, k, port)
  PROVE  ELanBecomes(l, elan[l].is_valid, [elan[l].ports EXCEPT ![k] = port],
                     elan[l].nhlfes, elan[l].multicast_NHLFE,
                     elan[l].fib, elan[l].ref_cnt + 1)
<1>1. elan[l] \in ELan /\ elan[l] # Free
  BY DEF RegisterELanPort, ELanTakesPort, FindELan, TablesTypeOK
<1>2. PICK e : e = elan[l]
  OBVIOUS
<1>3. PICK r : r = [e EXCEPT !.ports = [e.ports EXCEPT ![k] = port], !.ref_cnt = e.ref_cnt + 1]
  OBVIOUS
<1>4. elan' = [elan EXCEPT ![l] = r]
  BY <1>2, <1>3 DEF RegisterELanPort, ELanTakesPort, TablesTypeOK
<1>5. r = [is_valid |-> e.is_valid, ports |-> [e.ports EXCEPT ![k] = port],
           nhlfes |-> e.nhlfes, multicast_NHLFE |-> e.multicast_NHLFE,
           fib |-> e.fib, ref_cnt |-> e.ref_cnt + 1]
  BY <1>1, <1>2, <1>3 DEF ELan
<1>6. /\ e.is_valid \in BOOLEAN
      /\ [e.ports EXCEPT ![k] = port] \in [PortSlots -> Port \cup {None}]
      /\ e.nhlfes \in [NhlfeSlots -> Nhlfe \cup {None}]
      /\ e.multicast_NHLFE \in Nexthops \cup {None}
      /\ e.fib \in [Macs -> Port \cup Nhlfe \cup {None}]
      /\ e.ref_cnt + 1 \in Nat
  BY <1>1, <1>2 DEF ELan
<1> QED
  BY <1>2, <1>4, <1>5, <1>6, ELanPut

LEMMA NoELanPortBecomes ==
  ASSUME TablesTypeOK, NEW l \in ELans, NEW k \in PortSlots, DeleteELanPort(l, k)
  PROVE  ELanBecomes(l, elan[l].is_valid, [elan[l].ports EXCEPT ![k] = None],
                     elan[l].nhlfes, elan[l].multicast_NHLFE,
                     WithoutIface(elan[l].fib, elan[l].ports[k].iface), Decremented(elan[l].ref_cnt))
<1>1. elan[l] \in ELan /\ elan[l] # Free
  BY DEF DeleteELanPort, HasELanPort, FindELan, TablesTypeOK
<1>2. PICK e : e = elan[l]
  OBVIOUS
<1>3. PICK r : r = [e EXCEPT !.ports = [e.ports EXCEPT ![k] = None], !.fib = WithoutIface(e.fib, e.ports[k].iface), !.ref_cnt = Decremented(e.ref_cnt)]
  OBVIOUS
<1>4. elan' = [elan EXCEPT ![l] = r]
  BY <1>2, <1>3 DEF DeleteELanPort, HasELanPort, TablesTypeOK
<1>5. r = [is_valid |-> e.is_valid, ports |-> [e.ports EXCEPT ![k] = None],
           nhlfes |-> e.nhlfes, multicast_NHLFE |-> e.multicast_NHLFE,
           fib |-> WithoutIface(e.fib, e.ports[k].iface), ref_cnt |-> Decremented(e.ref_cnt)]
  BY <1>1, <1>2, <1>3 DEF ELan
<1>6. /\ e.is_valid \in BOOLEAN
      /\ [e.ports EXCEPT ![k] = None] \in [PortSlots -> Port \cup {None}]
      /\ e.nhlfes \in [NhlfeSlots -> Nhlfe \cup {None}]
      /\ e.multicast_NHLFE \in Nexthops \cup {None}
      /\ WithoutIface(e.fib, e.ports[k].iface) \in [Macs -> Port \cup Nhlfe \cup {None}]
      /\ Decremented(e.ref_cnt) \in Nat
  BY <1>1, <1>2 DEF ELan, Decremented, WithoutIface
<1> QED
  BY <1>2, <1>4, <1>5, <1>6, ELanPut

LEMMA ELanNhlfeBecomes ==
  ASSUME TablesTypeOK, NEW l \in ELans, NEW k \in NhlfeSlots, NEW nhlfe \in Nhlfe,
         RegisterELanNhlfe(l, k, nhlfe)
  PROVE  ELanBecomes(l, elan[l].is_valid, elan[l].ports,
                     [elan[l].nhlfes EXCEPT ![k] = nhlfe], elan[l].multicast_NHLFE,
                     elan[l].fib, elan[l].ref_cnt)
<1>1. elan[l] \in ELan /\ elan[l] # Free
  BY DEF RegisterELanNhlfe, FindELan, TablesTypeOK
<1>2. PICK e : e = elan[l]
  OBVIOUS
<1>3. PICK r : r = [e EXCEPT !.nhlfes = [e.nhlfes EXCEPT ![k] = nhlfe]]
  OBVIOUS
<1>4. elan' = [elan EXCEPT ![l] = r]
  BY <1>2, <1>3 DEF RegisterELanNhlfe, TablesTypeOK
<1>5. r = [is_valid |-> e.is_valid, ports |-> e.ports,
           nhlfes |-> [e.nhlfes EXCEPT ![k] = nhlfe], multicast_NHLFE |-> e.multicast_NHLFE,
           fib |-> e.fib, ref_cnt |-> e.ref_cnt]
  BY <1>1, <1>2, <1>3 DEF ELan
<1>6. /\ e.is_valid \in BOOLEAN
      /\ e.ports \in [PortSlots -> Port \cup {None}]
      /\ [e.nhlfes EXCEPT ![k] = nhlfe] \in [NhlfeSlots -> Nhlfe \cup {None}]
      /\ e.multicast_NHLFE \in Nexthops \cup {None}
      /\ e.fib \in [Macs -> Port \cup Nhlfe \cup {None}]
      /\ e.ref_cnt \in Nat
  BY <1>1, <1>2 DEF ELan
<1> QED
  BY <1>2, <1>4, <1>5, <1>6, ELanPut

LEMMA NoELanNhlfeBecomes ==
  ASSUME TablesTypeOK, NEW l \in ELans, NEW k \in NhlfeSlots, DeleteELanNhlfe(l, k)
  PROVE  ELanBecomes(l, elan[l].is_valid, elan[l].ports,
                     [elan[l].nhlfes EXCEPT ![k] = None], elan[l].multicast_NHLFE,
                     WithoutNexthop(elan[l].fib, elan[l].nhlfes[k].NHLFE), elan[l].ref_cnt)
<1>1. elan[l] \in ELan /\ elan[l] # Free
  BY DEF DeleteELanNhlfe, FindELan, TablesTypeOK
<1>2. PICK e : e = elan[l]
  OBVIOUS
<1>3. PICK r : r = [e EXCEPT !.nhlfes = [e.nhlfes EXCEPT ![k] = None], !.fib = WithoutNexthop(e.fib, e.nhlfes[k].NHLFE)]
  OBVIOUS
<1>4. elan' = [elan EXCEPT ![l] = r]
  BY <1>2, <1>3 DEF DeleteELanNhlfe, TablesTypeOK
<1>5. r = [is_valid |-> e.is_valid, ports |-> e.ports,
           nhlfes |-> [e.nhlfes EXCEPT ![k] = None], multicast_NHLFE |-> e.multicast_NHLFE,
           fib |-> WithoutNexthop(e.fib, e.nhlfes[k].NHLFE), ref_cnt |-> e.ref_cnt]
  BY <1>1, <1>2, <1>3 DEF ELan
<1>6. /\ e.is_valid \in BOOLEAN
      /\ e.ports \in [PortSlots -> Port \cup {None}]
      /\ [e.nhlfes EXCEPT ![k] = None] \in [NhlfeSlots -> Nhlfe \cup {None}]
      /\ e.multicast_NHLFE \in Nexthops \cup {None}
      /\ WithoutNexthop(e.fib, e.nhlfes[k].NHLFE) \in [Macs -> Port \cup Nhlfe \cup {None}]
      /\ e.ref_cnt \in Nat
  BY <1>1, <1>2 DEF ELan, WithoutNexthop
<1> QED
  BY <1>2, <1>4, <1>5, <1>6, ELanPut

LEMMA FwdEntryBecomes ==
  ASSUME TablesTypeOK, NEW l \in ELans, NEW mac \in Macs, NEW entry \in Port \cup Nhlfe,
         RegisterELanFwdEntry(l, mac, entry)
  PROVE  ELanBecomes(l, elan[l].is_valid, elan[l].ports,
                     elan[l].nhlfes, elan[l].multicast_NHLFE,
                     [elan[l].fib EXCEPT ![mac] = entry], elan[l].ref_cnt)
<1>1. elan[l] \in ELan /\ elan[l] # Free
  BY DEF RegisterELanFwdEntry, ELanPortSlots, ELanNhlfeSlots, FindELan, TablesTypeOK
<1>2. PICK e : e = elan[l]
  OBVIOUS
<1>3. PICK r : r = [e EXCEPT !.fib = [e.fib EXCEPT ![mac] = entry]]
  OBVIOUS
<1>4. elan' = [elan EXCEPT ![l] = r]
  BY <1>2, <1>3 DEF RegisterELanFwdEntry, ELanPortSlots, ELanNhlfeSlots, TablesTypeOK
<1>5. r = [is_valid |-> e.is_valid, ports |-> e.ports,
           nhlfes |-> e.nhlfes, multicast_NHLFE |-> e.multicast_NHLFE,
           fib |-> [e.fib EXCEPT ![mac] = entry], ref_cnt |-> e.ref_cnt]
  BY <1>1, <1>2, <1>3 DEF ELan
<1>6. /\ e.is_valid \in BOOLEAN
      /\ e.ports \in [PortSlots -> Port \cup {None}]
      /\ e.nhlfes \in [NhlfeSlots -> Nhlfe \cup {None}]
      /\ e.multicast_NHLFE \in Nexthops \cup {None}
      /\ [e.fib EXCEPT ![mac] = entry] \in [Macs -> Port \cup Nhlfe \cup {None}]
      /\ e.ref_cnt \in Nat
  BY <1>1, <1>2 DEF ELan
<1> QED
  BY <1>2, <1>4, <1>5, <1>6, ELanPut

LEMMA NoFwdEntryBecomes ==
  ASSUME TablesTypeOK, NEW l \in ELans, NEW mac \in Macs, DeleteELanFwdEntry(l, mac)
  PROVE  ELanBecomes(l, elan[l].is_valid, elan[l].ports,
                     elan[l].nhlfes, elan[l].multicast_NHLFE,
                     [elan[l].fib EXCEPT ![mac] = None], elan[l].ref_cnt)
<1>1. elan[l] \in ELan /\ elan[l] # Free
  BY DEF DeleteELanFwdEntry, FindELan, TablesTypeOK
<1>2. PICK e : e = elan[l]
  OBVIOUS
<1>3. PICK r : r = [e EXCEPT !.fib = [e.fib EXCEPT ![mac] = None]]
  OBVIOUS
<1>4. elan' = [elan EXCEPT ![l] = r]
  BY <1>2, <1>3 DEF DeleteELanFwdEntry, TablesTypeOK
<1>5. r = [is_valid |-> e.is_valid, ports |-> e.ports,
           nhlfes |-> e.nhlfes, multicast_NHLFE |-> e.multicast_NHLFE,
           fib |-> [e.fib EXCEPT ![mac] = None], ref_cnt |-> e.ref_cnt]
  BY <1>1, <1>2, <1>3 DEF ELan
<1>6. /\ e.is_valid \in BOOLEAN
      /\ e.ports \in [PortSlots -> Port \cup {None}]
      /\ e.nhlfes \in [NhlfeSlots -> Nhlfe \cup {None}]
      /\ e.multicast_NHLFE \in Nexthops \cup {None}
      /\ [e.fib EXCEPT ![mac] = None] \in [Macs -> Port \cup Nhlfe \cup {None}]
      /\ e.ref_cnt \in Nat
  BY <1>1, <1>2 DEF ELan
<1> QED
  BY <1>2, <1>4, <1>5, <1>6, ELanPut

LEMMA MulticastBecomes ==
  ASSUME TablesTypeOK, NEW l \in ELans, NEW h \in Nexthops \cup {None}, elan[l] # Free, PutMulticast(l, h)
  PROVE  ELanBecomes(l, elan[l].is_valid, elan[l].ports,
                     elan[l].nhlfes, h,
                     elan[l].fib, elan[l].ref_cnt)
<1>1. elan[l] \in ELan /\ elan[l] # Free
  BY DEF PutMulticast, FindELan, TablesTypeOK
<1>2. PICK e : e = elan[l]
  OBVIOUS
<1>3. PICK r : r = [e EXCEPT !.multicast_NHLFE = h]
  OBVIOUS
<1>4. elan' = [elan EXCEPT ![l] = r]
  BY <1>2, <1>3 DEF PutMulticast, TablesTypeOK
<1>5. r = [is_valid |-> e.is_valid, ports |-> e.ports,
           nhlfes |-> e.nhlfes, multicast_NHLFE |-> h,
           fib |-> e.fib, ref_cnt |-> e.ref_cnt]
  BY <1>1, <1>2, <1>3 DEF ELan
<1>6. /\ e.is_valid \in BOOLEAN
      /\ e.ports \in [PortSlots -> Port \cup {None}]
      /\ e.nhlfes \in [NhlfeSlots -> Nhlfe \cup {None}]
      /\ h \in Nexthops \cup {None}
      /\ e.fib \in [Macs -> Port \cup Nhlfe \cup {None}]
      /\ e.ref_cnt \in Nat
  BY <1>1, <1>2 DEF ELan
<1> QED
  BY <1>2, <1>4, <1>5, <1>6, ELanPut

LEMMA UnreleasedBecomes ==
  ASSUME TablesTypeOK, NEW l \in ELans, NEW k \in NhlfeSlots, elan[l] # Free, ClearNhlfe(l, k)
  PROVE  ELanBecomes(l, elan[l].is_valid, elan[l].ports,
                     [elan[l].nhlfes EXCEPT ![k] = None], elan[l].multicast_NHLFE,
                     elan[l].fib, elan[l].ref_cnt)
<1>1. elan[l] \in ELan /\ elan[l] # Free
  BY DEF ClearNhlfe, FindELan, TablesTypeOK
<1>2. PICK e : e = elan[l]
  OBVIOUS
<1>3. PICK r : r = [e EXCEPT !.nhlfes = [e.nhlfes EXCEPT ![k] = None]]
  OBVIOUS
<1>4. elan' = [elan EXCEPT ![l] = r]
  BY <1>2, <1>3 DEF ClearNhlfe, TablesTypeOK
<1>5. r = [is_valid |-> e.is_valid, ports |-> e.ports,
           nhlfes |-> [e.nhlfes EXCEPT ![k] = None], multicast_NHLFE |-> e.multicast_NHLFE,
           fib |-> e.fib, ref_cnt |-> e.ref_cnt]
  BY <1>1, <1>2, <1>3 DEF ELan
<1>6. /\ e.is_valid \in BOOLEAN
      /\ e.ports \in [PortSlots -> Port \cup {None}]
      /\ [e.nhlfes EXCEPT ![k] = None] \in [NhlfeSlots -> Nhlfe \cup {None}]
      /\ e.multicast_NHLFE \in Nexthops \cup {None}
      /\ e.fib \in [Macs -> Port \cup Nhlfe \cup {None}]
      /\ e.ref_cnt \in Nat
  BY <1>1, <1>2 DEF ELan
<1> QED
  BY <1>2, <1>4, <1>5, <1>6, ELanPut

LEMMA ELanCountBecomes ==
  ASSUME TablesTypeOK, NEW l \in ELans, NEW n \in Nat, elan[l] # Free, PutELanCount(l, n)
  PROVE  ELanBecomes(l, elan[l].is_valid, elan[l].ports,
                     elan[l].nhlfes, elan[l].multicast_NHLFE,
                     elan[l].fib, n)
<1>1. elan[l] \in ELan /\ elan[l] # Free
  BY DEF PutELanCount, WithRefCnt, FindELan, TablesTypeOK
<1>2. PICK e : e = elan[l]
  OBVIOUS
<1>3. PICK r : r = [e EXCEPT !.ref_cnt = n]
  OBVIOUS
<1>4. elan' = [elan EXCEPT ![l] = r]
  BY <1>2, <1>3 DEF PutELanCount, WithRefCnt, TablesTypeOK
<1>5. r = [is_valid |-> e.is_valid, ports |-> e.ports,
           nhlfes |-> e.nhlfes, multicast_NHLFE |-> e.multicast_NHLFE,
           fib |-> e.fib, ref_cnt |-> n]
  BY <1>1, <1>2, <1>3 DEF ELan
<1>6. /\ e.is_valid \in BOOLEAN
      /\ e.ports \in [PortSlots -> Port \cup {None}]
      /\ e.nhlfes \in [NhlfeSlots -> Nhlfe \cup {None}]
      /\ e.multicast_NHLFE \in Nexthops \cup {None}
      /\ e.fib \in [Macs -> Port \cup Nhlfe \cup {None}]
      /\ n \in Nat
  BY <1>1, <1>2 DEF ELan
<1> QED
  BY <1>2, <1>4, <1>5, <1>6, ELanPut

(***************************************************************************)
(* The references of next hops.                                            *)
(***************************************************************************)
NexthopTable == [Nexthops -> 0 .. NexthopRefModulus - 1 \cup {Free}]
Hops == Nexthops \cup {None}

LEMMA HopsAreNumbers == Nexthops \subseteq Nat /\ None \notin Nexthops
BY SizesAssumption, FreeAssumption DEF Nexthops

LEMMA ReferencedType ==
  ASSUME NEW table \in NexthopTable, NEW h \in Nexthops, table[h] # Free
  PROVE  Referenced(table, h) \in NexthopTable
BY SizesAssumption, FreeAssumption DEF Referenced, NexthopTable

LEMMA DereferencedType ==
  ASSUME NEW table \in NexthopTable, NEW h
  PROVE  /\ Dereferenced(table, h) \in NexthopTable
         /\ \A i \in Nexthops : Dereferenced(table, h)[i] = Free <=> table[i] = Free
BY SizesAssumption, FreeAssumption DEF Dereferenced, NexthopTable

\* A service gives up the next hop a and takes the next hop b, in either order.
Moved(a, b) ==
  \/ b = None /\ nexthop' = Dereferenced(nexthop, a)
  \/ /\ b # None /\ nexthop[b] # Free
     /\ \/ nexthop' = Referenced(Dereferenced(nexthop, a), b)
        \/ nexthop' = Dereferenced(Referenced(nexthop, b), a)

LEMMA MovedType ==
  ASSUME nexthop \in NexthopTable, NEW a \in Hops, NEW b \in Hops, Moved(a, b)
  PROVE  nexthop' \in NexthopTable
<1>1. CASE b = None
  BY <1>1, HopsAreNumbers, DereferencedType DEF Moved
<1>2. CASE b # None
  BY <1>2, HopsAreNumbers, ReferencedType, DereferencedType DEF Moved, Hops
<1> QED
  BY <1>1, <1>2

LEMMA ReferencedCount ==
  ASSUME NEW table \in NexthopTable, NEW h \in Nexthops, table[h] # Free,
         table[h] + 1 < NexthopRefModulus
  PROVE  /\ Referenced(table, h)[h] = table[h] + 1
         /\ \A i \in Nexthops \ {h} : Referenced(table, h)[i] = table[i]
<1>1. table[h] \in 0 .. NexthopRefModulus - 1 /\ NexthopRefModulus \in Nat \ {0}
  BY SizesAssumption DEF NexthopTable
<1>2. (table[h] + 1) % NexthopRefModulus = table[h] + 1
  BY <1>1
<1> QED
  BY <1>2 DEF Referenced, NexthopTable

LEMMA DereferencedCount ==
  ASSUME NEW table \in NexthopTable, NEW h \in Nexthops, table[h] # Free, table[h] > 0
  PROVE  /\ Dereferenced(table, h)[h] = table[h] - 1
         /\ \A i \in Nexthops \ {h} : Dereferenced(table, h)[i] = table[i]
BY FreeAssumption DEF Dereferenced, NexthopTable

LEMMA MovedCounts ==
  ASSUME nexthop \in NexthopTable, NEW a \in Hops, NEW b \in Hops, Moved(a, b),
         a # None => nexthop[a] # Free /\ nexthop[a] > 0,
         b # None => nexthop[b] + 1 < NexthopRefModulus,
         NEW h \in Nexthops
  PROVE  /\ nexthop'[h] = Free <=> nexthop[h] = Free
         /\ nexthop[h] # Free =>
              nexthop'[h] = nexthop[h] - (IF h = a THEN 1 ELSE 0) + (IF h = b THEN 1 ELSE 0)
<1>1. nexthop[h] # Free => nexthop[h] \in Nat
  BY SizesAssumption DEF NexthopTable
<1>2. ASSUME a = None, NEW t \in NexthopTable PROVE Dereferenced(t, a) = t
  BY <1>2, HopsAreNumbers DEF Dereferenced
<1>3. CASE b = None
  <2>1. CASE a = None
    BY <1>1, <1>2, <1>3, <2>1, HopsAreNumbers DEF Moved
  <2>2. CASE a # None
    <3>1. /\ nexthop'[a] = nexthop[a] - 1
          /\ \A i \in Nexthops \ {a} : nexthop'[i] = nexthop[i]
      BY <1>3, <2>2, DereferencedCount DEF Moved, Hops
    <3>2. nexthop[a] \in Nat \ {0}
      BY <2>2, SizesAssumption DEF NexthopTable, Hops
    <3> QED
      BY <1>1, <1>3, <2>2, <3>1, <3>2, HopsAreNumbers, FreeAssumption
  <2> QED
    BY <2>1, <2>2
<1>4. CASE b # None
  <2> DEFINE d == Dereferenced(nexthop, a)
             r == Referenced(nexthop, b)
  <2>0. b \in Nexthops /\ nexthop[b] \in Nat /\ nexthop[b] # Free
    BY <1>4, SizesAssumption DEF Moved, Hops, NexthopTable
  <2>1. nexthop' = Referenced(d, b) \/ nexthop' = Dereferenced(r, a)
    BY <1>4 DEF Moved
  <2>2. /\ r[b] = nexthop[b] + 1 /\ \A i \in Nexthops \ {b} : r[i] = nexthop[i]
        /\ r \in NexthopTable
    BY <1>4, <2>0, ReferencedCount, ReferencedType
  <2>3. CASE a = None
    BY <1>1, <1>2, <2>0, <2>1, <2>2, <2>3, HopsAreNumbers, FreeAssumption
  <2>4. CASE a # None
    <3>0. a \in Nexthops /\ nexthop[a] \in Nat \ {0} /\ nexthop[a] # Free
      BY <2>4, SizesAssumption DEF NexthopTable, Hops
    <3>1. /\ d[a] = nexthop[a] - 1 /\ \A i \in Nexthops \ {a} : d[i] = nexthop[i]
          /\ d \in NexthopTable
      BY <3>0, DereferencedCount, DereferencedType
    <3>2. CASE nexthop' = Referenced(d, b)
      <4>1. d[b] # Free /\ d[b] + 1 < NexthopRefModulus
        BY <1>4, <2>0, <3>0, <3>1, SizesAssumption, FreeAssumption
      <4>2. nexthop'[b] = d[b] + 1 /\ \A i \in Nexthops \ {b} : nexthop'[i] = d[i]
        BY <2>0, <3>1, <3>2, <4>1, ReferencedCount
      <4> HIDE DEF d, r
      <4> QED
        BY <1>1, <2>0, <3>0, <3>1, <4>2, FreeAssumption
    <3>3. CASE nexthop' = Dereferenced(r, a)
      <4>1. r[a] # Free /\ r[a] > 0
        BY <2>0, <2>2, <3>0, FreeAssumption
      <4>2. nexthop'[a] = r[a] - 1 /\ \A i \in Nexthops \ {a} : nexthop'[i] = r[i]
        BY <2>2, <3>0, <3>3, <4>1, DereferencedCount
      <4> HIDE DEF d, r
      <4> QED
        BY <1>1, <2>0, <2>2, <3>0, <4>2, FreeAssumption
    <3> QED
      BY <2>1, <3>2, <3>3
  <2> QED
    BY <2>3, <2>4
<1> QED
  BY <1>3, <1>4

(***************************************************************************)
(* The places that use next hops.                                          *)
(***************************************************************************)
ELineHop(s) ==
  IF eline[s] # Free /\ eline[s].nhlfe # None THEN eline[s].nhlfe.NHLFE ELSE None
MulticastHop(l) == IF elan[l] # Free THEN elan[l].multicast_NHLFE ELSE None
ELanHop(l, k) ==
  IF elan[l] # Free /\ elan[l].nhlfes[k] # None THEN elan[l].nhlfes[k].NHLFE ELSE None

LEMMA Places ==
  /\ \A s \in ELines : <<"e_line", s, 0>> \in UsePlaces
  /\ \A l \in ELans : <<"multicast", l, 0>> \in UsePlaces
  /\ \A l \in ELans, k \in NhlfeSlots : <<"nhlfe", l, k>> \in UsePlaces
  /\ \A u \in UsePlaces :
       \/ \E s \in ELines : u = <<"e_line", s, 0>>
       \/ \E l \in ELans : u = <<"multicast", l, 0>>
       \/ \E l \in ELans, k \in NhlfeSlots : u = <<"nhlfe", l, k>>
BY DEF UsePlaces

\* NexthopOf, table by table.
HopsAtPlaces ==
  /\ \A s : NexthopOf(<<"e_line", s, 0>>) = ELineHop(s)
  /\ \A l : NexthopOf(<<"multicast", l, 0>>) = MulticastHop(l)
  /\ \A l, k : NexthopOf(<<"nhlfe", l, k>>) = ELanHop(l, k)

LEMMA HopsAreAtPlaces == HopsAtPlaces /\ HopsAtPlaces'
<1>1. ASSUME NEW s PROVE NexthopOf(<<"e_line", s, 0>>) = ELineHop(s)
  <2> DEFINE u == <<"e_line", s, 0>>
  <2>1. u[1] = "e_line" /\ u[2] = s
    OBVIOUS
  <2> HIDE DEF u
  <2> QED
    BY <2>1 DEF NexthopOf, NhlfeIn, ELineHop
<1>2. ASSUME NEW l PROVE NexthopOf(<<"multicast", l, 0>>) = MulticastHop(l)
  <2> DEFINE u == <<"multicast", l, 0>>
  <2>1. u[1] = "multicast" /\ u[2] = l
    OBVIOUS
  <2> HIDE DEF u
  <2> QED
    BY <2>1 DEF NexthopOf, NhlfeIn, MulticastHop
<1>3. ASSUME NEW l, NEW k PROVE NexthopOf(<<"nhlfe", l, k>>) = ELanHop(l, k)
  <2> DEFINE u == <<"nhlfe", l, k>>
  <2>1. u[1] = "nhlfe" /\ u[2] = l /\ u[3] = k
    OBVIOUS
  <2> HIDE DEF u
  <2> QED
    BY <2>1 DEF NexthopOf, NhlfeIn, ELanHop
<1>4. HopsAtPlaces
  BY <1>1, <1>2, <1>3 DEF HopsAtPlaces
<1> QED
  BY <1>4, PTL

UsesAreHops == \A u \in UsePlaces : NexthopOf(u) \in Hops

LEMMA HopsAreHops == TablesTypeOK => UsesAreHops
<1> SUFFICES ASSUME TablesTypeOK PROVE UsesAreHops
  OBVIOUS
<1>1. \A s \in ELines : ELineHop(s) \in Hops
  BY DEF TablesTypeOK, ELine, Nhlfe, ELineHop, Hops
<1>2. \A l \in ELans : MulticastHop(l) \in Hops
  BY DEF TablesTypeOK, ELan, MulticastHop, Hops
<1>3. \A l \in ELans, k \in NhlfeSlots : ELanHop(l, k) \in Hops
  BY DEF TablesTypeOK, ELan, Nhlfe, ELanHop, Hops
<1> QED
  BY <1>1, <1>2, <1>3, Places, HopsAreAtPlaces DEF HopsAtPlaces, UsesAreHops

\* The use at one place changes, and the reference counts follow it.
UseMoves(u) ==
  /\ \A v \in UsePlaces \ {u} : NexthopOf(v)' = NexthopOf(v)
  /\ Moved(NexthopOf(u), NexthopOf(u)')

SameUses == \A u \in UsePlaces : NexthopOf(u)' = NexthopOf(u)

\* What a step does to the next hops and their uses.
UseStep ==
  \/ SameUses /\ nexthop' = nexthop
  \/ SameUses /\ \E h \in Nexthops : RegisterCommonNexthop(h) \/ DeleteCommonNexthop(h)
  \/ \E u \in UsePlaces : UseMoves(u)

LEMMA PlacesAreFinite == IsFiniteSet(UsePlaces)
<1>1. IsFiniteSet(ELines) /\ IsFiniteSet(ELans) /\ IsFiniteSet(NhlfeSlots)
  <2>1. ASSUME NEW n \in Nat PROVE IsFiniteSet(0 .. n - 1)
    <3>1. n - 1 \in Int /\ 0 \in Int
      OBVIOUS
    <3> QED
      BY <3>1, FS_Interval
  <2> QED
    BY <2>1, SizesAssumption DEF ELines, ELans, NhlfeSlots
<1>2. \A x : IsFiniteSet({x})
  BY FS_Singleton
<1>3. /\ IsFiniteSet({"e_line"} \X ELines \X {0}) /\ IsFiniteSet({"multicast"} \X ELans \X {0})
      /\ IsFiniteSet({"nhlfe"} \X ELans \X NhlfeSlots)
  <2>1. ASSUME NEW x, NEW S, NEW T, IsFiniteSet(S), IsFiniteSet(T)
        PROVE  IsFiniteSet({x} \X S \X T)
    <3>1. IsFiniteSet(S \X T)
      BY <2>1, FS_Product
    <3> DEFINE f == [p \in S \X T |-> <<x, p[1], p[2]>>]
    <3>2. f \in Surjection(S \X T, {x} \X S \X T)
      <4>1. \A y \in {x} \X S \X T : \E p \in S \X T : f[p] = y
        <5> SUFFICES ASSUME NEW y \in {x} \X S \X T
                     PROVE  \E p \in S \X T : f[p] = y
          OBVIOUS
        <5>1. <<y[2], y[3]>> \in S \X T /\ f[<<y[2], y[3]>>] = y
          OBVIOUS
        <5> QED
          BY <5>1
      <4>2. f \in [S \X T -> {x} \X S \X T]
        OBVIOUS
      <4> QED
        BY <4>1, <4>2 DEF Surjection
    <3> QED
      BY <3>1, <3>2, FS_Surjection
  <2> QED
    BY <1>1, <1>2, <2>1
<1> QED
  BY <1>3, FS_Union DEF UsePlaces

LEMMA UsersAreFinite ==
  ASSUME NEW S, S \subseteq UsePlaces
  PROVE  IsFiniteSet(S) /\ Cardinality(S) \in Nat
BY PlacesAreFinite, FS_Subset, FS_CardinalityType

\* Fewer than 2^16 - 1 places use a next hop.
NoOverflow == \A h \in Nexthops : Cardinality(Users(h)) + 1 < NexthopRefModulus

LEMMA SameUsesKeepCounts ==
  ASSUME NexthopAccounting, SameUses, nexthop' = nexthop
  PROVE  NexthopAccounting'
<1>1. \A h : Users(h)' = Users(h)
  BY DEF SameUses, Users
<1> QED
  BY <1>1 DEF NexthopAccounting

LEMMA NexthopCallsKeepCounts ==
  ASSUME NexthopAccounting, nexthop \in NexthopTable, SameUses, NEW h \in Nexthops,
         RegisterCommonNexthop(h) \/ DeleteCommonNexthop(h)
  PROVE  NexthopAccounting'
<1>1. \A g : Users(g)' = Users(g)
  BY DEF SameUses, Users
<1>2. \A g \in Nexthops : IsFiniteSet(Users(g))
  BY UsersAreFinite DEF Users
<1>3. \/ nexthop[h] = Free /\ nexthop' = [nexthop EXCEPT ![h] = 0]
      \/ nexthop[h] = 0 /\ nexthop' = [nexthop EXCEPT ![h] = Free]
  BY DEF RegisterCommonNexthop, DeleteCommonNexthop
<1>4. \A g \in Nexthops : g # h => nexthop'[g] = nexthop[g]
  BY <1>3 DEF NexthopTable
<1>5. IF nexthop'[h] = Free THEN Users(h) = {} ELSE nexthop'[h] = Cardinality(Users(h))
  <2>1. CASE nexthop[h] = Free /\ nexthop'[h] = 0
    BY <2>1, FS_EmptySet, FreeAssumption DEF NexthopAccounting
  <2>2. CASE nexthop[h] = 0 /\ nexthop'[h] = Free
    <3>1. Cardinality(Users(h)) = 0
      BY <2>2, FreeAssumption DEF NexthopAccounting
    <3> QED
      BY <1>2, <2>2, <3>1, FS_EmptySet
  <2> QED
    BY <1>3, <2>1, <2>2 DEF NexthopTable
<1> QED
  BY <1>1, <1>4, <1>5 DEF NexthopAccounting

LEMMA UseMovesKeepCounts ==
  ASSUME NexthopAccounting, NoOverflow, TablesTypeOK, TablesTypeOK',
         NEW u \in UsePlaces, UseMoves(u)
  PROVE  NexthopAccounting'
<1>1. PICK a, b : a = NexthopOf(u) /\ b = NexthopOf(u)'
  OBVIOUS
<1>2. a \in Hops /\ b \in Hops /\ Moved(a, b) /\ nexthop \in NexthopTable
  <2>1. a \in Hops
    BY <1>1, HopsAreHops DEF UsesAreHops
  <2>2. TablesTypeOK' => UsesAreHops'
    BY HopsAreHops, PTL
  <2>3. b \in Hops
    BY <1>1, <2>2 DEF UsesAreHops
  <2> QED
    BY <1>1, <2>1, <2>3 DEF UseMoves, TablesTypeOK, NexthopTable
<1>3. ASSUME NEW h \in Nexthops
      PROVE  IF nexthop'[h] = Free THEN Users(h)' = {}
             ELSE nexthop'[h] = Cardinality(Users(h)')
  <2>1. PICK S, T : S = Users(h) /\ T = Users(h)'
    OBVIOUS
  <2>2. /\ \A v \in UsePlaces \ {u} : v \in S <=> v \in T
        /\ u \in S <=> h = a
        /\ u \in T <=> h = b
        /\ S \subseteq UsePlaces /\ T \subseteq UsePlaces
    BY <1>1, <2>1 DEF Users, UseMoves
  <2>3. /\ IsFiniteSet(S) /\ IsFiniteSet(T) /\ IsFiniteSet(S \ {u})
        /\ Cardinality(S) \in Nat /\ Cardinality(T) \in Nat /\ Cardinality(S \ {u}) \in Nat
    BY <2>2, UsersAreFinite
  <2>4. Cardinality(S) = Cardinality(S \ {u}) + (IF h = a THEN 1 ELSE 0)
    <3>1. CASE h = a
      BY <2>2, <2>3, <3>1, FS_RemoveElement
    <3>2. CASE h # a
      <4>1. S \ {u} = S
        BY <2>2, <3>2
      <4> QED
        BY <2>3, <3>2, <4>1
    <3> QED
      BY <3>1, <3>2
  <2>5. Cardinality(T) = Cardinality(S \ {u}) + (IF h = b THEN 1 ELSE 0)
    <3>1. T \ {u} = S \ {u}
      BY <2>2
    <3>2. CASE h = b
      <4>1. u \in T
        BY <2>2, <3>2
      <4>2. Cardinality(T \ {u}) = Cardinality(T) - 1
        BY <2>3, <4>1, FS_RemoveElement
      <4> QED
        BY <2>3, <3>1, <3>2, <4>2
    <3>3. CASE h # b
      <4>1. T \ {u} = T
        BY <2>2, <3>3
      <4> QED
        BY <2>3, <3>1, <3>3, <4>1
    <3> QED
      BY <3>2, <3>3
  <2>6. IF nexthop[h] = Free THEN S = {} ELSE nexthop[h] = Cardinality(S)
    BY <2>1 DEF NexthopAccounting
  <2>7. a # None => nexthop[a] # Free /\ nexthop[a] > 0
    <3> SUFFICES ASSUME a # None PROVE nexthop[a] # Free /\ nexthop[a] > 0
      OBVIOUS
    <3>1. a \in Nexthops /\ u \in Users(a)
      BY <1>1, <1>2 DEF Hops, Users
    <3>2. nexthop[a] # Free /\ nexthop[a] = Cardinality(Users(a))
      BY <3>1 DEF NexthopAccounting
    <3>3. IsFiniteSet(Users(a)) /\ Cardinality(Users(a)) \in Nat
      BY UsersAreFinite DEF Users
    <3>4. Cardinality(Users(a)) # 0
      BY <3>1, <3>3, FS_EmptySet
    <3> QED
      BY <3>2, <3>3, <3>4
  <2>8. b # None => nexthop[b] + 1 < NexthopRefModulus
    <3> SUFFICES ASSUME b # None PROVE nexthop[b] + 1 < NexthopRefModulus
      OBVIOUS
    <3>1. b \in Nexthops /\ nexthop[b] # Free
      BY <1>2 DEF Hops, Moved
    <3> QED
      BY <3>1 DEF NexthopAccounting, NoOverflow
  <2>9. /\ nexthop'[h] = Free <=> nexthop[h] = Free
        /\ nexthop[h] # Free =>
             nexthop'[h] = nexthop[h] - (IF h = a THEN 1 ELSE 0) + (IF h = b THEN 1 ELSE 0)
    BY <1>2, <2>7, <2>8, MovedCounts
  <2>10. CASE nexthop[h] = Free
    <3>1. h # b /\ h # a
      BY <1>2, <2>2, <2>6, <2>7, <2>10, HopsAreNumbers DEF Moved
    <3>2. T = {}
      BY <2>2, <2>6, <2>10, <3>1
    <3> QED
      BY <2>1, <2>9, <2>10, <3>2
  <2>11. CASE nexthop[h] # Free
    <3>1. nexthop'[h] = Cardinality(T)
      BY <2>3, <2>4, <2>5, <2>6, <2>9, <2>11
    <3> QED
      BY <2>1, <2>9, <2>11, <3>1
  <2> QED
    BY <2>10, <2>11
<1> QED
  BY <1>3 DEF NexthopAccounting

LEMMA UseStepKeepsCounts ==
  ASSUME NexthopAccounting, NoOverflow, TablesTypeOK, TablesTypeOK', UseStep
  PROVE  NexthopAccounting'
<1>1. nexthop \in NexthopTable
  BY DEF TablesTypeOK, NexthopTable
<1> QED
  BY <1>1, SameUsesKeepCounts, NexthopCallsKeepCounts, UseMovesKeepCounts DEF UseStep

(***************************************************************************)
(* What the functions of leaf-e-service.c do to the tables.                *)
(***************************************************************************)
LEMMA ELineUse ==
  ASSUME NEW s \in ELines, elan' = elan, \A r \in ELines \ {s} : eline'[r] = eline[r]
  PROVE  /\ \A v \in UsePlaces \ {<<"e_line", s, 0>>} : NexthopOf(v)' = NexthopOf(v)
         /\ Moved(ELineHop(s), ELineHop(s)') => \E u \in UsePlaces : UseMoves(u)
         /\ ELineHop(s)' = ELineHop(s) => SameUses
<1>1. /\ \A r \in ELines \ {s} : ELineHop(r)' = ELineHop(r)
      /\ \A l \in ELans : MulticastHop(l)' = MulticastHop(l)
      /\ \A l \in ELans, k \in NhlfeSlots : ELanHop(l, k)' = ELanHop(l, k)
  BY DEF ELineHop, MulticastHop, ELanHop
<1> DEFINE u == <<"e_line", s, 0>>
<1>2. \A v \in UsePlaces \ {u} : NexthopOf(v)' = NexthopOf(v)
  BY <1>1, Places, HopsAreAtPlaces DEF HopsAtPlaces
<1>3. u \in UsePlaces /\ NexthopOf(u) = ELineHop(s) /\ NexthopOf(u)' = ELineHop(s)'
  BY Places, HopsAreAtPlaces DEF HopsAtPlaces
<1> HIDE DEF u
<1>4. Moved(ELineHop(s), ELineHop(s)') => UseMoves(u)
  BY <1>2, <1>3 DEF UseMoves
<1>5. ELineHop(s)' = ELineHop(s) => SameUses
  BY <1>2, <1>3 DEF SameUses
<1> QED
  BY <1>2, <1>3, <1>4, <1>5 DEF u

LEMMA ELanUse ==
  ASSUME NEW l \in ELans, eline' = eline, \A m \in ELans \ {l} : elan'[m] = elan[m]
  PROVE  /\ (\A k \in NhlfeSlots : ELanHop(l, k)' = ELanHop(l, k)) =>
              /\ Moved(MulticastHop(l), MulticastHop(l)') => \E u \in UsePlaces : UseMoves(u)
              /\ MulticastHop(l)' = MulticastHop(l) => SameUses
         /\ MulticastHop(l)' = MulticastHop(l) =>
              \A k \in NhlfeSlots :
                /\ \A j \in NhlfeSlots \ {k} : ELanHop(l, j)' = ELanHop(l, j)
                /\ Moved(ELanHop(l, k), ELanHop(l, k)')
                => \E u \in UsePlaces : UseMoves(u)
<1>1. /\ \A s \in ELines : ELineHop(s)' = ELineHop(s)
      /\ \A m \in ELans \ {l} : MulticastHop(m)' = MulticastHop(m)
      /\ \A m \in ELans \ {l}, k \in NhlfeSlots : ELanHop(m, k)' = ELanHop(m, k)
  BY DEF ELineHop, MulticastHop, ELanHop
<1>2. ASSUME \A k \in NhlfeSlots : ELanHop(l, k)' = ELanHop(l, k)
      PROVE  /\ Moved(MulticastHop(l), MulticastHop(l)') => \E u \in UsePlaces : UseMoves(u)
             /\ MulticastHop(l)' = MulticastHop(l) => SameUses
  <2> DEFINE u == <<"multicast", l, 0>>
  <2>1. \A v \in UsePlaces \ {u} : NexthopOf(v)' = NexthopOf(v)
    BY <1>1, <1>2, Places, HopsAreAtPlaces DEF HopsAtPlaces
  <2>2. u \in UsePlaces /\ NexthopOf(u) = MulticastHop(l) /\ NexthopOf(u)' = MulticastHop(l)'
    BY Places, HopsAreAtPlaces DEF HopsAtPlaces
  <2> HIDE DEF u
  <2> QED
    BY <2>1, <2>2 DEF UseMoves, SameUses
<1>3. ASSUME MulticastHop(l)' = MulticastHop(l), NEW k \in NhlfeSlots,
             \A j \in NhlfeSlots \ {k} : ELanHop(l, j)' = ELanHop(l, j),
             Moved(ELanHop(l, k), ELanHop(l, k)')
      PROVE  \E u \in UsePlaces : UseMoves(u)
  <2> DEFINE u == <<"nhlfe", l, k>>
  <2>1. \A v \in UsePlaces \ {u} : NexthopOf(v)' = NexthopOf(v)
    <3>1. ASSUME NEW m \in ELans, NEW j \in NhlfeSlots, <<"nhlfe", m, j>> # u
          PROVE  ELanHop(m, j)' = ELanHop(m, j)
      BY <1>1, <1>3, <3>1
    <3>2. ASSUME NEW m \in ELans PROVE MulticastHop(m)' = MulticastHop(m)
      BY <1>1, <1>3
    <3> QED
      BY <1>1, <3>1, <3>2, Places, HopsAreAtPlaces DEF HopsAtPlaces
  <2>2. u \in UsePlaces /\ NexthopOf(u) = ELanHop(l, k) /\ NexthopOf(u)' = ELanHop(l, k)'
    BY Places, HopsAreAtPlaces DEF HopsAtPlaces
  <2> HIDE DEF u
  <2> QED
    BY <1>3, <2>1, <2>2 DEF UseMoves
<1> QED
  BY <1>2, <1>3

LEMMA NoMove == nexthop' = nexthop => Moved(None, None)
BY HopsAreNumbers DEF Moved, Dereferenced

\* Steps of E-LINE services.
ELineStep(s) ==
  \/ RegisterELineService(s) \/ DeleteELineService(s)
  \/ (\E port \in Port : RegisterELinePort(s, port)) \/ DeleteELinePort(s)
  \/ (\E nhlfe \in Nhlfe : RegisterELineNhlfe(s, nhlfe)) \/ DeleteELineNhlfe(s)

LEMMA ELineStepUses ==
  ASSUME TablesTypeOK, NEW s \in ELines, ELineStep(s)
  PROVE  TablesTypeOK' /\ UseStep
<1>0. /\ elan' = elan /\ nexthop \in NexthopTable
      /\ elan \in [ELans -> ELan \cup {Free}] /\ eline \in [ELines -> ELine \cup {Free}]
  BY DEF ELineStep, RegisterELineService, DeleteELineService, RegisterELinePort,
         DeleteELinePort, RegisterELineNhlfe, DeleteELineNhlfe, TablesTypeOK, NexthopTable
<1>1. ASSUME NEW port, NEW nhlfe, NEW n, ELineBecomes(s, port, nhlfe, n),
             nexthop' = nexthop, ELineHop(s)' = ELineHop(s)
      PROVE  TablesTypeOK' /\ UseStep
  BY <1>0, <1>1, ELineUse DEF TablesTypeOK, ELineBecomes, UseStep, NexthopTable
<1>2. ASSUME eline' \in [ELines -> ELine \cup {Free}],
             \A r \in ELines \ {s} : eline'[r] = eline[r],
             Moved(ELineHop(s), ELineHop(s)'), ELineHop(s) \in Hops, ELineHop(s)' \in Hops
      PROVE  TablesTypeOK' /\ UseStep
  <2>1. nexthop' \in NexthopTable
    <3>1. PICK a, b : a = ELineHop(s) /\ b = ELineHop(s)'
      OBVIOUS
    <3> QED
      BY <1>0, <1>2, <3>1, MovedType
  <2>2. UseStep
    BY <1>0, <1>2, ELineUse DEF UseStep
  <2> QED
    BY <1>0, <1>2, <2>1, <2>2 DEF TablesTypeOK, NexthopTable
<1>3. ELineHop(s) \in Hops
  BY DEF TablesTypeOK, ELine, Nhlfe, ELineHop, Hops
<1>4. CASE RegisterELineService(s)
  <2>1. ELineBecomes(s, None, None, 0)
    BY <1>4, RegisterELineBecomes
  <2>2. nexthop' = nexthop /\ ELineHop(s) = None /\ ELineHop(s)' = None
    BY <1>4, <2>1 DEF RegisterELineService, ELineHop, ELineBecomes, IsFirst
  <2> QED
    BY <1>1, <2>1, <2>2
<1>5. CASE DeleteELineService(s)
  <2>1. /\ eline' = [eline EXCEPT ![s] = Free] /\ eline[s] # Free
        /\ nexthop' = IF eline[s].nhlfe = None THEN nexthop
                      ELSE Dereferenced(nexthop, eline[s].nhlfe.NHLFE)
    BY <1>5 DEF DeleteELineService, FindELine
  <2>2. ELineHop(s)' = None
    BY <1>0, <2>1 DEF ELineHop
  <2>3. Moved(ELineHop(s), None)
    BY <2>1, NoMove DEF Moved, ELineHop
  <2> QED
    BY <1>0, <1>2, <1>3, <2>1, <2>2, <2>3 DEF Hops
<1>6. ASSUME NEW port \in Port, RegisterELinePort(s, port) PROVE TablesTypeOK' /\ UseStep
  <2>1. ELineBecomes(s, port, eline[s].nhlfe, eline[s].ref_cnt + 1)
    BY <1>6, ELinePortBecomes
  <2>2. nexthop' = nexthop /\ ELineHop(s)' = ELineHop(s)
    BY <1>6, <2>1 DEF RegisterELinePort, ELinePortIsFree, FindELine, ELineHop, ELineBecomes
  <2> QED
    BY <1>1, <2>1, <2>2
<1>7. CASE DeleteELinePort(s)
  <2>1. ELineBecomes(s, None, eline[s].nhlfe, Decremented(eline[s].ref_cnt))
    BY <1>7, NoELinePortBecomes
  <2>2. nexthop' = nexthop /\ ELineHop(s)' = ELineHop(s)
    BY <1>7, <2>1 DEF DeleteELinePort, HasELinePort, FindELine, ELineHop, ELineBecomes
  <2> QED
    BY <1>1, <2>1, <2>2
<1>8. ASSUME NEW nhlfe \in Nhlfe, RegisterELineNhlfe(s, nhlfe) PROVE TablesTypeOK' /\ UseStep
  <2>1. ELineBecomes(s, eline[s].port, nhlfe, eline[s].ref_cnt)
    BY <1>8, ELineNhlfeBecomes
  <2>2. ELineHop(s)' = nhlfe.NHLFE /\ nhlfe.NHLFE \in Nexthops
    BY <2>1, FreeAssumption DEF ELineBecomes, ELineHop, Nhlfe
  <2>3. Moved(ELineHop(s), nhlfe.NHLFE)
    <3>1. PICK b : b = nhlfe.NHLFE
      OBVIOUS
    <3>2. /\ eline[s] # Free /\ nexthop[b] # Free
          /\ nexthop' = IF eline[s].nhlfe = None THEN Referenced(nexthop, b)
                        ELSE Dereferenced(Referenced(nexthop, b), eline[s].nhlfe.NHLFE)
      BY <1>8, <3>1 DEF RegisterELineNhlfe, FindELine
    <3>3. b # None /\ b \in Nexthops
      BY <2>2, <3>1, HopsAreNumbers
    <3>4. CASE eline[s].nhlfe = None
      <4>1. Dereferenced(Referenced(nexthop, b), None) = Referenced(nexthop, b)
        BY HopsAreNumbers DEF Dereferenced
      <4> QED
        BY <3>1, <3>2, <3>3, <3>4, <4>1 DEF Moved, ELineHop
    <3>5. CASE eline[s].nhlfe # None
      BY <3>1, <3>2, <3>3, <3>5 DEF Moved, ELineHop
    <3> QED
      BY <3>4, <3>5
  <2> QED
    BY <1>2, <1>3, <2>1, <2>2, <2>3 DEF ELineBecomes, Hops
<1>9. CASE DeleteELineNhlfe(s)
  <2>1. ELineBecomes(s, eline[s].port, None, eline[s].ref_cnt)
    BY <1>9, NoELineNhlfeBecomes
  <2>2. ELineHop(s)' = None
    BY <2>1 DEF ELineBecomes, ELineHop
  <2>3. Moved(ELineHop(s), None)
    BY <1>9 DEF Moved, ELineHop, DeleteELineNhlfe, FindELine
  <2> QED
    BY <1>2, <1>3, <2>1, <2>2, <2>3 DEF ELineBecomes, Hops
<1> QED
  BY <1>4, <1>5, <1>6, <1>7, <1>8, <1>9 DEF ELineStep

\* Steps of E-LAN services: those of the API, and those that
\* post_delete_e_lan_service takes for an E-LAN that was deleted.
ELanCall(l) ==
  \/ RegisterELanService(l) \/ DeleteELanService(l)
  \/ \E k \in PortSlots : DeleteELanPort(l, k) \/ \E port \in Port : RegisterELanPort(l, k, port)
  \/ \E k \in NhlfeSlots :
       DeleteELanNhlfe(l, k) \/ \E nhlfe \in Nhlfe : RegisterELanNhlfe(l, k, nhlfe)
  \/ \E mac \in Macs :
       \/ DeleteELanFwdEntry(l, mac)
       \/ \E entry \in Port \cup Nhlfe : RegisterELanFwdEntry(l, mac, entry)
  \/ \E h \in Nexthops : SetELanMulticast(l, h)
  \/ ResetELanMulticast(l)

Deleted(l) == elan[l] # Free /\ elan[l].is_valid = FALSE

ELanRelease(l) ==
  /\ Deleted(l)
  /\ ReleaseMulticast(l) \/ (\E k \in NhlfeSlots : ReleaseNhlfe(l, k)) \/ ReleaseELan(l)

ELanStep(l) == ELanCall(l) \/ ELanRelease(l)

\* The steps of an E-LAN that change none of its uses of next hops.
LEMMA ELanKeepsUses ==
  ASSUME TablesTypeOK, NEW l \in ELans, NEW valid, NEW portsOf, NEW fib, NEW n,
         ELanBecomes(l, valid, portsOf, elan[l].nhlfes, elan[l].multicast_NHLFE, fib, n),
         elan[l] # Free, UNCHANGED <<eline, nexthop>>
  PROVE  TablesTypeOK' /\ UseStep
<1>1. /\ MulticastHop(l)' = MulticastHop(l)
      /\ \A k \in NhlfeSlots : ELanHop(l, k)' = ELanHop(l, k)
  BY DEF ELanBecomes, MulticastHop, ELanHop
<1>2. SameUses
  BY <1>1, ELanUse DEF ELanBecomes
<1> QED
  BY <1>2 DEF UseStep, TablesTypeOK, ELanBecomes

\* The multicast next hop changes.
LEMMA ELanMovesMulticast ==
  ASSUME TablesTypeOK, NEW l \in ELans, NEW h \in Hops, elan[l] # Free, eline' = eline,
         PutMulticast(l, h), Moved(elan[l].multicast_NHLFE, h)
  PROVE  TablesTypeOK' /\ UseStep
<1>1. ELanBecomes(l, elan[l].is_valid, elan[l].ports, elan[l].nhlfes, h, elan[l].fib,
                  elan[l].ref_cnt)
  BY MulticastBecomes DEF Hops
<1>2. /\ MulticastHop(l) = elan[l].multicast_NHLFE /\ MulticastHop(l)' = h
      /\ \A k \in NhlfeSlots : ELanHop(l, k)' = ELanHop(l, k)
  BY <1>1 DEF ELanBecomes, MulticastHop, ELanHop
<1>3. \E u \in UsePlaces : UseMoves(u)
  BY <1>1, <1>2, ELanUse DEF ELanBecomes
<1>4. nexthop' \in NexthopTable
  <2>1. PICK a : a = elan[l].multicast_NHLFE
    OBVIOUS
  <2>2. a \in Hops /\ nexthop \in NexthopTable
    BY <2>1 DEF TablesTypeOK, ELan, Hops, NexthopTable
  <2> QED
    BY <2>1, <2>2, MovedType
<1> QED
  BY <1>1, <1>3, <1>4 DEF UseStep, TablesTypeOK, ELanBecomes, NexthopTable

\* The nhlfe in one slot changes.
LEMMA ELanMovesNhlfe ==
  ASSUME TablesTypeOK, NEW l \in ELans, NEW k \in NhlfeSlots, NEW nhlfe \in Nhlfe \cup {None},
         NEW valid, NEW portsOf, NEW fib, NEW n, elan[l] # Free, eline' = eline,
         ELanBecomes(l, valid, portsOf, [elan[l].nhlfes EXCEPT ![k] = nhlfe],
                     elan[l].multicast_NHLFE, fib, n),
         Moved(ELanHop(l, k), IF nhlfe = None THEN None ELSE nhlfe.NHLFE)
  PROVE  TablesTypeOK' /\ UseStep
<1>0. elan[l].nhlfes \in [NhlfeSlots -> Nhlfe \cup {None}]
  BY DEF TablesTypeOK, ELan
<1>1. /\ elan'[l] # Free /\ elan'[l].multicast_NHLFE = elan[l].multicast_NHLFE
      /\ elan'[l].nhlfes[k] = nhlfe
      /\ \A j \in NhlfeSlots \ {k} : elan'[l].nhlfes[j] = elan[l].nhlfes[j]
  BY <1>0 DEF ELanBecomes
<1>2. /\ MulticastHop(l)' = MulticastHop(l)
      /\ ELanHop(l, k)' = IF nhlfe = None THEN None ELSE nhlfe.NHLFE
      /\ \A j \in NhlfeSlots \ {k} : ELanHop(l, j)' = ELanHop(l, j)
  BY <1>1 DEF MulticastHop, ELanHop
<1>3. \E u \in UsePlaces : UseMoves(u)
  BY <1>2, ELanUse DEF ELanBecomes
<1>4. nexthop' \in NexthopTable
  <2>1. PICK a, b : a = ELanHop(l, k) /\ b = IF nhlfe = None THEN None ELSE nhlfe.NHLFE
    OBVIOUS
  <2>2. a \in Hops
    BY <1>0, <2>1 DEF ELanHop, Nhlfe, Hops
  <2>3. b \in Hops /\ nexthop \in NexthopTable
    BY <2>1 DEF TablesTypeOK, Nhlfe, Hops, NexthopTable
  <2> QED
    BY <2>1, <2>2, <2>3, MovedType
<1> QED
  BY <1>3, <1>4 DEF UseStep, TablesTypeOK, ELanBecomes, NexthopTable

LEMMA ELanStepUses ==
  ASSUME TablesTypeOK, NEW l \in ELans, ELanStep(l)
  PROVE  TablesTypeOK' /\ UseStep
<1>0. /\ nexthop \in NexthopTable /\ elan \in [ELans -> ELan \cup {Free}]
      /\ elan[l] # Free => elan[l] \in ELan
  BY DEF TablesTypeOK, NexthopTable
<1>1. CASE RegisterELanService(l)
  <2>1. ELanBecomes(l, TRUE, [k \in PortSlots |-> None], [k \in NhlfeSlots |-> None], None,
                    [mac \in Macs |-> None], 0)
    BY <1>1, NewELanBecomes
  <2>2. UNCHANGED <<eline, nexthop>> /\ elan[l] = Free
    BY <1>1 DEF RegisterELanService, IsFirst
  <2>3. /\ MulticastHop(l)' = MulticastHop(l)
        /\ \A k \in NhlfeSlots : ELanHop(l, k)' = ELanHop(l, k)
    BY <2>1, <2>2 DEF ELanBecomes, MulticastHop, ELanHop
  <2>4. SameUses
    BY <2>1, <2>2, <2>3, ELanUse DEF ELanBecomes
  <2> QED
    BY <2>1, <2>2, <2>4 DEF UseStep, TablesTypeOK, ELanBecomes
<1>2. CASE DeleteELanService(l)
  <2>1. elan[l] # Free /\ UNCHANGED <<eline, nexthop>>
    BY <1>2 DEF DeleteELanService, FindELan
  <2> QED
    BY <1>2, <2>1, ReleasedELanBecomes, ELanKeepsUses
<1>3. ASSUME NEW k \in PortSlots, DeleteELanPort(l, k) PROVE TablesTypeOK' /\ UseStep
  <2>1. elan[l] # Free /\ UNCHANGED <<eline, nexthop>>
    BY <1>3 DEF DeleteELanPort, HasELanPort, FindELan
  <2> QED
    BY <1>3, <2>1, NoELanPortBecomes, ELanKeepsUses
<1>4. ASSUME NEW k \in PortSlots, NEW port \in Port, RegisterELanPort(l, k, port)
      PROVE  TablesTypeOK' /\ UseStep
  <2>1. elan[l] # Free /\ UNCHANGED <<eline, nexthop>>
    BY <1>4 DEF RegisterELanPort, ELanTakesPort, FindELan
  <2> QED
    BY <1>4, <2>1, ELanPortBecomes, ELanKeepsUses
<1>5. ASSUME NEW k \in NhlfeSlots, DeleteELanNhlfe(l, k) PROVE TablesTypeOK' /\ UseStep
  <2>1. /\ elan[l] # Free /\ eline' = eline
        /\ nexthop' = Dereferenced(nexthop, elan[l].nhlfes[k].NHLFE)
        /\ elan[l].nhlfes[k] # None
    BY <1>5 DEF DeleteELanNhlfe, FindELan
  <2>2. Moved(ELanHop(l, k), None)
    BY <2>1 DEF Moved, ELanHop
  <2> QED
    BY <1>5, <2>1, <2>2, NoELanNhlfeBecomes, ELanMovesNhlfe
<1>6. ASSUME NEW k \in NhlfeSlots, ReleaseNhlfe(l, k), elan[l] # Free
      PROVE  TablesTypeOK' /\ UseStep
  <2>1. /\ eline' = eline /\ nexthop' = Dereferenced(nexthop, elan[l].nhlfes[k].NHLFE)
        /\ elan[l].nhlfes[k] # None /\ ClearNhlfe(l, k)
    BY <1>6 DEF ReleaseNhlfe, IsFirst, Unreleased, ClearNhlfe
  <2>2. Moved(ELanHop(l, k), None)
    BY <1>6, <2>1 DEF Moved, ELanHop
  <2> QED
    BY <1>6, <2>1, <2>2, UnreleasedBecomes, ELanMovesNhlfe
<1>7. ASSUME NEW k \in NhlfeSlots, NEW nhlfe \in Nhlfe, RegisterELanNhlfe(l, k, nhlfe)
      PROVE  TablesTypeOK' /\ UseStep
  <2>1. /\ elan[l] # Free /\ eline' = eline /\ nexthop[nhlfe.NHLFE] # Free
        /\ nexthop' = Referenced(nexthop, nhlfe.NHLFE) /\ elan[l].nhlfes[k] = None
    BY <1>7 DEF RegisterELanNhlfe, FindELan, IsFirst
  <2>2. nhlfe # None /\ nhlfe.NHLFE \in Nexthops
    BY FreeAssumption DEF Nhlfe
  <2>3. PICK b : b = nhlfe.NHLFE
    OBVIOUS
  <2>4. Moved(None, b)
    <3>1. Dereferenced(Referenced(nexthop, b), None) = Referenced(nexthop, b)
      BY HopsAreNumbers DEF Dereferenced
    <3> QED
      BY <2>1, <2>2, <2>3, <3>1, HopsAreNumbers DEF Moved
  <2>5. ELanHop(l, k) = None
    BY <2>1 DEF ELanHop
  <2>6. Moved(ELanHop(l, k), IF nhlfe = None THEN None ELSE nhlfe.NHLFE)
    BY <2>2, <2>3, <2>4, <2>5
  <2>7. ELanBecomes(l, elan[l].is_valid, elan[l].ports, [elan[l].nhlfes EXCEPT ![k] = nhlfe],
                    elan[l].multicast_NHLFE, elan[l].fib, elan[l].ref_cnt)
    BY <1>7, ELanNhlfeBecomes
  <2> QED
    BY <2>1, <2>6, <2>7, ELanMovesNhlfe
<1>8. ASSUME NEW mac \in Macs, DeleteELanFwdEntry(l, mac) PROVE TablesTypeOK' /\ UseStep
  <2>1. elan[l] # Free /\ UNCHANGED <<eline, nexthop>>
    BY <1>8 DEF DeleteELanFwdEntry, FindELan
  <2> QED
    BY <1>8, <2>1, NoFwdEntryBecomes, ELanKeepsUses
<1>9. ASSUME NEW mac \in Macs, NEW entry \in Port \cup Nhlfe, RegisterELanFwdEntry(l, mac, entry)
      PROVE  TablesTypeOK' /\ UseStep
  <2>1. elan[l] # Free /\ UNCHANGED <<eline, nexthop>>
    BY <1>9 DEF RegisterELanFwdEntry, ELanPortSlots, ELanNhlfeSlots, FindELan
  <2> QED
    BY <1>9, <2>1, FwdEntryBecomes, ELanKeepsUses
<1>10. ASSUME NEW h \in Nexthops, SetELanMulticast(l, h) PROVE TablesTypeOK' /\ UseStep
  <2>1. elan[l] # Free /\ eline' = eline
    BY <1>10 DEF SetELanMulticast, FindELan
  <2>2. PICK a, d : a = elan[l].multicast_NHLFE /\ d = Dereferenced(nexthop, a)
    OBVIOUS
  <2>3. IF nexthop[h] # Free
        THEN nexthop' = Referenced(d, h) /\ PutMulticast(l, h)
        ELSE nexthop' = d /\ PutMulticast(l, None)
    BY <1>10, <2>2 DEF SetELanMulticast, PutMulticast
  <2>4. CASE nexthop[h] # Free
    <3>1. Moved(a, h)
      BY <2>2, <2>3, <2>4, HopsAreNumbers DEF Moved
    <3> QED
      BY <2>1, <2>2, <2>3, <2>4, <3>1, ELanMovesMulticast DEF Hops
  <2>5. CASE nexthop[h] = Free
    <3>1. Moved(a, None)
      BY <2>2, <2>3, <2>5 DEF Moved
    <3> QED
      BY <2>1, <2>2, <2>3, <2>5, <3>1, ELanMovesMulticast DEF Hops
  <2> QED
    BY <2>4, <2>5
<1>11. CASE elan[l] # Free /\ (ResetELanMulticast(l) \/ ReleaseMulticast(l))
  <2>1. /\ elan[l] # Free /\ eline' = eline /\ PutMulticast(l, None)
        /\ nexthop' = Dereferenced(nexthop, elan[l].multicast_NHLFE)
    BY <1>11 DEF ResetELanMulticast, ReleaseMulticast, PutMulticast
  <2>2. Moved(elan[l].multicast_NHLFE, None)
    BY <2>1 DEF Moved
  <2> QED
    BY <2>1, <2>2, ELanMovesMulticast DEF Hops
<1>12. CASE elan[l] # Free /\ ReleaseELan(l)
  <2>1. /\ elan' = [elan EXCEPT ![l] = Free] /\ UNCHANGED <<eline, nexthop>>
        /\ elan[l].multicast_NHLFE = None /\ \A k \in NhlfeSlots : elan[l].nhlfes[k] = None
    BY <1>12 DEF ReleaseELan, Unreleased
  <2>2. elan'[l] = Free /\ \A m \in ELans \ {l} : elan'[m] = elan[m]
    BY <1>0, <2>1
  <2>3. /\ MulticastHop(l)' = MulticastHop(l)
        /\ \A k \in NhlfeSlots : ELanHop(l, k)' = ELanHop(l, k)
    BY <2>1, <2>2 DEF MulticastHop, ELanHop
  <2>4. SameUses
    BY <2>1, <2>2, <2>3, ELanUse
  <2> QED
    BY <1>0, <2>1, <2>4 DEF UseStep, TablesTypeOK
<1> QED
  BY <1>1, <1>2, <1>3, <1>4, <1>5, <1>6, <1>7, <1>8, <1>9, <1>10, <1>11, <1>12
     DEF ELanStep, ELanCall, ELanRelease, Deleted, ResetELanMulticast, FindELan

\* References of a service by a label FIB.
LEMMA CountStepUses ==
  ASSUME TablesTypeOK, NEW service \in Services, Reference(service) \/ Dereference(service)
  PROVE  TablesTypeOK' /\ UseStep
<1> PICK s : s = service.service_index
  OBVIOUS
<1>0. UNCHANGED tables => TablesTypeOK' /\ UseStep
  BY DEF TablesTypeOK, UseStep, SameUses, NexthopOf, NhlfeIn, tables
<1>1. CASE service.e_service = "e_line" /\ s \in ELines
  <2>1. CASE FindELine(s)
    <3>1. eline[s] \in ELine /\ eline[s] # Free /\ UNCHANGED <<elan, nexthop>>
      BY <1>1, <2>1 DEF FindELine, TablesTypeOK, Reference, Dereference
    <3>2. PICK n \in Nat : PutELineCount(s, n)
      <4>1. /\ eline[s].ref_cnt + 1 \in Nat /\ Decremented(eline[s].ref_cnt) \in Nat
        BY <3>1 DEF ELine, Decremented
      <4>2. \/ PutELineCount(s, eline[s].ref_cnt + 1)
            \/ PutELineCount(s, Decremented(eline[s].ref_cnt))
        BY <1>1, <2>1 DEF Reference, Dereference, PutELineCount
      <4> QED
        BY <4>1, <4>2
    <3>3. ELineBecomes(s, eline[s].port, eline[s].nhlfe, n)
      BY <1>1, <2>1, <3>2, ELineCountBecomes
    <3>4. ELineHop(s)' = ELineHop(s)
      BY <3>1, <3>3 DEF ELineBecomes, ELineHop
    <3>5. SameUses
      BY <1>1, <3>1, <3>3, <3>4, ELineUse DEF ELineBecomes
    <3> QED
      BY <3>1, <3>3, <3>5 DEF UseStep, TablesTypeOK, ELineBecomes
  <2>2. CASE ~FindELine(s)
    <3>1. UNCHANGED tables
      BY <1>1, <2>2 DEF Reference, Dereference, tables
    <3> QED
      BY <1>0, <3>1
  <2> QED
    BY <2>1, <2>2
<1>2. CASE service.e_service = "e_lan" /\ s \in ELans
  <2>1. CASE FindELan(s)
    <3>1. elan[s] \in ELan /\ elan[s] # Free /\ UNCHANGED <<eline, nexthop>>
      BY <1>2, <2>1 DEF FindELan, TablesTypeOK, Reference, Dereference
    <3>2. PICK n \in Nat : PutELanCount(s, n)
      <4>1. elan[s].ref_cnt + 1 \in Nat /\ Decremented(elan[s].ref_cnt) \in Nat
        BY <3>1 DEF ELan, Decremented
      <4>2. \/ PutELanCount(s, elan[s].ref_cnt + 1)
            \/ PutELanCount(s, Decremented(elan[s].ref_cnt))
        BY <1>2, <2>1 DEF Reference, Dereference, PutELanCount
      <4> QED
        BY <4>1, <4>2
    <3>3. ELanBecomes(s, elan[s].is_valid, elan[s].ports, elan[s].nhlfes,
                      elan[s].multicast_NHLFE, elan[s].fib, n)
      BY <1>2, <3>1, <3>2, ELanCountBecomes
    <3> QED
      BY <1>2, <3>1, <3>3, ELanKeepsUses
  <2>2. CASE ~FindELan(s)
    <3>1. UNCHANGED tables
      BY <1>2, <2>2 DEF Reference, Dereference, tables
    <3> QED
      BY <1>0, <3>1
  <2> QED
    BY <2>1, <2>2
<1> QED
  BY <1>1, <1>2 DEF Services

\* Everything that the calls and callbacks do to the tables, but for the release
\* of a deleted E-LAN.
CallStep ==
  \/ UNCHANGED tables
  \/ \E h \in Nexthops : RegisterCommonNexthop(h) \/ DeleteCommonNexthop(h)
  \/ \E s \in ELines : ELineStep(s)
  \/ \E l \in ELans : ELanCall(l)
  \/ \E service \in Services : Reference(service) \/ Dereference(service)

TableStep == CallStep \/ \E l \in ELans : ELanRelease(l)

LEMMA TableStepUses ==
  ASSUME TablesTypeOK, TableStep
  PROVE  TablesTypeOK' /\ UseStep
<1>1. CASE UNCHANGED tables
  BY <1>1 DEF TablesTypeOK, UseStep, SameUses, NexthopOf, NhlfeIn, tables
<1>2. ASSUME NEW h \in Nexthops, RegisterCommonNexthop(h) \/ DeleteCommonNexthop(h)
      PROVE  TablesTypeOK' /\ UseStep
  <2>1. /\ UNCHANGED <<eline, elan>>
        /\ \E x \in {0, Free} : nexthop' = [nexthop EXCEPT ![h] = x]
    BY <1>2 DEF RegisterCommonNexthop, DeleteCommonNexthop
  <2>2. 0 \in 0 .. NexthopRefModulus - 1
    BY SizesAssumption
  <2>3. TablesTypeOK'
    BY <2>1, <2>2 DEF TablesTypeOK
  <2>4. SameUses
    BY <2>1 DEF SameUses, NexthopOf, NhlfeIn
  <2> QED
    BY <1>2, <2>3, <2>4 DEF UseStep
<1> QED
  BY <1>1, <1>2, ELineStepUses, ELanStepUses, CountStepUses DEF TableStep, CallStep, ELanStep

(***************************************************************************)
(* The MAC tables of E-LANs.                                               *)
(***************************************************************************)
\* What a MAC entry of an E-LAN may lead to.
Leads(l, e) ==
  (\E k \in PortSlots : elan[l].ports[k] = e) \/ (\E k \in NhlfeSlots : elan[l].nhlfes[k] = e)

FreshMac(l) ==
  FindELan(l) => \A mac \in Macs : \A e : elan[l].fib[mac] = e /\ e # None => Leads(l, e)

LEMMA NoStaleMacIsFresh == NoStaleMac <=> \A l \in ELans : FreshMac(l)
<1>1. ASSUME NEW l \in ELans, FindELan(l), NEW e
      PROVE  Leads(l, e) <=> ELanPortSlots(l, e) \cup ELanNhlfeSlots(l, e) # {}
  BY <1>1 DEF Leads, ELanPortSlots, ELanNhlfeSlots
<1> QED
  BY <1>1 DEF NoStaleMac, FreshMac

LEMMA NoStaleMacIsFreshNext == NoStaleMac' <=> (\A l \in ELans : FreshMac(l))'
BY NoStaleMacIsFresh, PTL

LEMMA ELanStepKeepsFresh ==
  ASSUME TablesTypeOK, NEW l \in ELans, FreshMac(l), ELanStep(l)
  PROVE  FreshMac(l)'
<1>0. /\ elan \in [ELans -> ELan \cup {Free}]
      /\ elan[l] # Free =>
           /\ elan[l].ports \in [PortSlots -> Port \cup {None}]
           /\ elan[l].nhlfes \in [NhlfeSlots -> Nhlfe \cup {None}]
           /\ elan[l].fib \in [Macs -> Port \cup Nhlfe \cup {None}]
           /\ elan[l].is_valid \in BOOLEAN
  BY DEF TablesTypeOK, ELan
\* The ports, nhlfes and MAC entries stay, or the E-LAN is not valid after.
<1>1. ASSUME \/ elan'[l] = Free
             \/ elan'[l].is_valid = FALSE
             \/ /\ elan[l] # Free /\ elan'[l].is_valid = elan[l].is_valid
                /\ elan'[l].ports = elan[l].ports
                /\ elan'[l].nhlfes = elan[l].nhlfes
                /\ elan'[l].fib = elan[l].fib
      PROVE  FreshMac(l)'
  <2> SUFFICES ASSUME FindELan(l)', NEW mac \in Macs, NEW e, elan'[l].fib[mac] = e, e # None
               PROVE  Leads(l, e)'
    BY DEF FreshMac
  <2>1. /\ FindELan(l) /\ elan'[l].ports = elan[l].ports /\ elan'[l].nhlfes = elan[l].nhlfes
        /\ elan[l].fib[mac] = e
    BY <1>1 DEF FindELan
  <2>2. Leads(l, e)
    BY <2>1 DEF FreshMac
  <2> QED
    BY <2>1, <2>2 DEF Leads
<1>2. CASE RegisterELanService(l)
  <2>1. elan'[l].fib = [mac \in Macs |-> None]
    BY <1>2, NewELanBecomes DEF ELanBecomes
  <2> QED
    BY <2>1 DEF FreshMac
<1>3. CASE DeleteELanService(l)
  BY <1>1, <1>3, ReleasedELanBecomes DEF ELanBecomes
<1>4. ASSUME NEW k \in PortSlots, DeleteELanPort(l, k) PROVE FreshMac(l)'
  <2>1. elan[l] # Free /\ elan[l].ports[k] # None /\ FindELan(l)
    BY <1>4 DEF DeleteELanPort, HasELanPort, FindELan
  <2>2. PICK i : i = elan[l].ports[k].iface
    OBVIOUS
  <2>3. /\ elan'[l].ports = [elan[l].ports EXCEPT ![k] = None]
        /\ elan'[l].nhlfes = elan[l].nhlfes
        /\ elan'[l].fib = WithoutIface(elan[l].fib, i)
    BY <1>4, <2>2, NoELanPortBecomes DEF ELanBecomes
  <2>4. ASSUME NEW mac \in Macs, NEW e, elan'[l].fib[mac] = e, e # None PROVE Leads(l, e)'
    <3>2. elan[l].fib[mac] = e /\ ~(e \in Port /\ e.iface = i)
      BY <2>3, <2>4 DEF WithoutIface
    <3>3. Leads(l, e)
      BY <2>1, <2>4, <3>2 DEF FreshMac
    <3>4. elan[l].ports[k] # e
      BY <1>0, <2>1, <2>2, <3>2
    <3> QED
      BY <1>0, <2>1, <2>3, <3>3, <3>4 DEF Leads
  <2> QED
    BY <2>4 DEF FreshMac
<1>5. ASSUME NEW k \in PortSlots, NEW port \in Port, RegisterELanPort(l, k, port)
      PROVE  FreshMac(l)'
  <2>1. elan[l] # Free /\ elan[l].ports[k] = None /\ FindELan(l)
    BY <1>5 DEF RegisterELanPort, ELanTakesPort, FindELan, IsFirst, FreePortSlots
  <2>2. /\ elan'[l].ports = [elan[l].ports EXCEPT ![k] = port]
        /\ elan'[l].nhlfes = elan[l].nhlfes /\ elan'[l].fib = elan[l].fib
    BY <1>5, ELanPortBecomes DEF ELanBecomes
  <2>3. \A e : e # None /\ Leads(l, e) => Leads(l, e)'
    BY <1>0, <2>1, <2>2 DEF Leads
  <2> QED
    BY <2>1, <2>2, <2>3 DEF FreshMac
<1>6. ASSUME NEW k \in NhlfeSlots, DeleteELanNhlfe(l, k) PROVE FreshMac(l)'
  <2>1. elan[l] # Free /\ elan[l].nhlfes[k] # None /\ FindELan(l)
    BY <1>6 DEF DeleteELanNhlfe, FindELan
  <2>2. PICK h : h = elan[l].nhlfes[k].NHLFE
    OBVIOUS
  <2>3. /\ elan'[l].nhlfes = [elan[l].nhlfes EXCEPT ![k] = None]
        /\ elan'[l].ports = elan[l].ports
        /\ elan'[l].fib = WithoutNexthop(elan[l].fib, h)
    BY <1>6, <2>2, NoELanNhlfeBecomes DEF ELanBecomes
  <2>4. ASSUME NEW mac \in Macs, NEW e, elan'[l].fib[mac] = e, e # None PROVE Leads(l, e)'
    <3>2. elan[l].fib[mac] = e /\ ~(e \in Nhlfe /\ e.NHLFE = h)
      BY <2>3, <2>4 DEF WithoutNexthop
    <3>3. Leads(l, e)
      BY <2>1, <2>4, <3>2 DEF FreshMac
    <3>4. elan[l].nhlfes[k] # e
      BY <1>0, <2>1, <2>2, <3>2
    <3> QED
      BY <1>0, <2>1, <2>3, <3>3, <3>4 DEF Leads
  <2> QED
    BY <2>4 DEF FreshMac
<1>7. ASSUME NEW k \in NhlfeSlots, NEW nhlfe \in Nhlfe, RegisterELanNhlfe(l, k, nhlfe)
      PROVE  FreshMac(l)'
  <2>1. elan[l] # Free /\ elan[l].nhlfes[k] = None /\ FindELan(l)
    BY <1>7 DEF RegisterELanNhlfe, FindELan, IsFirst
  <2>2. /\ elan'[l].nhlfes = [elan[l].nhlfes EXCEPT ![k] = nhlfe]
        /\ elan'[l].ports = elan[l].ports /\ elan'[l].fib = elan[l].fib
    BY <1>7, ELanNhlfeBecomes DEF ELanBecomes
  <2>3. \A e : e # None /\ Leads(l, e) => Leads(l, e)'
    BY <1>0, <2>1, <2>2 DEF Leads
  <2> QED
    BY <2>1, <2>2, <2>3 DEF FreshMac
<1>8. ASSUME NEW mac \in Macs, NEW entry \in Port \cup Nhlfe \cup {None},
             entry # None => Leads(l, entry), FindELan(l),
             elan'[l].ports = elan[l].ports, elan'[l].nhlfes = elan[l].nhlfes,
             elan'[l].fib = [elan[l].fib EXCEPT ![mac] = entry]
      PROVE  FreshMac(l)'
  <2>1. elan[l] # Free
    BY <1>8 DEF FindELan
  <2>2. \A e : Leads(l, e)' <=> Leads(l, e)
    BY <1>8 DEF Leads
  <2> QED
    BY <1>0, <1>8, <2>1, <2>2 DEF FreshMac
<1>9. ASSUME NEW mac \in Macs, DeleteELanFwdEntry(l, mac) PROVE FreshMac(l)'
  BY <1>8, <1>9, NoFwdEntryBecomes DEF ELanBecomes, DeleteELanFwdEntry
<1>10. ASSUME NEW mac \in Macs, NEW entry \in Port \cup Nhlfe,
              RegisterELanFwdEntry(l, mac, entry)
       PROVE  FreshMac(l)'
  <2>1. FindELan(l) /\ Leads(l, entry)
    BY <1>10 DEF RegisterELanFwdEntry, ELanPortSlots, ELanNhlfeSlots, Leads
  <2>2. /\ elan'[l].ports = elan[l].ports /\ elan'[l].nhlfes = elan[l].nhlfes
        /\ elan'[l].fib = [elan[l].fib EXCEPT ![mac] = entry]
    BY <1>10, FwdEntryBecomes DEF ELanBecomes
  <2> QED
    BY <1>8, <2>1, <2>2
<1>11. ASSUME NEW h \in Nexthops \cup {None}, PutMulticast(l, h), elan[l] # Free
       PROVE  FreshMac(l)'
  BY <1>1, <1>11, MulticastBecomes DEF ELanBecomes
<1>12. ASSUME \/ \E h \in Nexthops : SetELanMulticast(l, h)
              \/ ResetELanMulticast(l)
              \/ elan[l] # Free /\ ReleaseMulticast(l)
       PROVE  FreshMac(l)'
  BY <1>11, <1>12
     DEF SetELanMulticast, ResetELanMulticast, ReleaseMulticast, PutMulticast, FindELan
<1>13. ASSUME NEW k \in NhlfeSlots, Deleted(l), ReleaseNhlfe(l, k) PROVE FreshMac(l)'
  <2>1. elan[l] # Free /\ elan[l].is_valid = FALSE /\ ClearNhlfe(l, k)
    BY <1>13 DEF Deleted, ReleaseNhlfe, ClearNhlfe
  <2>2. elan'[l].is_valid = FALSE
    BY <2>1, UnreleasedBecomes DEF ELanBecomes
  <2> QED
    BY <1>1, <2>2
<1>14. CASE ReleaseELan(l)
  BY <1>0, <1>1, <1>14 DEF ReleaseELan
<1> QED
  BY <1>2, <1>3, <1>4, <1>5, <1>6, <1>7, <1>9, <1>10, <1>12, <1>13, <1>14
     DEF ELanStep, ELanCall, ELanRelease, Deleted

LEMMA TableStepKeepsFresh ==
  ASSUME TablesTypeOK, NoStaleMac, TableStep
  PROVE  NoStaleMac'
<1>1. \A l \in ELans : FreshMac(l)
  BY NoStaleMacIsFresh
<1>2. ASSUME NEW l \in ELans,
             \/ elan'[l] = elan[l]
             \/ /\ elan[l] # Free
                /\ \E n \in Nat : PutELanCount(l, n)
      PROVE  FreshMac(l)'
  <2>1. CASE elan'[l] = elan[l]
    BY <1>1, <2>1 DEF FreshMac, FindELan, Leads
  <2>2. ASSUME elan[l] # Free, NEW n \in Nat, PutELanCount(l, n) PROVE FreshMac(l)'
    <3>1. /\ elan'[l].is_valid = elan[l].is_valid /\ elan'[l].ports = elan[l].ports
          /\ elan'[l].nhlfes = elan[l].nhlfes /\ elan'[l].fib = elan[l].fib
      BY <2>2, ELanCountBecomes DEF ELanBecomes
    <3> SUFFICES ASSUME FindELan(l)', NEW mac \in Macs, NEW e, elan'[l].fib[mac] = e, e # None
                 PROVE  Leads(l, e)'
      BY DEF FreshMac
    <3>2. Leads(l, e)
      BY <1>1, <2>2, <3>1 DEF FreshMac, FindELan
    <3> QED
      BY <3>1, <3>2 DEF Leads
  <2> QED
    BY <1>2, <2>1, <2>2
<1>3. ASSUME NEW m \in ELans, ELanStep(m), NEW l \in ELans PROVE FreshMac(l)'
  <2>1. CASE l = m
    BY <1>1, <1>3, <2>1, ELanStepKeepsFresh
  <2>2. CASE l # m
    <3>1. elan'[l] = elan[l]
      <4>1. elan \in [ELans -> ELan \cup {Free}]
        BY DEF TablesTypeOK
      <4> QED
        BY <1>3, <2>2, <4>1
           DEF ELanStep, ELanCall, ELanRelease, RegisterELanService, DeleteELanService, DeleteELanPort,
               RegisterELanPort, DeleteELanNhlfe, ReleaseNhlfe, RegisterELanNhlfe,
               DeleteELanFwdEntry, RegisterELanFwdEntry, SetELanMulticast,
               ResetELanMulticast, ReleaseMulticast, ReleaseELan
    <3> QED
      BY <1>2, <3>1
  <2> QED
    BY <2>1, <2>2
<1>4. ASSUME NEW service \in Services, Reference(service) \/ Dereference(service),
             NEW l \in ELans
      PROVE  FreshMac(l)'
  <2>1. CASE service.e_service = "e_line"
    BY <1>2, <1>4, <2>1 DEF Reference, Dereference
  <2>2. CASE service.e_service = "e_lan" /\ service.service_index \in ELans
    <3> PICK s : s = service.service_index
      OBVIOUS
    <3>1. \/ elan' = elan
          \/ /\ elan[s] # Free /\ s \in ELans
             /\ \/ PutELanCount(s, elan[s].ref_cnt + 1)
                \/ PutELanCount(s, Decremented(elan[s].ref_cnt))
      BY <1>4, <2>2 DEF Reference, Dereference, PutELanCount, FindELan
    <3>2. elan[s] # Free /\ s \in ELans =>
            elan[s].ref_cnt + 1 \in Nat /\ Decremented(elan[s].ref_cnt) \in Nat
      BY DEF TablesTypeOK, ELan, Decremented
    <3>3. s # l => elan'[l] = elan[l]
      BY <3>1 DEF PutELanCount, WithRefCnt, TablesTypeOK
    <3> QED
      BY <1>2, <3>1, <3>2, <3>3
  <2> QED
    BY <2>1, <2>2 DEF Services
<1>5. (\A l \in ELans : FreshMac(l))'
  <2> SUFFICES ASSUME NEW l \in ELans PROVE FreshMac(l)'
    OBVIOUS
  <2>1. CASE elan' = elan
    BY <1>2, <2>1
  <2> QED
    BY <1>3, <1>4, <2>1
       DEF TableStep, CallStep, tables, RegisterCommonNexthop, DeleteCommonNexthop, ELineStep, ELanStep,
           RegisterELineService, DeleteELineService, RegisterELinePort, DeleteELinePort,
           RegisterELineNhlfe, DeleteELineNhlfe
<1> QED
  BY <1>5, NoStaleMacIsFreshNext

(***************************************************************************)
(* Calls, interfaces and callbacks.                                        *)
(***************************************************************************)
Processes == Threads \cup {Rcu}

Call == [pc: Pc, iface: Ifaces \cup {None}, entry: Vlans \cup Labels \cup {0},
         service: Services \cup {None}, slot: PortSlots \cup {0}]

\* What a call that has begun works on.
OnVlan(c)  == c.pc \in {"release", "delete", "register"}
OnLabel(c) == c.pc \in {"check", "bind"}

Working(c) ==
  \/ /\ OnVlan(c) /\ c.iface \in Csps /\ c.entry \in Vlans
     /\ c.pc = "delete" => c.slot \in PortSlots
     /\ c.pc = "register" => c.service \in Services
  \/ OnLabel(c) /\ c.iface \in Cbps /\ c.entry \in Labels /\ c.service \in Services

\* A port that was found is one of an E-LAN, which the VLAN still leads to.
CallsInv ==
  \A a \in Processes :
    /\ call[a] = Idle \/ Working(call[a])
    /\ call[a].pc = "delete" =>
         /\ vlans[call[a].iface][call[a].entry] \in Services
         /\ vlans[call[a].iface][call[a].entry].e_service = "e_lan"

\* csp_guard and cbp_guard keep the calls apart; the callback of an interface
\* runs when no call works on it, and no call begins to after.
Exclusive ==
  \A a, c \in Processes : call[a].iface = call[c].iface /\ call[a].iface # None => a = c

\* The callbacks that wait.
InQueue(q, cb) == \E n \in 1 .. Len(q) : q[n] = cb
Distinct(q)    == \A m, n \in 1 .. Len(q) : q[m] = q[n] => m = n

ELanCallback(l)  == [func |-> "elan", of |-> l]
IfaceCallback(i) == [func |-> "iface", of |-> i]

\* A callback waits for an E-LAN that was deleted or an interface that dies.
Awaited(cb) ==
  \/ \E l \in ELans : cb = ELanCallback(l) /\ Deleted(l)
  \/ \E i \in Ifaces : cb = IfaceCallback(i) /\ state[i] = "dying"

RcuInv ==
  /\ Distinct(rcu)
  /\ \A cb : InQueue(rcu, cb) => Awaited(cb)
  /\ call[Rcu] # Idle =>
       /\ rcu # <<>> /\ Head(rcu) = IfaceCallback(call[Rcu].iface)
       /\ call[Rcu].pc \in {"release", "delete"} /\ call[Rcu].service = None

LeafType == TypeOK /\ CallsInv /\ Exclusive /\ RcuInv

LEMMA QueueAppend ==
  ASSUME NEW S, NEW q \in Seq(S), NEW x \in S
  PROVE  /\ Append(q, x) \in Seq(S) /\ Append(q, x) # <<>>
         /\ \A y : InQueue(Append(q, x), y) <=> InQueue(q, y) \/ y = x
         /\ Distinct(q) /\ ~InQueue(q, x) => Distinct(Append(q, x))
         /\ q # <<>> => Head(Append(q, x)) = Head(q)
<1> PICK r : r = Append(q, x)
  OBVIOUS
<1>1. /\ r \in Seq(S) /\ Len(r) = Len(q) + 1 /\ r[Len(q) + 1] = x
      /\ \A n \in 1 .. Len(q) : r[n] = q[n]
  BY AppendProperties
<1>2. Len(q) \in Nat /\ Len(r) \in Nat
  BY <1>1, LenProperties
<1>3. r # <<>>
  BY <1>1, <1>2
<1>4. \A y : InQueue(r, y) <=> InQueue(q, y) \/ y = x
  <2>1. ASSUME NEW y, InQueue(r, y) PROVE InQueue(q, y) \/ y = x
    <3>1. PICK n \in 1 .. Len(r) : r[n] = y
      BY <2>1 DEF InQueue
    <3>2. n \in 1 .. Len(q) \/ n = Len(q) + 1
      BY <1>1, <1>2
    <3> QED
      BY <1>1, <3>1, <3>2 DEF InQueue
  <2>2. ASSUME NEW y, InQueue(q, y) \/ y = x PROVE InQueue(r, y)
    <3>1. \A n \in 1 .. Len(q) : n \in 1 .. Len(r)
      BY <1>1, <1>2
    <3>2. Len(q) + 1 \in 1 .. Len(r)
      BY <1>1, <1>2
    <3> QED
      BY <1>1, <2>2, <3>1, <3>2 DEF InQueue
  <2> QED
    BY <2>1, <2>2
<1>5. ASSUME Distinct(q), ~InQueue(q, x) PROVE Distinct(r)
  <2> SUFFICES ASSUME NEW m \in 1 .. Len(r), NEW n \in 1 .. Len(r), r[m] = r[n]
               PROVE  m = n
    BY DEF Distinct
  <2>1. (m \in 1 .. Len(q) \/ m = Len(q) + 1) /\ (n \in 1 .. Len(q) \/ n = Len(q) + 1)
    BY <1>1, <1>2
  <2> QED
    BY <1>1, <1>5, <2>1 DEF Distinct, InQueue
<1>6. ASSUME q # <<>> PROVE Head(r) = Head(q)
  <2>1. Len(q) \in Nat \ {0}
    BY <1>2, <1>6, EmptySeq
  <2>2. 1 \in 1 .. Len(q)
    BY <2>1
  <2> QED
    BY <1>1, <1>3, <1>6, <2>2, HeadTailProperties
<1> QED
  BY <1>1, <1>3, <1>4, <1>5, <1>6

LEMMA QueueTail ==
  ASSUME NEW S, NEW q \in Seq(S), q # <<>>
  PROVE  /\ Tail(q) \in Seq(S) /\ InQueue(q, Head(q))
         /\ \A y : InQueue(Tail(q), y) => InQueue(q, y)
         /\ Distinct(q) => Distinct(Tail(q)) /\ ~InQueue(Tail(q), Head(q))
<1> PICK r : r = Tail(q)
  OBVIOUS
<1>1. /\ r \in Seq(S) /\ Len(r) = Len(q) - 1 /\ Head(q) = q[1]
      /\ \A n \in 1 .. Len(r) : r[n] = q[n + 1]
  BY HeadTailProperties
<1>2. Len(q) \in Nat \ {0} /\ Len(r) \in Nat
  BY <1>1, LenProperties, EmptySeq
<1>3. \A n \in 1 .. Len(r) : n + 1 \in 1 .. Len(q) /\ n + 1 # 1
  BY <1>1, <1>2
<1>4. 1 \in 1 .. Len(q)
  BY <1>2
<1>5. \A m, n \in 1 .. Len(r) : m + 1 = n + 1 => m = n
  BY <1>2
<1> QED
  BY <1>1, <1>3, <1>4, <1>5 DEF InQueue, Distinct

\* A deleted E-LAN stays as it is until the callback releases it.
LEMMA DeletedStays ==
  ASSUME TablesTypeOK, CallStep, NEW l \in ELans, Deleted(l)
  PROVE  Deleted(l)'
<1>1. elan' = elan => Deleted(l)'
  BY DEF Deleted
<1>2. ASSUME NEW m \in ELans, ELanCall(m) PROVE Deleted(l)'
  <2>1. m # l
    BY <1>2 DEF ELanCall, RegisterELanService, DeleteELanService, DeleteELanPort, HasELanPort,
                RegisterELanPort, ELanTakesPort, DeleteELanNhlfe, RegisterELanNhlfe,
                DeleteELanFwdEntry, RegisterELanFwdEntry, ELanPortSlots, ELanNhlfeSlots,
                SetELanMulticast, ResetELanMulticast, FindELan, Deleted, IsFirst
  <2>2. elan \in [ELans -> ELan \cup {Free}]
    BY DEF TablesTypeOK
  <2>3. elan'[l] = elan[l]
    BY <1>2, <2>1, <2>2
       DEF ELanCall, RegisterELanService, DeleteELanService, DeleteELanPort, RegisterELanPort,
           DeleteELanNhlfe, RegisterELanNhlfe, DeleteELanFwdEntry, RegisterELanFwdEntry,
           SetELanMulticast, ResetELanMulticast
  <2> QED
    BY <2>3 DEF Deleted
<1>3. ASSUME NEW service \in Services, Reference(service) \/ Dereference(service)
      PROVE  Deleted(l)'
  <2>1. elan' # elan => /\ FindELan(service.service_index)
                        /\ \E n : elan' = WithRefCnt(elan, service.service_index, n)
    BY <1>3 DEF Reference, Dereference
  <2>2. elan' # elan => elan'[l] = elan[l]
    BY <2>1 DEF FindELan, Deleted, WithRefCnt, TablesTypeOK
  <2> QED
    BY <1>1, <2>2 DEF Deleted
<1> QED
  BY <1>1, <1>2, <1>3
     DEF CallStep, tables, RegisterCommonNexthop, DeleteCommonNexthop, ELineStep,
         RegisterELineService, DeleteELineService, RegisterELinePort, DeleteELinePort,
         RegisterELineNhlfe, DeleteELineNhlfe

LEMMA TypedCalls ==
  ASSUME LeafType
  PROVE  /\ call \in [Processes -> Call] /\ Idle \in Call /\ TablesTypeOK
         /\ \A a \in Processes : Working(call[a]) => call[a].iface \in Ifaces
         /\ None \notin Ifaces /\ Idle.iface = None /\ Rcu \in Processes
         /\ ~Working(Idle)
<1>1. Idle \in Call
  BY DEF Idle, Call, Pc
<1> QED
  BY <1>1, LeafAssumption
     DEF LeafType, TypeOK, Call, Processes, Working, OnVlan, OnLabel, Ifaces, Idle

\* A process begins a call on an interface that no other works on.
LEMMA BeginKeepsCalls ==
  ASSUME LeafType, NEW a \in Processes, NEW c \in Call, Working(c), c.pc # "delete",
         call[a] = Idle, \A o \in Processes : call[o].iface # c.iface,
         call' = [call EXCEPT ![a] = c], vlans' = vlans
  PROVE  call' \in [Processes -> Call] /\ CallsInv' /\ Exclusive'
<1>1. /\ call' \in [Processes -> Call] /\ call'[a] = c
      /\ \A o \in Processes \ {a} : call'[o] = call[o]
  BY TypedCalls
<1>2. CallsInv'
  <2> SUFFICES ASSUME NEW o \in Processes
               PROVE  /\ call'[o] = Idle \/ Working(call'[o])
                      /\ call'[o].pc = "delete" =>
                           /\ vlans'[call'[o].iface][call'[o].entry] \in Services
                           /\ vlans'[call'[o].iface][call'[o].entry].e_service = "e_lan"
    BY Zenon DEF CallsInv, Working, OnVlan, OnLabel, Idle
  <2>1. CASE o = a
    BY <1>1, <2>1
  <2>2. CASE o # a
    BY <1>1, <2>2 DEF LeafType, CallsInv
  <2> QED
    BY <2>1, <2>2
<1>3. Exclusive'
  BY <1>1 DEF LeafType, Exclusive
<1> QED
  BY <1>1, <1>2, <1>3

\* A process goes on with its call, or ends it.
LEMMA GoOnKeepsCalls ==
  ASSUME LeafType, NEW a \in Processes, Working(call[a]), NEW c \in Call,
         c = Idle \/ (Working(c) /\ c.iface = call[a].iface /\ c.entry = call[a].entry),
         NEW x \in Services \cup {None},
         \/ vlans' = vlans
         \/ OnVlan(call[a]) /\ vlans' = [vlans EXCEPT ![call[a].iface][call[a].entry] = x],
         c.pc = "delete" => /\ vlans'[c.iface][c.entry] \in Services
                            /\ vlans'[c.iface][c.entry].e_service = "e_lan",
         call' = [call EXCEPT ![a] = c]
  PROVE  /\ vlans' \in [Csps -> [Vlans -> Services \cup {None}]]
         /\ call' \in [Processes -> Call] /\ CallsInv' /\ Exclusive'
<1>0. vlans \in [Csps -> [Vlans -> Services \cup {None}]]
  BY DEF LeafType, TypeOK
<1>1. /\ call' \in [Processes -> Call] /\ call'[a] = c
      /\ \A o \in Processes \ {a} : call'[o] = call[o]
  BY TypedCalls
<1>2. PICK i : i = call[a].iface
  OBVIOUS
<1>3. vlans' \in [Csps -> [Vlans -> Services \cup {None}]]
  <2>1. OnVlan(call[a]) => call[a].iface \in Csps /\ call[a].entry \in Vlans
    BY DEF Working, OnVlan, OnLabel
  <2> QED
    BY <1>0, <2>1
<1>4. \A j \in Csps \ {i} : vlans'[j] = vlans[j]
  BY <1>0, <1>2
<1>5. \A o \in Processes \ {a} : call[o] # Idle => call[o].iface # i
  BY <1>2, TypedCalls DEF LeafType, Exclusive, CallsInv
<1>6. CallsInv'
  <2> SUFFICES ASSUME NEW o \in Processes
               PROVE  /\ call'[o] = Idle \/ Working(call'[o])
                      /\ call'[o].pc = "delete" =>
                           /\ vlans'[call'[o].iface][call'[o].entry] \in Services
                           /\ vlans'[call'[o].iface][call'[o].entry].e_service = "e_lan"
    BY Zenon DEF CallsInv, Working, OnVlan, OnLabel, Idle
  <2>1. CASE o = a
    BY <1>1, <2>1
  <2>2. CASE o # a
    <3>1. call'[o] = call[o] /\ (call[o] = Idle \/ Working(call[o]))
      BY <1>1, <2>2 DEF LeafType, CallsInv
    <3>2. ASSUME call[o].pc = "delete"
          PROVE  /\ vlans'[call[o].iface][call[o].entry] \in Services
                 /\ vlans'[call[o].iface][call[o].entry].e_service = "e_lan"
      <4>1. call[o] # Idle
        BY <3>2 DEF Idle
      <4>2. call[o].iface \in Csps \ {i}
        BY <1>5, <2>2, <3>1, <3>2, <4>1 DEF Working, OnVlan, OnLabel
      <4> QED
        BY <1>4, <3>2, <4>2 DEF LeafType, CallsInv
    <3> QED
      BY <3>1, <3>2
  <2> QED
    BY <2>1, <2>2
<1>7. Exclusive'
  <2>1. c.iface = i \/ c.iface = None
    BY <1>2, TypedCalls
  <2> QED
    BY <1>1, <1>2, <2>1 DEF LeafType, Exclusive
<1> QED
  BY <1>1, <1>3, <1>6, <1>7

LEMMA UntouchedCalls ==
  ASSUME LeafType, UNCHANGED <<call, vlans>>
  PROVE  /\ vlans' \in [Csps -> [Vlans -> Services \cup {None}]]
         /\ call' \in [Processes -> Call] /\ CallsInv' /\ Exclusive'
BY TypedCalls DEF LeafType, TypeOK, CallsInv, Exclusive

\* The queue stays, and so does what it waits for.
LEMMA QueueStays ==
  ASSUME LeafType, rcu' = rcu, CallStep,
         \A i \in Ifaces : state[i] = "dying" => state'[i] = "dying",
         \/ call'[Rcu] = Idle
         \/ call'[Rcu] = call[Rcu]
         \/ /\ rcu # <<>> /\ Head(rcu) = IfaceCallback(call'[Rcu].iface)
            /\ call'[Rcu].pc \in {"release", "delete"} /\ call'[Rcu].service = None
  PROVE  RcuInv'
<1>1. \A cb : Awaited(cb) => Awaited(cb)'
  BY DeletedStays, TypedCalls DEF Awaited
<1>2. \A cb : InQueue(rcu', cb) => Awaited(cb)'
  BY <1>1 DEF LeafType, RcuInv
<1>3. Distinct(rcu')
  BY DEF LeafType, RcuInv
<1>4. call'[Rcu] # Idle =>
        /\ rcu' # <<>> /\ Head(rcu') = IfaceCallback(call'[Rcu].iface)
        /\ call'[Rcu].pc \in {"release", "delete"} /\ call'[Rcu].service = None
  BY DEF LeafType, RcuInv
<1> QED
  BY <1>2, <1>3, <1>4 DEF RcuInv, IfaceCallback

LabelTable == [Cbps -> [Labels -> LabelEntry \cup {None}]]
States == [Ifaces -> {"absent", "up", "dying"}]

LEMMA TypeOfParts ==
  ASSUME LeafType, TableStep, state' \in States, labels' \in LabelTable,
         vlans' \in [Csps -> [Vlans -> Services \cup {None}]], rcu' \in Seq(Callback),
         call' \in [Processes -> Call], CallsInv', Exclusive', RcuInv'
  PROVE  LeafType'
<1>1. TablesTypeOK'
  BY TableStepUses, TypedCalls
<1>2. TypeOK'
  BY <1>1 DEF TypeOK, States, LabelTable, Call, Processes
<1> QED
  BY <1>2 DEF LeafType

LEMMA TypedPorts ==
  LeafType => /\ state \in States /\ labels \in LabelTable /\ rcu \in Seq(Callback)
              /\ vlans \in [Csps -> [Vlans -> Services \cup {None}]]
BY DEF LeafType, TypeOK, States, LabelTable

\* The calls of one step of the service API.
LEMMA ServiceCallsKeepType ==
  ASSUME LeafType, NEW t \in Threads, ServiceStep(t) \/ ServicePortStep(t)
  PROVE  CallStep /\ LeafType'
<1>1. ASSUME ServiceStep(t) PROVE CallStep
  <2>1. ASSUME NEW s \in ELines,
               \/ RegisterELineService(s) \/ DeleteELineService(s)
               \/ (\E n \in Nhlfe : RegisterELineNhlfe(s, n)) \/ DeleteELineNhlfe(s)
        PROVE  CallStep
    <3>1. ELineStep(s)
      BY <2>1 DEF ELineStep
    <3> QED
      BY <3>1 DEF CallStep
  <2>2. ASSUME NEW l \in ELans,
               \/ RegisterELanService(l)
               \/ \E k \in NhlfeSlots, n \in Nhlfe : RegisterELanNhlfe(l, k, n)
               \/ \E k \in NhlfeSlots : DeleteELanNhlfe(l, k)
               \/ \E mac \in Macs, e \in Port \cup Nhlfe : RegisterELanFwdEntry(l, mac, e)
               \/ \E mac \in Macs : DeleteELanFwdEntry(l, mac)
               \/ \E h \in Nexthops : SetELanMulticast(l, h)
               \/ ResetELanMulticast(l)
        PROVE  CallStep
    <3>1. ELanCall(l)
      BY <2>2 DEF ELanCall
    <3> QED
      BY <3>1 DEF CallStep
  <2>3. ASSUME NEW h \in Nexthops, RegisterCommonNexthop(h) \/ DeleteCommonNexthop(h)
        PROVE  CallStep
    BY <2>3 DEF CallStep
  <2>4. CASE \E h \in Nexthops : RegisterCommonNexthop(h) \/ DeleteCommonNexthop(h)
    BY <2>3, <2>4
  <2>5. CASE \E s \in ELines :
               \/ RegisterELineService(s) \/ DeleteELineService(s)
               \/ (\E n \in Nhlfe : RegisterELineNhlfe(s, n)) \/ DeleteELineNhlfe(s)
    BY <2>1, <2>5
  <2>6. CASE \E l \in ELans :
               \/ RegisterELanService(l)
               \/ \E k \in NhlfeSlots, n \in Nhlfe : RegisterELanNhlfe(l, k, n)
               \/ \E k \in NhlfeSlots : DeleteELanNhlfe(l, k)
               \/ \E mac \in Macs, e \in Port \cup Nhlfe : RegisterELanFwdEntry(l, mac, e)
               \/ \E mac \in Macs : DeleteELanFwdEntry(l, mac)
               \/ \E h \in Nexthops : SetELanMulticast(l, h)
               \/ ResetELanMulticast(l)
    BY <2>2, <2>6
  <2> QED
    BY <1>1, <2>4, <2>5, <2>6 DEF ServiceStep
<1>2. ASSUME ServicePortStep(t) PROVE CallStep
  <2>1. ASSUME NEW s \in ELines,
               (\E p \in Port : RegisterELinePort(s, p)) \/ DeleteELinePort(s)
        PROVE  CallStep
    <3>1. ELineStep(s)
      BY <2>1 DEF ELineStep
    <3> QED
      BY <3>1 DEF CallStep
  <2>2. ASSUME NEW l \in ELans, NEW k \in PortSlots,
               (\E p \in Port : RegisterELanPort(l, k, p)) \/ DeleteELanPort(l, k)
        PROVE  CallStep
    <3>1. ELanCall(l)
      BY <2>2 DEF ELanCall
    <3> QED
      BY <3>1 DEF CallStep
  <2>3. CASE \E s \in ELines : (\E p \in Port : RegisterELinePort(s, p)) \/ DeleteELinePort(s)
    BY <2>1, <2>3
  <2>4. CASE \E l \in ELans, k \in PortSlots :
               (\E p \in Port : RegisterELanPort(l, k, p)) \/ DeleteELanPort(l, k)
    BY <2>2, <2>4
  <2> QED
    BY <1>2, <2>3, <2>4 DEF ServicePortStep
<1>3. CallStep
  BY <1>1, <1>2
<1>4. UNCHANGED ports
  BY DEF ServiceStep, ServicePortStep
<1>5. RcuInv'
  BY <1>3, <1>4, QueueStays DEF ports
<1> QED
  BY <1>3, <1>4, <1>5, UntouchedCalls, TypedPorts, TypeOfParts DEF ports, TableStep

LEMMA Callbacks ==
  /\ \A l \in ELans : ELanCallback(l) \in Callback
  /\ \A i \in Ifaces : IfaceCallback(i) \in Callback
  /\ \A l, i : ELanCallback(l) # IfaceCallback(i)
  /\ \A i, j : IfaceCallback(i) = IfaceCallback(j) => i = j
  /\ \A i, j : ELanCallback(i) = ELanCallback(j) => i = j
<1>1. \A l, i : ELanCallback(l) # IfaceCallback(i)
  <2> SUFFICES ASSUME NEW l, NEW i, ELanCallback(l) = IfaceCallback(i) PROVE FALSE
    OBVIOUS
  <2>1. ELanCallback(l).func = "elan" /\ IfaceCallback(i).func = "iface"
    BY DEF ELanCallback, IfaceCallback
  <2> QED
    BY <2>1
<1>2. \A i : IfaceCallback(i).of = i /\ ELanCallback(i).of = i
  BY DEF ELanCallback, IfaceCallback
<1> QED
  BY <1>1, <1>2 DEF Callback, ELanCallback, IfaceCallback

LEMMA AwaitedOne ==
  /\ \A l : Awaited(ELanCallback(l)) => l \in ELans /\ Deleted(l)
  /\ \A i : Awaited(IfaceCallback(i)) => i \in Ifaces /\ state[i] = "dying"
BY Callbacks DEF Awaited

LEMMA DeleteELanKeepsType ==
  ASSUME LeafType, NEW t \in Threads, NEW l \in ELans, DeleteELan(t, l)
  PROVE  CallStep /\ LeafType'
<1>1. /\ CallStep /\ UNCHANGED <<state, vlans, labels, call>>
      /\ rcu' = Append(rcu, ELanCallback(l)) /\ DeleteELanService(l)
  BY DEF DeleteELan, CallStep, ELanCall, ELanCallback
<1>2. ~InQueue(rcu, ELanCallback(l))
  BY <1>1, AwaitedOne DEF LeafType, RcuInv, DeleteELanService, FindELan, Deleted
<1>3. Deleted(l)'
  BY <1>1, ReleasedELanBecomes, TypedCalls DEF ELanBecomes, Deleted
<1>4. /\ rcu' \in Seq(Callback) /\ Distinct(rcu') /\ rcu' # <<>>
      /\ \A y : InQueue(rcu', y) <=> InQueue(rcu, y) \/ y = ELanCallback(l)
      /\ rcu # <<>> => Head(rcu') = Head(rcu)
  BY <1>1, <1>2, TypedPorts, Callbacks, QueueAppend DEF LeafType, RcuInv
<1>5. \A cb : Awaited(cb) => Awaited(cb)'
  BY <1>1, DeletedStays, TypedCalls DEF Awaited
<1>6. RcuInv'
  <2>1. \A cb : InQueue(rcu', cb) => Awaited(cb)'
    BY <1>3, <1>4, <1>5 DEF LeafType, RcuInv, Awaited, ELanCallback
  <2>2. call[Rcu] # Idle =>
          /\ rcu' # <<>> /\ Head(rcu') = IfaceCallback(call[Rcu].iface)
          /\ call[Rcu].pc \in {"release", "delete"} /\ call[Rcu].service = None
    BY <1>4 DEF LeafType, RcuInv
  <2> QED
    BY <1>1, <1>4, <2>1, <2>2 DEF RcuInv, IfaceCallback
<1> QED
  BY <1>1, <1>4, <1>6, UntouchedCalls, TypedPorts, TypeOfParts DEF TableStep

\* What keeps a thread and the callback of an interface apart.
LEMMA MayChangeAlone ==
  ASSUME LeafType, NEW t \in Threads, NEW i \in Ifaces, MayChange(t, i)
  PROVE  call[t] = Idle /\ \A o \in Processes : call[o].iface # i
<1>1. call[t] = Idle /\ state[i] = "up" /\ \A o \in Threads : call[o].iface # i
  BY DEF MayChange, Ready, Unlocked
<1>2. call[Rcu].iface # i
  <2> SUFFICES ASSUME call[Rcu].iface = i PROVE FALSE
    OBVIOUS
  <2>1. call[Rcu] # Idle
    BY TypedCalls
  <2>2. rcu # <<>> /\ Head(rcu) = IfaceCallback(i)
    BY <2>1 DEF LeafType, RcuInv
  <2>3. InQueue(rcu, IfaceCallback(i))
    BY <2>2, TypedPorts, QueueTail
  <2> QED
    BY <1>1, <2>3, AwaitedOne DEF LeafType, RcuInv
<1> QED
  BY <1>1, <1>2 DEF Processes

LEMMA NewCalls ==
  ASSUME NEW i, NEW v, NEW service \in Services \cup {None}, NEW c
  PROVE  /\ i \in Csps /\ v \in Vlans
              /\ c = [pc |-> "release", iface |-> i, entry |-> v, service |-> service, slot |-> 0]
              => c \in Call /\ Working(c) /\ c.pc = "release" /\ c.iface = i /\ c.entry = v
                   /\ c.service = service
         /\ i \in Cbps /\ v \in Labels /\ service \in Services
              /\ c = [pc |-> "check", iface |-> i, entry |-> v, service |-> service, slot |-> 0]
              => c \in Call /\ Working(c) /\ c.pc = "check" /\ c.iface = i /\ c.entry = v
                   /\ c.service = service
BY DEF Call, Pc, Working, OnVlan, OnLabel, Ifaces

LEMMA CspCallsKeepType ==
  ASSUME LeafType, NEW t \in Threads, NEW i \in Csps, NEW v \in Vlans,
         CspWithdrawPort(t, i, v) \/ \E service \in Services : CspSetupPort(t, i, v, service)
  PROVE  CallStep /\ LeafType'
<1>1. PICK service \in Services \cup {None} :
        /\ MayChange(t, i) /\ UNCHANGED <<tables, state, vlans, labels, rcu>>
        /\ call' = [call EXCEPT ![t] = [pc |-> "release", iface |-> i, entry |-> v,
                                        service |-> service, slot |-> 0]]
  BY DEF CspWithdrawPort, CspSetupPort
<1>2. PICK c : c = [pc |-> "release", iface |-> i, entry |-> v, service |-> service, slot |-> 0]
  OBVIOUS
<1>3. c \in Call /\ Working(c) /\ c.pc = "release" /\ c.iface = i
  BY <1>2, NewCalls
<1>4. call' = [call EXCEPT ![t] = c] /\ t \in Processes /\ t # Rcu /\ i \in Ifaces
  BY <1>1, <1>2, LeafAssumption DEF Processes, Ifaces
<1>5. CallStep
  BY <1>1 DEF CallStep
<1>6. call' \in [Processes -> Call] /\ CallsInv' /\ Exclusive'
  BY <1>1, <1>3, <1>4, MayChangeAlone, BeginKeepsCalls
<1>7. RcuInv'
  <2>1. call'[Rcu] = call[Rcu]
    BY <1>4, TypedCalls
  <2> QED
    BY <1>1, <1>5, <2>1, QueueStays
<1> QED
  BY <1>1, <1>5, <1>6, <1>7, TypedPorts, TypeOfParts DEF TableStep

LEMMA ResetLabelType ==
  ASSUME LeafType, NEW c \in Cbps, NEW b \in Labels, ResetLabel(c, b)
  PROVE  CallStep /\ labels' \in LabelTable
<1>1. labels \in LabelTable /\ labels' = [labels EXCEPT ![c][b] = None]
  BY TypedPorts DEF ResetLabel
<1>2. labels[c][b] # None => labels[c][b].service \in Services
  BY <1>1 DEF LabelTable, LabelEntry
<1>3. CallStep
  BY <1>2 DEF ResetLabel, CallStep
<1> QED
  BY <1>1, <1>3 DEF LabelTable

LEMMA CbpCallsKeepType ==
  ASSUME LeafType, NEW t \in Threads, NEW c \in Cbps, NEW b \in Labels,
         \/ \E service \in Services : CbpSetupLabel(t, c, b, service)
         \/ CbpClearLabel(t, c, b)
         \/ \E path \in Nhlfe : CbpSetEgress(t, c, b, path)
         \/ CbpClearEgress(t, c, b)
  PROVE  CallStep /\ LeafType'
<1>1. ASSUME NEW service \in Services, CbpSetupLabel(t, c, b, service)
      PROVE  CallStep /\ LeafType'
  <2>1. /\ MayChange(t, c) /\ ResetLabel(c, b) /\ UNCHANGED <<state, vlans, rcu>>
        /\ call' = [call EXCEPT ![t] = [pc |-> "check", iface |-> c, entry |-> b,
                                        service |-> service, slot |-> 0]]
    BY <1>1 DEF CbpSetupLabel
  <2>2. PICK n : n = [pc |-> "check", iface |-> c, entry |-> b, service |-> service, slot |-> 0]
    OBVIOUS
  <2>3. n \in Call /\ Working(n) /\ n.pc = "check" /\ n.iface = c
    BY <2>2, NewCalls
  <2>4. call' = [call EXCEPT ![t] = n] /\ t \in Processes /\ t # Rcu /\ c \in Ifaces
    BY <2>1, <2>2, LeafAssumption DEF Processes, Ifaces
  <2>5. CallStep /\ labels' \in LabelTable
    BY <2>1, ResetLabelType
  <2>6. call' \in [Processes -> Call] /\ CallsInv' /\ Exclusive'
    BY <2>1, <2>3, <2>4, MayChangeAlone, BeginKeepsCalls
  <2>7. RcuInv'
    <3>1. call'[Rcu] = call[Rcu]
      BY <2>4, TypedCalls
    <3> QED
      BY <2>1, <2>5, <3>1, QueueStays
  <2> QED
    BY <2>1, <2>5, <2>6, <2>7, TypedPorts, TypeOfParts DEF TableStep
<1>2. ASSUME CallStep, labels' \in LabelTable, UNCHANGED <<state, vlans, call, rcu>>
      PROVE  LeafType'
  <2>1. RcuInv'
    BY <1>2, QueueStays
  <2> QED
    BY <1>2, <2>1, UntouchedCalls, TypedPorts, TypeOfParts DEF TableStep
<1>3. CASE CbpClearLabel(t, c, b)
  BY <1>2, <1>3, ResetLabelType DEF CbpClearLabel
<1>4. ASSUME NEW path \in Nhlfe, CbpSetEgress(t, c, b, path) PROVE CallStep /\ LeafType'
  <2>1. PICK k \in ELanNhlfeSlots(labels[c][b].service.service_index, path) :
          labels' = [labels EXCEPT ![c][b].egress = [slot |-> k, path |-> path]]
    BY <1>4 DEF CbpSetEgress
  <2>2. k \in NhlfeSlots /\ labels[c][b] # None
    BY <1>4, <2>1 DEF CbpSetEgress, ELanNhlfeSlots
  <2>3. PICK x : x = [slot |-> k, path |-> path]
    OBVIOUS
  <2>4. x \in Egress
    BY <2>2, <2>3 DEF Egress
  <2>5. PICK e : e = [labels[c][b] EXCEPT !.egress = x]
    OBVIOUS
  <2>6. e \in LabelEntry
    BY <2>2, <2>4, <2>5, TypedPorts DEF LabelTable, LabelEntry
  <2>7. labels' = [labels EXCEPT ![c][b] = e]
    BY <2>1, <2>3, <2>5, TypedPorts DEF LabelTable
  <2>8. labels' \in LabelTable
    BY <2>6, <2>7, TypedPorts DEF LabelTable
  <2>9. CallStep /\ UNCHANGED <<state, vlans, call, rcu>>
    BY <1>4 DEF CbpSetEgress, CallStep
  <2> QED
    BY <1>2, <2>8, <2>9
<1>5. CASE CbpClearEgress(t, c, b)
  <2>1. labels[c][b] # None /\ labels' = [labels EXCEPT ![c][b].egress = None]
    BY <1>5 DEF CbpClearEgress
  <2>2. PICK e : e = [labels[c][b] EXCEPT !.egress = None]
    OBVIOUS
  <2>3. e \in LabelEntry
    BY <2>1, <2>2, TypedPorts DEF LabelTable, LabelEntry
  <2>4. labels' = [labels EXCEPT ![c][b] = e]
    BY <2>1, <2>2, TypedPorts DEF LabelTable
  <2>5. labels' \in LabelTable
    BY <2>3, <2>4, TypedPorts DEF LabelTable
  <2>6. CallStep /\ UNCHANGED <<state, vlans, call, rcu>>
    BY <1>5 DEF CbpClearEgress, CallStep
  <2> QED
    BY <1>2, <2>5, <2>6
<1> QED
  BY <1>1, <1>3, <1>4, <1>5

(***************************************************************************)
(* The rest of a call, by a thread or by the callback of an interface.     *)
(***************************************************************************)
LEMMA CallsKnown ==
  ASSUME LeafType, NEW a \in Processes, call[a].pc # "idle"
  PROVE  /\ call[a] \in Call /\ Working(call[a]) /\ call[a] # Idle
         /\ OnVlan(call[a]) =>
              /\ call[a].iface \in Csps /\ call[a].entry \in Vlans
              /\ vlans[call[a].iface][call[a].entry] \in Services \cup {None}
              /\ PortOf(call[a]) \in Port
         /\ OnLabel(call[a]) =>
              call[a].iface \in Cbps /\ call[a].entry \in Labels /\ call[a].service \in Services
<1>1. call[a] \in Call /\ Working(call[a]) /\ call[a] # Idle
  BY TypedCalls DEF LeafType, CallsInv, Idle
<1>2. OnVlan(call[a]) => call[a].iface \in Csps /\ call[a].entry \in Vlans
  BY <1>1 DEF Working, OnVlan, OnLabel
<1>3. OnLabel(call[a]) =>
        call[a].iface \in Cbps /\ call[a].entry \in Labels /\ call[a].service \in Services
  BY <1>1 DEF Working, OnVlan, OnLabel
<1> QED
  BY <1>1, <1>2, <1>3, TypedPorts DEF PortOf, Port

\* The last step on a VLAN, or the one before the new binding.
LEMMA UnboundKeepsType ==
  ASSUME LeafType, NEW a \in Processes, OnVlan(call[a]), call[a].pc # "register",
         Unbound(a), CallStep
  PROVE  LeafType'
<1>0. call[a].pc # "idle"
  BY DEF OnVlan
<1>1. PICK c : c = IF call[a].service = None THEN Idle
                   ELSE [call[a] EXCEPT !.pc = "register", !.slot = 0]
  OBVIOUS
<1>2. /\ c \in Call
      /\ c = Idle \/ (/\ Working(c) /\ c.iface = call[a].iface /\ c.entry = call[a].entry
                      /\ c.pc = "register")
      /\ a = Rcu => c = Idle
  <2>1. CASE call[a].service = None
    BY <1>1, <2>1, TypedCalls
  <2>2. CASE call[a].service # None
    <3>1. call[a] \in Call /\ call[a].service \in Services
      BY <1>0, <2>2, CallsKnown DEF Call
    <3>2. c \in Call /\ c.pc = "register" /\ c.iface = call[a].iface /\ c.entry = call[a].entry
          /\ c.service = call[a].service
      BY <1>1, <2>2, <3>1 DEF Call, Pc
    <3>3. Working(c)
      BY <1>0, <3>1, <3>2, CallsKnown DEF Working, OnVlan
    <3>4. a # Rcu
      BY <1>0, <2>2, CallsKnown DEF LeafType, RcuInv
    <3> QED
      BY <3>2, <3>3, <3>4
  <2> QED
    BY <2>1, <2>2
<1>3. /\ call' = [call EXCEPT ![a] = c] /\ UNCHANGED <<state, labels, rcu>>
      /\ vlans' = [vlans EXCEPT ![call[a].iface][call[a].entry] = None]
  BY <1>1 DEF Unbound
<1>4. Working(call[a]) /\ c.pc # "delete"
  BY <1>0, <1>2, CallsKnown DEF Idle
<1>5. /\ vlans' \in [Csps -> [Vlans -> Services \cup {None}]]
      /\ call' \in [Processes -> Call] /\ CallsInv' /\ Exclusive'
  BY <1>2, <1>3, <1>4, GoOnKeepsCalls
<1>6. call'[Rcu] = Idle \/ call'[Rcu] = call[Rcu]
  BY <1>2, <1>3, TypedCalls
<1>7. RcuInv'
  BY <1>3, <1>6, QueueStays
<1> QED
  BY <1>3, <1>5, <1>7, TypedPorts, TypeOfParts DEF TableStep

LEMMA ServicesAre ==
  ASSUME NEW service \in Services
  PROVE  \/ service.e_service = "e_line" /\ service.service_index \in ELines
         \/ service.e_service = "e_lan" /\ service.service_index \in ELans
BY DEF Services

LEMMA ReleaseBindingKeepsType ==
  ASSUME LeafType, NEW a \in Processes, ReleaseBinding(a)
  PROVE  CallStep /\ LeafType'
<1>1. call[a].pc = "release"
  BY DEF ReleaseBinding
<1>2. /\ call[a] \in Call /\ Working(call[a]) /\ OnVlan(call[a]) /\ call[a] # Idle
      /\ call[a].iface \in Csps /\ call[a].entry \in Vlans
  BY <1>1, CallsKnown DEF OnVlan
<1>3. PICK bound : bound = vlans[call[a].iface][call[a].entry]
  OBVIOUS
<1>4. bound \in Services \cup {None}
  BY <1>1, <1>2, <1>3, CallsKnown
<1>5. ASSUME bound # None, bound.e_service = "e_line", DeleteELinePort(bound.service_index)
      PROVE  CallStep
  <2>1. bound.service_index \in ELines
    BY <1>4, <1>5, ServicesAre
  <2>2. ELineStep(bound.service_index)
    BY <1>5 DEF ELineStep
  <2> QED
    BY <2>1, <2>2 DEF CallStep
<1>6. ASSUME Unbound(a) PROVE CallStep /\ LeafType'
  <2>1. CallStep
    <3>1. UNCHANGED tables \/ (/\ bound # None /\ bound.e_service = "e_line"
                               /\ DeleteELinePort(bound.service_index))
      BY <1>3 DEF ReleaseBinding
    <3> QED
      BY <1>5, <3>1 DEF CallStep
  <2> QED
    BY <1>1, <1>2, <1>6, <2>1, UnboundKeepsType
<1>7. ASSUME ~Unbound(a) PROVE CallStep /\ LeafType'
  <2>1. PICK k \in ELanPortSlots(bound.service_index, PortOf(call[a])) :
          /\ call' = [call EXCEPT ![a].pc = "delete", ![a].slot = k]
          /\ UNCHANGED <<tables, state, vlans, labels, rcu>>
          /\ bound # None /\ bound.e_service = "e_lan"
    BY <1>3, <1>7 DEF ReleaseBinding
  <2>2. k \in PortSlots
    BY <2>1 DEF ELanPortSlots
  <2>3. PICK c : c = [call[a] EXCEPT !.pc = "delete", !.slot = k]
    OBVIOUS
  <2>4. /\ c \in Call /\ c.pc = "delete" /\ c.slot = k /\ c.iface = call[a].iface
        /\ c.entry = call[a].entry /\ c.service = call[a].service
    BY <1>2, <2>2, <2>3 DEF Call, Pc
  <2>5. Working(c)
    BY <1>2, <2>2, <2>4 DEF Working, OnVlan
  <2>6. call' = [call EXCEPT ![a] = c]
    BY <2>1, <2>3, TypedCalls
  <2>7. CallStep /\ UNCHANGED <<state, vlans, labels, rcu>>
    BY <2>1 DEF CallStep
  <2>8. vlans'[c.iface][c.entry] \in Services /\ vlans'[c.iface][c.entry].e_service = "e_lan"
    BY <1>3, <1>4, <2>1, <2>4
  <2>9. /\ vlans' \in [Csps -> [Vlans -> Services \cup {None}]]
        /\ call' \in [Processes -> Call] /\ CallsInv' /\ Exclusive'
    BY <1>2, <2>4, <2>5, <2>6, <2>7, <2>8, GoOnKeepsCalls
  <2>10. RcuInv'
    <3>1. CASE a = Rcu
      <4>1. call'[Rcu] = c
        BY <2>6, <3>1, TypedCalls
      <4>2. rcu # <<>> /\ Head(rcu) = IfaceCallback(c.iface) /\ c.service = None
        BY <1>2, <2>4, <3>1 DEF LeafType, RcuInv
      <4> QED
        BY <2>4, <2>7, <4>1, <4>2, QueueStays
    <3>2. CASE a # Rcu
      <4>1. call'[Rcu] = call[Rcu]
        BY <2>6, <3>2, TypedCalls
      <4> QED
        BY <2>7, <4>1, QueueStays
    <3> QED
      BY <3>1, <3>2
  <2> QED
    BY <2>7, <2>9, <2>10, TypedPorts, TypeOfParts DEF TableStep
<1> QED
  BY <1>6, <1>7

LEMMA DeleteFoundPortKeepsType ==
  ASSUME LeafType, NEW a \in Processes, DeleteFoundPort(a)
  PROVE  CallStep /\ LeafType'
<1>1. call[a].pc = "delete" /\ Unbound(a)
  BY DEF DeleteFoundPort
<1>2. OnVlan(call[a])
  BY <1>1 DEF OnVlan
<1>3. CallStep
  <2>1. PICK bound : bound = vlans[call[a].iface][call[a].entry]
    OBVIOUS
  <2>2. bound.service_index \in ELans
    <3>1. bound \in Services /\ bound.e_service = "e_lan"
      BY <1>1, <2>1 DEF LeafType, CallsInv
    <3> QED
      BY <3>1, ServicesAre
  <2>3. UNCHANGED tables \/ DeleteELanPort(bound.service_index, call[a].slot)
    BY <2>1 DEF DeleteFoundPort
  <2>4. call[a].slot \in PortSlots
    BY <1>1, <1>2, CallsKnown DEF Working, OnVlan, OnLabel
  <2>5. UNCHANGED tables \/ ELanCall(bound.service_index)
    BY <2>3, <2>4 DEF ELanCall
  <2> QED
    BY <2>2, <2>5 DEF CallStep
<1> QED
  BY <1>1, <1>2, <1>3, UnboundKeepsType

LEMMA ThreadEndsCall ==
  ASSUME LeafType, NEW t \in Threads, call[t].pc # "idle", CallStep, state' = state,
         rcu' = rcu, labels' \in LabelTable, NEW c \in Call,
         c = Idle \/ (/\ Working(c) /\ c.iface = call[t].iface /\ c.entry = call[t].entry
                      /\ c.pc # "delete"),
         call' = [call EXCEPT ![t] = c], NEW x \in Services \cup {None},
         \/ vlans' = vlans
         \/ OnVlan(call[t]) /\ vlans' = [vlans EXCEPT ![call[t].iface][call[t].entry] = x]
  PROVE  LeafType'
<1>1. t \in Processes /\ t # Rcu
  BY LeafAssumption DEF Processes
<1>2. Working(call[t]) /\ c.pc # "delete"
  BY <1>1, CallsKnown DEF Idle
<1>3. /\ vlans' \in [Csps -> [Vlans -> Services \cup {None}]]
      /\ call' \in [Processes -> Call] /\ CallsInv' /\ Exclusive'
  BY <1>1, <1>2, GoOnKeepsCalls
<1>4. call'[Rcu] = call[Rcu]
  BY <1>1, TypedCalls
<1>5. RcuInv'
  BY <1>4, QueueStays
<1> QED
  BY <1>3, <1>5, TypedPorts, TypeOfParts DEF TableStep

LEMMA RegisterBindingKeepsType ==
  ASSUME LeafType, NEW t \in Threads, RegisterBinding(t)
  PROVE  CallStep /\ LeafType'
<1>1. /\ call[t].pc = "register" /\ UNCHANGED <<state, labels, rcu>>
      /\ call' = [call EXCEPT ![t] = Idle]
  BY DEF RegisterBinding
<1>2. /\ OnVlan(call[t]) /\ t \in Processes /\ call[t].service \in Services
      /\ PortOf(call[t]) \in Port
  BY <1>1, CallsKnown DEF OnVlan, OnLabel, Working, Processes
<1>3. PICK service : service = call[t].service
  OBVIOUS
<1>4. CallStep
  <2>1. CASE service.e_service = "e_line"
    <3>1. service.service_index \in ELines
      BY <1>2, <1>3, <2>1, ServicesAre
    <3>2. UNCHANGED tables \/ RegisterELinePort(service.service_index, PortOf(call[t]))
      BY <1>3, <2>1 DEF RegisterBinding, tables
    <3>3. UNCHANGED tables \/ ELineStep(service.service_index)
      BY <1>2, <3>2 DEF ELineStep
    <3> QED
      BY <3>1, <3>3 DEF CallStep
  <2>2. CASE service.e_service = "e_lan"
    <3>1. service.service_index \in ELans
      BY <1>2, <1>3, <2>2, ServicesAre
    <3>2. UNCHANGED tables \/ \E k \in PortSlots :
            RegisterELanPort(service.service_index, k, PortOf(call[t]))
      BY <1>3, <2>2 DEF RegisterBinding, tables
    <3>3. UNCHANGED tables \/ ELanCall(service.service_index)
      BY <1>2, <3>2 DEF ELanCall
    <3> QED
      BY <3>1, <3>3 DEF CallStep
  <2> QED
    BY <1>2, <1>3, <2>1, <2>2, ServicesAre
<1>5. \/ vlans' = vlans
      \/ vlans' = [vlans EXCEPT ![call[t].iface][call[t].entry] = service]
  BY <1>3 DEF RegisterBinding
<1>6. service \in Services \cup {None} /\ Idle \in Call /\ labels' \in LabelTable
  BY <1>1, <1>2, <1>3, TypedCalls, TypedPorts
<1>7. call[t].pc # "idle" /\ state' = state /\ rcu' = rcu
  BY <1>1
<1> QED
  BY <1>1, <1>2, <1>4, <1>5, <1>6, <1>7, ThreadEndsCall

LEMMA CheckLabelKeepsType ==
  ASSUME LeafType, NEW t \in Threads, CheckLabelService(t)
  PROVE  CallStep /\ LeafType'
<1>1. /\ call[t].pc = "check" /\ UNCHANGED <<tables, state, vlans, labels, rcu>>
      /\ t \in Processes
  BY DEF CheckLabelService, Processes
<1>2. PICK c : c = IF FindService(call[t].service) THEN [call[t] EXCEPT !.pc = "bind"] ELSE Idle
  OBVIOUS
<1>3. call' = [call EXCEPT ![t] = c]
  BY <1>2 DEF CheckLabelService
<1>4. /\ c \in Call
      /\ c = Idle \/ (/\ Working(c) /\ c.iface = call[t].iface /\ c.entry = call[t].entry
                      /\ c.pc # "delete")
  <2>1. /\ call[t] \in Call /\ call[t].iface \in Cbps /\ call[t].entry \in Labels
        /\ call[t].service \in Services
    BY <1>1, CallsKnown DEF OnLabel
  <2>2. CASE FindService(call[t].service)
    BY <1>2, <2>1, <2>2 DEF Call, Pc, Working, OnLabel
  <2>3. CASE ~FindService(call[t].service)
    BY <1>2, <2>3, TypedCalls
  <2> QED
    BY <2>2, <2>3
<1>5. CallStep /\ labels' \in LabelTable /\ state' = state /\ rcu' = rcu /\ vlans' = vlans
  BY <1>1, TypedPorts DEF CallStep
<1>6. call[t].pc # "idle"
  BY <1>1
<1> QED
  BY <1>3, <1>4, <1>5, <1>6, ThreadEndsCall

LEMMA BindLabelKeepsType ==
  ASSUME LeafType, NEW t \in Threads, BindLabel(t)
  PROVE  CallStep /\ LeafType'
<1>1. /\ call[t].pc = "bind" /\ UNCHANGED <<state, vlans, rcu>>
      /\ call' = [call EXCEPT ![t] = Idle] /\ t \in Processes
      /\ labels' = [labels EXCEPT ![call[t].iface][call[t].entry] =
                      [service |-> call[t].service, egress |-> None]]
      /\ Reference(call[t].service) \/ UNCHANGED tables
  BY DEF BindLabel, Processes
<1>2. call[t].iface \in Cbps /\ call[t].entry \in Labels /\ call[t].service \in Services
  BY <1>1, CallsKnown DEF OnLabel
<1>3. CallStep
  BY <1>1, <1>2 DEF CallStep
<1>4. PICK e : e = [service |-> call[t].service, egress |-> None]
  OBVIOUS
<1>5. e \in LabelEntry
  BY <1>2, <1>4 DEF LabelEntry
<1>6. labels' \in LabelTable
  BY <1>1, <1>2, <1>4, <1>5, TypedPorts DEF LabelTable
<1>7. call[t].pc # "idle" /\ state' = state /\ rcu' = rcu /\ vlans' = vlans /\ Idle \in Call
  BY <1>1, TypedCalls
<1> QED
  BY <1>1, <1>3, <1>6, <1>7, ThreadEndsCall

(***************************************************************************)
(* Interfaces, and the callbacks of the RCU thread.                        *)
(***************************************************************************)
LEMMA RegisterIfaceKeepsType ==
  ASSUME LeafType, NEW t \in Threads, NEW i \in Ifaces, RegisterIface(t, i)
  PROVE  CallStep /\ LeafType'
<1>1. /\ UNCHANGED <<tables, vlans, labels, call, rcu>> /\ state[i] = "absent"
      /\ state' = [state EXCEPT ![i] = "up"]
  BY DEF RegisterIface
<1>2. state' \in States /\ \A j \in Ifaces : state[j] = "dying" => state'[j] = "dying"
  BY <1>1, TypedPorts DEF States
<1>3. CallStep
  BY <1>1 DEF CallStep
<1>4. RcuInv'
  BY <1>1, <1>2, <1>3, QueueStays
<1> QED
  BY <1>1, <1>2, <1>3, <1>4, UntouchedCalls, TypedPorts, TypeOfParts DEF TableStep

LEMMA UnregisterIfaceKeepsType ==
  ASSUME LeafType, NEW t \in Threads, NEW i \in Ifaces, UnregisterIface(t, i)
  PROVE  CallStep /\ LeafType'
<1>1. /\ UNCHANGED <<tables, vlans, labels, call>> /\ state[i] = "up"
      /\ state' = [state EXCEPT ![i] = "dying"] /\ rcu' = Append(rcu, IfaceCallback(i))
  BY DEF UnregisterIface, IfaceCallback
<1>2. CallStep
  BY <1>1 DEF CallStep
<1>3. ~InQueue(rcu, IfaceCallback(i))
  BY <1>1, AwaitedOne DEF LeafType, RcuInv
<1>4. /\ rcu' \in Seq(Callback) /\ Distinct(rcu') /\ rcu' # <<>>
      /\ \A y : InQueue(rcu', y) <=> InQueue(rcu, y) \/ y = IfaceCallback(i)
      /\ rcu # <<>> => Head(rcu') = Head(rcu)
  BY <1>1, <1>3, TypedPorts, Callbacks, QueueAppend DEF LeafType, RcuInv
<1>5. /\ state' \in States /\ state'[i] = "dying"
      /\ \A j \in Ifaces : state[j] = "dying" => state'[j] = "dying"
  BY <1>1, TypedPorts DEF States
<1>6. RcuInv'
  <2>1. \A cb : Awaited(cb) => Awaited(cb)'
    BY <1>1, <1>5 DEF Awaited, tables, Deleted
  <2>2. \A cb : InQueue(rcu', cb) => Awaited(cb)'
    <3>1. Awaited(IfaceCallback(i))'
      BY <1>5 DEF Awaited, IfaceCallback
    <3> QED
      BY <1>4, <2>1, <3>1 DEF LeafType, RcuInv
  <2>3. call[Rcu] # Idle =>
          /\ rcu' # <<>> /\ Head(rcu') = IfaceCallback(call[Rcu].iface)
          /\ call[Rcu].pc \in {"release", "delete"} /\ call[Rcu].service = None
    BY <1>4 DEF LeafType, RcuInv
  <2> QED
    BY <1>1, <1>4, <2>2, <2>3 DEF RcuInv, IfaceCallback
<1> QED
  BY <1>1, <1>2, <1>4, <1>5, <1>6, UntouchedCalls, TypedPorts, TypeOfParts DEF TableStep

LEMMA DetachIfaceKeepsType ==
  ASSUME LeafType, NEW i \in Ifaces, DetachIface(i)
  PROVE  CallStep /\ LeafType'
<1>1. /\ UNCHANGED <<tables, vlans, labels, call>> /\ call[Rcu] = Idle
      /\ state' = [state EXCEPT ![i] = "absent"] /\ rcu' = Tail(rcu)
      /\ rcu # <<>> /\ Head(rcu) = IfaceCallback(i)
  BY DEF DetachIface, TearsDown, IfaceCallback
<1>2. CallStep
  BY <1>1 DEF CallStep
<1>3. /\ rcu' \in Seq(Callback) /\ Distinct(rcu') /\ ~InQueue(rcu', IfaceCallback(i))
      /\ \A y : InQueue(rcu', y) => InQueue(rcu, y)
  BY <1>1, TypedPorts, QueueTail DEF LeafType, RcuInv
<1>4. state' \in States /\ \A j \in Ifaces \ {i} : state'[j] = state[j]
  BY <1>1, TypedPorts DEF States
<1>5. RcuInv'
  <2>1. ASSUME NEW cb, InQueue(rcu', cb) PROVE Awaited(cb)'
    <3>1. Awaited(cb) /\ cb # IfaceCallback(i)
      BY <1>3, <2>1 DEF LeafType, RcuInv
    <3>2. CASE \E l \in ELans : cb = ELanCallback(l) /\ Deleted(l)
      BY <1>1, <3>2 DEF Awaited, Deleted, tables
    <3>3. ASSUME NEW j \in Ifaces, cb = IfaceCallback(j), state[j] = "dying"
          PROVE  Awaited(cb)'
      <4>1. state'[j] = "dying"
        BY <1>4, <3>1, <3>3
      <4> QED
        BY <3>3, <4>1 DEF Awaited, IfaceCallback
    <3> QED
      BY <3>1, <3>2, <3>3 DEF Awaited
  <2> QED
    BY <1>1, <1>3, <2>1 DEF RcuInv
<1> QED
  BY <1>1, <1>2, <1>3, <1>4, <1>5, UntouchedCalls, TypedPorts, TypeOfParts DEF TableStep

LEMMA ReleaseVlanKeepsType ==
  ASSUME LeafType, NEW i \in Csps, ReleaseVlan(i)
  PROVE  CallStep /\ LeafType'
<1>1. PICK v \in Vlans :
        /\ UNCHANGED <<tables, state, vlans, labels, rcu>> /\ call[Rcu] = Idle
        /\ rcu # <<>> /\ Head(rcu) = IfaceCallback(i) /\ \A t \in Threads : call[t].iface # i
        /\ call' = [call EXCEPT ![Rcu] = [pc |-> "release", iface |-> i, entry |-> v,
                                          service |-> None, slot |-> 0]]
  BY DEF ReleaseVlan, TearsDown, IfaceCallback, BoundVlans, Unlocked
<1>2. PICK c : c = [pc |-> "release", iface |-> i, entry |-> v, service |-> None, slot |-> 0]
  OBVIOUS
<1>3. c \in Call /\ Working(c) /\ c.pc = "release" /\ c.iface = i /\ c.service = None
  BY <1>2, NewCalls
<1>4. call' = [call EXCEPT ![Rcu] = c] /\ Rcu \in Processes /\ i \in Ifaces /\ c.pc # "delete"
  BY <1>1, <1>2, <1>3 DEF Processes, Ifaces
<1>5. \A o \in Processes : call[o].iface # c.iface
  BY <1>1, <1>3, <1>4, TypedCalls DEF Processes
<1>6. CallStep
  BY <1>1 DEF CallStep
<1>7. call' \in [Processes -> Call] /\ CallsInv' /\ Exclusive'
  BY <1>1, <1>3, <1>4, <1>5, BeginKeepsCalls
<1>8. RcuInv'
  <2>1. call'[Rcu] = c
    BY <1>4, TypedCalls
  <2> QED
    BY <1>1, <1>3, <1>6, <2>1, QueueStays
<1> QED
  BY <1>1, <1>6, <1>7, <1>8, TypedPorts, TypeOfParts DEF TableStep

LEMMA ReleaseLabelKeepsType ==
  ASSUME LeafType, NEW c \in Cbps, ReleaseLabel(c)
  PROVE  CallStep /\ LeafType'
<1>1. PICK b \in Labels : ResetLabel(c, b) /\ UNCHANGED <<state, vlans, call, rcu>>
  BY DEF ReleaseLabel, BoundLabels
<1>2. CallStep /\ labels' \in LabelTable
  BY <1>1, ResetLabelType
<1>3. RcuInv'
  BY <1>1, <1>2, QueueStays
<1> QED
  BY <1>1, <1>2, <1>3, UntouchedCalls, TypedPorts, TypeOfParts DEF TableStep

LEMMA PostDeleteELanKeepsType ==
  ASSUME LeafType, NEW l \in ELans, PostDeleteELan(l)
  PROVE  TableStep /\ LeafType'
<1>1. /\ UNCHANGED <<state, vlans, labels, call>> /\ rcu # <<>> /\ Head(rcu) = ELanCallback(l)
  BY DEF PostDeleteELan, ELanCallback
<1>2. /\ \A y : InQueue(Tail(rcu), y) => InQueue(rcu, y)
      /\ Tail(rcu) \in Seq(Callback) /\ InQueue(rcu, ELanCallback(l))
      /\ Distinct(Tail(rcu)) /\ ~InQueue(Tail(rcu), ELanCallback(l))
  BY <1>1, TypedPorts, QueueTail DEF LeafType, RcuInv
<1>3. Deleted(l)
  BY <1>2, AwaitedOne DEF LeafType, RcuInv
<1>4. call[Rcu] = Idle
  BY <1>1, Callbacks DEF LeafType, RcuInv
<1>5. elan \in [ELans -> ELan \cup {Free}]
  BY TypedCalls DEF TablesTypeOK
<1>6. CASE (ReleaseMulticast(l) \/ \E k \in NhlfeSlots : ReleaseNhlfe(l, k)) /\ rcu' = rcu
  <2>1. ELanRelease(l)
    BY <1>3, <1>6 DEF ELanRelease
  <2>2. Deleted(l)' /\ \A m \in ELans \ {l} : elan'[m] = elan[m]
    <3>1. CASE ReleaseMulticast(l)
      <4>1. PutMulticast(l, None)
        BY <3>1 DEF ReleaseMulticast, PutMulticast
      <4> QED
        BY <1>3, <4>1, TypedCalls, MulticastBecomes DEF ELanBecomes, Deleted
    <3>2. ASSUME NEW k \in NhlfeSlots, ReleaseNhlfe(l, k)
          PROVE  Deleted(l)' /\ \A m \in ELans \ {l} : elan'[m] = elan[m]
      <4>1. ClearNhlfe(l, k)
        BY <3>2 DEF ReleaseNhlfe, ClearNhlfe
      <4> QED
        BY <1>3, <4>1, TypedCalls, UnreleasedBecomes DEF ELanBecomes, Deleted
    <3> QED
      BY <1>6, <3>1, <3>2
  <2>3. \A m \in ELans : Deleted(m) => Deleted(m)'
    BY <2>2 DEF Deleted
  <2>4. \A cb : Awaited(cb) => Awaited(cb)'
    BY <1>1, <2>3 DEF Awaited
  <2>5. RcuInv'
    BY <1>1, <1>4, <1>6, <2>4 DEF LeafType, RcuInv
  <2>6. rcu' \in Seq(Callback) /\ TableStep
    BY <1>6, <2>1, TypedPorts DEF TableStep
  <2> QED
    BY <1>1, <2>5, <2>6, UntouchedCalls, TypedPorts, TypeOfParts
<1>7. CASE ReleaseELan(l) /\ rcu' = Tail(rcu)
  <2>1. ELanRelease(l)
    BY <1>3, <1>7 DEF ELanRelease
  <2>2. \A m \in ELans \ {l} : Deleted(m) => Deleted(m)'
    BY <1>5, <1>7 DEF ReleaseELan, Deleted
  <2>3. ASSUME NEW cb, InQueue(rcu', cb) PROVE Awaited(cb)'
    <3>1. Awaited(cb) /\ cb # ELanCallback(l)
      BY <1>2, <1>7, <2>3 DEF LeafType, RcuInv
    <3>2. ASSUME NEW m \in ELans, cb = ELanCallback(m), Deleted(m) PROVE Awaited(cb)'
      BY <2>2, <3>1, <3>2 DEF Awaited, ELanCallback
    <3>3. ASSUME NEW j \in Ifaces, cb = IfaceCallback(j), state[j] = "dying" PROVE Awaited(cb)'
      BY <1>1, <3>3 DEF Awaited, IfaceCallback
    <3> QED
      BY <3>1, <3>2, <3>3 DEF Awaited
  <2>4. RcuInv'
    BY <1>1, <1>2, <1>4, <1>7, <2>3 DEF RcuInv
  <2>5. rcu' \in Seq(Callback) /\ TableStep
    BY <1>2, <1>7, <2>1 DEF TableStep
  <2> QED
    BY <1>1, <2>4, <2>5, UntouchedCalls, TypedPorts, TypeOfParts
<1> QED
  BY <1>6, <1>7 DEF PostDeleteELan

(***************************************************************************)
(* Every step.                                                             *)
(***************************************************************************)
LEMMA InitType == Init => LeafType /\ NexthopAccounting /\ NoStaleMac
<1> SUFFICES ASSUME Init PROVE LeafType /\ NexthopAccounting /\ NoStaleMac
  OBVIOUS
<1>1. TablesTypeOK
  BY DEF Init, TablesInit, TablesTypeOK
<1>2. Idle \in Call /\ ~Working(Idle)
  BY DEF Idle, Call, Pc, Working, OnVlan, OnLabel
<1>3. call = [a \in Processes |-> Idle] /\ rcu = <<>>
  BY DEF Init, Processes
<1>4. TypeOK
  BY <1>1, <1>2, <1>3 DEF Init, TypeOK, Call, Processes
<1>5. CallsInv /\ Exclusive
  BY <1>3 DEF CallsInv, Exclusive, Idle
<1>6. RcuInv
  <2>1. Len(rcu) = 0
    BY <1>3, EmptySeq
  <2>2. \A n \in 1 .. Len(rcu) : FALSE
    BY <2>1
  <2>3. call[Rcu] = Idle
    BY <1>3 DEF Processes
  <2> QED
    BY <2>2, <2>3 DEF RcuInv, Distinct, InQueue
<1>7. \A u \in UsePlaces : NexthopOf(u) = None
  BY Places, HopsAreAtPlaces DEF HopsAtPlaces, ELineHop, MulticastHop, ELanHop, Init, TablesInit
<1>8. \A h \in Nexthops : Users(h) = {} /\ nexthop[h] = Free
  BY <1>7, HopsAreNumbers DEF Users, Init, TablesInit
<1>9. NexthopAccounting
  BY <1>8 DEF NexthopAccounting
<1>10. NoStaleMac
  BY DEF Init, TablesInit, NoStaleMac, FindELan
<1> QED
  BY <1>4, <1>5, <1>6, <1>9, <1>10 DEF LeafType

LEMMA StepKeepsType ==
  ASSUME LeafType, [Next]_vars
  PROVE  TableStep /\ LeafType'
<1>1. ASSUME RcuStep PROVE TableStep /\ LeafType'
  <2>1. Rcu \in Processes
    BY DEF Processes
  <2> QED
    BY <1>1, <2>1, ReleaseVlanKeepsType, ReleaseBindingKeepsType, DeleteFoundPortKeepsType,
       ReleaseLabelKeepsType, DetachIfaceKeepsType, PostDeleteELanKeepsType
       DEF RcuStep, TableStep
<1>2. ASSUME NEW t \in Threads, Begin(t) PROVE TableStep /\ LeafType'
  BY <1>2, ServiceCallsKeepType, DeleteELanKeepsType, CspCallsKeepType, CbpCallsKeepType,
     RegisterIfaceKeepsType, UnregisterIfaceKeepsType DEF Begin, TableStep
<1>3. ASSUME NEW t \in Threads, Continue(t) PROVE TableStep /\ LeafType'
  <2>1. t \in Processes
    BY DEF Processes
  <2> QED
    BY <1>3, <2>1, ReleaseBindingKeepsType, DeleteFoundPortKeepsType, RegisterBindingKeepsType,
       CheckLabelKeepsType, BindLabelKeepsType DEF Continue, TableStep
<1>4. ASSUME UNCHANGED vars PROVE TableStep /\ LeafType'
  <2>1. CallStep /\ UNCHANGED <<state, vlans, labels, call, rcu>>
    BY <1>4 DEF vars, ports, CallStep
  <2>2. RcuInv'
    BY <2>1, QueueStays
  <2> QED
    BY <2>1, <2>2, UntouchedCalls, TypedPorts, TypeOfParts DEF TableStep
<1> QED
  BY <1>1, <1>2, <1>3, <1>4 DEF Next

\* Types, the locks of the interfaces, and the callbacks that wait: whatever
\* threads call the API, a call works on an interface alone, a port that was
\* found is deleted from the E-LAN that the VLAN led to, and a callback runs
\* once for what was handed to call_rcu.
THEOREM LeafTypes == Spec => []LeafType
<1>1. LeafType /\ [Next]_vars => LeafType'
  BY StepKeepsType
<1> QED
  BY <1>1, InitType, PTL DEF Spec

\* The ref_cnt of a next hop is the number of its uses by the services, those
\* of an E-LAN that post_delete_e_lan_service has not released yet included,
\* for any number of threads that call any of the APIs, as long as no next hop
\* has so many uses that its uint16_t wraps.
THEOREM NexthopsOfServicesAreCounted ==
  Spec => ([]NoOverflow => []NexthopAccounting)
<1>1. LeafType /\ NexthopAccounting /\ NoOverflow /\ [Next]_vars => NexthopAccounting'
  <2> SUFFICES ASSUME LeafType, NexthopAccounting, NoOverflow, [Next]_vars
               PROVE  NexthopAccounting'
    OBVIOUS
  <2>1. TablesTypeOK /\ TableStep
    BY StepKeepsType DEF LeafType, TypeOK
  <2> QED
    BY <2>1, TableStepUses, UseStepKeepsCounts
<1> QED
  BY <1>1, InitType, LeafTypes, PTL DEF Spec

\* A MAC entry that the API registered leads to a port or an nhlfe that the
\* E-LAN still has: the purge of delete_e_lan_port and delete_e_lan_nhlfe keeps
\* up with every order of calls and interface releases.
THEOREM MacEntriesLeadToPorts == Spec => []NoStaleMac
<1>1. LeafType /\ NoStaleMac /\ [Next]_vars => NoStaleMac'
  <2> SUFFICES ASSUME LeafType, NoStaleMac, [Next]_vars PROVE NoStaleMac'
    OBVIOUS
  <2> QED
    BY StepKeepsType, TableStepKeepsFresh DEF LeafType, TypeOK
<1> QED
  BY <1>1, InitType, LeafTypes, PTL DEF Spec

(***************************************************************************)
(* Services of both kinds, seen alike: an E-LINE has one place for a port. *)
(***************************************************************************)
SlotsOf(x) == IF x.e_service = "e_line" THEN {0} ELSE PortSlots

PortAt(x, k) ==
  IF x.e_service = "e_line" THEN eline[x.service_index].port ELSE elan[x.service_index].ports[k]

RefCnt(x) ==
  IF x.e_service = "e_line" THEN eline[x.service_index].ref_cnt
  ELSE elan[x.service_index].ref_cnt

Taken(x) == {k \in SlotsOf(x) : PortAt(x, k) # None}

Counted(x) == FindService(x) => RefCnt(x) = Cardinality(Taken(x)) + Cardinality(Fibs(x))

LEMMA ServicesSplit ==
  /\ \A s \in ELines : ELineService(s) \in Services
  /\ \A l \in ELans : ELanService(l) \in Services
  /\ \A x \in Services : \/ \E s \in ELines : x = ELineService(s)
                         \/ \E l \in ELans : x = ELanService(l)
BY DEF Services, ELineService, ELanService

ELineSeen(s) ==
  /\ FindService(ELineService(s)) <=> eline[s] # Free
  /\ RefCnt(ELineService(s)) = eline[s].ref_cnt
  /\ \A k : PortAt(ELineService(s), k) = eline[s].port

ELanSeen(l) ==
  /\ FindService(ELanService(l)) <=> elan[l] # Free /\ elan[l].is_valid
  /\ RefCnt(ELanService(l)) = elan[l].ref_cnt
  /\ \A k : PortAt(ELanService(l), k) = elan[l].ports[k]

AllSeen == (\A s \in ELines : ELineSeen(s)) /\ (\A l \in ELans : ELanSeen(l))

LEMMA ServicesSeen == AllSeen /\ AllSeen'
<1>1. ASSUME NEW s \in ELines PROVE ELineSeen(s)
  <2>1. PICK x : x = ELineService(s)
    OBVIOUS
  <2>2. x.e_service = "e_line" /\ x.service_index = s
    BY <2>1 DEF ELineService
  <2> QED
    BY <2>1, <2>2 DEF ELineSeen, FindService, FindELine, RefCnt, PortAt
<1>2. ASSUME NEW l \in ELans PROVE ELanSeen(l)
  <2>1. PICK x : x = ELanService(l)
    OBVIOUS
  <2>2. x.e_service = "e_lan" /\ x.service_index = l
    BY <2>1 DEF ELanService
  <2> QED
    BY <2>1, <2>2 DEF ELanSeen, FindService, FindELan, RefCnt, PortAt
<1>3. AllSeen
  BY <1>1, <1>2 DEF AllSeen
<1> QED
  BY <1>3, PTL

LEMMA SlotsSeen ==
  /\ \A s : SlotsOf(ELineService(s)) = {0}
  /\ \A l : SlotsOf(ELanService(l)) = PortSlots
BY DEF SlotsOf, ELineService, ELanService

LEMMA SlotsAreFinite ==
  ASSUME NEW x
  PROVE  IsFiniteSet(SlotsOf(x)) /\ IsFiniteSet(Taken(x)) /\ IsFiniteSet(Fibs(x))
<1>1. IsFiniteSet({0}) /\ IsFiniteSet(PortSlots) /\ IsFiniteSet(Cbps)
  <2>1. 0 \in Int /\ MAX_PORTS_IN_E_LAN_SERVICE - 1 \in Int
    BY SizesAssumption
  <2> QED
    BY <2>1, FS_Interval, FS_Singleton, LeafAssumption DEF PortSlots
<1>2. IsFiniteSet(SlotsOf(x))
  BY <1>1 DEF SlotsOf
<1>3. Taken(x) \subseteq SlotsOf(x) /\ Fibs(x) \subseteq Cbps
  BY DEF Taken, Fibs
<1> QED
  BY <1>1, <1>2, <1>3, FS_Subset

\* What a step does to a service: nothing (Keeps), registers or deletes it,
\* gives it a port or takes one.
PortsStay(x) ==
  /\ FindService(x)' <=> FindService(x)
  /\ FindService(x) => \A k \in SlotsOf(x) : PortAt(x, k)' = PortAt(x, k)

Recounts(x, n) == PortsStay(x) /\ FindService(x) /\ RefCnt(x)' = n

Keeps(x) == PortsStay(x) /\ (FindService(x) => RefCnt(x)' = RefCnt(x))

Begins(x) ==
  /\ ~FindService(x) /\ FindService(x)' /\ RefCnt(x)' = 0
  /\ \A k \in SlotsOf(x) : PortAt(x, k)' = None

Ends(x) == FindService(x) /\ RefCnt(x) = 0 /\ ~FindService(x)'

Puts(x, k, p, n) ==
  /\ FindService(x) /\ FindService(x)' /\ RefCnt(x)' = n
  /\ k \in SlotsOf(x) /\ PortAt(x, k)' = p
  /\ \A j \in SlotsOf(x) \ {k} : PortAt(x, j)' = PortAt(x, j)

Gains(x, k, p) == PortAt(x, k) = None /\ Puts(x, k, p, RefCnt(x) + 1)
Loses(x, k)    == PortAt(x, k) # None /\ Puts(x, k, None, Decremented(RefCnt(x)))

OthersKeep(x) == \A y \in Services \ {x} : Keeps(y)

LEMMA ELineKept ==
  ASSUME NEW s \in ELines, eline'[s] = eline[s]
  PROVE  Keeps(ELineService(s))
<1> PICK x : x = ELineService(s)
  OBVIOUS
<1>1. ELineSeen(s) /\ ELineSeen(s)'
  BY ServicesSeen DEF AllSeen
<1> QED
  BY <1>1 DEF ELineSeen, Keeps, PortsStay

LEMMA ELanKept ==
  ASSUME NEW l \in ELans,
         \/ elan'[l] = elan[l]
         \/ /\ elan[l] # Free /\ elan'[l] # Free /\ elan'[l].is_valid = elan[l].is_valid
            /\ elan'[l].ports = elan[l].ports /\ elan'[l].ref_cnt = elan[l].ref_cnt
         \/ /\ elan[l] = Free \/ elan[l].is_valid = FALSE
            /\ elan'[l] = Free \/ elan'[l].is_valid = FALSE
  PROVE  Keeps(ELanService(l))
<1>1. ELanSeen(l) /\ ELanSeen(l)'
  BY ServicesSeen DEF AllSeen
<1> QED
  BY <1>1 DEF ELanSeen, Keeps, PortsStay

LEMMA ELineAlone ==
  ASSUME NEW s \in ELines, elan' = elan, \A r \in ELines \ {s} : eline'[r] = eline[r]
  PROVE  OthersKeep(ELineService(s))
BY ELineKept, ELanKept, ServicesSplit DEF OthersKeep

LEMMA ELanAlone ==
  ASSUME NEW l \in ELans, eline' = eline, \A m \in ELans \ {l} : elan'[m] = elan[m]
  PROVE  OthersKeep(ELanService(l))
BY ELineKept, ELanKept, ServicesSplit DEF OthersKeep

(* The steps that register and delete services and what is not a port. *)
ServiceMove(x) == Keeps(x) \/ Begins(x) \/ Ends(x)

ELineOwn(s) ==
  \/ RegisterELineService(s) \/ DeleteELineService(s)
  \/ (\E nhlfe \in Nhlfe : RegisterELineNhlfe(s, nhlfe)) \/ DeleteELineNhlfe(s)

ELanOwn(l) ==
  \/ RegisterELanService(l) \/ DeleteELanService(l)
  \/ \E k \in NhlfeSlots :
       DeleteELanNhlfe(l, k) \/ \E nhlfe \in Nhlfe : RegisterELanNhlfe(l, k, nhlfe)
  \/ \E mac \in Macs :
       \/ DeleteELanFwdEntry(l, mac)
       \/ \E entry \in Port \cup Nhlfe : RegisterELanFwdEntry(l, mac, entry)
  \/ \E h \in Nexthops : SetELanMulticast(l, h)
  \/ ResetELanMulticast(l)

LEMMA ELineOwnMoves ==
  ASSUME TablesTypeOK, NEW s \in ELines, ELineOwn(s)
  PROVE  \A x \in Services : ServiceMove(x)
<1>0. eline \in [ELines -> ELine \cup {Free}]
  BY DEF TablesTypeOK
<1>1. elan' = elan /\ \A r \in ELines \ {s} : eline'[r] = eline[r]
  BY <1>0 DEF ELineOwn, RegisterELineService, DeleteELineService, RegisterELineNhlfe,
              DeleteELineNhlfe
<1>2. OthersKeep(ELineService(s))
  BY <1>1, ELineAlone
<1>3. PICK x : x = ELineService(s)
  OBVIOUS
<1>4. ELineSeen(s) /\ ELineSeen(s)' /\ SlotsOf(x) = {0}
  BY <1>3, ServicesSeen, SlotsSeen DEF AllSeen
<1>5. CASE RegisterELineService(s)
  <2>1. ELineBecomes(s, None, None, 0) /\ eline[s] = Free
    BY <1>5, RegisterELineBecomes DEF RegisterELineService, IsFirst
  <2>2. Begins(x)
    BY <1>3, <1>4, <2>1 DEF ELineBecomes, ELineSeen, Begins
  <2> QED
    BY <1>2, <1>3, <2>2 DEF OthersKeep, ServiceMove
<1>6. CASE DeleteELineService(s)
  <2>1. eline[s] # Free /\ eline[s].ref_cnt = 0 /\ eline'[s] = Free
    BY <1>0, <1>6 DEF DeleteELineService, FindELine
  <2>2. Ends(x)
    BY <1>3, <1>4, <2>1 DEF ELineSeen, Ends
  <2> QED
    BY <1>2, <1>3, <2>2 DEF OthersKeep, ServiceMove
<1>7. ASSUME NEW nhlfe \in Nhlfe \cup {None}, eline[s] # Free,
             ELineBecomes(s, eline[s].port, nhlfe, eline[s].ref_cnt)
      PROVE  \A y \in Services : ServiceMove(y)
  <2>1. Keeps(x)
    BY <1>3, <1>4, <1>7 DEF ELineBecomes, ELineSeen, Keeps, PortsStay
  <2> QED
    BY <1>2, <1>3, <2>1 DEF OthersKeep, ServiceMove
<1>8. ASSUME NEW nhlfe \in Nhlfe, RegisterELineNhlfe(s, nhlfe)
      PROVE  \A y \in Services : ServiceMove(y)
  <2>1. eline[s] # Free
    BY <1>8 DEF RegisterELineNhlfe, FindELine
  <2> QED
    BY <1>7, <1>8, <2>1, ELineNhlfeBecomes
<1>9. CASE DeleteELineNhlfe(s)
  <2>1. eline[s] # Free
    BY <1>9 DEF DeleteELineNhlfe, FindELine
  <2> QED
    BY <1>7, <1>9, <2>1, NoELineNhlfeBecomes
<1> QED
  BY <1>5, <1>6, <1>8, <1>9 DEF ELineOwn

LEMMA ELanOwnMoves ==
  ASSUME TablesTypeOK, NEW l \in ELans, ELanOwn(l)
  PROVE  \A x \in Services : ServiceMove(x)
<1>0. elan \in [ELans -> ELan \cup {Free}]
  BY DEF TablesTypeOK
<1>1. eline' = eline /\ \A m \in ELans \ {l} : elan'[m] = elan[m]
  BY <1>0 DEF ELanOwn, RegisterELanService, DeleteELanService, DeleteELanNhlfe,
              RegisterELanNhlfe, DeleteELanFwdEntry, RegisterELanFwdEntry, SetELanMulticast,
              ResetELanMulticast
<1>2. OthersKeep(ELanService(l))
  BY <1>1, ELanAlone
<1>3. PICK x : x = ELanService(l)
  OBVIOUS
<1>4. ELanSeen(l) /\ ELanSeen(l)' /\ SlotsOf(x) = PortSlots
  BY <1>3, ServicesSeen, SlotsSeen DEF AllSeen
<1>5. ASSUME Keeps(x) \/ Begins(x) \/ Ends(x) PROVE \A y \in Services : ServiceMove(y)
  BY <1>2, <1>3, <1>5 DEF OthersKeep, ServiceMove
<1>6. CASE RegisterELanService(l)
  <2>1. elan[l] = Free
    BY <1>6 DEF RegisterELanService, IsFirst
  <2>2. ELanBecomes(l, TRUE, [k \in PortSlots |-> None], [k \in NhlfeSlots |-> None], None,
                    [mac \in Macs |-> None], 0)
    BY <1>6, NewELanBecomes
  <2>3. Begins(x)
    BY <1>3, <1>4, <2>1, <2>2 DEF ELanBecomes, ELanSeen, Begins
  <2> QED
    BY <1>5, <2>3
<1>7. CASE DeleteELanService(l)
  <2>1. elan[l] # Free /\ elan[l].is_valid /\ elan[l].ref_cnt = 0
    BY <1>7 DEF DeleteELanService, FindELan
  <2>2. elan'[l].is_valid = FALSE
    BY <1>7, ReleasedELanBecomes DEF ELanBecomes
  <2>3. Ends(x)
    BY <1>3, <1>4, <2>1, <2>2 DEF ELanSeen, Ends
  <2> QED
    BY <1>5, <2>3
<1>8. ASSUME NEW nhlfes, NEW h, NEW fib, elan[l] # Free,
             ELanBecomes(l, elan[l].is_valid, elan[l].ports, nhlfes, h, fib, elan[l].ref_cnt)
      PROVE  \A y \in Services : ServiceMove(y)
  <2>1. Keeps(x)
    BY <1>3, <1>8, ELanKept DEF ELanBecomes
  <2> QED
    BY <1>5, <2>1
<1>9. ASSUME NEW k \in NhlfeSlots, DeleteELanNhlfe(l, k)
      PROVE  \A y \in Services : ServiceMove(y)
  <2>1. elan[l] # Free
    BY <1>9 DEF DeleteELanNhlfe, FindELan
  <2> QED
    BY <1>8, <1>9, <2>1, NoELanNhlfeBecomes
<1>10. ASSUME NEW k \in NhlfeSlots, NEW nhlfe \in Nhlfe, RegisterELanNhlfe(l, k, nhlfe)
      PROVE  \A y \in Services : ServiceMove(y)
  <2>1. elan[l] # Free
    BY <1>10 DEF RegisterELanNhlfe, FindELan
  <2> QED
    BY <1>8, <1>10, <2>1, ELanNhlfeBecomes
<1>11. ASSUME NEW mac \in Macs, DeleteELanFwdEntry(l, mac)
      PROVE  \A y \in Services : ServiceMove(y)
  <2>1. elan[l] # Free
    BY <1>11 DEF DeleteELanFwdEntry, FindELan
  <2> QED
    BY <1>8, <1>11, <2>1, NoFwdEntryBecomes
<1>12. ASSUME NEW mac \in Macs, NEW entry \in Port \cup Nhlfe, RegisterELanFwdEntry(l, mac, entry)
      PROVE  \A y \in Services : ServiceMove(y)
  <2>1. elan[l] # Free
    BY <1>12 DEF RegisterELanFwdEntry, ELanPortSlots, ELanNhlfeSlots, FindELan
  <2> QED
    BY <1>8, <1>12, <2>1, FwdEntryBecomes
<1>13. ASSUME NEW h \in Nexthops \cup {None}, elan[l] # Free, PutMulticast(l, h)
       PROVE  \A y \in Services : ServiceMove(y)
  BY <1>8, <1>13, MulticastBecomes
<1>14. ASSUME NEW h \in Nexthops, SetELanMulticast(l, h)
       PROVE  \A y \in Services : ServiceMove(y)
  <2>1. elan[l] # Free /\ (PutMulticast(l, h) \/ PutMulticast(l, None))
    BY <1>14 DEF SetELanMulticast, FindELan, PutMulticast
  <2> QED
    BY <1>13, <2>1
<1>15. CASE ResetELanMulticast(l)
  <2>1. elan[l] # Free /\ PutMulticast(l, None)
    BY <1>15 DEF ResetELanMulticast, FindELan, PutMulticast
  <2> QED
    BY <1>13, <2>1
<1> QED
  BY <1>6, <1>7, <1>9, <1>10, <1>11, <1>12, <1>14, <1>15 DEF ELanOwn

\* The callback works on an E-LAN that is no longer found.
LEMMA ELanReleaseMoves ==
  ASSUME TablesTypeOK, NEW l \in ELans, ELanRelease(l)
  PROVE  \A x \in Services : Keeps(x)
<1>0. elan \in [ELans -> ELan \cup {Free}]
  BY DEF TablesTypeOK
<1>1. eline' = eline /\ \A m \in ELans \ {l} : elan'[m] = elan[m]
  BY <1>0 DEF ELanRelease, ReleaseMulticast, ReleaseNhlfe, ReleaseELan
<1>2. elan[l] # Free /\ elan[l].is_valid = FALSE
  BY DEF ELanRelease, Deleted
<1>3. elan'[l] = Free \/ elan'[l].is_valid = FALSE
  <2>1. CASE ReleaseMulticast(l)
    <3>1. PutMulticast(l, None)
      BY <2>1 DEF ReleaseMulticast, PutMulticast
    <3> QED
      BY <1>2, <3>1, MulticastBecomes DEF ELanBecomes
  <2>2. ASSUME NEW k \in NhlfeSlots, ReleaseNhlfe(l, k)
        PROVE  elan'[l] = Free \/ elan'[l].is_valid = FALSE
    <3>1. ClearNhlfe(l, k)
      BY <2>2 DEF ReleaseNhlfe, ClearNhlfe
    <3> QED
      BY <1>2, <3>1, UnreleasedBecomes DEF ELanBecomes
  <2>3. CASE ReleaseELan(l)
    BY <1>0, <2>3 DEF ReleaseELan
  <2> QED
    BY <2>1, <2>2, <2>3 DEF ELanRelease
<1>4. Keeps(ELanService(l))
  BY <1>2, <1>3, ELanKept
<1> QED
  BY <1>1, <1>4, ELanAlone DEF OthersKeep

LEMMA TablesStay ==
  ASSUME UNCHANGED <<eline, elan>>
  PROVE  \A x \in Services : Keeps(x)
BY ELineKept, ELanKept, ServicesSplit

(* The steps on ports and counts. *)
LEMMA PortMoves ==
  ASSUME TablesTypeOK
  PROVE  /\ \A s \in ELines, p \in Port :
              /\ RegisterELinePort(s, p) /\ eline[s].port = None
              => Gains(ELineService(s), 0, p) /\ OthersKeep(ELineService(s))
         /\ \A s \in ELines : DeleteELinePort(s)
              => Loses(ELineService(s), 0) /\ OthersKeep(ELineService(s))
         /\ \A l \in ELans, k \in PortSlots, p \in Port : RegisterELanPort(l, k, p)
              => Gains(ELanService(l), k, p) /\ OthersKeep(ELanService(l))
         /\ \A l \in ELans, k \in PortSlots : DeleteELanPort(l, k)
              => Loses(ELanService(l), k) /\ OthersKeep(ELanService(l))
<1>1. ASSUME NEW s \in ELines, NEW p \in Port, RegisterELinePort(s, p), eline[s].port = None
      PROVE  Gains(ELineService(s), 0, p) /\ OthersKeep(ELineService(s))
  <2>1. /\ eline[s] # Free /\ elan' = elan
        /\ ELineBecomes(s, p, eline[s].nhlfe, eline[s].ref_cnt + 1)
    BY <1>1, ELinePortBecomes DEF RegisterELinePort, ELinePortIsFree, FindELine
  <2>2. ELineSeen(s) /\ ELineSeen(s)' /\ SlotsOf(ELineService(s)) = {0}
    BY ServicesSeen, SlotsSeen DEF AllSeen
  <2>3. Gains(ELineService(s), 0, p)
    BY <1>1, <2>1, <2>2 DEF ELineSeen, ELineBecomes, Gains, Puts
  <2> QED
    BY <2>1, <2>3, ELineAlone DEF ELineBecomes
<1>2. ASSUME NEW s \in ELines, DeleteELinePort(s)
      PROVE  Loses(ELineService(s), 0) /\ OthersKeep(ELineService(s))
  <2>1. /\ eline[s] # Free /\ eline[s].port # None /\ elan' = elan
        /\ ELineBecomes(s, None, eline[s].nhlfe, Decremented(eline[s].ref_cnt))
    BY <1>2, NoELinePortBecomes DEF DeleteELinePort, HasELinePort, FindELine
  <2>2. ELineSeen(s) /\ ELineSeen(s)' /\ SlotsOf(ELineService(s)) = {0}
    BY ServicesSeen, SlotsSeen DEF AllSeen
  <2>3. Loses(ELineService(s), 0)
    BY <2>1, <2>2 DEF ELineSeen, ELineBecomes, Loses, Puts
  <2> QED
    BY <2>1, <2>3, ELineAlone DEF ELineBecomes
<1>3. ASSUME NEW l \in ELans, NEW k \in PortSlots, NEW p \in Port, RegisterELanPort(l, k, p)
      PROVE  Gains(ELanService(l), k, p) /\ OthersKeep(ELanService(l))
  <2>1. /\ elan[l] # Free /\ elan[l].is_valid /\ elan[l].ports[k] = None /\ eline' = eline
    BY <1>3 DEF RegisterELanPort, ELanTakesPort, FindELan, IsFirst, FreePortSlots
  <2>2. ELanBecomes(l, elan[l].is_valid, [elan[l].ports EXCEPT ![k] = p], elan[l].nhlfes,
                    elan[l].multicast_NHLFE, elan[l].fib, elan[l].ref_cnt + 1)
    BY <1>3, ELanPortBecomes
  <2>3. ELanSeen(l) /\ ELanSeen(l)' /\ SlotsOf(ELanService(l)) = PortSlots
    BY ServicesSeen, SlotsSeen DEF AllSeen
  <2>4. elan[l].ports \in [PortSlots -> Port \cup {None}]
    BY <2>1 DEF TablesTypeOK, ELan
  <2>5. Gains(ELanService(l), k, p)
    BY <2>1, <2>2, <2>3, <2>4 DEF ELanSeen, ELanBecomes, Gains, Puts
  <2> QED
    BY <2>1, <2>2, <2>5, ELanAlone DEF ELanBecomes
<1>4. ASSUME NEW l \in ELans, NEW k \in PortSlots, DeleteELanPort(l, k)
      PROVE  Loses(ELanService(l), k) /\ OthersKeep(ELanService(l))
  <2>1. /\ elan[l] # Free /\ elan[l].is_valid /\ elan[l].ports[k] # None /\ eline' = eline
    BY <1>4 DEF DeleteELanPort, HasELanPort, FindELan
  <2>2. PICK fib : ELanBecomes(l, elan[l].is_valid, [elan[l].ports EXCEPT ![k] = None],
                    elan[l].nhlfes, elan[l].multicast_NHLFE, fib, Decremented(elan[l].ref_cnt))
    BY <1>4, NoELanPortBecomes
  <2>3. ELanSeen(l) /\ ELanSeen(l)' /\ SlotsOf(ELanService(l)) = PortSlots
    BY ServicesSeen, SlotsSeen DEF AllSeen
  <2>4. elan[l].ports \in [PortSlots -> Port \cup {None}]
    BY <2>1 DEF TablesTypeOK, ELan
  <2>5. Loses(ELanService(l), k)
    BY <2>1, <2>2, <2>3, <2>4 DEF ELanSeen, ELanBecomes, Loses, Puts
  <2> QED
    BY <2>1, <2>2, <2>5, ELanAlone DEF ELanBecomes
<1> QED
  BY <1>1, <1>2, <1>3, <1>4

LEMMA CountMoves ==
  ASSUME TablesTypeOK, NEW x \in Services, FindService(x)
  PROVE  /\ Reference(x) => Recounts(x, RefCnt(x) + 1) /\ OthersKeep(x)
         /\ Dereference(x) => Recounts(x, Decremented(RefCnt(x))) /\ OthersKeep(x)
<1>1. ASSUME NEW s \in ELines, x = ELineService(s), Reference(x) \/ Dereference(x)
      PROVE  /\ Reference(x) => Recounts(x, RefCnt(x) + 1) /\ OthersKeep(x)
             /\ Dereference(x) => Recounts(x, Decremented(RefCnt(x))) /\ OthersKeep(x)
  <2>1. ELineSeen(s) /\ ELineSeen(s)' /\ x.e_service = "e_line" /\ x.service_index = s
    BY <1>1, ServicesSeen DEF AllSeen, ELineService
  <2>2. /\ FindELine(s) /\ elan' = elan /\ eline[s].ref_cnt \in Nat
        /\ Reference(x) => PutELineCount(s, eline[s].ref_cnt + 1)
        /\ Dereference(x) => PutELineCount(s, Decremented(eline[s].ref_cnt))
    BY <1>1, <2>1 DEF ELineSeen, FindELine, Reference, Dereference, PutELineCount, TablesTypeOK,
                      ELine
  <2>3. Reference(x) => Recounts(x, RefCnt(x) + 1) /\ OthersKeep(x)
    <3> SUFFICES ASSUME Reference(x) PROVE Recounts(x, RefCnt(x) + 1) /\ OthersKeep(x)
      OBVIOUS
    <3>1. ELineBecomes(s, eline[s].port, eline[s].nhlfe, eline[s].ref_cnt + 1)
      BY <2>2, ELineCountBecomes
    <3> QED
      BY <1>1, <2>1, <2>2, <3>1, ELineAlone DEF ELineBecomes, ELineSeen, Recounts, PortsStay
  <2>4. Dereference(x) => Recounts(x, Decremented(RefCnt(x))) /\ OthersKeep(x)
    <3> SUFFICES ASSUME Dereference(x)
                 PROVE  Recounts(x, Decremented(RefCnt(x))) /\ OthersKeep(x)
      OBVIOUS
    <3>1. Decremented(eline[s].ref_cnt) \in Nat
      BY <2>2 DEF Decremented
    <3>2. ELineBecomes(s, eline[s].port, eline[s].nhlfe, Decremented(eline[s].ref_cnt))
      BY <2>2, <3>1, ELineCountBecomes
    <3> QED
      BY <1>1, <2>1, <2>2, <3>2, ELineAlone DEF ELineBecomes, ELineSeen, Recounts, PortsStay
  <2> QED
    BY <2>3, <2>4
<1>2. ASSUME NEW l \in ELans, x = ELanService(l), Reference(x) \/ Dereference(x)
      PROVE  /\ Reference(x) => Recounts(x, RefCnt(x) + 1) /\ OthersKeep(x)
             /\ Dereference(x) => Recounts(x, Decremented(RefCnt(x))) /\ OthersKeep(x)
  <2>1. ELanSeen(l) /\ ELanSeen(l)' /\ x.e_service = "e_lan" /\ x.service_index = l
    BY <1>2, ServicesSeen DEF AllSeen, ELanService
  <2>2. /\ FindELan(l) /\ eline' = eline /\ elan[l] # Free /\ elan[l].ref_cnt \in Nat
        /\ Reference(x) => PutELanCount(l, elan[l].ref_cnt + 1)
        /\ Dereference(x) => PutELanCount(l, Decremented(elan[l].ref_cnt))
    BY <1>2, <2>1 DEF ELanSeen, FindELan, Reference, Dereference, PutELanCount, TablesTypeOK,
                      ELan
  <2>3. Reference(x) => Recounts(x, RefCnt(x) + 1) /\ OthersKeep(x)
    <3> SUFFICES ASSUME Reference(x) PROVE Recounts(x, RefCnt(x) + 1) /\ OthersKeep(x)
      OBVIOUS
    <3>1. ELanBecomes(l, elan[l].is_valid, elan[l].ports, elan[l].nhlfes,
                      elan[l].multicast_NHLFE, elan[l].fib, elan[l].ref_cnt + 1)
      BY <2>2, ELanCountBecomes
    <3> QED
      BY <1>2, <2>1, <2>2, <3>1, ELanAlone DEF ELanBecomes, ELanSeen, Recounts, PortsStay
  <2>4. Dereference(x) => Recounts(x, Decremented(RefCnt(x))) /\ OthersKeep(x)
    <3> SUFFICES ASSUME Dereference(x)
                 PROVE  Recounts(x, Decremented(RefCnt(x))) /\ OthersKeep(x)
      OBVIOUS
    <3>1. Decremented(elan[l].ref_cnt) \in Nat
      BY <2>2 DEF Decremented
    <3>2. ELanBecomes(l, elan[l].is_valid, elan[l].ports, elan[l].nhlfes,
                      elan[l].multicast_NHLFE, elan[l].fib, Decremented(elan[l].ref_cnt))
      BY <2>2, <3>1, ELanCountBecomes
    <3> QED
      BY <1>2, <2>1, <2>2, <3>2, ELanAlone DEF ELanBecomes, ELanSeen, Recounts, PortsStay
  <2> QED
    BY <2>3, <2>4
<1> QED
  BY <1>1, <1>2, ServicesSplit

(***************************************************************************)
(* Ports, labels and counts agree, while one thread calls the API and the  *)
(* E-service port calls are not used.                                      *)
(***************************************************************************)
PortTaken(x, p) == FindService(x) /\ \E k \in SlotsOf(x) : PortAt(x, k) = p

VlansMatch ==
  \A p \in Port, x \in Services : vlans[p.iface][p.vlan_tci] = x <=> PortTaken(x, p)

AllCounted == \A x \in Services : Counted(x)

LabelsLead == \A c \in Cbps, b \in Labels : \A x : IsBound(c, b, x) => FindService(x)

\* delete_e_lan_port deletes one slot: no other holds the port.
UniquePorts ==
  \A x \in Services : FindService(x) =>
    \A j, k \in SlotsOf(x) : PortAt(x, j) = PortAt(x, k) /\ PortAt(x, j) # None => j = k

Holds == VlansMatch /\ AllCounted /\ LabelsLead /\ UniquePorts

\* What a call that has begun can rely on: the port it found is the one of its
\* VLAN; a VLAN is unbound when it is bound again, and a label likewise; an
\* E-LINE that a port is set up for still has none; a service that was checked
\* is there when the label is bound.
CallMatches(c) ==
  /\ c.pc = "delete" => \A x \in Services :
       vlans[c.iface][c.entry] = x =>
         FindService(x) /\ c.slot \in SlotsOf(x) /\ PortAt(x, c.slot) = PortOf(c)
  /\ c.pc = "register" => vlans[c.iface][c.entry] = None
  /\ OnVlan(c) /\ c.service # None /\ c.service.e_service = "e_line" =>
       ~(FindService(c.service) /\ PortAt(c.service, 0) # None)
  /\ OnLabel(c) => labels[c.iface][c.entry] = None
  /\ c.pc = "bind" => FindService(c.service)

CallsMatch == \A a \in Processes : \A c : call[a] = c => CallMatches(c)

Bindings == Holds /\ CallsMatch

LEMMA HoldsSeen ==
  TablesTypeOK => (Holds => VlansMatchPorts /\ ServiceAccounting /\ LabelsResolve)
<1> SUFFICES ASSUME TablesTypeOK, Holds
             PROVE  VlansMatchPorts /\ ServiceAccounting /\ LabelsResolve
  OBVIOUS
<1>1. VlansMatchPorts
  <2>1. ASSUME NEW x \in Services, NEW p PROVE HasPort(x, p) <=> PortTaken(x, p)
    <3>1. CASE x.e_service = "e_line"
      BY <3>1 DEF HasPort, PortTaken, FindService, SlotsOf, PortAt
    <3>2. CASE x.e_service = "e_lan"
      BY <3>2 DEF HasPort, PortTaken, FindService, SlotsOf, PortAt, ELanPortSlots
    <3> QED
      BY <3>1, <3>2, ServicesAre
  <2> SUFFICES ASSUME NEW i \in Csps, NEW v \in Vlans, NEW x \in Services
               PROVE  vlans[i][v] = x <=> HasPort(x, [iface |-> i, vlan_tci |-> v])
    BY DEF VlansMatchPorts
  <2>2. PICK p : p = [iface |-> i, vlan_tci |-> v]
    OBVIOUS
  <2>3. p \in Port /\ p.iface = i /\ p.vlan_tci = v
    BY <2>2 DEF Port
  <2>4. vlans[i][v] = x <=> PortTaken(x, p)
    BY <2>3 DEF Holds, VlansMatch
  <2> QED
    BY <2>1, <2>2, <2>4
<1>2. LabelsResolve
  BY DEF Holds, LabelsLead, IsBound, LabelsResolve
<1>3. ASSUME NEW s \in ELines, FindELine(s)
      PROVE  eline[s].ref_cnt = (IF eline[s].port = None THEN 0 ELSE 1)
                                  + Cardinality(Fibs(ELineService(s)))
  <2>1. PICK x : x = ELineService(s)
    OBVIOUS
  <2>2. ELineSeen(s) /\ SlotsOf(x) = {0} /\ x \in Services
    BY <2>1, ServicesSeen, SlotsSeen, ServicesSplit DEF AllSeen
  <2>3. eline[s].ref_cnt = Cardinality(Taken(x)) + Cardinality(Fibs(x))
    BY <1>3, <2>1, <2>2 DEF Holds, AllCounted, Counted, ELineSeen, FindELine
  <2>4. Taken(x) = (IF eline[s].port = None THEN {} ELSE {0})
    BY <2>1, <2>2 DEF Taken, ELineSeen
  <2>5. Cardinality(Taken(x)) = (IF eline[s].port = None THEN 0 ELSE 1)
    BY <2>4, FS_EmptySet, FS_Singleton
  <2> QED
    BY <2>1, <2>3, <2>5
<1>4. ASSUME NEW l \in ELans, FindELan(l)
      PROVE  elan[l].ref_cnt = Cardinality(PortSlots \ FreePortSlots(l))
                                 + Cardinality(Fibs(ELanService(l)))
  <2>1. PICK x : x = ELanService(l)
    OBVIOUS
  <2>2. ELanSeen(l) /\ SlotsOf(x) = PortSlots /\ x \in Services
    BY <2>1, ServicesSeen, SlotsSeen, ServicesSplit DEF AllSeen
  <2>3. elan[l].ref_cnt = Cardinality(Taken(x)) + Cardinality(Fibs(x))
    BY <1>4, <2>1, <2>2 DEF Holds, AllCounted, Counted, ELanSeen, FindELan
  <2>4. Taken(x) = PortSlots \ FreePortSlots(l)
    BY <2>1, <2>2 DEF Taken, ELanSeen, FreePortSlots
  <2> QED
    BY <2>1, <2>3, <2>4
<1>5. ServiceAccounting
  BY <1>3, <1>4 DEF ServiceAccounting
<1> QED
  BY <1>1, <1>2, <1>5

LEMMA BoundToServices ==
  ASSUME LeafType, NEW c \in Cbps, NEW b \in Labels, NEW x, IsBound(c, b, x)
  PROVE  x \in Services /\ c \in Fibs(x)
BY TypedPorts DEF LabelTable, LabelEntry, IsBound, Fibs

LEMMA PortsOfCalls ==
  ASSUME NEW c, c.iface \in Csps, c.entry \in Vlans
  PROVE  /\ PortOf(c) \in Port /\ PortOf(c) # None
         /\ PortOf(c).iface = c.iface /\ PortOf(c).vlan_tci = c.entry
BY FreeAssumption DEF PortOf, Port

RefCntIsNat == \A x \in Services : FindService(x) => RefCnt(x) \in Nat

LEMMA RefCntType == TablesTypeOK => RefCntIsNat
<1> SUFFICES ASSUME TablesTypeOK, NEW x \in Services, FindService(x) PROVE RefCnt(x) \in Nat
  BY DEF RefCntIsNat
<1> QED
  BY DEF FindService, FindELine, FindELan, RefCnt, TablesTypeOK, ELine, ELan

\* delete_e_line_service and delete_e_lan_service refuse a service in use.
LEMMA Unused ==
  ASSUME NEW x \in Services, Counted(x), FindService(x), RefCnt(x) = 0
  PROVE  Taken(x) = {} /\ Fibs(x) = {}
<1>1. PICK S : S = Taken(x)
  OBVIOUS
<1>2. PICK T : T = Fibs(x)
  OBVIOUS
<1>3. IsFiniteSet(S) /\ IsFiniteSet(T) /\ Cardinality(S) + Cardinality(T) = 0
  BY <1>1, <1>2, SlotsAreFinite DEF Counted
<1>4. Cardinality(S) \in Nat /\ Cardinality(T) \in Nat
  BY <1>3, FS_CardinalityType
<1>5. Cardinality(S) = 0 /\ Cardinality(T) = 0
  BY <1>3, <1>4
<1> QED
  BY <1>1, <1>2, <1>3, <1>5, FS_EmptySet

\* A step that changes no binding of a label, whatever it does to egress.
SameLabels ==
  \A c \in Cbps, b \in Labels : \A x : IsBound(c, b, x)' <=> IsBound(c, b, x)

LEMMA SameFibs ==
  ASSUME SameLabels
  PROVE  \A x : Fibs(x)' = Fibs(x)
BY DEF SameLabels, Fibs

LEMMA TakenStays ==
  ASSUME NEW x, PortsStay(x), FindService(x)
  PROVE  Taken(x)' = Taken(x)
<1>1. SlotsOf(x)' = SlotsOf(x)
  BY DEF SlotsOf
<1> QED
  BY <1>1 DEF PortsStay, Taken

LEMMA SlotsAreConstant == \A x : SlotsOf(x)' = SlotsOf(x)
BY DEF SlotsOf

LEMMA PortTakenStays ==
  ASSUME NEW x, PortsStay(x)
  PROVE  \A p : PortTaken(x, p)' <=> PortTaken(x, p)
BY SlotsAreConstant DEF PortsStay, PortTaken

\* Services are registered, deleted, or stay.
LEMMA HoldsStay ==
  ASSUME LeafType, Holds, \A x \in Services : ServiceMove(x), vlans' = vlans, SameLabels
  PROVE  Holds'
<1>1. ASSUME NEW x \in Services, Begins(x)
      PROVE  /\ \A p : p # None => ~PortTaken(x, p)' /\ ~PortTaken(x, p)
             /\ Counted(x)'
  <2>1. \A p : p # None => ~PortTaken(x, p)' /\ ~PortTaken(x, p)
    BY <1>1, SlotsAreConstant DEF Begins, PortTaken
  <2>2. Fibs(x) = {}
    BY <1>1 DEF Begins, Holds, LabelsLead, Fibs
  <2>3. Taken(x)' = {} /\ Fibs(x)' = {} /\ RefCnt(x)' = 0
    BY <1>1, <2>2, SlotsAreConstant, SameFibs DEF Begins, Taken
  <2>4. Cardinality({}) = 0 /\ 0 = 0 + 0
    BY FS_EmptySet
  <2>5. RefCnt(x)' = Cardinality(Taken(x)') + Cardinality(Fibs(x)')
    BY <2>3, <2>4
  <2> QED
    BY <2>1, <2>5 DEF Counted
<1>2. ASSUME NEW x \in Services, Ends(x)
      PROVE  /\ \A p : p # None => ~PortTaken(x, p)' /\ ~PortTaken(x, p)
             /\ Counted(x)' /\ Fibs(x) = {}
  <2>1. Taken(x) = {} /\ Fibs(x) = {}
    BY <1>2, Unused DEF Ends, Holds, AllCounted
  <2> QED
    BY <1>2, <2>1 DEF Ends, PortTaken, Taken, Counted
<1>3. ASSUME NEW x \in Services, Keeps(x)
      PROVE  (\A p : PortTaken(x, p)' <=> PortTaken(x, p)) /\ Counted(x)'
  <2>1. \A p : PortTaken(x, p)' <=> PortTaken(x, p)
    BY <1>3, PortTakenStays DEF Keeps
  <2>2. FindService(x)' => FindService(x) /\ RefCnt(x)' = RefCnt(x) /\ Taken(x)' = Taken(x)
    BY <1>3, TakenStays DEF Keeps, PortsStay
  <2>3. FindService(x) => RefCnt(x) = Cardinality(Taken(x)) + Cardinality(Fibs(x))
    BY DEF Counted, Holds, AllCounted
  <2>4. Fibs(x)' = Fibs(x)
    BY SameFibs
  <2>5. Counted(x)'
    BY <2>2, <2>3, <2>4 DEF Counted
  <2> QED
    BY <2>1, <2>5
<1>4. \A x \in Services : \A p : p # None => (PortTaken(x, p)' <=> PortTaken(x, p))
  BY <1>1, <1>2, <1>3 DEF ServiceMove
<1>5. VlansMatch'
  BY <1>4, FreeAssumption DEF Holds, VlansMatch
<1>6. AllCounted'
  BY <1>1, <1>2, <1>3 DEF ServiceMove, AllCounted
<1>7. LabelsLead'
  <2> SUFFICES ASSUME NEW c \in Cbps, NEW b \in Labels, NEW x, IsBound(c, b, x)'
               PROVE  FindService(x)'
    BY DEF LabelsLead
  <2>1. IsBound(c, b, x)
    BY DEF SameLabels
  <2>2. FindService(x) /\ x \in Services /\ c \in Fibs(x)
    BY <2>1, BoundToServices DEF Holds, LabelsLead
  <2> QED
    BY <1>2, <2>2 DEF ServiceMove, Keeps, PortsStay, Begins
<1>8. UniquePorts'
  <2> SUFFICES ASSUME NEW x \in Services, FindService(x)', NEW j \in SlotsOf(x),
                      NEW k \in SlotsOf(x), PortAt(x, j)' = PortAt(x, k)',
                      PortAt(x, j)' # None
               PROVE  j = k
    BY SlotsAreConstant DEF UniquePorts
  <2> QED
    BY DEF ServiceMove, Begins, Ends, Keeps, PortsStay, Holds, UniquePorts
<1> QED
  BY <1>5, <1>6, <1>7, <1>8 DEF Holds

\* Some calls of other processes go on meanwhile.
LEMMA CallStays ==
  ASSUME LeafType, Holds, \A x \in Services : ServiceMove(x), vlans' = vlans,
         NEW c \in Call, Working(c), CallMatches(c),
         \A b \in Cbps, d \in Labels : labels[b][d] = None => labels'[b][d] = None,
         c.pc = "bind" => \A x \in Services : PortsStay(x)
  PROVE  CallMatches(c)'
<1>1. ASSUME c.pc = "delete", NEW x \in Services, vlans[c.iface][c.entry] = x
      PROVE  FindService(x)' /\ c.slot \in SlotsOf(x) /\ PortAt(x, c.slot)' = PortOf(c)
  <2>1. FindService(x) /\ c.slot \in SlotsOf(x) /\ PortAt(x, c.slot) = PortOf(c)
    BY <1>1 DEF CallMatches
  <2>2. PortOf(c) # None
    BY <1>1, PortsOfCalls DEF Working, OnVlan, OnLabel
  <2>3. ~Ends(x)
    <3>1. c.slot \in Taken(x)
      BY <2>1, <2>2 DEF Taken
    <3> QED
      BY <3>1, Unused DEF Ends, Holds, AllCounted
  <2>4. Keeps(x)
    BY <2>1, <2>3 DEF ServiceMove, Begins
  <2> QED
    BY <2>1, <2>4 DEF Keeps, PortsStay
<1>2. ASSUME c.pc = "register" PROVE vlans'[c.iface][c.entry] = None
  BY <1>2 DEF CallMatches
<1>3. ASSUME OnVlan(c), c.service # None, c.service.e_service = "e_line"
      PROVE  ~(FindService(c.service)' /\ PortAt(c.service, 0)' # None)
  <2>1. PICK x : x = c.service
    OBVIOUS
  <2>2. ~(FindService(x) /\ PortAt(x, 0) # None)
    BY <1>3, <2>1 DEF CallMatches
  <2>3. x \in Services
    BY <1>3, <2>1 DEF Call
  <2>4. 0 \in SlotsOf(x)
    BY <1>3, <2>1 DEF SlotsOf
  <2>5. ~(FindService(x)' /\ PortAt(x, 0)' # None)
    BY <2>2, <2>3, <2>4 DEF ServiceMove, Keeps, PortsStay, Begins, Ends
  <2> QED
    BY <2>1, <2>5
<1>4. ASSUME OnLabel(c) PROVE labels'[c.iface][c.entry] = None
  BY <1>4 DEF CallMatches, Working, OnLabel, OnVlan
<1>5. ASSUME c.pc = "bind" PROVE FindService(c.service)'
  <2>1. PICK x : x = c.service
    OBVIOUS
  <2>2. FindService(x) /\ x \in Services
    BY <1>5, <2>1 DEF CallMatches, Working, OnVlan, OnLabel
  <2>3. FindService(x)'
    BY <1>5, <2>2 DEF PortsStay
  <2> QED
    BY <2>1, <2>3
<1>6. SlotsOf(c.service)' = SlotsOf(c.service) /\ \A x : SlotsOf(x)' = SlotsOf(x)
  BY SlotsAreConstant
<1> QED
  BY <1>1, <1>2, <1>3, <1>4, <1>5, <1>6 DEF CallMatches

LEMMA CountDown ==
  ASSUME NEW S, IsFiniteSet(S), NEW k \in S, NEW T, IsFiniteSet(T)
  PROVE  /\ Decremented(Cardinality(S) + Cardinality(T)) = Cardinality(S \ {k}) + Cardinality(T)
         /\ Decremented(Cardinality(T) + Cardinality(S)) = Cardinality(T) + Cardinality(S \ {k})
<1>1. Cardinality(S \ {k}) = Cardinality(S) - 1 /\ IsFiniteSet(S \ {k})
  BY FS_RemoveElement
<1>2. Cardinality(S) \in Nat /\ Cardinality(T) \in Nat /\ Cardinality(S \ {k}) \in Nat
  BY <1>1, FS_CardinalityType
<1> QED
  BY <1>1, <1>2 DEF Decremented

LEMMA CountUp ==
  ASSUME NEW S, IsFiniteSet(S), NEW k, k \notin S, NEW T, IsFiniteSet(T)
  PROVE  /\ Cardinality(S) + Cardinality(T) + 1 = Cardinality(S \cup {k}) + Cardinality(T)
         /\ Cardinality(T) + Cardinality(S) + 1 = Cardinality(T) + Cardinality(S \cup {k})
<1>1. Cardinality(S \cup {k}) = Cardinality(S) + 1
  BY FS_AddElement
<1>2. Cardinality(S) \in Nat /\ Cardinality(T) \in Nat
  BY FS_CardinalityType
<1> QED
  BY <1>1, <1>2

LEMMA KeptCount ==
  ASSUME NEW x, Counted(x), Keeps(x), Fibs(x)' = Fibs(x)
  PROVE  Counted(x)'
<1> SUFFICES ASSUME FindService(x)'
             PROVE  RefCnt(x)' = Cardinality(Taken(x)') + Cardinality(Fibs(x)')
  BY DEF Counted
<1>1. FindService(x) /\ RefCnt(x)' = RefCnt(x) /\ Taken(x)' = Taken(x)
  BY TakenStays DEF Keeps, PortsStay
<1> QED
  BY <1>1 DEF Counted

LEMMA FoundLabels ==
  ASSUME LeafType, LabelsLead, SameLabels,
         \A x \in Services : FindService(x) => FindService(x)'
  PROVE  LabelsLead'
<1> SUFFICES ASSUME NEW c \in Cbps, NEW b \in Labels, NEW x, IsBound(c, b, x)'
             PROVE  FindService(x)'
  BY DEF LabelsLead
<1>1. IsBound(c, b, x)
  BY DEF SameLabels
<1> QED
  BY <1>1, BoundToServices DEF LabelsLead

\* The VLAN of port p is p's alone.
LEMMA OtherVlans ==
  ASSUME LeafType, NEW p \in Port, NEW x \in Services \cup {None},
         vlans' = [vlans EXCEPT ![p.iface][p.vlan_tci] = x]
  PROVE  /\ vlans'[p.iface][p.vlan_tci] = x
         /\ \A q \in Port : q # p =>
              vlans'[q.iface][q.vlan_tci] = vlans[q.iface][q.vlan_tci]
<1>1. p.iface \in Csps /\ p.vlan_tci \in Vlans
  BY DEF Port
<1>2. \A q \in Port : q # p => /\ q.iface \in Csps /\ q.vlan_tci \in Vlans
                               /\ q.iface # p.iface \/ q.vlan_tci # p.vlan_tci
  BY DEF Port
<1> QED
  BY <1>1, <1>2, TypedPorts

LEMMA UnbindHolds ==
  ASSUME LeafType, Holds, NEW p \in Port, SameLabels,
         vlans' = [vlans EXCEPT ![p.iface][p.vlan_tci] = None],
         NEW x \in Services, NEW k, Loses(x, k), PortAt(x, k) = p, OthersKeep(x)
  PROVE  Holds'
<1>1. /\ FindService(x) /\ FindService(x)' /\ k \in SlotsOf(x) /\ p # None
      /\ PortAt(x, k)' = None /\ RefCnt(x)' = Decremented(RefCnt(x))
      /\ \A j \in SlotsOf(x) \ {k} : PortAt(x, j)' = PortAt(x, j) /\ PortAt(x, j) # p
  BY FreeAssumption DEF Loses, Puts, Holds, UniquePorts
<1>2. \A q \in Port : PortTaken(x, q)' <=> PortTaken(x, q) /\ q # p
  <2>1. ASSUME NEW q \in Port PROVE q # None
    BY FreeAssumption
  <2> QED
    BY <1>1, <2>1, SlotsAreConstant DEF PortTaken
<1>3. \A y \in Services \ {x} : \A q : PortTaken(y, q)' <=> PortTaken(y, q)
  BY PortTakenStays DEF OthersKeep, Keeps
<1>4. VlansMatch'
  <2> SUFFICES ASSUME NEW q \in Port, NEW y \in Services
               PROVE  vlans'[q.iface][q.vlan_tci] = y <=> PortTaken(y, q)'
    BY DEF VlansMatch
  <2>1. CASE q # p
    <3>1. PortTaken(y, q)' <=> PortTaken(y, q)
      BY <1>2, <1>3, <2>1
    <3> QED
      BY <2>1, <3>1, OtherVlans DEF Holds, VlansMatch
  <2>2. CASE q = p
    <3>1. PortTaken(x, p)
      BY <1>1 DEF PortTaken
    <3>2. vlans[p.iface][p.vlan_tci] = x
      BY <3>1 DEF Holds, VlansMatch
    <3>3. y # x => ~PortTaken(y, p)
      BY <3>2 DEF Holds, VlansMatch
    <3>4. ~PortTaken(y, p)'
      BY <1>2, <1>3, <3>3
    <3> QED
      BY <2>2, <3>4, OtherVlans, LeafAssumption
  <2> QED
    BY <2>1, <2>2
<1>5. AllCounted'
  <2>1. Taken(x)' = Taken(x) \ {k} /\ k \in Taken(x)
    BY <1>1, SlotsAreConstant DEF Taken
  <2>2. Counted(x)'
    <3>1. RefCnt(x)' = Decremented(Cardinality(Taken(x)) + Cardinality(Fibs(x)))
      BY <1>1 DEF Holds, AllCounted, Counted
    <3>2. RefCnt(x)' = Cardinality(Taken(x) \ {k}) + Cardinality(Fibs(x))
      BY <2>1, <3>1, CountDown, SlotsAreFinite
    <3>3. Fibs(x)' = Fibs(x)
      BY SameFibs
    <3> QED
      BY <2>1, <3>2, <3>3 DEF Counted
  <2>3. ASSUME NEW y \in Services \ {x} PROVE Counted(y)'
    BY SameFibs, KeptCount DEF OthersKeep, Holds, AllCounted
  <2> QED
    BY <2>2, <2>3 DEF AllCounted
<1>6. LabelsLead'
  BY <1>1, FoundLabels DEF OthersKeep, Keeps, PortsStay, Holds
<1>7. UniquePorts'
  <2> SUFFICES ASSUME NEW y \in Services, FindService(y)', NEW i \in SlotsOf(y),
                      NEW j \in SlotsOf(y), PortAt(y, i)' = PortAt(y, j)', PortAt(y, i)' # None
               PROVE  i = j
    BY SlotsAreConstant DEF UniquePorts
  <2>1. CASE y = x
    BY <1>1, <2>1 DEF Holds, UniquePorts
  <2>2. CASE y # x
    BY <2>2 DEF OthersKeep, Keeps, PortsStay, Holds, UniquePorts
  <2> QED
    BY <2>1, <2>2
<1> QED
  BY <1>4, <1>5, <1>6, <1>7 DEF Holds

LEMMA BindHolds ==
  ASSUME LeafType, Holds, NEW p \in Port, SameLabels, NEW x \in Services,
         vlans[p.iface][p.vlan_tci] = None,
         vlans' = [vlans EXCEPT ![p.iface][p.vlan_tci] = x],
         NEW k, Gains(x, k, p), OthersKeep(x)
  PROVE  Holds'
<1>0. \A y \in Services : ~PortTaken(y, p)
  BY LeafAssumption DEF Holds, VlansMatch
<1>1. /\ FindService(x) /\ FindService(x)' /\ k \in SlotsOf(x) /\ p # None
      /\ PortAt(x, k)' = p /\ PortAt(x, k) = None /\ RefCnt(x)' = RefCnt(x) + 1
      /\ \A j \in SlotsOf(x) \ {k} : PortAt(x, j)' = PortAt(x, j) /\ PortAt(x, j) # p
  BY <1>0, FreeAssumption DEF Gains, Puts, PortTaken
<1>2. \A q \in Port : PortTaken(x, q)' <=> PortTaken(x, q) \/ q = p
  <2>1. ASSUME NEW q \in Port PROVE q # None
    BY FreeAssumption
  <2> QED
    BY <1>1, <2>1, SlotsAreConstant DEF PortTaken
<1>3. \A y \in Services \ {x} : \A q : PortTaken(y, q)' <=> PortTaken(y, q)
  BY PortTakenStays DEF OthersKeep, Keeps
<1>4. VlansMatch'
  <2> SUFFICES ASSUME NEW q \in Port, NEW y \in Services
               PROVE  vlans'[q.iface][q.vlan_tci] = y <=> PortTaken(y, q)'
    BY DEF VlansMatch
  <2>1. CASE q # p
    <3>1. PortTaken(y, q)' <=> PortTaken(y, q)
      BY <1>2, <1>3, <2>1
    <3> QED
      BY <2>1, <3>1, OtherVlans DEF Holds, VlansMatch
  <2>2. CASE q = p
    <3>1. vlans'[p.iface][p.vlan_tci] = x
      BY OtherVlans
    <3>2. PortTaken(y, p)' <=> y = x
      BY <1>0, <1>2, <1>3
    <3> QED
      BY <2>2, <3>1, <3>2
  <2> QED
    BY <2>1, <2>2
<1>5. AllCounted'
  <2>1. Taken(x)' = Taken(x) \cup {k} /\ k \notin Taken(x)
    BY <1>1, SlotsAreConstant DEF Taken
  <2>2. Counted(x)'
    <3>1. RefCnt(x)' = Cardinality(Taken(x)) + Cardinality(Fibs(x)) + 1
      BY <1>1 DEF Holds, AllCounted, Counted
    <3>2. RefCnt(x)' = Cardinality(Taken(x) \cup {k}) + Cardinality(Fibs(x))
      BY <2>1, <3>1, CountUp, SlotsAreFinite
    <3>3. Fibs(x)' = Fibs(x)
      BY SameFibs
    <3> QED
      BY <2>1, <3>2, <3>3 DEF Counted
  <2>3. ASSUME NEW y \in Services \ {x} PROVE Counted(y)'
    BY SameFibs, KeptCount DEF OthersKeep, Holds, AllCounted
  <2> QED
    BY <2>2, <2>3 DEF AllCounted
<1>6. LabelsLead'
  BY <1>1, FoundLabels DEF OthersKeep, Keeps, PortsStay, Holds
<1>7. UniquePorts'
  <2> SUFFICES ASSUME NEW y \in Services, FindService(y)', NEW i \in SlotsOf(y),
                      NEW j \in SlotsOf(y), PortAt(y, i)' = PortAt(y, j)', PortAt(y, i)' # None
               PROVE  i = j
    BY SlotsAreConstant DEF UniquePorts
  <2>1. CASE y = x
    BY <1>1, <2>1 DEF Holds, UniquePorts
  <2>2. CASE y # x
    BY <2>2 DEF OthersKeep, Keeps, PortsStay, Holds, UniquePorts
  <2> QED
    BY <2>1, <2>2
<1> QED
  BY <1>4, <1>5, <1>6, <1>7 DEF Holds

\* A label is bound to x, or no longer: the count of x follows the first and
\* the last label of the FIB.
LEMMA LabelHolds ==
  ASSUME LeafType, Holds, vlans' = vlans, NEW x \in Services, OthersKeep(x),
         FindService(x), NEW n, Recounts(x, n),
         n = Cardinality(Taken(x)) + Cardinality(Fibs(x)'),
         \A y \in Services \ {x} : Fibs(y)' = Fibs(y),
         \A c \in Cbps, b \in Labels : \A y : IsBound(c, b, y)' => IsBound(c, b, y) \/ y = x
  PROVE  Holds'
<1>1. \A y \in Services : PortsStay(y)
  BY DEF OthersKeep, Keeps, Recounts
<1>2. VlansMatch'
  <2>1. \A y \in Services : \A q : PortTaken(y, q)' <=> PortTaken(y, q)
    BY <1>1, PortTakenStays
  <2> QED
    BY <2>1 DEF VlansMatch, Holds
<1>3. AllCounted'
  <2>1. Counted(x)'
    <3>1. Taken(x)' = Taken(x) /\ RefCnt(x)' = n
      BY <1>1, TakenStays DEF Recounts
    <3> QED
      BY <3>1 DEF Counted
  <2>2. ASSUME NEW y \in Services \ {x} PROVE Counted(y)'
    BY KeptCount DEF OthersKeep, Holds, AllCounted
  <2> QED
    BY <2>1, <2>2 DEF AllCounted
<1>4. LabelsLead'
  <2> SUFFICES ASSUME NEW c \in Cbps, NEW b \in Labels, NEW y, IsBound(c, b, y)'
               PROVE  FindService(y)'
    BY DEF LabelsLead
  <2>1. y \in Services /\ FindService(y)
    BY BoundToServices DEF Holds, LabelsLead
  <2> QED
    BY <1>1, <2>1 DEF PortsStay
<1>5. UniquePorts'
  <2> SUFFICES ASSUME NEW y \in Services, FindService(y)', NEW i \in SlotsOf(y),
                      NEW j \in SlotsOf(y), PortAt(y, i)' = PortAt(y, j)', PortAt(y, i)' # None
               PROVE  i = j
    BY SlotsAreConstant DEF UniquePorts
  <2> QED
    BY <1>1 DEF PortsStay, Holds, UniquePorts
<1> QED
  BY <1>2, <1>3, <1>4, <1>5 DEF Holds

(* The steps of the program, as the lemmas above see them. *)
LEMMA ResetLabelHolds ==
  ASSUME LeafType, Holds, NEW c \in Cbps, NEW b \in Labels, ResetLabel(c, b), vlans' = vlans
  PROVE  /\ Holds' /\ \A y \in Services : PortsStay(y)
         /\ labels'[c][b] = None
         /\ \A d \in Cbps, f \in Labels : labels[d][f] = None => labels'[d][f] = None
<1>1. /\ labels'[c][b] = None
      /\ \A d \in Cbps, f \in Labels : d # c \/ f # b => labels'[d][f] = labels[d][f]
  <2>1. labels' = [labels EXCEPT ![c][b] = None]
    BY DEF ResetLabel
  <2> QED
    BY <2>1, TypedPorts DEF LabelTable
<1>2. \A d \in Cbps, f \in Labels : \A y :
        IsBound(d, f, y)' <=> IsBound(d, f, y) /\ (d # c \/ f # b)
  BY <1>1 DEF IsBound
<1>3. \A d \in Cbps, f \in Labels : labels[d][f] = None => labels'[d][f] = None
  BY <1>1
<1>4. CASE labels[c][b] = None
  <2>1. UNCHANGED <<eline, elan>>
    BY <1>4 DEF ResetLabel, tables
  <2>2. \A y \in Services : Keeps(y) /\ ServiceMove(y) /\ PortsStay(y)
    BY <2>1, TablesStay DEF ServiceMove, Keeps
  <2>3. SameLabels
    BY <1>2, <1>4 DEF SameLabels, IsBound
  <2> QED
    BY <1>1, <1>3, <2>2, <2>3, HoldsStay
<1>5. CASE labels[c][b] # None
  <2>1. PICK x : x = labels[c][b].service
    OBVIOUS
  <2>2. x \in Services /\ FindService(x) /\ IsBound(c, b, x) /\ c \in Fibs(x)
    <3>1. IsBound(c, b, x)
      BY <1>5, <2>1 DEF IsBound
    <3> QED
      BY <3>1, BoundToServices DEF Holds, LabelsLead
  <2>3. \A y : y # x => ~IsBound(c, b, y)
    BY <2>1 DEF IsBound
  <2>4. \A y \in Services \ {x} : Fibs(y)' = Fibs(y)
    BY <1>2, <2>3 DEF Fibs
  <2>5. \A d \in Cbps, f \in Labels : \A y : IsBound(d, f, y)' => IsBound(d, f, y) \/ y = x
    BY <1>2
  <2>6. RefCnt(x) = Cardinality(Taken(x)) + Cardinality(Fibs(x))
    BY <2>2 DEF Holds, AllCounted, Counted
  <2>7. CASE IsOnlyLabel(c, b, x)
    <3>1. Dereference(x)
      BY <1>5, <2>1, <2>7 DEF ResetLabel
    <3>2. Recounts(x, Decremented(RefCnt(x))) /\ OthersKeep(x)
      BY <2>2, <3>1, CountMoves, TypedCalls
    <3>3. Fibs(x)' = Fibs(x) \ {c}
      BY <1>2, <2>7 DEF Fibs, IsOnlyLabel
    <3>4. PICK n : n = Decremented(RefCnt(x))
      OBVIOUS
    <3>5. n = Cardinality(Taken(x)) + Cardinality(Fibs(x)')
      BY <2>2, <2>6, <3>3, <3>4, CountDown, SlotsAreFinite
    <3>6. Holds'
      BY <2>2, <2>4, <2>5, <3>2, <3>4, <3>5, LabelHolds
    <3>7. \A y \in Services : PortsStay(y)
      BY <3>2 DEF Recounts, OthersKeep, Keeps
    <3> QED
      BY <1>1, <1>3, <3>6, <3>7
  <2>8. CASE ~IsOnlyLabel(c, b, x)
    <3>1. UNCHANGED <<eline, elan>>
      BY <1>5, <2>1, <2>8 DEF ResetLabel, tables
    <3>2. \A y \in Services : Keeps(y)
      BY <3>1, TablesStay
    <3>3. Fibs(x)' = Fibs(x)
      <4>1. PICK f \in Labels \ {b} : IsBound(c, f, x)
        BY <2>8 DEF IsOnlyLabel
      <4>2. IsBound(c, f, x)'
        BY <1>2, <4>1
      <4> QED
        BY <1>2, <4>1, <4>2 DEF Fibs
    <3>4. Recounts(x, RefCnt(x)) /\ OthersKeep(x)
      BY <2>2, <3>2 DEF Recounts, Keeps, OthersKeep
    <3>5. PICK n : n = RefCnt(x)
      OBVIOUS
    <3>6. n = Cardinality(Taken(x)) + Cardinality(Fibs(x)')
      BY <2>6, <3>3, <3>5
    <3>7. Holds'
      BY <2>2, <2>4, <2>5, <3>4, <3>5, <3>6, LabelHolds
    <3> QED
      BY <1>1, <1>3, <3>2, <3>7 DEF Keeps
  <2> QED
    BY <2>7, <2>8
<1> QED
  BY <1>4, <1>5

LEMMA BindLabelHolds ==
  ASSUME LeafType, Holds, NEW c \in Cbps, NEW b \in Labels, NEW x \in Services,
         labels[c][b] = None, FindService(x), vlans' = vlans,
         labels' = [labels EXCEPT ![c][b] = [service |-> x, egress |-> None]],
         IF IsOnlyLabel(c, b, x) THEN Reference(x) ELSE UNCHANGED tables
  PROVE  Holds' /\ \A y \in Services : PortsStay(y)
<1>0. PICK e : e = [service |-> x, egress |-> None]
  OBVIOUS
<1>1. /\ labels'[c][b] = e /\ e # None /\ e.service = x
      /\ \A d \in Cbps, f \in Labels : d # c \/ f # b => labels'[d][f] = labels[d][f]
  <2>1. e \in LabelEntry /\ e.service = x
    BY <1>0 DEF LabelEntry
  <2>2. labels' = [labels EXCEPT ![c][b] = e]
    BY <1>0
  <2>3. /\ labels'[c][b] = e
        /\ \A d \in Cbps, f \in Labels : d # c \/ f # b => labels'[d][f] = labels[d][f]
    BY <2>2, TypedPorts DEF LabelTable
  <2> QED
    BY <2>1, <2>3, LeafAssumption
<1>2. \A d \in Cbps, f \in Labels : \A y :
        IsBound(d, f, y)' <=> IsBound(d, f, y) \/ (d = c /\ f = b /\ y = x)
  BY <1>1 DEF IsBound
<1>3. \A y : ~IsBound(c, b, y)
  BY DEF IsBound
<1>4. \A y \in Services \ {x} : Fibs(y)' = Fibs(y)
  BY <1>2 DEF Fibs
<1>5. \A d \in Cbps, f \in Labels : \A y : IsBound(d, f, y)' => IsBound(d, f, y) \/ y = x
  BY <1>2
<1>6. RefCnt(x) = Cardinality(Taken(x)) + Cardinality(Fibs(x))
  BY DEF Holds, AllCounted, Counted
<1>7. CASE IsOnlyLabel(c, b, x)
  <2>1. Recounts(x, RefCnt(x) + 1) /\ OthersKeep(x)
    BY <1>7, CountMoves, TypedCalls
  <2>2. Fibs(x)' = Fibs(x) \cup {c} /\ c \notin Fibs(x)
    <3>1. c \notin Fibs(x)
      BY <1>3, <1>7 DEF Fibs, IsOnlyLabel
    <3> QED
      BY <1>2, <3>1 DEF Fibs
  <2>3. PICK n : n = RefCnt(x) + 1
    OBVIOUS
  <2>4. n = Cardinality(Taken(x)) + Cardinality(Fibs(x)')
    BY <1>6, <2>2, <2>3, CountUp, SlotsAreFinite
  <2>5. Holds'
    BY <1>4, <1>5, <2>1, <2>3, <2>4, LabelHolds
  <2> QED
    BY <2>1, <2>5 DEF Recounts, OthersKeep, Keeps
<1>8. CASE ~IsOnlyLabel(c, b, x)
  <2>1. \A y \in Services : Keeps(y)
    BY <1>8, TablesStay DEF tables
  <2>2. Fibs(x)' = Fibs(x)
    <3>1. PICK f \in Labels \ {b} : IsBound(c, f, x)
      BY <1>8 DEF IsOnlyLabel
    <3> QED
      BY <1>2, <3>1 DEF Fibs
  <2>3. Recounts(x, RefCnt(x)) /\ OthersKeep(x)
    BY <2>1 DEF Recounts, Keeps, OthersKeep
  <2>4. PICK n : n = RefCnt(x)
    OBVIOUS
  <2>5. n = Cardinality(Taken(x)) + Cardinality(Fibs(x)')
    BY <1>6, <2>2, <2>4
  <2>6. Holds'
    BY <1>4, <1>5, <2>3, <2>4, <2>5, LabelHolds
  <2> QED
    BY <2>1, <2>6 DEF Keeps
<1> QED
  BY <1>7, <1>8

(* The calls that have begun. *)
LEMMA IdleMatches == CallMatches(Idle) /\ CallMatches(Idle)'
<1>1. CallMatches(Idle)
  BY DEF CallMatches, Idle, OnVlan, OnLabel
<1> QED
  BY <1>1, PTL

LEMMA QuietCalls ==
  ASSUME LeafType, Bindings, \A x \in Services : ServiceMove(x), vlans' = vlans,
         \A b \in Cbps, d \in Labels : labels[b][d] = None => labels'[b][d] = None,
         \/ \A x \in Services : PortsStay(x)
         \/ \A o \in Processes : call[o].pc # "bind"
  PROVE  \A o \in Processes : \A c : call[o] = c => CallMatches(c)'
<1> SUFFICES ASSUME NEW o \in Processes, NEW c, call[o] = c PROVE CallMatches(c)'
  OBVIOUS
<1>1. (c = Idle \/ (c \in Call /\ Working(c))) /\ CallMatches(c)
  BY TypedCalls DEF LeafType, CallsInv, Bindings, CallsMatch
<1>2. c.pc = "bind" => \A x \in Services : PortsStay(x)
  OBVIOUS
<1> QED
  BY <1>1, <1>2, IdleMatches, CallStays DEF Bindings, CallsMatch

LEMMA OneCallMatches ==
  ASSUME LeafType, NEW a \in Processes, NEW c, call' = [call EXCEPT ![a] = c],
         CallMatches(c)',
         \A o \in Processes \ {a} : \A d : call[o] = d => CallMatches(d)'
  PROVE  CallsMatch'
<1> SUFFICES ASSUME NEW o \in Processes, NEW d, call'[o] = d PROVE CallMatches(d)'
  BY DEF CallsMatch
<1>1. call'[o] = IF o = a THEN c ELSE call[o]
  BY TypedCalls
<1> QED
  BY <1>1

\* The port of another call, and what that call relies on.
LEMMA OtherCallMatches ==
  ASSUME LeafType, Holds, NEW p \in Port, NEW x \in Services, NEW k, OthersKeep(x),
         FindService(x), FindService(x)', PortAt(x, k) \in {None, p},
         \A j \in SlotsOf(x) \ {k} : PortAt(x, j)' = PortAt(x, j),
         \A q \in Port : q # p =>
           vlans'[q.iface][q.vlan_tci] = vlans[q.iface][q.vlan_tci],
         labels' = labels,
         NEW c \in Call, Working(c), CallMatches(c), c.iface # p.iface,
         PortAt(x, k)' = None \/ c.service = None
  PROVE  CallMatches(c)'
<1>1. ASSUME OnVlan(c)
      PROVE  /\ vlans'[c.iface][c.entry] = vlans[c.iface][c.entry]
             /\ PortOf(c) # None /\ PortOf(c) # p
  <2>1. c.iface \in Csps /\ c.entry \in Vlans
    BY <1>1 DEF Working, OnVlan, OnLabel
  <2>2. /\ PortOf(c) \in Port /\ PortOf(c) # None
        /\ PortOf(c).iface = c.iface /\ PortOf(c).vlan_tci = c.entry
    BY <2>1, PortsOfCalls
  <2> QED
    BY <2>2
<1>2. ASSUME c.pc = "delete", NEW y \in Services, vlans'[c.iface][c.entry] = y
      PROVE  FindService(y)' /\ c.slot \in SlotsOf(y) /\ PortAt(y, c.slot)' = PortOf(c)
  <2>1. OnVlan(c)
    BY <1>2 DEF OnVlan
  <2>2. FindService(y) /\ c.slot \in SlotsOf(y) /\ PortAt(y, c.slot) = PortOf(c)
    BY <1>1, <1>2, <2>1 DEF CallMatches
  <2>3. y = x => c.slot # k
    BY <1>1, <2>1, <2>2
  <2> QED
    BY <2>2, <2>3 DEF OthersKeep, Keeps, PortsStay
<1>3. ASSUME c.pc = "register" PROVE vlans'[c.iface][c.entry] = None
  <2>1. OnVlan(c)
    BY <1>3 DEF OnVlan
  <2> QED
    BY <1>1, <1>3, <2>1 DEF CallMatches
<1>4. ASSUME OnVlan(c), c.service # None, c.service.e_service = "e_line"
      PROVE  ~(FindService(c.service)' /\ PortAt(c.service, 0)' # None)
  <2>1. PICK y : y = c.service
    OBVIOUS
  <2>2. ~(FindService(y) /\ PortAt(y, 0) # None) /\ y \in Services /\ PortAt(x, k)' = None
    BY <1>4, <2>1 DEF CallMatches, Call
  <2>3. 0 \in SlotsOf(y)
    BY <1>4, <2>1 DEF SlotsOf
  <2>4. ~(FindService(y)' /\ PortAt(y, 0)' # None)
    BY <2>2, <2>3 DEF OthersKeep, Keeps, PortsStay
  <2> QED
    BY <2>1, <2>4
<1>5. ASSUME OnLabel(c) PROVE labels'[c.iface][c.entry] = None
  BY <1>5 DEF CallMatches
<1>6. ASSUME c.pc = "bind" PROVE FindService(c.service)'
  <2>1. PICK y : y = c.service
    OBVIOUS
  <2>2. FindService(y) /\ y \in Services
    BY <1>6, <2>1 DEF CallMatches, Working, OnVlan, OnLabel
  <2>3. FindService(y)'
    BY <2>2 DEF OthersKeep, Keeps, PortsStay
  <2> QED
    BY <2>1, <2>3
<1> QED
  BY <1>2, <1>3, <1>4, <1>5, <1>6, SlotsAreConstant DEF CallMatches

(* One step each. *)
LEMMA UnboundBindings ==
  ASSUME LeafType, Bindings, NEW a \in Processes, OnVlan(call[a]), Unbound(a),
         NEW x \in Services, NEW k, Loses(x, k), OthersKeep(x), PortAt(x, k) = PortOf(call[a])
  PROVE  Bindings'
<1>0. call[a].pc # "idle"
  BY DEF OnVlan
<1>1. PICK p : p = PortOf(call[a])
  OBVIOUS
<1>2. /\ call[a].iface \in Csps /\ call[a].entry \in Vlans /\ call[a] \in Call
      /\ p \in Port /\ p.iface = call[a].iface /\ p.vlan_tci = call[a].entry
  BY <1>0, <1>1, CallsKnown, PortsOfCalls
<1>3. vlans' = [vlans EXCEPT ![p.iface][p.vlan_tci] = None] /\ labels' = labels
  BY <1>2 DEF Unbound
<1>4. SameLabels
  BY <1>3 DEF SameLabels, IsBound
<1>5. Holds'
  BY <1>1, <1>2, <1>3, <1>4, UnbindHolds DEF Bindings
<1>6. /\ vlans'[p.iface][p.vlan_tci] = None
      /\ \A q \in Port : q # p => vlans'[q.iface][q.vlan_tci] = vlans[q.iface][q.vlan_tci]
  BY <1>2, <1>3, OtherVlans
<1>7. /\ FindService(x) /\ FindService(x)' /\ PortAt(x, k) = p /\ PortAt(x, k)' = None
      /\ \A j \in SlotsOf(x) \ {k} : PortAt(x, j)' = PortAt(x, j)
  BY <1>1 DEF Loses, Puts
<1>8. ASSUME NEW o \in Processes \ {a}, NEW d, call[o] = d PROVE CallMatches(d)'
  <2>1. d = Idle \/ (d \in Call /\ Working(d) /\ d.iface # p.iface)
    BY <1>2, <1>8, TypedCalls DEF LeafType, CallsInv, Exclusive
  <2>2. CallMatches(d)
    BY <1>8 DEF Bindings, CallsMatch
  <2> QED
    BY <1>2, <1>3, <1>6, <1>7, <2>1, <2>2, IdleMatches, OtherCallMatches DEF Bindings
<1>9. PICK c : c = IF call[a].service = None THEN Idle
                   ELSE [call[a] EXCEPT !.pc = "register", !.slot = 0]
  OBVIOUS
<1>10. CallMatches(c)'
  <2>1. CASE c = Idle
    BY <2>1, IdleMatches
  <2>2. CASE c # Idle
    <3>1. /\ c.pc = "register" /\ c.iface = p.iface /\ c.entry = p.vlan_tci
          /\ c.service = call[a].service /\ c.service \in Services
      BY <1>2, <1>9, <2>2 DEF Call
    <3>2. ASSUME c.service.e_service = "e_line"
          PROVE  ~(FindService(c.service)' /\ PortAt(c.service, 0)' # None)
      <4>1. PICK y : y = c.service
        OBVIOUS
      <4>2. CallMatches(call[a])
        BY DEF Bindings, CallsMatch
      <4>3. ~(FindService(y) /\ PortAt(y, 0) # None) /\ y \in Services
        BY <3>1, <3>2, <4>1, <4>2, LeafAssumption DEF CallMatches
      <4>4. 0 \in SlotsOf(y)
        BY <3>2, <4>1 DEF SlotsOf
      <4>5. ~(FindService(y)' /\ PortAt(y, 0)' # None)
        BY <1>7, <4>3, <4>4 DEF OthersKeep, Keeps, PortsStay
      <4> QED
        BY <4>1, <4>5
    <3>3. c.pc # "delete" /\ c.pc # "bind" /\ ~OnLabel(c)
      BY <3>1 DEF OnLabel
    <3>4. vlans'[c.iface][c.entry] = None
      BY <1>6, <3>1
    <3> QED
      BY <3>2, <3>3, <3>4 DEF CallMatches
  <2> QED
    BY <2>1, <2>2
<1>11. CallsMatch'
  <2>1. call' = [call EXCEPT ![a] = c]
    BY <1>9 DEF Unbound
  <2> QED
    BY <1>8, <1>10, <2>1, OneCallMatches
<1> QED
  BY <1>5, <1>11 DEF Bindings

\* Nothing changes but a call, which relies on what holds.
LEMMA CallBindings ==
  ASSUME LeafType, Bindings, NEW a \in Processes, UNCHANGED <<tables, vlans, labels>>,
         NEW c, call' = [call EXCEPT ![a] = c], CallMatches(c)'
  PROVE  Bindings'
<1>1. \A x \in Services : Keeps(x)
  BY TablesStay DEF tables
<1>2. SameLabels
  BY DEF SameLabels, IsBound
<1>3. \A x \in Services : ServiceMove(x) /\ PortsStay(x)
  BY <1>1 DEF ServiceMove, Keeps
<1>4. Holds'
  BY <1>2, <1>3, HoldsStay DEF Bindings
<1>5. \A o \in Processes : \A d : call[o] = d => CallMatches(d)'
  BY <1>3, QuietCalls
<1>6. CallsMatch'
  BY <1>5, OneCallMatches
<1> QED
  BY <1>4, <1>6 DEF Bindings

\* Services and labels change; the calls that have begun stay.
LEMMA QuietBindings ==
  ASSUME LeafType, Bindings, \A x \in Services : ServiceMove(x), UNCHANGED <<vlans, call>>,
         SameLabels, \A b \in Cbps, d \in Labels : labels[b][d] = None => labels'[b][d] = None,
         \/ \A x \in Services : Keeps(x)
         \/ \A o \in Processes : call[o].pc # "bind"
  PROVE  Bindings'
<1>1. Holds'
  BY HoldsStay DEF Bindings
<1>2. \A o \in Processes : \A d : call[o] = d => CallMatches(d)'
  BY QuietCalls DEF Keeps
<1>3. CallsMatch'
  BY <1>2 DEF CallsMatch
<1> QED
  BY <1>1, <1>3 DEF Bindings

LEMMA ReleaseBindingBindings ==
  ASSUME LeafType, Bindings, NEW a \in Processes, ReleaseBinding(a)
  PROVE  Bindings'
<1>1. call[a].pc = "release" /\ OnVlan(call[a])
  BY DEF ReleaseBinding, OnVlan
<1>2. PICK p : p = PortOf(call[a])
  OBVIOUS
<1>3. /\ call[a].iface \in Csps /\ call[a].entry \in Vlans /\ call[a] \in Call
      /\ Working(call[a])
      /\ p \in Port /\ p.iface = call[a].iface /\ p.vlan_tci = call[a].entry /\ p # None
  BY <1>1, <1>2, CallsKnown, PortsOfCalls
<1>4. PICK bound : bound = vlans[call[a].iface][call[a].entry]
  OBVIOUS
<1>5. bound \in Services \cup {None} /\ (bound # None => PortTaken(bound, p))
  <2>1. bound \in Services \cup {None}
    BY <1>1, <1>4, CallsKnown
  <2>2. ASSUME bound \in Services PROVE PortTaken(bound, p)
    BY <1>3, <1>4, <2>2 DEF Bindings, Holds, VlansMatch
  <2> QED
    BY <2>1, <2>2
<1>6. CASE bound = None
  <2>1. Unbound(a) /\ UNCHANGED tables
    BY <1>4, <1>6 DEF ReleaseBinding
  <2>2. vlans' = vlans
    <3>1. vlans' = [vlans EXCEPT ![call[a].iface][call[a].entry] = None]
      BY <2>1 DEF Unbound
    <3> QED
      BY <1>3, <1>4, <1>6, <3>1, TypedPorts
  <2>3. PICK c : c = IF call[a].service = None THEN Idle
                     ELSE [call[a] EXCEPT !.pc = "register", !.slot = 0]
    OBVIOUS
  <2>4. call' = [call EXCEPT ![a] = c] /\ labels' = labels
    BY <2>1, <2>3 DEF Unbound
  <2>5. CallMatches(c)
    <3>1. CASE c = Idle
      BY <3>1, IdleMatches
    <3>2. CASE c # Idle
      <4>1. /\ c.pc = "register" /\ c.iface = call[a].iface /\ c.entry = call[a].entry
            /\ c.service = call[a].service
        BY <1>3, <2>3, <3>2 DEF Call
      <4>2. CallMatches(call[a])
        BY DEF Bindings, CallsMatch
      <4>3. c.pc # "delete" /\ c.pc # "bind" /\ ~OnLabel(c)
        BY <4>1 DEF OnLabel
      <4> QED
        BY <1>1, <1>4, <1>6, <4>1, <4>2, <4>3 DEF CallMatches
    <3> QED
      BY <3>1, <3>2
  <2>6. CallMatches(c)'
    <3>1. \A x \in Services : PortsStay(x) /\ ServiceMove(x)
      BY <2>1, TablesStay DEF tables, Keeps, ServiceMove
    <3>2. c = Idle \/ (c \in Call /\ Working(c))
      <4>1. c # Idle => /\ c \in Call /\ c.pc = "register" /\ c.iface = call[a].iface
                        /\ c.entry = call[a].entry /\ c.service \in Services
        BY <1>3, <2>3 DEF Call, Pc
      <4> QED
        BY <1>3, <4>1 DEF Working, OnVlan
    <3> QED
      BY <2>2, <2>4, <2>5, <3>1, <3>2, IdleMatches, CallStays DEF Bindings
  <2> QED
    BY <2>1, <2>2, <2>4, <2>6, CallBindings
<1>7. CASE bound # None /\ bound.e_service = "e_line"
  <2>1. bound \in Services /\ FindService(bound) /\ PortAt(bound, 0) = p
    BY <1>5, <1>7 DEF PortTaken, SlotsOf
  <2>2. PICK s \in ELines : bound = ELineService(s)
    BY <1>7, <2>1, ServicesSplit DEF ELanService
  <2>3. bound.service_index = s /\ ELineSeen(s)
    BY <2>2, ServicesSeen DEF AllSeen, ELineService
  <2>4. HasELinePort(s)
    BY <1>3, <2>1, <2>2, <2>3 DEF ELineSeen, HasELinePort, FindELine
  <2>5. DeleteELinePort(s) /\ Unbound(a)
    BY <1>4, <1>7, <2>3, <2>4 DEF ReleaseBinding
  <2>6. Loses(bound, 0) /\ OthersKeep(bound)
    BY <2>2, <2>5, PortMoves, TypedCalls
  <2> QED
    BY <1>1, <1>2, <2>1, <2>5, <2>6, UnboundBindings
<1>8. CASE bound # None /\ bound.e_service = "e_lan"
  <2>1. bound \in Services /\ PortTaken(bound, p) /\ bound.service_index \in ELans
    BY <1>5, <1>8, ServicesAre
  <2>2. ELanPortSlots(bound.service_index, p) # {}
    BY <1>8, <2>1 DEF PortTaken, FindService, SlotsOf, PortAt, ELanPortSlots
  <2>3. PICK k \in ELanPortSlots(bound.service_index, p) :
          /\ call' = [call EXCEPT ![a].pc = "delete", ![a].slot = k]
          /\ UNCHANGED <<tables, state, vlans, labels, rcu>>
    BY <1>2, <1>4, <1>8, <2>2 DEF ReleaseBinding
  <2>4. FindService(bound) /\ k \in SlotsOf(bound) /\ PortAt(bound, k) = p
    BY <1>8, <2>1, <2>3 DEF PortTaken, SlotsOf, PortAt, ELanPortSlots
  <2>5. PICK c : c = [call[a] EXCEPT !.pc = "delete", !.slot = k]
    OBVIOUS
  <2>6. call' = [call EXCEPT ![a] = c]
    BY <2>3, <2>5, TypedCalls
  <2>7. /\ c \in Call /\ c.pc = "delete" /\ c.slot = k /\ c.iface = call[a].iface
        /\ c.entry = call[a].entry /\ c.service = call[a].service
    <3>1. k \in PortSlots
      BY <2>3 DEF ELanPortSlots
    <3> QED
      BY <1>3, <2>5, <3>1 DEF Call, Pc
  <2>8. Working(c)
    <3>1. k \in PortSlots
      BY <2>3 DEF ELanPortSlots
    <3> QED
      BY <1>3, <2>7, <3>1 DEF Working, OnVlan
  <2>9. CallMatches(c)
    <3>1. CallMatches(call[a])
      BY DEF Bindings, CallsMatch
    <3>2. PortOf(c) = p
      BY <1>2, <2>7 DEF PortOf
    <3>3. c.pc # "register" /\ c.pc # "bind" /\ ~OnLabel(c)
      BY <2>7 DEF OnLabel
    <3>4. \A x \in Services : vlans[c.iface][c.entry] = x =>
            FindService(x) /\ c.slot \in SlotsOf(x) /\ PortAt(x, c.slot) = PortOf(c)
      BY <1>4, <2>4, <2>7, <3>2
    <3>5. OnVlan(c) /\ c.service # None /\ c.service.e_service = "e_line" =>
            ~(FindService(c.service) /\ PortAt(c.service, 0) # None)
      BY <1>1, <2>7, <3>1 DEF CallMatches
    <3> QED
      BY <3>3, <3>4, <3>5 DEF CallMatches
  <2>10. CallMatches(c)'
    <3>1. \A x \in Services : PortsStay(x) /\ ServiceMove(x)
      BY <2>3, TablesStay DEF tables, Keeps, ServiceMove
    <3> QED
      BY <2>3, <2>7, <2>8, <2>9, <3>1, CallStays DEF Bindings
  <2> QED
    BY <2>3, <2>6, <2>10, CallBindings
<1> QED
  BY <1>5, <1>6, <1>7, <1>8, ServicesAre

LEMMA DeleteFoundPortBindings ==
  ASSUME LeafType, Bindings, NEW a \in Processes, DeleteFoundPort(a)
  PROVE  Bindings'
<1>1. call[a].pc = "delete" /\ Unbound(a)
  BY DEF DeleteFoundPort
<1>2. OnVlan(call[a])
  BY <1>1 DEF OnVlan
<1>3. PICK bound : bound = vlans[call[a].iface][call[a].entry]
  OBVIOUS
<1>4. PICK k : k = call[a].slot
  OBVIOUS
<1>5. bound \in Services /\ bound.e_service = "e_lan" /\ k \in PortSlots
  BY <1>1, <1>2, <1>3, <1>4, CallsKnown DEF LeafType, CallsInv, Working, OnVlan, OnLabel
<1>6. FindService(bound) /\ PortAt(bound, k) = PortOf(call[a])
  <2>1. CallMatches(call[a])
    BY DEF Bindings, CallsMatch
  <2> QED
    BY <1>1, <1>3, <1>4, <1>5, <2>1 DEF CallMatches
<1>7. PICK l \in ELans : bound = ELanService(l)
  BY <1>5, ServicesSplit DEF ELineService
<1>8. bound.service_index = l /\ ELanSeen(l)
  BY <1>7, ServicesSeen DEF AllSeen, ELanService
<1>9. PortOf(call[a]) # None
  BY <1>1, <1>2, CallsKnown, PortsOfCalls
<1>10. HasELanPort(l, k)
  BY <1>5, <1>6, <1>7, <1>8, <1>9 DEF ELanSeen, HasELanPort, FindELan
<1>11. DeleteELanPort(l, k)
  BY <1>3, <1>4, <1>8, <1>10 DEF DeleteFoundPort
<1>12. Loses(bound, k) /\ OthersKeep(bound)
  BY <1>5, <1>7, <1>11, PortMoves, TypedCalls
<1> QED
  BY <1>1, <1>2, <1>5, <1>6, <1>12, UnboundBindings

LEMMA OneThreadAtWork ==
  ASSUME LeafType, \A t, u \in Threads : t = u, NEW t \in Threads, NEW o \in Processes \ {t}
  PROVE  o = Rcu /\ (call[o] = Idle \/ (/\ call[o].pc \in {"release", "delete"}
                                        /\ call[o].service = None))
<1>1. o = Rcu
  BY DEF Processes
<1> QED
  BY <1>1 DEF LeafType, RcuInv

LEMMA NoBind ==
  ASSUME LeafType, \A t, u \in Threads : t = u, NEW t \in Threads, Ready(t)
  PROVE  \A o \in Processes : call[o].pc # "bind"
<1>1. \A o \in Processes \ {t} : call[o] = Idle \/ call[o].pc \in {"release", "delete"}
  BY OneThreadAtWork
<1> QED
  BY <1>1 DEF Ready, Idle

LEMMA RegisterBindingBindings ==
  ASSUME LeafType, Bindings, \A t, u \in Threads : t = u, NEW t \in Threads,
         RegisterBinding(t)
  PROVE  Bindings'
<1>1. call[t].pc = "register" /\ call' = [call EXCEPT ![t] = Idle] /\ labels' = labels
  BY DEF RegisterBinding
<1>2. OnVlan(call[t]) /\ t \in Processes
  BY <1>1 DEF OnVlan, Processes
<1>3. PICK p : p = PortOf(call[t])
  OBVIOUS
<1>4. /\ call[t].iface \in Csps /\ call[t].entry \in Vlans /\ p \in Port
      /\ p.iface = call[t].iface /\ p.vlan_tci = call[t].entry
  BY <1>1, <1>2, <1>3, CallsKnown, PortsOfCalls
<1>5. PICK x : x = call[t].service
  OBVIOUS
<1>6. x \in Services
  BY <1>1, <1>2, <1>5, CallsKnown DEF Working, OnVlan, OnLabel
<1>7. CallMatches(call[t])
  BY <1>2 DEF Bindings, CallsMatch
<1>8. vlans[p.iface][p.vlan_tci] = None
  BY <1>1, <1>4, <1>7 DEF CallMatches
<1>9. ASSUME NEW k, Gains(x, k, p), OthersKeep(x),
             vlans' = [vlans EXCEPT ![p.iface][p.vlan_tci] = x]
      PROVE  Bindings'
  <2>1. SameLabels
    BY <1>1 DEF SameLabels, IsBound
  <2>2. Holds'
    BY <1>4, <1>6, <1>8, <1>9, <2>1, BindHolds DEF Bindings
  <2>3. \A q \in Port : q # p => vlans'[q.iface][q.vlan_tci] = vlans[q.iface][q.vlan_tci]
    BY <1>4, <1>6, <1>9, OtherVlans
  <2>4. /\ FindService(x) /\ FindService(x)' /\ PortAt(x, k) \in {None, p}
        /\ \A j \in SlotsOf(x) \ {k} : PortAt(x, j)' = PortAt(x, j)
    BY <1>9 DEF Gains, Puts
  <2>5. ASSUME NEW o \in Processes \ {t}, NEW d, call[o] = d PROVE CallMatches(d)'
    <3>1. d = Idle \/ (d \in Call /\ Working(d) /\ d.iface # p.iface /\ d.service = None)
      BY <1>2, <1>4, <2>5, TypedCalls, OneThreadAtWork DEF LeafType, CallsInv, Exclusive
    <3>2. CallMatches(d)
      BY <2>5 DEF Bindings, CallsMatch
    <3> QED
      BY <1>1, <1>4, <1>6, <1>9, <2>3, <2>4, <3>1, <3>2, IdleMatches, OtherCallMatches
         DEF Bindings
  <2>6. CallsMatch'
    BY <1>1, <1>2, <2>5, IdleMatches, OneCallMatches
  <2> QED
    BY <2>2, <2>6 DEF Bindings
<1>10. CASE UNCHANGED <<tables, vlans>>
  BY <1>1, <1>2, <1>10, IdleMatches, CallBindings
<1>11. CASE /\ x.e_service = "e_line" /\ RegisterELinePort(x.service_index, p)
            /\ vlans' = [vlans EXCEPT ![p.iface][p.vlan_tci] = x]
  <2>1. PICK s \in ELines : x = ELineService(s)
    BY <1>6, <1>11, ServicesSplit DEF ELanService
  <2>2. x.service_index = s /\ ELineSeen(s)
    BY <2>1, ServicesSeen DEF AllSeen, ELineService
  <2>3. eline[s] # Free
    BY <1>11, <2>2 DEF RegisterELinePort, ELinePortIsFree, FindELine
  <2>4. ~(FindService(x) /\ PortAt(x, 0) # None)
    BY <1>2, <1>5, <1>6, <1>7, <1>11, LeafAssumption DEF CallMatches
  <2>5. eline[s].port = None
    BY <2>1, <2>2, <2>3, <2>4 DEF ELineSeen
  <2>6. Gains(x, 0, p) /\ OthersKeep(x)
    BY <1>4, <1>11, <2>1, <2>2, <2>5, PortMoves, TypedCalls
  <2> QED
    BY <1>9, <1>11, <2>6
<1>12. CASE /\ x.e_service = "e_lan" /\ \E k \in PortSlots : RegisterELanPort(x.service_index, k, p)
            /\ vlans' = [vlans EXCEPT ![p.iface][p.vlan_tci] = x]
  <2>1. PICK l \in ELans : x = ELanService(l)
    BY <1>6, <1>12, ServicesSplit DEF ELineService
  <2>2. x.service_index = l
    BY <2>1 DEF ELanService
  <2>3. PICK k \in PortSlots : RegisterELanPort(l, k, p)
    BY <1>12, <2>2
  <2>4. Gains(x, k, p) /\ OthersKeep(x)
    BY <1>4, <2>1, <2>3, PortMoves, TypedCalls
  <2> QED
    BY <1>9, <1>12, <2>4
<1> QED
  <2>1. x.e_service # "e_line" \/ x.e_service # "e_lan"
    OBVIOUS
  <2>2. call[t].iface = p.iface /\ call[t].entry = p.vlan_tci
    BY <1>4
  <2> QED
    BY <1>3, <1>5, <1>10, <1>11, <1>12, <2>2 DEF RegisterBinding, tables

LEMMA CheckLabelBindings ==
  ASSUME LeafType, Bindings, NEW t \in Threads, CheckLabelService(t)
  PROVE  Bindings'
<1>1. /\ call[t].pc = "check" /\ UNCHANGED <<tables, vlans, labels>> /\ t \in Processes
      /\ OnLabel(call[t])
  BY DEF CheckLabelService, Processes, OnLabel
<1>2. PICK c : c = IF FindService(call[t].service) THEN [call[t] EXCEPT !.pc = "bind"] ELSE Idle
  OBVIOUS
<1>3. call' = [call EXCEPT ![t] = c]
  BY <1>2 DEF CheckLabelService
<1>4. call[t] \in Call /\ Working(call[t]) /\ CallMatches(call[t])
  BY <1>1, CallsKnown DEF Bindings, CallsMatch
<1>5. CallMatches(c)'
  <2>1. CASE FindService(call[t].service)
    <3>1. /\ c \in Call /\ c.pc = "bind" /\ c.iface = call[t].iface /\ c.entry = call[t].entry
          /\ c.service = call[t].service
      BY <1>2, <1>4, <2>1 DEF Call, Pc
    <3>2. OnLabel(c) /\ ~OnVlan(c) /\ c.pc # "delete" /\ c.pc # "register"
      BY <3>1 DEF OnLabel, OnVlan
    <3>3. Working(c)
      BY <1>1, <1>4, <3>1, <3>2 DEF Working, OnVlan, OnLabel
    <3>4. labels[c.iface][c.entry] = None
      BY <1>1, <1>4, <3>1 DEF CallMatches
    <3>5. CallMatches(c)
      BY <2>1, <3>1, <3>2, <3>4 DEF CallMatches
    <3>6. \A x \in Services : PortsStay(x) /\ ServiceMove(x)
      BY <1>1, TablesStay DEF tables, Keeps, ServiceMove
    <3> QED
      BY <1>1, <3>1, <3>3, <3>5, <3>6, CallStays DEF Bindings
  <2>2. CASE ~FindService(call[t].service)
    BY <1>2, <2>2, IdleMatches
  <2> QED
    BY <2>1, <2>2
<1> QED
  BY <1>1, <1>3, <1>5, CallBindings

LEMMA BindLabelBindings ==
  ASSUME LeafType, Bindings, \A t, u \in Threads : t = u, NEW t \in Threads, BindLabel(t)
  PROVE  Bindings'
<1>1. /\ call[t].pc = "bind" /\ vlans' = vlans /\ call' = [call EXCEPT ![t] = Idle]
      /\ t \in Processes /\ OnLabel(call[t])
  BY DEF BindLabel, Processes, OnLabel
<1>2. PICK c, b, x : c = call[t].iface /\ b = call[t].entry /\ x = call[t].service
  OBVIOUS
<1>3. c \in Cbps /\ b \in Labels /\ x \in Services
  BY <1>1, <1>2, CallsKnown
<1>4. labels[c][b] = None /\ FindService(x)
  <2>1. CallMatches(call[t])
    BY <1>1 DEF Bindings, CallsMatch
  <2> QED
    BY <1>1, <1>2, <2>1 DEF CallMatches
<1>5. /\ labels' = [labels EXCEPT ![c][b] = [service |-> x, egress |-> None]]
      /\ IF IsOnlyLabel(c, b, x) THEN Reference(x) ELSE UNCHANGED tables
  BY <1>2 DEF BindLabel
<1>6. Holds' /\ \A y \in Services : PortsStay(y)
  BY <1>1, <1>3, <1>4, <1>5, BindLabelHolds DEF Bindings
<1>7. ASSUME NEW o \in Processes \ {t}, NEW d, call[o] = d PROVE CallMatches(d)'
  <2>1. call[o] = Idle \/ (/\ call[o].pc \in {"release", "delete"} /\ call[o].service = None
                           /\ call[o] \in Call /\ Working(call[o]) /\ CallMatches(call[o]))
    BY OneThreadAtWork, TypedCalls DEF LeafType, CallsInv, Bindings, CallsMatch
  <2>2. CASE d = Idle
    BY <2>2, IdleMatches
  <2>3. CASE d # Idle
    <3>1. /\ d.pc \in {"release", "delete"} /\ d.service = None /\ Working(d) /\ CallMatches(d)
      BY <1>7, <2>1, <2>3
    <3>2. d.pc # "register" /\ d.pc # "bind" /\ ~OnLabel(d)
      BY <3>1 DEF OnLabel
    <3>3. ASSUME d.pc = "delete", NEW y \in Services, vlans'[d.iface][d.entry] = y
          PROVE  FindService(y)' /\ d.slot \in SlotsOf(y) /\ PortAt(y, d.slot)' = PortOf(d)
      BY <1>1, <1>6, <3>1, <3>3 DEF CallMatches, PortsStay
    <3> QED
      BY <3>1, <3>2, <3>3, SlotsAreConstant DEF CallMatches
  <2> QED
    BY <2>2, <2>3
<1>8. CallsMatch'
  BY <1>1, <1>7, IdleMatches, OneCallMatches
<1> QED
  BY <1>6, <1>8 DEF Bindings

\* The label of an idle thread, or of an interface that is torn down.
LEMMA ResetLabelBindings ==
  ASSUME LeafType, Bindings, NEW c \in Cbps, NEW b \in Labels, ResetLabel(c, b),
         vlans' = vlans, NEW a \in Processes, NEW n,
         n.pc = "check" => n.iface = c /\ n.entry = b,
         n.pc # "check" => n = call[a],
         call' = [call EXCEPT ![a] = n]
  PROVE  Bindings'
<1>1. /\ Holds' /\ (\A y \in Services : PortsStay(y))
      /\ labels'[c][b] = None
      /\ \A d \in Cbps, f \in Labels : labels[d][f] = None => labels'[d][f] = None
  BY ResetLabelHolds DEF Bindings
<1>2. ASSUME NEW d \in Call, Working(d), CallMatches(d) PROVE CallMatches(d)'
  <2>1. ASSUME d.pc = "delete", NEW y \in Services, vlans'[d.iface][d.entry] = y
        PROVE  FindService(y)' /\ d.slot \in SlotsOf(y) /\ PortAt(y, d.slot)' = PortOf(d)
    BY <1>1, <1>2, <2>1 DEF CallMatches, PortsStay
  <2>2. ASSUME OnVlan(d), d.service # None, d.service.e_service = "e_line"
        PROVE  ~(FindService(d.service)' /\ PortAt(d.service, 0)' # None)
    <3>1. PICK y : y = d.service
      OBVIOUS
    <3>2. ~(FindService(y) /\ PortAt(y, 0) # None) /\ y \in Services /\ 0 \in SlotsOf(y)
      BY <1>2, <2>2, <3>1 DEF CallMatches, Call, SlotsOf
    <3>3. ~(FindService(y)' /\ PortAt(y, 0)' # None)
      BY <1>1, <3>2 DEF PortsStay
    <3> QED
      BY <3>1, <3>3
  <2>3. ASSUME OnLabel(d) PROVE labels'[d.iface][d.entry] = None
    BY <1>1, <1>2, <2>3 DEF CallMatches, Working, OnLabel, OnVlan
  <2>4. ASSUME d.pc = "bind" PROVE FindService(d.service)'
    <3>1. PICK y : y = d.service
      OBVIOUS
    <3>2. FindService(y) /\ y \in Services
      BY <1>2, <2>4, <3>1 DEF CallMatches, Working, OnVlan, OnLabel
    <3>3. FindService(y)'
      BY <1>1, <3>2 DEF PortsStay
    <3> QED
      BY <3>1, <3>3
  <2>5. d.pc = "register" => vlans'[d.iface][d.entry] = None
    BY <1>2 DEF CallMatches
  <2> QED
    BY <2>1, <2>2, <2>3, <2>4, <2>5, SlotsAreConstant DEF CallMatches
<1>3. ASSUME NEW o \in Processes, NEW d, call[o] = d PROVE CallMatches(d)'
  <2>1. d = Idle \/ (d \in Call /\ Working(d))
    BY <1>3, TypedCalls DEF LeafType, CallsInv
  <2>2. CallMatches(d)
    BY <1>3 DEF Bindings, CallsMatch
  <2> QED
    BY <1>2, <2>1, <2>2, IdleMatches
<1>4. CallMatches(n)'
  <2>1. CASE n.pc = "check"
    BY <1>1, <2>1 DEF CallMatches, OnVlan, OnLabel
  <2>2. CASE n.pc # "check"
    BY <1>3, <2>2
  <2> QED
    BY <2>1, <2>2
<1>5. CallsMatch'
  BY <1>3, <1>4, OneCallMatches
<1> QED
  BY <1>1, <1>5 DEF Bindings

\* One thread calls the API, and not the E-service port calls, which change the
\* ports of a service behind the VLAN tables.
OneApi == ServicePortApi = FALSE /\ \A t, u \in Threads : t = u

LEMMA ServiceBindings ==
  ASSUME LeafType, Bindings, OneApi, NEW t \in Threads,
         ServiceStep(t) \/ \E l \in ELans : DeleteELan(t, l)
  PROVE  Bindings'
<1>1. \A o \in Processes : call[o].pc # "bind"
  BY NoBind DEF OneApi, ServiceStep, DeleteELan
<1>2. UNCHANGED <<vlans, labels, call>>
  BY DEF ServiceStep, DeleteELan, ports
<1>3. \A x \in Services : ServiceMove(x)
  <2>1. ASSUME NEW h \in Nexthops, RegisterCommonNexthop(h) \/ DeleteCommonNexthop(h)
        PROVE  \A x \in Services : ServiceMove(x)
    BY <2>1, TablesStay DEF RegisterCommonNexthop, DeleteCommonNexthop, ServiceMove
  <2>2. ASSUME NEW s \in ELines,
               \/ RegisterELineService(s) \/ DeleteELineService(s)
               \/ (\E n \in Nhlfe : RegisterELineNhlfe(s, n)) \/ DeleteELineNhlfe(s)
        PROVE  \A x \in Services : ServiceMove(x)
    <3>1. ELineOwn(s)
      BY <2>2 DEF ELineOwn
    <3> QED
      BY <3>1, ELineOwnMoves, TypedCalls
  <2>3. ASSUME NEW l \in ELans,
               \/ RegisterELanService(l) \/ DeleteELanService(l)
               \/ \E k \in NhlfeSlots, n \in Nhlfe : RegisterELanNhlfe(l, k, n)
               \/ \E k \in NhlfeSlots : DeleteELanNhlfe(l, k)
               \/ \E mac \in Macs, e \in Port \cup Nhlfe : RegisterELanFwdEntry(l, mac, e)
               \/ \E mac \in Macs : DeleteELanFwdEntry(l, mac)
               \/ \E h \in Nexthops : SetELanMulticast(l, h)
               \/ ResetELanMulticast(l)
        PROVE  \A x \in Services : ServiceMove(x)
    <3>1. ELanOwn(l)
      BY <2>3 DEF ELanOwn
    <3> QED
      BY <3>1, ELanOwnMoves, TypedCalls
  <2>4. ASSUME NEW l \in ELans, DeleteELan(t, l) PROVE \A x \in Services : ServiceMove(x)
    BY <2>3, <2>4 DEF DeleteELan
  <2>5. CASE ServiceStep(t)
    <3>1. CASE \E h \in Nexthops : RegisterCommonNexthop(h) \/ DeleteCommonNexthop(h)
      BY <2>1, <3>1
    <3>2. CASE \E s \in ELines :
                 \/ RegisterELineService(s) \/ DeleteELineService(s)
                 \/ (\E n \in Nhlfe : RegisterELineNhlfe(s, n)) \/ DeleteELineNhlfe(s)
      BY <2>2, <3>2
    <3>3. CASE \E l \in ELans :
                 \/ RegisterELanService(l)
                 \/ \E k \in NhlfeSlots, n \in Nhlfe : RegisterELanNhlfe(l, k, n)
                 \/ \E k \in NhlfeSlots : DeleteELanNhlfe(l, k)
                 \/ \E mac \in Macs, e \in Port \cup Nhlfe : RegisterELanFwdEntry(l, mac, e)
                 \/ \E mac \in Macs : DeleteELanFwdEntry(l, mac)
                 \/ \E h \in Nexthops : SetELanMulticast(l, h)
                 \/ ResetELanMulticast(l)
      BY <2>3, <3>3
    <3> QED
      BY <2>5, <3>1, <3>2, <3>3 DEF ServiceStep
  <2> QED
    BY <2>4, <2>5
<1>4. SameLabels
  BY <1>2 DEF SameLabels, IsBound
<1> QED
  BY <1>1, <1>2, <1>3, <1>4, QuietBindings

LEMMA CspBindings ==
  ASSUME LeafType, Bindings, NEW t \in Threads, NEW i \in Csps, NEW v \in Vlans,
         CspWithdrawPort(t, i, v) \/ \E service \in Services : CspSetupPort(t, i, v, service)
  PROVE  Bindings'
<1>1. PICK service \in Services \cup {None} :
        /\ UNCHANGED <<tables, vlans, labels>>
        /\ call' = [call EXCEPT ![t] = [pc |-> "release", iface |-> i, entry |-> v,
                                        service |-> service, slot |-> 0]]
        /\ service # None =>
             ~(service.e_service = "e_line" /\ HasELinePort(service.service_index))
  BY DEF CspWithdrawPort, CspSetupPort
<1>2. PICK c : c = [pc |-> "release", iface |-> i, entry |-> v, service |-> service, slot |-> 0]
  OBVIOUS
<1>3. c \in Call /\ Working(c) /\ c.pc = "release" /\ c.service = service
  BY <1>2, NewCalls
<1>4. CallMatches(c)
  <2>1. ASSUME service # None, service.e_service = "e_line"
        PROVE  ~(FindService(service) /\ PortAt(service, 0) # None)
    BY <1>1, <2>1 DEF FindService, PortAt, HasELinePort
  <2>2. c.pc # "delete" /\ c.pc # "register" /\ c.pc # "bind" /\ ~OnLabel(c)
    BY <1>3 DEF OnLabel
  <2> QED
    BY <1>3, <2>1, <2>2 DEF CallMatches
<1>5. CallMatches(c)'
  <2>1. \A x \in Services : PortsStay(x) /\ ServiceMove(x)
    BY <1>1, TablesStay DEF tables, Keeps, ServiceMove
  <2> QED
    BY <1>1, <1>3, <1>4, <2>1, CallStays DEF Bindings
<1>6. t \in Processes /\ call' = [call EXCEPT ![t] = c]
  BY <1>1, <1>2 DEF Processes
<1> QED
  BY <1>1, <1>5, <1>6, CallBindings

LEMMA StillBindings ==
  ASSUME LeafType, Bindings, UNCHANGED <<tables, vlans, call>>, SameLabels,
         \A b \in Cbps, d \in Labels : labels[b][d] = None => labels'[b][d] = None
  PROVE  Bindings'
<1>1. \A x \in Services : Keeps(x) /\ ServiceMove(x)
  BY TablesStay DEF tables, ServiceMove
<1> QED
  BY <1>1, QuietBindings

LEMMA CbpBindings ==
  ASSUME LeafType, Bindings, NEW t \in Threads, NEW c \in Cbps, NEW b \in Labels,
         \/ \E service \in Services : CbpSetupLabel(t, c, b, service)
         \/ CbpClearLabel(t, c, b)
         \/ \E path \in Nhlfe : CbpSetEgress(t, c, b, path)
         \/ CbpClearEgress(t, c, b)
  PROVE  Bindings'
<1>0. t \in Processes
  BY DEF Processes
<1>1. ASSUME NEW service \in Services, CbpSetupLabel(t, c, b, service) PROVE Bindings'
  <2>1. PICK n : n = [pc |-> "check", iface |-> c, entry |-> b, service |-> service, slot |-> 0]
    OBVIOUS
  <2>2. n.pc = "check" /\ n.iface = c /\ n.entry = b
    BY <2>1
  <2>3. call' = [call EXCEPT ![t] = n] /\ ResetLabel(c, b) /\ vlans' = vlans
    BY <1>1, <2>1 DEF CbpSetupLabel
  <2> QED
    BY <1>0, <2>2, <2>3, ResetLabelBindings
<1>2. CASE CbpClearLabel(t, c, b)
  <2>1. ResetLabel(c, b) /\ vlans' = vlans /\ call' = call /\ call[t] = Idle
    BY <1>2 DEF CbpClearLabel, MayChange, Ready
  <2>2. PICK n : n = call[t]
    OBVIOUS
  <2>3. call' = [call EXCEPT ![t] = n] /\ n.pc # "check"
    BY <1>0, <2>1, <2>2, TypedCalls DEF Idle
  <2> QED
    BY <1>0, <2>1, <2>2, <2>3, ResetLabelBindings
<1>3. ASSUME NEW x \in Egress \cup {None}, labels[c][b] # None,
             labels' = [labels EXCEPT ![c][b].egress = x],
             UNCHANGED <<tables, vlans, call>>
      PROVE  Bindings'
  <2>1. labels[c][b] \in LabelEntry
    BY <1>3, TypedPorts DEF LabelTable
  <2>2. PICK e : e = [labels[c][b] EXCEPT !.egress = x]
    OBVIOUS
  <2>3. e.service = labels[c][b].service /\ labels' = [labels EXCEPT ![c][b] = e]
    BY <1>3, <2>1, <2>2, TypedPorts DEF LabelTable, LabelEntry
  <2>4. \A d \in Cbps, f \in Labels : labels'[d][f] = IF d = c /\ f = b THEN e ELSE labels[d][f]
    BY <2>3, TypedPorts DEF LabelTable
  <2>5. e # None
    <3>1. e \in LabelEntry
      BY <2>1, <2>2, <1>3 DEF LabelEntry
    <3> QED
      BY <3>1, LeafAssumption
  <2>6. SameLabels
    BY <1>3, <2>3, <2>4, <2>5 DEF SameLabels, IsBound
  <2>7. \A d \in Cbps, f \in Labels : labels[d][f] = None => labels'[d][f] = None
    BY <1>3, <2>4
  <2> QED
    BY <1>3, <2>6, <2>7, StillBindings
<1>4. ASSUME NEW path \in Nhlfe, CbpSetEgress(t, c, b, path) PROVE Bindings'
  <2>1. PICK k \in ELanNhlfeSlots(labels[c][b].service.service_index, path) :
          labels' = [labels EXCEPT ![c][b].egress = [slot |-> k, path |-> path]]
    BY <1>4 DEF CbpSetEgress
  <2>2. PICK x : x = [slot |-> k, path |-> path]
    OBVIOUS
  <2>3. labels' = [labels EXCEPT ![c][b].egress = x] /\ labels[c][b] # None
    BY <1>4, <2>1, <2>2 DEF CbpSetEgress
  <2>4. x \in Egress
    BY <2>1, <2>2 DEF ELanNhlfeSlots, Egress
  <2> QED
    BY <1>3, <1>4, <2>3, <2>4 DEF CbpSetEgress
<1>5. CASE CbpClearEgress(t, c, b)
  BY <1>3, <1>5 DEF CbpClearEgress
<1> QED
  BY <1>1, <1>2, <1>4, <1>5

LEMMA RcuBindings ==
  ASSUME LeafType, Bindings, RcuStep
  PROVE  Bindings'
<1>0. Rcu \in Processes
  BY DEF Processes
<1>1. ASSUME NEW i \in Csps, ReleaseVlan(i) PROVE Bindings'
  <2>1. PICK v \in Vlans :
          /\ UNCHANGED <<tables, vlans, labels>>
          /\ call' = [call EXCEPT ![Rcu] = [pc |-> "release", iface |-> i, entry |-> v,
                                            service |-> None, slot |-> 0]]
    BY <1>1 DEF ReleaseVlan, BoundVlans
  <2>2. PICK c : c = [pc |-> "release", iface |-> i, entry |-> v, service |-> None, slot |-> 0]
    OBVIOUS
  <2>3. c.pc = "release" /\ c.service = None /\ c \in Call /\ Working(c)
    BY <2>2, NewCalls
  <2>4. CallMatches(c)
    BY <2>3 DEF CallMatches, OnLabel
  <2>5. CallMatches(c)'
    <3>1. \A x \in Services : PortsStay(x) /\ ServiceMove(x)
      BY <2>1, TablesStay DEF tables, Keeps, ServiceMove
    <3> QED
      BY <2>1, <2>3, <2>4, <3>1, CallStays DEF Bindings
  <2> QED
    BY <1>0, <2>1, <2>2, <2>5, CallBindings
<1>2. ASSUME NEW c \in Cbps, ReleaseLabel(c) PROVE Bindings'
  <2>1. PICK b \in Labels : ResetLabel(c, b) /\ UNCHANGED <<vlans, call>>
    BY <1>2 DEF ReleaseLabel, BoundLabels
  <2>2. PICK n : n = call[Rcu]
    OBVIOUS
  <2>3. call' = [call EXCEPT ![Rcu] = n] /\ n.pc # "check"
    <3>1. n = Idle \/ n.pc \in {"release", "delete"}
      BY <2>2 DEF LeafType, RcuInv
    <3> QED
      BY <1>0, <2>1, <2>2, <3>1, TypedCalls DEF Idle
  <2> QED
    BY <1>0, <2>1, <2>2, <2>3, ResetLabelBindings
<1>3. ASSUME NEW i \in Ifaces, DetachIface(i) PROVE Bindings'
  <2>1. UNCHANGED <<tables, vlans, labels, call>>
    BY <1>3 DEF DetachIface
  <2> QED
    BY <2>1, StillBindings DEF SameLabels, IsBound
<1>4. ASSUME NEW l \in ELans, PostDeleteELan(l) PROVE Bindings'
  <2>1. Deleted(l)
    <3>1. rcu # <<>> /\ Head(rcu) = ELanCallback(l)
      BY <1>4 DEF PostDeleteELan, ELanCallback
    <3>2. InQueue(rcu, ELanCallback(l))
      BY <3>1, TypedPorts, QueueTail
    <3> QED
      BY <3>2, AwaitedOne DEF LeafType, RcuInv
  <2>2. ELanRelease(l) /\ UNCHANGED <<vlans, labels, call>>
    BY <1>4, <2>1 DEF PostDeleteELan, ELanRelease
  <2>3. \A x \in Services : Keeps(x) /\ ServiceMove(x)
    BY <2>2, ELanReleaseMoves, TypedCalls DEF ServiceMove
  <2>4. SameLabels
    BY <2>2 DEF SameLabels, IsBound
  <2> QED
    BY <2>2, <2>3, <2>4, QuietBindings
<1> QED
  BY <1>0, <1>1, <1>2, <1>3, <1>4, ReleaseBindingBindings, DeleteFoundPortBindings DEF RcuStep

LEMMA StepKeepsBindings ==
  ASSUME LeafType, Bindings, OneApi, [Next]_vars
  PROVE  Bindings'
<1>1. ASSUME NEW t \in Threads, Begin(t) PROVE Bindings'
  <2>1. ASSUME NEW i \in Ifaces, RegisterIface(t, i) \/ UnregisterIface(t, i) PROVE Bindings'
    <3>1. UNCHANGED <<tables, vlans, labels, call>>
      BY <2>1 DEF RegisterIface, UnregisterIface
    <3> QED
      BY <3>1, StillBindings DEF SameLabels, IsBound
  <2>2. ~ServicePortStep(t)
    BY DEF OneApi, ServicePortStep
  <2> QED
    BY <1>1, <2>1, <2>2, ServiceBindings, CspBindings, CbpBindings DEF Begin
<1>2. ASSUME NEW t \in Threads, Continue(t) PROVE Bindings'
  <2>1. t \in Processes
    BY DEF Processes
  <2> QED
    BY <1>2, <2>1, ReleaseBindingBindings, DeleteFoundPortBindings, RegisterBindingBindings,
       CheckLabelBindings, BindLabelBindings DEF Continue, OneApi
<1>3. ASSUME UNCHANGED vars PROVE Bindings'
  <2>1. UNCHANGED <<tables, vlans, labels, call>>
    BY <1>3 DEF vars, ports
  <2> QED
    BY <2>1, StillBindings DEF SameLabels, IsBound
<1> QED
  BY <1>1, <1>2, <1>3, RcuBindings DEF Next

LEMMA InitBindings == Init => Bindings
<1> SUFFICES ASSUME Init PROVE Bindings
  OBVIOUS
<1>1. \A x \in Services : ~FindService(x)
  BY DEF Init, TablesInit, FindService, FindELine, FindELan
<1>2. \A c \in Cbps, b \in Labels : labels[c][b] = None
  BY DEF Init
<1>3. \A p \in Port : vlans[p.iface][p.vlan_tci] = None
  BY DEF Init, Port
<1>4. Holds
  <2>1. VlansMatch
    BY <1>1, <1>3, LeafAssumption DEF VlansMatch, PortTaken
  <2>2. LabelsLead
    BY <1>2 DEF LabelsLead, IsBound
  <2> QED
    BY <1>1, <2>1, <2>2 DEF Holds, AllCounted, Counted, UniquePorts
<1>5. CallsMatch
  <2>1. \A a \in Processes : call[a] = Idle
    BY DEF Init, Processes
  <2> QED
    BY <2>1, IdleMatches DEF CallsMatch
<1> QED
  BY <1>4, <1>5 DEF Bindings

\* With one API endpoint, whose clients leave the E-service port calls alone,
\* the bindings, the tables and the calls under way agree, while interfaces are
\* released under RCU at any point between the critical sections of a call.
LEMMA BindingsHold == OneApi => (Spec => [](LeafType /\ Bindings))
<1> SUFFICES ASSUME OneApi PROVE Spec => [](LeafType /\ Bindings)
  OBVIOUS
<1>1. Init => LeafType /\ Bindings
  BY InitType, InitBindings
<1>2. LeafType /\ Bindings /\ [Next]_vars => LeafType' /\ Bindings'
  BY StepKeepsType, StepKeepsBindings
<1> QED
  BY <1>1, <1>2, PTL DEF Spec

LEMMA BindingsSeen ==
  LeafType /\ Bindings => VlansMatchPorts /\ ServiceAccounting /\ LabelsResolve
BY HoldsSeen DEF LeafType, TypeOK, Bindings

\* A VLAN entry of a customer service port leads to a service if and only if the
\* service has the port: leaf_api_csp_setup_port, leaf_api_csp_withdraw_port and
\* the release of the interface change both in separate critical sections, and
\* no order of them, and of the deletion of services, leaves one without the
\* other.
THEOREM VlansAgreeWithPorts == OneApi => (Spec => []VlansMatchPorts)
<1> QED
  BY BindingsHold, BindingsSeen, PTL

\* The ref_cnt of an E-LINE or E-LAN is the number of its ports and of the label
\* FIBs that lead to it, so that delete_e_line_service and delete_e_lan_service
\* refuse exactly those that are used.
THEOREM ServicesAreCounted == OneApi => (Spec => []ServiceAccounting)
<1> QED
  BY BindingsHold, BindingsSeen, PTL

\* A valid label entry leads to a registered service, although set_leaf_label_entry
\* looks the service up in one critical section and counts its use in another.
THEOREM LabelsLeadToServices == OneApi => (Spec => []LabelsResolve)
<1> QED
  BY BindingsHold, BindingsSeen, PTL


(***************************************************************************)
(* The input nodes beside the calls: LeafForwarding.                       *)
(***************************************************************************)
Entry == Port \cup Nhlfe
Packet == CspPacket \cup CbpPacket

CacheEntry == [key: Vlans \cup Labels \cup {0}, is_valid: BOOLEAN, is_e_line: BOOLEAN,
               eline: ELines \cup {None}, elan: ELans \cup {None}, hop: Nexthops \cup {None}]
MacCache == [mac: Macs \cup {None}, is_valid: BOOLEAN, entry: Entry \cup {None}]
Learned  == [mac: Macs, elan: ELans, entry: Entry]
Flood    == [pc: {"none", "ports"}, elan: ELans \cup {None}, nr_ports: Nat, nr_port: Nat,
             port_id: Nat, consumed: BOOLEAN, sent: SUBSET Port]

TablesType ==
  /\ local \in [Nexthops -> Cbps]
  /\ words \in [Cbps -> [Labels -> LabelEntry]]
  /\ had \in [ELans -> SUBSET Entry]

LearnedType == learned \in Seq(Learned) /\ ring \in Seq(Learned)

BurstType ==
  /\ burst \in [iface: Ifaces \cup {None}, mbufs: Seq(Packet)]
  /\ cache \in [0 .. CACHE_SIZE - 1 -> CacheEntry]
  /\ mcache \in MacCache
  /\ flood \in Flood
  /\ fate \in [1 .. loop.nr_mbufs -> Nat]
  /\ via \in Seq(Entry \cup {None})

\* The caches live as long as a burst, and a flood as long as packets wait for it.
BurstInv ==
  /\ burst = Nobody => /\ loop.pc = "idle" /\ learned = <<>>
                       /\ cache = NoCache /\ mcache = NoMac
  /\ burst # Nobody => /\ burst.iface \in Ifaces
                       /\ Len(burst.mbufs) = loop.nr_mbufs
                       /\ \A k \in 1 .. loop.nr_mbufs : burst.mbufs[k] \in PacketsOf(burst.iface)
  /\ flood.pc = "none" => flood = NoFlood
  /\ flood.pc = "ports" => Posting /\ flood.elan \in ELans
  /\ Len(via) = Len(decided)

\* The words of a valid label are those that the control path wrote.
WordsInv ==
  \A c \in Cbps, b \in Labels : labels[c][b] # None => words[c][b] = labels[c][b]

\* What E-LANs have, what their MAC entries lead to, and the port of each VLAN
\* that leads to one, is what they have or had.
HadInv ==
  /\ \A l \in ELans : Entries(l) \subseteq had[l]
  /\ \A l \in ELans, mac \in Macs : elan[l] # Free => elan[l].fib[mac] \in had[l] \cup {None}
  /\ \A p \in Port, l \in ELans :
       vlans[p.iface][p.vlan_tci] = ELanService(l) => p \in had[l]

\* So is what waits to be learned.
LearnedInv ==
  /\ \A k \in 1 .. Len(learned) : learned[k].entry \in had[learned[k].elan]
  /\ \A k \in 1 .. Len(ring) : ring[k].entry \in had[ring[k].elan]

\* Packets are given away when they are posted, or before by the last port of a
\* flood, after which no other port takes them.
Given(k) == k <= Len(posted) \/ (flood.consumed /\ k \in Waiting)
FateInv ==
  /\ \A k \in 1 .. loop.nr_mbufs : fate[k] = IF Given(k) THEN 1 ELSE 0
  /\ flood.consumed => flood.nr_port >= flood.nr_ports

\* The E-LAN that a cache points to is there, or its callback waits for the burst.
InUse(l) == elan[l] # Free /\ (elan[l].is_valid \/ ELanCallback(l) \in waits)

\* What a valid entry of the caches says of the tables, unless VLANs or labels
\* were bound anew.
CspCached(e) ==
  /\ e.is_e_line => e.eline # None /\ e.hop # None
  /\ ~e.is_e_line =>
       /\ e.elan # None /\ [iface |-> burst.iface, vlan_tci |-> e.key] \in had[e.elan]
       /\ "vlan" \notin seen => vlans[burst.iface][e.key] = ELanService(e.elan)
CbpCached(e) ==
  "label" \notin seen =>
       /\ labels[burst.iface][e.key] # None
       /\ labels[burst.iface][e.key].service.e_service = "e_line" => e.eline # None
       /\ labels[burst.iface][e.key].service.e_service = "e_lan" =>
            e.elan = labels[burst.iface][e.key].service.service_index
EntryHolds(e) ==
  /\ e.elan # None => InUse(e.elan)
  /\ e.is_valid =>
       /\ burst.iface \in Csps => e.key \in Vlans /\ CspCached(e)
       /\ burst.iface \in Cbps => e.key \in Labels /\ CbpCached(e)
CacheInv == \A c \in 0 .. CACHE_SIZE - 1 : EntryHolds(cache[c])

\* The MAC entry e was found for packet j.
LookedUp(j, mac, e) ==
  /\ burst.mbufs[j].dst = mac
  /\ \E l \in ELans : /\ e \in had[l]
                      /\ seen \cap {"vlan", "label"} = {} => l \in ELansOf(burst.mbufs[j])
MacInv ==
  mcache.is_valid =>
    /\ mcache.entry # None
    /\ \E j \in 1 .. Len(via) + 1 :
         j <= Len(burst.mbufs) /\ LookedUp(j, mcache.mac, mcache.entry)
ViaInv ==
  burst # Nobody =>
    \A k \in 1 .. Len(via) : via[k] # None =>
      \E j \in 1 .. k : LookedUp(j, burst.mbufs[k].dst, via[k])

\* The ports that a flood has passed were sent to, and are counted.
Filled(l) == PortSlots \ FreePortSlots(l)
Own(port) == AtCsp /\ port = [iface |-> burst.iface, vlan_tci |-> LatestIdentifier[2]]
FloodSees(l) ==
  LET passed == {k \in Filled(l) : k < flood.port_id}
  IN  /\ flood.nr_ports = Cardinality(Filled(l))
      /\ flood.nr_port = Cardinality(passed)
      /\ flood.sent = {p \in Port : /\ \E k \in passed : elan[l].ports[k] = p
                                    /\ ~Own(p) /\ IsUp(p.iface)}
FloodInv ==
  \A l \in ELans : flood.pc = "ports" /\ flood.elan = l /\ seen = {} => FloodSees(l)

\* No port is in two slots.
OneSlot(l) ==
  elan[l] # Free =>
    \A j, k \in PortSlots : elan[l].ports[j] = elan[l].ports[k] /\ elan[l].ports[j] # None => j = k
SlotsInv == \A l \in ELans : OneSlot(l)

ControlInv == LeafType /\ TablesType /\ LearnedType /\ WordsInv /\ HadInv /\ LearnedInv
LoopsInv   == DeliveryInv /\ BurstType /\ BurstInv
CachesInv  == CacheInv /\ MacInv /\ ViaInv /\ OnlyRebindingCrashes

(***************************************************************************)
(* The steps.                                                              *)
(***************************************************************************)
\* A call or a callback, as the input node sees it.
ControlStep ==
  /\ Next /\ Watch
  /\ \/ GracePeriod /\ \E t \in Threads : Begin(t) \/ Continue(t)
     \/ UNCHANGED waits /\ RcuStep /\ (rcu # <<>> => Head(rcu) \notin waits)
  /\ UNCHANGED <<burstVars, ring>>

Receives ==
  \E i \in Ifaces, n \in 1 .. MaxBurst : \E mbufs \in [1 .. n -> PacketsOf(i)] : RxBurst(i, mbufs)

LEMMA ForwardingCases ==
  ASSUME [ForwardingNext]_allVars
  PROVE  \/ UNCHANGED allVars
         \/ ~crashed /\ Receives
         \/ ~crashed /\ BurstStep
         \/ ~crashed /\ \E t \in Threads : LearnMac(t)
         \/ ~crashed /\ ControlStep
<1>1. ApiStep => ControlStep
  BY DEF ApiStep, ControlStep, Next
<1>2. ReclaimStep => ControlStep
  BY DEF ReclaimStep, ControlStep, Next
<1> QED
  BY <1>1, <1>2 DEF ForwardingNext, Still, Receives

\* An address is learned in its E-LAN.
Refreshes(e) == FindELan(e.elan) /\ SetFib(e.elan, e.mac, e.entry)

\* The burst leaves the tables alone, but for the addresses it refreshes.
LEMMA BurstKeepsTables ==
  ASSUME BurstStep \/ Receives \/ \E t \in Threads : LearnMac(t)
  PROVE  \/ TablesUnchanged
         \/ InUpdate /\ UpdateMac /\ Refreshes(Head(learned))
         \/ ring # <<>> /\ (\E t \in Threads : LearnMac(t)) /\ Refreshes(Head(ring))
<1>1. CASE UpdateMac
  BY <1>1 DEF UpdateMac, Refreshes
<1>2. CASE \E t \in Threads : LearnMac(t)
  BY <1>2 DEF LearnMac, Refreshes
<1>3. CASE LookupVlan \/ LookupLabel \/ LookupMac \/ Crash \/ Decide \/ EndOfPackets
  BY <1>3 DEF LookupVlan, LookupLabel, LookupMac, Crash, Decide, EndOfPackets, Reads, Store
<1>4. CASE PostAtOnce \/ BeginFlood \/ FloodNowhere \/ FloodPort \/ FloodEnd \/ EndOfBurst
  BY <1>4 DEF PostAtOnce, BeginFlood, FloodNowhere, FloodPort, FloodEnd, EndOfBurst, Posted, Reads
<1>5. CASE Receives
  BY <1>5 DEF Receives, RxBurst
<1> QED
  BY <1>1, <1>2, <1>3, <1>4, <1>5 DEF BurstStep

(***************************************************************************)
(* What calls and callbacks do to the E-LANs.                              *)
(***************************************************************************)
\* The calls of the API but for the deletion of the E-LAN.
ELanChange(l) ==
  \/ RegisterELanService(l)
  \/ \E k \in PortSlots : DeleteELanPort(l, k) \/ \E port \in Port : RegisterELanPort(l, k, port)
  \/ \E k \in NhlfeSlots :
       DeleteELanNhlfe(l, k) \/ \E nhlfe \in Nhlfe : RegisterELanNhlfe(l, k, nhlfe)
  \/ \E mac \in Macs :
       \/ DeleteELanFwdEntry(l, mac)
       \/ \E entry \in Port \cup Nhlfe : RegisterELanFwdEntry(l, mac, entry)
  \/ \E h \in Nexthops : SetELanMulticast(l, h)
  \/ ResetELanMulticast(l)

EndsELan(l)    == DeleteELanService(l) /\ rcu' = Append(rcu, ELanCallback(l))
Reclaims(l) == ELanRelease(l) /\ rcu # <<>> /\ Head(rcu) = ELanCallback(l)
Recounted   == \E service \in Services : Reference(service) \/ Dereference(service)

ELansMove ==
  \/ elan' = elan
  \/ \E l \in ELans : ELanChange(l) \/ EndsELan(l) \/ Reclaims(l)
  \/ Recounted

LEMMA ServicesMove ==
  ASSUME NEW t \in Threads, ServiceStep(t) \/ ServicePortStep(t)
  PROVE  ELansMove
<1>1. ASSUME NEW h \in Nexthops, RegisterCommonNexthop(h) \/ DeleteCommonNexthop(h)
      PROVE  elan' = elan
  BY <1>1 DEF RegisterCommonNexthop, DeleteCommonNexthop
<1>2. ASSUME NEW s \in ELines, ELineStep(s)
      PROVE  elan' = elan
  BY <1>2 DEF ELineStep, RegisterELineService, DeleteELineService, RegisterELinePort,
              DeleteELinePort, RegisterELineNhlfe, DeleteELineNhlfe
<1>3. ServiceStep(t) =>
        \/ \E h \in Nexthops : RegisterCommonNexthop(h) \/ DeleteCommonNexthop(h)
        \/ \E s \in ELines : ELineStep(s)
        \/ \E l \in ELans : ELanChange(l)
  BY DEF ServiceStep, ELineStep, ELanChange
<1>4. ServicePortStep(t) =>
        \/ \E s \in ELines : ELineStep(s)
        \/ \E l \in ELans : ELanChange(l)
  BY DEF ServicePortStep, ELineStep, ELanChange
<1> QED
  BY <1>1, <1>2, <1>3, <1>4 DEF ELansMove

LEMMA BoundService ==
  ASSUME LeafType, NEW a \in Processes, call[a].pc \in {"release", "delete"}
  PROVE  /\ call[a].iface \in Csps /\ call[a].entry \in Vlans
         /\ PortOf(call[a]) \in Port
         /\ vlans[call[a].iface][call[a].entry] \in Services \cup {None}
BY CallsKnown DEF OnVlan

LEMMA ReleaseBindingMoves ==
  ASSUME LeafType, NEW a \in Processes, ReleaseBinding(a)
  PROVE  elan' = elan
<1>1. \A s : DeleteELinePort(s) => elan' = elan
  BY DEF DeleteELinePort
<1> QED
  BY <1>1 DEF ReleaseBinding, tables

LEMMA DeleteFoundPortMoves ==
  ASSUME LeafType, NEW a \in Processes, DeleteFoundPort(a)
  PROVE  ELansMove
<1>1. CASE UNCHANGED tables
  BY <1>1 DEF tables, ELansMove
<1>2. CASE ~UNCHANGED tables
  <2>1. DeleteELanPort(vlans[call[a].iface][call[a].entry].service_index, call[a].slot)
    BY <1>2 DEF DeleteFoundPort
  <2>2. PICK l, k : DeleteELanPort(l, k)
    BY <2>1
  <2>3. l \in ELans /\ k \in PortSlots
    BY <2>2 DEF DeleteELanPort, HasELanPort, FindELan
  <2> QED
    BY <2>2, <2>3 DEF ELansMove, ELanChange
<1> QED
  BY <1>1, <1>2

LEMMA RegisterBindingMoves ==
  ASSUME LeafType, NEW t \in Threads, RegisterBinding(t)
  PROVE  ELansMove
<1>1. \A s, p : RegisterELinePort(s, p) => elan' = elan
  BY DEF RegisterELinePort
<1>2. PortOf(call[t]) \in Port
  <2>1. t \in Processes /\ call[t].pc = "register"
    BY DEF RegisterBinding, Processes
  <2> QED
    BY <2>1, CallsKnown DEF OnVlan
<1>3. \A l, k, p : RegisterELanPort(l, k, p) => l \in ELans
  BY DEF RegisterELanPort, ELanTakesPort, FindELan
<1>4. CASE \E k \in PortSlots : RegisterELanPort(call[t].service.service_index, k, PortOf(call[t]))
  BY <1>2, <1>3, <1>4 DEF ELansMove, ELanChange
<1>5. CASE elan' = elan
  BY <1>5 DEF ELansMove
<1> QED
  BY <1>1, <1>4, <1>5 DEF RegisterBinding, tables

LEMMA ResetLabelMoves ==
  ASSUME LeafType, NEW c \in Cbps, NEW b \in Labels, ResetLabel(c, b)
  PROVE  ELansMove
<1>1. labels[c][b] \in LabelEntry \cup {None}
  BY TypedPorts DEF LabelTable
<1>2. labels[c][b] # None => labels[c][b].service \in Services
  BY <1>1 DEF LabelEntry
<1>3. CASE UNCHANGED tables
  BY <1>3 DEF tables, ELansMove
<1>4. CASE ~UNCHANGED tables
  BY <1>2, <1>4 DEF ResetLabel, ELansMove, Recounted
<1> QED
  BY <1>3, <1>4

LEMMA BindLabelMoves ==
  ASSUME LeafType, NEW t \in Threads, BindLabel(t)
  PROVE  ELansMove
<1>1. t \in Processes /\ call[t].pc = "bind"
  BY DEF BindLabel, Processes
<1>2. call[t].service \in Services
  BY <1>1, CallsKnown DEF OnLabel
<1>3. CASE UNCHANGED tables
  BY <1>3 DEF tables, ELansMove
<1>4. CASE ~UNCHANGED tables
  BY <1>2, <1>4 DEF BindLabel, ELansMove, Recounted
<1> QED
  BY <1>3, <1>4

LEMMA RcuMoves ==
  ASSUME LeafType, RcuStep
  PROVE  ELansMove
<1>0. Rcu \in Processes
  BY DEF Processes
<1>1. CASE \E i \in Csps : ReleaseVlan(i)
  BY <1>1 DEF ReleaseVlan, tables, ELansMove
<1>2. CASE ReleaseBinding(Rcu)
  BY <1>0, <1>2, ReleaseBindingMoves DEF ELansMove
<1>3. CASE DeleteFoundPort(Rcu)
  BY <1>0, <1>3, DeleteFoundPortMoves
<1>4. CASE \E c \in Cbps : ReleaseLabel(c)
  BY <1>4, ResetLabelMoves DEF ReleaseLabel, BoundLabels
<1>5. CASE \E i \in Ifaces : DetachIface(i)
  BY <1>5 DEF DetachIface, tables, ELansMove
<1>6. ASSUME NEW l \in ELans, PostDeleteELan(l) PROVE ELansMove
  <2>1. rcu # <<>> /\ Head(rcu) = ELanCallback(l)
    BY <1>6 DEF PostDeleteELan, ELanCallback
  <2>2. rcu \in Seq(Callback)
    BY TypedPorts
  <2>3. Deleted(l)
    BY <2>1, <2>2, QueueTail, AwaitedOne DEF LeafType, RcuInv
  <2>4. ELanRelease(l)
    BY <1>6, <2>3 DEF PostDeleteELan, ELanRelease
  <2> QED
    BY <2>1, <2>4 DEF ELansMove, Reclaims
<1> QED
  BY <1>1, <1>2, <1>3, <1>4, <1>5, <1>6 DEF RcuStep

LEMMA NextMoves ==
  ASSUME LeafType, Next
  PROVE  ELansMove
<1>1. ASSUME NEW t \in Threads, Continue(t) PROVE ELansMove
  <2>1. t \in Processes
    BY DEF Processes
  <2>2. CheckLabelService(t) => elan' = elan
    BY DEF CheckLabelService, tables
  <2> QED
    BY <1>1, <2>1, <2>2, ReleaseBindingMoves, DeleteFoundPortMoves, RegisterBindingMoves,
       BindLabelMoves DEF Continue, ELansMove
<1>2. ASSUME NEW t \in Threads, Begin(t) PROVE ELansMove
  <2>1. CASE ServiceStep(t) \/ ServicePortStep(t)
    BY <2>1, ServicesMove
  <2>2. CASE \E l \in ELans : DeleteELan(t, l)
    BY <2>2 DEF DeleteELan, ELansMove, EndsELan, ELanCallback
  <2>3. CASE \E i \in Csps, v \in Vlans :
               \/ \E service \in Services : CspSetupPort(t, i, v, service)
               \/ CspWithdrawPort(t, i, v)
    BY <2>3 DEF CspSetupPort, CspWithdrawPort, tables, ELansMove
  <2>4. ASSUME NEW c \in Cbps, NEW b \in Labels,
               \/ \E service \in Services : CbpSetupLabel(t, c, b, service)
               \/ CbpClearLabel(t, c, b)
        PROVE  ELansMove
    BY <2>4, ResetLabelMoves DEF CbpSetupLabel, CbpClearLabel
  <2>5. ASSUME NEW c \in Cbps, NEW b \in Labels,
               \/ \E path \in Nhlfe : CbpSetEgress(t, c, b, path)
               \/ CbpClearEgress(t, c, b)
        PROVE  ELansMove
    BY <2>5 DEF CbpSetEgress, CbpClearEgress, tables, ELansMove
  <2>6. CASE \E i \in Ifaces : RegisterIface(t, i) \/ UnregisterIface(t, i)
    BY <2>6 DEF RegisterIface, UnregisterIface, tables, ELansMove
  <2> QED
    BY <1>2, <2>1, <2>2, <2>3, <2>4, <2>5, <2>6 DEF Begin
<1> QED
  BY <1>1, <1>2, RcuMoves DEF Next

(* What that means for one E-LAN. *)
FibKeeps(l) ==
  elan'[l] # Free =>
    \A mac \in Macs : \/ elan'[l].fib[mac] \in Entries(l) \cup {None}
                      \/ elan[l] # Free /\ elan'[l].fib[mac] = elan[l].fib[mac]

UseKeeps(l) ==
  elan[l] # Free =>
    \/ elan'[l] # Free /\ elan'[l].is_valid = elan[l].is_valid
    \/ elan'[l] # Free /\ rcu' = Append(rcu, ELanCallback(l))
    \/ ~elan[l].is_valid /\ rcu # <<>> /\ Head(rcu) = ELanCallback(l)

SamePorts(l) ==
  /\ elan[l] # Free /\ elan'[l] # Free
  /\ elan'[l].is_valid = elan[l].is_valid /\ elan'[l].ports = elan[l].ports
NoPort(l) == elan'[l] # Free /\ \A k \in PortSlots : elan'[l].ports[k] = None
AddsPort(l, k, p) ==
  /\ FindELan(l) /\ FindELan(l)' /\ \A j \in PortSlots : elan[l].ports[j] # p
  /\ elan[l].ports[k] = None /\ elan'[l].ports = [elan[l].ports EXCEPT ![k] = p]
DropsPort(l, k) ==
  /\ FindELan(l) /\ FindELan(l)'
  /\ elan[l].ports[k] # None /\ elan'[l].ports = [elan[l].ports EXCEPT ![k] = None]

PortsKeep(l) ==
  \/ SamePorts(l)
  \/ \E k \in PortSlots : DropsPort(l, k) \/ \E p \in Port : AddsPort(l, k, p)
  \/ elan[l] = Free /\ NoPort(l)
  \/ /\ FindELan(l) /\ elan[l].ref_cnt = 0 /\ ~FindELan(l)'
     /\ elan'[l] # Free /\ elan'[l].ports = elan[l].ports
  \/ ~FindELan(l) /\ elan'[l] = Free

ELanEffects(l) == FibKeeps(l) /\ UseKeeps(l) /\ PortsKeep(l)

LEMMA SameELan ==
  ASSUME NEW l \in ELans, elan'[l] = elan[l]
  PROVE  ELanEffects(l)
BY DEF ELanEffects, FibKeeps, UseKeeps, PortsKeep, SamePorts, FindELan

LEMMA EntriesAre ==
  ASSUME NEW l \in ELans, elan[l] # Free
  PROVE  /\ \A k \in PortSlots : elan[l].ports[k] # None => elan[l].ports[k] \in Entries(l)
         /\ \A k \in NhlfeSlots : elan[l].nhlfes[k] # None => elan[l].nhlfes[k] \in Entries(l)
BY DEF Entries

LEMMA BecomesEffects ==
  ASSUME NEW l \in ELans, elan[l] # Free, NEW ns, NEW h, NEW fib, NEW n,
         ELanBecomes(l, elan[l].is_valid, elan[l].ports, ns, h, fib, n),
         \A mac \in Macs : fib[mac] \in Entries(l) \cup {None, elan[l].fib[mac]}
  PROVE  \A m \in ELans : ELanEffects(m)
<1>1. \A m \in ELans \ {l} : ELanEffects(m)
  BY SameELan DEF ELanBecomes
<1>2. ELanEffects(l)
  BY DEF ELanBecomes, ELanEffects, FibKeeps, UseKeeps, PortsKeep, SamePorts
<1> QED
  BY <1>1, <1>2

LEMMA PortEffects ==
  ASSUME TablesTypeOK, NEW l \in ELans, NEW k \in PortSlots,
         DeleteELanPort(l, k) \/ \E port \in Port : RegisterELanPort(l, k, port)
  PROVE  \A m \in ELans : ELanEffects(m)
<1>1. CASE DeleteELanPort(l, k)
  <2>1. ELanBecomes(l, elan[l].is_valid, [elan[l].ports EXCEPT ![k] = None],
                    elan[l].nhlfes, elan[l].multicast_NHLFE,
                    WithoutIface(elan[l].fib, elan[l].ports[k].iface), Decremented(elan[l].ref_cnt))
    BY <1>1, NoELanPortBecomes
  <2>2. elan[l] # Free /\ elan[l].is_valid /\ elan[l].ports[k] # None
    BY <1>1 DEF DeleteELanPort, HasELanPort, FindELan
  <2>3. \A m \in ELans \ {l} : ELanEffects(m)
    BY <2>1, SameELan DEF ELanBecomes
  <2>4. FibKeeps(l)
    BY <2>1, <2>2 DEF ELanBecomes, FibKeeps, WithoutIface
  <2>5. UseKeeps(l)
    BY <2>1, <2>2 DEF ELanBecomes, UseKeeps
  <2>6. DropsPort(l, k)
    BY <2>1, <2>2 DEF ELanBecomes, DropsPort, FindELan
  <2> QED
    BY <2>3, <2>4, <2>5, <2>6 DEF ELanEffects, PortsKeep
<1>2. ASSUME NEW p \in Port, RegisterELanPort(l, k, p) PROVE \A m \in ELans : ELanEffects(m)
  <2>1. ELanBecomes(l, elan[l].is_valid, [elan[l].ports EXCEPT ![k] = p],
                    elan[l].nhlfes, elan[l].multicast_NHLFE, elan[l].fib, elan[l].ref_cnt + 1)
    BY <1>2, ELanPortBecomes
  <2>2. /\ elan[l] # Free /\ elan[l].is_valid /\ elan[l].ports[k] = None
        /\ \A j \in PortSlots : elan[l].ports[j] # p
    BY <1>2 DEF RegisterELanPort, ELanTakesPort, FindELan, IsFirst, FreePortSlots
  <2>3. \A m \in ELans \ {l} : ELanEffects(m)
    BY <2>1, SameELan DEF ELanBecomes
  <2>4. FibKeeps(l)
    BY <2>1, <2>2 DEF ELanBecomes, FibKeeps
  <2>5. UseKeeps(l)
    BY <2>1, <2>2 DEF ELanBecomes, UseKeeps
  <2>6. AddsPort(l, k, p)
    BY <2>1, <2>2 DEF ELanBecomes, AddsPort, FindELan
  <2> QED
    BY <2>3, <2>4, <2>5, <2>6 DEF ELanEffects, PortsKeep
<1> QED
  BY <1>1, <1>2

LEMMA NhlfeEffects ==
  ASSUME TablesTypeOK, NEW l \in ELans, NEW k \in NhlfeSlots,
         DeleteELanNhlfe(l, k) \/ \E nhlfe \in Nhlfe : RegisterELanNhlfe(l, k, nhlfe)
  PROVE  \A m \in ELans : ELanEffects(m)
<1>1. CASE DeleteELanNhlfe(l, k)
  <2>1. ELanBecomes(l, elan[l].is_valid, elan[l].ports,
                    [elan[l].nhlfes EXCEPT ![k] = None], elan[l].multicast_NHLFE,
                    WithoutNexthop(elan[l].fib, elan[l].nhlfes[k].NHLFE), elan[l].ref_cnt)
    BY <1>1, NoELanNhlfeBecomes
  <2>2. elan[l] # Free
    BY <1>1 DEF DeleteELanNhlfe, FindELan
  <2>3. \A mac \in Macs : WithoutNexthop(elan[l].fib, elan[l].nhlfes[k].NHLFE)[mac]
                            \in Entries(l) \cup {None, elan[l].fib[mac]}
    BY DEF WithoutNexthop
  <2> QED
    BY <2>1, <2>2, <2>3, BecomesEffects
<1>2. ASSUME NEW nhlfe \in Nhlfe, RegisterELanNhlfe(l, k, nhlfe)
      PROVE  \A m \in ELans : ELanEffects(m)
  BY <1>2, ELanNhlfeBecomes, BecomesEffects DEF RegisterELanNhlfe, FindELan
<1> QED
  BY <1>1, <1>2

LEMMA FwdEntryEffects ==
  ASSUME TablesTypeOK, NEW l \in ELans, NEW mac \in Macs,
         DeleteELanFwdEntry(l, mac) \/ \E e \in Port \cup Nhlfe : RegisterELanFwdEntry(l, mac, e)
  PROVE  \A m \in ELans : ELanEffects(m)
<1>1. CASE DeleteELanFwdEntry(l, mac)
  <2>1. elan[l] # Free /\ elan[l] \in ELan
    BY <1>1 DEF DeleteELanFwdEntry, FindELan, TablesTypeOK
  <2>2. \A m \in Macs : [elan[l].fib EXCEPT ![mac] = None][m]
                            \in Entries(l) \cup {None, elan[l].fib[m]}
    BY <2>1 DEF ELan
  <2> QED
    BY <1>1, <2>1, <2>2, NoFwdEntryBecomes, BecomesEffects
<1>2. ASSUME NEW e \in Port \cup Nhlfe, RegisterELanFwdEntry(l, mac, e)
      PROVE  \A m \in ELans : ELanEffects(m)
  <2>1. elan[l] # Free /\ elan[l] \in ELan
    BY <1>2 DEF RegisterELanFwdEntry, ELanPortSlots, ELanNhlfeSlots, FindELan, TablesTypeOK
  <2>2. e \in Entries(l)
    <3>1. e # None
      BY FreeAssumption
    <3>2. (\E k \in PortSlots : elan[l].ports[k] = e) \/ (\E k \in NhlfeSlots : elan[l].nhlfes[k] = e)
      BY <1>2 DEF RegisterELanFwdEntry, ELanPortSlots, ELanNhlfeSlots
    <3> QED
      BY <2>1, <3>1, <3>2, EntriesAre
  <2>3. \A m \in Macs : [elan[l].fib EXCEPT ![mac] = e][m]
                            \in Entries(l) \cup {None, elan[l].fib[m]}
    BY <2>1, <2>2 DEF ELan
  <2> QED
    BY <1>2, <2>1, <2>3, FwdEntryBecomes, BecomesEffects
<1> QED
  BY <1>1, <1>2

LEMMA MulticastEffects ==
  ASSUME TablesTypeOK, NEW l \in ELans, elan[l] # Free, NEW h \in Hops, PutMulticast(l, h)
  PROVE  \A m \in ELans : ELanEffects(m)
BY MulticastBecomes, BecomesEffects DEF Hops

LEMMA ReclaimEffects ==
  ASSUME TablesTypeOK, NEW l \in ELans, Reclaims(l)
  PROVE  \A m \in ELans : ELanEffects(m)
<1>1. elan[l] # Free /\ elan[l].is_valid = FALSE /\ rcu # <<>> /\ Head(rcu) = ELanCallback(l)
  BY DEF Reclaims, ELanRelease, Deleted
<1>2. CASE ReleaseMulticast(l)
  BY <1>1, <1>2, MulticastEffects DEF ReleaseMulticast, PutMulticast, Hops
<1>3. ASSUME NEW k \in NhlfeSlots, ReleaseNhlfe(l, k) PROVE \A m \in ELans : ELanEffects(m)
  BY <1>1, <1>3, UnreleasedBecomes, BecomesEffects DEF ReleaseNhlfe, ClearNhlfe
<1>4. CASE ReleaseELan(l)
  <2>1. elan' = [elan EXCEPT ![l] = Free]
    BY <1>4 DEF ReleaseELan
  <2>2. elan'[l] = Free /\ \A m \in ELans \ {l} : elan'[m] = elan[m]
    BY <2>1 DEF TablesTypeOK
  <2>3. \A m \in ELans \ {l} : ELanEffects(m)
    BY <2>2, SameELan
  <2>4. ELanEffects(l)
    BY <1>1, <2>2 DEF ELanEffects, FibKeeps, UseKeeps, PortsKeep, FindELan
  <2> QED
    BY <2>3, <2>4
<1> QED
  BY <1>2, <1>3, <1>4 DEF Reclaims, ELanRelease

LEMMA EndsEffects ==
  ASSUME TablesTypeOK, NEW l \in ELans, EndsELan(l)
  PROVE  \A m \in ELans : ELanEffects(m)
<1>1. ELanBecomes(l, FALSE, elan[l].ports, elan[l].nhlfes, elan[l].multicast_NHLFE,
                  elan[l].fib, elan[l].ref_cnt)
  BY ReleasedELanBecomes DEF EndsELan
<1>2. FindELan(l) /\ elan[l].ref_cnt = 0 /\ elan[l] # Free /\ rcu' = Append(rcu, ELanCallback(l))
  BY DEF EndsELan, DeleteELanService, FindELan
<1>3. \A m \in ELans \ {l} : ELanEffects(m)
  BY <1>1, SameELan DEF ELanBecomes
<1>4. ELanEffects(l)
  BY <1>1, <1>2 DEF ELanBecomes, ELanEffects, FibKeeps, UseKeeps, PortsKeep, FindELan
<1> QED
  BY <1>3, <1>4

LEMMA ELanRecounted ==
  ASSUME TablesTypeOK, NEW l \in ELans, FindELan(l), NEW n \in Nat, elan' = WithRefCnt(elan, l, n)
  PROVE  \A m \in ELans : ELanEffects(m)
<1>1. elan[l] # Free
  BY DEF FindELan
<1>2. ELanBecomes(l, elan[l].is_valid, elan[l].ports, elan[l].nhlfes, elan[l].multicast_NHLFE,
                  elan[l].fib, n)
  BY <1>1, ELanCountBecomes DEF PutELanCount
<1> QED
  BY <1>1, <1>2, BecomesEffects

LEMMA RecountEffects ==
  ASSUME TablesTypeOK, Recounted
  PROVE  \A m \in ELans : ELanEffects(m)
<1>1. PICK service \in Services : Reference(service) \/ Dereference(service)
  BY DEF Recounted
<1>2. CASE elan' = elan
  BY <1>2, SameELan
<1>3. CASE elan' # elan
  <2>1. PICK l \in ELans : FindELan(l) /\ \/ elan' = WithRefCnt(elan, l, elan[l].ref_cnt + 1)
                                          \/ elan' = WithRefCnt(elan, l, Decremented(elan[l].ref_cnt))
    BY <1>1, <1>3 DEF Reference, Dereference, FindELan
  <2>2. elan[l].ref_cnt \in Nat
    BY <2>1 DEF FindELan, TablesTypeOK, ELan
  <2>3. elan[l].ref_cnt + 1 \in Nat /\ Decremented(elan[l].ref_cnt) \in Nat
    BY <2>2 DEF Decremented
  <2> QED
    BY <2>1, <2>3, ELanRecounted
<1> QED
  BY <1>2, <1>3

LEMMA ChangeEffects ==
  ASSUME TablesTypeOK, NEW l \in ELans, ELanChange(l)
  PROVE  \A m \in ELans : ELanEffects(m)
<1>1. CASE RegisterELanService(l)
  <2>1. ELanBecomes(l, TRUE, [k \in PortSlots |-> None], [k \in NhlfeSlots |-> None], None,
                    [mac \in Macs |-> None], 0)
    BY <1>1, NewELanBecomes
  <2>2. elan[l] = Free
    BY <1>1 DEF RegisterELanService, IsFirst
  <2>3. \A m \in ELans \ {l} : ELanEffects(m)
    BY <2>1, SameELan DEF ELanBecomes
  <2>4. ELanEffects(l)
    BY <2>1, <2>2 DEF ELanBecomes, ELanEffects, FibKeeps, UseKeeps, PortsKeep, NoPort, FindELan
  <2> QED
    BY <2>3, <2>4
<1>2. CASE (\E h \in Nexthops : SetELanMulticast(l, h)) \/ ResetELanMulticast(l)
  <2>1. elan[l] # Free
    BY <1>2 DEF SetELanMulticast, ResetELanMulticast, FindELan
  <2>2. \E h \in Hops : PutMulticast(l, h)
    BY <1>2 DEF SetELanMulticast, ResetELanMulticast, PutMulticast, Hops
  <2> QED
    BY <2>1, <2>2, MulticastEffects
<1>3. CASE \E k \in PortSlots : DeleteELanPort(l, k) \/ \E port \in Port : RegisterELanPort(l, k, port)
  BY <1>3, PortEffects
<1>4. CASE \E k \in NhlfeSlots :
             DeleteELanNhlfe(l, k) \/ \E nhlfe \in Nhlfe : RegisterELanNhlfe(l, k, nhlfe)
  BY <1>4, NhlfeEffects
<1>5. CASE \E mac \in Macs :
             DeleteELanFwdEntry(l, mac) \/ \E e \in Port \cup Nhlfe : RegisterELanFwdEntry(l, mac, e)
  BY <1>5, FwdEntryEffects
<1> QED
  BY <1>1, <1>2, <1>3, <1>4, <1>5 DEF ELanChange

LEMMA NextEffects ==
  ASSUME LeafType, Next
  PROVE  \A l \in ELans : ELanEffects(l)
<1>1. TablesTypeOK
  BY DEF LeafType, TypeOK
<1>2. ELansMove
  BY NextMoves
<1>3. CASE elan' = elan
  BY <1>3, SameELan
<1> QED
  BY <1>1, <1>2, <1>3, ChangeEffects, EndsEffects, ReclaimEffects, RecountEffects DEF ELansMove

(***************************************************************************)
(* Addresses that the burst learns.                                        *)
(***************************************************************************)
LEMMA RefreshBecomes ==
  ASSUME TablesTypeOK, NEW e \in Learned, Refreshes(e)
  PROVE  /\ e.elan \in ELans /\ elan[e.elan] # Free
         /\ ELanBecomes(e.elan, elan[e.elan].is_valid, elan[e.elan].ports, elan[e.elan].nhlfes,
                        elan[e.elan].multicast_NHLFE,
                        [elan[e.elan].fib EXCEPT ![e.mac] = e.entry], elan[e.elan].ref_cnt)
<1>0. PICK l \in ELans, mac \in Macs, entry \in Entry : l = e.elan /\ mac = e.mac /\ entry = e.entry
  BY DEF Learned
<1>1. elan[l] \in ELan /\ elan[l] # Free
  BY <1>0 DEF Refreshes, FindELan, TablesTypeOK
<1>2. PICK x : x = elan[l]
  OBVIOUS
<1>3. PICK r : r = [x EXCEPT !.fib = [x.fib EXCEPT ![mac] = entry]]
  OBVIOUS
<1>4. elan' = [elan EXCEPT ![l] = r]
  BY <1>0, <1>2, <1>3 DEF Refreshes, SetFib, TablesTypeOK
<1>5. r = [is_valid |-> x.is_valid, ports |-> x.ports,
           nhlfes |-> x.nhlfes, multicast_NHLFE |-> x.multicast_NHLFE,
           fib |-> [x.fib EXCEPT ![mac] = entry], ref_cnt |-> x.ref_cnt]
  BY <1>1, <1>2, <1>3 DEF ELan
<1>6. /\ x.is_valid \in BOOLEAN
      /\ x.ports \in [PortSlots -> Port \cup {None}]
      /\ x.nhlfes \in [NhlfeSlots -> Nhlfe \cup {None}]
      /\ x.multicast_NHLFE \in Nexthops \cup {None}
      /\ [x.fib EXCEPT ![mac] = entry] \in [Macs -> Port \cup Nhlfe \cup {None}]
      /\ x.ref_cnt \in Nat
  BY <1>1, <1>2 DEF ELan, Entry
<1>7. ELanBecomes(l, x.is_valid, x.ports, x.nhlfes, x.multicast_NHLFE,
                  [x.fib EXCEPT ![mac] = entry], x.ref_cnt)
  BY <1>4, <1>5, <1>6, ELanPut
<1> QED
  BY <1>0, <1>1, <1>2, <1>7

\* The tables are as before, but for MAC entries.
OnlyFibs ==
  /\ UNCHANGED <<eline, nexthop, ports, local, words, had, seen>>
  /\ elan' \in [ELans -> ELan \cup {Free}]
  /\ \A l \in ELans :
       /\ elan'[l] = Free <=> elan[l] = Free
       /\ elan[l] # Free => /\ elan'[l].is_valid = elan[l].is_valid /\ elan'[l].ports = elan[l].ports
                            /\ elan'[l].nhlfes = elan[l].nhlfes
                            /\ elan'[l].ref_cnt = elan[l].ref_cnt

LEMMA RefreshIsOnlyFibs ==
  ASSUME TablesTypeOK, NEW e \in Learned, Refreshes(e)
  PROVE  /\ OnlyFibs
         /\ \A l \in ELans, mac \in Macs : elan[l] # Free =>
              \/ elan'[l].fib[mac] = elan[l].fib[mac]
              \/ l = e.elan /\ elan'[l].fib[mac] = e.entry
<1>1. /\ e.elan \in ELans /\ elan[e.elan] # Free /\ elan[e.elan] \in ELan
      /\ ELanBecomes(e.elan, elan[e.elan].is_valid, elan[e.elan].ports, elan[e.elan].nhlfes,
                     elan[e.elan].multicast_NHLFE,
                     [elan[e.elan].fib EXCEPT ![e.mac] = e.entry], elan[e.elan].ref_cnt)
  BY RefreshBecomes DEF TablesTypeOK
<1>2. UNCHANGED <<eline, nexthop, ports, local, words, had, seen>>
  BY DEF Refreshes, SetFib
<1>3. OnlyFibs
  BY <1>1, <1>2 DEF ELanBecomes, OnlyFibs
<1>4. \A mac \in Macs : \/ elan'[e.elan].fib[mac] = elan[e.elan].fib[mac]
                        \/ elan'[e.elan].fib[mac] = e.entry
  BY <1>1 DEF ELanBecomes, ELan
<1>5. \A l \in ELans \ {e.elan} : elan'[l] = elan[l]
  BY <1>1 DEF ELanBecomes
<1> QED
  BY <1>3, <1>4, <1>5

LEMMA OnlyFibsKeepsType ==
  ASSUME LeafType, OnlyFibs
  PROVE  LeafType'
<1>1. UNCHANGED <<state, vlans, labels, call, rcu>>
  BY DEF OnlyFibs, ports
<1>2. TypeOK'
  BY <1>1 DEF LeafType, TypeOK, TablesTypeOK, OnlyFibs
<1>3. CallsInv' /\ Exclusive'
  BY <1>1, UntouchedCalls
<1>4. \A cb : Awaited(cb) => Awaited(cb)'
  BY <1>1 DEF Awaited, Deleted, OnlyFibs
<1>5. \A cb : InQueue(rcu', cb) => Awaited(cb)'
  BY <1>1, <1>4 DEF LeafType, RcuInv
<1>6. /\ Distinct(rcu')
      /\ call'[Rcu] # Idle =>
           /\ rcu' # <<>> /\ Head(rcu') = IfaceCallback(call'[Rcu].iface)
           /\ call'[Rcu].pc \in {"release", "delete"} /\ call'[Rcu].service = None
  BY <1>1 DEF LeafType, RcuInv
<1>7. RcuInv'
  BY <1>5, <1>6 DEF RcuInv, IfaceCallback
<1> QED
  BY <1>2, <1>3, <1>7 DEF LeafType

LEMMA OnlyFibsKeepsBindings ==
  ASSUME LeafType, Bindings, OnlyFibs
  PROVE  Bindings'
<1>1. UNCHANGED <<vlans, labels, call>> /\ eline' = eline
  BY DEF OnlyFibs, ports
<1>2. \A l \in ELans : Keeps(ELanService(l))
  BY ELanKept DEF OnlyFibs
<1>3. \A s \in ELines : Keeps(ELineService(s))
  BY <1>1, ELineKept
<1>4. \A x \in Services : Keeps(x) /\ ServiceMove(x)
  BY <1>2, <1>3, ServicesSplit DEF ServiceMove
<1>5. SameLabels
  BY <1>1 DEF SameLabels, IsBound
<1> QED
  BY <1>1, <1>4, <1>5, QuietBindings

LEMMA SameEntries ==
  ASSUME OnlyFibs
  PROVE  \A l \in ELans : Entries(l)' = Entries(l)
<1> SUFFICES ASSUME NEW l \in ELans PROVE Entries(l)' = Entries(l)
  OBVIOUS
<1>1. CASE elan[l] = Free
  BY <1>1 DEF OnlyFibs, Entries
<1>2. CASE elan[l] # Free
  <2>1. elan'[l] # Free /\ elan'[l].ports = elan[l].ports /\ elan'[l].nhlfes = elan[l].nhlfes
    BY <1>2 DEF OnlyFibs
  <2> QED
    BY <1>2, <2>1 DEF Entries
<1> QED
  BY <1>1, <1>2

(***************************************************************************)
(* What E-LANs have or had.                                                *)
(***************************************************************************)
EntriesTyped == \A l \in ELans : Entries(l) \subseteq Entry

LEMMA EntriesAreTyped == TablesTypeOK => EntriesTyped
<1> SUFFICES ASSUME TablesTypeOK, NEW l \in ELans, elan[l] # Free
             PROVE  Entries(l) \subseteq Entry
  BY DEF EntriesTyped, Entries
<1>1. elan[l] \in ELan
  BY DEF TablesTypeOK
<1> QED
  BY <1>1 DEF Entries, Entry, ELan

LEMMA VlansMove ==
  ASSUME LeafType, LeafType', Next, NEW p \in Port, NEW l \in ELans,
         vlans'[p.iface][p.vlan_tci] = ELanService(l)
  PROVE  vlans[p.iface][p.vlan_tci] = ELanService(l) \/ p \in Entries(l)'
<1>0. /\ vlans \in [Csps -> [Vlans -> Services \cup {None}]]
      /\ ELanService(l) \in Services /\ ELanService(l) # None
      /\ p.iface \in Csps /\ p.vlan_tci \in Vlans
  BY TypedPorts, ServicesSplit, LeafAssumption DEF Port
<1>1. ASSUME NEW a \in Processes, OnVlan(call[a]), call[a].pc # "idle", Unbound(a)
      PROVE  vlans[p.iface][p.vlan_tci] = ELanService(l)
  <2>1. PICK i \in Csps, v \in Vlans : i = call[a].iface /\ v = call[a].entry
    BY <1>1, CallsKnown
  <2>2. vlans' = [vlans EXCEPT ![i][v] = None]
    BY <1>1, <2>1 DEF Unbound
  <2> QED
    BY <1>0, <2>1, <2>2
<1>2. ASSUME NEW a \in Processes, ReleaseBinding(a) \/ DeleteFoundPort(a)
      PROVE  vlans[p.iface][p.vlan_tci] = ELanService(l)
  BY <1>1, <1>2 DEF ReleaseBinding, DeleteFoundPort, OnVlan
<1>3. ASSUME NEW t \in Threads, RegisterBinding(t)
      PROVE  vlans[p.iface][p.vlan_tci] = ELanService(l) \/ p \in Entries(l)'
  <2>1. t \in Processes /\ call[t].pc = "register"
    BY <1>3 DEF RegisterBinding, Processes
  <2>2. PICK i \in Csps, v \in Vlans, x \in Services :
          i = call[t].iface /\ v = call[t].entry /\ x = call[t].service
    BY <2>1, CallsKnown DEF OnVlan, OnLabel, Working
  <2>3. CASE vlans' = vlans
    BY <2>3
  <2>4. CASE vlans' = [vlans EXCEPT ![i][v] = x] /\ ~(i = p.iface /\ v = p.vlan_tci)
    BY <1>0, <2>4
  <2>5. CASE /\ vlans' = [vlans EXCEPT ![i][v] = x] /\ i = p.iface /\ v = p.vlan_tci
             /\ vlans' # vlans
    <3>1. x = ELanService(l)
      BY <1>0, <2>5
    <3>2. PortOf(call[t]) = p
      BY <2>2, <2>5 DEF PortOf, Port
    <3>3. x.e_service = "e_lan" /\ x.service_index = l
      BY <3>1 DEF ELanService
    <3>4. PICK k \in PortSlots : RegisterELanPort(l, k, p)
      BY <1>3, <2>2, <2>5, <3>2, <3>3 DEF RegisterBinding
    <3>5. elan'[l].ports[k] = p /\ elan'[l] # Free
      <4>1. TablesTypeOK
        BY DEF LeafType, TypeOK
      <4>2. ELanBecomes(l, elan[l].is_valid, [elan[l].ports EXCEPT ![k] = p],
                     elan[l].nhlfes, elan[l].multicast_NHLFE,
                     elan[l].fib, elan[l].ref_cnt + 1)
        BY <3>4, <4>1, ELanPortBecomes
      <4>3. elan[l] \in ELan
        BY <3>4, <4>1 DEF RegisterELanPort, ELanTakesPort, FindELan, TablesTypeOK
      <4> QED
        BY <4>2, <4>3 DEF ELanBecomes, ELan
    <3>6. p # None
      BY FreeAssumption
    <3> QED
      BY <3>5, <3>6 DEF Entries
  <2> QED
    BY <1>3, <2>2, <2>3, <2>4, <2>5 DEF RegisterBinding
<1>4. \/ vlans' = vlans
      \/ \E a \in Processes : ReleaseBinding(a) \/ DeleteFoundPort(a)
      \/ \E t \in Threads : RegisterBinding(t)
  <2>1. ASSUME NEW t \in Threads, Begin(t) PROVE vlans' = vlans
    BY <2>1 DEF Begin, ServiceStep, ServicePortStep, DeleteELan, CspSetupPort, CspWithdrawPort,
                CbpSetupLabel, CbpClearLabel, CbpSetEgress, CbpClearEgress, RegisterIface,
                UnregisterIface, ports
  <2>2. ASSUME NEW t \in Threads, Continue(t)
        PROVE  vlans' = vlans \/ ReleaseBinding(t) \/ DeleteFoundPort(t) \/ RegisterBinding(t)
    BY <2>2 DEF Continue, CheckLabelService, BindLabel
  <2>3. ASSUME RcuStep
        PROVE  vlans' = vlans \/ ReleaseBinding(Rcu) \/ DeleteFoundPort(Rcu)
    BY <2>3 DEF RcuStep, ReleaseVlan, ReleaseLabel, DetachIface, PostDeleteELan
  <2> QED
    BY <2>1, <2>2, <2>3 DEF Next, Processes
<1> QED
  BY <1>2, <1>3, <1>4

LEMMA HadGrows ==
  ASSUME Watch
  PROVE  \A l \in ELans : had[l] \subseteq had'[l] /\ Entries(l)' \subseteq had'[l]
BY DEF Watch

LEMMA ControlKeepsControl ==
  ASSUME ControlInv, ControlStep
  PROVE  ControlInv'
<1>0. LeafType /\ Next /\ Watch /\ UNCHANGED <<learned, ring>>
  BY DEF ControlInv, ControlStep, burstVars
<1>1. LeafType'
  BY <1>0, StepKeepsType
<1>2. TablesType'
  <2>1. labels' \in LabelTable /\ EntriesTyped'
    <3>1. labels' \in LabelTable /\ TablesTypeOK'
      BY <1>1 DEF LeafType, TypeOK, LabelTable
    <3>2. TablesTypeOK' => EntriesTyped'
      BY EntriesAreTyped, PTL
    <3> QED
      BY <3>1, <3>2
  <2>2. words' \in [Cbps -> [Labels -> LabelEntry]]
    <3>1. \A c \in Cbps, b \in Labels :
            (IF labels'[c][b] # None THEN labels'[c][b] ELSE words[c][b]) \in LabelEntry
      BY <2>1 DEF LabelTable, ControlInv, TablesType
    <3> QED
      BY <1>0, <3>1 DEF Watch
  <2>3. local' \in [Nexthops -> Cbps]
    BY <1>0 DEF Watch, ControlInv, TablesType
  <2>4. had' \in [ELans -> SUBSET Entry]
    <3>1. \A l \in ELans : Entries(l)' \subseteq Entry
      BY <2>1 DEF EntriesTyped
    <3> QED
      BY <1>0, <3>1 DEF Watch, ControlInv, TablesType
  <2> QED
    BY <2>2, <2>3, <2>4 DEF TablesType
<1>3. WordsInv'
  BY <1>0 DEF Watch, WordsInv
<1>4. HadInv'
  <2>1. \A l \in ELans : Entries(l)' \subseteq had'[l] /\ Entries(l) \subseteq had'[l]
    BY <1>0, HadGrows DEF ControlInv, HadInv
  <2>2. ASSUME NEW l \in ELans, NEW mac \in Macs, elan'[l] # Free
        PROVE  elan'[l].fib[mac] \in had'[l] \cup {None}
    <3>1. \/ elan'[l].fib[mac] \in Entries(l) \cup {None}
          \/ elan[l] # Free /\ elan'[l].fib[mac] = elan[l].fib[mac]
      BY <1>0, <2>2, NextEffects DEF ELanEffects, FibKeeps
    <3>2. elan[l] # Free => elan[l].fib[mac] \in had[l] \cup {None}
      BY DEF ControlInv, HadInv
    <3>3. had[l] \subseteq had'[l]
      BY <1>0, HadGrows
    <3> QED
      BY <2>1, <3>1, <3>2, <3>3
  <2>3. ASSUME NEW p \in Port, NEW l \in ELans, vlans'[p.iface][p.vlan_tci] = ELanService(l)
        PROVE  p \in had'[l]
    <3>1. vlans[p.iface][p.vlan_tci] = ELanService(l) \/ p \in Entries(l)'
      BY <1>0, <1>1, <2>3, VlansMove
    <3> QED
      BY <1>0, <2>1, <3>1, HadGrows DEF ControlInv, HadInv
  <2>4. \A l \in ELans : ELanService(l)' = ELanService(l)
    BY DEF ELanService
  <2> QED
    BY <2>1, <2>2, <2>3, <2>4 DEF HadInv
<1>5. LearnedInv' /\ LearnedType'
  <2>1. \A l \in ELans : had[l] \subseteq had'[l]
    BY <1>0, HadGrows
  <2>2. /\ \A k \in 1 .. Len(learned) : learned[k].elan \in ELans
        /\ \A k \in 1 .. Len(ring) : ring[k].elan \in ELans
    <3>1. /\ \A k \in 1 .. Len(learned) : learned[k] \in Learned
          /\ \A k \in 1 .. Len(ring) : ring[k] \in Learned
      BY DEF ControlInv, LearnedType
    <3> QED
      BY <3>1 DEF Learned
  <2> QED
    BY <1>0, <2>1, <2>2 DEF ControlInv, LearnedInv, LearnedType
<1> QED
  BY <1>1, <1>2, <1>3, <1>4, <1>5 DEF ControlInv

(***************************************************************************)
(* The caches beside calls, callbacks and MAC learning.                    *)
(***************************************************************************)
\* What the caches depend on is as before, or seen tells that it is not.
Watched ==
  /\ seen \subseteq seen'
  /\ \A l \in ELans : had[l] \subseteq had'[l] /\ (InUse(l) => InUse(l)')
  /\ "vlan" \notin seen' => vlans' = vlans
  /\ "label" \notin seen' => labels' = labels /\ words' = words

LEMMA ELansOfStay ==
  ASSUME Watched, burst' = burst, seen' \cap {"vlan", "label"} = {}
  PROVE  /\ seen \cap {"vlan", "label"} = {}
         /\ \A p : ELansOf(p)' = ELansOf(p)
<1>1. seen \cap {"vlan", "label"} = {} /\ vlans' = vlans /\ words' = words
  BY DEF Watched
<1>2. \A p : ELansOf(p)' = ELansOf(p)
  BY <1>1 DEF ELansOf, AtCsp, Word, ELanService
<1> QED
  BY <1>1, <1>2

LEMMA LookedUpStays ==
  ASSUME Watched, burst' = burst, NEW j, NEW mac, NEW e, LookedUp(j, mac, e)
  PROVE  LookedUp(j, mac, e)'
<1>1. burst.mbufs[j].dst = mac
  BY DEF LookedUp
<1>2. PICK l \in ELans : /\ e \in had[l]
                         /\ seen \cap {"vlan", "label"} = {} => l \in ELansOf(burst.mbufs[j])
  BY DEF LookedUp
<1>3. e \in had'[l]
  BY <1>2 DEF Watched
<1>4. PICK p : p = burst.mbufs[j]
  OBVIOUS
<1>5. p = burst'.mbufs[j]
  BY <1>4
<1>6. seen' \cap {"vlan", "label"} = {} => l \in ELansOf(p)'
  BY <1>2, <1>4, ELansOfStay
<1>7. seen' \cap {"vlan", "label"} = {} => l \in ELansOf(burst.mbufs[j])'
  BY <1>5, <1>6 DEF ELansOf, Word, AtCsp
<1> QED
  BY <1>1, <1>3, <1>7 DEF LookedUp

LEMMA EntryStays ==
  ASSUME Watched, burst' = burst, NEW e \in CacheEntry, EntryHolds(e)
  PROVE  EntryHolds(e)'
<1>1. e.elan # None => e.elan \in ELans /\ InUse(e.elan)
  BY DEF EntryHolds, CacheEntry
<1>2. e.elan # None => InUse(e.elan)'
  <2>1. PICK l : l = e.elan
    OBVIOUS
  <2>2. l # None => InUse(l)'
    BY <1>1, <2>1 DEF Watched
  <2> QED
    BY <2>1, <2>2 DEF InUse
<1>3. CspCached(e) => CspCached(e)'
  BY <1>1 DEF CspCached, Watched, ELanService
<1>4. CbpCached(e) => CbpCached(e)'
  BY DEF CbpCached, Watched
<1> QED
  BY <1>2, <1>3, <1>4 DEF EntryHolds

LEMMA NothingCached ==
  ASSUME BurstInv, burst = Nobody, UNCHANGED <<burst, cache, mcache, via>>
  PROVE  CacheInv' /\ MacInv' /\ ViaInv'
<1>1. \A c \in 0 .. CACHE_SIZE - 1 : cache'[c] = NoEntry
  BY DEF BurstInv, NoCache
<1>2. EntryHolds(NoEntry)'
  BY DEF EntryHolds, NoEntry
<1>3. CacheInv'
  BY <1>1, <1>2 DEF CacheInv, EntryHolds, InUse, CspCached, CbpCached
<1>4. MacInv' /\ ViaInv'
  BY DEF BurstInv, MacInv, ViaInv, NoMac
<1> QED
  BY <1>3, <1>4

LEMMA CacheStays ==
  ASSUME BurstType, CacheInv, Watched, UNCHANGED <<burst, cache>>
  PROVE  CacheInv'
<1>1. ASSUME NEW c \in 0 .. CACHE_SIZE - 1 PROVE EntryHolds(cache[c])'
  <2>1. PICK e \in CacheEntry : e = cache[c]
    BY DEF BurstType
  <2>2. EntryHolds(e)'
    BY <2>1, EntryStays DEF CacheInv
  <2>3. e = cache'[c]
    BY <2>1
  <2> QED
    BY <2>2, <2>3
<1> QED
  BY <1>1 DEF CacheInv

LEMMA MacStays ==
  ASSUME MacInv, Watched, UNCHANGED <<burst, mcache, via>>
  PROVE  MacInv'
<1>1. SUFFICES ASSUME mcache.is_valid
               PROVE  /\ mcache.entry # None
                      /\ \E j \in 1 .. Len(via) + 1 :
                           j <= Len(burst.mbufs) /\ LookedUp(j, mcache.mac, mcache.entry)'
  BY DEF MacInv
<1>2. PICK j \in 1 .. Len(via) + 1 :
        j <= Len(burst.mbufs) /\ LookedUp(j, mcache.mac, mcache.entry)
  BY <1>1 DEF MacInv
<1>3. PICK mac, e : mac = mcache.mac /\ e = mcache.entry
  OBVIOUS
<1>4. LookedUp(j, mac, e)'
  BY <1>2, <1>3, LookedUpStays
<1>5. LookedUp(j, mcache.mac, mcache.entry)'
  BY <1>3, <1>4 DEF LookedUp
<1> QED
  BY <1>1, <1>2, <1>5 DEF MacInv

LEMMA ViaStays ==
  ASSUME ViaInv, Watched, UNCHANGED <<burst, via>>
  PROVE  ViaInv'
<1>1. ASSUME burst # Nobody, NEW k \in 1 .. Len(via), via[k] # None
      PROVE  \E j \in 1 .. k : LookedUp(j, burst.mbufs[k].dst, via[k])'
  <2>1. PICK j \in 1 .. k : LookedUp(j, burst.mbufs[k].dst, via[k])
    BY <1>1 DEF ViaInv
  <2>2. PICK mac, e : mac = burst.mbufs[k].dst /\ e = via[k]
    OBVIOUS
  <2>3. LookedUp(j, mac, e)'
    BY <2>1, <2>2, LookedUpStays
  <2>4. LookedUp(j, burst.mbufs[k].dst, via[k])'
    BY <2>2, <2>3 DEF LookedUp
  <2> QED
    BY <2>4
<1> QED
  BY <1>1 DEF ViaInv

LEMMA WatchedKeepsCaches ==
  ASSUME BurstType, CachesInv, Watched, UNCHANGED <<burst, cache, mcache, via, crashed>>
  PROVE  CachesInv'
<1>1. OnlyRebindingCrashes'
  BY DEF CachesInv, OnlyRebindingCrashes, Watched
<1> QED
  BY <1>1, CacheStays, MacStays, ViaStays DEF CachesInv

LEMMA CallsAreCalls ==
  ASSUME LeafType, NEW t \in Threads, Begin(t) \/ Continue(t)
  PROVE  CallStep
<1>0. t \in Processes
  BY DEF Processes
<1>1. CASE Begin(t)
  BY <1>1, ServiceCallsKeepType, DeleteELanKeepsType, CspCallsKeepType, CbpCallsKeepType,
     RegisterIfaceKeepsType, UnregisterIfaceKeepsType DEF Begin
<1>2. CASE Continue(t)
  BY <1>0, <1>2, ReleaseBindingKeepsType, DeleteFoundPortKeepsType, RegisterBindingKeepsType,
     CheckLabelKeepsType, BindLabelKeepsType DEF Continue
<1> QED
  BY <1>1, <1>2

LEMMA RcuShrinks ==
  ASSUME RcuStep
  PROVE  rcu' = rcu \/ (rcu # <<>> /\ rcu' = Tail(rcu))
<1>1. \A a : Unbound(a) => rcu' = rcu
  BY DEF Unbound
<1> QED
  BY <1>1 DEF RcuStep, ReleaseVlan, ReleaseBinding, DeleteFoundPort, ReleaseLabel, DetachIface,
              PostDeleteELan, TearsDown

LEMMA InUseStays ==
  ASSUME LeafType, ControlStep, burst # Nobody, NEW l \in ELans, InUse(l)
  PROVE  InUse(l)'
<1>0. /\ elan[l] # Free /\ (elan[l].is_valid \/ ELanCallback(l) \in waits)
      /\ ELanCallback(l)' = ELanCallback(l) /\ TablesTypeOK /\ rcu \in Seq(Callback)
      /\ ELanCallback(l) \in Callback /\ elan[l] \in ELan
  BY TypedPorts, Callbacks DEF InUse, ELanCallback, LeafType, TypeOK, TablesTypeOK
<1>1. UseKeeps(l)
  BY NextEffects DEF ELanEffects, ControlStep
<1>2. CASE GracePeriod /\ \E t \in Threads : Begin(t) \/ Continue(t)
  <2>1. waits \subseteq waits'
    BY <1>2 DEF GracePeriod
  <2>2. CASE elan'[l] # Free /\ elan'[l].is_valid = elan[l].is_valid
    BY <1>0, <2>1, <2>2 DEF InUse
  <2>3. CASE elan'[l] # Free /\ rcu' = Append(rcu, ELanCallback(l))
    <3>1. Len(rcu') = Len(rcu) + 1 /\ rcu'[Len(rcu')] = ELanCallback(l) /\ Len(rcu) \in Nat
      BY <1>0, <2>3
    <3>2. ELanCallback(l) \in waits'
      BY <1>2, <3>1 DEF GracePeriod
    <3> QED
      BY <1>0, <2>3, <3>2 DEF InUse
  <2>4. CASE ~elan[l].is_valid
    <3>1. Deleted(l)
      BY <1>0, <2>4 DEF Deleted, ELan
    <3>2. Deleted(l)'
      BY <1>0, <1>2, <3>1, CallsAreCalls, DeletedStays
    <3> QED
      BY <1>0, <2>1, <2>4, <3>2 DEF InUse, Deleted
  <2> QED
    BY <1>0, <1>1, <2>2, <2>3, <2>4 DEF UseKeeps
<1>3. CASE UNCHANGED waits /\ RcuStep /\ (rcu # <<>> => Head(rcu) \notin waits)
  <2>1. ~(rcu' = Append(rcu, ELanCallback(l)))
    <3>1. Len(rcu') <= Len(rcu) /\ Len(rcu) \in Nat
      BY <1>0, <1>3, RcuShrinks
    <3>2. Len(Append(rcu, ELanCallback(l))) = Len(rcu) + 1
      BY <1>0
    <3> QED
      BY <3>1, <3>2
  <2>2. elan'[l] # Free /\ elan'[l].is_valid = elan[l].is_valid
    BY <1>0, <1>1, <1>3, <2>1 DEF UseKeeps
  <2> QED
    BY <1>0, <1>3, <2>2 DEF InUse
<1> QED
  BY <1>2, <1>3 DEF ControlStep

LEMMA SeenTells ==
  ASSUME Watch, burst # Nobody
  PROVE  /\ seen \subseteq seen'
         /\ "vlan" \notin seen' => vlans' = vlans
         /\ "label" \notin seen' => labels' = labels
         /\ "port" \notin seen' => state' = state /\ \A l \in ELans : Entries(l)' = Entries(l)
BY DEF Watch

LEMMA WordsStay ==
  ASSUME TablesType, WordsInv, Watch, labels' = labels
  PROVE  words' = words
<1>1. words = [c \in Cbps |-> [b \in Labels |-> words[c][b]]]
  <2>1. words = [c \in Cbps |-> words[c]]
    BY DEF TablesType
  <2>2. \A c \in Cbps : words[c] = [b \in Labels |-> words[c][b]]
    BY DEF TablesType
  <2>3. [c \in Cbps |-> words[c]] = [c \in Cbps |-> [b \in Labels |-> words[c][b]]]
    BY <2>2, Zenon
  <2> QED
    BY <2>1, <2>3
<1>2. words' = [c \in Cbps |-> [b \in Labels |->
                 IF labels[c][b] # None THEN labels[c][b] ELSE words[c][b]]]
  BY DEF Watch
<1>3. \A c \in Cbps, b \in Labels :
        (IF labels[c][b] # None THEN labels[c][b] ELSE words[c][b]) = words[c][b]
  BY DEF WordsInv
<1>4. [c \in Cbps |-> [b \in Labels |->
                 IF labels[c][b] # None THEN labels[c][b] ELSE words[c][b]]]
        = [c \in Cbps |-> [b \in Labels |-> words[c][b]]]
  <2>1. \A c \in Cbps :
          [b \in Labels |-> IF labels[c][b] # None THEN labels[c][b] ELSE words[c][b]]
            = [b \in Labels |-> words[c][b]]
    BY <1>3, Zenon
  <2> QED
    BY <2>1, Zenon
<1> QED
  BY <1>1, <1>2, <1>4

LEMMA ControlKeepsCaches ==
  ASSUME ControlInv, BurstType, BurstInv, CachesInv, ControlStep
  PROVE  CachesInv'
<1>0. /\ LeafType /\ TablesType /\ WordsInv /\ Watch
      /\ UNCHANGED <<burst, cache, mcache, via, crashed>>
  BY DEF ControlInv, ControlStep, burstVars
<1>1. CASE burst = Nobody
  <2>1. OnlyRebindingCrashes'
    BY <1>0, <1>1 DEF CachesInv, OnlyRebindingCrashes, Watch
  <2> QED
    BY <1>0, <1>1, <2>1, NothingCached DEF CachesInv
<1>2. CASE burst # Nobody
  <2>1. Watched
    BY <1>0, <1>2, HadGrows, InUseStays, SeenTells, WordsStay DEF Watched
  <2> QED
    BY <1>0, <2>1, WatchedKeepsCaches
<1> QED
  BY <1>1, <1>2

LEMMA RefreshIsWatched ==
  ASSUME OnlyFibs, UNCHANGED waits
  PROVE  Watched
<1>1. UNCHANGED <<vlans, labels, words, had, seen>>
  BY DEF OnlyFibs, ports
<1>2. \A l \in ELans : InUse(l) => InUse(l)'
  BY DEF OnlyFibs, InUse, ELanCallback
<1> QED
  BY <1>1, <1>2 DEF Watched

(***************************************************************************)
(* What the input nodes read.                                              *)
(***************************************************************************)
LEMMA SameTables ==
  ASSUME ControlInv, TablesUnchanged
  PROVE  /\ LeafType' /\ TablesType' /\ WordsInv' /\ HadInv'
         /\ UNCHANGED <<learned, ring>> => LearnedType' /\ LearnedInv'
<1>1. LeafType'
  BY StepKeepsType DEF ControlInv, TablesUnchanged
<1>2. UNCHANGED <<tables, ports, local, words, had>>
  BY DEF TablesUnchanged, vars
<1>3. UNCHANGED <<elan, vlans, labels, local, words, had>>
  BY <1>2 DEF tables, ports
<1>4. TablesType' /\ WordsInv'
  BY <1>3 DEF ControlInv, TablesType, WordsInv
<1>5. HadInv'
  BY <1>3 DEF ControlInv, HadInv, Entries, ELanService
<1>6. UNCHANGED <<learned, ring>> => LearnedType' /\ LearnedInv'
  BY <1>3 DEF ControlInv, LearnedInv, LearnedType
<1> QED
  BY <1>1, <1>4, <1>5, <1>6

LEMMA SameIsWatched ==
  ASSUME TablesUnchanged, UNCHANGED <<waits, seen>>
  PROVE  Watched
<1>1. UNCHANGED <<elan, vlans, labels, words, had, seen, waits>>
  BY DEF TablesUnchanged, vars, tables, ports
<1> QED
  BY <1>1 DEF Watched, InUse, ELanCallback

LEMMA PacketToDecide ==
  ASSUME LoopsInv, MayPeek
  PROVE  /\ burst # Nobody /\ burst.iface \in Ifaces /\ NextPacket \in PacketsOf(burst.iface)
         /\ loop.peek \in Nat /\ loop.peek + 1 \in 1 .. loop.nr_mbufs
         /\ loop.peek + 1 <= Len(burst.mbufs) /\ loop.nr_mbufs \in Nat
         /\ Len(decided) = loop.peek /\ Len(via) = loop.peek
<1>1. loop.pc = "peek" /\ loop.peek < loop.nr_mbufs /\ loop \in LoopType /\ Len(decided) = loop.peek
  BY DEF MayPeek, LoopsInv, DeliveryInv, LoopInv
<1>2. loop.peek \in Nat /\ loop.nr_mbufs \in Nat /\ loop.peek + 1 \in 1 .. loop.nr_mbufs
  BY <1>1 DEF LoopType
<1>3. burst # Nobody /\ Len(via) = loop.peek
  BY <1>1 DEF LoopsInv, BurstInv
<1> QED
  BY <1>1, <1>2, <1>3 DEF LoopsInv, BurstInv, NextPacket

LEMMA KeyedPackets ==
  ASSUME NEW i \in Ifaces, NEW p \in PacketsOf(i)
  PROVE  /\ p \in Packet
         /\ IsKeyed(p) => /\ p.src \in Macs /\ p.dst \in Macs
                          /\ CacheIndex(p.key) \in 0 .. CACHE_SIZE - 1
                          /\ i \in Csps => p.key \in Vlans
                          /\ i \in Cbps => p.key \in Labels
         /\ ~IsKeyed(p) => p.kind \in {"host", "expired"}
         /\ (i \in Csps /\ i \notin Cbps) \/ (i \in Cbps /\ i \notin Csps)
<1>1. (i \in Csps /\ i \notin Cbps) \/ (i \in Cbps /\ i \notin Csps)
  BY LeafAssumption DEF Ifaces
<1>2. i \in Csps => p \in CspPacket
  BY DEF PacketsOf
<1>3. i \notin Csps => p \in CbpPacket
  BY DEF PacketsOf
<1>4. p \in Packet
  BY <1>2, <1>3 DEF Packet
<1>5. /\ i \in Csps => p.kind = "eth" /\ p.src \in Macs /\ p.dst \in Macs /\ p.key \in Vlans
      /\ i \in Cbps =>
           \/ p.kind = "mpls" /\ p.src \in Macs /\ p.dst \in Macs /\ p.key \in Labels
           \/ p.kind \in {"host", "expired"}
  BY <1>1, <1>2, <1>3 DEF CspPacket, CbpPacket
<1>6. IsKeyed(p) => p.key \in Nat
  BY <1>1, <1>5 DEF IsKeyed, Vlans, Labels
<1>7. \A n \in Nat : CacheIndex(n) \in 0 .. CACHE_SIZE - 1
  BY CacheAssumption DEF CacheIndex
<1> QED
  BY <1>1, <1>4, <1>5, <1>6, <1>7 DEF IsKeyed

LEMMA ServiceIs ==
  ASSUME NEW s \in Services
  PROVE  /\ s.e_service \in {"e_line", "e_lan"}
         /\ s.e_service = "e_line" => s.service_index \in ELines /\ s = ELineService(s.service_index)
         /\ s.e_service = "e_lan" => s.service_index \in ELans /\ s = ELanService(s.service_index)
<1>1. CASE \E n \in ELines : s = ELineService(n)
  BY <1>1 DEF ELineService
<1>2. CASE \E n \in ELans : s = ELanService(n)
  BY <1>2 DEF ELanService
<1> QED
  BY <1>1, <1>2, ServicesSplit

LEMMA IndicesAreNotNone ==
  /\ \A n \in ELines : n # None
  /\ \A n \in ELans : n # None
  /\ \A n \in Nexthops : n # None
BY FreeAssumption, SizesAssumption DEF ELines, ELans, Nexthops

LEMMA CachedPackets ==
  ASSUME LoopsInv, CacheInv, MayPeek, IsKeyed(NextPacket)
  PROVE  Cached(NextPacket) \in CacheEntry /\ EntryHolds(Cached(NextPacket))
<1>1. PICK c \in 0 .. CACHE_SIZE - 1 : c = CacheIndex(NextPacket.key)
  BY PacketToDecide, KeyedPackets
<1>2. cache[c] \in CacheEntry /\ EntryHolds(cache[c])
  BY DEF LoopsInv, BurstType, CacheInv
<1> QED
  BY <1>1, <1>2 DEF Cached

LEMMA InvalidEntry ==
  ASSUME NEW old \in CacheEntry, EntryHolds(old), NEW key \in Vlans \cup Labels, NEW e,
         e = [old EXCEPT !.key = key, !.is_valid = FALSE]
  PROVE  /\ e \in CacheEntry /\ EntryHolds(e) /\ e.key = key /\ e.is_valid = FALSE
         /\ e.elan = old.elan /\ e.eline = old.eline
<1>1. e \in CacheEntry /\ e.is_valid = FALSE /\ e.elan = old.elan /\ e.key = key
      /\ e.eline = old.eline
  BY DEF CacheEntry
<1> QED
  BY <1>1 DEF EntryHolds

\* What a customer port stores for a VLAN.
LEMMA VlanELine ==
  ASSUME ControlInv, burst.iface \in Csps, burst.iface \notin Cbps, NEW key \in Vlans,
         NEW old \in CacheEntry, EntryHolds(old), old.key = key,
         NEW n \in ELines, NEW path, path = (IF FindELine(n) THEN eline[n].nhlfe ELSE None), NEW e,
         e = [old EXCEPT !.is_e_line = TRUE, !.eline = IF FindELine(n) THEN n ELSE None,
                         !.hop = IF path = None THEN None ELSE path.NHLFE,
                         !.is_valid = path # None /\ Reachable(path.NHLFE)]
  PROVE  e \in CacheEntry /\ EntryHolds(e)
<1>1. path \in Nhlfe \cup {None}
  BY DEF ControlInv, LeafType, TypeOK, TablesTypeOK, FindELine, ELine
<1>2. PICK h : h = (IF path = None THEN None ELSE path.NHLFE)
  OBVIOUS
<1>3. h \in Nexthops \cup {None} /\ (path # None => h # None)
  BY <1>1, <1>2, IndicesAreNotNone DEF Nhlfe
<1>4. PICK m : m = IF FindELine(n) THEN n ELSE None
  OBVIOUS
<1>5. m \in ELines \cup {None} /\ (path # None => m # None)
  BY <1>4, IndicesAreNotNone
<1>6. PICK v \in BOOLEAN : v = (path # None /\ Reachable(path.NHLFE))
  BY DEF Reachable
<1>7. e = [old EXCEPT !.is_e_line = TRUE, !.eline = m, !.hop = h, !.is_valid = v]
  BY <1>2, <1>4, <1>6
<1>8. /\ e \in CacheEntry /\ e.elan = old.elan /\ e.is_e_line = TRUE /\ e.eline = m /\ e.hop = h
      /\ e.is_valid = v /\ e.key = key
  BY <1>3, <1>5, <1>7 DEF CacheEntry
<1>9. CspCached(e) \/ ~e.is_valid
  BY <1>3, <1>5, <1>6, <1>8 DEF CspCached
<1> QED
  BY <1>8, <1>9 DEF EntryHolds

LEMMA VlanELan ==
  ASSUME ControlInv, burst.iface \in Csps, burst.iface \notin Cbps, NEW key \in Vlans,
         NEW old \in CacheEntry, EntryHolds(old), old.key = key,
         NEW n \in ELans, vlans[burst.iface][key] = ELanService(n), NEW e,
         e = [old EXCEPT !.is_e_line = FALSE, !.elan = IF FindELan(n) THEN n ELSE None,
                         !.is_valid = FindELan(n)]
  PROVE  e \in CacheEntry /\ EntryHolds(e)
<1>1. PICK m : m = IF FindELan(n) THEN n ELSE None
  OBVIOUS
<1>2. PICK v \in BOOLEAN : v = FindELan(n)
  BY DEF FindELan, ControlInv, LeafType, TypeOK, TablesTypeOK, ELan
<1>3. e = [old EXCEPT !.is_e_line = FALSE, !.elan = m, !.is_valid = v]
  BY <1>1, <1>2
<1>4. /\ e \in CacheEntry /\ e.elan = m /\ e.is_e_line = FALSE /\ e.is_valid = v /\ e.key = key
  BY <1>1, <1>3 DEF CacheEntry
<1>5. m # None => m = n /\ InUse(m)
  BY <1>1 DEF InUse, FindELan
<1>6. v => m = n /\ m # None
  BY <1>1, <1>2, IndicesAreNotNone
<1>7. [iface |-> burst.iface, vlan_tci |-> key] \in had[n]
  <2>1. PICK p \in Port : p = [iface |-> burst.iface, vlan_tci |-> key]
    BY DEF Port
  <2>2. vlans[p.iface][p.vlan_tci] = ELanService(n)
    BY <2>1
  <2> QED
    BY <2>1, <2>2 DEF ControlInv, HadInv
<1>8. CspCached(e) \/ ~e.is_valid
  BY <1>4, <1>6, <1>7 DEF CspCached
<1> QED
  BY <1>4, <1>5, <1>8 DEF EntryHolds

\* What a backbone port stores for a label.
LEMMA LabelELine ==
  ASSUME ControlInv, burst.iface \in Cbps, burst.iface \notin Csps, NEW key \in Labels,
         NEW old \in CacheEntry, EntryHolds(old), old.key = key, NEW n \in ELines,
         labels[burst.iface][key] # None,
         labels[burst.iface][key].service = ELineService(n), NEW e,
         e = [old EXCEPT !.eline = IF FindELine(n) THEN n ELSE None,
                         !.is_valid = HasELinePort(n)]
  PROVE  e \in CacheEntry /\ EntryHolds(e)
<1>1. PICK m : m = IF FindELine(n) THEN n ELSE None
  OBVIOUS
<1>2. PICK v \in BOOLEAN : v = HasELinePort(n)
  BY DEF HasELinePort
<1>3. e = [old EXCEPT !.eline = m, !.is_valid = v]
  BY <1>1, <1>2
<1>4. e \in CacheEntry /\ e.elan = old.elan /\ e.eline = m /\ e.is_valid = v /\ e.key = key
  BY <1>1, <1>3 DEF CacheEntry
<1>5. v => m # None
  BY <1>1, <1>2, IndicesAreNotNone DEF HasELinePort
<1>6. CbpCached(e) \/ ~e.is_valid
  BY <1>4, <1>5 DEF CbpCached, ELineService
<1> QED
  BY <1>4, <1>6 DEF EntryHolds

LEMMA LabelELan ==
  ASSUME ControlInv, burst.iface \in Cbps, burst.iface \notin Csps, NEW key \in Labels,
         NEW old \in CacheEntry, EntryHolds(old), old.key = key, NEW n \in ELans,
         labels[burst.iface][key] # None,
         labels[burst.iface][key].service = ELanService(n), NEW e,
         e = [old EXCEPT !.elan = IF FindELan(n) THEN n ELSE None,
                         !.is_valid = FindELan(n)]
  PROVE  e \in CacheEntry /\ EntryHolds(e)
<1>1. PICK m : m = IF FindELan(n) THEN n ELSE None
  OBVIOUS
<1>2. PICK v \in BOOLEAN : v = FindELan(n)
  BY DEF FindELan, ControlInv, LeafType, TypeOK, TablesTypeOK, ELan
<1>3. e = [old EXCEPT !.elan = m, !.is_valid = v]
  BY <1>1, <1>2
<1>4. e \in CacheEntry /\ e.elan = m /\ e.is_valid = v /\ e.key = key
  BY <1>1, <1>3 DEF CacheEntry
<1>5. m # None => m = n /\ InUse(m)
  BY <1>1 DEF InUse, FindELan
<1>6. v => m = n
  BY <1>1, <1>2
<1>7. CbpCached(e) \/ ~e.is_valid
  BY <1>4, <1>6 DEF CbpCached, ELanService
<1> QED
  BY <1>4, <1>5, <1>7 DEF EntryHolds

\* The rest of the burst stays.
LEMMA SameDelivery ==
  ASSUME DeliveryInv, UNCHANGED deliveryVars
  PROVE  DeliveryInv'
BY DeliveryStep

LEMMA StoreKeeps ==
  ASSUME ControlInv, LoopsInv, CachesInv, IsKeyed(NextPacket), NEW e \in CacheEntry,
         EntryHolds(e), Store(NextPacket, e)
  PROVE  ControlInv' /\ LoopsInv' /\ CachesInv'
<1>1. /\ MayPeek /\ cache' = [cache EXCEPT ![CacheIndex(NextPacket.key)] = e]
      /\ UNCHANGED <<loop, decided, posted, burst, mcache, learned, flood, fate, via, crashed, ring>>
      /\ UNCHANGED deliveryVars
      /\ UNCHANGED <<waits, seen>> /\ TablesUnchanged
  BY DEF Store, Reads, deliveryVars
<1>2. PICK c \in 0 .. CACHE_SIZE - 1 : c = CacheIndex(NextPacket.key)
  BY <1>1, PacketToDecide, KeyedPackets
<1>3. ControlInv'
  BY <1>1, SameTables DEF ControlInv
<1>4. Watched
  BY <1>1, SameIsWatched
<1>5. cache' \in [0 .. CACHE_SIZE - 1 -> CacheEntry] /\ cache' = [cache EXCEPT ![c] = e]
  BY <1>1, <1>2 DEF LoopsInv, BurstType
<1>6. BurstType'
  BY <1>1, <1>5 DEF LoopsInv, BurstType
<1>7. BurstInv'
  <2>1. burst # Nobody
    BY <1>1, PacketToDecide
  <2> QED
    BY <1>1, <2>1 DEF LoopsInv, BurstInv, Posting
<1>8. CacheInv'
  <2>1. ASSUME NEW d \in 0 .. CACHE_SIZE - 1 PROVE EntryHolds(cache[d])'
    <3>1. CASE d = c
      <4>1. EntryHolds(e)'
        BY <1>1, <1>4, EntryStays
      <4>2. cache'[d] = e
        BY <1>5, <3>1 DEF LoopsInv, BurstType
      <4> QED
        BY <4>1, <4>2
    <3>2. CASE d # c
      <4>1. PICK x \in CacheEntry : x = cache[d]
        BY DEF LoopsInv, BurstType
      <4>2. EntryHolds(x)'
        BY <1>1, <1>4, <4>1, EntryStays DEF CachesInv, CacheInv
      <4>3. cache'[d] = x
        BY <1>5, <3>2, <4>1 DEF LoopsInv, BurstType
      <4> QED
        BY <4>2, <4>3
    <3> QED
      BY <3>1, <3>2
  <2> QED
    BY <2>1 DEF CacheInv
<1>9. MacInv' /\ ViaInv' /\ OnlyRebindingCrashes'
  BY <1>1, <1>4, MacStays, ViaStays DEF CachesInv, OnlyRebindingCrashes
<1> QED
  BY <1>1, <1>3, <1>6, <1>7, <1>8, <1>9, SameDelivery DEF LoopsInv, CachesInv

LEMMA LookupVlanKeeps ==
  ASSUME ControlInv, LoopsInv, CachesInv, LookupVlan
  PROVE  ControlInv' /\ LoopsInv' /\ CachesInv'
<1>0. Store(NextPacket, VlanEntry(burst.iface, NextPacket))
  BY DEF LookupVlan
<1>1. PICK p, i, e : /\ p = NextPacket /\ i = burst.iface /\ Store(p, e)
                     /\ e = VlanEntry(i, p)
  BY <1>0
<1>2. MayPeek /\ IsKeyed(p) /\ i \in Csps /\ i \in Ifaces
  BY <1>1 DEF Store, LookupVlan, AtCsp, Ifaces
<1>3. p.key \in Vlans /\ i \notin Cbps
  BY <1>1, <1>2, PacketToDecide, KeyedPackets
<1>4. PICK c \in CacheEntry : c = Cached(p) /\ EntryHolds(c)
  BY <1>1, <1>2, CachedPackets DEF CachesInv
<1>9. PICK key \in Vlans : key = p.key
  BY <1>3
<1>5. PICK old : old = [c EXCEPT !.key = key, !.is_valid = FALSE]
  OBVIOUS
<1>6. old \in CacheEntry /\ EntryHolds(old) /\ old.key = key
  <2>1. c \in CacheEntry /\ EntryHolds(c)
    BY <1>4
  <2>2. key \in Vlans \cup Labels
    OBVIOUS
  <2> QED
    BY <1>5, <2>1, <2>2, InvalidEntry, Zenon
<1>7. PICK s \in Services \cup {None} : s = vlans[i][p.key]
  BY <1>2, <1>3, TypedPorts DEF ControlInv
<1>8. e \in CacheEntry /\ EntryHolds(e)
  <2>1. CASE s = None
    BY <1>1, <1>4, <1>5, <1>9, <1>6, <1>7, <2>1 DEF VlanEntry
  <2>2. CASE s # None /\ s.e_service = "e_line"
    <3>1. PICK n \in ELines : n = s.service_index
      BY <2>2, ServiceIs
    <3>2. PICK path : path = (IF FindELine(n) THEN eline[n].nhlfe ELSE None)
      OBVIOUS
    <3>3. e = [old EXCEPT !.is_e_line = TRUE, !.eline = IF FindELine(n) THEN n ELSE None,
                         !.hop = IF path = None THEN None ELSE path.NHLFE,
                         !.is_valid = path # None /\ Reachable(path.NHLFE)]
      BY <1>1, <1>4, <1>5, <1>9, <1>7, <2>2, <3>1, <3>2 DEF VlanEntry
    <3> QED
      BY <1>1, <1>2, <1>3, <1>6, <1>9, <3>2, <3>3, VlanELine
  <2>3. CASE s # None /\ s.e_service = "e_lan"
    <3>1. PICK n \in ELans : n = s.service_index /\ s = ELanService(n)
      BY <2>3, ServiceIs
    <3>2. e = [old EXCEPT !.is_e_line = FALSE, !.elan = IF FindELan(n) THEN n ELSE None,
                         !.is_valid = FindELan(n)]
      BY <1>1, <1>4, <1>5, <1>9, <1>7, <2>3, <3>1 DEF VlanEntry
    <3>3. vlans[burst.iface][key] = ELanService(n)
      BY <1>1, <1>7, <1>9, <3>1
    <3> QED
      BY <1>1, <1>2, <1>3, <1>6, <3>2, <3>3, VlanELan
  <2> QED
    BY <2>1, <2>2, <2>3, ServiceIs
<1> QED
  BY <1>1, <1>2, <1>8, StoreKeeps

LEMMA LookupLabelKeeps ==
  ASSUME ControlInv, LoopsInv, CachesInv, LookupLabel
  PROVE  ControlInv' /\ LoopsInv' /\ CachesInv'
<1>0. Store(NextPacket, LabelsEntry(burst.iface, NextPacket))
  BY DEF LookupLabel
<1>1. PICK p, i, e : /\ p = NextPacket /\ i = burst.iface /\ Store(p, e)
                     /\ e = LabelsEntry(i, p)
  BY <1>0
<1>2. MayPeek /\ IsKeyed(p) /\ i \in Cbps /\ i \in Ifaces
  BY <1>1 DEF Store, LookupLabel, Ifaces
<1>3. p.key \in Labels /\ i \notin Csps
  BY <1>1, <1>2, PacketToDecide, KeyedPackets
<1>4. PICK c \in CacheEntry : c = Cached(p) /\ EntryHolds(c)
  BY <1>1, <1>2, CachedPackets DEF CachesInv
<1>9. PICK key \in Labels : key = p.key
  BY <1>3
<1>5. PICK old : old = [c EXCEPT !.key = key, !.is_valid = FALSE]
  OBVIOUS
<1>6. old \in CacheEntry /\ EntryHolds(old) /\ old.key = key
  <2>1. c \in CacheEntry /\ EntryHolds(c)
    BY <1>4
  <2>2. key \in Vlans \cup Labels
    OBVIOUS
  <2> QED
    BY <1>5, <2>1, <2>2, InvalidEntry, Zenon
<1>7. PICK b \in LabelEntry \cup {None} : b = labels[i][p.key]
  BY <1>2, <1>3, <1>9, TypedPorts DEF ControlInv, LabelTable
<1>8. e \in CacheEntry /\ EntryHolds(e)
  <2>1. CASE b = None
    BY <1>1, <1>4, <1>5, <1>9, <1>6, <1>7, <2>1 DEF LabelsEntry
  <2>2. ASSUME b # None PROVE b.service \in Services
    BY <2>2 DEF LabelEntry
  <2>3. CASE b # None /\ b.service.e_service = "e_line"
    <3>1. PICK n \in ELines : n = b.service.service_index /\ b.service = ELineService(n)
      BY <2>2, <2>3, ServiceIs
    <3>2. e = [old EXCEPT !.eline = IF FindELine(n) THEN n ELSE None,
                         !.is_valid = HasELinePort(n)]
      BY <1>1, <1>4, <1>5, <1>9, <1>7, <2>2, <2>3, <3>1 DEF LabelsEntry
    <3>3. /\ labels[burst.iface][key] # None
          /\ labels[burst.iface][key].service = ELineService(n)
      BY <1>1, <1>7, <1>9, <2>3, <3>1
    <3>4. burst.iface \in Cbps /\ burst.iface \notin Csps
      BY <1>1, <1>2, <1>3
    <3> QED
      BY <1>6, <3>2, <3>3, <3>4, LabelELine
  <2>4. CASE b # None /\ b.service.e_service = "e_lan"
    <3>1. PICK n \in ELans : n = b.service.service_index /\ b.service = ELanService(n)
      BY <2>2, <2>4, ServiceIs
    <3>2. e = [old EXCEPT !.elan = IF FindELan(n) THEN n ELSE None,
                         !.is_valid = FindELan(n)]
      BY <1>1, <1>4, <1>5, <1>9, <1>7, <2>4, <3>1 DEF LabelsEntry
    <3>3. /\ labels[burst.iface][key] # None
          /\ labels[burst.iface][key].service = ELanService(n)
      BY <1>1, <1>7, <1>9, <2>4, <3>1
    <3>4. burst.iface \in Cbps /\ burst.iface \notin Csps
      BY <1>1, <1>2, <1>3
    <3> QED
      BY <1>6, <3>2, <3>3, <3>4, LabelELan
  <2> QED
    BY <2>1, <2>2, <2>3, <2>4, ServiceIs
<1> QED
  BY <1>1, <1>2, <1>8, StoreKeeps

(***************************************************************************)
(* Deciding.                                                               *)
(***************************************************************************)
\* What a valid entry that leads to an E-LAN says of the packet to decide on.
LEMMA PacketInELan ==
  ASSUME ControlInv, LoopsInv, CacheInv, MayDecide(NextPacket), InELan(NextPacket),
         ~UsesNoService(NextPacket)
  PROVE  LET p == NextPacket
             l == Cached(p).elan
         IN  /\ IsKeyed(p) /\ l \in ELans /\ InUse(l)
             /\ AtCsp => [iface |-> burst.iface, vlan_tci |-> p.key] \in had[l]
             /\ seen \cap {"vlan", "label"} = {} => l \in ELansOf(p)
<1>1. PICK p, i, c : p = NextPacket /\ i = burst.iface /\ c = Cached(p)
  OBVIOUS
<1>2. /\ MayPeek /\ IsKeyed(p) /\ c.key = p.key /\ c.is_valid
      /\ ~IsELineNow(p) /\ c.elan # None
  BY <1>1 DEF MayDecide, InELan, Served, UsesNoService, Hits
<1>3. /\ i \in Ifaces /\ i \in Csps => p.key \in Vlans /\ i \notin Cbps
      /\ i \notin Csps => i \in Cbps /\ p.key \in Labels
  BY <1>1, <1>2, PacketToDecide, KeyedPackets
<1>4. c \in CacheEntry /\ EntryHolds(c)
  BY <1>1, <1>2, CachedPackets
<1>5. PICK l \in ELans : l = c.elan
  BY <1>2, <1>4 DEF CacheEntry
<1>6. InUse(l)
  BY <1>2, <1>4, <1>5 DEF EntryHolds
<1>7. CASE AtCsp
  <2>1. CspCached(c) /\ ~c.is_e_line
    BY <1>1, <1>2, <1>4, <1>7 DEF EntryHolds, AtCsp, IsELineNow
  <2>2. /\ [iface |-> i, vlan_tci |-> p.key] \in had[l]
        /\ "vlan" \notin seen => vlans[i][p.key] = ELanService(l)
    BY <1>1, <1>2, <1>5, <2>1 DEF CspCached
  <2>3. "vlan" \notin seen => l \in ELansOf(p)
    BY <1>1, <1>7, <2>2 DEF ELansOf
  <2> QED
    BY <1>1, <1>2, <1>5, <1>6, <2>2, <2>3
<1>8. CASE ~AtCsp
  <2>1. i \in Cbps /\ p.key \in Labels /\ CbpCached(c)
    BY <1>1, <1>2, <1>3, <1>4, <1>8 DEF EntryHolds, AtCsp
  <2>2. Word(p).service.e_service # "e_line"
    BY <1>2, <1>8 DEF IsELineNow
  <2>3. ASSUME "label" \notin seen PROVE l \in ELansOf(p)
    <3>1. PICK b : b = labels[i][p.key]
      OBVIOUS
    <3>2. /\ b # None
          /\ b.service.e_service = "e_lan" => l = b.service.service_index
      BY <1>1, <1>2, <1>5, <2>1, <2>3, <3>1 DEF CbpCached
    <3>3. Word(p) = b
      BY <1>1, <2>1, <3>1, <3>2 DEF ControlInv, WordsInv, Word
    <3>4. b \in LabelEntry
      BY <2>1, <3>1, <3>2, TypedPorts DEF ControlInv, LabelTable
    <3>5. b.service \in Services
      BY <3>4 DEF LabelEntry
    <3>6. b.service = ELanService(l)
      BY <2>2, <3>2, <3>3, <3>5, ServiceIs
    <3> QED
      BY <1>8, <3>3, <3>6 DEF ELansOf
  <2> QED
    BY <1>1, <1>2, <1>5, <1>6, <1>8, <2>3
<1> QED
  BY <1>7, <1>8

LEMMA LookupMacKeeps ==
  ASSUME ControlInv, LoopsInv, CachesInv, LookupMac
  PROVE  ControlInv' /\ LoopsInv' /\ CachesInv'
<1>1. /\ MayDecide(NextPacket) /\ InELan(NextPacket) /\ ~UsesNoService(NextPacket)
      /\ UNCHANGED <<loop, decided, posted, burst, cache, learned, flood, fate, via, crashed, ring>>
      /\ UNCHANGED deliveryVars
      /\ UNCHANGED <<waits, seen>> /\ TablesUnchanged
  BY DEF LookupMac, Reads, deliveryVars
<1>2. PICK p, l : p = NextPacket /\ l = Cached(p).elan
  OBVIOUS
<1>3. PICK found : found = elan[l].fib[p.dst]
  OBVIOUS
<1>4. PICK valid \in BOOLEAN :
        valid = (found # None /\ (AtCsp /\ found \in Nhlfe => Reachable(found.NHLFE)))
  OBVIOUS
<1>5. mcache' = [mac |-> p.dst, entry |-> found, is_valid |-> valid]
  BY <1>2, <1>3, <1>4 DEF LookupMac
<1>6. MayPeek /\ CacheInv
  BY <1>1 DEF MayDecide, CachesInv
<1>7. /\ IsKeyed(p) /\ l \in ELans /\ InUse(l)
      /\ seen \cap {"vlan", "label"} = {} => l \in ELansOf(p)
  BY <1>1, <1>2, <1>6, PacketInELan
<1>8. p.dst \in Macs /\ burst # Nobody /\ p = burst.mbufs[Len(via) + 1]
      /\ Len(via) + 1 <= Len(burst.mbufs) /\ Len(via) \in Nat
  BY <1>2, <1>6, <1>7, PacketToDecide, KeyedPackets DEF NextPacket
<1>9. found \in had[l] \cup {None}
  BY <1>3, <1>7, <1>8 DEF ControlInv, HadInv, InUse
<1>10. found \in Entry \cup {None}
  BY <1>7, <1>9 DEF ControlInv, TablesType
<1>11. ControlInv'
  BY <1>1, SameTables DEF ControlInv
<1>12. Watched
  BY <1>1, SameIsWatched
<1>13. mcache' \in MacCache
  BY <1>4, <1>5, <1>8, <1>10 DEF MacCache
<1>14. LoopsInv'
  <2>1. BurstType'
    BY <1>1, <1>13 DEF LoopsInv, BurstType
  <2>2. BurstInv'
    BY <1>1, <1>8 DEF LoopsInv, BurstInv, Posting
  <2> QED
    BY <1>1, <2>1, <2>2, SameDelivery DEF LoopsInv
<1>15. MacInv'
  <2>1. ASSUME valid
        PROVE  LookedUp(Len(via) + 1, p.dst, found)
    BY <1>4, <1>7, <1>8, <1>9, <2>1 DEF LookedUp
  <2>2. PICK j, mac : j = Len(via) + 1 /\ mac = p.dst
    OBVIOUS
  <2>3. ASSUME valid PROVE LookedUp(j, mac, found)'
    BY <1>1, <1>12, <2>1, <2>2, <2>3, LookedUpStays
  <2>4. j \in 1 .. Len(via') + 1 /\ j <= Len(burst'.mbufs)
    BY <1>1, <1>8, <2>2
  <2>5. mcache'.mac = mac /\ mcache'.entry = found /\ mcache'.is_valid = valid
    BY <1>5, <2>2
  <2>6. ASSUME valid PROVE LookedUp(j, mcache.mac, mcache.entry)'
    BY <2>3, <2>5, <2>6 DEF LookedUp
  <2> QED
    BY <1>4, <2>4, <2>5, <2>6 DEF MacInv
<1>16. CacheInv' /\ ViaInv' /\ OnlyRebindingCrashes'
  BY <1>1, <1>12, CacheStays, ViaStays DEF LoopsInv, CachesInv, OnlyRebindingCrashes
<1> QED
  BY <1>11, <1>14, <1>15, <1>16 DEF CachesInv

\* Only a label that is bound anew leaves its entry without the pointer it needs.
LEMMA CrashKeeps ==
  ASSUME ControlInv, LoopsInv, CachesInv, Crash
  PROVE  ControlInv' /\ LoopsInv' /\ CachesInv'
<1>1. /\ MayDecide(NextPacket) /\ UsesNoService(NextPacket)
      /\ UNCHANGED <<loop, decided, posted, burst, cache, mcache, learned, flood, fate, via, ring>>
      /\ UNCHANGED deliveryVars
      /\ UNCHANGED <<waits, seen>> /\ TablesUnchanged
  BY DEF Crash, Reads, deliveryVars
<1>2. PICK p, i, c : p = NextPacket /\ i = burst.iface /\ c = Cached(p)
  OBVIOUS
<1>3. /\ MayPeek /\ Served(p) /\ IsKeyed(p) /\ c.key = p.key /\ c.is_valid
      /\ IF IsELineNow(p) THEN c.eline = None ELSE c.elan = None
  BY <1>1, <1>2 DEF MayDecide, Served, UsesNoService, Hits
<1>4. /\ burst # Nobody /\ i \in Ifaces
      /\ i \notin Csps => i \in Cbps /\ p.key \in Labels
  BY <1>2, <1>3, PacketToDecide, KeyedPackets
<1>5. EntryHolds(c)
  BY <1>2, <1>3, CachedPackets DEF CachesInv
<1>6. ~AtCsp
  <2>1. SUFFICES ASSUME AtCsp PROVE FALSE
    OBVIOUS
  <2>2. CspCached(c) /\ (IsELineNow(p) <=> c.is_e_line)
    BY <1>2, <1>3, <1>5, <2>1 DEF EntryHolds, AtCsp, IsELineNow
  <2> QED
    BY <1>3, <2>2 DEF CspCached
<1>7. "label" \in seen
  <2>1. SUFFICES ASSUME "label" \notin seen PROVE FALSE
    OBVIOUS
  <2>2. i \in Cbps /\ p.key \in Labels /\ CbpCached(c)
    BY <1>2, <1>3, <1>4, <1>5, <1>6 DEF EntryHolds, AtCsp
  <2>3. PICK b : b = labels[i][p.key]
    OBVIOUS
  <2>4. /\ b # None /\ (b.service.e_service = "e_line" => c.eline # None)
        /\ b.service.e_service = "e_lan" => c.elan = b.service.service_index
    BY <1>2, <1>3, <2>1, <2>2, <2>3 DEF CbpCached
  <2>5. Word(p) = b
    BY <1>2, <2>2, <2>3, <2>4 DEF ControlInv, WordsInv, Word
  <2>6. b \in LabelEntry
    BY <2>2, <2>3, <2>4, TypedPorts DEF ControlInv, LabelTable
  <2>7. b.service \in Services
    BY <2>6 DEF LabelEntry
  <2>8. IsELineNow(p) <=> b.service.e_service = "e_line"
    BY <1>6, <2>5 DEF IsELineNow
  <2> QED
    BY <1>3, <2>4, <2>7, <2>8, ServiceIs, IndicesAreNotNone
<1>8. ControlInv'
  BY <1>1, SameTables DEF ControlInv
<1>9. Watched
  BY <1>1, SameIsWatched
<1>10. BurstType' /\ BurstInv'
  BY <1>1, <1>4 DEF LoopsInv, BurstType, BurstInv, Posting
<1>11. CacheInv' /\ MacInv' /\ ViaInv' /\ OnlyRebindingCrashes'
  BY <1>1, <1>7, <1>9, CacheStays, MacStays, ViaStays DEF LoopsInv, CachesInv, OnlyRebindingCrashes
<1> QED
  BY <1>1, <1>8, <1>10, <1>11, SameDelivery DEF LoopsInv, CachesInv

\* A packet is given a decision that the delivery knows.
LEMMA DecisionsAreKnown ==
  ASSUME ControlInv, LoopsInv, CachesInv, MayDecide(NextPacket), ~UsesNoService(NextPacket),
         NEW id \in MayDecideAs(NextPacket)
  PROVE  id \in Decisions
<1>1. PICK p, i, c : p = NextPacket /\ i = burst.iface /\ c = Cached(p)
  OBVIOUS
<1>2. MayPeek /\ CacheInv /\ MacInv
  BY DEF MayDecide, CachesInv
<1>3. /\ i \in Ifaces /\ i \in Csps => p.key \in Vlans \/ ~IsKeyed(p)
      /\ i \notin Csps => i \in Cbps
  BY <1>1, <1>2, PacketToDecide, KeyedPackets
<1>4. IsKeyed(p) => c.key = p.key /\ c \in CacheEntry /\ EntryHolds(c)
  BY <1>1, <1>2, CachedPackets DEF MayDecide, Hits
<1>5. \A x \in Ifaces : <<"eline", x>> \in LeafDecisions /\ <<"elan", x>> \in LeafDecisions
  BY DEF LeafDecisions
<1>6. \A x \in Vlans \cup ELans : <<"flood", x>> \in LeafDecisions
  BY DEF LeafDecisions
<1>7. <<"drop">> \in LeafDecisions /\ <<"host">> \in LeafDecisions
  BY DEF LeafDecisions
<1>8. \A h \in Nexthops : local[h] \in Ifaces
  BY DEF ControlInv, TablesType, Ifaces
<1>9. CASE Served(p) /\ IsELineNow(p)
  <2>1. p.kind # "host" /\ p.kind # "expired" /\ IsKeyed(p) /\ c.is_valid /\ c.eline # None
    BY <1>1, <1>9 DEF Served, IsKeyed, UsesNoService
  <2>2. CASE AtCsp
    <3>1. c.hop \in Nexthops
      BY <1>1, <1>4, <1>9, <2>1, <2>2 DEF EntryHolds, CspCached, CacheEntry, AtCsp, IsELineNow
    <3>2. id = <<"eline", local[c.hop]>>
      BY <1>1, <1>9, <2>1, <2>2, Zenon DEF MayDecideAs, InELan
    <3> QED
      BY <1>5, <1>8, <3>1, <3>2, DecisionsAssumption
  <2>3. CASE ~AtCsp
    <3>1. PICK s \in ELines : s = c.eline
      BY <1>4, <2>1 DEF CacheEntry
    <3>2. ELineIfaces(s) \subseteq Csps
      BY DEF ELineIfaces, HasELinePort, FindELine, ELine, Port, ControlInv, LeafType, TypeOK, TablesTypeOK
    <3>3. id \in {"eline"} \X ELineIfaces(s)
      BY <1>1, <1>9, <2>1, <2>3, <3>1, Zenon DEF MayDecideAs, InELan
    <3>4. PICK x \in Ifaces : id = <<"eline", x>>
      BY <3>2, <3>3 DEF Ifaces
    <3> QED
      BY <1>5, <3>4, DecisionsAssumption
  <2> QED
    BY <2>2, <2>3
<1>10. CASE InELan(p)
  <2>1. /\ p.kind # "host" /\ p.kind # "expired" /\ IsKeyed(p) /\ c.is_valid /\ ~IsELineNow(p)
        /\ Served(p)
    BY <1>1, <1>10 DEF Served, IsKeyed, InELan
  <2>2. c.elan \in ELans /\ (AtCsp => p.key \in Vlans)
    <3>1. InELan(NextPacket)
      BY <1>1, <1>10
    <3>2. c.elan \in ELans
      BY <1>1, <1>2, <3>1, PacketInELan
    <3>3. AtCsp => p.key \in Vlans
      BY <1>1, <1>2, <1>3, <2>1, PacketToDecide DEF AtCsp
    <3> QED
      BY <3>2, <3>3
  <2>3. id = MacDecision(p)
    BY <1>1, <2>1, Zenon DEF MayDecideAs, InELan
  <2>4. CASE ~mcache.is_valid
    <3>1. id = IF AtCsp THEN <<"flood", p.key>> ELSE <<"flood", c.elan>>
      BY <1>1, <2>3, <2>4, Zenon DEF MacDecision
    <3> QED
      BY <1>6, <2>2, <3>1, DecisionsAssumption
  <2>5. CASE mcache.is_valid /\ mcache.entry \in Port
    <3>1. id = <<"elan", mcache.entry.iface>> \/ mcache.entry \in Nhlfe
      BY <2>3, <2>5, Zenon DEF MacDecision
    <3>2. mcache.entry \notin Nhlfe
      BY <2>5 DEF Port, Nhlfe
    <3>3. mcache.entry.iface \in Ifaces
      BY <2>5 DEF Port, Ifaces
    <3> QED
      BY <1>5, <3>1, <3>2, <3>3, DecisionsAssumption
  <2>6. CASE mcache.is_valid /\ mcache.entry \in Nhlfe
    <3>1. \/ id = (IF AtCsp THEN <<"elan", local[mcache.entry.NHLFE]>> ELSE <<"drop">>)
          \/ mcache.entry \in Port
      BY <2>3, <2>6, Zenon DEF MacDecision
    <3>2. mcache.entry \notin Port
      BY <2>6 DEF Port, Nhlfe
    <3>3. local[mcache.entry.NHLFE] \in Ifaces
      BY <1>8, <2>6 DEF Nhlfe
    <3> QED
      BY <1>5, <1>7, <3>1, <3>2, <3>3, DecisionsAssumption
  <2> QED
    BY <1>2, <2>4, <2>5, <2>6 DEF MacInv, LoopsInv, BurstType, MacCache, Entry
<1>11. CASE p.kind = "host"
  <2>1. id = <<"host">>
    BY <1>1, <1>11, Zenon DEF MayDecideAs, Served, InELan, IsKeyed
  <2> QED
    BY <1>7, <2>1, DecisionsAssumption
<1>12. CASE p.kind = "expired" \/ (IsKeyed(p) /\ ~c.is_valid)
  <2>1. ~Served(p) /\ ~InELan(p) /\ p.kind # "host"
    BY <1>1, <1>12 DEF Served, InELan, IsKeyed
  <2>2. id = <<"drop">>
    BY <1>1, <1>12, <2>1, Zenon DEF MayDecideAs
  <2> QED
    BY <1>7, <2>2, DecisionsAssumption
<1>13. p.kind \in {"host", "expired"} \/ IsKeyed(p)
  BY <1>1, <1>2, PacketToDecide, KeyedPackets
<1> QED
  BY <1>1, <1>9, <1>10, <1>11, <1>12, <1>13 DEF Served, InELan

\* What is learned from a packet is what its E-LAN has.
LEMMA LearnsWhatItSees ==
  ASSUME ControlInv, LoopsInv, CachesInv, MayDecide(NextPacket), ~UsesNoService(NextPacket),
         Learns(NextPacket)
  PROVE  LET p == NextPacket
             l == Cached(p).elan
         IN  /\ p.src \in Macs /\ l \in ELans
             /\ SourceEntry(p) \in had[l] /\ SourceEntry(p) \in Entry
<1>1. PICK p, i, l : p = NextPacket /\ i = burst.iface /\ l = Cached(p).elan
  OBVIOUS
<1>2. MayPeek /\ CacheInv /\ InELan(p) /\ SourceEntry(p) # None
  BY <1>1 DEF MayDecide, CachesInv, Learns
<1>3. /\ IsKeyed(p) /\ l \in ELans /\ InUse(l)
      /\ AtCsp => [iface |-> i, vlan_tci |-> p.key] \in had[l]
  BY <1>1, <1>2, PacketInELan
<1>4. /\ i \in Ifaces /\ i \in Csps => p.key \in Vlans
      /\ i \notin Csps => i \in Cbps /\ p.key \in Labels
      /\ p.src \in Macs
  BY <1>1, <1>2, <1>3, PacketToDecide, KeyedPackets
<1>5. SourceEntry(p) \in had[l]
  <2>1. CASE AtCsp
    BY <1>1, <1>3, <2>1 DEF SourceEntry
  <2>2. CASE ~AtCsp
    <3>1. PICK w \in LabelEntry : w = Word(p)
      BY <1>1, <1>4, <2>2 DEF AtCsp, Word, ControlInv, TablesType
    <3>2. w.egress # None /\ SourceEntry(p) = elan[l].nhlfes[w.egress.slot]
      BY <1>1, <1>2, <2>2, <3>1 DEF SourceEntry
    <3>3. w.egress.slot \in NhlfeSlots
      BY <3>1, <3>2 DEF LabelEntry, Egress
    <3>4. PICK k \in NhlfeSlots : k = w.egress.slot
      BY <3>3
    <3>5. elan[l] # Free
      BY <1>3 DEF InUse
    <3>6. elan[l].nhlfes[k] \in Entries(l)
      BY <1>2, <1>3, <3>2, <3>4, <3>5, EntriesAre
    <3> QED
      BY <1>3, <3>2, <3>4, <3>6 DEF ControlInv, HadInv
  <2> QED
    BY <2>1, <2>2
<1> QED
  BY <1>1, <1>3, <1>4, <1>5 DEF ControlInv, TablesType

LEMMA AppendsAreLearned ==
  ASSUME NEW q \in Seq(Learned), NEW e \in Learned, e.entry \in had[e.elan],
         \A k \in 1 .. Len(q) : q[k].entry \in had[q[k].elan]
  PROVE  /\ Append(q, e) \in Seq(Learned)
         /\ \A k \in 1 .. Len(Append(q, e)) :
              Append(q, e)[k].entry \in had[Append(q, e)[k].elan]
<1>1. PICK r : r = Append(q, e)
  OBVIOUS
<1>2. /\ r \in Seq(Learned) /\ Len(r) = Len(q) + 1
      /\ \A k \in 1 .. Len(q) : r[k] = q[k]
      /\ r[Len(q) + 1] = e
  BY <1>1, AppendProperties
<1>3. ASSUME NEW k \in 1 .. Len(r) PROVE k \in 1 .. Len(q) \/ k = Len(q) + 1
  BY <1>2
<1> QED
  BY <1>1, <1>2, <1>3

LEMMA LearnedGrows ==
  ASSUME LearnedType, LearnedInv, UNCHANGED <<ring, had>>, NEW e \in Learned,
         e.entry \in had[e.elan], learned' = Append(learned, e)
  PROVE  LearnedType' /\ LearnedInv'
<1>1. /\ learned' \in Seq(Learned)
      /\ \A k \in 1 .. Len(learned') : learned'[k].entry \in had[learned'[k].elan]
  BY AppendsAreLearned DEF LearnedType, LearnedInv
<1> QED
  BY <1>1 DEF LearnedType, LearnedInv

LEMMA DecideKeeps ==
  ASSUME ControlInv, LoopsInv, CachesInv, Decide
  PROVE  ControlInv' /\ LoopsInv' /\ CachesInv'
<1>1. /\ MayDecide(NextPacket) /\ ~UsesNoService(NextPacket)
      /\ InELan(NextPacket) => MacHits(NextPacket)
      /\ UNCHANGED <<posted, burst, cache, mcache, flood, fate, crashed, ring>>
      /\ UNCHANGED <<waits, seen>> /\ TablesUnchanged /\ UNCHANGED had
  BY DEF Decide, Proceed, Reads, TablesUnchanged
<1>2. PICK id \in Decisions : Proceed(id)
  <2>1. PICK id \in MayDecideAs(NextPacket) : Proceed(id)
    BY DEF Decide
  <2> QED
    BY <1>1, <2>1, DecisionsAreKnown
<1>3. DeliveryInv'
  BY <1>2, DeliveryStep DEF LoopsInv, DeliveryNext
<1>4. PICK p : p = NextPacket
  OBVIOUS
<1>5. /\ MayPeek /\ burst # Nobody /\ p = burst.mbufs[Len(via) + 1]
      /\ Len(via) + 1 <= Len(burst.mbufs) /\ Len(via) = loop.peek /\ Len(decided) = loop.peek
      /\ burst.iface \in Ifaces /\ p \in PacketsOf(burst.iface)
  BY <1>1, <1>4, PacketToDecide DEF MayDecide, NextPacket
<1>6. /\ decided' = Append(decided, id) /\ loop'.nr_mbufs = loop.nr_mbufs /\ loop'.pc # "idle"
  BY <1>2, <1>5 DEF Proceed, MayPeek, LoopsInv, DeliveryInv, LoopType
<1>7. ControlInv'
  <2>1. CASE Learns(p)
    <3>1. PICK e : e = [mac |-> p.src, elan |-> Cached(p).elan, entry |-> SourceEntry(p)]
      OBVIOUS
    <3>2. e \in Learned /\ e.entry \in had[e.elan]
      BY <1>1, <1>4, <2>1, <3>1, LearnsWhatItSees DEF Learned
    <3>3. learned' = Append(learned, e)
      BY <1>4, <2>1, <3>1 DEF Decide
    <3> QED
      BY <1>1, <3>2, <3>3, LearnedGrows, SameTables DEF ControlInv
  <2>2. CASE ~Learns(p)
    <3>1. learned' = learned
      BY <1>4, <2>2 DEF Decide
    <3> QED
      BY <1>1, <3>1, SameTables DEF ControlInv
  <2> QED
    BY <2>1, <2>2
<1>8. PICK x : x = IF InELan(p) /\ mcache.is_valid THEN mcache.entry ELSE None
  OBVIOUS
<1>9. via' = Append(via, x)
  BY <1>4, <1>8 DEF Decide
<1>10. x \in Entry \cup {None} /\ via \in Seq(Entry \cup {None})
  BY <1>8 DEF LoopsInv, BurstType, MacCache
<1>11. /\ via' \in Seq(Entry \cup {None}) /\ Len(via') = Len(via) + 1
       /\ \A k \in 1 .. Len(via) : via'[k] = via[k]
       /\ via'[Len(via) + 1] = x /\ Len(via) \in Nat
  BY <1>9, <1>10, AppendProperties
<1>12. BurstType'
  BY <1>1, <1>6, <1>11 DEF LoopsInv, BurstType
<1>13. BurstInv'
  <2>1. flood.pc # "ports"
    BY <1>5 DEF LoopsInv, BurstInv, Posting, MayPeek
  <2>2. Len(via') = Len(decided')
    BY <1>5, <1>6, <1>11 DEF LoopsInv, DeliveryInv
  <2> QED
    BY <1>1, <1>5, <1>6, <2>1, <2>2 DEF LoopsInv, BurstInv
<1>14. Watched
  BY <1>1, SameIsWatched
<1>15. MacInv'
  <2>1. ASSUME mcache.is_valid
        PROVE  /\ mcache.entry # None
               /\ \E j \in 1 .. Len(via') + 1 :
                    j <= Len(burst.mbufs) /\ LookedUp(j, mcache.mac, mcache.entry)'
    <3>1. PICK j \in 1 .. Len(via) + 1 :
            j <= Len(burst.mbufs) /\ LookedUp(j, mcache.mac, mcache.entry)
      BY <2>1 DEF CachesInv, MacInv
    <3>2. PICK mac, e : mac = mcache.mac /\ e = mcache.entry
      OBVIOUS
    <3>3. LookedUp(j, mac, e)'
      BY <1>1, <1>14, <3>1, <3>2, LookedUpStays
    <3>4. LookedUp(j, mcache.mac, mcache.entry)'
      BY <1>1, <3>2, <3>3 DEF LookedUp
    <3>5. j \in 1 .. Len(via') + 1
      BY <1>11, <3>1
    <3> QED
      BY <2>1, <3>1, <3>4, <3>5 DEF CachesInv, MacInv
  <2> QED
    BY <1>1, <2>1 DEF MacInv
<1>16. ViaInv'
  <2>1. ASSUME NEW k \in 1 .. Len(via'), via'[k] # None
        PROVE  \E j \in 1 .. k : LookedUp(j, burst.mbufs[k].dst, via'[k])
    <3>1. CASE k \in 1 .. Len(via)
      BY <1>5, <1>11, <2>1, <3>1 DEF CachesInv, ViaInv
    <3>2. CASE k = Len(via) + 1
      <4>1. /\ x # None /\ via'[k] = x /\ InELan(p) /\ mcache.is_valid /\ x = mcache.entry
        BY <1>8, <1>11, <2>1, <3>2
      <4>2. mcache.mac = p.dst /\ p = burst.mbufs[k]
        BY <1>1, <1>4, <1>5, <3>2, <4>1 DEF MacHits
      <4>3. PICK j \in 1 .. Len(via) + 1 : LookedUp(j, mcache.mac, mcache.entry)
        BY <4>1 DEF CachesInv, MacInv
      <4> QED
        BY <3>2, <4>1, <4>2, <4>3
    <3> QED
      BY <1>11, <3>1, <3>2
  <2>2. ASSUME NEW k \in 1 .. Len(via'), via'[k] # None
        PROVE  \E j \in 1 .. k : LookedUp(j, burst.mbufs[k].dst, via[k])'
    <3>1. PICK j \in 1 .. k : LookedUp(j, burst.mbufs[k].dst, via'[k])
      BY <2>1, <2>2
    <3>2. PICK mac, e : mac = burst.mbufs[k].dst /\ e = via'[k]
      OBVIOUS
    <3>3. LookedUp(j, mac, e)'
      BY <1>1, <1>14, <3>1, <3>2, LookedUpStays
    <3>4. LookedUp(j, burst.mbufs[k].dst, via[k])'
      BY <1>1, <3>2, <3>3 DEF LookedUp
    <3> QED
      BY <3>1, <3>4
  <2> QED
    BY <2>2 DEF ViaInv
<1>17. CacheInv' /\ OnlyRebindingCrashes'
  BY <1>1, <1>14, CacheStays DEF LoopsInv, CachesInv, OnlyRebindingCrashes
<1> QED
  BY <1>3, <1>7, <1>12, <1>13, <1>15, <1>16, <1>17 DEF LoopsInv, CachesInv

LEMMA EndOfPacketsKeeps ==
  ASSUME ControlInv, LoopsInv, CachesInv, EndOfPackets
  PROVE  ControlInv' /\ LoopsInv' /\ CachesInv'
<1>1. /\ Drain
      /\ UNCHANGED <<decided, posted, burst, cache, mcache, learned, flood, fate, via, crashed, ring>>
      /\ UNCHANGED <<waits, seen>> /\ TablesUnchanged
  BY DEF EndOfPackets, Drain, Reads
<1>2. DeliveryInv'
  BY <1>1, DeliveryStep DEF LoopsInv, DeliveryNext
<1>3. loop'.nr_mbufs = loop.nr_mbufs /\ loop.pc = "peek"
  BY <1>1 DEF Drain, NoBurst, LoopsInv, DeliveryInv, LoopType
<1>4. ControlInv'
  BY <1>1, SameTables DEF ControlInv
<1>5. Watched
  BY <1>1, SameIsWatched
<1>6. BurstType'
  BY <1>1, <1>3 DEF LoopsInv, BurstType
<1>7. BurstInv'
  <2>1. flood.pc # "ports" /\ burst # Nobody
    BY <1>3 DEF LoopsInv, BurstInv, Posting
  <2> QED
    BY <1>1, <1>3, <2>1 DEF LoopsInv, BurstInv
<1>8. CacheInv' /\ MacInv' /\ ViaInv' /\ OnlyRebindingCrashes'
  BY <1>1, <1>5, CacheStays, MacStays, ViaStays DEF LoopsInv, CachesInv, OnlyRebindingCrashes
<1> QED
  BY <1>2, <1>4, <1>6, <1>7, <1>8 DEF LoopsInv, CachesInv

(***************************************************************************)
(* Posting.                                                                *)
(***************************************************************************)
\* The E-LAN of a flood stays until the flood has ended.
FloodUse == flood.pc = "ports" => InUse(flood.elan) /\ LatestIdentifier[1] = "flood"

LEMMA DisposedType ==
  ASSUME BurstType
  PROVE  /\ Disposed \in [1 .. loop.nr_mbufs -> Nat]
         /\ \A k \in 1 .. loop.nr_mbufs :
              Disposed[k] = IF k \in Waiting THEN fate[k] + 1 ELSE fate[k]
<1>1. DOMAIN fate = 1 .. loop.nr_mbufs /\ \A k \in 1 .. loop.nr_mbufs : fate[k] \in Nat
  BY DEF BurstType
<1> QED
  BY <1>1 DEF Disposed

LEMMA NoFloodIsTyped == NoFlood \in Flood
BY DEF NoFlood, Flood

\* Packets that wait have been posted.
LEMMA PostedKeeps ==
  ASSUME ControlInv, LoopsInv, CachesInv, Posted, fate' \in [1 .. loop.nr_mbufs -> Nat]
  PROVE  ControlInv' /\ LoopsInv' /\ CachesInv' /\ FloodUse'
<1>1. /\ Post /\ flood' = NoFlood
      /\ UNCHANGED <<decided, burst, cache, mcache, learned, via, crashed, ring>>
      /\ UNCHANGED <<waits, seen>> /\ TablesUnchanged
  BY DEF Posted, Post, Reads
<1>2. DeliveryInv' /\ loop'.nr_mbufs = loop.nr_mbufs
  BY <1>1, PostKeeps, PostedSoFar DEF LoopsInv
<1>3. ControlInv'
  BY <1>1, SameTables DEF ControlInv
<1>4. Watched
  BY <1>1, SameIsWatched
<1>5. BurstType'
  BY <1>1, <1>2, NoFloodIsTyped DEF LoopsInv, BurstType
<1>6. BurstInv' /\ FloodUse'
  <2>1. burst # Nobody
    BY <1>1 DEF LoopsInv, BurstInv, Post, Posting
  <2>2. flood'.pc = "none"
    BY <1>1 DEF NoFlood
  <2> QED
    BY <1>1, <1>2, <2>1, <2>2 DEF LoopsInv, BurstInv, FloodUse
<1>7. CacheInv' /\ MacInv' /\ ViaInv' /\ OnlyRebindingCrashes'
  BY <1>1, <1>4, CacheStays, MacStays, ViaStays DEF LoopsInv, CachesInv, OnlyRebindingCrashes
<1> QED
  BY <1>2, <1>3, <1>5, <1>6, <1>7 DEF LoopsInv, CachesInv

LEMMA PostAtOnceKeeps ==
  ASSUME ControlInv, LoopsInv, CachesInv, PostAtOnce \/ FloodNowhere \/ FloodEnd
  PROVE  ControlInv' /\ LoopsInv' /\ CachesInv' /\ FloodUse'
<1>1. Posted /\ (fate' = Disposed \/ fate' = fate)
  BY DEF PostAtOnce, FloodNowhere, FloodEnd
<1>2. fate' \in [1 .. loop.nr_mbufs -> Nat]
  BY <1>1, DisposedType DEF LoopsInv, BurstType
<1> QED
  BY <1>1, <1>2, PostedKeeps

\* A step of a flood.
FloodStep ==
  /\ Posting /\ LatestIdentifier[1] = "flood"
  /\ flood' \in Flood /\ flood'.pc = "ports" /\ flood'.elan \in ELans /\ InUse(flood'.elan)
  /\ fate' \in [1 .. loop.nr_mbufs -> Nat]
  /\ Reads(<<deliveryVars, burst, cache, mcache, learned, via, crashed, bursts>>)

LEMMA FloodStepKeeps ==
  ASSUME ControlInv, LoopsInv, CachesInv, FloodStep
  PROVE  ControlInv' /\ LoopsInv' /\ CachesInv' /\ FloodUse'
<1>1. /\ UNCHANGED <<loop, decided, posted, burst, cache, mcache, learned, via, crashed, ring>>
      /\ UNCHANGED deliveryVars
      /\ UNCHANGED <<waits, seen>> /\ TablesUnchanged
  BY DEF FloodStep, Reads, deliveryVars
<1>2. ControlInv'
  BY <1>1, SameTables DEF ControlInv
<1>3. Watched
  BY <1>1, SameIsWatched
<1>4. BurstType'
  BY <1>1 DEF FloodStep, LoopsInv, BurstType
<1>5. BurstInv'
  <2>1. burst # Nobody
    BY DEF FloodStep, LoopsInv, BurstInv, Posting
  <2> QED
    BY <1>1, <2>1 DEF FloodStep, LoopsInv, BurstInv, Posting
<1>6. FloodUse'
  <2>1. PICK l \in ELans : l = flood'.elan /\ InUse(l)
    BY DEF FloodStep
  <2>2. InUse(l)'
    BY <1>3, <2>1 DEF Watched
  <2>3. LatestIdentifier' = LatestIdentifier
    BY <1>1 DEF LatestIdentifier
  <2> QED
    BY <2>1, <2>2, <2>3 DEF FloodUse, FloodStep, InUse
<1>7. CacheInv' /\ MacInv' /\ ViaInv' /\ OnlyRebindingCrashes'
  BY <1>1, <1>3, CacheStays, MacStays, ViaStays DEF LoopsInv, CachesInv, OnlyRebindingCrashes
<1> QED
  BY <1>1, <1>2, <1>4, <1>5, <1>6, <1>7, SameDelivery DEF LoopsInv, CachesInv

LEMMA BeginFloodStep ==
  ASSUME ControlInv, LoopsInv, BeginFlood
  PROVE  /\ FloodStep /\ flood.pc = "none" /\ fate' = fate
         /\ flood'.consumed = FALSE /\ flood'.sent = {} /\ flood'.nr_port = 0
         /\ flood'.port_id = 0 /\ FindELan(flood'.elan)
         /\ flood'.nr_ports = Cardinality(Filled(flood'.elan))
<1>1. PICK l \in FloodELans :
        flood' = [NoFlood EXCEPT !.pc = "ports", !.elan = l,
                    !.nr_ports = Cardinality(PortSlots \ FreePortSlots(l))]
  BY DEF BeginFlood
<1>2. l \in ELans /\ FindELan(l)
  BY DEF FloodELans
<1>3. PICK n : n = Cardinality(PortSlots \ FreePortSlots(l))
  OBVIOUS
<1>4. n \in Nat
  <2>1. IsFiniteSet(PortSlots)
    <3>1. 0 \in Int /\ MAX_PORTS_IN_E_LAN_SERVICE - 1 \in Int
      BY SizesAssumption
    <3> QED
      BY <3>1, FS_Interval DEF PortSlots
  <2> QED
    BY <1>3, <2>1, FS_Subset, FS_CardinalityType
<1>5. flood' = [NoFlood EXCEPT !.pc = "ports", !.elan = l, !.nr_ports = n]
  BY <1>1, <1>3
<1>6. /\ flood' \in Flood /\ flood'.pc = "ports" /\ flood'.elan = l /\ flood'.nr_ports = n
      /\ flood'.consumed = FALSE /\ flood'.sent = {} /\ flood'.nr_port = 0 /\ flood'.port_id = 0
  BY <1>2, <1>4, <1>5 DEF NoFlood, Flood
<1>7. InUse(l)
  BY <1>2 DEF InUse, FindELan
<1>8. /\ Posting /\ LatestIdentifier[1] = "flood" /\ flood.pc = "none" /\ fate' = fate
      /\ Reads(<<deliveryVars, burst, cache, mcache, learned, via, crashed, bursts>>)
  BY DEF BeginFlood, Reads
<1> QED
  BY <1>2, <1>3, <1>6, <1>7, <1>8 DEF FloodStep, LoopsInv, BurstType, Filled

\* What FloodPort looks at.
NextPort == elan[flood.elan].ports[flood.port_id]
Goes   == NextPort # None /\ ~Own(NextPort) /\ IsUp(NextPort.iface)
IsLast == ~AtCsp /\ Goes /\ flood.nr_port + 1 >= flood.nr_ports
Passes ==
  /\ flood'.elan = flood.elan /\ flood'.nr_ports = flood.nr_ports
  /\ flood'.port_id = flood.port_id + 1
  /\ flood'.nr_port = IF NextPort = None THEN flood.nr_port ELSE flood.nr_port + 1
  /\ flood'.sent = IF Goes THEN flood.sent \cup {NextPort} ELSE flood.sent
  /\ flood'.consumed = (flood.consumed \/ IsLast)
  /\ fate' = IF IsLast THEN Disposed ELSE fate

LEMMA FloodPortStep ==
  ASSUME ControlInv, LoopsInv, FloodUse, FloodPort
  PROVE  /\ FloodStep /\ Flooding /\ Passes
         /\ flood.elan \in ELans /\ elan[flood.elan] # Free /\ NextPort \in Port \cup {None}
<1>1. PICK l \in ELans, k \in PortSlots :
        l = flood.elan /\ k = flood.port_id /\ elan[l] # Free /\ InUse(l)
  BY DEF FloodPort, Flooding, LoopsInv, BurstInv, FloodUse, InUse
<1>2. elan[l] \in ELan
  BY <1>1 DEF ControlInv, LeafType, TypeOK, TablesTypeOK
<1>3. PICK port \in Port \cup {None} : port = elan[l].ports[k]
  BY <1>2 DEF ELan
<1>4. PICK goes \in BOOLEAN : goes = (port # None /\ ~Own(port) /\ IsUp(port.iface))
  OBVIOUS
<1>5. PICK last \in BOOLEAN : last = (~AtCsp /\ goes /\ flood.nr_port + 1 >= flood.nr_ports)
  OBVIOUS
<1>6. port = NextPort /\ goes = Goes /\ last = IsLast
  BY <1>1, <1>3, <1>4, <1>5 DEF NextPort, Goes, IsLast
<1>7. /\ Flooding
      /\ flood' = [flood EXCEPT !.port_id = k + 1,
                     !.nr_port = IF port = None THEN @ ELSE @ + 1,
                     !.sent = IF goes THEN @ \cup {port} ELSE @, !.consumed = @ \/ last]
      /\ fate' = IF last THEN Disposed ELSE fate
      /\ Reads(<<deliveryVars, burst, cache, mcache, learned, via, crashed, bursts>>)
  BY <1>1, <1>3, <1>4, <1>5 DEF FloodPort, Own
<1>8. /\ flood \in Flood /\ flood.pc = "ports" /\ k + 1 \in Nat
      /\ Posting /\ LatestIdentifier[1] = "flood"
  BY <1>1, <1>7 DEF Flooding, LoopsInv, BurstType, BurstInv, FloodUse, PortSlots
<1>9. PICK n \in Nat : n = IF port = None THEN flood.nr_port ELSE flood.nr_port + 1
  BY <1>8 DEF Flood
<1>10. PICK sent \in SUBSET Port : sent = IF goes THEN flood.sent \cup {port} ELSE flood.sent
  BY <1>4, <1>8 DEF Flood
<1>11. PICK consumed \in BOOLEAN : consumed = (flood.consumed \/ last)
  OBVIOUS
<1>12. flood' = [flood EXCEPT !.port_id = k + 1, !.nr_port = n, !.sent = sent,
                              !.consumed = consumed]
  BY <1>7, <1>9, <1>10, <1>11, Zenon
<1>13. /\ flood' \in Flood /\ flood'.pc = flood.pc /\ flood'.elan = flood.elan
       /\ flood'.nr_ports = flood.nr_ports /\ flood'.port_id = k + 1 /\ flood'.nr_port = n
       /\ flood'.sent = sent /\ flood'.consumed = consumed
  BY <1>8, <1>12 DEF Flood
<1>14. fate' \in [1 .. loop.nr_mbufs -> Nat]
  BY <1>7, DisposedType DEF LoopsInv, BurstType
<1>15. FloodStep
  BY <1>1, <1>7, <1>8, <1>13, <1>14 DEF FloodStep
<1>16. Passes
  BY <1>1, <1>6, <1>7, <1>9, <1>10, <1>11, <1>13 DEF Passes
<1> QED
  BY <1>1, <1>3, <1>6, <1>7, <1>15, <1>16

(***************************************************************************)
(* The burst begins, learns and ends.                                      *)
(***************************************************************************)
LEMMA NothingIsTyped ==
  /\ NoCache \in [0 .. CACHE_SIZE - 1 -> CacheEntry] /\ NoMac \in MacCache
  /\ Nobody \in [iface: Ifaces \cup {None}, mbufs: Seq(Packet)]
<1>1. NoEntry \in CacheEntry
  BY DEF NoEntry, CacheEntry
<1> QED
  BY <1>1 DEF NoCache, NoMac, MacCache, Nobody

LEMMA EmptyCaches ==
  ASSUME cache' = NoCache, mcache' = NoMac, burst' = Nobody \/ via' = <<>>
  PROVE  CacheInv' /\ MacInv' /\ ViaInv'
<1>1. \A c \in 0 .. CACHE_SIZE - 1 : cache'[c] = NoEntry
  BY DEF NoCache
<1>2. EntryHolds(NoEntry)'
  BY DEF EntryHolds, NoEntry
<1>3. CacheInv'
  BY <1>1, <1>2 DEF CacheInv
<1> QED
  BY <1>3 DEF MacInv, ViaInv, NoMac

LEMMA RxKeeps ==
  ASSUME ControlInv, LoopsInv, CachesInv, Receives, ~crashed
  PROVE  ControlInv' /\ LoopsInv' /\ CachesInv' /\ FloodUse'
<1>1. PICK i \in Ifaces, n \in 1 .. MaxBurst : \E mbufs \in [1 .. n -> PacketsOf(i)] :
        RxBurst(i, mbufs)
  BY DEF Receives
<1>2. PICK mbufs \in [1 .. n -> PacketsOf(i)] : RxBurst(i, mbufs)
  BY <1>1
<1>3. n \in Nat /\ \A k \in 1 .. n : mbufs[k] \in Packet
  BY <1>2, BurstAssumption, KeyedPackets
<1>4. mbufs \in Seq(Packet) /\ Len(mbufs) = n
  <2>1. mbufs \in [1 .. n -> Packet]
    BY <1>3
  <2> QED
    BY <1>3, <2>1, LenProperties
<1>5. /\ burst = Nobody /\ Receive(n) /\ burst' = [iface |-> i, mbufs |-> mbufs]
      /\ cache' = NoCache /\ mcache' = NoMac /\ learned' = <<>>
      /\ fate' = [k \in 1 .. n |-> 0] /\ via' = <<>> /\ seen' = {}
      /\ UNCHANGED <<flood, crashed, ring, waits>> /\ TablesUnchanged
  BY <1>2, <1>4 DEF RxBurst
<1>6. /\ loop'.nr_mbufs = n /\ loop'.pc = "peek" /\ loop.pc = "idle"
      /\ decided' = <<>> /\ posted' = <<>>
  BY <1>5 DEF Receive, NoBurst
<1>7. DeliveryInv'
  BY <1>5, DeliveryStep DEF LoopsInv, DeliveryNext
<1>8. flood.pc = "none" /\ burst' # Nobody
  BY <1>3, <1>4, <1>5, <1>6 DEF Nobody, LoopsInv, BurstType, Flood, BurstInv, Posting
<1>9. ControlInv'
  <2>1. LearnedType' /\ LearnedInv'
    BY <1>5 DEF ControlInv, LearnedType, LearnedInv, TablesUnchanged
  <2> QED
    BY <1>5, <2>1, SameTables DEF ControlInv
<1>10. BurstType'
  <2>1. burst' \in [iface: Ifaces \cup {None}, mbufs: Seq(Packet)]
    BY <1>4, <1>5
  <2>2. fate' \in [1 .. loop'.nr_mbufs -> Nat]
    BY <1>5, <1>6
  <2>3. via' \in Seq(Entry \cup {None})
    BY <1>5
  <2> QED
    BY <1>5, <2>1, <2>2, <2>3, NothingIsTyped DEF LoopsInv, BurstType
<1>11. BurstInv' /\ FloodUse'
  <2>1. /\ burst'.iface = i /\ burst'.mbufs = mbufs
    BY <1>5
  <2>2. Len(via') = Len(decided')
    BY <1>5, <1>6
  <2> QED
    BY <1>2, <1>4, <1>5, <1>6, <1>8, <2>1, <2>2 DEF LoopsInv, BurstInv, FloodUse
<1>12. CacheInv' /\ MacInv' /\ ViaInv'
  BY <1>5, EmptyCaches
<1>13. OnlyRebindingCrashes'
  BY <1>5 DEF OnlyRebindingCrashes
<1> QED
  BY <1>7, <1>9, <1>10, <1>11, <1>12, <1>13 DEF LoopsInv, CachesInv

LEMMA EndOfBurstKeeps ==
  ASSUME ControlInv, LoopsInv, CachesInv, EndOfBurst
  PROVE  ControlInv' /\ LoopsInv' /\ CachesInv' /\ FloodUse'
<1>1. /\ loop.pc = "idle" /\ learned = <<>> /\ burst' = Nobody
      /\ cache' = NoCache /\ mcache' = NoMac
      /\ UNCHANGED <<loop, decided, posted, learned, flood, fate, via, crashed, ring, seen>>
      /\ UNCHANGED deliveryVars /\ TablesUnchanged
  BY DEF EndOfBurst, deliveryVars
<1>2. ControlInv'
  BY <1>1, SameTables DEF ControlInv
<1>3. BurstType'
  BY <1>1, NothingIsTyped DEF LoopsInv, BurstType
<1>4. flood.pc # "ports"
  BY <1>1 DEF LoopsInv, BurstInv, Posting
<1>5. BurstInv' /\ FloodUse'
  BY <1>1, <1>4 DEF LoopsInv, BurstInv, FloodUse
<1>6. CacheInv' /\ MacInv' /\ ViaInv'
  BY <1>1, EmptyCaches
<1>7. OnlyRebindingCrashes'
  BY <1>1 DEF CachesInv, OnlyRebindingCrashes
<1> QED
  BY <1>1, <1>2, <1>3, <1>5, <1>6, <1>7, SameDelivery DEF LoopsInv, CachesInv

\* An address is refreshed in its own E-LAN: what E-LANs had covers it.
LEMMA RefreshKeepsTables ==
  ASSUME ControlInv, NEW e \in Learned, e.entry \in had[e.elan], Refreshes(e)
  PROVE  LeafType' /\ TablesType' /\ WordsInv' /\ HadInv' /\ OnlyFibs
<1>1. /\ OnlyFibs
      /\ \A l \in ELans, mac \in Macs : elan[l] # Free =>
           \/ elan'[l].fib[mac] = elan[l].fib[mac]
           \/ l = e.elan /\ elan'[l].fib[mac] = e.entry
  BY RefreshIsOnlyFibs DEF ControlInv, LeafType, TypeOK
<1>2. UNCHANGED <<vlans, labels, local, words, had>>
  BY <1>1 DEF OnlyFibs, ports
<1>3. LeafType'
  BY <1>1, OnlyFibsKeepsType DEF ControlInv
<1>4. TablesType' /\ WordsInv'
  BY <1>2 DEF ControlInv, TablesType, WordsInv
<1>5. \A l \in ELans : Entries(l)' \subseteq had'[l]
  BY <1>1, <1>2, SameEntries DEF ControlInv, HadInv
<1>6. \A l \in ELans, mac \in Macs : elan'[l] # Free => elan'[l].fib[mac] \in had'[l] \cup {None}
  BY <1>1, <1>2 DEF OnlyFibs, ControlInv, HadInv
<1>7. \A p \in Port, l \in ELans : vlans'[p.iface][p.vlan_tci] = ELanService(l) => p \in had'[l]
  BY <1>2 DEF ControlInv, HadInv, ELanService
<1> QED
  BY <1>1, <1>3, <1>4, <1>5, <1>6, <1>7 DEF HadInv

\* What waits to be learned moves on.
LEMMA TailsAreLearned ==
  ASSUME NEW q \in Seq(Learned), q # <<>>, \A k \in 1 .. Len(q) : q[k].entry \in had[q[k].elan]
  PROVE  /\ Head(q) \in Learned /\ Head(q).entry \in had[Head(q).elan] /\ Tail(q) \in Seq(Learned)
         /\ \A k \in 1 .. Len(Tail(q)) : Tail(q)[k].entry \in had[Tail(q)[k].elan]
<1>1. /\ Head(q) = q[1] /\ 1 \in 1 .. Len(q) /\ q[1] \in Learned
      /\ Tail(q) \in Seq(Learned) /\ Len(Tail(q)) = Len(q) - 1
      /\ \A k \in 1 .. Len(q) - 1 : Tail(q)[k] = q[k + 1]
  <2>1. Len(q) \in Nat /\ Len(q) > 0
    BY EmptySeq
  <2>2. Head(q) = q[1] /\ 1 \in 1 .. Len(q) /\ q[1] \in Learned
    BY <2>1
  <2>3. /\ Tail(q) \in Seq(Learned) /\ Len(Tail(q)) = Len(q) - 1
        /\ \A k \in 1 .. Len(q) - 1 : Tail(q)[k] = q[k + 1]
    BY <2>1, HeadTailProperties
  <2> QED
    BY <2>2, <2>3
<1>2. Len(q) \in Nat
  OBVIOUS
<1>3. \A k \in 1 .. Len(Tail(q)) : k \in 1 .. Len(q) - 1 /\ k + 1 \in 1 .. Len(q)
  BY <1>1, <1>2
<1> QED
  BY <1>1, <1>3

LEMMA UpdateMacKeeps ==
  ASSUME ControlInv, LoopsInv, CachesInv, FloodUse, UpdateMac
  PROVE  ControlInv' /\ LoopsInv' /\ CachesInv' /\ FloodUse'
<1>1. PICK e : e = Head(learned)
  OBVIOUS
<1>2. /\ burst # Nobody /\ loop.pc = "idle" /\ learned # <<>> /\ learned' = Tail(learned)
      /\ \/ Refreshes(e) /\ UNCHANGED ring
         \/ /\ ring' \in {ring, Append(ring, e)}
            /\ UNCHANGED seen /\ TablesUnchanged
      /\ UNCHANGED <<loop, decided, posted, burst, cache, mcache, flood, fate, via, crashed, waits>>
      /\ UNCHANGED deliveryVars
  BY <1>1 DEF UpdateMac, InUpdate, Refreshes, deliveryVars
<1>3. /\ e \in Learned /\ e.entry \in had[e.elan] /\ Tail(learned) \in Seq(Learned)
      /\ \A k \in 1 .. Len(Tail(learned)) :
           Tail(learned)[k].entry \in had[Tail(learned)[k].elan]
  BY <1>1, <1>2, TailsAreLearned DEF ControlInv, LearnedType, LearnedInv
<1>4. had' = had /\ Watched /\ (LeafType' /\ TablesType' /\ WordsInv' /\ HadInv')
  <2>1. CASE Refreshes(e)
    BY <1>2, <1>3, <2>1, RefreshKeepsTables, RefreshIsWatched DEF OnlyFibs
  <2>2. CASE UNCHANGED seen /\ TablesUnchanged
    BY <1>2, <2>2, SameTables, SameIsWatched DEF TablesUnchanged
  <2> QED
    BY <1>2, <2>1, <2>2
<1>5. LearnedType' /\ LearnedInv'
  <2>1. /\ ring \in Seq(Learned)
        /\ ring' = ring \/ ring' = Append(ring, e)
        /\ \A k \in 1 .. Len(ring) : ring[k].entry \in had[ring[k].elan]
    BY <1>2 DEF ControlInv, LearnedType, LearnedInv
  <2>2. CASE ring' = ring
    BY <1>2, <1>3, <1>4, <2>1, <2>2 DEF LearnedType, LearnedInv
  <2>3. CASE ring' = Append(ring, e)
    <3>1. /\ Append(ring, e) \in Seq(Learned)
          /\ \A k \in 1 .. Len(Append(ring, e)) :
               Append(ring, e)[k].entry \in had[Append(ring, e)[k].elan]
      <4>1. e \in Learned /\ e.entry \in had[e.elan]
        BY <1>3
      <4> QED
        BY <2>1, <4>1, AppendsAreLearned
    <3>2. /\ ring' \in Seq(Learned)
          /\ \A k \in 1 .. Len(ring') : ring'[k].entry \in had[ring'[k].elan]
      BY <2>3, <3>1
    <3> QED
      BY <1>2, <1>3, <1>4, <3>2 DEF LearnedType, LearnedInv
  <2> QED
    BY <2>1, <2>2, <2>3
<1>6. BurstType' /\ BurstInv'
  BY <1>2 DEF LoopsInv, BurstType, BurstInv, Posting
<1>7. FloodUse'
  BY <1>2 DEF LoopsInv, BurstInv, Posting, FloodUse
<1>8. CachesInv'
  BY <1>2, <1>4, WatchedKeepsCaches DEF LoopsInv
<1> QED
  BY <1>2, <1>4, <1>5, <1>6, <1>7, <1>8, SameDelivery DEF ControlInv, LoopsInv

LEMMA FloodUseStays ==
  ASSUME LoopsInv, FloodUse, Watched, UNCHANGED <<flood, deliveryVars>>
  PROVE  FloodUse'
<1>1. LatestIdentifier' = LatestIdentifier
  BY DEF LatestIdentifier, deliveryVars
<1>2. CASE flood.pc = "ports"
  <2>1. PICK l \in ELans : l = flood.elan /\ InUse(l)
    BY <1>2 DEF LoopsInv, BurstInv, FloodUse
  <2>2. InUse(l)' /\ l = flood'.elan
    BY <2>1 DEF Watched
  <2> QED
    BY <1>1, <1>2, <2>2 DEF FloodUse, InUse
<1> QED
  BY <1>2 DEF FloodUse

LEMMA LearnMacKeeps ==
  ASSUME ControlInv, LoopsInv, CachesInv, FloodUse, NEW t \in Threads, LearnMac(t)
  PROVE  ControlInv' /\ LoopsInv' /\ CachesInv' /\ FloodUse'
<1>1. PICK e : e = Head(ring)
  OBVIOUS
<1>2. /\ ring # <<>> /\ ring' = Tail(ring)
      /\ Refreshes(e) \/ (UNCHANGED seen /\ TablesUnchanged)
      /\ UNCHANGED <<loop, decided, posted, burst, cache, mcache, learned, flood, fate, via,
                     crashed, waits>>
      /\ UNCHANGED deliveryVars
  BY <1>1 DEF LearnMac, Refreshes, burstVars, deliveryVars
<1>3. /\ e \in Learned /\ e.entry \in had[e.elan] /\ Tail(ring) \in Seq(Learned)
      /\ \A k \in 1 .. Len(Tail(ring)) : Tail(ring)[k].entry \in had[Tail(ring)[k].elan]
  BY <1>1, <1>2, TailsAreLearned DEF ControlInv, LearnedType, LearnedInv
<1>4. had' = had /\ Watched /\ (LeafType' /\ TablesType' /\ WordsInv' /\ HadInv')
  <2>1. CASE Refreshes(e)
    BY <1>2, <1>3, <2>1, RefreshKeepsTables, RefreshIsWatched DEF OnlyFibs
  <2>2. CASE UNCHANGED seen /\ TablesUnchanged
    BY <1>2, <2>2, SameTables, SameIsWatched DEF TablesUnchanged
  <2> QED
    BY <1>2, <2>1, <2>2
<1>5. LearnedType' /\ LearnedInv'
  BY <1>2, <1>3, <1>4 DEF ControlInv, LearnedType, LearnedInv
<1>6. BurstType' /\ BurstInv'
  BY <1>2 DEF LoopsInv, BurstType, BurstInv, Posting
<1>7. FloodUse'
  BY <1>2, <1>4, FloodUseStays
<1>8. CachesInv'
  BY <1>2, <1>4, WatchedKeepsCaches DEF LoopsInv
<1> QED
  BY <1>2, <1>4, <1>5, <1>6, <1>7, <1>8, SameDelivery DEF ControlInv, LoopsInv

(***************************************************************************)
(* Where the packets are.                                                  *)
(***************************************************************************)
LEMMA PeekHasNoFlood ==
  ASSUME LoopsInv, loop.pc \in {"peek", "idle"}
  PROVE  flood.pc = "none" /\ flood = NoFlood /\ flood.consumed = FALSE
<1>1. flood.pc = "none"
  BY DEF LoopsInv, BurstType, Flood, BurstInv, Posting
<1> QED
  BY <1>1 DEF LoopsInv, BurstInv, NoFlood

\* Steps that give no packet away.
LEMMA FateStays ==
  ASSUME LoopsInv, FateInv, UNCHANGED <<fate, posted, flood>>, loop'.nr_mbufs = loop.nr_mbufs,
         loop' = loop \/ flood.consumed = FALSE
  PROVE  FateInv'
<1>1. \A k : Given(k)' <=> Given(k)
  BY DEF Given, Waiting
<1> QED
  BY <1>1 DEF FateInv

LEMMA RxKeepsFate ==
  ASSUME LoopsInv, Receives
  PROVE  FateInv'
<1>1. PICK i \in Ifaces, n \in 1 .. MaxBurst : \E mbufs \in [1 .. n -> PacketsOf(i)] :
        RxBurst(i, mbufs)
  BY DEF Receives
<1>2. PICK mbufs \in [1 .. n -> PacketsOf(i)] : RxBurst(i, mbufs)
  BY <1>1
<1>3. n \in Nat /\ Len(mbufs) = n
  <2>1. n \in Nat
    BY BurstAssumption
  <2>2. \A k \in 1 .. n : mbufs[k] \in PacketsOf(i)
    BY <1>2
  <2> QED
    BY <2>1, LenProperties
<1>4. /\ Receive(n) /\ fate' = [k \in 1 .. n |-> 0] /\ flood' = flood
  BY <1>2, <1>3 DEF RxBurst
<1>5. loop'.nr_mbufs = n /\ posted' = <<>> /\ loop.pc = "idle"
  BY <1>4 DEF Receive, NoBurst
<1>6. flood.consumed = FALSE
  BY <1>5, PeekHasNoFlood
<1>7. \A k \in 1 .. n : ~Given(k)'
  BY <1>4, <1>5, <1>6 DEF Given
<1> QED
  BY <1>4, <1>5, <1>6, <1>7 DEF FateInv

LEMMA FloodKeepsFate ==
  ASSUME ControlInv, LoopsInv, FloodUse, FateInv, BeginFlood \/ FloodPort
  PROVE  FateInv'
<1>1. CASE BeginFlood
  <2>1. flood.pc = "none" /\ fate' = fate /\ flood'.consumed = FALSE
        /\ UNCHANGED <<loop, posted>>
    BY <1>1, BeginFloodStep DEF FloodStep, Reads, deliveryVars
  <2>2. flood.consumed = FALSE
    BY <2>1 DEF LoopsInv, BurstInv, NoFlood
  <2>3. \A k : Given(k)' <=> Given(k)
    BY <2>1, <2>2 DEF Given
  <2> QED
    BY <2>1, <2>3 DEF FateInv
<1>2. CASE FloodPort
  <2>1. /\ Flooding /\ Passes /\ NextPort \in Port \cup {None} /\ Posting
        /\ UNCHANGED <<loop, posted>>
    BY <1>2, FloodPortStep DEF FloodStep, Reads, deliveryVars
  <2>2. /\ flood.nr_port \in Nat /\ flood.nr_ports \in Nat /\ flood.nr_port < flood.nr_ports
        /\ flood.consumed \in BOOLEAN
    BY <2>1 DEF Flooding, LoopsInv, BurstType, Flood
  <2>3. flood.consumed = FALSE
    BY <2>2 DEF FateInv
  <2>4. \A k \in 1 .. loop.nr_mbufs : fate[k] = IF k <= Len(posted) THEN 1 ELSE 0
    BY <2>3 DEF FateInv, Given
  <2>5. /\ Waiting' = Waiting
        /\ \A k \in 1 .. loop.nr_mbufs : k \in Waiting => ~(k <= Len(posted))
    BY <2>1, WaitingBounds DEF LoopsInv, Waiting
  <2>6. CASE IsLast
    <3>1. /\ flood'.consumed = TRUE /\ fate' = Disposed /\ flood'.nr_ports = flood.nr_ports
          /\ flood'.nr_port = flood.nr_port + 1 /\ flood.nr_port + 1 >= flood.nr_ports
      BY <2>1, <2>6 DEF Passes, IsLast, Goes
    <3>2. \A k \in 1 .. loop.nr_mbufs : fate'[k] = IF k \in Waiting THEN fate[k] + 1 ELSE fate[k]
      BY <3>1, DisposedType DEF LoopsInv
    <3>3. ASSUME NEW k \in 1 .. loop.nr_mbufs
          PROVE  fate'[k] = IF k <= Len(posted) \/ k \in Waiting THEN 1 ELSE 0
      BY <2>4, <2>5, <3>2
    <3>4. \A k : Given(k)' <=> k <= Len(posted) \/ k \in Waiting
      BY <2>1, <2>5, <3>1 DEF Given
    <3> QED
      BY <2>1, <3>1, <3>3, <3>4 DEF FateInv
  <2>7. CASE ~IsLast
    <3>1. flood'.consumed = FALSE /\ fate' = fate
      BY <2>1, <2>3, <2>7 DEF Passes
    <3>2. \A k : Given(k)' <=> Given(k)
      BY <2>1, <2>3, <3>1 DEF Given
    <3> QED
      BY <2>1, <3>1, <3>2 DEF FateInv
  <2> QED
    BY <2>6, <2>7
<1> QED
  BY <1>1, <1>2

\* What waits is given away once it is posted, if no flood has done so.
LEMMA PostKeepsFate ==
  ASSUME ControlInv, LoopsInv, FloodUse, FateInv, PostAtOnce \/ FloodNowhere \/ FloodEnd
  PROVE  FateInv'
<1>1. Post /\ flood' = NoFlood
  BY DEF PostAtOnce, FloodNowhere, FloodEnd, Posted
<1>2. DeliveryInv /\ Posting
  BY <1>1 DEF LoopsInv, Post
<1>3. Len(posted') = loop.current /\ loop'.nr_mbufs = loop.nr_mbufs
  BY <1>1, <1>2, PostedSoFar
<1>4. /\ loop.current \in Nat /\ Len(posted) \in Nat /\ Len(posted) <= loop.current
      /\ \A k \in Nat : k \in Waiting <=> k > Len(posted) /\ k <= loop.current
  BY <1>2, WaitingBounds
<1>5. \/ fate' = Disposed /\ flood.consumed = FALSE
      \/ fate' = fate /\ flood.consumed = TRUE
  <2>1. flood.consumed \in BOOLEAN /\ flood.pc \in {"none", "ports"}
    BY DEF LoopsInv, BurstType, Flood
  <2>2. flood.pc = "none" => flood.consumed = FALSE
    BY DEF LoopsInv, BurstInv, NoFlood
  <2>3. CASE PostAtOnce
    BY <2>1, <2>2, <2>3 DEF PostAtOnce, FloodUse
  <2>4. CASE FloodNowhere
    BY <2>2, <2>4 DEF FloodNowhere
  <2>5. CASE FloodEnd
    BY <2>1, <2>5 DEF FloodEnd
  <2> QED
    BY <2>3, <2>4, <2>5
<1>6. ASSUME NEW k \in 1 .. loop.nr_mbufs PROVE fate'[k] = IF k <= loop.current THEN 1 ELSE 0
  <2>0. k \in Nat /\ (k \in Waiting <=> k > Len(posted) /\ k <= loop.current)
    BY <1>4
  <2>1. CASE fate' = Disposed /\ flood.consumed = FALSE
    <3>1. fate'[k] = IF k \in Waiting THEN fate[k] + 1 ELSE fate[k]
      BY <2>1, DisposedType DEF LoopsInv
    <3>2. fate[k] = IF k <= Len(posted) THEN 1 ELSE 0
      BY <2>1 DEF FateInv, Given
    <3> QED
      BY <1>4, <2>0, <3>1, <3>2
  <2>2. CASE fate' = fate /\ flood.consumed = TRUE
    <3>1. fate[k] = IF k <= Len(posted) \/ k \in Waiting THEN 1 ELSE 0
      BY <2>2 DEF FateInv, Given
    <3> QED
      BY <1>4, <2>0, <2>2, <3>1
  <2> QED
    BY <1>5, <2>1, <2>2
<1>7. flood'.consumed = FALSE
  BY <1>1 DEF NoFlood
<1>8. \A k : Given(k)' <=> k <= loop.current
  BY <1>3, <1>7 DEF Given
<1> QED
  BY <1>3, <1>6, <1>7, <1>8 DEF FateInv

(***************************************************************************)
(* The inductive invariant.                                                *)
(***************************************************************************)
Kept == ControlInv /\ LoopsInv /\ CachesInv /\ FloodUse /\ FateInv

LEMMA LookupsKeep ==
  ASSUME Kept, LookupVlan \/ LookupLabel \/ LookupMac \/ Crash \/ Decide \/ EndOfPackets
  PROVE  Kept'
<1>1. ControlInv' /\ LoopsInv' /\ CachesInv'
  BY LookupVlanKeeps, LookupLabelKeeps, LookupMacKeeps, CrashKeeps, DecideKeeps,
     EndOfPacketsKeeps DEF Kept
<1>2. /\ loop.pc = "peek" /\ UNCHANGED <<fate, posted, flood>>
      /\ loop'.nr_mbufs = loop.nr_mbufs
  <2>1. CASE LookupVlan \/ LookupLabel
    BY <2>1 DEF LookupVlan, LookupLabel, Store, MayPeek, Reads, deliveryVars
  <2>2. CASE LookupMac \/ Crash
    BY <2>2 DEF LookupMac, Crash, MayDecide, MayPeek, Reads, deliveryVars
  <2>3. CASE Decide
    BY <2>3 DEF Decide, Proceed, MayDecide, MayPeek, Reads, Kept, LoopsInv, DeliveryInv, LoopType
  <2>4. CASE EndOfPackets
    BY <2>4 DEF EndOfPackets, Drain, NoBurst, Reads, Kept, LoopsInv, DeliveryInv, LoopType
  <2> QED
    BY <2>1, <2>2, <2>3, <2>4
<1>3. flood.pc = "none" /\ flood.consumed = FALSE
  BY <1>2, PeekHasNoFlood DEF Kept
<1>4. FateInv'
  BY <1>2, <1>3, FateStays DEF Kept
<1>5. FloodUse'
  BY <1>2, <1>3 DEF FloodUse
<1> QED
  BY <1>1, <1>4, <1>5 DEF Kept

LEMMA ControlKeepsAll ==
  ASSUME Kept, ControlStep
  PROVE  Kept'
<1>1. UNCHANGED <<loop, decided, posted, burst, cache, mcache, learned, flood, fate, via, crashed,
                  ring>>
      /\ UNCHANGED deliveryVars
  BY DEF ControlStep, burstVars, deliveryVars
<1>2. ControlInv' /\ CachesInv'
  BY ControlKeepsControl, ControlKeepsCaches DEF Kept, LoopsInv
<1>3. BurstType' /\ BurstInv'
  BY <1>1 DEF Kept, LoopsInv, BurstType, BurstInv, Posting
<1>4. FateInv'
  BY <1>1, FateStays DEF Kept
<1>5. FloodUse'
  <2>1. CASE flood.pc = "ports"
    <3>1. PICK l \in ELans : l = flood.elan /\ InUse(l)
      BY <2>1 DEF Kept, LoopsInv, BurstInv, FloodUse
    <3>2. burst # Nobody
      BY <2>1 DEF Kept, LoopsInv, BurstInv, Posting
    <3>3. InUse(l)'
      BY <3>1, <3>2, InUseStays DEF Kept, ControlInv
    <3>4. LatestIdentifier' = LatestIdentifier
      BY <1>1 DEF LatestIdentifier
    <3> QED
      BY <1>1, <2>1, <3>1, <3>3, <3>4 DEF Kept, FloodUse, InUse
  <2> QED
    BY <1>1, <2>1 DEF FloodUse
<1> QED
  BY <1>1, <1>2, <1>3, <1>4, <1>5, SameDelivery DEF Kept, LoopsInv

LEMMA StillKeeps ==
  ASSUME Kept, UNCHANGED allVars
  PROVE  Kept'
<1>1. /\ UNCHANGED <<loop, decided, posted, burst, cache, mcache, learned, flood, fate, via, crashed,
                     ring>>
      /\ UNCHANGED deliveryVars /\ UNCHANGED <<waits, seen>> /\ TablesUnchanged
  BY DEF allVars, burstVars, deliveryVars, TablesUnchanged
<1>2. Watched
  BY <1>1, SameIsWatched
<1>3. ControlInv'
  BY <1>1, SameTables DEF Kept, ControlInv
<1>4. BurstType' /\ BurstInv'
  BY <1>1 DEF Kept, LoopsInv, BurstType, BurstInv, Posting
<1>5. CachesInv' /\ FloodUse'
  BY <1>1, <1>2, WatchedKeepsCaches, FloodUseStays DEF Kept, LoopsInv
<1>6. FateInv'
  BY <1>1, FateStays DEF Kept
<1> QED
  BY <1>1, <1>3, <1>4, <1>5, <1>6, SameDelivery DEF Kept, LoopsInv

LEMMA NextKeeps == Kept /\ [ForwardingNext]_allVars => Kept'
<1> SUFFICES ASSUME Kept, [ForwardingNext]_allVars PROVE Kept'
  OBVIOUS
<1>1. CASE UNCHANGED allVars
  BY <1>1, StillKeeps
<1>2. CASE ~crashed /\ Receives
  BY <1>2, RxKeeps, RxKeepsFate DEF Kept
<1>3. CASE LookupVlan \/ LookupLabel \/ LookupMac \/ Crash \/ Decide \/ EndOfPackets
  BY <1>3, LookupsKeep
<1>4. CASE PostAtOnce \/ FloodNowhere \/ FloodEnd
  BY <1>4, PostAtOnceKeeps, PostKeepsFate DEF Kept
<1>5. CASE BeginFlood \/ FloodPort
  <2>1. FateInv'
    BY <1>5, FloodKeepsFate DEF Kept
  <2>2. FloodStep
    BY <1>5, BeginFloodStep, FloodPortStep DEF Kept
  <2> QED
    BY <2>1, <2>2, FloodStepKeeps DEF Kept
<1>6. CASE UpdateMac
  <2>1. UNCHANGED <<fate, posted, flood, loop>>
    BY <1>6 DEF UpdateMac, deliveryVars
  <2>2. FateInv'
    BY <2>1, FateStays DEF Kept
  <2> QED
    BY <1>6, <2>2, UpdateMacKeeps DEF Kept
<1>7. CASE EndOfBurst
  <2>1. UNCHANGED <<fate, posted, flood, loop>>
    BY <1>7 DEF EndOfBurst, deliveryVars
  <2>2. FateInv'
    BY <2>1, FateStays DEF Kept
  <2> QED
    BY <1>7, <2>2, EndOfBurstKeeps DEF Kept
<1>8. ASSUME NEW t \in Threads, LearnMac(t) PROVE Kept'
  <2>1. UNCHANGED <<fate, posted, flood, loop>>
    BY <1>8 DEF LearnMac, burstVars, deliveryVars
  <2>2. FateInv'
    BY <2>1, FateStays DEF Kept
  <2> QED
    BY <1>8, <2>2, LearnMacKeeps DEF Kept
<1>9. CASE ControlStep
  BY <1>9, ControlKeepsAll
<1>10. \/ UNCHANGED allVars \/ (~crashed /\ Receives) \/ BurstStep
       \/ (\E t \in Threads : LearnMac(t)) \/ ControlStep
  BY ForwardingCases
<1> QED
  BY <1>1, <1>2, <1>3, <1>4, <1>5, <1>6, <1>7, <1>8, <1>9, <1>10 DEF BurstStep

(***************************************************************************)
(* The beginning: services, VLANs and labels are set up, nothing moves.    *)
(***************************************************************************)
LabelsBoundTo(x) ==
  {c \in Cbps : \E b \in Labels : InitLabels[c][b] # None /\ InitLabels[c][b].service = x}
InitCount(x) == Cardinality(PortsBoundTo(x)) + Cardinality(LabelsBoundTo(x))
FirstELan(l, path, fib) ==
  [is_valid |-> TRUE, ports |-> InitPorts[l], multicast_NHLFE |-> None,
   nhlfes |-> [k \in NhlfeSlots |-> IF k = 0 THEN path ELSE None],
   fib |-> fib[l], ref_cnt |-> InitCount(ELanService(l))]
FirstPort(s) ==
  IF PortsBoundTo(ELineService(s)) = {} THEN None
  ELSE CHOOSE p \in PortsBoundTo(ELineService(s)) : TRUE
FirstELine(s, path) ==
  [port |-> FirstPort(s), nhlfe |-> path, ref_cnt |-> InitCount(ELineService(s))]

LEMMA InitTables ==
  ASSUME ForwardingInit
  PROVE  \E path \in Nhlfe, fib \in InitFibs :
           /\ \A l \in ELans, mac \in Macs : fib[l][mac] \in Nhlfe => fib[l][mac] = path
           /\ elan = [l \in ELans |-> FirstELan(l, path, fib)]
           /\ eline = [s \in ELines |-> FirstELine(s, path)]
           /\ nexthop = [h \in Nexthops |->
                IF h # path.NHLFE THEN 0 ELSE Cardinality(ELines) + Cardinality(ELans)]
BY DEF ForwardingInit, FirstELan, FirstELine, FirstPort, InitCount, LabelsBoundTo

LEMMA PortsBoundAreFinite ==
  ASSUME NEW x \in Services
  PROVE  /\ PortsBoundTo(x) \subseteq Port /\ IsFiniteSet(PortsBoundTo(x))
         /\ IsFiniteSet(LabelsBoundTo(x)) /\ InitCount(x) \in Nat
<1>1. PortsBoundTo(x) \subseteq Port
  BY DEF PortsBoundTo
<1>2. IsFiniteSet(PortsBoundTo(x))
  <2>1. ASSUME NEW s \in ELines, x = ELineService(s) PROVE IsFiniteSet(PortsBoundTo(x))
    <3>1. \A p, q \in PortsBoundTo(x) : p = q
      BY <2>1, InitAssumption
    <3>2. CASE PortsBoundTo(x) = {}
      BY <3>2, FS_EmptySet
    <3>3. CASE PortsBoundTo(x) # {}
      <4>1. PICK p : p \in PortsBoundTo(x)
        BY <3>3
      <4>2. PortsBoundTo(x) = {p}
        BY <3>1, <4>1
      <4> QED
        BY <4>2, FS_Singleton
    <3> QED
      BY <3>2, <3>3
  <2>2. ASSUME NEW l \in ELans, x = ELanService(l) PROVE IsFiniteSet(PortsBoundTo(x))
    <3>1. PortsBoundTo(x) = {InitPorts[l][k] : k \in PortSlots} \ {None}
      BY <2>2, InitAssumption
    <3>2. IsFiniteSet(PortSlots)
      <4>1. 0 \in Int /\ MAX_PORTS_IN_E_LAN_SERVICE - 1 \in Int
        BY SizesAssumption
      <4> QED
        BY <4>1, FS_Interval DEF PortSlots
    <3>3. IsFiniteSet({InitPorts[l][k] : k \in PortSlots})
      <4>1. PICK f, T : f = InitPorts[l] /\ T = {InitPorts[l][k] : k \in PortSlots}
        OBVIOUS
      <4>2. f \in [PortSlots -> T]
        <5>1. f \in [PortSlots -> Port \cup {None}]
          BY <4>1, InitAssumption
        <5> QED
          BY <4>1, <5>1
      <4>3. f \in Surjection(PortSlots, T)
        BY <4>1, <4>2 DEF Surjection
      <4> QED
        BY <3>2, <4>1, <4>3, FS_Surjection
    <3> QED
      BY <3>1, <3>3, FS_Subset
  <2> QED
    BY <2>1, <2>2, ServicesSplit
<1>3. IsFiniteSet(LabelsBoundTo(x))
  <2>1. LabelsBoundTo(x) \subseteq Cbps
    BY DEF LabelsBoundTo
  <2> QED
    BY <2>1, FS_Subset, LeafAssumption
<1> QED
  BY <1>1, <1>2, <1>3, FS_CardinalityType DEF InitCount

LEMMA InitTablesType ==
  ASSUME ForwardingInit
  PROVE  /\ TablesTypeOK
         /\ \A l \in ELans : elan[l] # Free /\ elan[l].is_valid = TRUE
         /\ \A s \in ELines : eline[s] # Free
<1>1. PICK path \in Nhlfe, fib \in InitFibs :
        /\ elan = [l \in ELans |-> FirstELan(l, path, fib)]
        /\ eline = [s \in ELines |-> FirstELine(s, path)]
        /\ nexthop = [h \in Nexthops |->
             IF h # path.NHLFE THEN 0 ELSE Cardinality(ELines) + Cardinality(ELans)]
  BY InitTables
<1>2. ASSUME NEW l \in ELans PROVE FirstELan(l, path, fib) \in ELan
  <2>1. InitPorts[l] \in [PortSlots -> Port \cup {None}]
    BY InitAssumption
  <2>2. fib[l] \in [Macs -> Port \cup Nhlfe \cup {None}]
    <3>1. fib \in [ELans -> [Macs -> Port \cup Nhlfe \cup {None}]]
      BY InitAssumption
    <3> QED
      BY <3>1
  <2>3. InitCount(ELanService(l)) \in Nat
    BY PortsBoundAreFinite, ServicesSplit
  <2>4. PICK ns : ns = [k \in NhlfeSlots |-> IF k = 0 THEN path ELSE None]
    OBVIOUS
  <2>5. ns \in [NhlfeSlots -> Nhlfe \cup {None}]
    BY <2>4
  <2> QED
    BY <2>1, <2>2, <2>3, <2>4, <2>5 DEF FirstELan, ELan
<1>3. ASSUME NEW s \in ELines PROVE FirstELine(s, path) \in ELine
  <2>1. FirstPort(s) \in Port \cup {None}
    BY PortsBoundAreFinite, ServicesSplit DEF FirstPort
  <2>2. InitCount(ELineService(s)) \in Nat
    BY PortsBoundAreFinite, ServicesSplit
  <2> QED
    BY <2>1, <2>2 DEF FirstELine, ELine
<1>4. Cardinality(ELines) + Cardinality(ELans) \in 0 .. NexthopRefModulus - 1
  <2>1. /\ MAX_E_LINE_SERVICES - 1 \in Int /\ MAX_E_LAN_SERVICES - 1 \in Int /\ 0 \in Int
        /\ MAX_E_LINE_SERVICES \in Nat /\ MAX_E_LAN_SERVICES \in Nat
        /\ NexthopRefModulus \in Nat
        /\ MAX_E_LINE_SERVICES + MAX_E_LAN_SERVICES < NexthopRefModulus
    BY SizesAssumption, CapacityAssumption
  <2>2. Cardinality(ELines) = MAX_E_LINE_SERVICES
    BY <2>1, FS_Interval DEF ELines
  <2>3. Cardinality(ELans) = MAX_E_LAN_SERVICES
    BY <2>1, FS_Interval DEF ELans
  <2> QED
    BY <2>1, <2>2, <2>3
<1>5. nexthop \in [Nexthops -> 0 .. NexthopRefModulus - 1 \cup {Free}]
  <2>1. 0 \in 0 .. NexthopRefModulus - 1
    BY SizesAssumption
  <2> QED
    BY <1>1, <1>4, <2>1
<1>6. elan \in [ELans -> ELan \cup {Free}] /\ eline \in [ELines -> ELine \cup {Free}]
  BY <1>1, <1>2, <1>3
<1>7. \A l \in ELans : elan[l] # Free /\ elan[l].is_valid = TRUE
  BY <1>1, <1>2, FreeAssumption DEF FirstELan
<1>8. \A s \in ELines : eline[s] # Free
  BY <1>1, <1>3, FreeAssumption
<1> QED
  BY <1>5, <1>6, <1>7, <1>8 DEF TablesTypeOK

LEMMA InitControl == ForwardingInit => ControlInv
<1> SUFFICES ASSUME ForwardingInit PROVE ControlInv
  OBVIOUS
<1>1. /\ state = [i \in Ifaces |-> "up"] /\ vlans = InitVlans /\ labels = InitLabels
      /\ call = [a \in Processes |-> Idle] /\ rcu = <<>>
      /\ learned = <<>> /\ ring = <<>> /\ had = [l \in ELans |-> Entries(l)]
      /\ local \in [Nexthops -> Cbps]
      /\ words = [c \in Cbps |-> [b \in Labels |->
           IF InitLabels[c][b] # None THEN InitLabels[c][b]
           ELSE [service |-> ELineService(0), egress |-> None]]]
  BY DEF ForwardingInit, Processes
<1>2. TablesTypeOK /\ \A l \in ELans : elan[l] # Free
  BY InitTablesType
<1>3. Idle \in Call /\ ~Working(Idle)
  BY DEF Idle, Call, Pc, Working, OnVlan, OnLabel
<1>4. TypeOK
  BY <1>1, <1>2, <1>3, InitAssumption DEF TypeOK, Call, Processes
<1>5. CallsInv /\ Exclusive
  BY <1>1 DEF CallsInv, Exclusive, Idle
<1>6. RcuInv
  BY <1>1 DEF RcuInv, Distinct, InQueue, Processes
<1>7. EntriesTyped
  BY <1>2, EntriesAreTyped
<1>8. TablesType
  <2>1. [service |-> ELineService(0), egress |-> None] \in LabelEntry
    <3>1. 0 \in ELines
      BY SizesAssumption, CapacityAssumption DEF ELines
    <3> QED
      BY <3>1, ServicesSplit DEF LabelEntry
  <2>2. \A c \in Cbps, b \in Labels : InitLabels[c][b] \in LabelEntry \cup {None}
    BY InitAssumption
  <2>3. words \in [Cbps -> [Labels -> LabelEntry]]
    BY <1>1, <2>1, <2>2
  <2>4. had \in [ELans -> SUBSET Entry]
    BY <1>1, <1>2, <1>7 DEF EntriesTyped
  <2> QED
    BY <1>1, <2>3, <2>4 DEF TablesType
<1>9. WordsInv
  BY <1>1 DEF WordsInv
<1>10. HadInv
  <2>1. PICK path \in Nhlfe, fib \in InitFibs :
          /\ \A l \in ELans, mac \in Macs : fib[l][mac] \in Nhlfe => fib[l][mac] = path
          /\ elan = [l \in ELans |-> FirstELan(l, path, fib)]
    BY InitTables
  <2>2. ASSUME NEW l \in ELans
        PROVE  /\ elan[l].ports = InitPorts[l] /\ elan[l].fib = fib[l]
               /\ \A k \in NhlfeSlots : elan[l].nhlfes[k] = IF k = 0 THEN path ELSE None
    BY <2>1 DEF FirstELan
  <2>3. ASSUME NEW l \in ELans, NEW p \in PortsBoundTo(ELanService(l)) PROVE p \in Entries(l)
    <3>1. PICK k \in PortSlots : InitPorts[l][k] = p /\ p # None
      BY InitAssumption
    <3> QED
      BY <1>2, <2>2, <3>1, EntriesAre
  <2>4. ASSUME NEW l \in ELans PROVE path \in Entries(l)
    <3>1. 0 \in NhlfeSlots
      BY SizesAssumption, CapacityAssumption DEF NhlfeSlots
    <3>2. elan[l].nhlfes[0] = path /\ path # None
      BY <2>2, <3>1, FreeAssumption
    <3> QED
      BY <1>2, <3>1, <3>2, EntriesAre
  <2>5. ASSUME NEW l \in ELans, NEW mac \in Macs
        PROVE  elan[l].fib[mac] \in Entries(l) \cup {None}
    <3>1. fib[l][mac] \in Port \cup Nhlfe \cup {None}
      <4>1. fib \in [ELans -> [Macs -> Port \cup Nhlfe \cup {None}]]
        BY InitAssumption
      <4> QED
        BY <4>1
    <3>2. fib[l][mac] \in Port => fib[l][mac] \in PortsBoundTo(ELanService(l))
      BY InitAssumption
    <3> QED
      BY <2>1, <2>2, <2>3, <2>4, <3>1, <3>2
  <2>6. ASSUME NEW p \in Port, NEW l \in ELans, vlans[p.iface][p.vlan_tci] = ELanService(l)
        PROVE  p \in Entries(l)
    BY <1>1, <2>3, <2>6 DEF PortsBoundTo
  <2> QED
    BY <1>1, <2>5, <2>6 DEF HadInv
<1>11. LearnedType /\ LearnedInv
  BY <1>1 DEF LearnedType, LearnedInv
<1> QED
  BY <1>4, <1>5, <1>6, <1>8, <1>9, <1>10, <1>11 DEF ControlInv, LeafType

LEMMA InitKept == ForwardingInit => Kept
<1> SUFFICES ASSUME ForwardingInit PROVE Kept
  OBVIOUS
<1>1. /\ DeliveryInit /\ burst = Nobody /\ cache = NoCache /\ mcache = NoMac /\ learned = <<>>
      /\ flood = NoFlood /\ fate = <<>> /\ via = <<>> /\ crashed = FALSE
  BY DEF ForwardingInit
<1>2. loop.pc = "idle" /\ loop.nr_mbufs = 0 /\ decided = <<>>
  BY <1>1 DEF DeliveryInit, NoBurst
<1>3. flood.pc = "none" /\ flood.consumed = FALSE
  BY <1>1 DEF NoFlood
<1>4. BurstType
  BY <1>1, <1>2, NothingIsTyped, NoFloodIsTyped DEF BurstType
<1>5. BurstInv
  BY <1>1, <1>2, <1>3 DEF BurstInv
<1>6. CacheInv /\ MacInv /\ ViaInv
  <2>1. EntryHolds(NoEntry)
    BY DEF EntryHolds, NoEntry
  <2> QED
    BY <1>1, <2>1 DEF CacheInv, NoCache, MacInv, NoMac, ViaInv
<1>7. FateInv /\ FloodUse /\ OnlyRebindingCrashes
  BY <1>1, <1>2, <1>3 DEF FateInv, FloodUse, OnlyRebindingCrashes
<1> QED
  BY <1>1, <1>4, <1>5, <1>6, <1>7, InitControl, LoopInit DEF Kept, LoopsInv, CachesInv

LEMMA KeptHolds == ForwardingSpec => []Kept
<1>1. ForwardingInit => Kept
  BY InitKept
<1>2. Kept /\ [ForwardingNext]_allVars => Kept'
  BY NextKeeps
<1> QED
  BY <1>1, <1>2, PTL DEF ForwardingSpec

\* Each packet of a burst is given to a ring or freed once, floods by copies and
\* the packets themselves to the last port included, whatever calls run beside
\* (csp_process_input_iface, cbp_process_input_iface, and the slow paths
\* _csp_multicast_forward_slow_path and _cbp_multicast_forward_slow_path).
THEOREM LeafPacketsAreConserved == ForwardingSpec => []PacketsAreConserved
<1>1. Kept => PacketsAreConserved
  <2> SUFFICES ASSUME Kept PROVE PacketsAreConserved
    OBVIOUS
  <2>1. DOMAIN fate = 1 .. loop.nr_mbufs
    BY DEF Kept, LoopsInv, BurstType
  <2>2. /\ Len(posted) \in Nat /\ loop.nr_mbufs \in Nat
        /\ Len(posted) <= loop.nr_mbufs
    <3>1. /\ loop \in LoopType /\ LoopInv /\ PostedAsDecided
          /\ decided \in Seq(Decisions) /\ posted \in Seq(Nat \X Decisions)
      BY DeliveryInvImplies DEF Kept, LoopsInv, DeliveryInv
    <3>2. /\ Len(posted) \in Nat /\ Len(decided) \in Nat /\ loop.nr_mbufs \in Nat
          /\ Len(posted) <= Len(decided)
      BY <3>1 DEF LoopType, PostedAsDecided
    <3>3. Len(decided) <= loop.nr_mbufs
      BY <3>1, <3>2 DEF LoopType, LoopInv
    <3> QED
      BY <3>2, <3>3
  <2>3. \A k \in 1 .. loop.nr_mbufs : fate[k] = IF Given(k) THEN 1 ELSE 0
    BY DEF Kept, FateInv
  <2>4. \A k \in 1 .. Len(posted) : k \in 1 .. loop.nr_mbufs /\ Given(k)
    BY <2>2 DEF Given
  <2> QED
    BY <2>1, <2>3, <2>4 DEF PacketsAreConserved
<1> QED
  BY <1>1, KeptHolds, PTL

\* A packet is sent by unicast only where its E-LAN has or had a port or path,
\* or where an earlier packet to the same address was sent in the burst: no
\* order of learning, purging and releasing lets E-LANs reach each other
\* (csp_process_input_iface, find_mac_entry and the caches of the burst).
THEOREM UnicastIsOfELan == ForwardingSpec => []UnicastStaysInELan
<1>1. Kept => UnicastStaysInELan
  <2> SUFFICES ASSUME Kept, NEW k \in DOMAIN via, burst # Nobody, via[k] # None,
                      seen \cap {"vlan", "label"} = {}
               PROVE  LET p == burst.mbufs[k]
                      IN  \/ \E l \in ELansOf(p) : via[k] \in had[l]
                          \/ \E j \in 1 .. k - 1 : burst.mbufs[j].dst = p.dst
                                     /\ ELansOf(burst.mbufs[j]) # ELansOf(p)
    BY DEF UnicastStaysInELan
  <2>1. k \in 1 .. Len(via)
    BY DEF Kept, LoopsInv, BurstType
  <2>2. PICK j \in 1 .. k : LookedUp(j, burst.mbufs[k].dst, via[k])
    BY <2>1 DEF Kept, CachesInv, ViaInv
  <2>3. PICK l \in ELansOf(burst.mbufs[j]) : via[k] \in had[l]
    BY <2>2 DEF LookedUp
  <2>4. CASE ELansOf(burst.mbufs[j]) = ELansOf(burst.mbufs[k])
    BY <2>3, <2>4
  <2>5. CASE ELansOf(burst.mbufs[j]) # ELansOf(burst.mbufs[k])
    <3>1. j \in 1 .. k - 1
      BY <2>1, <2>2, <2>5
    <3> QED
      BY <2>2, <2>5, <3>1 DEF LookedUp
  <2> QED
    BY <2>4, <2>5
<1> QED
  BY <1>1, KeptHolds, PTL

\* What was seen in one E-LAN is never learned in another, although it waits in
\* the cache of a burst and in the ring of the learning node while services are
\* deleted and registered (update_mac_learning_cache,
\* mac_learning_node_process_func).
THEOREM AddressesStayInELan == ForwardingSpec => []LearnsWhereSeen
<1>1. Kept => LearnsWhereSeen
  BY DEF Kept, ControlInv, HadInv, LearnsWhereSeen, FindELan
<1> QED
  BY <1>1, KeptHolds, PTL

\* Whatever calls run beside a burst, an input node uses a null pointer only if
\* a label it has cached is bound anew during the burst (cbp_process_input_iface
\* reads the kind of the service again).
THEOREM RebindingAloneCrashes == ForwardingSpec => []OnlyRebindingCrashes
<1>1. Kept => OnlyRebindingCrashes
  BY DEF Kept, CachesInv
<1> QED
  BY <1>1, KeptHolds, PTL

\* The packets of a burst of a leaf are posted once, in order and by their own
\* decision (proceed_mbuf, flush_pending_mbuf).
THEOREM LeafPostsAsDecided == ForwardingSpec => []PostedAsDecided
<1>1. Kept => PostedAsDecided
  BY DeliveryInvImplies DEF Kept, LoopsInv
<1> QED
  BY <1>1, KeptHolds, PTL

(***************************************************************************)
(* What a flood has passed.                                                *)
(***************************************************************************)
SamePortsOf(l) == elan[l] # Free /\ elan'[l] # Free /\ elan'[l].ports = elan[l].ports

LEMMA PortsAreSlots ==
  ASSUME TablesTypeOK, NEW l \in ELans, elan[l] # Free
  PROVE  elan[l].ports \in [PortSlots -> Port \cup {None}]
BY DEF TablesTypeOK, ELan

\* A port is no path.
LEMMA PortsAreNoPaths == Port \cap Nhlfe = {}
<1> SUFFICES ASSUME NEW p \in Port, p \in Nhlfe PROVE FALSE
  OBVIOUS
<1>1. "iface" \in DOMAIN p
  BY DEF Port
<1>2. "iface" \notin DOMAIN p
  BY DEF Nhlfe
<1> QED
  BY <1>1, <1>2

\* No call or callback puts a port in a second slot.
LEMMA SlotsStay ==
  ASSUME TablesTypeOK, TablesTypeOK', NEW l \in ELans, PortsKeep(l), OneSlot(l)
  PROVE  OneSlot(l)'
<1>1. CASE SamePorts(l)
  BY <1>1 DEF SamePorts, OneSlot
<1>2. ASSUME NEW k \in PortSlots, DropsPort(l, k) PROVE OneSlot(l)'
  <2>1. elan[l] # Free /\ elan[l].ports \in [PortSlots -> Port \cup {None}]
    BY <1>2, PortsAreSlots DEF DropsPort, FindELan
  <2> QED
    BY <1>2, <2>1 DEF DropsPort, OneSlot
<1>3. ASSUME NEW k \in PortSlots, NEW p \in Port, AddsPort(l, k, p) PROVE OneSlot(l)'
  <2>1. elan[l] # Free /\ elan[l].ports \in [PortSlots -> Port \cup {None}]
    BY <1>3, PortsAreSlots DEF AddsPort, FindELan
  <2> QED
    BY <1>3, <2>1 DEF AddsPort, OneSlot
<1>4. CASE NoPort(l)
  BY <1>4 DEF NoPort, OneSlot
<1>5. CASE elan[l] # Free /\ elan'[l] # Free /\ elan'[l].ports = elan[l].ports
  BY <1>5 DEF OneSlot
<1>6. CASE elan'[l] = Free
  BY <1>6 DEF OneSlot
<1> QED
  BY <1>1, <1>2, <1>3, <1>4, <1>5, <1>6 DEF PortsKeep, FindELan

\* The slots stay while the ports and paths of the E-LAN are the same.
LEMMA PortsSeenStay ==
  ASSUME TablesTypeOK, TablesTypeOK', NEW l \in ELans, PortsKeep(l), OneSlot(l),
         elan[l] # Free, elan'[l] # Free, Entries(l)' = Entries(l)
  PROVE  SamePortsOf(l)
<1>1. elan[l].ports \in [PortSlots -> Port \cup {None}]
  BY PortsAreSlots
<1>2. elan[l].nhlfes \in [NhlfeSlots -> Nhlfe \cup {None}]
      /\ elan'[l].nhlfes \in [NhlfeSlots -> Nhlfe \cup {None}]
  BY DEF TablesTypeOK, ELan
<1>3. Entries(l) = ({elan[l].ports[j] : j \in PortSlots}
                      \cup {elan[l].nhlfes[j] : j \in NhlfeSlots}) \ {None}
  BY DEF Entries
<1>4. Entries(l)' = ({elan'[l].ports[j] : j \in PortSlots}
                       \cup {elan'[l].nhlfes[j] : j \in NhlfeSlots}) \ {None}
  BY DEF Entries
<1>5. ASSUME NEW k \in PortSlots, DropsPort(l, k) PROVE FALSE
  <2>1. PICK p \in Port : p = elan[l].ports[k]
    BY <1>1, <1>5 DEF DropsPort
  <2>2. \A j \in PortSlots : elan'[l].ports[j] # p
    <3>1. p # None
      BY <2>1, <1>5 DEF DropsPort
    <3> SUFFICES ASSUME NEW j \in PortSlots, elan'[l].ports[j] = p PROVE FALSE
      OBVIOUS
    <3>2. j # k
      BY <1>1, <1>5, <3>1 DEF DropsPort
    <3>3. elan[l].ports[j] = p
      BY <1>1, <1>5, <3>2 DEF DropsPort
    <3> QED
      BY <2>1, <3>1, <3>2, <3>3 DEF OneSlot
  <2>3. \A j \in NhlfeSlots : elan'[l].nhlfes[j] # p
    <3>1. p # None
      BY <2>1, <1>5 DEF DropsPort
    <3> QED
      BY <1>2, <3>1, PortsAreNoPaths
  <2>4. p \in Entries(l)
    BY <1>3, <1>5, <2>1 DEF DropsPort
  <2> QED
    BY <1>4, <2>2, <2>3, <2>4
<1>6. ASSUME NEW k \in PortSlots, NEW p \in Port, AddsPort(l, k, p) PROVE FALSE
  <2>1. elan'[l].ports[k] = p /\ p # None
    BY <1>1, <1>6, FreeAssumption DEF AddsPort
  <2>2. \A j \in NhlfeSlots : elan[l].nhlfes[j] # p
    BY <1>2, <2>1, PortsAreNoPaths
  <2>3. p \in Entries(l)'
    BY <1>4, <2>1
  <2> QED
    BY <1>3, <1>6, <2>2, <2>3 DEF AddsPort
<1> QED
  BY <1>5, <1>6 DEF PortsKeep, SamePorts, SamePortsOf

LEMMA FilledIsFinite == \A l \in ELans : IsFiniteSet(Filled(l)) /\ Filled(l) \subseteq PortSlots
<1>1. IsFiniteSet(PortSlots)
  <2>1. 0 \in Int /\ MAX_PORTS_IN_E_LAN_SERVICE - 1 \in Int
    BY SizesAssumption
  <2> QED
    BY <2>1, FS_Interval DEF PortSlots
<1> QED
  BY <1>1, FS_Subset DEF Filled

\* A step that leaves the flood, the interfaces and the slots alone leaves alone
\* what the flood has passed.
LEMMA FloodSeesStays ==
  ASSUME NEW l \in ELans, FloodSees(l), SamePortsOf(l), UNCHANGED <<flood, burst, state>>,
         LatestIdentifier' = LatestIdentifier
  PROVE  FloodSees(l)'
<1>1. Filled(l)' = Filled(l) /\ \A k : elan'[l].ports[k] = elan[l].ports[k]
  BY DEF Filled, FreePortSlots, SamePortsOf
<1>2. \A p : Own(p)' = Own(p) /\ IsUp(p.iface)' = IsUp(p.iface)
  BY DEF Own, AtCsp, IsUp
<1> QED
  BY <1>1, <1>2 DEF FloodSees

\* A flood that begins has passed nothing.
LEMMA FirstSees ==
  ASSUME NEW l \in ELans, flood'.port_id = 0, flood'.nr_port = 0, flood'.sent = {},
         flood'.nr_ports = Cardinality(Filled(l)), elan' = elan
  PROVE  FloodSees(l)'
<1>1. {k \in Filled(l) : k < 0} = {}
  BY SizesAssumption DEF Filled, PortSlots
<1>2. Cardinality({}) = 0
  BY FS_EmptySet
<1>3. Filled(l)' = Filled(l)
  BY DEF Filled, FreePortSlots
<1> QED
  BY <1>1, <1>2, <1>3 DEF FloodSees

LEMMA NextSees ==
  ASSUME NEW l \in ELans, NEW k \in PortSlots, FloodSees(l), SamePortsOf(l),
         l = flood.elan, k = flood.port_id, Passes, NextPort \in Port \cup {None},
         UNCHANGED <<burst, state>>, LatestIdentifier' = LatestIdentifier
  PROVE  FloodSees(l)'
<1>1. Filled(l)' = Filled(l) /\ \A j : elan'[l].ports[j] = elan[l].ports[j]
  BY DEF Filled, FreePortSlots, SamePortsOf
<1>2. \A p : Own(p)' = Own(p) /\ IsUp(p.iface)' = IsUp(p.iface)
  BY DEF Own, AtCsp, IsUp
<1>3. PICK before : before = {j \in Filled(l) : j < k}
  OBVIOUS
<1>4. PICK after : after = {j \in Filled(l) : j < k + 1}
  OBVIOUS
<1>5. k \in Int /\ Filled(l) \subseteq Int
  BY SizesAssumption DEF Filled, PortSlots
<1>6. PICK port \in Port \cup {None} : port = NextPort /\ port = elan[l].ports[k]
  BY DEF NextPort
<1>7. k \in Filled(l) <=> port # None
  BY <1>6 DEF Filled, FreePortSlots
<1>8. after = IF port = None THEN before ELSE before \cup {k}
  BY <1>3, <1>4, <1>5, <1>7
<1>9. IsFiniteSet(before) /\ k \notin before
  BY <1>3, <1>5, FilledIsFinite, FS_Subset
<1>10. flood'.nr_port = Cardinality(after)
  <2>1. flood.nr_port = Cardinality(before) /\ Cardinality(before) \in Nat
    BY <1>3, <1>9, FS_CardinalityType DEF FloodSees
  <2>2. Cardinality(before \cup {k}) = Cardinality(before) + 1
    BY <1>9, FS_AddElement
  <2> QED
    BY <1>6, <1>8, <2>1, <2>2 DEF Passes
<1>11. flood'.sent = {p \in Port : /\ \E j \in after : elan[l].ports[j] = p
                                   /\ ~Own(p) /\ IsUp(p.iface)}
  <2>1. flood.sent = {p \in Port : /\ \E j \in before : elan[l].ports[j] = p
                                   /\ ~Own(p) /\ IsUp(p.iface)}
    BY <1>3 DEF FloodSees
  <2>2. CASE port = None
    BY <1>6, <1>8, <2>1, <2>2 DEF Passes, Goes
  <2>3. CASE port # None /\ ~Goes
    <3>1. Own(port) \/ ~IsUp(port.iface)
      BY <1>6, <2>3 DEF Goes
    <3> QED
      BY <1>6, <1>8, <2>1, <2>3, <3>1 DEF Passes
  <2>4. CASE port # None /\ Goes
    <3>1. ~Own(port) /\ IsUp(port.iface) /\ port \in Port
      BY <1>6, <2>4 DEF Goes
    <3> QED
      BY <1>6, <1>8, <2>1, <2>4, <3>1 DEF Passes
  <2> QED
    BY <2>2, <2>3, <2>4
<1>12. flood'.port_id = k + 1 /\ flood'.nr_ports = Cardinality(Filled(l))
  BY DEF Passes, FloodSees
<1> QED
  BY <1>1, <1>2, <1>4, <1>10, <1>11, <1>12 DEF FloodSees

\* A flood that has ended has passed every slot that is filled.
LEMMA EndSees ==
  ASSUME NEW l \in ELans, FloodSees(l), l = flood.elan, flood.pc = "ports", ~Flooding,
         flood \in Flood
  PROVE  {k \in Filled(l) : k < flood.port_id} = Filled(l)
<1>1. flood.port_id \in Nat /\ Filled(l) \subseteq PortSlots /\ IsFiniteSet(Filled(l))
  BY FilledIsFinite DEF Flood
<1>2. CASE flood.port_id \notin PortSlots
  BY <1>1, <1>2, SizesAssumption DEF PortSlots
<1>3. CASE ~(flood.nr_port < flood.nr_ports)
  <2>1. PICK passed : passed = {k \in Filled(l) : k < flood.port_id}
    OBVIOUS
  <2>2. IsFiniteSet(passed) /\ passed \subseteq Filled(l)
    BY <1>1, <2>1, FS_Subset
  <2>3. Cardinality(passed) \in Nat /\ Cardinality(Filled(l)) \in Nat
    BY <1>1, <2>2, FS_CardinalityType
  <2>4. ~(Cardinality(passed) < Cardinality(Filled(l)))
    BY <1>3, <2>1 DEF FloodSees
  <2>5. passed = Filled(l)
    BY <1>1, <2>2, <2>3, <2>4, FS_Subset
  <2> QED
    BY <2>1, <2>5
<1> QED
  BY <1>2, <1>3 DEF Flooding

\* What a flood depends on is as before.
PortsRest ==
  /\ state' = state /\ seen \subseteq seen'
  /\ \A l \in ELans : (elan'[l] = Free <=> elan[l] = Free) /\ (elan[l] # Free => SamePortsOf(l))

LEMMA BurstRests ==
  ASSUME Kept, BurstStep \/ \E t \in Threads : LearnMac(t)
  PROVE  PortsRest
<1>1. ASSUME NEW e \in Learned, Refreshes(e) PROVE PortsRest
  <2>1. OnlyFibs
    BY <1>1, RefreshIsOnlyFibs DEF Kept, ControlInv, LeafType, TypeOK
  <2> QED
    BY <2>1 DEF OnlyFibs, PortsRest, SamePortsOf, ports
<1>2. CASE TablesUnchanged
  <2>1. seen' = seen
    <3>1. CASE LookupVlan \/ LookupLabel \/ LookupMac \/ Crash \/ Decide \/ EndOfPackets
      BY <3>1 DEF LookupVlan, LookupLabel, LookupMac, Crash, Decide, EndOfPackets, Reads, Store
    <3>2. CASE PostAtOnce \/ BeginFlood \/ FloodNowhere \/ FloodPort \/ FloodEnd \/ EndOfBurst
      BY <3>2 DEF PostAtOnce, BeginFlood, FloodNowhere, FloodPort, FloodEnd, EndOfBurst, Posted, Reads
    <3>3. CASE UpdateMac \/ \E t \in Threads : LearnMac(t)
      BY <3>3 DEF UpdateMac, LearnMac, SetFib
    <3> QED
      BY <3>1, <3>2, <3>3 DEF BurstStep
  <2> QED
    BY <1>2, <2>1 DEF TablesUnchanged, PortsRest, SamePortsOf, vars, tables, ports
<1>3. CASE InUpdate /\ UpdateMac /\ Refreshes(Head(learned))
  BY <1>1, <1>3, TailsAreLearned DEF InUpdate, Kept, ControlInv, LearnedType, LearnedInv
<1>4. CASE ring # <<>> /\ Refreshes(Head(ring))
  BY <1>1, <1>4, TailsAreLearned DEF Kept, ControlInv, LearnedType, LearnedInv
<1> QED
  BY <1>2, <1>3, <1>4, BurstKeepsTables

LEMMA FloodRests ==
  ASSUME FloodUse, FloodInv, PortsRest, UNCHANGED <<flood, burst, loop, decided>>
  PROVE  FloodInv'
<1> SUFFICES ASSUME NEW l \in ELans, flood'.pc = "ports", flood'.elan = l, seen' = {}
             PROVE  FloodSees(l)'
  BY DEF FloodInv
<1>1. elan[l] # Free /\ FloodSees(l)
  BY DEF FloodUse, InUse, FloodInv, PortsRest
<1>2. LatestIdentifier' = LatestIdentifier
  BY DEF LatestIdentifier
<1> QED
  BY <1>1, <1>2, FloodSeesStays DEF PortsRest

LEMMA ControlKeepsFlood ==
  ASSUME Kept, Kept', SlotsInv, FloodInv, ControlStep
  PROVE  SlotsInv' /\ FloodInv'
<1>1. LeafType /\ TablesTypeOK /\ TablesTypeOK'
  BY DEF Kept, ControlInv, LeafType, TypeOK
<1>2. \A l \in ELans : PortsKeep(l)
  BY <1>1, NextEffects DEF ControlStep, ELanEffects
<1>3. SlotsInv'
  <2> SUFFICES ASSUME NEW l \in ELans PROVE OneSlot(l)'
    BY DEF SlotsInv
  <2> QED
    BY <1>1, <1>2, SlotsStay DEF SlotsInv
<1>4. FloodInv'
  <2> SUFFICES ASSUME NEW l \in ELans, flood'.pc = "ports", flood'.elan = l, seen' = {}
               PROVE  FloodSees(l)'
    BY DEF FloodInv
  <2>1. UNCHANGED <<flood, burst, loop, decided>>
    BY DEF ControlStep, burstVars, deliveryVars
  <2>2. elan[l] # Free
    BY <2>1 DEF Kept, FloodUse, InUse
  <2>9. elan'[l] # Free
    BY <2>1 DEF Kept, FloodUse, InUse
  <2>3. burst # Nobody /\ Watch
    BY <2>1 DEF Kept, LoopsInv, BurstInv, Posting, ControlStep
  <2>4. seen = {} /\ state' = state /\ Entries(l)' = Entries(l)
    BY <2>3, SeenTells
  <2>5. SamePortsOf(l)
    BY <1>1, <1>2, <2>2, <2>4, <2>9, PortsSeenStay DEF SlotsInv
  <2>6. FloodSees(l)
    BY <2>1, <2>2, <2>4 DEF FloodInv
  <2>7. LatestIdentifier' = LatestIdentifier
    BY <2>1 DEF LatestIdentifier
  <2> QED
    BY <2>1, <2>4, <2>5, <2>6, <2>7, FloodSeesStays
<1> QED
  BY <1>3, <1>4

LEMMA SlotsRest ==
  ASSUME SlotsInv, PortsRest
  PROVE  SlotsInv'
BY DEF SlotsInv, OneSlot, PortsRest, SamePortsOf

\* A flood that begins, and the ports that it goes on to.
LEMMA BeginKeepsFlood ==
  ASSUME Kept, BeginFlood
  PROVE  FloodInv'
<1>1. /\ flood'.sent = {} /\ flood'.nr_port = 0 /\ flood'.port_id = 0
      /\ flood'.nr_ports = Cardinality(Filled(flood'.elan)) /\ flood'.elan \in ELans
      /\ TablesUnchanged
  BY BeginFloodStep DEF Kept, FloodStep, Reads
<1>2. elan' = elan
  BY <1>1 DEF TablesUnchanged, vars, tables
<1> QED
  BY <1>1, <1>2, FirstSees DEF FloodInv

LEMMA PortKeepsFlood ==
  ASSUME Kept, FloodInv, FloodPort
  PROVE  FloodInv'
<1>1. /\ FloodStep /\ Flooding /\ Passes /\ flood.elan \in ELans /\ elan[flood.elan] # Free
      /\ NextPort \in Port \cup {None}
  BY FloodPortStep DEF Kept
<1>2. UNCHANGED <<burst, loop, decided, state, elan, seen>>
  BY <1>1 DEF FloodStep, Reads, deliveryVars, TablesUnchanged, vars, tables, ports
<1>3. LatestIdentifier' = LatestIdentifier
  BY <1>2 DEF LatestIdentifier
<1> SUFFICES ASSUME NEW l \in ELans, flood'.elan = l, seen' = {}
             PROVE  FloodSees(l)'
  BY DEF FloodInv
<1>4. l = flood.elan /\ flood.pc = "ports" /\ SamePortsOf(l)
  BY <1>1, <1>2 DEF Passes, Flooding, SamePortsOf
<1>5. FloodSees(l)
  BY <1>2, <1>4 DEF FloodInv
<1>6. PICK k \in PortSlots : k = flood.port_id
  BY <1>1 DEF Flooding
<1> QED
  BY <1>1, <1>2, <1>3, <1>4, <1>5, <1>6, NextSees

LEMMA BurstKeepsFlood ==
  ASSUME Kept, SlotsInv, FloodInv, BurstStep \/ \E t \in Threads : LearnMac(t)
  PROVE  SlotsInv' /\ FloodInv'
<1>1. PortsRest /\ SlotsInv'
  BY BurstRests, SlotsRest
<1>2. CASE LookupVlan \/ LookupLabel \/ LookupMac \/ Crash \/ Decide \/ EndOfPackets
  <2>1. flood' = flood /\ loop.pc = "peek"
    <3>1. CASE LookupVlan \/ LookupLabel
      BY <3>1 DEF LookupVlan, LookupLabel, Store, MayPeek, Reads
    <3>2. CASE LookupMac \/ Crash
      BY <3>2 DEF LookupMac, Crash, MayDecide, MayPeek, Reads
    <3>3. CASE Decide \/ EndOfPackets
      BY <3>3 DEF Decide, EndOfPackets, Proceed, MayDecide, MayPeek, Drain, Reads
    <3> QED
      BY <1>2, <3>1, <3>2, <3>3
  <2> QED
    BY <1>1, <2>1, PeekHasNoFlood DEF Kept, FloodInv
<1>3. CASE PostAtOnce \/ FloodNowhere \/ FloodEnd
  BY <1>1, <1>3 DEF PostAtOnce, FloodNowhere, FloodEnd, Posted, NoFlood, FloodInv
<1>4. CASE BeginFlood
  BY <1>1, <1>4, BeginKeepsFlood
<1>5. CASE FloodPort
  BY <1>1, <1>5, PortKeepsFlood
<1>6. CASE UpdateMac \/ EndOfBurst
  <2>1. flood' = flood /\ loop.pc = "idle"
    BY <1>6 DEF UpdateMac, InUpdate, EndOfBurst
  <2> QED
    BY <1>1, <2>1, PeekHasNoFlood DEF Kept, FloodInv
<1>7. CASE \E t \in Threads : LearnMac(t)
  <2>1. UNCHANGED <<flood, burst, loop, decided>>
    BY <1>7 DEF LearnMac, burstVars, deliveryVars
  <2> QED
    BY <1>1, <2>1, FloodRests DEF Kept
<1> QED
  BY <1>1, <1>2, <1>3, <1>4, <1>5, <1>6, <1>7 DEF BurstStep

LEMMA FloodKept ==
  Kept /\ Kept' /\ SlotsInv /\ FloodInv /\ [ForwardingNext]_allVars => SlotsInv' /\ FloodInv'
<1> SUFFICES ASSUME Kept, Kept', SlotsInv, FloodInv, [ForwardingNext]_allVars
             PROVE  SlotsInv' /\ FloodInv'
  OBVIOUS
<1>1. CASE UNCHANGED allVars
  <2>1. UNCHANGED <<elan, state, seen, flood, burst, loop, decided>>
    BY <1>1 DEF allVars, vars, tables, ports, burstVars, deliveryVars
  <2>2. PortsRest
    BY <2>1 DEF PortsRest, SamePortsOf
  <2> QED
    BY <2>1, <2>2, SlotsRest, FloodRests DEF Kept
<1>2. CASE ~crashed /\ Receives
  <2>1. TablesUnchanged /\ flood' = flood /\ loop.pc = "idle"
    BY <1>2 DEF Receives, RxBurst, Kept, LoopsInv, BurstInv
  <2>2. SlotsInv'
    BY <2>1 DEF TablesUnchanged, vars, tables, SlotsInv, OneSlot
  <2> QED
    BY <2>1, <2>2, PeekHasNoFlood DEF Kept, FloodInv
<1>3. CASE BurstStep \/ \E t \in Threads : LearnMac(t)
  BY <1>3, BurstKeepsFlood
<1>4. CASE ControlStep
  BY <1>4, ControlKeepsFlood
<1> QED
  BY <1>1, <1>2, <1>3, <1>4, ForwardingCases

LEMMA FloodBegins == ForwardingInit => SlotsInv /\ FloodInv
<1> SUFFICES ASSUME ForwardingInit PROVE SlotsInv /\ FloodInv
  OBVIOUS
<1>1. FloodInv
  BY DEF ForwardingInit, NoFlood, FloodInv
<1>2. PICK path \in Nhlfe, fib \in InitFibs : elan = [l \in ELans |-> FirstELan(l, path, fib)]
  BY InitTables
<1>3. \A l \in ELans : elan[l].ports = InitPorts[l]
  BY <1>2 DEF FirstELan
<1> QED
  BY <1>1, <1>3, InitAssumption DEF SlotsInv, OneSlot

\* What a flood has sent to, when it has passed all slots: no port is missed
\* because of a hole in the array or because the count of ports was read before; if
\* mbufs run out, a port is sent fewer copies, or none
\* (_csp_multicast_forward_slow_path, _cbp_multicast_forward_slow_path).
THEOREM FloodsReachAllPorts == ForwardingSpec => []FloodReachesOtherPorts
<1>1. Kept /\ FloodInv => FloodReachesOtherPorts
  <2> SUFFICES ASSUME Kept, FloodInv, flood.pc = "ports", ~Flooding, seen = {}
               PROVE  flood.sent = {p \in Port : /\ \E k \in PortSlots : elan[flood.elan].ports[k] = p
                                                 /\ IsUp(p.iface)
                                                 /\ AtCsp => p # [iface |-> burst.iface,
                                                                  vlan_tci |-> LatestIdentifier[2]]}
    BY DEF FloodReachesOtherPorts
  <2>1. PICK l \in ELans : l = flood.elan /\ FloodSees(l) /\ elan[l] # Free
    BY DEF Kept, LoopsInv, BurstInv, FloodInv, FloodUse, InUse
  <2>2. {k \in Filled(l) : k < flood.port_id} = Filled(l)
    BY <2>1, EndSees DEF Kept, LoopsInv, BurstType
  <2>3. \A p \in Port : (\E k \in Filled(l) : elan[l].ports[k] = p)
                          <=> (\E k \in PortSlots : elan[l].ports[k] = p)
    BY FreeAssumption DEF Filled, FreePortSlots
  <2> QED
    BY <2>1, <2>2, <2>3 DEF FloodSees, Own
<1>2. Kept /\ SlotsInv /\ FloodInv /\ Kept' /\ [ForwardingNext]_allVars => SlotsInv' /\ FloodInv'
  BY FloodKept
<1> QED
  BY <1>1, <1>2, KeptHolds, FloodBegins, PTL DEF ForwardingSpec
=============================================================================

-------------------------- MODULE MCLeafForwarding --------------------------
(* What the runs of LeafForwarding begin with. *)
EXTENDS LeafForwarding, TLC

\* Interfaces and MAC addresses by name, so that bindings can tell them apart.
CONSTANTS p0, p1, b0, m1

\* VLAN 1 of both customer ports and label 1 are E-LAN 0; VLAN 0 of the first
\* port is E-LAN 1; VLAN 0 of the other and label 0 are E-LINE 0.
MCVlans ==
  (p0 :> (0 :> ELanService(1) @@ 1 :> ELanService(0)))
    @@ (p1 :> (0 :> ELineService(0) @@ 1 :> ELanService(0)))
MCPath == CHOOSE n \in Nhlfe : TRUE
MCLabels ==
  b0 :> (0 :> [service |-> ELineService(0), egress |-> None]
         @@ 1 :> [service |-> ELanService(0), egress |-> [slot |-> 0, path |-> MCPath]])

MCPort(i, v) == [iface |-> i, vlan_tci |-> v]

\* A port between those of E-LAN 0 was deleted.
MCPorts ==
  0 :> (0 :> MCPort(p0, 1) @@ 1 :> None @@ 2 :> MCPort(p1, 1))
    @@ 1 :> (0 :> MCPort(p0, 0) @@ 1 :> None @@ 2 :> None)

\* What the E-LANs know of the one address: a port of E-LAN 0 and nothing in the
\* other, or the backbone and a port.
MCFibs ==
  {[l \in ELans |-> [mac \in Macs |-> IF mac = m1 THEN e[l + 1] ELSE None]] :
     e \in {<<MCPort(p1, 1), None>>, <<MCPath, MCPort(p0, 0)>>}}
=============================================================================

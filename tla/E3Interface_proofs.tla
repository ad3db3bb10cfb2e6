-------------------------- MODULE E3Interface_proofs --------------------------
EXTENDS E3Interface, FiniteSetTheorems, TLAPS

(***************************************************************************)
(* Nodes and types.                                                        *)
(***************************************************************************)
\* A callback that is not queued waits for nobody.
LEMMA NotQueuedIsRest ==
  \A h \in RcuHead : ~h.queued /\ h.readers = {} => h = NotQueued
BY DEF RcuHead, NotQueued

OwnNodes(i) == {Input(i), Output(i)}
Live(i) == iface_mem[i] = "live"

\* The nodes of interfaces are pairs, but nothing below looks into them.
LEMMA NodesSplit ==
  /\ \A i \in Ifaces : /\ Input(i) \in Nodes /\ Output(i) \in Nodes
                       /\ Input(i)[1] = i /\ Output(i)[1] = i
                       /\ Input(i)[2] = "input" /\ Output(i)[2] = "output"
  /\ \A i, j \in Ifaces : /\ Input(i) # Output(j)
                          /\ Input(i) = Input(j) => i = j
                          /\ Output(i) = Output(j) => i = j
  /\ \A n \in Nodes : n[1] \in Ifaces /\ n \in OwnNodes(n[1])
BY DEF Input, Output, Nodes, OwnNodes

LEMMA NoneIsNoNode ==
  None \notin Ifaces /\ None \notin Nodes /\ None \notin LCores /\ None \notin Ports
BY NoneAssumption

LEMMA PairIsFinite == ASSUME NEW x, NEW y PROVE IsFiniteSet({x, y})
<1>1. IsFiniteSet({x})  BY FS_Singleton
<1>2. IsFiniteSet({x} \cup {y})  BY <1>1, FS_AddElement
<1>3. {x} \cup {y} = {x, y}  OBVIOUS
<1> QED BY <1>2, <1>3

\* TypeOK without the load of lcores, which LoadInv counts.
Types ==
  /\ iface_mem \in [Ifaces -> Memory] /\ node_mem \in [Nodes -> Memory]
  /\ port_id \in [Ifaces -> Ports \cup {None}]
  /\ peer_port_id \in [Ifaces -> Ports] /\ has_peer_device \in [Ifaces -> BOOLEAN]
  /\ global_e3iface_array \in [Ports -> Ifaces \cup {None}]
  /\ gnode_array \in [0 .. NrNodes - 1 -> Nodes \cup {None}]
  /\ node_index \in [Nodes -> 0 .. NrNodes - 1]
  /\ lcore_id \in [Nodes -> LCores \cup {None}]
  /\ attached_io_nodes \in [LCores -> Int]
  /\ lcore_task_list \in [LCores -> Nodes \cup {None}]
  /\ next \in [Nodes -> Nodes \cup {None}] /\ linked \subseteq Nodes
  /\ iface_rcu \in [Ifaces -> RcuHead] /\ node_rcu \in [Nodes -> RcuHead]
  /\ at \in [LCores -> Nodes \cup {None}]
  /\ pif \in [LCores -> Ifaces \cup {None}]
  /\ peer_if \in [LCores -> Ifaces \cup {None}]
  /\ api \in [at : Steps, iface : Ifaces \cup {None}, other : Ifaces \cup {None},
              slow_path : BOOLEAN]

LEMMA HeadTypes ==
  /\ NotQueued \in RcuHead /\ CallRcu \in RcuHead
  /\ CallRcu.queued /\ CallRcu.readers = Reading
  /\ ~NotQueued.queued /\ NotQueued.readers = {}
BY DEF NotQueued, CallRcu, RcuHead, Reading, Readers

UnusedInv ==
  \A i \in Ifaces : iface_mem[i] = "unused" =>
    /\ port_id[i] = None /\ iface_rcu[i] = NotQueued
    /\ \A n \in OwnNodes(i) :
         node_mem[n] = "unused" /\ node_rcu[n] = NotQueued /\ n \notin linked /\ next[n] = None

LiveInv ==
  \A i \in Ifaces : Live(i) =>
    /\ port_id[i] \in Ports
    /\ \A n \in OwnNodes(i) :
         /\ node_mem[n] = "live" /\ node_rcu[n] = NotQueued
         /\ gnode_array[node_index[n]] = n /\ lcore_id[n] \in LCores

FreedInv ==
  \A i \in Ifaces : iface_mem[i] = "freed" =>
    iface_rcu[i] = NotQueued /\ \A n \in OwnNodes(i) : n \notin linked

QueuedInv ==
  \A i \in Ifaces :
    IF iface_rcu[i].queued
    THEN Live(i) /\ ~Published(i) /\ (\A n \in OwnNodes(i) : n \notin linked)
         /\ iface_rcu[i].readers \subseteq Reading
    ELSE iface_rcu[i].readers = {}

NodeRcuInv ==
  \A n \in Nodes :
    IF node_rcu[n].queued THEN node_rcu[n].readers \subseteq Reading
    ELSE node_rcu[n].readers = {}

PublishedInv ==
  \A p \in Ports : \A i \in Ifaces : global_e3iface_array[p] = i => Live(i) /\ port_id[i] = p

PortsInv == \A i, j \in Ifaces : Live(i) /\ Live(j) /\ port_id[i] = port_id[j] => i = j

Building == {"attach_input", "attach_output", "post_setup"}
Leaving == {"detach_input", "detach_output", "withdraw"}
Paired == {"correlate", "set_peers", "clear_peers"}

ApiInv ==
  /\ api.at \in Building \cup Leaving =>
       api.iface \in Ifaces /\ Live(api.iface) /\ ~iface_rcu[api.iface].queued
  /\ api.at \in Building => ~Published(api.iface)
  /\ api.at \in Paired \cup {"dissociate"} => api.iface \in Ifaces /\ Published(api.iface)
  /\ api.at \in Paired => api.other \in Ifaces
  /\ api.at = "dissociate" => api.other = None
  /\ api.other # None => Published(api.other) /\ api.other # api.iface
  /\ api.at = "attach_input" => \A n \in {Input(api.iface), Output(api.iface)} :
        n \notin linked /\ next[n] = None
  /\ api.at = "attach_output" => Input(api.iface) \in linked /\ Output(api.iface) \notin linked
  /\ api.at \in {"post_setup", "detach_input"} =>
        Input(api.iface) \in linked /\ Output(api.iface) \in linked
  /\ api.at = "detach_output" => Input(api.iface) \notin linked /\ Output(api.iface) \in linked
  /\ api.at = "withdraw" => Input(api.iface) \notin linked /\ Output(api.iface) \notin linked

StageInv ==
  \A i \in Ifaces :
    /\ Live(i) => Published(i) \/ iface_rcu[i].queued
                    \/ (api.iface = i /\ api.at \in Building \cup Leaving)
    /\ Published(i) /\ ~(api.iface = i /\ api.at \in {"detach_output", "withdraw"}) =>
         Input(i) \in linked /\ Output(i) \in linked

ListInv ==
  /\ \A l \in LCores : lcore_task_list[l] # None =>
       lcore_task_list[l] \in linked /\ lcore_id[lcore_task_list[l]] = l
  /\ \A m \in linked : next[m] # None => next[m] \in linked /\ lcore_id[next[m]] = lcore_id[m]
  /\ \A m, n \in linked : next[m] = next[n] /\ next[m] # None => m = n
  /\ \A m \in linked, l \in LCores : next[m] = lcore_task_list[l] => next[m] = None

Detaching(n) ==
  \/ api.at = "detach_output" /\ n = Input(api.iface)
  \/ api.at = "withdraw" /\ n \in OwnNodes(api.iface)

Reader(l, n) ==
  \/ l \in iface_rcu[n[1]].readers
  \/ (node_mem[n] = "freed" /\ port_id[n[1]] # None /\ l \in node_rcu[n].readers)

Safe(l, n) == n \in linked \/ Detaching(n) \/ Reader(l, n)

WalkInv ==
  /\ \A n \in Nodes : Detaching(n) /\ next[n] # None => next[n] \in linked \/ Detaching(next[n])
  /\ \A l \in LCores : at[l] # None =>
       /\ Safe(l, at[l])
       /\ \A n \in Nodes : Reader(l, n) /\ next[n] # None => Safe(l, next[n])

Found(l, i) == at[l] # None /\ (Published(i) \/ l \in iface_rcu[i].readers)
FoundInv ==
  \A l \in LCores : (pif[l] # None => Found(l, pif[l])) /\ (peer_if[l] # None => Found(l, peer_if[l]))

Mated(i, j) ==
  /\ Published(j) /\ has_peer_device[j] /\ i # j
  /\ peer_port_id[i] = port_id[j] /\ peer_port_id[j] = port_id[i]
PeersInv ==
  /\ \A i \in Ifaces : Published(i) /\ has_peer_device[i] => \E j \in Ifaces : Mated(i, j)
  /\ api.at \in Building \cup Leaving \cup {"correlate", "set_peers", "clear_peers"} =>
        ~has_peer_device[api.iface]
  /\ api.at = "dissociate" => has_peer_device[api.iface]
  /\ api.other # None /\ api.at # "return" => ~has_peer_device[api.other]
  /\ api.at = "set_peers" => peer_port_id[api.iface] = port_id[api.other] /\ peer_port_id[api.other] = port_id[api.iface]
  /\ \A i \in Ifaces : iface_mem[i] = "unused" => ~has_peer_device[i]

Inv ==
  /\ Types /\ UnusedInv /\ LiveInv /\ FreedInv /\ QueuedInv /\ NodeRcuInv
  /\ PublishedInv /\ PortsInv /\ ApiInv /\ StageInv /\ ListInv /\ WalkInv /\ FoundInv
  /\ PeersInv

LEMMA InitInv == Init => Inv
<1> SUFFICES ASSUME Init PROVE Inv  OBVIOUS
<1> USE NodesSplit, NoneIsNoNode, HeadTypes
<1>1. Types
  <2>1. Idle \in [at : Steps, iface : Ifaces \cup {None}, other : Ifaces \cup {None},
                  slow_path : BOOLEAN]
    BY DEF Idle, Steps
  <2>2. iface_mem \in [Ifaces -> Memory] /\ node_mem \in [Nodes -> Memory]
    BY DEF Init, Memory
  <2>3. gnode_array \in [0 .. NrNodes - 1 -> Nodes \cup {None}]
    BY DEF Init
  <2>4. peer_port_id \in [Ifaces -> Ports] /\ node_index \in [Nodes -> 0 .. NrNodes - 1]
    BY PortsAssumption DEF Init, Ports
  <2> QED BY <2>1, <2>2, <2>3, <2>4 DEF Types, Init
<1>2. Idle.at = "idle" /\ Idle.iface = None /\ Idle.other = None  BY DEF Idle
<1>3. \A i \in Ifaces : iface_mem[i] = "unused" /\ iface_rcu[i] = NotQueued /\ port_id[i] = None
                         /\ ~has_peer_device[i] /\ ~Published(i)
  BY DEF Init, Published
<1>4. \A n \in Nodes : node_mem[n] = "unused" /\ node_rcu[n] = NotQueued /\ n \notin linked
                       /\ next[n] = None
  BY DEF Init
<1>5. UnusedInv /\ LiveInv /\ FreedInv /\ QueuedInv /\ NodeRcuInv /\ PortsInv
  BY <1>3, <1>4 DEF UnusedInv, LiveInv, FreedInv, QueuedInv, NodeRcuInv, PortsInv, OwnNodes,
                    Live
<1>6. PublishedInv  BY DEF Init, PublishedInv
<1>7. ApiInv /\ StageInv /\ PeersInv
  BY <1>2, <1>3 DEF Init, ApiInv, StageInv, PeersInv, Building, Leaving, Paired, Live
<1>8. ListInv /\ WalkInv /\ FoundInv
  BY <1>2 DEF Init, ListInv, WalkInv, FoundInv, Detaching
<1> QED BY <1>1, <1>5, <1>6, <1>7, <1>8 DEF Inv

\* What an lcore may reach has a port.
LEMMA SafeHasPort ==
  ASSUME Inv, NEW l \in LCores, NEW n \in Nodes, Safe(l, n)
  PROVE  port_id[n[1]] \in Ports /\ iface_mem[n[1]] # "unused"
<1>0. n[1] \in Ifaces /\ n \in OwnNodes(n[1])  BY NodesSplit
<1>1. CASE n \in linked
  <2>1. iface_mem[n[1]] # "unused"  BY <1>0, <1>1 DEF Inv, UnusedInv
  <2>2. iface_mem[n[1]] # "freed"  BY <1>0, <1>1 DEF Inv, FreedInv
  <2>3. iface_mem[n[1]] \in Memory  BY <1>0 DEF Inv, Types
  <2> QED BY <2>1, <2>2, <2>3, <1>0 DEF Memory, Live, Inv, LiveInv
<1>2. CASE Detaching(n)
  <2>1. Live(n[1])  BY <1>0, <1>2, NodesSplit DEF Inv, ApiInv, Detaching, Leaving, OwnNodes
  <2> QED BY <2>1, <1>0 DEF Live, Inv, LiveInv
<1>3. CASE l \in iface_rcu[n[1]].readers
  BY <1>0, <1>3 DEF Inv, QueuedInv, LiveInv, Live
<1>4. CASE node_mem[n] = "freed" /\ port_id[n[1]] # None
  BY <1>0, <1>4 DEF Inv, UnusedInv, Types
<1> QED BY <1>1, <1>2, <1>3, <1>4 DEF Safe, Reader

(***************************************************************************)
(* The walk of an lcore.                                                   *)
(***************************************************************************)

LEMMA EnterKeepsInv == \A l \in LCores : Inv /\ Enter(l) => Inv'
<1> SUFFICES ASSUME NEW l \in LCores, Inv, Enter(l) PROVE Inv'  OBVIOUS
<1> USE NodesSplit, NoneIsNoNode
<1>1. UNCHANGED <<shared, callbacks, pif, peer_if, api>> BY DEF Enter
<1>2. /\ at' = [at EXCEPT ![l] = lcore_task_list[l]] /\ at[l] = None
      /\ lcore_task_list[l] \in linked
  BY DEF Enter, Inv, ListInv
<1>3. Types'  BY <1>1, <1>2 DEF Inv, Types, shared, callbacks, memory, fields, indices, load, lists
<1>4. Reading \subseteq Reading'
  BY <1>1, <1>2 DEF Inv, Types, Reading
<1>5. /\ UnusedInv' /\ LiveInv' /\ FreedInv' /\ PublishedInv' /\ PortsInv' /\ ApiInv'
      /\ StageInv' /\ ListInv' /\ PeersInv'
  BY <1>1 DEF Inv, shared, callbacks, memory, fields, indices, load, lists, UnusedInv, LiveInv,
    FreedInv, PublishedInv, PortsInv, ApiInv, StageInv, ListInv, PeersInv, Live, Published, Mated
<1>6. QueuedInv' /\ NodeRcuInv'
  BY <1>1, <1>4 DEF Inv, shared, callbacks, memory, fields, indices, load, lists, QueuedInv,
    NodeRcuInv, Live, Published
<1>7. \A m \in Nodes : ~Reader(l, m)
  <2>1. l \notin Reading  BY <1>2, LCoresAssumption DEF Reading
  <2> QED BY <2>1 DEF Inv, QueuedInv, NodeRcuInv, Reader
<1>8. WalkInv' 
  BY <1>1, <1>2, <1>7 DEF Inv, WalkInv, Types, shared, callbacks, memory, fields, lists, Safe, Reader,
    Detaching
<1>9. FoundInv'
  BY <1>1, <1>2 DEF Inv, FoundInv, Types, Found, shared, callbacks, Published
<1> QED BY <1>3, <1>5, <1>6, <1>8, <1>9 DEF Inv

LEMMA FindIfaceKeepsInv == \A l \in LCores : Inv /\ FindIface(l) => Inv'
<1> SUFFICES ASSUME NEW l \in LCores, Inv, FindIface(l) PROVE Inv'  OBVIOUS
<1> USE NodesSplit, NoneIsNoNode
<1>1. UNCHANGED <<shared, callbacks, at, peer_if, api>> BY DEF FindIface
<1>2. PICK i \in Ifaces : at[l] # None /\ pif' = [pif EXCEPT ![l] = i] /\ Published(i)
  <2>1. at[l][1] \in Ifaces /\ at[l] # None /\ FoundIface(l) # None
    BY DEF FindIface, Inv, Types
  <2>2. port_id[at[l][1]] \in Ports
    BY <2>1, SafeHasPort DEF Inv, Types, WalkInv
  <2> DEFINE i == global_e3iface_array[port_id[at[l][1]]]
  <2>3. i # None /\ FoundIface(l) = i  BY <2>1 DEF FoundIface
  <2>4. i \in Ifaces /\ Published(i)  BY <2>2, <2>3 DEF Inv, Types, Published
  <2> QED BY <2>1, <2>3, <2>4 DEF FindIface
<1>3. Types'  BY <1>1, <1>2 DEF Inv, Types, shared, callbacks, memory, fields, indices, load, lists
<1>4. Reading = Reading'
  BY <1>1 DEF Reading
<1>5. /\ UnusedInv' /\ LiveInv' /\ FreedInv' /\ PublishedInv' /\ PortsInv' /\ ApiInv'
      /\ StageInv' /\ ListInv' /\ PeersInv'
  BY <1>1 DEF Inv, shared, callbacks, memory, fields, indices, load, lists, UnusedInv, LiveInv,
    FreedInv, PublishedInv, PortsInv, ApiInv, StageInv, ListInv, PeersInv, Live, Published, Mated
<1>6. QueuedInv' /\ NodeRcuInv' /\ WalkInv'
  BY <1>1, <1>4 DEF Inv, shared, callbacks, memory, fields, indices, load, lists, QueuedInv,
    NodeRcuInv, Live, Published, WalkInv, Safe, Reader, Detaching
<1>9. FoundInv'
  BY <1>1, <1>2 DEF Inv, FoundInv, Types, Found, shared, callbacks, Published
<1> QED BY <1>3, <1>5, <1>6, <1>9 DEF Inv

LEMMA FindPeerKeepsInv == \A l \in LCores : Inv /\ FindPeer(l) => Inv'
<1> SUFFICES ASSUME NEW l \in LCores, Inv, FindPeer(l) PROVE Inv'  OBVIOUS
<1> USE NodesSplit, NoneIsNoNode
<1>1. UNCHANGED <<shared, callbacks, at, pif, api>> BY DEF FindPeer
<1>2. PICK i \in Ifaces : at[l] # None /\ peer_if' = [peer_if EXCEPT ![l] = i] /\ Published(i)
  <2>1. pif[l] \in Ifaces /\ at[l] # None
    BY DEF FindPeer, Inv, Types, FoundInv, Found
  <2>2. Peer(pif[l]) \in Ifaces /\ Published(Peer(pif[l]))
    BY <2>1 DEF FindPeer, Inv, Types, Published, Peer
  <2> QED BY <2>1, <2>2 DEF FindPeer
<1>3. Types'  BY <1>1, <1>2 DEF Inv, Types, shared, callbacks, memory, fields, indices, load, lists
<1>4. Reading = Reading'
  BY <1>1 DEF Reading
<1>5. /\ UnusedInv' /\ LiveInv' /\ FreedInv' /\ PublishedInv' /\ PortsInv' /\ ApiInv'
      /\ StageInv' /\ ListInv' /\ PeersInv'
  BY <1>1 DEF Inv, shared, callbacks, memory, fields, indices, load, lists, UnusedInv, LiveInv,
    FreedInv, PublishedInv, PortsInv, ApiInv, StageInv, ListInv, PeersInv, Live, Published, Mated
<1>6. QueuedInv' /\ NodeRcuInv' /\ WalkInv'
  BY <1>1, <1>4 DEF Inv, shared, callbacks, memory, fields, indices, load, lists, QueuedInv,
    NodeRcuInv, Live, Published, WalkInv, Safe, Reader, Detaching
<1>9. FoundInv'
  BY <1>1, <1>2 DEF Inv, FoundInv, Types, Found, shared, callbacks, Published
<1> QED BY <1>3, <1>5, <1>6, <1>9 DEF Inv

\* No callback waits for a reader that is gone; nothing else happens to callbacks.
Struck(gone) ==
  /\ iface_rcu' \in [Ifaces -> RcuHead] /\ node_rcu' \in [Nodes -> RcuHead]
  /\ \A i \in Ifaces : /\ iface_rcu'[i].queued = iface_rcu[i].queued
                       /\ iface_rcu'[i].readers = iface_rcu[i].readers \ gone
                       /\ iface_rcu[i] = NotQueued => iface_rcu'[i] = NotQueued
  /\ \A n \in Nodes : /\ node_rcu'[n].queued = node_rcu[n].queued
                      /\ node_rcu'[n].readers = node_rcu[n].readers \ gone
                      /\ node_rcu[n] = NotQueued => node_rcu'[n] = NotQueued

LEMMA QuiescentStateStrikes ==
  ASSUME NEW gone, NEW r, gone = {r}, Types, QuiescentState(r) PROVE Struck(gone)
<1> DEFINE Strike(h) == [h EXCEPT !.readers = @ \ {r}]
<1>1. \A h \in RcuHead : /\ Strike(h) \in RcuHead /\ Strike(h).queued = h.queued
                         /\ Strike(h).readers = h.readers \ gone
                         /\ h = NotQueued => Strike(h) = NotQueued
  <2> SUFFICES ASSUME NEW h \in RcuHead
               PROVE  /\ Strike(h) \in RcuHead /\ Strike(h).queued = h.queued
                      /\ Strike(h).readers = h.readers \ gone
                      /\ h = NotQueued => Strike(h) = NotQueued
    OBVIOUS
  <2>1. h = [queued |-> h.queued, readers |-> h.readers]  BY DEF RcuHead
  <2>2. Strike(h) = [queued |-> h.queued, readers |-> h.readers \ gone]  BY DEF RcuHead
  <2>3. Strike(h) \in RcuHead /\ Strike(h).queued = h.queued
        /\ Strike(h).readers = h.readers \ gone
    BY <2>2 DEF RcuHead
  <2>4. ASSUME h = NotQueued PROVE Strike(h) = NotQueued
    <3>1. h.queued = FALSE /\ h.readers \ gone = {}  BY <2>4 DEF NotQueued
    <3> QED BY <3>1, <2>2 DEF NotQueued
  <2> QED BY <2>3, <2>4
<1>2. \A i \in Ifaces : iface_rcu[i] \in RcuHead /\ iface_rcu'[i] = Strike(iface_rcu[i])
  BY DEF Types, QuiescentState
<1>3. \A n \in Nodes : node_rcu[n] \in RcuHead /\ node_rcu'[n] = Strike(node_rcu[n])
  BY DEF Types, QuiescentState
<1>4. iface_rcu' = [i \in Ifaces |-> iface_rcu'[i]] /\ node_rcu' = [n \in Nodes |-> node_rcu'[n]]
  BY DEF QuiescentState
<1> HIDE DEF Strike
<1>5. iface_rcu' \in [Ifaces -> RcuHead] /\ node_rcu' \in [Nodes -> RcuHead]
  BY <1>1, <1>2, <1>3, <1>4
<1> QED BY <1>1, <1>2, <1>3, <1>5 DEF Struck

LEMMA NothingStruck == Types /\ UNCHANGED callbacks => Struck({})
BY DEF Types, Struck, callbacks

\* What quiescence leaves of the facts about callbacks alone.
LEMMA StruckKeeps ==
  ASSUME Inv, NEW gone, Struck(gone), Reading' = Reading \ gone,
         UNCHANGED <<memory, fields, global_e3iface_array, indices, load, lists>>
  PROVE  UnusedInv' /\ LiveInv' /\ FreedInv' /\ QueuedInv' /\ NodeRcuInv' /\ PublishedInv'
         /\ PortsInv' /\ ListInv'
<1> USE NodesSplit, NoneIsNoNode DEF memory, fields, indices, load, lists
<1>1. UnusedInv'  BY DEF Inv, Struck, UnusedInv, OwnNodes
<1>2. LiveInv'  BY DEF Inv, Struck, LiveInv, Live, OwnNodes
<1>3. FreedInv'  BY DEF Inv, Struck, FreedInv
<1>4. PublishedInv' /\ PortsInv' /\ ListInv'
  BY DEF Inv, PublishedInv, PortsInv, ListInv, Live
<1>5. QueuedInv'
  <2>1. \A i \in Ifaces : Live(i)' = Live(i) /\ Published(i)' = Published(i)
    BY DEF Live, Published
  <2>2. \A i \in Ifaces : iface_rcu'[i].readers = iface_rcu[i].readers \ gone
                          /\ iface_rcu'[i].queued = iface_rcu[i].queued
    BY DEF Struck
  <2>3. linked' = linked  OBVIOUS
  <2> QED BY <2>1, <2>2, <2>3 DEF Inv, QueuedInv
<1>6. NodeRcuInv'  BY DEF Inv, Struck, NodeRcuInv
<1> QED BY <1>1, <1>2, <1>3, <1>4, <1>5, <1>6

LEMMA AdvanceKeepsInv == \A l \in LCores : Inv /\ Advance(l) => Inv'
<1> SUFFICES ASSUME NEW l \in LCores, Inv, Advance(l) PROVE Inv'  OBVIOUS
<1> USE NodesSplit, NoneIsNoNode
<1>1. /\ UNCHANGED <<shared, api>> /\ at[l] # None /\ at' = [at EXCEPT ![l] = next[at[l]]]
      /\ pif' = [pif EXCEPT ![l] = None] /\ peer_if' = [peer_if EXCEPT ![l] = None]
  BY DEF Advance
<1>2. \E gone : gone = (IF next[at[l]] = None THEN {l} ELSE {}) /\ Struck(gone)
  <2>1. CASE next[at[l]] = None /\ QuiescentState(l)
    BY <2>1, QuiescentStateStrikes DEF Inv
  <2>2. CASE next[at[l]] # None /\ UNCHANGED callbacks
    BY <2>2, NothingStruck DEF Inv
  <2> QED BY <2>1, <2>2 DEF Advance
<1>2a. PICK gone : gone = (IF next[at[l]] = None THEN {l} ELSE {}) /\ Struck(gone)  BY <1>2
<1>3. Types'  BY <1>1, <1>2a DEF Inv, Types, Struck, shared, memory, fields, indices, load, lists
<1>4. Reading' = Reading \ gone
  <2>1. l # Master /\ at[l] # None /\ l \in LCores  BY <1>1, LCoresAssumption
  <2>2. \A k \in LCores : at'[k] # None <=> at[k] # None /\ k \notin gone
    BY <1>1, <1>2a DEF Inv, Types
  <2> QED BY <2>1, <2>2, <1>1, <1>2a DEF Reading
<1>5. UnusedInv' /\ LiveInv' /\ FreedInv' /\ QueuedInv' /\ NodeRcuInv' /\ PublishedInv'
      /\ PortsInv' /\ ListInv'
  BY <1>1, <1>2a, <1>4, StruckKeeps DEF shared
<1>6. PeersInv'
  BY <1>1 DEF Inv, shared, memory, fields, PeersInv, Live, Published, Mated
<1>7. ApiInv'
  BY <1>1, <1>2a DEF Inv, Struck, shared, memory, lists, ApiInv, Live, Published, Leaving, Building
<1>8. StageInv'
  BY <1>1, <1>2a DEF Inv, Struck, shared, memory, lists, StageInv, Live, Published
<1>9. \A k \in LCores, n \in Nodes : at'[k] # None => (Reader(k, n)' <=> Reader(k, n))
  BY <1>1, <1>2a DEF Inv, Types, Struck, shared, memory, fields, Reader
<1>10. \A n \in Nodes : Detaching(n)' <=> Detaching(n)
  BY <1>1 DEF Detaching
<1>11. next' = next /\ linked' = linked  BY <1>1 DEF shared, lists
<1>12. \A k \in LCores : at'[k] # None => Safe(k, at'[k])
  <2> SUFFICES ASSUME NEW k \in LCores, at'[k] # None PROVE Safe(k, at'[k])  OBVIOUS
  <2>1. CASE k # l  BY <1>1, <2>1 DEF Inv, Types, WalkInv
  <2>2. CASE k = l
    <3>1. at'[l] = next[at[l]] /\ at[l] \in Nodes /\ at[l] # None /\ next[at[l]] # None
      BY <1>1, <2>2 DEF Inv, Types
    <3>2. CASE at[l] \in linked  BY <3>1, <3>2, <2>2 DEF Inv, ListInv, Safe
    <3>3. CASE Detaching(at[l])  BY <3>1, <3>3, <2>2 DEF Inv, WalkInv, Safe
    <3>4. CASE Reader(l, at[l])  BY <3>1, <3>4, <2>2 DEF Inv, WalkInv
    <3>5. Safe(l, at[l])  BY <3>1 DEF Inv, WalkInv
    <3> QED BY <3>2, <3>3, <3>4, <3>5 DEF Safe
  <2> QED BY <2>1, <2>2
<1>13. \A k \in LCores, n \in Nodes :
         at'[k] # None => at[k] # None /\ (Safe(k, n)' <=> Safe(k, n))
  BY <1>1, <1>9, <1>10, <1>11 DEF Safe, Inv, Types
<1>14. WalkInv'
  <2>1. \A n \in Nodes : next[n] \in Nodes \cup {None}  BY DEF Inv, Types
  <2>2. \A k \in LCores : at'[k] \in Nodes \cup {None}  BY <1>3 DEF Types
  <2>3. \A n \in Nodes : Detaching(n)' /\ next'[n] # None
                         => next'[n] \in linked' \/ Detaching(next[n])'
    BY <1>10, <1>11, <2>1 DEF Inv, WalkInv
  <2>4. \A k \in LCores : at'[k] # None =>
          /\ Safe(k, at'[k])
          /\ \A n \in Nodes : Reader(k, n) /\ next[n] # None => Safe(k, next[n])
    BY <1>12, <1>13 DEF Inv, WalkInv
  <2>5. \A k \in LCores, n \in Nodes : at'[k] # None /\ Safe(k, n) => Safe(k, n)'
    BY <1>13
  <2> QED BY <2>1, <2>2, <2>3, <2>4, <2>5, <1>9, <1>11 DEF WalkInv
<1>15. FoundInv'
  <2>1. \A k \in LCores, i \in Ifaces : Found(k, i) /\ k # l => Found(k, i)'
    BY <1>1, <1>2a DEF Inv, Types, Found, Struck, shared, Published
  <2>2. \A k \in LCores : k # l => pif'[k] = pif[k] /\ peer_if'[k] = peer_if[k]
    BY <1>1 DEF Inv, Types
  <2>3. pif'[l] = None /\ peer_if'[l] = None  BY <1>1 DEF Inv, Types
  <2>4. \A k \in LCores : pif[k] \in Ifaces \cup {None} /\ peer_if[k] \in Ifaces \cup {None}
    BY DEF Inv, Types
  <2> QED BY <2>1, <2>2, <2>3, <2>4 DEF Inv, FoundInv
<1> QED BY <1>3, <1>5, <1>6, <1>7, <1>8, <1>14, <1>15 DEF Inv

(***************************************************************************)
(* The steps of an API call that change the call alone.                    *)
(***************************************************************************)

\* What a step that touches neither memory, lists nor callbacks leaves alone.
LEMMA CallKeeps ==
  ASSUME Inv, UNCHANGED <<memory, port_id, global_e3iface_array, indices, lcore_id, lists,
                          callbacks, lcores>>,
         Reading \subseteq Reading'
  PROVE  /\ UnusedInv' /\ LiveInv' /\ FreedInv' /\ QueuedInv' /\ NodeRcuInv' /\ PublishedInv'
         /\ PortsInv' /\ ListInv' /\ FoundInv'
<1> USE DEF memory, indices, lists, callbacks, lcores
<1>1. UnusedInv' /\ LiveInv' /\ FreedInv' /\ PublishedInv' /\ PortsInv' /\ ListInv' /\ FoundInv'
  BY DEF Inv, UnusedInv, LiveInv, FreedInv, PublishedInv, PortsInv, ListInv, FoundInv, Live,
         Found, Published
<1>2. QueuedInv'  BY DEF Inv, QueuedInv, Live, Published
<1>3. NodeRcuInv'  BY DEF Inv, NodeRcuInv
<1> QED BY <1>1, <1>2, <1>3

LEMMA CreateE3IfaceKeepsInv == \A slow \in BOOLEAN : Inv /\ CreateE3Iface(slow) => Inv'
<1> SUFFICES ASSUME NEW slow \in BOOLEAN, Inv, CreateE3Iface(slow) PROVE Inv'  OBVIOUS
<1>1. /\ UNCHANGED <<memory, fields, global_e3iface_array, indices, load, lists, callbacks, lcores>>
      /\ api.at = "idle"
      /\ api' = [at |-> "register", iface |-> None, other |-> None, slow_path |-> slow]
  BY DEF CreateE3Iface, Idle
<1>2. Types'
  <2>1. api' \in [at : Steps, iface : Ifaces \cup {None}, other : Ifaces \cup {None},
                  slow_path : BOOLEAN]
    BY <1>1 DEF Steps
  <2> QED BY <1>1, <2>1 DEF Inv, Types, memory, fields, indices, load, lists, callbacks, lcores
<1>3. Reading \subseteq Reading'  BY <1>1 DEF Reading, lcores
<1>4. api'.at = "register" /\ api'.other = None /\ api'.iface = None  BY <1>1
<1>5. ApiInv' /\ StageInv' /\ PeersInv' /\ WalkInv'
  <2>1. ApiInv' /\ StageInv'
    BY <1>1, <1>4 DEF Inv, ApiInv, StageInv, memory, lists, callbacks, Building, Leaving, Paired,
      Live, Published
  <2>2. PeersInv'
    BY <1>1, <1>4 DEF Inv, PeersInv, memory, fields, Building, Leaving, Published, Mated
  <2>3. WalkInv'
    BY <1>1, <1>4 DEF Inv, WalkInv, memory, fields, lists, callbacks, lcores, Detaching, Safe,
      Reader
  <2> QED BY <2>1, <2>2, <2>3
<1> QED BY <1>1, <1>2, <1>3, <1>5, CallKeeps DEF Inv, fields, load

LEMMA PostSetupFailsKeepsInv == Inv /\ PostSetupFails => Inv'
<1> SUFFICES ASSUME Inv, PostSetupFails PROVE Inv'  OBVIOUS
<1>1. /\ UNCHANGED <<memory, fields, global_e3iface_array, indices, load, lists, callbacks, lcores>>
      /\ api.at = "post_setup" /\ api.other = None
      /\ api' = [api EXCEPT !.at = "detach_input"]
  BY DEF PostSetupFails
<1>2. /\ api'.at = "detach_input" /\ api'.iface = api.iface /\ api'.other = None
      /\ api' \in [at : Steps, iface : Ifaces \cup {None}, other : Ifaces \cup {None},
                   slow_path : BOOLEAN]
  BY <1>1 DEF Inv, Types, Steps
<1>3. Types'
  BY <1>1, <1>2 DEF Inv, Types, memory, fields, indices, load, lists, callbacks, lcores
<1>4. Reading' = Reading  BY <1>1, <1>2 DEF Reading, lcores
<1>5. ApiInv'
  BY <1>1, <1>2 DEF Inv, ApiInv, memory, lists, callbacks, Building, Leaving, Paired, Live,
    Published
<1>6. StageInv'
  BY <1>1, <1>2 DEF Inv, StageInv, ApiInv, memory, lists, callbacks, Building, Leaving, Live,
    Published
<1>7. PeersInv'
  BY <1>1, <1>2 DEF Inv, PeersInv, memory, fields, Building, Leaving, Published, Mated
<1>8. WalkInv'
  BY <1>1, <1>2 DEF Inv, WalkInv, memory, fields, lists, callbacks, lcores, Detaching, Safe,
    Reader
<1> QED BY <1>1, <1>3, <1>4, <1>5, <1>6, <1>7, <1>8, CallKeeps DEF Inv, fields, load

LEMMA ConfigureFailsKeepsInv == Inv /\ ConfigureFails => Inv'
<1> SUFFICES ASSUME Inv, ConfigureFails PROVE Inv'  OBVIOUS
<1>1. /\ UNCHANGED <<memory, fields, global_e3iface_array, indices, lcore_id, lists, callbacks,
                     lcores>>
      /\ api.at = "attach_input" /\ api' = [api EXCEPT !.at = "withdraw"]
  BY DEF ConfigureFails
<1>2. /\ api'.at = "withdraw" /\ api'.iface = api.iface /\ api'.other = api.other
      /\ api' \in [at : Steps, iface : Ifaces \cup {None}, other : Ifaces \cup {None},
                   slow_path : BOOLEAN]
  BY <1>1 DEF Inv, Types, Steps
<1>3. Types'
  <2>1. attached_io_nodes' \in [LCores -> Int]
    <3> DEFINE Own(l) == {n \in {Input(api.iface), Output(api.iface)} : lcore_id[n] = l}
    <3>1. ASSUME NEW l \in LCores PROVE Cardinality(Own(l)) \in Nat
      <4>1. Own(l) \in SUBSET {Input(api.iface), Output(api.iface)}  OBVIOUS
      <4>2. IsFiniteSet(Own(l))  BY <4>1, PairIsFinite, FS_Subset
      <4> QED BY <4>2, FS_CardinalityType
    <3>2. attached_io_nodes' = [l \in LCores |-> attached_io_nodes[l] - Cardinality(Own(l))]
      BY DEF ConfigureFails
    <3>3. \A l \in LCores : attached_io_nodes[l] \in Int  BY DEF Inv, Types
    <3> HIDE DEF Own
    <3>4. \A l \in LCores : attached_io_nodes[l] - Cardinality(Own(l)) \in Int  BY <3>1, <3>3
    <3> QED BY <3>2, <3>4
  <2> QED BY <1>1, <1>2, <2>1 DEF Inv, Types, memory, fields, indices, lists, callbacks, lcores
<1>4. Reading' = Reading  BY <1>1, <1>2 DEF Reading, lcores
<1>5. /\ UnusedInv' /\ LiveInv' /\ FreedInv' /\ QueuedInv' /\ NodeRcuInv' /\ PublishedInv'
      /\ PortsInv' /\ ListInv' /\ FoundInv'
  BY <1>1, <1>4, CallKeeps DEF fields
<1>6. ApiInv'
  BY <1>1, <1>2 DEF Inv, ApiInv, memory, lists, callbacks, Building, Leaving, Paired, Live,
    Published
<1>7. StageInv'
  BY <1>1, <1>2 DEF Inv, StageInv, ApiInv, memory, lists, callbacks, Building, Leaving, Live,
    Published
<1>8. PeersInv'
  BY <1>1, <1>2 DEF Inv, PeersInv, memory, fields, Building, Leaving, Published, Mated
<1>9. WalkInv'
  <2>1. \A n \in OwnNodes(api.iface) : next[n] = None  BY <1>1 DEF Inv, ApiInv, OwnNodes
  <2>2. \A n \in Nodes : ~Detaching(n) /\ (Detaching(n)' <=> n \in OwnNodes(api.iface))
    BY <1>1, <1>2 DEF Detaching
  <2>3. \A l \in LCores, n \in Nodes : Reader(l, n)' <=> Reader(l, n)
    BY <1>1 DEF Reader, memory, fields, callbacks
  <2>4. \A l \in LCores : at[l] \in Nodes \cup {None}  BY DEF Inv, Types
  <2>5. \A n \in Nodes : next[n] \in Nodes \cup {None}  BY DEF Inv, Types
  <2>6. \A l \in LCores, n \in Nodes : Safe(l, n) => Safe(l, n)'
    BY <2>2, <2>3, <1>1 DEF Safe, lists
  <2>7. at' = at /\ next' = next  BY <1>1 DEF lists, lcores
  <2>8. \A n \in Nodes : Detaching(n)' => next'[n] = None  BY <2>1, <2>2, <2>7
  <2>9. \A l \in LCores : at'[l] # None =>
          /\ Safe(l, at[l])'
          /\ \A n \in Nodes : Reader(l, n)' /\ next'[n] # None => Safe(l, next[n])'
    <3> SUFFICES ASSUME NEW l \in LCores, at'[l] # None
                 PROVE  /\ Safe(l, at[l])'
                        /\ \A n \in Nodes : Reader(l, n)' /\ next'[n] # None => Safe(l, next[n])'
      OBVIOUS
    <3>1. \A m \in Nodes : m = at[l] => Safe(l, m)'  BY <2>6, <2>7 DEF Inv, WalkInv
    <3>2. Safe(l, at[l])'  BY <3>1, <2>4, <2>7
    <3>3. ASSUME NEW n \in Nodes, Reader(l, n)', next'[n] # None PROVE Safe(l, next[n])'
      <4>1. Safe(l, next[n])  BY <3>3, <2>3, <2>7 DEF Inv, WalkInv
      <4>2. \A m \in Nodes : m = next[n] => Safe(l, m)'  BY <4>1, <2>6
      <4> QED BY <4>2, <3>3, <2>5, <2>7
    <3> QED BY <3>2, <3>3
  <2> QED BY <2>8, <2>9 DEF WalkInv
<1> QED BY <1>3, <1>5, <1>6, <1>7, <1>8, <1>9 DEF Inv

LEMMA ReclaimE3IfaceKeepsInv == \A p \in Ports : Inv /\ ReclaimE3Iface(p) => Inv'
<1> SUFFICES ASSUME NEW p \in Ports, Inv, ReclaimE3Iface(p) PROVE Inv'  OBVIOUS
<1>1. PICK i \in Ifaces :
      /\ UNCHANGED <<memory, fields, global_e3iface_array, indices, load, lists, callbacks, lcores>>
      /\ api.at = "idle" /\ global_e3iface_array[p] = i
      /\ api' = [at |-> IF has_peer_device[i] THEN "dissociate" ELSE "detach_input",
                 iface |-> i, other |-> None, slow_path |-> FALSE]
  BY DEF ReclaimE3Iface, Idle, Inv, Types
<1>2. /\ api'.at = IF has_peer_device[i] THEN "dissociate" ELSE "detach_input"
      /\ api'.iface = i /\ api'.other = None
      /\ api' \in [at : Steps, iface : Ifaces \cup {None}, other : Ifaces \cup {None},
                   slow_path : BOOLEAN]
  BY <1>1 DEF Steps
<1>3. Types'
  BY <1>1, <1>2 DEF Inv, Types, memory, fields, indices, load, lists, callbacks, lcores
<1>4. Reading \subseteq Reading'  BY <1>1, <1>2 DEF Reading, lcores
<1>5. /\ Published(i) /\ Live(i) /\ ~iface_rcu[i].queued
      /\ Input(i) \in linked /\ Output(i) \in linked
  <2>1. Published(i) /\ Live(i)  BY <1>1 DEF Published, Inv, PublishedInv
  <2> QED BY <2>1, <1>1 DEF Inv, QueuedInv, StageInv
<1>6. ApiInv' /\ StageInv'
  BY <1>1, <1>2, <1>5 DEF Inv, ApiInv, StageInv, memory, lists, callbacks, Building, Leaving,
    Paired, Live, Published
<1>7. PeersInv'
  BY <1>1, <1>2 DEF Inv, PeersInv, memory, fields, Building, Leaving, Published, Mated
<1>8. WalkInv'
  BY <1>1, <1>2 DEF Inv, WalkInv, memory, fields, lists, callbacks, lcores, Detaching, Safe,
    Reader
<1> QED BY <1>1, <1>3, <1>4, <1>6, <1>7, <1>8, CallKeeps DEF Inv, fields, load

(***************************************************************************)
(* Publication and the pairing of interfaces.                              *)
(***************************************************************************)

LEMMA PublishKeepsInv == Inv /\ Publish => Inv'
<1> SUFFICES ASSUME Inv, Publish PROVE Inv'  OBVIOUS
<1> USE NodesSplit, NoneIsNoNode
<1>0. PICK i \in Ifaces : i = api.iface /\ Live(i) /\ ~iface_rcu[i].queued /\ port_id[i] \in Ports
                         /\ ~Published(i) /\ Input(i) \in linked /\ Output(i) \in linked
  BY DEF Inv, ApiInv, LiveInv, Building, Publish
<1>1. /\ UNCHANGED <<memory, fields, indices, load, lists, callbacks, lcores>>
      /\ api.at = "post_setup"
      /\ global_e3iface_array' = [global_e3iface_array EXCEPT ![port_id[i]] = i]
  BY <1>0 DEF Publish
<1>2. /\ api' \in [at : Steps, iface : Ifaces \cup {None}, other : Ifaces \cup {None},
                   slow_path : BOOLEAN]
      /\ \/ api.other # None /\ api'.at = "correlate" /\ api'.iface = i /\ api'.other = api.other
         \/ api.other = None /\ api'.at = "register" /\ api'.iface = None /\ api'.other = i
         \/ api.other = None /\ api'.at = "return" /\ api'.iface = i /\ api'.other = None
  <2>1. CASE api.other # None /\ api' = [api EXCEPT !.at = "correlate"]
    BY <2>1, <1>0 DEF Inv, Types, Steps
  <2>2. CASE api.other = None
             /\ api' = [api EXCEPT !.at = "register", !.iface = None, !.other = i]
    BY <2>2, <1>0 DEF Inv, Types, Steps
  <2>3. CASE api.other = None /\ api' = [api EXCEPT !.at = "return"]
    BY <2>3, <1>0 DEF Inv, Types, Steps
  <2> QED BY <2>1, <2>2, <2>3, <1>0 DEF Publish
<1>3. Types'
  BY <1>0, <1>1, <1>2 DEF Inv, Types, memory, fields, indices, load, lists, callbacks, lcores
<1>4. Reading' = Reading  BY <1>1, <1>2 DEF Reading, lcores
<1>5. \A j \in Ifaces : Published(j)' <=> Published(j) \/ j = i
  <2>1. \A p \in Ports : global_e3iface_array'[p]
                         = IF p = port_id[i] THEN i ELSE global_e3iface_array[p]
    BY <1>1 DEF Inv, Types
  <2>2. global_e3iface_array[port_id[i]] = None
    <3>1. SUFFICES ASSUME NEW j \in Ifaces, global_e3iface_array[port_id[i]] = j PROVE FALSE
      BY <1>0 DEF Inv, Types
    <3>2. Live(j) /\ port_id[j] = port_id[i]  BY <3>1, <1>0 DEF Inv, PublishedInv
    <3> QED BY <3>1, <3>2, <1>0 DEF Inv, PortsInv, Published
  <2> QED BY <2>1, <2>2, <1>0 DEF Published
<1>6. UnusedInv' /\ LiveInv' /\ FreedInv' /\ PortsInv' /\ ListInv'
  BY <1>1 DEF Inv, UnusedInv, LiveInv, FreedInv, PortsInv, ListInv, Live, memory, fields, indices,
    load, lists, callbacks
<1>7. PublishedInv'
  BY <1>0, <1>1 DEF Inv, Types, PublishedInv, Live, memory, fields
<1>8. QueuedInv' /\ NodeRcuInv'
  BY <1>0, <1>1, <1>4, <1>5 DEF Inv, QueuedInv, NodeRcuInv, Live, memory, lists, callbacks
<1>9. ApiInv'
  BY <1>0, <1>1, <1>2, <1>5 DEF Inv, ApiInv, memory, lists, callbacks, Building, Leaving, Paired,
    Live
<1>10. StageInv'
  BY <1>0, <1>1, <1>2, <1>5 DEF Inv, StageInv, memory, lists, callbacks, Building, Leaving, Live
<1>11. PeersInv'
  <2>1. \A j, k \in Ifaces : Published(j) /\ Mated(j, k) => Mated(j, k)'
    BY <1>1, <1>5 DEF Mated, fields
  <2>2. ~has_peer_device[i]  BY <1>0, <1>1 DEF Inv, PeersInv, Building
  <2>3. \A j \in Ifaces : Published(j)' /\ has_peer_device[j] => \E k \in Ifaces : Mated(j, k)'
    BY <1>0, <2>1, <2>2, <1>5 DEF Inv, PeersInv
  <2> QED BY <1>0, <1>1, <1>2, <2>2, <2>3 DEF Inv, PeersInv, memory, fields, Building, Leaving
<1>12. WalkInv'
  BY <1>1, <1>2 DEF Inv, WalkInv, memory, fields, lists, callbacks, lcores, Detaching, Safe,
    Reader
<1>13. FoundInv'
  <2>1. \A l \in LCores, j \in Ifaces : Found(l, j) => Found(l, j)'
    BY <1>1, <1>5 DEF Found, callbacks, lcores
  <2> QED BY <1>1, <2>1 DEF Inv, Types, FoundInv, lcores
<1> QED BY <1>3, <1>6, <1>7, <1>8, <1>9, <1>10, <1>11, <1>12, <1>13 DEF Inv

LEMMA CorrelateKeepsInv == Inv /\ Correlate => Inv'
<1> SUFFICES ASSUME Inv, Correlate PROVE Inv'  OBVIOUS
<1> USE NoneIsNoNode
<1>1. UNCHANGED <<memory, port_id, global_e3iface_array, indices, load, lists, callbacks, lcores>>
  BY DEF Correlate
<1>2. PICK i, j \in Ifaces :
        /\ i = api.iface /\ j = api.other /\ i # j /\ Published(i) /\ Published(j)
        /\ Live(i) /\ Live(j) /\ port_id[i] \in Ports /\ port_id[j] \in Ports
        /\ ~has_peer_device[i] /\ ~has_peer_device[j]
        /\ api.at \in {"correlate", "set_peers"}
  <2>1. api.at \in {"correlate", "set_peers"}  BY DEF Correlate
  <2>2. /\ api.iface \in Ifaces /\ api.other \in Ifaces /\ api.iface # api.other
        /\ Published(api.iface) /\ Published(api.other)
    BY <2>1 DEF Inv, ApiInv, Paired
  <2>3. Live(api.iface) /\ Live(api.other)  BY <2>2 DEF Inv, PublishedInv, Published
  <2>4. ~has_peer_device[api.iface] /\ ~has_peer_device[api.other]
    BY <2>1, <2>2 DEF Inv, PeersInv
  <2> QED BY <2>1, <2>2, <2>3, <2>4 DEF Inv, LiveInv
<1>3. /\ api'.iface = i /\ api'.other = j
      /\ api' \in [at : Steps, iface : Ifaces \cup {None}, other : Ifaces \cup {None},
                   slow_path : BOOLEAN]
      /\ \/ api.at = "correlate" /\ api'.at = "set_peers" /\ has_peer_device' = has_peer_device
            /\ peer_port_id' = [peer_port_id EXCEPT ![i] = port_id[j], ![j] = port_id[i]]
         \/ api.at = "set_peers" /\ api'.at = "return" /\ peer_port_id' = peer_port_id
            /\ has_peer_device' = [has_peer_device EXCEPT ![i] = TRUE, ![j] = TRUE]
  BY <1>2 DEF Correlate, Inv, Types, Steps
<1>4. Types'
  BY <1>1, <1>2, <1>3 DEF Inv, Types, memory, indices, load, lists, callbacks, lcores
<1>5. Reading' = Reading  BY <1>1, <1>2, <1>3 DEF Reading, lcores
<1>6. ApiInv' /\ StageInv'
  <2>1. api.at \notin Building \cup Leaving /\ api'.at \in {"set_peers", "return"}
    BY <1>2, <1>3 DEF Building, Leaving
  <2>2. \A k \in Ifaces : (Published(k)' <=> Published(k)) /\ (Live(k)' <=> Live(k))
    BY <1>1 DEF Published, Live, memory
  <2>3. ApiInv'
    BY <1>2, <2>1, <2>2, <1>3 DEF ApiInv, Building, Leaving, Paired
  <2> QED BY <1>1, <2>1, <2>2, <2>3 DEF Inv, StageInv, lists, callbacks, Building, Leaving
<1>7. PeersInv'
  <2>1. \A k \in Ifaces : Published(k)' <=> Published(k)  BY <1>1 DEF Published
  <2>2. CASE api.at = "correlate"
    <3>1. /\ peer_port_id'[i] = port_id[j] /\ peer_port_id'[j] = port_id[i]
          /\ \A k \in Ifaces \ {i, j} : peer_port_id'[k] = peer_port_id[k]
          /\ has_peer_device' = has_peer_device /\ api'.at = "set_peers"
      BY <2>2, <1>2, <1>3 DEF Inv, Types
    <3>2. \A k, m \in Ifaces : has_peer_device[k] /\ Mated(k, m) => Mated(k, m)'
      BY <3>1, <1>1, <1>2, <2>1 DEF Mated
    <3> QED BY <3>1, <3>2, <2>1, <1>1, <1>2, <1>3 DEF Inv, PeersInv, memory, Building, Leaving
  <2>3. CASE api.at = "set_peers"
    <3>1. /\ has_peer_device'[i] /\ has_peer_device'[j]
          /\ \A k \in Ifaces \ {i, j} : has_peer_device'[k] = has_peer_device[k]
          /\ peer_port_id' = peer_port_id /\ api'.at = "return"
      BY <2>3, <1>2, <1>3 DEF Inv, Types
    <3>2. \A k, m \in Ifaces : Mated(k, m) => Mated(k, m)'
      BY <3>1, <1>1, <1>2, <2>1 DEF Mated
    <3>3. Mated(i, j)' /\ Mated(j, i)'
      BY <3>1, <1>1, <1>2, <2>1, <2>3 DEF Mated, Inv, PeersInv
    <3>4. \A k \in Ifaces : Published(k)' /\ has_peer_device'[k] => \E m \in Ifaces : Mated(k, m)'
      BY <3>1, <3>2, <3>3, <2>1, <1>2 DEF Inv, PeersInv
    <3>5. \A k \in Ifaces : iface_mem'[k] = "unused" => ~has_peer_device'[k]
      BY <3>1, <1>1, <1>2 DEF Inv, PeersInv, memory, Live
    <3> QED BY <3>1, <3>4, <3>5 DEF PeersInv, Building, Leaving
  <2> QED BY <1>2, <2>2, <2>3
<1>8. WalkInv'
  BY <1>1, <1>2, <1>3 DEF Inv, WalkInv, memory, lists, callbacks, lcores, Detaching, Safe, Reader
<1> QED BY <1>1, <1>4, <1>5, <1>6, <1>7, <1>8, CallKeeps DEF Inv, load

LEMMA DissociateKeepsInv == Inv /\ Dissociate => Inv'
<1> SUFFICES ASSUME Inv, Dissociate PROVE Inv'  OBVIOUS
<1> USE NoneIsNoNode
<1>1. UNCHANGED <<memory, port_id, global_e3iface_array, indices, load, lists, callbacks, lcores>>
  BY DEF Dissociate
<1>2. PICK i \in Ifaces :
        /\ i = api.iface /\ Published(i) /\ Live(i) /\ ~iface_rcu[i].queued
        /\ Input(i) \in linked /\ Output(i) \in linked
        /\ port_id[i] \in Ports /\ api.at \in {"dissociate", "clear_peers"}
  <2>1. api.at \in {"dissociate", "clear_peers"}  BY DEF Dissociate
  <2>2. api.iface \in Ifaces /\ Published(api.iface)  BY <2>1 DEF Inv, ApiInv, Paired
  <2>3. Live(api.iface)  BY <2>2 DEF Inv, PublishedInv, Published
  <2> QED BY <2>1, <2>2, <2>3 DEF Inv, LiveInv, QueuedInv, StageInv
<1>3. PICK j \in Ifaces :
      /\ i # j /\ Published(j) /\ api'.iface = i /\ api'.other = j
      /\ api' \in [at : Steps, iface : Ifaces \cup {None}, other : Ifaces \cup {None},
                   slow_path : BOOLEAN]
      /\ \/ api.at = "dissociate" /\ api'.at = "clear_peers" /\ peer_port_id' = peer_port_id
            /\ has_peer_device' = [has_peer_device EXCEPT ![i] = FALSE, ![j] = FALSE]
            /\ peer_port_id[i] = port_id[j] /\ peer_port_id[j] = port_id[i]
         \/ api.at = "clear_peers" /\ api'.at = "detach_input"
            /\ has_peer_device' = has_peer_device
            /\ peer_port_id' = [peer_port_id EXCEPT ![i] = 0, ![j] = 0]
            /\ ~has_peer_device[i] /\ ~has_peer_device[j]
  <2>1. CASE api.at = "dissociate"
    <3>1. PICK j \in Ifaces : Mated(i, j)
      BY <2>1, <1>2 DEF Inv, PeersInv
    <3>2. peer_port_id[i] \in Ports /\ global_e3iface_array[peer_port_id[i]] = j
      <4>1. PICK p \in Ports : global_e3iface_array[p] = j  BY <3>1 DEF Mated, Published
      <4>2. port_id[j] = p  BY <4>1 DEF Inv, PublishedInv
      <4> QED BY <4>1, <4>2, <3>1 DEF Mated
    <3> QED BY <2>1, <3>1, <3>2, <1>2 DEF Dissociate, Peer, Mated, Inv, Types, Steps
  <2>2. CASE api.at = "clear_peers"
    <3>1. api.other \in Ifaces /\ Published(api.other) /\ api.other # i
      BY <2>2, <1>2 DEF Inv, ApiInv, Paired
    <3>2. ~has_peer_device[i] /\ ~has_peer_device[api.other]
      BY <2>2, <3>1, <1>2 DEF Inv, PeersInv
    <3>3. api' = [api EXCEPT !.at = "detach_input"] /\ has_peer_device' = has_peer_device
          /\ peer_port_id' = [peer_port_id EXCEPT ![i] = 0, ![api.other] = 0]
      BY <2>2, <1>2 DEF Dissociate
    <3>4. /\ api'.iface = i /\ api'.other = api.other /\ api'.at = "detach_input"
          /\ api' \in [at : Steps, iface : Ifaces \cup {None}, other : Ifaces \cup {None},
                       slow_path : BOOLEAN]
      BY <3>3, <1>2 DEF Inv, Types, Steps
    <3> QED BY <2>2, <3>1, <3>2, <3>3, <3>4
  <2> QED BY <2>1, <2>2, <1>2
<1>4. Types'
  <2>1. 0 \in Ports  BY PortsAssumption DEF Ports
  <2>2. peer_port_id \in [Ifaces -> Ports] /\ has_peer_device \in [Ifaces -> BOOLEAN]
    BY DEF Inv, Types
  <2>3. [peer_port_id EXCEPT ![i] = 0, ![j] = 0] \in [Ifaces -> Ports]  BY <2>1, <2>2
  <2>4. [has_peer_device EXCEPT ![i] = FALSE, ![j] = FALSE] \in [Ifaces -> BOOLEAN]  BY <2>2
  <2>5. peer_port_id' \in [Ifaces -> Ports] /\ has_peer_device' \in [Ifaces -> BOOLEAN]
    BY <2>2, <2>3, <2>4, <1>3
  <2> QED BY <2>5, <1>1, <1>3 DEF Inv, Types, memory, indices, load, lists, callbacks, lcores
<1>5. Reading' = Reading  BY <1>1, <1>2, <1>3 DEF Reading, lcores
<1>6. ApiInv' /\ StageInv'
  <2>1. api.at \notin Building \cup Leaving /\ api'.at \in {"clear_peers", "detach_input"}
    BY <1>2, <1>3 DEF Building, Leaving
  <2>2. \A k \in Ifaces : (Published(k)' <=> Published(k)) /\ (Live(k)' <=> Live(k))
    BY <1>1 DEF Published, Live, memory
  <2>3. ApiInv'
    BY <1>1, <1>2, <2>1, <2>2, <1>3 DEF ApiInv, Building, Leaving, Paired, lists, callbacks
  <2> QED BY <1>1, <2>1, <2>2, <2>3 DEF Inv, StageInv, lists, callbacks, Building, Leaving
<1>7. PeersInv'
  <2>1. \A k \in Ifaces : Published(k)' <=> Published(k)  BY <1>1 DEF Published
  <2>2. CASE api.at = "dissociate"
    <3>1. /\ ~has_peer_device'[i] /\ ~has_peer_device'[j]
          /\ \A k \in Ifaces \ {i, j} : has_peer_device'[k] = has_peer_device[k]
          /\ peer_port_id' = peer_port_id /\ api'.at = "clear_peers"
          /\ peer_port_id[i] = port_id[j] /\ peer_port_id[j] = port_id[i]
      BY <2>2, <1>2, <1>3 DEF Inv, Types
    <3>2. \A k, m \in Ifaces :
            k \notin {i, j} /\ Published(k) /\ Mated(k, m) => m \notin {i, j}
      <4> SUFFICES ASSUME NEW k \in Ifaces, NEW m \in Ifaces, k \notin {i, j}, Mated(k, m),
                          Published(k), m \in {i, j}
                   PROVE FALSE
        OBVIOUS
      <4>1. port_id[k] = peer_port_id[m] /\ peer_port_id[m] \in {port_id[i], port_id[j]}
        BY <3>1 DEF Mated
      <4>2. Live(k) /\ Live(i) /\ Live(j)
        BY <1>2, <1>3 DEF Inv, PublishedInv, Published
      <4> QED BY <4>1, <4>2 DEF Inv, PortsInv
    <3>3. \A k, m \in Ifaces :
            k \notin {i, j} /\ Published(k) /\ Mated(k, m) => Mated(k, m)'
      BY <3>1, <3>2, <1>1, <2>1 DEF Mated
    <3>4. \A k \in Ifaces : Published(k)' /\ has_peer_device'[k] => \E m \in Ifaces : Mated(k, m)'
      BY <3>1, <3>3, <2>1 DEF Inv, PeersInv
    <3>5. \A k \in Ifaces : iface_mem'[k] = "unused" => ~has_peer_device'[k]
      BY <3>1, <1>1 DEF Inv, PeersInv, memory
    <3> QED BY <3>1, <3>4, <3>5, <1>3 DEF PeersInv, Building, Leaving
  <2>3. CASE api.at = "clear_peers"
    <3>1. /\ \A k \in Ifaces \ {i, j} : peer_port_id'[k] = peer_port_id[k]
          /\ ~has_peer_device[i] /\ ~has_peer_device[j]
          /\ has_peer_device' = has_peer_device /\ api'.at = "detach_input"
      BY <2>3, <1>2, <1>3 DEF Inv, Types
    <3>2. \A k, m \in Ifaces : has_peer_device[k] /\ Mated(k, m) => Mated(k, m)'
      BY <3>1, <1>1, <1>2, <2>1 DEF Mated
    <3> QED BY <3>1, <3>2, <2>1, <1>1, <1>2, <1>3 DEF Inv, PeersInv, memory, Building, Leaving
  <2> QED BY <1>2, <2>2, <2>3
<1>8. WalkInv'
  BY <1>1, <1>2, <1>3 DEF Inv, WalkInv, memory, lists, callbacks, lcores, Detaching, Safe, Reader
<1> QED BY <1>1, <1>4, <1>5, <1>6, <1>7, <1>8, CallKeeps DEF Inv, load

(***************************************************************************)
(* Lists.                                                                  *)
(***************************************************************************)

\* An interface's state in memory and in the callbacks is what it was.
LEMMA ListStepKeeps ==
  ASSUME Inv, UNCHANGED <<memory, fields, global_e3iface_array, indices, lcore_id, callbacks,
                          lcores>>,
         Reading' = Reading
  PROVE  LiveInv' /\ NodeRcuInv' /\ PublishedInv' /\ PortsInv' /\ FoundInv'
<1> USE DEF memory, fields, indices, callbacks, lcores
<1>1. LiveInv' /\ PublishedInv' /\ PortsInv' /\ FoundInv'
  BY DEF Inv, LiveInv, PublishedInv, PortsInv, FoundInv, Live, Found, Published
<1>2. NodeRcuInv'  BY DEF Inv, NodeRcuInv
<1> QED BY <1>1, <1>2

LEMMA AttachKeepsInv == Inv /\ Attach => Inv'
<1> SUFFICES ASSUME Inv, Attach PROVE Inv'  OBVIOUS
<1> USE NodesSplit, NoneIsNoNode
<1>1. UNCHANGED <<memory, fields, global_e3iface_array, indices, load, callbacks, lcores>>
  BY DEF Attach
<1>2. PICK i \in Ifaces :
        /\ i = api.iface /\ Live(i) /\ ~iface_rcu[i].queued /\ ~Published(i)
        /\ api.at \in {"attach_input", "attach_output"}
  BY DEF Attach, Inv, ApiInv, Building
<1>3. PICK n \in OwnNodes(i) :
        /\ n \notin linked /\ AttachNode(n)
        /\ \/ api.at = "attach_input" /\ n = Input(i) /\ api' = [api EXCEPT !.at = "attach_output"]
           \/ api.at = "attach_output" /\ n = Output(i) /\ api' = [api EXCEPT !.at = "post_setup"]
  BY <1>2 DEF Attach, Inv, ApiInv, OwnNodes
<1>4. PICK l \in LCores :
        /\ l = lcore_id[n] /\ n \in Nodes /\ n[1] = i
        /\ next' = [next EXCEPT ![n] = lcore_task_list[l]]
        /\ lcore_task_list' = [lcore_task_list EXCEPT ![l] = n]
        /\ linked' = linked \cup {n}
  <2>1. n \in Nodes /\ n[1] = i  BY <1>3 DEF OwnNodes
  <2>2. lcore_id[n] \in LCores  BY <1>2, <1>3 DEF Inv, LiveInv
  <2> QED BY <1>3, <2>1, <2>2 DEF AttachNode
<1>5. /\ api'.iface = i /\ api'.other = api.other
      /\ api' \in [at : Steps, iface : Ifaces \cup {None}, other : Ifaces \cup {None},
                   slow_path : BOOLEAN]
      /\ \/ api.at = "attach_input" /\ n = Input(i) /\ api'.at = "attach_output"
         \/ api.at = "attach_output" /\ n = Output(i) /\ api'.at = "post_setup"
  <2>1. CASE api.at = "attach_input" /\ api' = [api EXCEPT !.at = "attach_output"]
    BY <1>2, <1>3, <2>1 DEF Inv, Types, Steps
  <2>2. CASE api.at = "attach_output" /\ api' = [api EXCEPT !.at = "post_setup"]
    BY <1>2, <1>3, <2>2 DEF Inv, Types, Steps
  <2> QED BY <1>3, <2>1, <2>2
<1>6. Types'
  BY <1>1, <1>4, <1>5 DEF Inv, Types, memory, fields, indices, load, callbacks, lcores
<1>7. Reading' = Reading  BY <1>1, <1>2, <1>5 DEF Reading, lcores
<1>8. UnusedInv'
  BY <1>1, <1>2, <1>4 DEF Inv, Types, UnusedInv, Live, OwnNodes, memory, fields, callbacks
<1>9. FreedInv'
  BY <1>1, <1>2, <1>4 DEF Inv, FreedInv, Live, OwnNodes, memory, callbacks
<1>10. QueuedInv'
  BY <1>1, <1>2, <1>4, <1>7 DEF Inv, QueuedInv, Live, Published, OwnNodes, memory, callbacks
<1>11. ApiInv'
  BY <1>1, <1>2, <1>4, <1>5 DEF Inv, ApiInv, Building, Leaving, Paired, Live, Published, memory,
    callbacks
<1>12. StageInv'
  BY <1>1, <1>2, <1>4, <1>5 DEF Inv, StageInv, Building, Leaving, Live, Published, memory,
    callbacks
<1>13. PeersInv'
  BY <1>1, <1>2, <1>5 DEF Inv, PeersInv, Building, Leaving, Mated, Published, memory, fields
<1>14. ListInv'
  <2>1. /\ next'[n] = lcore_task_list[l] /\ lcore_task_list'[l] = n
        /\ \A m \in Nodes \ {n} : next'[m] = next[m]
        /\ \A k \in LCores \ {l} : lcore_task_list'[k] = lcore_task_list[k]
        /\ lcore_id' = lcore_id /\ linked \subseteq Nodes
    BY <1>1, <1>4 DEF Inv, Types, load
  <2>2. \A m \in linked : next[m] # n /\ m # n
    BY <1>3, <1>4 DEF Inv, ListInv
  <2>3. \A k \in LCores : lcore_task_list[k] # n
    BY <1>3, <1>4 DEF Inv, ListInv
  <2> QED BY <2>1, <2>2, <2>3, <1>4 DEF Inv, ListInv
<1>15. WalkInv'
  <2>1. \A m \in Nodes : ~Detaching(m)'  BY <1>5 DEF Detaching
  <2>2. \A k \in LCores, m \in Nodes : Reader(k, m)' <=> Reader(k, m)
    BY <1>1 DEF Reader, memory, fields, callbacks
  <2>3. \A m \in Nodes : ~Detaching(m)  BY <1>5 DEF Detaching
  <2>4. \A k \in LCores, m \in Nodes : Safe(k, m) => Safe(k, m)'
    BY <2>1, <2>2, <2>3, <1>4 DEF Safe
  <2>5. \A k \in LCores : ~Reader(k, n)
    BY <1>2, <1>4 DEF Reader, Inv, QueuedInv, LiveInv, OwnNodes
  <2>6. \A m \in Nodes : m # n => next'[m] = next[m]  BY <1>4 DEF Inv, Types
  <2>7. \A m \in Nodes : next[m] \in Nodes \cup {None}  BY DEF Inv, Types
  <2>8. at' = at /\ \A k \in LCores : at[k] \in Nodes \cup {None}  BY <1>1 DEF lcores, Inv, Types
  <2> QED BY <2>1, <2>2, <2>4, <2>5, <2>6, <2>7, <2>8 DEF Inv, WalkInv
<1> QED BY <1>1, <1>6, <1>7, <1>8, <1>9, <1>10, <1>11, <1>12, <1>13, <1>14, <1>15, ListStepKeeps
        DEF Inv, load

\* What is on a list belongs to an interface that is neither freed nor about to be.
LEMMA LinkedIsLive ==
  ASSUME Inv, NEW n \in linked
  PROVE  /\ n \in Nodes /\ n[1] \in Ifaces /\ Live(n[1]) /\ lcore_id[n] \in LCores
         /\ \A k : ~Reader(k, n)
<1>1. n \in Nodes /\ n[1] \in Ifaces /\ n \in OwnNodes(n[1])  BY NodesSplit DEF Inv, Types
<1>2. iface_mem[n[1]] # "unused"  BY <1>1 DEF Inv, UnusedInv
<1>3. iface_mem[n[1]] # "freed"  BY <1>1 DEF Inv, FreedInv
<1>4. Live(n[1])  BY <1>1, <1>2, <1>3 DEF Inv, Types, Memory, Live
<1>5. node_mem[n] = "live" /\ lcore_id[n] \in LCores  BY <1>1, <1>4 DEF Inv, LiveInv
<1>6. iface_rcu[n[1]].readers = {}  BY <1>1 DEF Inv, QueuedInv
<1> QED BY <1>1, <1>4, <1>5, <1>6 DEF Reader

LEMMA UnlinkKeepsList ==
  ASSUME Inv, NEW n \in Nodes, Unlink(n), UNCHANGED lcore_id
  PROVE  /\ ListInv' /\ n \in linked /\ linked' = linked \ {n}
         /\ lcore_task_list' \in [LCores -> Nodes \cup {None}]
         /\ next' \in [Nodes -> Nodes \cup {None}]
         /\ next[n] # None => next[n] \in linked
         /\ next'[n] = next[n]
         /\ \A m \in Nodes \ linked : next'[m] = next[m]
<1> USE NoneIsNoNode
<1>1. /\ n \in linked /\ linked' = linked \ {n} /\ linked \subseteq Nodes
      /\ lcore_task_list \in [LCores -> Nodes \cup {None}] /\ next \in [Nodes -> Nodes \cup {None}]
  BY DEF Unlink, Inv, Types
<1>2. PICK l \in LCores : l = lcore_id[n]  BY <1>1, LinkedIsLive
<1>3. /\ \A k \in LCores : lcore_task_list[k] # None =>
              lcore_task_list[k] \in linked /\ lcore_id[lcore_task_list[k]] = k
      /\ \A m \in linked : next[m] # None => next[m] \in linked /\ lcore_id[next[m]] = lcore_id[m]
      /\ \A m, o \in linked : next[m] = next[o] /\ next[m] # None => m = o
      /\ \A m \in linked, k \in LCores : next[m] = lcore_task_list[k] => next[m] = None
  BY DEF Inv, ListInv
<1>4. CASE /\ lcore_task_list[l] = n /\ next' = next
           /\ lcore_task_list' = [lcore_task_list EXCEPT ![l] = next[n]]
  <2>1. /\ lcore_task_list'[l] = next[n]
        /\ \A k \in LCores \ {l} : lcore_task_list'[k] = lcore_task_list[k]
    BY <1>1, <1>4
  <2>2. \A m \in linked : next[m] # n  BY <1>1, <1>3, <1>4
  <2>3. \A k \in LCores \ {l} : lcore_task_list[k] # n  BY <1>1, <1>2, <1>3
  <2>4. ListInv'  BY <1>1, <1>2, <1>3, <1>4, <2>1, <2>2, <2>3 DEF ListInv
  <2> QED BY <1>1, <1>3, <1>4, <2>4
<1>5. CASE \E parent \in linked :
             next[parent] = n /\ next' = [next EXCEPT ![parent] = next[n]]
             /\ lcore_task_list' = lcore_task_list
  <2>0. PICK parent \in linked :
             next[parent] = n /\ next' = [next EXCEPT ![parent] = next[n]]
             /\ lcore_task_list' = lcore_task_list
    BY <1>5
  <2>1. next'[parent] = next[n] /\ \A m \in Nodes \ {parent} : next'[m] = next[m]
    BY <1>1, <2>0
  <2>2. \A m \in linked \ {parent} : next[m] # n  BY <1>1, <1>3, <2>0
  <2>3. \A k \in LCores : lcore_task_list[k] # n  BY <1>1, <1>3, <2>0
  <2>4. next[n] = n => parent = n  BY <1>1, <1>3, <2>0
  <2>5. ListInv'
    BY <1>1, <1>2, <1>3, <2>0, <2>1, <2>2, <2>3, <2>4 DEF ListInv
  <2> QED BY <1>1, <1>3, <2>0, <2>1, <2>5
<1> QED BY <1>2, <1>4, <1>5 DEF Unlink

LEMMA DetachKeepsInv == Inv /\ Detach => Inv'
<1> SUFFICES ASSUME Inv, Detach PROVE Inv'  OBVIOUS
<1> USE NodesSplit, NoneIsNoNode
<1>1. UNCHANGED <<memory, fields, global_e3iface_array, indices, lcore_id, callbacks, lcores>>
  BY DEF Detach
<1>2. PICK i \in Ifaces :
        /\ i = api.iface /\ Live(i) /\ ~iface_rcu[i].queued
        /\ api.at \in {"detach_input", "detach_output"}
  BY DEF Detach, Inv, ApiInv, Leaving
<1>3. PICK n \in OwnNodes(i) :
        /\ Unlink(n)
        /\ \/ api.at = "detach_input" /\ n = Input(i) /\ api' = [api EXCEPT !.at = "detach_output"]
           \/ api.at = "detach_output" /\ n = Output(i) /\ api' = [api EXCEPT !.at = "withdraw"]
  <2>1. CASE api.at = "detach_input"  BY <2>1, <1>2 DEF Detach, OwnNodes
  <2>2. CASE api.at = "detach_output"  BY <2>2, <1>2 DEF Detach, OwnNodes
  <2> QED BY <1>2, <2>1, <2>2
<1>4. n \in Nodes /\ n[1] = i  BY <1>3 DEF OwnNodes
<1>5. /\ api'.iface = i /\ api'.other = api.other
      /\ api' \in [at : Steps, iface : Ifaces \cup {None}, other : Ifaces \cup {None},
                   slow_path : BOOLEAN]
      /\ \/ api.at = "detach_input" /\ n = Input(i) /\ api'.at = "detach_output"
         \/ api.at = "detach_output" /\ n = Output(i) /\ api'.at = "withdraw"
  <2>1. CASE api.at = "detach_input" /\ api' = [api EXCEPT !.at = "detach_output"]
    BY <1>2, <1>3, <2>1 DEF Inv, Types, Steps
  <2>2. CASE api.at = "detach_output" /\ api' = [api EXCEPT !.at = "withdraw"]
    BY <1>2, <1>3, <2>2 DEF Inv, Types, Steps
  <2> QED BY <1>3, <2>1, <2>2
<1>6. /\ ListInv' /\ n \in linked /\ linked' = linked \ {n}
      /\ lcore_task_list' \in [LCores -> Nodes \cup {None}] /\ next' \in [Nodes -> Nodes \cup {None}]
      /\ next[n] # None => next[n] \in linked
      /\ next'[n] = next[n]
      /\ \A m \in Nodes \ linked : next'[m] = next[m]
  BY <1>1, <1>3, <1>4, UnlinkKeepsList
<1>7. Types'
  <2>1. attached_io_nodes' \in [LCores -> Int]
    <3>1. attached_io_nodes' = [attached_io_nodes EXCEPT ![lcore_id[n]] = @ - 1]
      BY <1>3, <1>2 DEF Detach
    <3>2. lcore_id[n] \in LCores  BY <1>6, LinkedIsLive
    <3> QED BY <3>1, <3>2 DEF Inv, Types
  <2> QED BY <2>1, <1>1, <1>5, <1>6 DEF Inv, Types, memory, fields, indices, callbacks, lcores
<1>8. Reading' = Reading  BY <1>1, <1>2, <1>5 DEF Reading, lcores
<1>9. UnusedInv'
  BY <1>1, <1>6 DEF Inv, Types, UnusedInv, OwnNodes, memory, fields, callbacks
<1>10. FreedInv'
  BY <1>1, <1>6 DEF Inv, FreedInv, memory, callbacks
<1>11. QueuedInv'
  BY <1>1, <1>6, <1>8 DEF Inv, QueuedInv, Live, Published, memory, callbacks
<1>12. ApiInv'
  BY <1>1, <1>2, <1>5, <1>6 DEF Inv, ApiInv, Building, Leaving, Paired, Live, Published, memory,
    callbacks
<1>13. StageInv'
  BY <1>1, <1>2, <1>4, <1>5, <1>6 DEF Inv, StageInv, Building, Leaving, Live, Published, memory,
    callbacks
<1>14. PeersInv'
  BY <1>1, <1>2, <1>5 DEF Inv, PeersInv, Building, Leaving, Mated, Published, memory, fields
<1>15. WalkInv'
  <2>1. \A k \in LCores, m \in Nodes : Reader(k, m)' <=> Reader(k, m)
    BY <1>1 DEF Reader, memory, fields, callbacks
  <2>2. \A m \in Nodes : Detaching(m)' <=> m = n \/ Detaching(m)
    BY <1>2, <1>3, <1>5 DEF Detaching, OwnNodes
  <2>3. \A m \in Nodes : Detaching(m) => m \notin linked
    BY <1>2, <1>5 DEF Detaching, Inv, ApiInv
  <2>4. \A k \in LCores, m \in Nodes : Safe(k, m) => Safe(k, m)'
    BY <2>1, <2>2, <1>6 DEF Safe
  <2>5. \A k \in LCores, m \in Nodes : Reader(k, m) => m \notin linked
    BY LinkedIsLive
  <2>6. \A m \in Nodes : next[m] \in Nodes \cup {None}  BY DEF Inv, Types
  <2>7. at' = at /\ \A k \in LCores : at[k] \in Nodes \cup {None}  BY <1>1 DEF lcores, Inv, Types
  <2>8. \A m, o \in Nodes : Detaching(m)' /\ o = next'[m] => o \in linked' \/ Detaching(o)'
    <3> SUFFICES ASSUME NEW m \in Nodes, NEW o \in Nodes, Detaching(m)', o = next'[m]
                 PROVE  o \in linked' \/ Detaching(o)'
      OBVIOUS
    <3>1. next'[m] = next[m]  BY <2>2, <2>3, <1>6
    <3>2. o \in linked \/ Detaching(o)
      BY <3>1, <2>2, <1>6 DEF Inv, WalkInv
    <3> QED BY <3>2, <2>2, <1>6
  <2>9. \A k \in LCores, o \in Nodes : o = at[k] => Safe(k, o)'
    BY <2>4 DEF Inv, WalkInv
  <2>10. \A k \in LCores : at[k] # None =>
          \A m, o \in Nodes : Reader(k, m)' /\ o = next'[m] => Safe(k, o)'
    <3> SUFFICES ASSUME NEW k \in LCores, at[k] # None, NEW m \in Nodes, NEW o \in Nodes,
                        Reader(k, m), o = next'[m]
                 PROVE  Safe(k, o)'
      BY <2>1
    <3>1. next'[m] = next[m]  BY <2>5, <1>6
    <3>2. Safe(k, o)  BY <3>1 DEF Inv, WalkInv
    <3> QED BY <3>2, <2>4
  <2>11. \A m \in Nodes : next'[m] \in Nodes \cup {None}  BY <1>7 DEF Types
  <2> QED BY <2>7, <2>8, <2>9, <2>10, <2>11 DEF WalkInv
<1> QED BY <1>1, <1>6, <1>7, <1>8, <1>9, <1>10, <1>11, <1>12, <1>13, <1>14, <1>15, ListStepKeeps
        DEF Inv

(***************************************************************************)
(* Release, and the callbacks.                                             *)
(***************************************************************************)

LEMMA WithdrawKeepsInv == Inv /\ Withdraw => Inv'
<1> SUFFICES ASSUME Inv, Withdraw PROVE Inv'  OBVIOUS
<1> USE NodesSplit, NoneIsNoNode
<1>1. /\ UNCHANGED <<memory, fields, indices, load, lists, node_rcu, lcores>>
      /\ api.at = "withdraw"
  BY DEF Withdraw
<1>2. PICK i \in Ifaces :
        /\ i = api.iface /\ Live(i) /\ ~iface_rcu[i].queued /\ iface_rcu[i].readers = {}
        /\ Published(i) /\ port_id[i] \in Ports /\ Input(i) \notin linked /\ Output(i) \notin linked
        /\ ~has_peer_device[i]
  BY <1>1 DEF Withdraw, Inv, ApiInv, LiveInv, QueuedInv, PeersInv, Leaving
<1>3. /\ global_e3iface_array' = [global_e3iface_array EXCEPT ![port_id[i]] = None]
      /\ iface_rcu' = [iface_rcu EXCEPT ![i] = CallRcu]
  BY <1>2 DEF Withdraw
<1>4. /\ api' \in [at : Steps, iface : Ifaces \cup {None}, other : Ifaces \cup {None},
                   slow_path : BOOLEAN]
      /\ api'.other = None
      /\ \/ api.other # None /\ api'.at = "detach_input" /\ api'.iface = api.other
         \/ api.other = None /\ api'.at = "return" /\ api'.iface = i
  <2>1. CASE api.other # None /\ api' = [Idle EXCEPT !.at = "detach_input", !.iface = api.other]
    BY <2>1, <1>2 DEF Inv, Types, Steps, Idle
  <2>2. CASE api.other = None /\ api' = [api EXCEPT !.at = "return"]
    BY <2>2, <1>2 DEF Inv, Types, Steps
  <2> QED BY <2>1, <2>2 DEF Withdraw
<1>5. \A j \in Ifaces : Published(j)' <=> Published(j) /\ j # i
  <2>1. \A p \in Ports : global_e3iface_array'[p]
                         = IF p = port_id[i] THEN None ELSE global_e3iface_array[p]
    BY <1>2, <1>3 DEF Inv, Types
  <2>2. \A p \in Ports : global_e3iface_array[p] = i => p = port_id[i]
    BY DEF Inv, PublishedInv
  <2>3. global_e3iface_array[port_id[i]] = i  BY <1>2, <2>2 DEF Published
  <2> QED BY <2>1, <2>2, <2>3, <1>2 DEF Published
<1>6. Reading' = Reading  BY <1>1, <1>4 DEF Reading, lcores
<1>7. Types'
  <2>1. iface_rcu' \in [Ifaces -> RcuHead]  BY <1>3, HeadTypes DEF Inv, Types
  <2>2. global_e3iface_array' \in [Ports -> Ifaces \cup {None}]  BY <1>3 DEF Inv, Types
  <2> QED BY <2>1, <2>2, <1>1, <1>4 DEF Inv, Types, memory, fields, indices, load, lists, lcores
<1>8. /\ iface_rcu'[i].queued /\ iface_rcu'[i].readers = Reading
      /\ \A j \in Ifaces \ {i} : iface_rcu'[j] = iface_rcu[j]
  BY <1>3, HeadTypes DEF Inv, Types
<1>9. UnusedInv' /\ LiveInv' /\ FreedInv' /\ PortsInv' /\ ListInv'
  <2>1. UnusedInv'  BY <1>1, <1>2, <1>8 DEF Inv, UnusedInv, Live, memory, fields, lists
  <2>2. FreedInv'  BY <1>1, <1>2, <1>8 DEF Inv, FreedInv, Live, memory, lists
  <2>3. LiveInv' /\ PortsInv' /\ ListInv'
    BY <1>1 DEF Inv, LiveInv, PortsInv, ListInv, Live, memory, fields, indices, load, lists
  <2> QED BY <2>1, <2>2, <2>3
<1>10. PublishedInv'
  BY <1>1, <1>2, <1>3 DEF Inv, Types, PublishedInv, Live, memory, fields
<1>11. QueuedInv'
  BY <1>1, <1>2, <1>5, <1>6, <1>8 DEF Inv, QueuedInv, Live, OwnNodes, memory, lists
<1>12. NodeRcuInv'  BY <1>1, <1>6 DEF Inv, NodeRcuInv
<1>13. ApiInv'
  <2>1. CASE api.other # None
    <3>1. /\ api.other \in Ifaces /\ Published(api.other) /\ api.other # i
      BY <2>1, <1>2 DEF Inv, Types, ApiInv
    <3>2. Live(api.other)  BY <3>1 DEF Inv, PublishedInv, Published
    <3>3. /\ ~iface_rcu[api.other].queued
          /\ Input(api.other) \in linked /\ Output(api.other) \in linked
      BY <3>1, <1>2 DEF Inv, QueuedInv, StageInv
    <3> QED BY <2>1, <3>1, <3>2, <3>3, <1>1, <1>4, <1>5, <1>8 DEF ApiInv, Building, Leaving, Paired,
                  Live, memory, lists
  <2>2. CASE api.other = None
    BY <2>2, <1>4 DEF ApiInv, Building, Leaving, Paired
  <2> QED BY <2>1, <2>2
<1>14. StageInv'
  BY <1>1, <1>2, <1>4, <1>5, <1>8 DEF Inv, StageInv, Live, memory, lists, Building, Leaving
<1>15. PeersInv'
  <2>1. \A j, k \in Ifaces : Published(j)' /\ Mated(j, k) => Mated(j, k)'
    BY <1>1, <1>2, <1>5 DEF Mated, fields
  <2>2. \A j \in Ifaces : Published(j)' /\ has_peer_device[j] => \E k \in Ifaces : Mated(j, k)'
    BY <2>1, <1>5 DEF Inv, PeersInv
  <2> QED BY <2>2, <1>1, <1>4 DEF Inv, PeersInv, Building, Leaving, memory, fields
<1>16. WalkInv'
  <2>1. at' = at /\ next' = next /\ linked' = linked /\ \A m \in Nodes : next[m] \in Nodes \cup {None}
    BY <1>1 DEF Inv, Types, lists, lcores
  <2>2. \A k \in LCores : at[k] # None => k \in Reading  BY DEF Reading
  <2>3. \A k \in LCores, m \in Nodes : at[k] # None => (Reader(k, m)' <=> Reader(k, m) \/ m[1] = i)
    BY <1>1, <1>2, <1>8, <2>2 DEF Reader, memory, fields
  <2>4. \A m \in Nodes : Detaching(m) <=> m[1] = i
    BY <1>1, <1>2 DEF Detaching, OwnNodes
  <2>5. \A m \in Nodes : ~Detaching(m)'  BY <1>4 DEF Detaching
  <2>6. \A k \in LCores, m \in Nodes : at[k] # None /\ Safe(k, m) => Safe(k, m)'
    BY <2>1, <2>3, <2>4 DEF Safe
  <2>7. \A k \in LCores : at[k] # None =>
          \A m \in Nodes : Reader(k, m)' /\ next[m] # None => Safe(k, next[m])
    BY <2>1, <2>3, <2>4 DEF Inv, WalkInv, Safe
  <2>8. \A k \in LCores : at[k] # None => Safe(k, at[k]) /\ at[k] \in Nodes
    BY DEF Inv, Types, WalkInv
  <2>9. \A k \in LCores, o \in Nodes : o = at[k] => Safe(k, o)'  BY <2>6, <2>8
  <2>10. \A k \in LCores : at[k] # None =>
          \A m, o \in Nodes : Reader(k, m)' /\ o = next[m] => Safe(k, o)'
    BY <2>6, <2>7
  <2> QED BY <2>1, <2>5, <2>8, <2>9, <2>10 DEF WalkInv
<1>17. FoundInv'
  <2>1. \A l \in LCores, j \in Ifaces : Found(l, j) => Found(l, j)'
    BY <1>1, <1>5, <1>8 DEF Found, Reading, lcores
  <2> QED BY <1>1, <2>1 DEF Inv, Types, FoundInv, lcores
<1> QED BY <1>7, <1>9, <1>10, <1>11, <1>12, <1>13, <1>14, <1>15, <1>16, <1>17 DEF Inv

LEMMA AbandonKeepsInv == Inv /\ Abandon => Inv'
<1> SUFFICES ASSUME Inv, Abandon PROVE Inv'  OBVIOUS
<1> USE NodesSplit, NoneIsNoNode
<1>1. /\ UNCHANGED <<fields, global_e3iface_array, node_index, load, lists, iface_rcu, lcores>>
      /\ api.at = "withdraw" /\ ~Published(api.iface)
  BY DEF Abandon
<1>2. PICK i \in Ifaces :
        /\ i = api.iface /\ Live(i) /\ ~iface_rcu[i].queued /\ iface_rcu[i].readers = {}
        /\ ~Published(i) /\ port_id[i] \in Ports /\ Input(i) \notin linked /\ Output(i) \notin linked
  BY <1>1 DEF Inv, ApiInv, LiveInv, QueuedInv, Leaving
<1>3. /\ gnode_array' = [gnode_array EXCEPT ![node_index[Input(i)]] = None,
                                            ![node_index[Output(i)]] = None]
      /\ node_rcu' = [node_rcu EXCEPT ![Input(i)] = CallRcu, ![Output(i)] = CallRcu]
      /\ node_mem' = [node_mem EXCEPT ![Input(i)] = "freed", ![Output(i)] = "freed"]
      /\ iface_mem' = [iface_mem EXCEPT ![i] = "freed"]
  BY <1>2 DEF Abandon
<1>4. /\ api' \in [at : Steps, iface : Ifaces \cup {None}, other : Ifaces \cup {None},
                   slow_path : BOOLEAN]
      /\ api'.other = None
      /\ \/ api'.at = "return" /\ api'.iface = i
         \/ /\ api.other \in Ifaces /\ api.other # i /\ Published(api.other)
            /\ api'.at = "detach_input" /\ api'.iface = api.other
  <2>1. api.other # None => api.other \in Ifaces /\ api.other # i /\ Published(api.other)
    BY <1>1, <1>2 DEF Inv, Types, ApiInv
  <2>2. CASE api.other = None /\ api' = [api EXCEPT !.at = "return"]
    BY <1>1, <1>2, <2>2 DEF Inv, Types, Steps
  <2>3. CASE api.other # None
             /\ api' = [Idle EXCEPT !.at = "detach_input", !.iface = api.other]
    BY <2>1, <2>3 DEF Steps, Idle
  <2> QED BY <2>2, <2>3 DEF Abandon
<1>5. Reading' = Reading  BY <1>1, <1>4 DEF Reading, lcores
<1>6. /\ iface_mem' \in [Ifaces -> Memory] /\ node_mem' \in [Nodes -> Memory]
      /\ gnode_array' \in [0 .. NrNodes - 1 -> Nodes \cup {None}]
      /\ node_rcu' \in [Nodes -> RcuHead]
  <2>1. iface_mem' \in [Ifaces -> Memory] /\ node_mem' \in [Nodes -> Memory]
    BY <1>3 DEF Inv, Types, Memory
  <2>2. gnode_array' \in [0 .. NrNodes - 1 -> Nodes \cup {None}]  BY <1>3 DEF Inv, Types
  <2>3. node_rcu' \in [Nodes -> RcuHead]  BY <1>3, HeadTypes DEF Inv, Types
  <2> QED BY <2>1, <2>2, <2>3
<1>7. Types'
  BY <1>1, <1>4, <1>6 DEF Inv, Types, fields, indices, load, lists, lcores
<1>8. /\ iface_mem'[i] = "freed" /\ \A j \in Ifaces \ {i} : iface_mem'[j] = iface_mem[j]
      /\ \A n \in Nodes : n[1] # i => node_mem'[n] = node_mem[n] /\ node_rcu'[n] = node_rcu[n]
      /\ \A n \in Nodes : n[1] = i => /\ node_mem'[n] = "freed"
                                      /\ node_rcu'[n].queued /\ node_rcu'[n].readers = Reading
  <2>1. iface_mem'[i] = "freed" /\ \A j \in Ifaces \ {i} : iface_mem'[j] = iface_mem[j]
    BY <1>3 DEF Inv, Types
  <2>2. \A n \in Nodes : n = Input(i) \/ n = Output(i) <=> n[1] = i  BY DEF OwnNodes
  <2>3. \A n \in Nodes : n[1] # i => node_mem'[n] = node_mem[n] /\ node_rcu'[n] = node_rcu[n]
    BY <1>3, <2>2 DEF Inv, Types
  <2>4. \A n \in Nodes : n[1] = i => node_mem'[n] = "freed" /\ node_rcu'[n] = CallRcu
    BY <1>3, <2>2 DEF Inv, Types
  <2> QED BY <2>1, <2>3, <2>4, HeadTypes
<1>9. /\ \A j \in Ifaces : Live(j)' <=> Live(j) /\ j # i
      /\ \A j \in Ifaces : Published(j)' <=> Published(j)
  BY <1>1, <1>8 DEF Live, Published
<1>10. UnusedInv'
  BY <1>1, <1>8 DEF Inv, UnusedInv, OwnNodes, fields, lists
<1>11. LiveInv'
  <2>1. \A j \in Ifaces \ {i} : Live(j) => \A n \in OwnNodes(j) :
          gnode_array'[node_index[n]] = n
    <3> SUFFICES ASSUME NEW j \in Ifaces \ {i}, Live(j), NEW n \in OwnNodes(j)
                 PROVE  gnode_array'[node_index[n]] = n
      OBVIOUS
    <3>1. n \in Nodes /\ n # Input(i) /\ n # Output(i)  BY DEF OwnNodes
    <3>2. /\ gnode_array[node_index[n]] = n
          /\ gnode_array[node_index[Input(i)]] = Input(i)
          /\ gnode_array[node_index[Output(i)]] = Output(i)
      BY <1>2 DEF Inv, LiveInv, OwnNodes
    <3>3. node_index[n] # node_index[Input(i)] /\ node_index[n] # node_index[Output(i)]
          /\ node_index[n] \in 0 .. NrNodes - 1
      BY <3>1, <3>2 DEF Inv, Types
    <3> QED BY <3>2, <3>3, <1>3 DEF Inv, Types
  <2>2. \A j \in Ifaces \ {i} : \A n \in OwnNodes(j) : n \in Nodes /\ n[1] = j  BY DEF OwnNodes
  <2> QED BY <2>1, <2>2, <1>1, <1>8, <1>9 DEF Inv, LiveInv, fields, load
<1>12. FreedInv'
  <2>1. iface_rcu[i] = NotQueued
    <3>1. iface_rcu[i] \in RcuHead  BY DEF Inv, Types
    <3> QED BY <3>1, <1>2, NotQueuedIsRest
  <2> QED BY <2>1, <1>1, <1>2, <1>8 DEF Inv, FreedInv, OwnNodes, lists
<1>13. QueuedInv'
  BY <1>1, <1>2, <1>5, <1>9 DEF Inv, QueuedInv, lists
<1>14. NodeRcuInv'  BY <1>5, <1>8 DEF Inv, NodeRcuInv
<1>15. PublishedInv' /\ PortsInv'
  BY <1>1, <1>2, <1>9 DEF Inv, PublishedInv, PortsInv, fields, Published
<1>16. ApiInv'
  <2>1. CASE api'.at = "return"  BY <2>1, <1>4 DEF ApiInv, Building, Leaving, Paired
  <2>2. CASE api'.at = "detach_input"
    <3>1. PICK j \in Ifaces : /\ j = api'.iface /\ j # i /\ Published(j)
                             /\ Input(j) \in linked /\ Output(j) \in linked
      BY <2>2, <1>1, <1>2, <1>4 DEF Inv, StageInv
    <3>2. Live(j) /\ ~iface_rcu[j].queued  BY <3>1 DEF Inv, QueuedInv, PublishedInv, Published
    <3> QED BY <2>2, <3>1, <3>2, <1>1, <1>4, <1>9 DEF ApiInv, lists, Building, Leaving, Paired
  <2> QED BY <2>1, <2>2, <1>4
<1>17. StageInv'
  BY <1>1, <1>2, <1>4, <1>9 DEF Inv, StageInv, lists, Building, Leaving
<1>18. ListInv'  BY <1>1 DEF Inv, ListInv, lists, load
<1>19. PeersInv'
  <2>1. \A j, k \in Ifaces : Mated(j, k)' <=> Mated(j, k)  BY <1>1, <1>9 DEF Mated, fields
  <2>2. \A j \in Ifaces : Published(j)' /\ has_peer_device[j] => \E k \in Ifaces : Mated(j, k)'
    BY <2>1, <1>9 DEF Inv, PeersInv
  <2>3. api'.at = "detach_input" => ~has_peer_device[api'.iface]
    BY <1>1, <1>4, NoneIsNoNode DEF Inv, PeersInv
  <2> QED BY <2>2, <2>3, <1>1, <1>4, <1>8 DEF Inv, PeersInv, Building, Leaving, Paired, fields
<1>20. WalkInv'
  <2>1. at' = at /\ next' = next /\ linked' = linked /\ \A m \in Nodes : next[m] \in Nodes \cup {None}
    BY <1>1 DEF Inv, Types, lists, lcores
  <2>2. \A k \in LCores : at[k] # None => k \in Reading  BY DEF Reading
  <2>3. \A k \in LCores, m \in Nodes : at[k] # None => (Reader(k, m)' <=> Reader(k, m) \/ m[1] = i)
    BY <1>1, <1>2, <1>8, <2>2 DEF Reader, fields
  <2>4. \A m \in Nodes : Detaching(m) <=> m[1] = i
    BY <1>1, <1>2 DEF Detaching, OwnNodes
  <2>5. \A m \in Nodes : ~Detaching(m)'  BY <1>4 DEF Detaching
  <2>6. \A k \in LCores, m \in Nodes : at[k] # None /\ Safe(k, m) => Safe(k, m)'
    BY <2>1, <2>3, <2>4 DEF Safe
  <2>7. \A k \in LCores : at[k] # None =>
          \A m \in Nodes : Reader(k, m)' /\ next[m] # None => Safe(k, next[m])
    BY <2>1, <2>3, <2>4 DEF Inv, WalkInv, Safe
  <2>8. \A k \in LCores : at[k] # None => Safe(k, at[k]) /\ at[k] \in Nodes
    BY DEF Inv, Types, WalkInv
  <2>9. \A k \in LCores, o \in Nodes : o = at[k] => Safe(k, o)'  BY <2>6, <2>8
  <2>10. \A k \in LCores : at[k] # None =>
          \A m, o \in Nodes : Reader(k, m)' /\ o = next[m] => Safe(k, o)'
    BY <2>6, <2>7
  <2> QED BY <2>1, <2>5, <2>8, <2>9, <2>10 DEF WalkInv
<1>21. FoundInv'
  <2>1. \A l \in LCores, j \in Ifaces : Found(l, j) => Found(l, j)'
    BY <1>1, <1>9 DEF Found, lcores
  <2> QED BY <1>1, <2>1 DEF Inv, Types, FoundInv, lcores
<1> QED BY <1>7, <1>10, <1>11, <1>12, <1>13, <1>14, <1>15, <1>16, <1>17, <1>18, <1>19, <1>20, <1>21
        DEF Inv

LEMMA ReturnKeepsInv == Inv /\ Return => Inv'
<1> SUFFICES ASSUME Inv, Return PROVE Inv'  OBVIOUS
<1> USE NodesSplit, NoneIsNoNode
<1>1. /\ UNCHANGED <<memory, fields, global_e3iface_array, indices, load, lists, lcores>>
      /\ api.at = "return"
      /\ api' = [at |-> "idle", iface |-> None, other |-> None, slow_path |-> FALSE]
  BY DEF Return, Idle
<1>2. PICK gone : gone = {Master} /\ Struck(gone)
  <2>1. \E gone : gone = {Master} /\ Struck(gone)  BY QuiescentStateStrikes DEF Return, Inv
  <2> QED BY <2>1
<1>3. Types'
  <2>1. api' \in [at : Steps, iface : Ifaces \cup {None}, other : Ifaces \cup {None},
                  slow_path : BOOLEAN]
    BY <1>1 DEF Steps
  <2> QED BY <2>1, <1>1, <1>2 DEF Inv, Types, Struck, memory, fields, indices, load, lists, lcores
<1>4. Reading' = Reading \ gone
  BY <1>1, <1>2, LCoresAssumption DEF Reading, lcores
<1>5. UnusedInv' /\ LiveInv' /\ FreedInv' /\ QueuedInv' /\ NodeRcuInv' /\ PublishedInv'
      /\ PortsInv' /\ ListInv'
  BY <1>1, <1>2, <1>4, StruckKeeps
<1>6. api'.at = "idle" /\ api'.iface = None /\ api'.other = None  BY <1>1
<1>7. ApiInv' /\ StageInv' /\ PeersInv'
  <2>1. ApiInv'  BY <1>6 DEF ApiInv, Building, Leaving, Paired
  <2>2. StageInv'
    BY <1>1, <1>2, <1>6 DEF Inv, StageInv, Struck, memory, lists, Building, Leaving, Live, Published
  <2>3. PeersInv'
    BY <1>1, <1>6 DEF Inv, PeersInv, memory, fields, Building, Leaving, Published, Mated
  <2> QED BY <2>1, <2>2, <2>3
<1>8. WalkInv' /\ FoundInv'
  <2>1. \A k \in LCores : k \notin gone  BY <1>2, LCoresAssumption
  <2>2. \A k \in LCores, n \in Nodes : Reader(k, n)' <=> Reader(k, n)
    BY <1>1, <1>2, <2>1 DEF Struck, Reader, memory, fields
  <2>3. \A n \in Nodes : ~Detaching(n)' /\ ~Detaching(n)  BY <1>1, <1>6 DEF Detaching
  <2>4. \A k \in LCores, n \in Nodes : Safe(k, n)' <=> Safe(k, n)
    BY <1>1, <2>2, <2>3 DEF Safe, lists
  <2>5. next' = next /\ linked' = linked /\ at' = at  BY <1>1 DEF lists, lcores
  <2>6. \A n \in Nodes : next[n] \in Nodes \cup {None}  BY DEF Inv, Types
  <2>7. \A k \in LCores : at[k] \in Nodes \cup {None}  BY DEF Inv, Types
  <2>8. WalkInv'
    <3>1. \A k \in LCores, o \in Nodes : o = at[k] => Safe(k, o)'
      BY <2>4 DEF Inv, WalkInv
    <3>2. \A k \in LCores : at[k] # None =>
            \A m, o \in Nodes : Reader(k, m)' /\ o = next[m] => Safe(k, o)'
      BY <2>2, <2>4 DEF Inv, WalkInv
    <3> QED BY <3>1, <3>2, <2>3, <2>5, <2>6, <2>7 DEF WalkInv
  <2>9. FoundInv'
    <3>1. \A k \in LCores, i \in Ifaces : Found(k, i) => Found(k, i)'
      BY <1>1, <1>2, <2>1 DEF Found, Struck, Published, lcores
    <3> QED BY <1>1, <3>1 DEF Inv, Types, FoundInv, lcores
  <2> QED BY <2>8, <2>9
<1> QED BY <1>3, <1>5, <1>7, <1>8 DEF Inv

\* The callback of an interface runs when nobody can hold it: it finds its own nodes
\* at its indices and queues their callbacks.
LEMMA IfaceCallbackKeepsInv == \A i \in Ifaces : Inv /\ IfaceCallback(i) => Inv'
<1> SUFFICES ASSUME NEW i \in Ifaces, Inv, IfaceCallback(i) PROVE Inv'  OBVIOUS
<1> USE NodesSplit, NoneIsNoNode
<1>1. UNCHANGED <<node_mem, fields, global_e3iface_array, node_index, load, lists, lcores, api>>
  BY DEF IfaceCallback
<1>2. /\ iface_rcu[i].queued /\ iface_rcu[i].readers = {}
      /\ Live(i) /\ ~Published(i) /\ Input(i) \notin linked /\ Output(i) \notin linked
  BY DEF IfaceCallback, Inv, QueuedInv, OwnNodes
<1>3. /\ gnode_array' = [gnode_array EXCEPT ![node_index[Input(i)]] = None,
                                            ![node_index[Output(i)]] = None]
      /\ node_rcu' = [node_rcu EXCEPT ![Input(i)] = CallRcu, ![Output(i)] = CallRcu]
      /\ iface_rcu' = [iface_rcu EXCEPT ![i] = NotQueued]
      /\ iface_mem' = [iface_mem EXCEPT ![i] = "freed"]
  BY DEF IfaceCallback
<1>4. Reading' = Reading  BY <1>1 DEF Reading, lcores
<1>5. /\ iface_mem' \in [Ifaces -> Memory] /\ iface_rcu' \in [Ifaces -> RcuHead]
      /\ gnode_array' \in [0 .. NrNodes - 1 -> Nodes \cup {None}]
      /\ node_rcu' \in [Nodes -> RcuHead]
  <2>1. iface_mem' \in [Ifaces -> Memory]  BY <1>3 DEF Inv, Types, Memory
  <2>2. gnode_array' \in [0 .. NrNodes - 1 -> Nodes \cup {None}]  BY <1>3 DEF Inv, Types
  <2>3. node_rcu' \in [Nodes -> RcuHead]  BY <1>3, HeadTypes DEF Inv, Types
  <2>4. iface_rcu' \in [Ifaces -> RcuHead]  BY <1>3, HeadTypes DEF Inv, Types
  <2> QED BY <2>1, <2>2, <2>3, <2>4
<1>6. Types'
  BY <1>1, <1>5 DEF Inv, Types, fields, indices, load, lists, lcores
<1>7. /\ iface_mem'[i] = "freed" /\ \A j \in Ifaces \ {i} : iface_mem'[j] = iface_mem[j]
      /\ iface_rcu'[i] = NotQueued /\ \A j \in Ifaces \ {i} : iface_rcu'[j] = iface_rcu[j]
      /\ \A n \in Nodes : n[1] # i => node_rcu'[n] = node_rcu[n]
      /\ \A n \in Nodes : n[1] = i => node_rcu'[n].queued /\ node_rcu'[n].readers = Reading
      /\ \A n \in Nodes : n[1] = i => node_mem[n] = "live"
  <2>1. iface_mem'[i] = "freed" /\ \A j \in Ifaces \ {i} : iface_mem'[j] = iface_mem[j]
    BY <1>3 DEF Inv, Types
  <2>2. \A n \in Nodes : n = Input(i) \/ n = Output(i) <=> n[1] = i  BY DEF OwnNodes
  <2>3. \A n \in Nodes : n[1] # i => node_rcu'[n] = node_rcu[n]
    BY <1>3, <2>2 DEF Inv, Types
  <2>4. \A n \in Nodes : n[1] = i => node_rcu'[n] = CallRcu
    BY <1>3, <2>2 DEF Inv, Types
  <2>5. iface_rcu'[i] = NotQueued /\ \A j \in Ifaces \ {i} : iface_rcu'[j] = iface_rcu[j]
    BY <1>3 DEF Inv, Types
  <2>6. \A n \in Nodes : n[1] = i => node_mem[n] = "live"
    BY <1>2, <2>2 DEF Inv, LiveInv, OwnNodes
  <2> QED BY <2>1, <2>3, <2>4, <2>5, <2>6, HeadTypes
<1>8. /\ \A j \in Ifaces : Live(j)' <=> Live(j) /\ j # i
      /\ \A j \in Ifaces : Published(j)' <=> Published(j)
  BY <1>1, <1>7 DEF Live, Published
<1>9. UnusedInv'
  BY <1>1, <1>7 DEF Inv, UnusedInv, OwnNodes, fields, lists
<1>10. LiveInv'
  <2>1. \A j \in Ifaces \ {i} : Live(j) => \A n \in OwnNodes(j) :
          gnode_array'[node_index[n]] = n
    <3> SUFFICES ASSUME NEW j \in Ifaces \ {i}, Live(j), NEW n \in OwnNodes(j)
                 PROVE  gnode_array'[node_index[n]] = n
      OBVIOUS
    <3>1. n \in Nodes /\ n # Input(i) /\ n # Output(i)  BY DEF OwnNodes
    <3>2. /\ gnode_array[node_index[n]] = n
          /\ gnode_array[node_index[Input(i)]] = Input(i)
          /\ gnode_array[node_index[Output(i)]] = Output(i)
      BY <1>2 DEF Inv, LiveInv, OwnNodes
    <3>3. node_index[n] # node_index[Input(i)] /\ node_index[n] # node_index[Output(i)]
          /\ node_index[n] \in 0 .. NrNodes - 1
      BY <3>1, <3>2 DEF Inv, Types
    <3> QED BY <3>2, <3>3, <1>3 DEF Inv, Types
  <2>2. \A j \in Ifaces \ {i} : \A n \in OwnNodes(j) : n \in Nodes /\ n[1] = j  BY DEF OwnNodes
  <2> QED BY <2>1, <2>2, <1>1, <1>7, <1>8 DEF Inv, LiveInv, fields, load
<1>11. FreedInv'
  BY <1>1, <1>2, <1>7 DEF Inv, FreedInv, OwnNodes, lists
<1>12. QueuedInv'
  BY <1>1, <1>4, <1>7, <1>8, HeadTypes DEF Inv, QueuedInv, lists
<1>13. NodeRcuInv'  BY <1>4, <1>7 DEF Inv, NodeRcuInv
<1>14. PublishedInv' /\ PortsInv'
  BY <1>1, <1>2, <1>8 DEF Inv, PublishedInv, PortsInv, fields, Published
<1>15. ApiInv'
  <2>1. api.iface \in Ifaces \cup {None} /\ api.other \in Ifaces \cup {None}  BY DEF Inv, Types
  <2>2. \A j \in Ifaces : Live(j) /\ ~iface_rcu[j].queued => iface_mem'[j] = "live"
                                                            /\ ~iface_rcu'[j].queued
    BY <1>2, <1>7, <1>8 DEF Live
  <2>3. api' = api /\ linked' = linked /\ next' = next  BY <1>1 DEF lists
  <2> QED BY <2>1, <2>2, <2>3, <1>8, NoneIsNoNode DEF Inv, ApiInv, Paired, Building, Leaving, Live
<1>16. StageInv'
  BY <1>1, <1>2, <1>7, <1>8 DEF Inv, StageInv, lists
<1>17. ListInv'  BY <1>1 DEF Inv, ListInv, lists, load
<1>18. PeersInv'
  <2>1. \A j, k \in Ifaces : Mated(j, k)' <=> Mated(j, k)  BY <1>1, <1>8 DEF Mated, fields
  <2>2. \A j \in Ifaces : Published(j)' /\ has_peer_device[j] => \E k \in Ifaces : Mated(j, k)'
    BY <2>1, <1>8 DEF Inv, PeersInv
  <2> QED BY <2>2, <1>1, <1>7 DEF Inv, PeersInv, fields
<1>19. WalkInv'
  <2>1. at' = at /\ next' = next /\ linked' = linked /\ \A m \in Nodes : next[m] \in Nodes \cup {None}
    BY <1>1 DEF Inv, Types, lists, lcores
  <2>2. \A k \in LCores, m \in Nodes : Reader(k, m)' <=> Reader(k, m)
    BY <1>1, <1>2, <1>7, HeadTypes DEF Reader, fields
  <2>3. \A m \in Nodes : Detaching(m)' <=> Detaching(m)  BY <1>1 DEF Detaching
  <2>4. \A k \in LCores, m \in Nodes : Safe(k, m)' <=> Safe(k, m)
    BY <2>1, <2>2, <2>3 DEF Safe
  <2>5. \A k \in LCores : at[k] \in Nodes \cup {None}  BY DEF Inv, Types
  <2>6. \A k \in LCores, o \in Nodes : o = at[k] => Safe(k, o)'
    BY <2>4 DEF Inv, WalkInv
  <2>7. \A k \in LCores : at[k] # None =>
          \A m, o \in Nodes : Reader(k, m)' /\ o = next[m] => Safe(k, o)'
    BY <2>2, <2>4 DEF Inv, WalkInv
  <2>8. \A m, o \in Nodes : Detaching(m)' /\ o = next[m] => o \in linked \/ Detaching(o)'
    BY <2>3 DEF Inv, WalkInv
  <2> QED BY <2>1, <2>5, <2>6, <2>7, <2>8 DEF WalkInv
<1>20. FoundInv'
  <2>1. \A l \in LCores, j \in Ifaces : Found(l, j) => Found(l, j)'
    BY <1>1, <1>2, <1>7, <1>8 DEF Found, lcores
  <2> QED BY <1>1, <2>1 DEF Inv, Types, FoundInv, lcores
<1> QED BY <1>6, <1>9, <1>10, <1>11, <1>12, <1>13, <1>14, <1>15, <1>16, <1>17, <1>18, <1>19, <1>20
        DEF Inv

LEMMA NodeCallbackKeepsInv == \A n \in Nodes : Inv /\ NodeCallback(n) => Inv'
<1> SUFFICES ASSUME NEW n \in Nodes, Inv, NodeCallback(n) PROVE Inv'  OBVIOUS
<1> USE NodesSplit, NoneIsNoNode
<1>1. UNCHANGED <<iface_mem, fields, global_e3iface_array, indices, load, lists, iface_rcu, lcores,
                  api>>
  BY DEF NodeCallback
<1>2. /\ node_rcu[n].queued /\ node_rcu[n].readers = {}
      /\ node_rcu' = [node_rcu EXCEPT ![n] = NotQueued]
      /\ node_mem' = [node_mem EXCEPT ![n] = "freed"]
  BY DEF NodeCallback
<1>3. n[1] \in Ifaces /\ iface_mem[n[1]] = "freed"
  <2>1. n[1] \in Ifaces /\ n \in OwnNodes(n[1])  OBVIOUS
  <2>2. node_rcu[n] # NotQueued  BY <1>2, HeadTypes
  <2>3. iface_mem[n[1]] # "unused"  BY <2>1, <2>2 DEF Inv, UnusedInv
  <2>4. ~Live(n[1])  BY <2>1, <2>2 DEF Inv, LiveInv
  <2> QED BY <2>1, <2>3, <2>4 DEF Inv, Types, Memory, Live
<1>4. Reading' = Reading  BY <1>1 DEF Reading, lcores
<1>5. Types'
  <2>1. node_mem' \in [Nodes -> Memory]  BY <1>2 DEF Inv, Types, Memory
  <2>2. node_rcu' \in [Nodes -> RcuHead]  BY <1>2, HeadTypes DEF Inv, Types
  <2> QED BY <2>1, <2>2, <1>1 DEF Inv, Types, fields, indices, load, lists, lcores
<1>6. /\ node_mem'[n] = "freed" /\ node_rcu'[n] = NotQueued
      /\ \A m \in Nodes \ {n} : node_mem'[m] = node_mem[m] /\ node_rcu'[m] = node_rcu[m]
  BY <1>2 DEF Inv, Types
<1>7. /\ \A j \in Ifaces : Live(j)' <=> Live(j)
      /\ \A j \in Ifaces : Published(j)' <=> Published(j)
      /\ \A j \in Ifaces : j # n[1] => \A m \in OwnNodes(j) : m \in Nodes \ {n}
  BY <1>1 DEF Live, Published, OwnNodes
<1>8. UnusedInv' /\ LiveInv' /\ FreedInv'
  <2>1. UnusedInv'  BY <1>1, <1>3, <1>6, <1>7 DEF Inv, UnusedInv, fields, lists
  <2>2. LiveInv'  BY <1>1, <1>3, <1>6, <1>7 DEF Inv, LiveInv, Live, fields, indices, load
  <2>3. FreedInv'  BY <1>1 DEF Inv, FreedInv, lists
  <2> QED BY <2>1, <2>2, <2>3
<1>9. QueuedInv'  BY <1>1, <1>4, <1>7 DEF Inv, QueuedInv, lists
<1>10. NodeRcuInv'  BY <1>4, <1>6, HeadTypes DEF Inv, NodeRcuInv
<1>11. PublishedInv' /\ PortsInv' /\ ListInv' /\ FoundInv'
  BY <1>1 DEF Inv, PublishedInv, PortsInv, ListInv, FoundInv, Live, Found, Published, fields,
    load, lists, lcores
<1>12. ApiInv' /\ StageInv' /\ PeersInv'
  BY <1>1 DEF Inv, ApiInv, StageInv, PeersInv, Live, Published, Mated, fields, lists
<1>13. WalkInv'
  <2>1. \A k \in LCores, m \in Nodes : Reader(k, m)' <=> Reader(k, m)
    <3>1. ~iface_rcu[n[1]].queued /\ iface_rcu[n[1]].readers = {}
      BY <1>3, HeadTypes DEF Inv, FreedInv
    <3>2. \A k \in LCores : ~Reader(k, n)  BY <3>1, <1>2 DEF Reader
    <3>3. \A k \in LCores : ~Reader(k, n)'
      BY <3>1, <1>1, <1>6, HeadTypes DEF Reader
    <3>4. \A k \in LCores, m \in Nodes \ {n} : Reader(k, m)' <=> Reader(k, m)
      BY <1>1, <1>6 DEF Reader, fields
    <3> QED BY <3>2, <3>3, <3>4
  <2>2. \A m \in Nodes : Detaching(m)' <=> Detaching(m)  BY <1>1 DEF Detaching
  <2>3. at' = at /\ next' = next /\ linked' = linked /\ \A m \in Nodes : next[m] \in Nodes \cup {None}
    BY <1>1 DEF Inv, Types, lists, lcores
  <2>4. \A k \in LCores, m \in Nodes : Safe(k, m)' <=> Safe(k, m)
    BY <2>1, <2>2, <2>3 DEF Safe
  <2>5. \A k \in LCores : at[k] \in Nodes \cup {None}  BY DEF Inv, Types
  <2>6. \A k \in LCores, o \in Nodes : o = at[k] => Safe(k, o)'
    BY <2>4 DEF Inv, WalkInv
  <2>7. \A k \in LCores : at[k] # None =>
          \A m, o \in Nodes : Reader(k, m)' /\ o = next[m] => Safe(k, o)'
    BY <2>1, <2>4 DEF Inv, WalkInv
  <2>8. \A m, o \in Nodes : Detaching(m)' /\ o = next[m] => o \in linked \/ Detaching(o)'
    BY <2>2 DEF Inv, WalkInv
  <2> QED BY <2>3, <2>5, <2>6, <2>7, <2>8 DEF WalkInv
<1> QED BY <1>5, <1>8, <1>9, <1>10, <1>11, <1>12, <1>13 DEF Inv

(***************************************************************************)
(* Registration.                                                           *)
(***************************************************************************)

\* Interfaces whose nodes could not be registered: never seen by an lcore.
Stillborn(dead) ==
  /\ iface_mem' \in [Ifaces -> Memory] /\ node_mem' \in [Nodes -> Memory]
  /\ node_rcu' \in [Nodes -> RcuHead]
  /\ \A i \in dead : iface_mem[i] = "unused" /\ iface_mem'[i] = "freed"
  /\ \A i \in Ifaces \ dead : iface_mem'[i] = iface_mem[i]
  /\ \A n \in Nodes : n[1] \notin dead => node_mem'[n] = node_mem[n] /\ node_rcu'[n] = node_rcu[n]
  /\ \A n \in Nodes : node_rcu'[n] = node_rcu[n] \/ node_rcu'[n] = CallRcu

LEMMA RegisterNodesFailsFacts ==
  ASSUME Inv, NEW i \in Ifaces, RegisterNodesFails(i) PROVE Stillborn({i})
<1> USE NodesSplit
<1>1. /\ iface_mem[i] = "unused"
      /\ node_rcu' = [node_rcu EXCEPT ![Input(i)] = CallRcu]
      /\ iface_mem' = [iface_mem EXCEPT ![i] = "freed"]
      /\ node_mem' = [node_mem EXCEPT ![Input(i)] = "freed", ![Output(i)] = "freed"]
  BY DEF RegisterNodesFails
<1>2. iface_mem' \in [Ifaces -> Memory] /\ node_mem' \in [Nodes -> Memory]
  BY <1>1 DEF Inv, Types, Memory
<1>3. node_rcu' \in [Nodes -> RcuHead]  BY <1>1, HeadTypes DEF Inv, Types
<1>4. iface_mem'[i] = "freed" /\ \A j \in Ifaces \ {i} : iface_mem'[j] = iface_mem[j]
  BY <1>1 DEF Inv, Types
<1>5. \A n \in Nodes : n[1] # i => node_mem'[n] = node_mem[n] /\ node_rcu'[n] = node_rcu[n]
  BY <1>1 DEF Inv, Types
<1>6. \A n \in Nodes : node_rcu'[n] = node_rcu[n] \/ node_rcu'[n] = CallRcu
  BY <1>1 DEF Inv, Types
<1> QED BY <1>1, <1>2, <1>3, <1>4, <1>5, <1>6 DEF Stillborn

LEMMA RegisterFailsKeepsInv == Inv /\ RegisterFails => Inv'
<1> SUFFICES ASSUME Inv, RegisterFails PROVE Inv'  OBVIOUS
<1> USE NodesSplit, NoneIsNoNode
<1>1. /\ UNCHANGED <<fields, global_e3iface_array, indices, load, lists, iface_rcu, lcores>>
      /\ api.at = "register"
  BY DEF RegisterFails, RegisterNodesFails, callbacks
<1>2. \E dead \in SUBSET Ifaces : Stillborn(dead)
  <2>1. CASE \E i \in Ifaces : RegisterNodesFails(i)
    BY <2>1, RegisterNodesFailsFacts
  <2>2. CASE UNCHANGED <<memory, callbacks>>
    <3>1. Stillborn({})  BY <2>2 DEF Stillborn, Inv, Types, memory, callbacks
    <3> QED BY <3>1
  <2> QED BY <2>1, <2>2 DEF RegisterFails
<1>3. PICK dead \in SUBSET Ifaces : Stillborn(dead)  BY <1>2
<1>4. /\ api' \in [at : Steps, iface : Ifaces \cup {None}, other : Ifaces \cup {None},
                   slow_path : BOOLEAN]
      /\ api'.other = None
      /\ \/ api.other # None /\ api'.at = "detach_input" /\ api'.iface = api.other
         \/ api.other = None /\ api'.at = "return" /\ api'.iface = api.iface
  <2>1. CASE api.other # None /\ api' = [Idle EXCEPT !.at = "detach_input", !.iface = api.other]
    BY <2>1 DEF Inv, Types, Steps, Idle
  <2>2. CASE api.other = None /\ api' = [api EXCEPT !.at = "return"]
    BY <2>2 DEF Inv, Types, Steps
  <2> QED BY <2>1, <2>2 DEF RegisterFails
<1>5. Reading' = Reading  BY <1>1, <1>4 DEF Reading, lcores
<1>6. Types'
  BY <1>1, <1>3, <1>4 DEF Inv, Types, Stillborn, fields, indices, load, lists, lcores
<1>7. /\ \A j \in Ifaces : Live(j)' <=> Live(j)
      /\ \A j \in Ifaces : Live(j) => j \notin dead
      /\ \A j \in Ifaces : Published(j)' <=> Published(j)
      /\ \A j \in Ifaces : iface_mem'[j] = "unused" => iface_mem[j] = "unused" /\ j \notin dead
      /\ \A j \in Ifaces \ dead : \A n \in OwnNodes(j) :
           node_mem'[n] = node_mem[n] /\ node_rcu'[n] = node_rcu[n]
  BY <1>1, <1>3 DEF Live, Published, Stillborn, OwnNodes
<1>8. UnusedInv' /\ LiveInv' /\ FreedInv'
  <2>1. UnusedInv'  BY <1>1, <1>7 DEF Inv, UnusedInv, fields, lists
  <2>2. LiveInv'  BY <1>1, <1>7 DEF Inv, LiveInv, fields, indices, load
  <2>3. \A i \in dead : iface_rcu[i] = NotQueued /\ \A n \in OwnNodes(i) : n \notin linked
    BY <1>3 DEF Stillborn, Inv, UnusedInv
  <2>4. FreedInv'  BY <2>3, <1>1, <1>3 DEF Inv, FreedInv, Stillborn, lists
  <2> QED BY <2>1, <2>2, <2>4
<1>9. QueuedInv'  BY <1>1, <1>5, <1>7 DEF Inv, QueuedInv, lists
<1>10. NodeRcuInv'  BY <1>3, <1>5, HeadTypes DEF Inv, NodeRcuInv, Stillborn
<1>11. PublishedInv' /\ PortsInv'
  BY <1>1, <1>7 DEF Inv, PublishedInv, PortsInv, fields
<1>12. ListInv'  BY <1>1 DEF Inv, ListInv, lists, load
<1>13. ApiInv'
  <2>1. CASE api.other # None
    <3>1. /\ api.other \in Ifaces /\ Published(api.other) /\ api.other # api.iface
      BY <2>1 DEF Inv, Types, ApiInv
    <3>2. Live(api.other)  BY <3>1 DEF Inv, PublishedInv, Published
    <3>3. /\ ~iface_rcu[api.other].queued
          /\ Input(api.other) \in linked /\ Output(api.other) \in linked
      BY <3>1 DEF Inv, QueuedInv, StageInv
    <3> QED BY <2>1, <3>1, <3>2, <3>3, <1>1, <1>4, <1>7 DEF ApiInv, Building, Leaving, Paired,
                  lists
  <2>2. CASE api.other = None
    BY <2>2, <1>4 DEF ApiInv, Building, Leaving, Paired
  <2> QED BY <2>1, <2>2
<1>14. StageInv'
  BY <1>1, <1>4, <1>7 DEF Inv, StageInv, lists, Building, Leaving
<1>15. PeersInv'
  <2>1. \A j, k \in Ifaces : Mated(j, k)' <=> Mated(j, k)  BY <1>1, <1>7 DEF Mated, fields
  <2>2. \A j \in Ifaces : Published(j)' /\ has_peer_device[j] => \E k \in Ifaces : Mated(j, k)'
    BY <2>1, <1>7 DEF Inv, PeersInv
  <2> QED BY <2>2, <1>1, <1>4, <1>7 DEF Inv, PeersInv, fields, Building, Leaving
<1>16. WalkInv'
  <2>1. at' = at /\ next' = next /\ linked' = linked /\ \A m \in Nodes : next[m] \in Nodes \cup {None}
    BY <1>1 DEF Inv, Types, lists, lcores
  <2>2. \A k \in LCores, m \in Nodes : Reader(k, m)' <=> Reader(k, m)
    <3> SUFFICES ASSUME NEW k \in LCores, NEW m \in Nodes PROVE Reader(k, m)' <=> Reader(k, m)
      OBVIOUS
    <3>1. CASE m[1] \in dead
      <4>1. port_id[m[1]] = None /\ iface_rcu[m[1]].readers = {}
        BY <3>1, <1>3, HeadTypes DEF Stillborn, Inv, UnusedInv
      <4> QED BY <4>1, <1>1 DEF Reader, fields
    <3>2. CASE m[1] \notin dead  BY <3>2, <1>1, <1>3 DEF Stillborn, Reader, fields
    <3> QED BY <3>1, <3>2
  <2>3. \A m \in Nodes : ~Detaching(m)' /\ ~Detaching(m)  BY <1>1, <1>4 DEF Detaching
  <2>4. \A k \in LCores, m \in Nodes : Safe(k, m)' <=> Safe(k, m)
    BY <2>1, <2>2, <2>3 DEF Safe
  <2>5. \A k \in LCores : at[k] \in Nodes \cup {None}  BY DEF Inv, Types
  <2>6. \A k \in LCores, o \in Nodes : o = at[k] => Safe(k, o)'
    BY <2>4 DEF Inv, WalkInv
  <2>7. \A k \in LCores : at[k] # None =>
          \A m, o \in Nodes : Reader(k, m)' /\ o = next[m] => Safe(k, o)'
    BY <2>2, <2>4 DEF Inv, WalkInv
  <2> QED BY <2>1, <2>3, <2>5, <2>6, <2>7 DEF WalkInv
<1>17. FoundInv'
  <2>1. \A l \in LCores, j \in Ifaces : Found(l, j) => Found(l, j)'
    BY <1>1, <1>7 DEF Found, lcores
  <2> QED BY <1>1, <2>1 DEF Inv, Types, FoundInv, lcores
<1> QED BY <1>6, <1>8, <1>9, <1>10, <1>11, <1>12, <1>13, <1>14, <1>15, <1>16, <1>17 DEF Inv

LEMMA RegisterKeepsInv == \A i \in Ifaces : Inv /\ Register(i) => Inv'
<1> SUFFICES ASSUME NEW i \in Ifaces, Inv, Register(i) PROVE Inv'  OBVIOUS
<1> USE NodesSplit, NoneIsNoNode
<1>1. /\ UNCHANGED <<peer_port_id, has_peer_device, global_e3iface_array, lists, callbacks, lcores>>
      /\ api.at = "register" /\ api' = [api EXCEPT !.at = "attach_input", !.iface = i]
      /\ iface_mem[i] = "unused"
      /\ iface_mem' = [iface_mem EXCEPT ![i] = "live"]
      /\ node_mem' = [node_mem EXCEPT ![Input(i)] = "live", ![Output(i)] = "live"]
  BY DEF Register, RegisterNodes
<1>2. PICK p \in Ports : FreePort(p) /\ port_id' = [port_id EXCEPT ![i] = p]
  BY DEF Register, RegisterNodes
<1>3. PICK l, m \in LCores :
        /\ lcore_id' = [lcore_id EXCEPT ![Input(i)] = l, ![Output(i)] = m]
        /\ attached_io_nodes' = [k \in LCores |-> attached_io_nodes[k]
             + (IF k = l THEN 1 ELSE 0) + (IF k = m THEN 1 ELSE 0)]
  BY DEF Register, RegisterNodes
<1>4. PICK x, y \in 0 .. NrNodes - 1 :
        /\ gnode_array[x] = None /\ gnode_array[y] = None /\ x # y
        /\ gnode_array' = [gnode_array EXCEPT ![x] = Input(i), ![y] = Output(i)]
        /\ node_index' = [node_index EXCEPT ![Input(i)] = x, ![Output(i)] = y]
  <2>1. PICK x, y \in 0 .. NrNodes - 1 :
        /\ IsFreeSlot(x, {}) /\ IsFreeSlot(y, {x})
        /\ gnode_array' = [gnode_array EXCEPT ![x] = Input(i), ![y] = Output(i)]
        /\ node_index' = [node_index EXCEPT ![Input(i)] = x, ![Output(i)] = y]
    BY DEF Register, RegisterNodes
  <2>2. gnode_array[x] = None /\ gnode_array[y] = None /\ x # y  BY <2>1 DEF IsFreeSlot
  <2> QED BY <2>1, <2>2
<1>5. /\ api' \in [at : Steps, iface : Ifaces \cup {None}, other : Ifaces \cup {None},
                   slow_path : BOOLEAN]
      /\ api'.at = "attach_input" /\ api'.iface = i /\ api'.other = api.other
  BY <1>1 DEF Inv, Types, Steps
<1>6. Reading' = Reading  BY <1>1, <1>5 DEF Reading, lcores
<1>7. Types'
  <2>1. iface_mem' \in [Ifaces -> Memory] /\ node_mem' \in [Nodes -> Memory]
    BY <1>1 DEF Inv, Types, Memory
  <2>2. port_id' \in [Ifaces -> Ports \cup {None}]  BY <1>2 DEF Inv, Types
  <2>3. lcore_id' \in [Nodes -> LCores \cup {None}]  BY <1>3 DEF Inv, Types
  <2>4. attached_io_nodes' \in [LCores -> Int]  BY <1>3 DEF Inv, Types
  <2>5. gnode_array' \in [0 .. NrNodes - 1 -> Nodes \cup {None}]  BY <1>4 DEF Inv, Types
  <2>6. node_index' \in [Nodes -> 0 .. NrNodes - 1]  BY <1>4 DEF Inv, Types
  <2> QED BY <2>1, <2>2, <2>3, <2>4, <2>5, <2>6, <1>1, <1>5 DEF Inv, Types, lists, callbacks, lcores
<1>8. /\ iface_rcu[i] = NotQueued /\ port_id[i] = None /\ ~has_peer_device[i]
      /\ \A n \in OwnNodes(i) :
           node_mem[n] = "unused" /\ node_rcu[n] = NotQueued /\ n \notin linked /\ next[n] = None
  BY <1>1 DEF Inv, UnusedInv, PeersInv
<1>9. /\ iface_mem'[i] = "live" /\ \A j \in Ifaces \ {i} : iface_mem'[j] = iface_mem[j]
      /\ port_id'[i] = p /\ \A j \in Ifaces \ {i} : port_id'[j] = port_id[j]
      /\ \A n \in OwnNodes(i) : n \in Nodes /\ n[1] = i /\ node_mem'[n] = "live"
                                /\ lcore_id'[n] \in LCores /\ gnode_array'[node_index'[n]] = n
      /\ \A n \in Nodes : n[1] # i => /\ node_mem'[n] = node_mem[n] /\ lcore_id'[n] = lcore_id[n]
                                      /\ node_index'[n] = node_index[n]
  <2>1. /\ iface_mem'[i] = "live" /\ \A j \in Ifaces \ {i} : iface_mem'[j] = iface_mem[j]
        /\ port_id'[i] = p /\ \A j \in Ifaces \ {i} : port_id'[j] = port_id[j]
    BY <1>1, <1>2 DEF Inv, Types
  <2>2. \A n \in OwnNodes(i) : node_mem'[n] = "live"  BY <1>1 DEF OwnNodes, Inv, Types
  <2>3. \A n \in OwnNodes(i) : lcore_id'[n] \in LCores  BY <1>3 DEF OwnNodes, Inv, Types
  <2>4. \A n \in OwnNodes(i) : gnode_array'[node_index'[n]] = n
    <3>1. node_index'[Input(i)] = x /\ node_index'[Output(i)] = y  BY <1>4 DEF Inv, Types
    <3>2. gnode_array'[x] = Input(i) /\ gnode_array'[y] = Output(i)  BY <1>4 DEF Inv, Types
    <3> QED BY <3>1, <3>2 DEF OwnNodes
  <2>5. \A n \in Nodes : n[1] # i => node_mem'[n] = node_mem[n]  BY <1>1 DEF Inv, Types
  <2>6. \A n \in Nodes : n[1] # i => lcore_id'[n] = lcore_id[n]  BY <1>3 DEF Inv, Types
  <2>7. \A n \in Nodes : n[1] # i => node_index'[n] = node_index[n]  BY <1>4 DEF Inv, Types
  <2>8. \A n \in OwnNodes(i) : n \in Nodes /\ n[1] = i  BY DEF OwnNodes
  <2> QED BY <2>1, <2>2, <2>3, <2>4, <2>5, <2>6, <2>7, <2>8
<1>10. /\ \A j \in Ifaces : Live(j)' <=> Live(j) \/ j = i
       /\ \A j \in Ifaces : Published(j)' <=> Published(j)
       /\ ~Live(i) /\ ~Published(i)
  <2>1. ~Live(i) /\ ~Published(i)  BY <1>1 DEF Live, Published, Inv, PublishedInv
  <2> QED BY <2>1, <1>1, <1>9 DEF Live, Published
<1>11. UnusedInv' /\ FreedInv'
  <2>1. \A j \in Ifaces \ {i} : \A n \in OwnNodes(j) : n \in Nodes /\ n[1] # i
    BY DEF OwnNodes
  <2>2. linked' = linked /\ next' = next /\ iface_rcu' = iface_rcu /\ node_rcu' = node_rcu
    BY <1>1 DEF lists, callbacks
  <2>3. \A j \in Ifaces : iface_mem'[j] # "live" =>
          j # i /\ iface_mem'[j] = iface_mem[j] /\ port_id'[j] = port_id[j]
    BY <1>9
  <2>4. \A j \in Ifaces \ {i} : \A n \in OwnNodes(j) : node_mem'[n] = node_mem[n]
    BY <2>1, <1>9
  <2>5. UnusedInv'  BY <2>2, <2>3, <2>4 DEF Inv, UnusedInv
  <2>6. FreedInv'  BY <2>2, <2>3 DEF Inv, FreedInv
  <2> QED BY <2>5, <2>6
<1>12. LiveInv'
  <2> SUFFICES ASSUME NEW j \in Ifaces, Live(j)'
               PROVE  /\ port_id'[j] \in Ports
                      /\ \A n \in OwnNodes(j) :
                           /\ node_mem'[n] = "live" /\ node_rcu'[n] = NotQueued
                           /\ gnode_array'[node_index'[n]] = n /\ lcore_id'[n] \in LCores
    BY DEF LiveInv
  <2>1. CASE j = i  BY <2>1, <1>1, <1>8, <1>9 DEF callbacks
  <2>2. CASE j # i
    <3>1. Live(j)  BY <2>2, <1>10
    <3>2. \A n \in OwnNodes(j) : n \in Nodes /\ n[1] # i  BY <2>2 DEF OwnNodes
    <3>3. \A n \in OwnNodes(j) : gnode_array'[node_index[n]] = n
      <4> SUFFICES ASSUME NEW n \in OwnNodes(j) PROVE gnode_array'[node_index[n]] = n
        OBVIOUS
      <4>1. gnode_array[node_index[n]] = n /\ node_index[n] \in 0 .. NrNodes - 1
        BY <3>1, <3>2 DEF Inv, Types, LiveInv
      <4> QED BY <4>1, <3>2, <1>4 DEF Inv, Types
    <3>4. port_id'[j] = port_id[j] /\ node_rcu' = node_rcu  BY <2>2, <1>1, <1>9 DEF callbacks
    <3>5. \A n \in OwnNodes(j) : node_mem'[n] = node_mem[n] /\ lcore_id'[n] = lcore_id[n]
                                /\ node_index'[n] = node_index[n]
      BY <3>2, <1>9
    <3> QED BY <3>1, <3>3, <3>4, <3>5 DEF Inv, LiveInv
  <2> QED BY <2>1, <2>2
<1>13. QueuedInv'
  BY <1>1, <1>6, <1>8, <1>10 DEF Inv, QueuedInv, lists, callbacks
<1>14. NodeRcuInv'  BY <1>1, <1>6 DEF Inv, NodeRcuInv, callbacks
<1>15. PublishedInv'
  BY <1>1, <1>9, <1>10 DEF Inv, PublishedInv, Published
<1>16. PortsInv'
  <2>1. \A j \in Ifaces : Live(j) => port_id[j] # p
    BY <1>2 DEF FreePort, Attached, Live
  <2> QED BY <2>1, <1>9, <1>10 DEF Inv, PortsInv
<1>17. ApiInv'
  <2>1. api.other # None => api.other \in Ifaces /\ Published(api.other)
    BY DEF Inv, Types, ApiInv
  <2>2. \A n \in {Input(i), Output(i)} : n \notin linked' /\ next'[n] = None
    BY <1>1, <1>8 DEF OwnNodes, lists, Inv, UnusedInv
  <2>3. ~iface_rcu'[i].queued  BY <1>1, <1>8, HeadTypes DEF callbacks
  <2> QED BY <2>1, <2>2, <2>3, <1>5, <1>10 DEF ApiInv, Building, Leaving, Paired
<1>18. StageInv'
  BY <1>1, <1>5, <1>10 DEF Inv, StageInv, lists, callbacks, Building, Leaving
<1>19. ListInv'
  <2>1. \A n \in linked : n \in Nodes /\ lcore_id'[n] = lcore_id[n]
    BY <1>8, <1>9 DEF Inv, Types
  <2> QED BY <2>1, <1>1 DEF Inv, ListInv, lists
<1>20. PeersInv'
  <2>1. \A j, k \in Ifaces : Published(j) /\ Mated(j, k) => Mated(j, k)'
    BY <1>1, <1>9, <1>10 DEF Mated
  <2>2. \A j \in Ifaces : Published(j)' /\ has_peer_device[j] => \E k \in Ifaces : Mated(j, k)'
    BY <2>1, <1>10 DEF Inv, PeersInv
  <2>3. api.other # None => ~has_peer_device[api.other]  BY <1>1 DEF Inv, PeersInv
  <2> QED BY <2>2, <2>3, <1>1, <1>5, <1>8, <1>9 DEF Inv, PeersInv
<1>21. WalkInv'
  <2>1. at' = at /\ next' = next /\ linked' = linked /\ \A n \in Nodes : next[n] \in Nodes \cup {None}
    BY <1>1 DEF Inv, Types, lists, lcores
  <2>2. \A k \in LCores, n \in Nodes : Reader(k, n)' <=> Reader(k, n)
    <3> SUFFICES ASSUME NEW k \in LCores, NEW n \in Nodes PROVE Reader(k, n)' <=> Reader(k, n)
      OBVIOUS
    <3>1. CASE n[1] = i
      <4>1. n \in OwnNodes(i)  BY <3>1
      <4> QED BY <4>1, <3>1, <1>1, <1>8, <1>9, HeadTypes DEF Reader, callbacks
    <3>2. CASE n[1] # i
      <4>1. node_mem'[n] = node_mem[n] /\ port_id'[n[1]] = port_id[n[1]]  BY <3>2, <1>9
      <4> QED BY <4>1, <1>1 DEF Reader, callbacks
    <3> QED BY <3>1, <3>2
  <2>3. \A n \in Nodes : ~Detaching(n)' /\ ~Detaching(n)  BY <1>1, <1>5 DEF Detaching
  <2>4. \A k \in LCores, n \in Nodes : Safe(k, n)' <=> Safe(k, n)
    BY <2>1, <2>2, <2>3 DEF Safe
  <2>5. \A k \in LCores : at[k] \in Nodes \cup {None}  BY DEF Inv, Types
  <2>6. \A k \in LCores, o \in Nodes : o = at[k] => Safe(k, o)'
    BY <2>4 DEF Inv, WalkInv
  <2>7. \A k \in LCores : at[k] # None =>
          \A n, o \in Nodes : Reader(k, n)' /\ o = next[n] => Safe(k, o)'
    BY <2>2, <2>4 DEF Inv, WalkInv
  <2> QED BY <2>1, <2>3, <2>5, <2>6, <2>7 DEF WalkInv
<1>22. FoundInv'
  <2>1. \A k \in LCores, j \in Ifaces : Found(k, j) => Found(k, j)'
    BY <1>1, <1>10 DEF Found, callbacks, lcores
  <2> QED BY <1>1, <2>1 DEF Inv, Types, FoundInv, lcores
<1> QED BY <1>7, <1>11, <1>12, <1>13, <1>14, <1>15, <1>16, <1>17, <1>18, <1>19, <1>20, <1>21, <1>22
        DEF Inv

(***************************************************************************)
(* The invariant, and what it gives.                                       *)
(***************************************************************************)

LEMMA NextKeepsInv == Inv /\ [Next]_vars => Inv'
<1> SUFFICES ASSUME Inv, [Next]_vars PROVE Inv'  OBVIOUS
<1>1. CASE ApiCall
  BY <1>1, CreateE3IfaceKeepsInv, ReclaimE3IfaceKeepsInv DEF ApiCall
<1>2. CASE ApiStep
  BY <1>2, RegisterKeepsInv, RegisterFailsKeepsInv, AttachKeepsInv, PublishKeepsInv,
     CorrelateKeepsInv, ConfigureFailsKeepsInv, PostSetupFailsKeepsInv, DissociateKeepsInv, DetachKeepsInv,
     WithdrawKeepsInv, AbandonKeepsInv, ReturnKeepsInv DEF ApiStep
<1>3. CASE RcuThread
  BY <1>3, IfaceCallbackKeepsInv, NodeCallbackKeepsInv DEF RcuThread
<1>4. CASE \E l \in LCores : LCoreStep(l)
  BY <1>4, EnterKeepsInv, FindIfaceKeepsInv, FindPeerKeepsInv, AdvanceKeepsInv DEF LCoreStep
<1>5. CASE UNCHANGED vars
  BY <1>5 DEF vars, memory, fields, indices, load, lists, callbacks, lcores, Inv, Types, UnusedInv,
    LiveInv, FreedInv, QueuedInv, NodeRcuInv, PublishedInv, PortsInv, ApiInv, StageInv, ListInv,
    WalkInv, FoundInv, PeersInv, Live, Published, Reading, Detaching, Reader, Safe, Found, Mated
<1> QED BY <1>1, <1>2, <1>3, <1>4, <1>5 DEF Next

LEMMA InvHolds == Spec => []Inv
BY InitInv, NextKeepsInv, PTL DEF Spec

LEMMA InvGivesWalks == Inv => WalksAreSafe
<1> SUFFICES ASSUME Inv, NEW l \in LCores
             PROVE  /\ at[l] # None => node_mem[at[l]] = "live" \/ Abandoned(at[l])
                    /\ pif[l] # None => iface_mem[pif[l]] = "live"
                    /\ peer_if[l] # None => iface_mem[peer_if[l]] = "live"
                                            /\ node_mem[Output(peer_if[l])] = "live"
  BY DEF WalksAreSafe
<1> USE NodesSplit
<1>1. ASSUME at[l] # None PROVE node_mem[at[l]] = "live" \/ Abandoned(at[l])
  <2>1. PICK n \in Nodes : n = at[l] /\ n[1] \in Ifaces /\ n \in OwnNodes(n[1]) /\ Safe(l, n)
    BY <1>1 DEF Inv, Types, WalkInv
  <2>2. CASE Live(n[1])  BY <2>1, <2>2 DEF Inv, LiveInv
  <2>3. CASE n \in linked  BY <2>2, <2>3, LinkedIsLive
  <2>4. CASE Detaching(n)
    <3>1. Live(n[1])  BY <2>4 DEF Inv, ApiInv, Detaching, Leaving, OwnNodes
    <3> QED BY <3>1, <2>2
  <2>5. CASE l \in iface_rcu[n[1]].readers
    <3>1. Live(n[1])  BY <2>1, <2>5 DEF Inv, QueuedInv
    <3> QED BY <3>1, <2>2
  <2>6. CASE node_mem[n] = "freed" /\ l \in node_rcu[n].readers
    <3>1. node_rcu[n].queued  BY <2>6 DEF Inv, NodeRcuInv
    <3> QED BY <3>1, <2>1, <2>6 DEF Abandoned
  <2> QED BY <2>1, <2>3, <2>4, <2>5, <2>6 DEF Safe, Reader
<1>2. \A i \in Ifaces : Found(l, i) => Live(i)
  BY DEF Found, Inv, PublishedInv, Published, QueuedInv
<1>3. \A i \in Ifaces : Live(i) => iface_mem[i] = "live" /\ node_mem[Output(i)] = "live"
  BY DEF Live, Inv, LiveInv, OwnNodes
<1>4. pif[l] \in Ifaces \cup {None} /\ peer_if[l] \in Ifaces \cup {None}  BY DEF Inv, Types
<1> QED BY <1>1, <1>2, <1>3, <1>4 DEF Inv, FoundInv

LEMMA InvGivesIndices == Inv => IndicesLeadToOwnNodes
<1> SUFFICES ASSUME Inv, NEW i \in Ifaces,
                    Published(i) \/ iface_rcu[i].queued \/ (\E l \in LCores : peer_if[l] = i)
             PROVE  \A n \in OwnNodes(i) : gnode_array[node_index[n]] = n
  BY DEF IndicesLeadToOwnNodes, OwnNodes
<1>1. Live(i)
  <2>1. CASE Published(i)  BY <2>1 DEF Inv, PublishedInv, Published
  <2>2. CASE iface_rcu[i].queued  BY <2>2 DEF Inv, QueuedInv
  <2>3. CASE \E l \in LCores : peer_if[l] = i
    <3>1. PICK l \in LCores : Found(l, i)  BY <2>3, NoneIsNoNode DEF Inv, FoundInv
    <3>2. CASE l \in iface_rcu[i].readers  BY <3>2 DEF Inv, QueuedInv
    <3> QED BY <3>1, <3>2, <2>1 DEF Found
  <2> QED BY <2>1, <2>2, <2>3
<1> QED BY <1>1 DEF Inv, LiveInv

\* An interface at a port is published there, so a mate is the peer.
LEMMA InvGivesPeers == Inv => PeersAreMutual
<1> SUFFICES ASSUME Inv PROVE PeersAreMutual  OBVIOUS
<1>1. ASSUME NEW i \in Ifaces, Published(i), has_peer_device[i]
      PROVE  CanDissociate(i) /\ Peer(i) # i
  <2>1. PICK j \in Ifaces : Mated(i, j)  BY <1>1 DEF Inv, PeersInv
  <2>2. PICK p \in Ports : global_e3iface_array[p] = j  BY <2>1 DEF Mated, Published
  <2>3. Peer(i) = j  BY <2>1, <2>2 DEF Peer, Mated, Inv, PublishedInv
  <2> QED BY <1>1, <2>1, <2>3, NoneIsNoNode DEF CanDissociate, Mated
<1>2. ASSUME api.at = "dissociate" PROVE CanDissociate(api.iface)
  <2>1. PICK i \in Ifaces : i = api.iface /\ Published(i) /\ has_peer_device[i]
    BY <1>2 DEF Inv, ApiInv, PeersInv
  <2> QED BY <1>1, <2>1
<1> QED BY <1>1, <1>2 DEF PeersAreMutual

(***************************************************************************)
(* The load of an lcore counts the nodes that are on its list or about to  *)
(* be attached to it.                                                      *)
(***************************************************************************)
Pending == IF api.at = "attach_input" THEN OwnNodes(api.iface)
           ELSE IF api.at = "attach_output" THEN {Output(api.iface)} ELSE {}
Held(l) == {n \in linked \cup Pending : lcore_id[n] = l}
LoadInv == \A l \in LCores : attached_io_nodes[l] = Cardinality(Held(l))

LEMMA HeldIsFinite == ASSUME Inv, NEW l PROVE IsFiniteSet(Held(l))
<1>1. IsFiniteSet({"input", "output"})  BY PairIsFinite
<1>2. IsFiniteSet(Nodes)  BY <1>1, IfacesAssumption, FS_Product DEF Nodes
<1>3. Held(l) \subseteq Nodes
  BY NodesSplit DEF Held, Pending, Inv, Types, ApiInv, Building, OwnNodes
<1> QED BY <1>2, <1>3, FS_Subset

LEMMA RegisterKeepsLoad ==
  \A i \in Ifaces : Inv /\ LoadInv /\ Register(i) => LoadInv'
<1> SUFFICES ASSUME NEW i \in Ifaces, Inv, LoadInv, Register(i), NEW k \in LCores
             PROVE  attached_io_nodes'[k] = Cardinality(Held(k)')
  BY DEF LoadInv
<1> USE NodesSplit
<1>1. /\ linked' = linked /\ api.at = "register" /\ iface_mem[i] = "unused"
      /\ api' = [api EXCEPT !.at = "attach_input", !.iface = i]
  BY DEF Register, RegisterNodes, lists
<1>2. PICK l, m \in LCores :
        /\ lcore_id' = [lcore_id EXCEPT ![Input(i)] = l, ![Output(i)] = m]
        /\ attached_io_nodes' = [j \in LCores |-> attached_io_nodes[j]
             + (IF j = l THEN 1 ELSE 0) + (IF j = m THEN 1 ELSE 0)]
  BY DEF Register, RegisterNodes
<1>3. Pending = {} /\ Pending' = OwnNodes(i)
  <2>1. api'.at = "attach_input" /\ api'.iface = i  BY <1>1 DEF Inv, Types
  <2> QED BY <1>1, <2>1 DEF Pending
<1>4. Input(i) \notin linked /\ Output(i) \notin linked  BY <1>1 DEF Inv, UnusedInv, OwnNodes
<1>5. /\ lcore_id'[Input(i)] = l /\ lcore_id'[Output(i)] = m
      /\ \A n \in linked : lcore_id'[n] = lcore_id[n]
  <2>1. lcore_id \in [Nodes -> LCores \cup {None}] /\ linked \subseteq Nodes  BY DEF Inv, Types
  <2>2. lcore_id'[Input(i)] = l  BY <1>2, <2>1
  <2>3. lcore_id'[Output(i)] = m  BY <1>2, <2>1
  <2>4. \A n \in linked : lcore_id'[n] = lcore_id[n]  BY <1>2, <1>4, <2>1
  <2> QED BY <2>2, <2>3, <2>4
<1>6. PICK H : H = Held(k)  OBVIOUS
<1>7. IsFiniteSet(H) /\ Cardinality(H) \in Nat /\ attached_io_nodes[k] = Cardinality(H)
      /\ Input(i) \notin H /\ Output(i) \notin H
  <2>1. IsFiniteSet(H)  BY <1>6, HeldIsFinite
  <2>2. Cardinality(H) \in Nat  BY <2>1, FS_CardinalityType
  <2>3. attached_io_nodes[k] = Cardinality(H)  BY <1>6 DEF LoadInv
  <2>4. Input(i) \notin H /\ Output(i) \notin H  BY <1>3, <1>4, <1>6 DEF Held
  <2> QED BY <2>1, <2>2, <2>3, <2>4
<1>8. PICK A : A = (IF k = l THEN H \cup {Input(i)} ELSE H)  OBVIOUS
<1>9. /\ IsFiniteSet(A) /\ Output(i) \notin A
      /\ Cardinality(A) = Cardinality(H) + (IF k = l THEN 1 ELSE 0)
  BY <1>7, <1>8, FS_AddElement
<1>10. PICK B : B = (IF k = m THEN A \cup {Output(i)} ELSE A)  OBVIOUS
<1>11. Cardinality(B) = Cardinality(A) + (IF k = m THEN 1 ELSE 0)
  <2>1. Cardinality(A) \in Nat  BY <1>9, FS_CardinalityType
  <2>2. Cardinality(A \cup {Output(i)}) = Cardinality(A) + 1  BY <1>9, FS_AddElement
  <2> QED BY <2>1, <2>2, <1>10
<1>12. Held(k)' = B
  BY <1>1, <1>3, <1>5, <1>6, <1>8, <1>10 DEF Held, OwnNodes
<1> QED BY <1>2, <1>7, <1>9, <1>11, <1>12

LEMMA DetachKeepsLoad == Inv /\ LoadInv /\ Detach => LoadInv'
<1> SUFFICES ASSUME Inv, LoadInv, Detach, NEW k \in LCores
             PROVE  attached_io_nodes'[k] = Cardinality(Held(k)')
  BY DEF LoadInv
<1>1. PICK n : /\ n \in linked /\ linked' = linked \ {n} /\ lcore_id' = lcore_id
              /\ attached_io_nodes' = [attached_io_nodes EXCEPT ![lcore_id[n]] = @ - 1]
  BY DEF Detach, Unlink
<1>2. Pending = {} /\ Pending' = {}
  <2>1. api.at \in {"detach_input", "detach_output"}
        /\ api' = [api EXCEPT !.at = IF @ = "detach_input" THEN "detach_output" ELSE "withdraw"]
    BY DEF Detach
  <2>2. api'.at \in {"detach_output", "withdraw"}  BY <2>1 DEF Inv, Types
  <2> QED BY <2>1, <2>2 DEF Pending
<1>3. PICK l \in LCores : l = lcore_id[n]  BY <1>1, LinkedIsLive
<1>4. PICK H : H = Held(k)  OBVIOUS
<1>5. IsFiniteSet(H) /\ Cardinality(H) \in Nat /\ attached_io_nodes[k] = Cardinality(H)
  BY <1>4, HeldIsFinite, FS_CardinalityType DEF LoadInv
<1>6. CASE k = l
  <2>1. n \in H /\ Held(k)' = H \ {n}  BY <1>1, <1>2, <1>3, <1>4, <1>6 DEF Held
  <2>2. Cardinality(H \ {n}) = Cardinality(H) - 1  BY <2>1, <1>5, FS_RemoveElement
  <2>3. attached_io_nodes'[k] = attached_io_nodes[k] - 1  BY <1>1, <1>3, <1>6 DEF Inv, Types
  <2> QED BY <2>1, <2>2, <2>3, <1>5
<1>7. CASE k # l
  <2>1. Held(k)' = H  BY <1>1, <1>2, <1>3, <1>4, <1>7 DEF Held
  <2>2. attached_io_nodes'[k] = attached_io_nodes[k]  BY <1>1, <1>3, <1>7 DEF Inv, Types
  <2> QED BY <2>1, <2>2, <1>5
<1> QED BY <1>6, <1>7

LEMMA ConfigureFailsKeepsLoad == Inv /\ LoadInv /\ ConfigureFails => LoadInv'
<1> SUFFICES ASSUME Inv, LoadInv, ConfigureFails, NEW k \in LCores
             PROVE  attached_io_nodes'[k] = Cardinality(Held(k)')
  BY DEF LoadInv
<1>1. /\ linked' = linked /\ lcore_id' = lcore_id /\ api.at = "attach_input"
      /\ api' = [api EXCEPT !.at = "withdraw"]
  BY DEF ConfigureFails, lists
<1>2. PICK O : O = {n \in {Input(api.iface), Output(api.iface)} : lcore_id[n] = k}  OBVIOUS
<1>3. attached_io_nodes'[k] = attached_io_nodes[k] - Cardinality(O)
  BY <1>2 DEF ConfigureFails
<1>4. Pending = {Input(api.iface), Output(api.iface)} /\ Pending' = {}
  <2>1. api'.at = "withdraw"  BY <1>1 DEF Inv, Types
  <2> QED BY <1>1, <2>1 DEF Pending, OwnNodes
<1>5. PICK H : H = Held(k)  OBVIOUS
<1>6. IsFiniteSet(H) /\ attached_io_nodes[k] = Cardinality(H)
  BY <1>5, HeldIsFinite DEF LoadInv
<1>7. O \subseteq H /\ Held(k)' = H \ O
  BY <1>1, <1>2, <1>4, <1>5 DEF Held, Inv, ApiInv
<1>8. /\ Cardinality(H \ O) = Cardinality(H) - Cardinality(H \cap O)
      /\ H \cap O = O
  BY <1>6, <1>7, FS_Difference
<1> QED BY <1>3, <1>6, <1>7, <1>8

\* Every other step leaves the nodes that lcores hold as they are.
LEMMA HeldStays ==
  ASSUME LoadInv, UNCHANGED load, (linked \cup Pending)' = linked \cup Pending PROVE LoadInv'
BY DEF LoadInv, Held, load

LEMMA AttachKeepsLoad == Inv /\ LoadInv /\ Attach => LoadInv'
<1> SUFFICES ASSUME Inv, LoadInv, Attach PROVE LoadInv'  OBVIOUS
<1>1. UNCHANGED load  BY DEF Attach
<1>2. CASE api.at = "attach_input" /\ AttachNode(Input(api.iface))
           /\ api' = [api EXCEPT !.at = "attach_output"]
  <2>1. api'.at = "attach_output" /\ api'.iface = api.iface  BY <1>2 DEF Inv, Types
  <2>2. linked' = linked \cup {Input(api.iface)}  BY <1>2 DEF AttachNode
  <2>3. Pending = OwnNodes(api.iface) /\ Pending' = {Output(api.iface)}
    BY <1>2, <2>1 DEF Pending
  <2> QED BY <1>1, <2>2, <2>3, HeldStays DEF OwnNodes
<1>3. CASE api.at = "attach_output" /\ AttachNode(Output(api.iface))
           /\ api' = [api EXCEPT !.at = "post_setup"]
  <2>1. api'.at = "post_setup"  BY <1>3 DEF Inv, Types
  <2>2. linked' = linked \cup {Output(api.iface)}  BY <1>3 DEF AttachNode
  <2>3. Pending = {Output(api.iface)} /\ Pending' = {}  BY <1>3, <2>1 DEF Pending
  <2> QED BY <1>1, <2>2, <2>3, HeldStays
<1> QED BY <1>2, <1>3 DEF Attach

LEMMA NextKeepsLoad == Inv /\ LoadInv /\ [Next]_vars => LoadInv'
<1> SUFFICES ASSUME Inv, LoadInv, [Next]_vars PROVE LoadInv'  OBVIOUS
<1>0. api \in [at : Steps, iface : Ifaces \cup {None}, other : Ifaces \cup {None},
              slow_path : BOOLEAN]
  BY DEF Inv, Types
<1>1. ASSUME UNCHANGED <<load, lists>>, api.at \notin {"attach_input", "attach_output"},
             api'.at \notin {"attach_input", "attach_output"}
      PROVE  LoadInv'
  <2>1. Pending = {} /\ Pending' = {} /\ linked' = linked  BY <1>1 DEF Pending, lists
  <2> QED BY <1>1, <2>1, HeldStays
<1>2. ASSUME UNCHANGED <<load, lists, api>> PROVE LoadInv'
  <2>1. Pending' = Pending /\ linked' = linked  BY <1>2 DEF Pending, lists
  <2> QED BY <1>2, <2>1, HeldStays
<1>3. CASE ApiCall
  <2>1. CASE \E slow \in BOOLEAN : CreateE3Iface(slow)
    BY <2>1, <1>1 DEF CreateE3Iface, Idle
  <2>2. CASE \E p \in Ports : ReclaimE3Iface(p)
    <3>1. api'.at \in {"dissociate", "detach_input"}  BY <2>2 DEF ReclaimE3Iface, Idle
    <3> QED BY <2>2, <3>1, <1>1 DEF ReclaimE3Iface
  <2> QED BY <1>3, <2>1, <2>2 DEF ApiCall
<1>4. CASE ApiStep
  <2>1. CASE RegisterFails
    <3>1. UNCHANGED <<load, lists>> /\ api.at = "register"
      BY <2>1 DEF RegisterFails, RegisterNodesFails
    <3>2. api'.at \in {"return", "detach_input"}  BY <2>1, <1>0 DEF RegisterFails, Idle
    <3> QED BY <3>1, <3>2, <1>1
  <2>2. CASE Publish
    <3>1. api'.at \in {"correlate", "register", "return"}  BY <2>2, <1>0 DEF Publish
    <3> QED BY <2>2, <3>1, <1>1 DEF Publish
  <2>3. CASE Correlate
    <3>1. api.at \in {"correlate", "set_peers"} /\ api'.at \in {"set_peers", "return"}
      BY <2>3, <1>0 DEF Correlate
    <3> QED BY <2>3, <3>1, <1>1 DEF Correlate
  <2>4. CASE PostSetupFails
    <3>1. api'.at = "detach_input"  BY <2>4, <1>0 DEF PostSetupFails
    <3> QED BY <2>4, <3>1, <1>1 DEF PostSetupFails
  <2>5. CASE Dissociate
    <3>1. api.at \in {"dissociate", "clear_peers"} /\ api'.at \in {"clear_peers", "detach_input"}
      BY <2>5, <1>0 DEF Dissociate
    <3> QED BY <2>5, <3>1, <1>1 DEF Dissociate
  <2>6. CASE Withdraw
    <3>1. api'.at \in {"detach_input", "return"}  BY <2>6, <1>0 DEF Withdraw, Idle
    <3> QED BY <2>6, <3>1, <1>1 DEF Withdraw
  <2>7. CASE Abandon
    <3>1. api'.at \in {"detach_input", "return"}  BY <2>7, <1>0 DEF Abandon, Idle
    <3> QED BY <2>7, <3>1, <1>1 DEF Abandon
  <2>8. CASE Return  BY <2>8, <1>1 DEF Return, Idle
  <2> QED BY <1>4, <2>1, <2>2, <2>3, <2>4, <2>5, <2>6, <2>7, <2>8, RegisterKeepsLoad,
             ConfigureFailsKeepsLoad, AttachKeepsLoad, DetachKeepsLoad DEF ApiStep
<1>5. CASE RcuThread
  BY <1>5, <1>2 DEF RcuThread, IfaceCallback, NodeCallback
<1>6. CASE \E l \in LCores : LCoreStep(l)
  BY <1>6, <1>2 DEF LCoreStep, Enter, FindIface, FindPeer, Advance, shared
<1>7. CASE UNCHANGED vars
  BY <1>7, <1>2 DEF vars
<1> QED BY <1>3, <1>4, <1>5, <1>6, <1>7 DEF Next

LEMMA LoadHolds == Spec => []LoadInv
<1>1. Init => LoadInv
  <2> SUFFICES ASSUME Init PROVE \A l \in LCores : attached_io_nodes[l] = Cardinality(Held(l))
    BY DEF LoadInv
  <2>1. \A l : Held(l) = {}  BY DEF Init, Held, Pending, Idle
  <2> QED BY <2>1, FS_EmptySet DEF Init
<1> QED BY <1>1, NextKeepsLoad, InvHolds, PTL DEF Spec

(***************************************************************************)
(* A walk of the list of an lcore comes to every node that is on it.        *)
(***************************************************************************)
OnList(l) == {n \in linked : lcore_id[n] = l}
ReachInv == \A l \in LCores, S \in SUBSET Nodes : Closed(l, S) => OnList(l) \subseteq S

\* A walk stays on the list of its lcore.
LEMMA ListIsClosed ==
  ASSUME Inv, NEW l \in LCores
  PROVE  /\ OnList(l) \subseteq Nodes /\ Closed(l, OnList(l))
         /\ lcore_task_list[l] \in OnList(l) \cup {None}
         /\ \A n \in OnList(l) : next[n] \in OnList(l) \cup {None}
<1>1. lcore_task_list[l] \in OnList(l) \cup {None}  BY DEF Inv, ListInv, OnList
<1>2. \A n \in OnList(l) : next[n] \in OnList(l) \cup {None}  BY DEF Inv, ListInv, OnList
<1>3. OnList(l) \subseteq Nodes  BY DEF Inv, Types, OnList
<1> QED BY <1>1, <1>2, <1>3 DEF Closed

\* Most steps leave the lists as they are, and the lcores of their nodes.
LEMMA ReachStays ==
  ASSUME ReachInv, UNCHANGED lists, \A n \in linked : lcore_id'[n] = lcore_id[n]
  PROVE  ReachInv'
<1> SUFFICES ASSUME NEW l \in LCores, NEW S \in SUBSET Nodes, Closed(l, S)'
             PROVE  OnList(l)' \subseteq S
  BY DEF ReachInv
<1>1. Closed(l, S)  BY DEF Closed, lists
<1>2. OnList(l) \subseteq S  BY <1>1 DEF ReachInv
<1> QED BY <1>2 DEF OnList, lists

LEMMA AttachKeepsReach == Inv /\ ReachInv /\ Attach => ReachInv'
<1> SUFFICES ASSUME Inv, ReachInv, Attach PROVE ReachInv'  OBVIOUS
<1> USE NoneIsNoNode
<1>1. lcore_id' = lcore_id  BY DEF Attach, load
<1>2. PICK n \in Nodes : n \notin linked /\ lcore_id[n] \in LCores /\ AttachNode(n)
  <2>1. api.iface \in Ifaces /\ Live(api.iface)
    BY DEF Attach, Inv, ApiInv, Building
  <2>2. PICK n \in OwnNodes(api.iface) : n \notin linked /\ AttachNode(n)
    BY DEF Attach, Inv, ApiInv, OwnNodes
  <2>3. n \in Nodes  BY <2>1, <2>2, NodesSplit DEF OwnNodes
  <2>4. lcore_id[n] \in LCores  BY <2>1, <2>2 DEF Inv, LiveInv
  <2> QED BY <2>2, <2>3, <2>4
<1>3. PICK l \in LCores : l = lcore_id[n]  BY <1>2
<1>4. /\ next'[n] = lcore_task_list[l] /\ lcore_task_list'[l] = n
      /\ \A m \in Nodes \ {n} : next'[m] = next[m]
      /\ \A k \in LCores \ {l} : lcore_task_list'[k] = lcore_task_list[k]
      /\ linked' = linked \cup {n}
  BY <1>2, <1>3 DEF AttachNode, Inv, Types
<1>5. ASSUME NEW k \in LCores, NEW S \in SUBSET Nodes, Closed(k, S)'
      PROVE  OnList(k)' \subseteq S
  <2>1. PICK T \in SUBSET Nodes : T = S \cap OnList(k)  BY ListIsClosed
  <2>2. \A m \in T : next[m] \in T \cup {None}
    <3>1. \A m \in T : m \in Nodes \ {n} /\ next[m] \in OnList(k) \cup {None}
      BY <2>1, <1>2, ListIsClosed DEF OnList
    <3>2. \A m \in T : next'[m] \in S \cup {None}  BY <1>5, <2>1 DEF Closed
    <3> QED BY <3>1, <3>2, <2>1, <1>4
  <2>3. lcore_task_list[k] \in OnList(k) \cup {None}  BY ListIsClosed
  <2>4. lcore_task_list'[k] \in S \cup {None}  BY <1>5 DEF Closed
  <2>5. CASE k = l
    <3>1. n \in S  BY <2>4, <2>5, <1>4
    <3>2. next'[n] \in S \cup {None}  BY <3>1, <1>5 DEF Closed
    <3>3. lcore_task_list[k] \in T \cup {None}  BY <3>2, <2>1, <2>3, <2>5, <1>4
    <3>4. Closed(k, T)  BY <3>3, <2>2 DEF Closed
    <3>5. OnList(k) \subseteq S  BY <3>4, <2>1 DEF ReachInv
    <3>6. OnList(k)' \subseteq OnList(k) \cup {n}  BY <1>1, <1>4 DEF OnList
    <3> QED BY <3>1, <3>5, <3>6
  <2>6. CASE k # l
    <3>1. lcore_task_list[k] \in T \cup {None}  BY <2>1, <2>3, <2>4, <2>6, <1>4
    <3>2. Closed(k, T)  BY <3>1, <2>2 DEF Closed
    <3>3. OnList(k) \subseteq S  BY <3>2, <2>1 DEF ReachInv
    <3>4. OnList(k)' \subseteq OnList(k)  BY <1>1, <1>3, <1>4, <2>6 DEF OnList
    <3> QED BY <3>3, <3>4
  <2> QED BY <2>5, <2>6
<1> QED BY <1>5 DEF ReachInv

\* A set that is closed once n is unlinked, with n or without it, was closed before.
LEMMA DetachKeepsReach == Inv /\ ReachInv /\ Detach => ReachInv'
<1> SUFFICES ASSUME Inv, ReachInv, Detach PROVE ReachInv'  OBVIOUS
<1> USE NoneIsNoNode
<1>1. PICK n \in linked : Unlink(n) /\ linked' = linked \ {n} /\ lcore_id' = lcore_id
  BY DEF Detach, Unlink
<1>2. PICK l \in LCores : l = lcore_id[n] /\ n \in Nodes /\ n \in OnList(l)
  BY <1>1, LinkedIsLive DEF OnList
<1>3. \A k \in LCores : /\ k = l => OnList(k)' = OnList(k) \ {n}
                        /\ k # l => OnList(k)' = OnList(k)
  BY <1>1, <1>2 DEF OnList
<1>4. /\ \A m, o \in linked : next[m] = next[o] /\ next[m] # None => m = o
      /\ \A m \in linked, k \in LCores : next[m] = lcore_task_list[k] => next[m] = None
      /\ \A m \in linked : next[m] # None => lcore_id[next[m]] = lcore_id[m]
      /\ linked \subseteq Nodes
  BY DEF Inv, Types, ListInv
<1>5. ASSUME NEW k \in LCores, NEW S \in SUBSET Nodes, Closed(k, S)'
      PROVE  OnList(k)' \subseteq S
  <2>1. /\ lcore_task_list'[k] \in S \cup {None} /\ \A m \in S : next'[m] \in S \cup {None}
    BY <1>5 DEF Closed
  <2>2. /\ lcore_task_list[k] \in OnList(k) \cup {None} /\ OnList(k) \subseteq Nodes
        /\ \A m \in OnList(k) : next[m] \in OnList(k) \cup {None}
    BY ListIsClosed
  <2>3. ASSUME NEW T \in SUBSET Nodes, T \subseteq OnList(k), Closed(k, T) PROVE OnList(k) = T
    BY <2>3 DEF ReachInv
  <2>4. CASE lcore_task_list[l] = n /\ next' = next
             /\ lcore_task_list' = [lcore_task_list EXCEPT ![l] = next[n]]
    <3>1. /\ lcore_task_list'[l] = next[n]
          /\ \A j \in LCores \ {l} : lcore_task_list'[j] = lcore_task_list[j]
      BY <2>4, <1>2 DEF Inv, Types
    <3>2. CASE k = l
      <4>1. PICK T \in SUBSET Nodes : T = (S \cap OnList(k)) \cup {n}  BY <1>2, <2>2
      <4>2. next[n] \in T \cup {None}  BY <4>1, <3>1, <3>2, <2>1, <2>2, <1>2
      <4>3. \A m \in S \cap OnList(k) : next[m] \in T \cup {None}  BY <4>1, <2>1, <2>2, <2>4
      <4>4. Closed(k, T)  BY <4>1, <4>2, <4>3, <3>2, <2>4 DEF Closed
      <4>5. OnList(k) = T  BY <4>1, <4>4, <3>2, <1>2, <2>3
      <4> QED BY <4>1, <4>5, <3>2, <1>3
    <3>3. CASE k # l
      <4>1. PICK T \in SUBSET Nodes : T = S \cap OnList(k)  BY <2>2
      <4>2. lcore_task_list[k] \in T \cup {None}  BY <4>1, <3>1, <3>3, <2>1, <2>2
      <4>3. \A m \in T : next[m] \in T \cup {None}  BY <4>1, <2>1, <2>2, <2>4
      <4>4. Closed(k, T)  BY <4>2, <4>3 DEF Closed
      <4> QED BY <4>1, <4>4, <3>3, <1>3, <2>3
    <3> QED BY <3>2, <3>3
  <2>5. CASE \E parent \in linked : /\ next[parent] = n /\ lcore_task_list' = lcore_task_list
                                    /\ next' = [next EXCEPT ![parent] = next[n]]
    <3>1. PICK parent \in linked : /\ next[parent] = n /\ lcore_task_list' = lcore_task_list
                                   /\ next' = [next EXCEPT ![parent] = next[n]]
      BY <2>5
    <3>2. next'[parent] = next[n] /\ \A m \in Nodes \ {parent} : next'[m] = next[m]
      BY <3>1, <1>4 DEF Inv, Types
    <3>3. parent \in OnList(l) /\ \A j \in LCores \ {l} : parent \notin OnList(j)
      BY <3>1, <1>2, <1>4 DEF OnList
    <3>4. CASE k = l /\ parent \in S
      <4>1. PICK T \in SUBSET Nodes : T = (S \cap OnList(k)) \cup {n}  BY <1>2, <2>2
      <4>2. next[n] \in T \cup {None}
        <5>1. next[n] \in S \cup {None}  BY <3>2, <3>4, <2>1
        <5>2. next[n] \in OnList(k) \cup {None}  BY <3>4, <1>2, <2>2
        <5> QED BY <4>1, <5>1, <5>2
      <4>3. \A m \in S \cap OnList(k) : next[m] \in T \cup {None}
        BY <4>1, <3>1, <3>2, <2>1, <2>2
      <4>4. lcore_task_list[k] \in T \cup {None}  BY <4>1, <3>1, <2>1, <2>2
      <4>5. Closed(k, T)  BY <4>1, <4>2, <4>3, <4>4 DEF Closed
      <4>6. OnList(k) = T  BY <4>1, <4>5, <3>4, <1>2, <2>3
      <4> QED BY <4>1, <4>6, <3>4, <1>3
    <3>5. CASE k = l /\ parent \notin S
      <4>1. PICK T \in SUBSET Nodes : T = (S \cap OnList(k)) \ {n}  BY <2>2
      <4>2. lcore_task_list[k] \in T \cup {None}
        <5>1. lcore_task_list[k] # n  BY <3>1, <1>2, <1>4
        <5> QED BY <4>1, <5>1, <3>1, <2>1, <2>2
      <4>3. \A m \in T : next[m] \in T \cup {None}
        <5> SUFFICES ASSUME NEW m \in T PROVE next[m] \in T \cup {None}  OBVIOUS
        <5>1. m \in linked /\ m \in S /\ m \in OnList(k) /\ m # parent
          BY <4>1, <3>5 DEF OnList
        <5>2. next[m] # n  BY <5>1, <3>1, <1>2, <1>4
        <5>3. next[m] \in S \cup {None}  BY <5>1, <3>2, <2>1, <1>4
        <5>4. next[m] \in OnList(k) \cup {None}  BY <5>1, <2>2
        <5> QED BY <4>1, <5>2, <5>3, <5>4
      <4>4. Closed(k, T)  BY <4>2, <4>3 DEF Closed
      <4>5. OnList(k) = T  BY <4>1, <4>4, <2>3
      <4> QED BY <4>1, <4>5, <3>3, <3>5
    <3>6. CASE k # l
      <4>1. PICK T \in SUBSET Nodes : T = S \cap OnList(k)  BY <2>2
      <4>2. lcore_task_list[k] \in T \cup {None}  BY <4>1, <3>1, <2>1, <2>2
      <4>3. \A m \in T : next[m] \in T \cup {None}
        <5>1. \A m \in T : m \in Nodes \ {parent}  BY <4>1, <3>3, <3>6
        <5> QED BY <4>1, <5>1, <3>2, <2>1, <2>2
      <4>4. Closed(k, T)  BY <4>2, <4>3 DEF Closed
      <4> QED BY <4>1, <4>4, <3>6, <1>3, <2>3
    <3> QED BY <3>4, <3>5, <3>6
  <2> QED BY <2>4, <2>5, <1>1, <1>2 DEF Unlink
<1> QED BY <1>5 DEF ReachInv

LEMMA NextKeepsReach == Inv /\ ReachInv /\ [Next]_vars => ReachInv'
<1> SUFFICES ASSUME Inv, ReachInv, [Next]_vars PROVE ReachInv'  OBVIOUS
<1>1. ASSUME UNCHANGED <<load, lists>> PROVE ReachInv'  BY <1>1, ReachStays DEF load
<1>2. ASSUME NEW i \in Ifaces, Register(i) PROVE ReachInv'
  <2>1. UNCHANGED lists /\ iface_mem[i] = "unused"
    BY <1>2 DEF Register, RegisterNodes
  <2>2. Input(i) \notin linked /\ Output(i) \notin linked
    BY <2>1 DEF Inv, UnusedInv, OwnNodes
  <2>3. PICK l, m \in LCores : lcore_id' = [lcore_id EXCEPT ![Input(i)] = l, ![Output(i)] = m]
    BY <1>2 DEF Register, RegisterNodes
  <2>4. \A n \in linked : lcore_id'[n] = lcore_id[n]  BY <2>2, <2>3 DEF Inv, Types
  <2> QED BY <2>1, <2>4, ReachStays
<1>3. CASE ApiCall  BY <1>3, <1>1 DEF ApiCall, CreateE3Iface, ReclaimE3Iface
<1>4. CASE ApiStep
  <2>1. CASE RegisterFails  BY <2>1, <1>1 DEF RegisterFails, RegisterNodesFails
  <2>2. CASE Publish \/ Correlate \/ PostSetupFails \/ Dissociate
    BY <2>2, <1>1 DEF Publish, Correlate, PostSetupFails, Dissociate
  <2>3. CASE Withdraw \/ Abandon \/ Return
    BY <2>3, <1>1 DEF Withdraw, Abandon, Return
  <2>4. CASE ConfigureFails  BY <2>4, ReachStays DEF ConfigureFails
  <2> QED BY <1>4, <1>2, <2>1, <2>2, <2>3, <2>4, AttachKeepsReach, DetachKeepsReach DEF ApiStep
<1>5. CASE RcuThread  BY <1>5, <1>1 DEF RcuThread, IfaceCallback, NodeCallback
<1>6. CASE \E l \in LCores : LCoreStep(l)
  BY <1>6, <1>1 DEF LCoreStep, Enter, FindIface, FindPeer, Advance, shared
<1>7. CASE UNCHANGED vars  BY <1>7, <1>1 DEF vars
<1> QED BY <1>3, <1>4, <1>5, <1>6, <1>7 DEF Next

LEMMA ReachHolds == Spec => []ReachInv
<1>1. Init => ReachInv  BY DEF Init, ReachInv, OnList
<1> QED BY <1>1, NextKeepsReach, InvHolds, PTL DEF Spec

LEMMA ReachedIsOnList == ASSUME Inv, ReachInv, NEW l \in LCores PROVE Reached(l) = OnList(l)
<1>1. OnList(l) \subseteq Nodes /\ Closed(l, OnList(l))  BY ListIsClosed
<1>2. Reached(l) \subseteq OnList(l)  BY <1>1 DEF Reached
<1>3. OnList(l) \subseteq Reached(l)  BY <1>1 DEF Reached, ReachInv
<1> QED BY <1>2, <1>3

LEMMA InvGivesSchedule == Inv /\ LoadInv /\ ReachInv => NodesAreScheduled
<1> SUFFICES ASSUME Inv, LoadInv, ReachInv PROVE NodesAreScheduled  OBVIOUS
<1>1. \A l \in LCores : Reached(l) = OnList(l)  BY ReachedIsOnList
<1>2. linked = UNION {Reached(l) : l \in LCores}
  <2>1. \A n \in linked : lcore_id[n] \in LCores  BY LinkedIsLive
  <2>2. \A n : n \in linked <=> \E l \in LCores : n \in Reached(l)  BY <1>1, <2>1 DEF OnList
  <2> QED BY <2>2
<1>3. \A m \in linked : next[m] # None =>
        /\ \A n \in linked : next[m] = next[n] => m = n
        /\ \A l \in LCores : next[m] # lcore_task_list[l]
  BY DEF Inv, ListInv
<1>4. ASSUME api.at = "idle", NEW l \in LCores
      PROVE  /\ Reached(l) = {n \in Nodes : lcore_id[n] = l /\ Published(n[1])}
             /\ attached_io_nodes[l] = Cardinality(Reached(l))
  <2>1. \A n \in linked : n \in Nodes /\ Published(n[1])
    <3> SUFFICES ASSUME NEW n \in linked PROVE n \in Nodes /\ Published(n[1])  OBVIOUS
    <3>1. n \in Nodes /\ n[1] \in Ifaces /\ Live(n[1])  BY LinkedIsLive
    <3>2. ~iface_rcu[n[1]].queued  BY <3>1, NodesSplit DEF Inv, QueuedInv
    <3> QED BY <3>1, <3>2, <1>4 DEF Inv, StageInv, Building, Leaving
  <2>2. \A n \in Nodes : Published(n[1]) => n \in linked
    <3>1. \A i \in Ifaces : Published(i) => Input(i) \in linked /\ Output(i) \in linked
      BY <1>4 DEF Inv, StageInv
    <3> QED BY <3>1, NodesSplit DEF OwnNodes
  <2>3. OnList(l) = {n \in Nodes : lcore_id[n] = l /\ Published(n[1])}
    BY <2>1, <2>2 DEF OnList
  <2>4. Held(l) = OnList(l)  BY <1>4 DEF Held, Pending, OnList
  <2> QED BY <1>1, <2>3, <2>4 DEF LoadInv
<1> QED BY <1>2, <1>3, <1>4 DEF NodesAreScheduled

(***************************************************************************)
(* Without the error paths, callbacks are queued for live nodes only.      *)
(***************************************************************************)
QueuedIsLive(n) == node_rcu[n].queued => node_mem[n] = "live"
LeavingInv == api.at \in Leaving => Published(api.iface)
NoErrorInv ==
  /\ LeavingInv
  /\ \A n \in Nodes : QueuedIsLive(n)

LEMMA NodesKeepNoError ==
  ASSUME \A n \in Nodes : QueuedIsLive(n), UNCHANGED <<node_mem, node_rcu>>
  PROVE  (\A n \in Nodes : QueuedIsLive(n))'
BY DEF QueuedIsLive

\* A call leaves what is published only: an interface that another finds, or the peer
\* that is released with it.
LEMMA LeavesPublished ==
  ASSUME Failures = {}, Inv, NoErrorInv, ApiCall \/ ApiStep
  PROVE  LeavingInv'
<1> USE NoneIsNoNode
<1>0. api \in [at : Steps, iface : Ifaces \cup {None}, other : Ifaces \cup {None},
              slow_path : BOOLEAN]
  BY DEF Inv, Types
<1>1. ASSUME UNCHANGED global_e3iface_array, api'.at \in Leaving => Published(api'.iface)
      PROVE  LeavingInv'
  BY <1>1 DEF LeavingInv, Published
<1>2. ASSUME api'.at \notin Leaving PROVE LeavingInv'
  BY <1>2 DEF LeavingInv
<1>3. ASSUME NEW slow \in BOOLEAN, CreateE3Iface(slow)
      PROVE  LeavingInv'
  BY <1>3, <1>2 DEF CreateE3Iface, Idle, Leaving
<1>4. ASSUME NEW p \in Ports, ReclaimE3Iface(p)
      PROVE  LeavingInv'
  <2>1. PICK i \in Ifaces :
          /\ global_e3iface_array[p] = i /\ UNCHANGED global_e3iface_array
          /\ api' = [at |-> IF has_peer_device[i] THEN "dissociate" ELSE "detach_input",
                     iface |-> i, other |-> None, slow_path |-> FALSE]
    BY <1>4 DEF ReclaimE3Iface, Idle, Inv, Types
  <2>2. api'.iface = i /\ Published(i)  BY <2>1 DEF Published
  <2> QED BY <2>1, <2>2, <1>1
<1>5. CASE (\E i \in Ifaces : Register(i)) \/ Attach \/ Publish \/ Correlate
  <2>1. ASSUME NEW i \in Ifaces, Register(i) PROVE api'.at = "attach_input"
    BY <2>1, <1>0 DEF Register
  <2>2. ASSUME Publish PROVE api'.at \in {"correlate", "register", "return"}
    BY <2>2, <1>0 DEF Publish
  <2>3. ASSUME Attach \/ Correlate
        PROVE  api'.at \in {"attach_output", "post_setup", "set_peers", "return"}
    BY <2>3, <1>0 DEF Attach, Correlate
  <2> QED BY <1>5, <2>1, <2>2, <2>3, <1>2 DEF Leaving
<1>6. CASE Return  BY <1>6, <1>2 DEF Return, Idle, Leaving
<1>7. CASE RegisterFails
  <2>1. UNCHANGED global_e3iface_array  BY <1>7 DEF RegisterFails, RegisterNodesFails
  <2>2. CASE api.other # None /\ api' = [Idle EXCEPT !.at = "detach_input", !.iface = api.other]
    <3>1. api'.iface = api.other  BY <2>2 DEF Idle
    <3> QED BY <2>1, <2>2, <3>1, <1>1 DEF Inv, ApiInv
  <2>3. CASE api' = [api EXCEPT !.at = "return"]  BY <2>3, <1>0, <1>2 DEF Leaving
  <2> QED BY <2>2, <2>3, <1>7 DEF RegisterFails
<1>8. CASE ConfigureFails \/ PostSetupFails \/ Abandon
  BY <1>8 DEF ConfigureFails, PostSetupFails, Abandon, NoErrorInv, LeavingInv, Leaving
<1>9. CASE Dissociate
  <2>1. /\ UNCHANGED global_e3iface_array /\ api'.iface = api.iface
        /\ api.at \in {"dissociate", "clear_peers"}
    BY <1>9, <1>0 DEF Dissociate
  <2> QED BY <2>1, <1>1 DEF Inv, ApiInv, Paired
<1>10. CASE Detach
  <2>1. /\ UNCHANGED global_e3iface_array /\ api'.iface = api.iface
        /\ api.at \in {"detach_input", "detach_output"}
    BY <1>10, <1>0 DEF Detach
  <2> QED BY <2>1, <1>1 DEF NoErrorInv, LeavingInv, Leaving
<1>11. CASE Withdraw
  <2>1. CASE api.other # None /\ api' = [Idle EXCEPT !.at = "detach_input", !.iface = api.other]
    <3>1. PICK i \in Ifaces, j \in Ifaces : i = api.iface /\ j = api.other /\ i # j
      BY <2>1, <1>0, <1>11 DEF Withdraw, Inv, ApiInv, Leaving
    <3>2. PICK p \in Ports : global_e3iface_array[p] = j
      BY <2>1, <3>1 DEF Inv, ApiInv, Published
    <3>3. PICK q \in Ports : global_e3iface_array[q] = i /\ q = port_id[i]
      BY <3>1, <1>11 DEF Withdraw, Published, Inv, PublishedInv
    <3>4. global_e3iface_array' = [global_e3iface_array EXCEPT ![q] = None]
      BY <3>1, <3>3, <1>11 DEF Withdraw
    <3>5. global_e3iface_array'[p] = j  BY <3>1, <3>2, <3>3, <3>4 DEF Inv, Types
    <3>6. api'.iface = j  BY <2>1, <3>1 DEF Idle
    <3> QED BY <3>5, <3>6 DEF LeavingInv, Published
  <2>2. CASE api' = [api EXCEPT !.at = "return"]  BY <2>2, <1>0, <1>2 DEF Leaving
  <2> QED BY <2>1, <2>2, <1>11 DEF Withdraw
<1> QED
  BY <1>3, <1>4, <1>5, <1>6, <1>7, <1>8, <1>9, <1>10, <1>11 DEF ApiCall, ApiStep

LEMMA CallbacksAreOfLiveNodes ==
  ASSUME Failures = {}, Inv, NoErrorInv, [Next]_vars
  PROVE  (\A n \in Nodes : QueuedIsLive(n))'
<1> USE NodesSplit
<1>1. \A n \in Nodes : QueuedIsLive(n)  BY DEF NoErrorInv
<1>2. ASSUME NEW gone, Struck(gone), node_mem' = node_mem
      PROVE  (\A n \in Nodes : QueuedIsLive(n))'
  BY <1>1, <1>2 DEF Struck, QueuedIsLive
<1>3. CASE ApiCall
  BY <1>3, <1>1, NodesKeepNoError DEF ApiCall, CreateE3Iface, ReclaimE3Iface, memory, callbacks
<1>4. ASSUME NEW i \in Ifaces, Register(i) PROVE (\A n \in Nodes : QueuedIsLive(n))'
  <2>1. /\ node_mem' = [node_mem EXCEPT ![Input(i)] = "live", ![Output(i)] = "live"]
        /\ node_rcu' = node_rcu
    BY <1>4 DEF Register, RegisterNodes, callbacks
  <2>2. \A n \in Nodes : node_mem'[n] = "live" \/ node_mem'[n] = node_mem[n]
    BY <2>1 DEF Inv, Types
  <2> QED BY <2>1, <2>2, <1>1 DEF QueuedIsLive
<1>5. CASE RegisterFails
  BY <1>5, <1>1, NodesKeepNoError DEF RegisterFails, RegisterNodesFails, memory, callbacks
<1>6. CASE Abandon  BY <1>6 DEF Abandon, NoErrorInv, LeavingInv, Leaving
<1>7. CASE \/ Attach \/ Publish \/ Correlate \/ ConfigureFails \/ PostSetupFails
           \/ Dissociate \/ Detach \/ Withdraw
  BY <1>7, <1>1, NodesKeepNoError
     DEF Attach, Publish, Correlate, ConfigureFails, PostSetupFails, Dissociate, Detach, Withdraw, memory, callbacks
<1>8. CASE Return
  <2>1. Struck({Master})  BY <1>8, QuiescentStateStrikes DEF Return, Inv
  <2> QED BY <2>1, <1>2, <1>8 DEF Return, memory
<1>9. ASSUME NEW i \in Ifaces, IfaceCallback(i) PROVE (\A n \in Nodes : QueuedIsLive(n))'
  <2>1. /\ node_rcu' = [node_rcu EXCEPT ![Input(i)] = CallRcu, ![Output(i)] = CallRcu]
        /\ node_mem' = node_mem
    BY <1>9 DEF IfaceCallback
  <2>2. \A n \in OwnNodes(i) : node_mem[n] = "live"
    BY <1>9 DEF IfaceCallback, Inv, QueuedInv, LiveInv
  <2>3. \A n \in Nodes \ OwnNodes(i) : node_rcu'[n] = node_rcu[n]
    BY <2>1 DEF Inv, Types, OwnNodes
  <2> QED BY <2>1, <2>2, <2>3, <1>1 DEF QueuedIsLive
<1>10. ASSUME NEW m \in Nodes, NodeCallback(m) PROVE (\A n \in Nodes : QueuedIsLive(n))'
  <2>1. /\ node_rcu' = [node_rcu EXCEPT ![m] = NotQueued]
        /\ node_mem' = [node_mem EXCEPT ![m] = "freed"]
    BY <1>10 DEF NodeCallback
  <2>2. ~node_rcu'[m].queued  BY <2>1, HeadTypes DEF Inv, Types
  <2>3. \A n \in Nodes \ {m} : node_rcu'[n] = node_rcu[n] /\ node_mem'[n] = node_mem[n]
    BY <2>1 DEF Inv, Types
  <2> QED BY <2>2, <2>3, <1>1 DEF QueuedIsLive
<1>11. ASSUME NEW l \in LCores, LCoreStep(l) PROVE (\A n \in Nodes : QueuedIsLive(n))'
  <2>1. CASE Enter(l) \/ FindIface(l) \/ FindPeer(l)
    BY <2>1, <1>1, NodesKeepNoError DEF Enter, FindIface, FindPeer, shared, memory, callbacks
  <2>2. CASE Advance(l)
    <3>1. node_mem' = node_mem  BY <2>2 DEF Advance, shared, memory
    <3>2. CASE QuiescentState(l)
      <4>1. Struck({l})  BY <3>2, QuiescentStateStrikes DEF Inv
      <4> QED BY <4>1, <3>1, <1>2
    <3>3. CASE UNCHANGED callbacks  BY <3>1, <3>3, <1>1, NodesKeepNoError DEF callbacks
    <3> QED BY <2>2, <3>2, <3>3 DEF Advance
  <2> QED BY <1>11, <2>1, <2>2 DEF LCoreStep
<1>12. CASE UNCHANGED vars  BY <1>12, <1>1, NodesKeepNoError DEF vars, memory, callbacks
<1>13. ASSUME ApiStep PROVE (\A n \in Nodes : QueuedIsLive(n))'
  BY <1>13, <1>4, <1>5, <1>6, <1>7, <1>8 DEF ApiStep
<1>14. ASSUME RcuThread PROVE (\A n \in Nodes : QueuedIsLive(n))'
  BY <1>14, <1>9, <1>10 DEF RcuThread
<1> QED BY <1>3, <1>11, <1>12, <1>13, <1>14 DEF Next

LEMMA NextKeepsNoError ==
  ASSUME Failures = {}, Inv, NoErrorInv, [Next]_vars
  PROVE  NoErrorInv'
<1>1. ASSUME UNCHANGED <<global_e3iface_array, api>>
      PROVE  LeavingInv'
  BY <1>1 DEF NoErrorInv, LeavingInv, Published
<1>2. ASSUME RcuThread PROVE LeavingInv'
  BY <1>2, <1>1 DEF RcuThread, IfaceCallback, NodeCallback
<1>3. ASSUME NEW l \in LCores, LCoreStep(l) PROVE LeavingInv'
  BY <1>3, <1>1 DEF LCoreStep, Enter, FindIface, FindPeer, Advance, shared
<1>4. ASSUME UNCHANGED vars PROVE LeavingInv'  BY <1>4, <1>1 DEF vars
<1>5. LeavingInv'
  BY <1>2, <1>3, <1>4, LeavesPublished DEF Next
<1> QED BY <1>5, CallbacksAreOfLiveNodes DEF NoErrorInv

\* Variables keep their types; the load of an lcore, which put_lcore decrements, never
\* gets below zero because it counts the nodes that the lcore holds.
THEOREM InterfaceTypes == Spec => []TypeOK
<1>1. Inv /\ LoadInv => TypeOK
  <2> SUFFICES ASSUME Inv, LoadInv PROVE TypeOK  OBVIOUS
  <2>1. attached_io_nodes \in [LCores -> Nat]
    <3>1. \A l \in LCores : attached_io_nodes[l] \in Nat
      BY HeldIsFinite, FS_CardinalityType DEF LoadInv
    <3> QED BY <3>1 DEF Inv, Types
  <2> QED BY <2>1 DEF Inv, Types, TypeOK
<1> QED BY <1>1, InvHolds, LoadHolds, PTL

\* No lcore that walks its list (foreach_node_in_lcore) is at freed memory, nor uses a
\* freed interface or the freed output node of a peer, in whatever order the master
\* lcore unlinks nodes, withdraws interfaces and queues callbacks; the nodes that the
\* error path of register_e3interface frees at once are the exception.
THEOREM LcoresUseLiveMemory == Spec => []WalksAreSafe
<1>1. Inv => WalksAreSafe  BY InvGivesWalks
<1> QED BY <1>1, InvHolds, PTL

\* The assertions of unregister_e3interface and of its callback: the indices of an
\* interface lead to its own nodes for as long as anyone may look them up.
THEOREM NodesKeepTheirIndices == Spec => []IndicesLeadToOwnNodes
<1>1. Inv => IndicesLeadToOwnNodes  BY InvGivesIndices
<1> QED BY <1>1, InvHolds, PTL

\* release_e3iface_with_slowpath may assert that dissociate_e3interface succeeds.
THEOREM PairsAreDissociated == Spec => []PeersAreMutual
<1>1. Inv => PeersAreMutual  BY InvGivesPeers
<1> QED BY <1>1, InvHolds, PTL

\* attach_node_to_lcore and detach_node_from_lcore lose no node of a list: an lcore that
\* walks its list comes to every node linked to it, those of the published interfaces
\* between two API calls, and attached_io_nodes, which get_io_lcore compares, counts them.
THEOREM NodesStayScheduled == Spec => []NodesAreScheduled
<1>1. Inv /\ LoadInv /\ ReachInv => NodesAreScheduled  BY InvGivesSchedule
<1> QED BY <1>1, InvHolds, LoadHolds, ReachHolds, PTL

\* Only the error paths of register_e3interface free what is in use: if neither the
\* ring of a node nor post_setup fails, no lcore ever uses freed memory, and no callback
\* is queued for a freed node.
THEOREM OnlyErrorPathsFreeInUse ==
  ASSUME Failures = {}
  PROVE  Spec => []NoFreedMemoryInUse
<1>1. Init => NoErrorInv
  BY DEF Init, NoErrorInv, LeavingInv, QueuedIsLive, Leaving, Idle, NotQueued
<1>2. Inv /\ NoErrorInv /\ [Next]_vars => NoErrorInv'  BY NextKeepsNoError
<1>3. Inv /\ NoErrorInv => NoFreedMemoryInUse
  <2> SUFFICES ASSUME Inv, NoErrorInv PROVE NoFreedMemoryInUse  OBVIOUS
  <2>1. \A n \in Nodes : ~Abandoned(n)  BY DEF NoErrorInv, QueuedIsLive, Abandoned
  <2>2. \A l \in LCores : at[l] # None => at[l] \in Nodes  BY DEF Inv, Types
  <2> QED BY <2>1, <2>2, InvGivesWalks DEF WalksAreSafe, NoFreedMemoryInUse
<1> QED BY <1>1, <1>2, <1>3, InvHolds, PTL DEF Spec
===============================================================================

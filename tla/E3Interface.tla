---------------------------- MODULE E3Interface ----------------------------
(***************************************************************************)
(* The life of an interface (e3infra/e3interface.c, e3net/e3iface-wrapper.c) *)
(* and of its nodes (e3infra/node.c): they are registered and withdrawn by *)
(* one API call at a time (e3iface_guard) on the master lcore, run by the  *)
(* I/O lcores without locks (e3infra/lcore-extension.c), and freed by RCU  *)
(* callbacks.  An interface has one queue, thus an input and an output     *)
(* node, as every model of e3iface-inventory.c has.  Memory is not used    *)
(* again, so it keeps its content when it is freed: each member of Ifaces  *)
(* is one struct E3Interface.                                              *)
(***************************************************************************)
EXTENDS Integers, FiniteSets

CONSTANTS
  Ifaces,    \* struct E3Interface, allocated at most once each
  NrPorts,   \* ports of DPDK
  NrNodes,   \* MAX_NR_NODES, large enough for the nodes of all ports
  LCores,    \* the I/O lcores, in the order of RTE_LCORE_FOREACH
  Master,    \* the master lcore
  SocketOf,  \* the NUMA node of each I/O lcore
  Failures,  \* steps of a registration that may fail once nodes exist
  None

ASSUME PortsAssumption ==
  NrPorts \in Nat \ {0} /\ NrNodes \in Nat /\ NrNodes >= 2 * NrPorts
ASSUME LCoresAssumption ==
  LCores \subseteq Nat /\ LCores # {} /\ IsFiniteSet(LCores) /\ Master \notin LCores
ASSUME IfacesAssumption == IsFiniteSet(Ifaces)
ASSUME FailuresAssumption == Failures \subseteq
  {"rte_ring_create", "rte_eth_dev_configure", "post_setup"}

Ports == 0 .. NrPorts - 1
Input(i) == <<i, "input">>
Output(i) == <<i, "output">>
Nodes == Ifaces \X {"input", "output"}
Readers == LCores \cup {Master}
ASSUME NoneAssumption == None \notin Ifaces \cup Nodes \cup LCores \cup Ports

VARIABLES
  iface_mem,             \* is each interface unused, allocated or freed
  node_mem,              \* the same of each node
  port_id, peer_port_id, has_peer_device,  \* fields of each interface
  global_e3iface_array,  \* the interface published at each port
  gnode_array,           \* the node at each index
  node_index,            \* the index of each node
  lcore_id,              \* the lcore of each node
  attached_io_nodes,     \* the load of each lcore
  lcore_task_list, next, \* the list of nodes of each lcore
  linked,                \* the nodes that are on a list; others keep a stale next
  iface_rcu, node_rcu,   \* rcu_head: is the callback queued, for whom does it wait
  at, pif, peer_if,      \* where each lcore is in its list, and what it has found
  api                    \* the API call in progress

memory == <<iface_mem, node_mem>>
fields == <<port_id, peer_port_id, has_peer_device>>
indices == <<gnode_array, node_index>>
load == <<lcore_id, attached_io_nodes>>
lists == <<lcore_task_list, next, linked>>
callbacks == <<iface_rcu, node_rcu>>
lcores == <<at, pif, peer_if>>
vars == <<memory, fields, global_e3iface_array, indices, load, lists, callbacks,
          lcores, api>>

Memory == {"unused", "live", "freed"}
RcuHead == [queued : BOOLEAN, readers : SUBSET Readers]
NotQueued == [queued |-> FALSE, readers |-> {}]
Steps == {"idle", "register", "attach_input", "attach_output", "post_setup",
          "correlate", "set_peers", "dissociate", "clear_peers",
          "detach_input", "detach_output", "withdraw", "return"}
Idle == [at |-> "idle", iface |-> None, other |-> None, slow_path |-> FALSE]

TypeOK ==
  /\ iface_mem \in [Ifaces -> Memory] /\ node_mem \in [Nodes -> Memory]
  /\ port_id \in [Ifaces -> Ports \cup {None}]
  /\ peer_port_id \in [Ifaces -> Ports] /\ has_peer_device \in [Ifaces -> BOOLEAN]
  /\ global_e3iface_array \in [Ports -> Ifaces \cup {None}]
  /\ gnode_array \in [0 .. NrNodes - 1 -> Nodes \cup {None}]
  /\ node_index \in [Nodes -> 0 .. NrNodes - 1]
  /\ lcore_id \in [Nodes -> LCores \cup {None}]
  /\ attached_io_nodes \in [LCores -> Nat]
  /\ lcore_task_list \in [LCores -> Nodes \cup {None}]
  /\ next \in [Nodes -> Nodes \cup {None}] /\ linked \subseteq Nodes
  /\ iface_rcu \in [Ifaces -> RcuHead] /\ node_rcu \in [Nodes -> RcuHead]
  /\ at \in [LCores -> Nodes \cup {None}]
  /\ pif \in [LCores -> Ifaces \cup {None}]
  /\ peer_if \in [LCores -> Ifaces \cup {None}]
  /\ api \in [at : Steps, iface : Ifaces \cup {None}, other : Ifaces \cup {None},
              slow_path : BOOLEAN]

Init ==
  /\ iface_mem = [i \in Ifaces |-> "unused"] /\ node_mem = [n \in Nodes |-> "unused"]
  /\ port_id = [i \in Ifaces |-> None]
  /\ peer_port_id = [i \in Ifaces |-> 0] /\ has_peer_device = [i \in Ifaces |-> FALSE]
  /\ global_e3iface_array = [p \in Ports |-> None]
  /\ gnode_array = [x \in 0 .. NrNodes - 1 |-> None]
  /\ node_index = [n \in Nodes |-> 0]
  /\ lcore_id = [n \in Nodes |-> None]
  /\ attached_io_nodes = [l \in LCores |-> 0]
  /\ lcore_task_list = [l \in LCores |-> None] /\ next = [n \in Nodes |-> None] /\ linked = {}
  /\ iface_rcu = [i \in Ifaces |-> NotQueued] /\ node_rcu = [n \in Nodes |-> NotQueued]
  /\ at = [l \in LCores |-> None]
  /\ pif = [l \in LCores |-> None] /\ peer_if = [l \in LCores |-> None]
  /\ api = Idle

----------------------------------------------------------------------------
(* RCU.  A callback waits for whoever is in a read-side section when it is *)
(* queued: an lcore until it has walked its list, the master lcore until   *)
(* its API call has returned.                                              *)

Reading == {l \in LCores : at[l] # None}
           \cup (IF api.at = "idle" THEN {} ELSE {Master})

\* Mutant: a callback that does not wait.
CallNow == [queued |-> TRUE, readers |-> {}]

CallRcu == [queued |-> TRUE, readers |-> Reading]

\* Mutant: an lcore that does not report a quiescent state.
NeverQuiescent(r) == UNCHANGED callbacks

\* rcu_quiescent_state.
QuiescentState(r) ==
  /\ iface_rcu' = [i \in Ifaces |-> [iface_rcu[i] EXCEPT !.readers = @ \ {r}]]
  /\ node_rcu' = [n \in Nodes |-> [node_rcu[n] EXCEPT !.readers = @ \ {r}]]

----------------------------------------------------------------------------
(* Registration.                                                           *)

Attached(p) == \E i \in Ifaces : iface_mem[i] = "live" /\ port_id[i] = p

\* The port of rte_eth_dev_attach: the first that no device has.
FreePort(p) == ~Attached(p) /\ \A q \in 0 .. p - 1 : Attached(q)

\* rte_ring_create refuses the name of a ring that is not yet freed, as the callback
\* of its node does, also if the error path has freed the node before.
RingNameTaken(p) ==
  \E i \in Ifaces :
    port_id[i] = p /\ (node_mem[Output(i)] = "live" \/ node_rcu[Output(i)].queued)

\* Mutant: register_node takes a slot without looking whether it is free.
IsAnySlot(x, taken) == x = Cardinality(taken)

\* register_node takes the first free slot of gnode_array.
IsFreeSlot(x, taken) ==
  /\ gnode_array[x] = None /\ x \notin taken
  /\ \A y \in 0 .. x - 1 : gnode_array[y] # None \/ y \in taken

\* get_io_lcore, get_io_lcore_by_socket_id: the first of the least loaded in a set;
\* busy are loads not yet recorded.
LeastLoaded(l, among, busy) ==
  LET Load(m) == attached_io_nodes[m] + (IF m \in busy THEN 1 ELSE 0)
  IN  l \in among /\ \A m \in among : Load(l) < Load(m) \/ (Load(l) = Load(m) /\ l <= m)

\* register_e3interface up to step 6: the device is attached, nodes get their
\* lcores and are registered.  Lcores see nothing of it.
RegisterNodes(i) ==
  /\ iface_mem[i] = "unused"
  /\ \E p \in Ports : FreePort(p) /\ ~RingNameTaken(p) /\ port_id' = [port_id EXCEPT ![i] = p]
  /\ \E l, m \in LCores :
       /\ LeastLoaded(l, LCores, {})
       /\ LeastLoaded(m, {k \in LCores : SocketOf[k] = SocketOf[l]}, {l})
       /\ lcore_id' = [lcore_id EXCEPT ![Input(i)] = l, ![Output(i)] = m]
       /\ attached_io_nodes' = [k \in LCores |-> attached_io_nodes[k]
            + (IF k = l THEN 1 ELSE 0) + (IF k = m THEN 1 ELSE 0)]
  /\ \E x, y \in 0 .. NrNodes - 1 :
       /\ IsFreeSlot(x, {}) /\ IsFreeSlot(y, {x})
       /\ gnode_array' = [gnode_array EXCEPT ![x] = Input(i), ![y] = Output(i)]
       /\ node_index' = [node_index EXCEPT ![Input(i)] = x, ![Output(i)] = y]
  /\ iface_mem' = [iface_mem EXCEPT ![i] = "live"]
  /\ node_mem' = [node_mem EXCEPT ![Input(i)] = "live", ![Output(i)] = "live"]
  /\ UNCHANGED <<peer_port_id, has_peer_device, global_e3iface_array, lists,
                 callbacks, lcores>>

\* The ring of the output node cannot be created: the input node is unregistered,
\* which queues its callback, and freed at once.
RegisterNodesFails(i) ==
  /\ "rte_ring_create" \in Failures /\ iface_mem[i] = "unused"
  /\ \E p \in Ports : FreePort(p) /\ RingNameTaken(p)
  /\ node_rcu' = [node_rcu EXCEPT ![Input(i)] = CallRcu]
  /\ iface_mem' = [iface_mem EXCEPT ![i] = "freed"]
  /\ node_mem' = [node_mem EXCEPT ![Input(i)] = "freed", ![Output(i)] = "freed"]
  /\ UNCHANGED <<fields, global_e3iface_array, indices, load, lists, iface_rcu, lcores>>

\* create_e3iface, with a tap device as the slow path or without.
CreateE3Iface(slow) ==
  /\ api.at = "idle"
  /\ api' = [Idle EXCEPT !.at = "register", !.slow_path = slow]
  /\ UNCHANGED <<memory, fields, global_e3iface_array, indices, load, lists, callbacks,
                 lcores>>

Register(i) ==
  /\ api.at = "register"
  /\ RegisterNodes(i)
  /\ api' = [api EXCEPT !.at = "attach_input", !.iface = i]

\* The device cannot be attached or lacks a capability, or the nodes cannot be
\* registered.  If it is the tap device, the physical interface is unregistered.
RegisterFails ==
  /\ api.at = "register"
  /\ \/ \E i \in Ifaces : RegisterNodesFails(i)
     \/ UNCHANGED <<memory, fields, global_e3iface_array, indices, load, lists,
                    callbacks, lcores>>
  /\ \/ api.other = None /\ api' = [api EXCEPT !.at = "return"]
     \/ api.other # None
        /\ api' = [Idle EXCEPT !.at = "detach_input", !.iface = api.other]

\* attach_node_to_lcore pushes a node on the list of its lcore.
AttachNode(n) ==
  LET l == lcore_id[n]
  IN  /\ next' = [next EXCEPT ![n] = lcore_task_list[l]]
      /\ lcore_task_list' = [lcore_task_list EXCEPT ![l] = n]
      /\ linked' = linked \cup {n}

Attach ==
  /\ \/ /\ api.at = "attach_input" /\ AttachNode(Input(api.iface))
        /\ api' = [api EXCEPT !.at = "attach_output"]
     \/ /\ api.at = "attach_output" /\ AttachNode(Output(api.iface))
        /\ api' = [api EXCEPT !.at = "post_setup"]
  /\ UNCHANGED <<memory, fields, global_e3iface_array, indices, load, callbacks, lcores>>

\* Steps 11 to 13: the interface is published.  A physical interface may want a
\* tap device; a tap device is correlated with its physical interface.
Publish ==
  LET i == api.iface
  IN  /\ api.at = "post_setup"
      /\ global_e3iface_array' = [global_e3iface_array EXCEPT ![port_id[i]] = i]
      /\ \/ api.other # None /\ api' = [api EXCEPT !.at = "correlate"]
         \/ api.other = None /\ api.slow_path
            /\ api' = [api EXCEPT !.at = "register", !.iface = None, !.other = i]
         \/ api.other = None /\ ~api.slow_path
            /\ api' = [api EXCEPT !.at = "return"]
      /\ UNCHANGED <<memory, fields, indices, load, lists, callbacks, lcores>>

\* correlate_e3interfaces: the ports first, then the flags.
Correlate ==
  LET i == api.iface
      j == api.other
  IN  /\ \/ /\ api.at = "correlate"
            /\ peer_port_id' = [peer_port_id EXCEPT ![i] = port_id[j], ![j] = port_id[i]]
            /\ api' = [api EXCEPT !.at = "set_peers"]
            /\ UNCHANGED has_peer_device
         \/ /\ api.at = "set_peers"
            /\ has_peer_device' = [has_peer_device EXCEPT ![i] = TRUE, ![j] = TRUE]
            /\ api' = [api EXCEPT !.at = "return"]
            /\ UNCHANGED peer_port_id
      /\ UNCHANGED <<memory, port_id, global_e3iface_array, indices, load, lists,
                     callbacks, lcores>>

\* Steps 7 and 8 fail, the configuration of the device or of its queues: the lcores
\* are put back, and no list has the nodes yet (error_nodes_unregister).
ConfigureFails ==
  LET Own(l) == {n \in {Input(api.iface), Output(api.iface)} : lcore_id[n] = l}
  IN  /\ "rte_eth_dev_configure" \in Failures /\ api.at = "attach_input"
      /\ attached_io_nodes' = [l \in LCores |-> attached_io_nodes[l] - Cardinality(Own(l))]
      /\ api' = [api EXCEPT !.at = "withdraw"]
      /\ UNCHANGED <<memory, fields, global_e3iface_array, indices, lcore_id, lists,
                     callbacks, lcores>>

\* post_setup of the role fails, or an edge of its nodes: error_lcore_detach.  A tap
\* device has neither.
PostSetupFails ==
  /\ "post_setup" \in Failures
  /\ api.at = "post_setup" /\ api.other = None
  /\ api' = [api EXCEPT !.at = "detach_input"]
  /\ UNCHANGED <<memory, fields, global_e3iface_array, indices, load, lists, callbacks,
                 lcores>>

----------------------------------------------------------------------------
(* Release.                                                                *)

\* release_e3iface_with_slowpath of a published interface.
ReclaimE3Iface(p) ==
  LET i == global_e3iface_array[p]
  IN  /\ api.at = "idle" /\ i # None
      /\ api' = [Idle EXCEPT !.at = IF has_peer_device[i] THEN "dissociate"
                                                         ELSE "detach_input",
                             !.iface = i]
      /\ UNCHANGED <<memory, fields, global_e3iface_array, indices, load, lists,
                     callbacks, lcores>>

Peer(i) == global_e3iface_array[peer_port_id[i]]

\* What dissociate_e3interface tests: its caller asserts that it succeeds.
CanDissociate(i) ==
  /\ has_peer_device[i] /\ Peer(i) # None
  /\ has_peer_device[Peer(i)] /\ peer_port_id[Peer(i)] = port_id[i]

\* Mutant: dissociate_e3interface forgets the peer.
DissociateOne ==
  LET i == api.iface
      j == api.other
  IN  /\ \/ /\ api.at = "dissociate" /\ CanDissociate(i)
            /\ has_peer_device' = [has_peer_device EXCEPT ![i] = FALSE]
            /\ api' = [api EXCEPT !.at = "clear_peers"]
            /\ UNCHANGED peer_port_id
         \/ /\ api.at = "clear_peers"
            /\ peer_port_id' = [peer_port_id EXCEPT ![i] = 0]
            /\ api' = [api EXCEPT !.at = "detach_input"]
            /\ UNCHANGED has_peer_device
      /\ UNCHANGED <<memory, port_id, global_e3iface_array, indices, load, lists,
                     callbacks, lcores>>

\* dissociate_e3interface: the flags first, then the ports.
Dissociate ==
  LET i == api.iface
      j == api.other
  IN  /\ \/ /\ api.at = "dissociate" /\ CanDissociate(i)
            /\ has_peer_device' = [has_peer_device EXCEPT ![i] = FALSE, ![Peer(i)] = FALSE]
            /\ api' = [api EXCEPT !.at = "clear_peers", !.other = Peer(i)]
            /\ UNCHANGED peer_port_id
         \/ /\ api.at = "clear_peers"
            /\ peer_port_id' = [peer_port_id EXCEPT ![i] = 0, ![j] = 0]
            /\ api' = [api EXCEPT !.at = "detach_input"]
            /\ UNCHANGED has_peer_device
      /\ UNCHANGED <<memory, port_id, global_e3iface_array, indices, load, lists,
                     callbacks, lcores>>

\* Mutant: detach_node_from_lcore takes the first node of the list for its own.
UnlinkFirst(n) ==
  LET l == lcore_id[n]
  IN  /\ lcore_task_list' = [lcore_task_list EXCEPT ![l] = next[@]]
      /\ linked' = linked \ {n}
      /\ UNCHANGED next

\* detach_node_from_lcore: n keeps its own next.
Unlink(n) ==
  LET l == lcore_id[n]
  IN  /\ n \in linked /\ linked' = linked \ {n}
      /\ \/ /\ lcore_task_list[l] = n
            /\ lcore_task_list' = [lcore_task_list EXCEPT ![l] = next[n]]
            /\ UNCHANGED next
         \/ \E parent \in linked :
              /\ next[parent] = n
              /\ next' = [next EXCEPT ![parent] = next[n]]
              /\ UNCHANGED lcore_task_list

\* A node leaves its list and its lcore is put back (put_lcore).
Detach ==
  LET i == api.iface
      n == IF api.at = "detach_input" THEN Input(i) ELSE Output(i)
  IN  /\ api.at \in {"detach_input", "detach_output"} /\ Unlink(n)
      /\ attached_io_nodes' = [attached_io_nodes EXCEPT ![lcore_id[n]] = @ - 1]
      /\ api' = [api EXCEPT !.at = IF @ = "detach_input" THEN "detach_output"
                                                        ELSE "withdraw"]
      /\ UNCHANGED <<memory, fields, global_e3iface_array, indices, lcore_id,
                     callbacks, lcores>>

Published(i) == \E p \in Ports : global_e3iface_array[p] = i

\* The end of unregister_e3interface: nobody can find the interface any more, and
\* its callback is queued.  Its peer, if any, is next.
Withdraw ==
  LET i == api.iface
  IN  /\ api.at = "withdraw" /\ Published(i)
      /\ global_e3iface_array' = [global_e3iface_array EXCEPT ![port_id[i]] = None]
      /\ iface_rcu' = [iface_rcu EXCEPT ![i] = CallRcu]
      /\ \/ api.other # None
            /\ api' = [Idle EXCEPT !.at = "detach_input", !.iface = api.other]
         \/ api.other = None /\ api' = [api EXCEPT !.at = "return"]
      /\ UNCHANGED <<memory, fields, indices, load, lists, node_rcu, lcores>>

\* The end of the error path: the nodes' callbacks are queued, and the nodes freed
\* at once (error_nodes_unregister, error_nodes_dealloc, error_iface_dealloc).  If it
\* is the tap device that fails, the physical interface is unregistered.
Abandon ==
  LET i == api.iface
  IN  /\ api.at = "withdraw" /\ ~Published(i)
      /\ gnode_array' = [gnode_array EXCEPT ![node_index[Input(i)]] = None,
                                            ![node_index[Output(i)]] = None]
      /\ node_rcu' = [node_rcu EXCEPT ![Input(i)] = CallRcu, ![Output(i)] = CallRcu]
      /\ node_mem' = [node_mem EXCEPT ![Input(i)] = "freed", ![Output(i)] = "freed"]
      /\ iface_mem' = [iface_mem EXCEPT ![i] = "freed"]
      /\ \/ api.other = None /\ api' = [api EXCEPT !.at = "return"]
         \/ api.other # None
            /\ api' = [Idle EXCEPT !.at = "detach_input", !.iface = api.other]
      /\ UNCHANGED <<fields, global_e3iface_array, node_index, load, lists, iface_rcu,
                     lcores>>

\* The API call returns, and the master lcore comes to its quiescent state.
Return ==
  /\ api.at = "return"
  /\ api' = Idle
  /\ QuiescentState(Master)
  /\ UNCHANGED <<memory, fields, global_e3iface_array, indices, load, lists, lcores>>

----------------------------------------------------------------------------
(* The RCU thread.                                                         *)

\* _unregister_e3interface_rcu_callback: nodes are unregistered, the device is
\* detached and the interface freed.
IfaceCallback(i) ==
  LET x == node_index[Input(i)]
      y == node_index[Output(i)]
  IN  /\ iface_rcu[i].queued /\ iface_rcu[i].readers = {}
      /\ gnode_array' = [gnode_array EXCEPT ![x] = None, ![y] = None]
      /\ node_rcu' = [node_rcu EXCEPT ![Input(i)] = CallRcu, ![Output(i)] = CallRcu]
      /\ iface_rcu' = [iface_rcu EXCEPT ![i] = NotQueued]
      /\ iface_mem' = [iface_mem EXCEPT ![i] = "freed"]
      /\ UNCHANGED <<node_mem, fields, global_e3iface_array, node_index, load, lists,
                     lcores, api>>

\* _unregister_node_callback_func: the ring, then input_and_output_reclaim_func.
NodeCallback(n) ==
  /\ node_rcu[n].queued /\ node_rcu[n].readers = {}
  /\ node_rcu' = [node_rcu EXCEPT ![n] = NotQueued]
  /\ node_mem' = [node_mem EXCEPT ![n] = "freed"]
  /\ UNCHANGED <<iface_mem, fields, global_e3iface_array, indices, load, lists,
                 iface_rcu, lcores, api>>

RcuThread ==
  \/ \E i \in Ifaces : IfaceCallback(i)
  \/ \E n \in Nodes : NodeCallback(n)

----------------------------------------------------------------------------
(* An I/O lcore (lcore_default_entry).                                     *)

shared == <<memory, fields, global_e3iface_array, indices, load, lists>>

\* foreach_node_in_lcore begins.
Enter(l) ==
  /\ at[l] = None /\ lcore_task_list[l] # None
  /\ at' = [at EXCEPT ![l] = lcore_task_list[l]]
  /\ UNCHANGED <<shared, callbacks, pif, peer_if, api>>

\* The interface of an input node that has a peer, if there is one.
FoundIface(l) ==
  LET i == global_e3iface_array[port_id[at[l][1]]]
  IN  IF at[l][2] = "input" /\ i # None /\ has_peer_device[i] THEN i ELSE None

\* An input node finds its interface, and that it has a peer.
FindIface(l) ==
  /\ at[l] # None /\ pif[l] = None /\ FoundIface(l) # None
  /\ pif' = [pif EXCEPT ![l] = FoundIface(l)]
  /\ UNCHANGED <<shared, callbacks, at, peer_if, api>>

\* It finds the peer, to whose output node it delivers.
FindPeer(l) ==
  /\ pif[l] # None /\ peer_if[l] = None /\ Peer(pif[l]) # None
  /\ peer_if' = [peer_if EXCEPT ![l] = Peer(pif[l])]
  /\ UNCHANGED <<shared, callbacks, at, pif, api>>

\* node_process_func returns: it has delivered, or not found what it needs.
Processed(l) ==
  \/ pif[l] = None /\ FoundIface(l) = None
  \/ pif[l] # None /\ peer_if[l] = None /\ Peer(pif[l]) = None
  \/ peer_if[l] # None

\* The next node of the list, or the quiescent state after the last.
Advance(l) ==
  /\ at[l] # None /\ Processed(l)
  /\ at' = [at EXCEPT ![l] = next[@]]
  /\ pif' = [pif EXCEPT ![l] = None] /\ peer_if' = [peer_if EXCEPT ![l] = None]
  /\ \/ next[at[l]] = None /\ QuiescentState(l)
     \/ next[at[l]] # None /\ UNCHANGED callbacks
  /\ UNCHANGED <<shared, api>>

LCoreStep(l) == Enter(l) \/ FindIface(l) \/ FindPeer(l) \/ Advance(l)

ApiStep ==
  \/ \E i \in Ifaces : Register(i)
  \/ RegisterFails \/ Attach \/ Publish \/ Correlate \/ ConfigureFails \/ PostSetupFails
  \/ Dissociate \/ Detach \/ Withdraw \/ Abandon \/ Return

ApiCall ==
  \/ \E slow \in BOOLEAN : CreateE3Iface(slow)
  \/ \E p \in Ports : ReclaimE3Iface(p)

Next == ApiCall \/ ApiStep \/ RcuThread \/ \E l \in LCores : LCoreStep(l)

Spec == Init /\ [][Next]_vars

\* Lcores poll for ever, a call that has begun goes on, and so does the RCU thread.
FairSpec ==
  Spec /\ WF_vars(ApiStep) /\ WF_vars(RcuThread) /\ \A l \in LCores : WF_vars(LCoreStep(l))

----------------------------------------------------------------------------
(* Properties.                                                             *)

\* Freed by the error path of a registration, with its callback still to run.
Abandoned(n) == node_mem[n] = "freed" /\ node_rcu[n].queued

\* What an interface owns is freed in RCU context only, as
\* pye3datapath/unit_test/test_e3interface.py:60 says: no lcore runs a node or uses
\* an interface that is freed, and no callback runs on a freed node.
NoFreedMemoryInUse ==
  /\ \A l \in LCores :
       /\ at[l] # None => node_mem[at[l]] = "live"
       /\ pif[l] # None => iface_mem[pif[l]] = "live"
       /\ peer_if[l] # None => iface_mem[peer_if[l]] = "live"
  /\ \A n \in Nodes : ~Abandoned(n)

\* The same of the interfaces that were published: what lcores find in a list or in
\* the table of interfaces outlives their walk, in whatever order lists and table
\* lose it.  Only nodes that the error path of register_e3interface has freed are
\* excepted.
WalksAreSafe ==
  \A l \in LCores :
    /\ at[l] # None => node_mem[at[l]] = "live" \/ Abandoned(at[l])
    /\ pif[l] # None => iface_mem[pif[l]] = "live"
    /\ peer_if[l] # None =>
         iface_mem[peer_if[l]] = "live" /\ node_mem[Output(peer_if[l])] = "live"

\* The interface that anybody can find, or whose callback is to run, finds its own
\* nodes at its indices (the assertions of unregister_e3interface and its callback),
\* and so does an lcore that delivers to it.
IndicesLeadToOwnNodes ==
  \A i \in Ifaces :
    Published(i) \/ iface_rcu[i].queued \/ (\E l \in LCores : peer_if[l] = i) =>
      \A n \in {Input(i), Output(i)} : gnode_array[node_index[n]] = n

\* A set that a walk of the list of l does not leave, and what every walk comes to.
Closed(l, S) ==
  lcore_task_list[l] \in S \cup {None} /\ \A n \in S : next[n] \in S \cup {None}
Reached(l) ==
  LET closed == {S \in SUBSET Nodes : Closed(l, S)}
  IN  {n \in Nodes : \A S \in closed : n \in S}

\* Interfaces without an API call at work have nodes that their lcores reach, and
\* come to once: no node follows two others, and none precedes the first of a list.
\* The load of an lcore is the number of nodes it runs.
NodesAreScheduled ==
  LET reached == [l \in LCores |-> Reached(l)]
  IN  /\ linked = UNION {reached[l] : l \in LCores}
      /\ \A m \in linked : next[m] # None =>
           /\ \A n \in linked : next[m] = next[n] => m = n
           /\ \A l \in LCores : next[m] # lcore_task_list[l]
      /\ api.at = "idle" =>
           \A l \in LCores :
             /\ reached[l] = {n \in Nodes : lcore_id[n] = l /\ Published(n[1])}
             /\ attached_io_nodes[l] = Cardinality(reached[l])

\* An interface with a peer is its peer's peer, so release_e3iface_with_slowpath can
\* dissociate them, as it asserts, and releases both.
PeersAreMutual ==
  /\ api.at = "dissociate" => CanDissociate(api.iface)
  /\ api.at = "idle" =>
       \A i \in Ifaces : Published(i) /\ has_peer_device[i] =>
         CanDissociate(i) /\ Peer(i) # i

\* An interface that is withdrawn is freed with its nodes, after two grace periods.
\* There are finitely many interfaces, so it is enough that again and again no
\* callback waits.
WithdrawnIfaceIsFreed ==
  []<>(/\ \A i \in Ifaces : ~iface_rcu[i].queued
       /\ \A n \in Nodes : ~node_rcu[n].queued)
=============================================================================

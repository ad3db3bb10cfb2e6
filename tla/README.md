# e3datapath in TLA+

e3datapath is a DPDK datapath for L2 services over MPLS. A *leaf* switch binds
customer VLANs to E-LINE (point-to-point) and E-LAN (multipoint) services and
carries them under labels; a *spine* switch swaps labels. This directory models
the switch: the tables that API calls change and the references they hold on each
other, the input nodes that forward bursts through those tables without a lock,
the life of interfaces and of the nodes that lcores run, and the transport that
carries the calls.

## The system

| Part | State | Operations | Hard behaviour | Must hold |
|---|---|---|---|---|
| common neighbors and next hops (`e3net/common-nhlfe.c`) | `neighbor_base`, `nexthop_base`, a rwlock each | register, refresh, delete, reference, dereference | a registration releases `neighbor_guard` between the lookup and the reference; 16-bit counts | counts are exact, next hops never dangle |
| E-services (`leaf/leaf-e-service.c`) | `e_line_base`, `e_lan_base`, the MAC index of each E-LAN | register and delete services, ports, nhlfes, MAC entries, multicast | a deleted E-LAN is released by the RCU thread | no service or next hop in use is deleted, no MAC entry outlives its port |
| customer service ports (`leaf/customer-service-port*.c`) | VLAN table of each interface under `csp_guard` | setup, withdraw, interface release | several critical sections in a call, interface release takes no guard | VLAN table and services agree |
| customer backbone ports (`leaf/customer-backbone-port*.c`, `leaf/leaf-label-fib.c`) | label FIB of each interface under `cbp_guard` | setup and clear label, set and clear egress index, interface release | the service is looked up without a lock; one reference per FIB, not per label | a valid label leads to a service |
| MAC learning (`leaf/mac-learning.c`) | a cache of the burst, a ring of new entries | refresh on the I/O lcore, insert on the master | an entry waits while its port or path is deleted | what is seen in one E-LAN is learned there |
| fast index (`e3infra/fast-index.c`) | lists of entries of several slots, from MAC to forwarding entry | add, delete, lookup, update, cleanup | lock-free readers of half-written slots, entries freed by RCU | it is a finite function, and what stays is found |
| spine groups and labels (`spine/*.c`) | `label_nexthop_base`, label FIB of each provider port | register, modify, delete groups; set, reset labels | weighted members, references through two tables | as for the leaf |
| nodes and lcores (`e3infra/node.c`, `lcore-extension.c`) | node table, list of nodes of each lcore | register, attach, detach, unregister | RCU teardown while lcores run the node | no lcore runs a freed node |
| node classes (`e3infra/node-class.c`, `node-adjacency.c`) | slots of a class with the count of edges attached, the slot each edge selected | add, delete, set and clean an edge, select | lcores select with a compare-and-swap while members change | only what was added is a member, counts are those of the edges |
| interfaces (`e3infra/e3interface.c`) | interface table, queue nodes, peers | register, unregister, correlate, dissociate, link change interrupt | error paths, RCU teardown | as for nodes |
| forwarding paths (`leaf/customer-*-port.c`, `spine/provider-backbone-port.c`, `mbuf-delivery.h`) | the burst and its caches | process a burst, copy to a group or an E-LAN | tables are read several times for one packet; caches are keyed by part of what they depend on | every packet is sent or freed once, and goes where its service goes |
| API transport (`e3api/`, `e3infra/api-node.c`) | socket pool, service table | call, serve, time out | concurrent callers, late answers | one reply for one request |
| start-up (`e3infra/e3-init.c`), hash map, configuration, logging | task list, buckets | register, run | constructor order | dependencies run first |

Threads. The master lcore runs the API node, one endpoint in the default build
and one per lcore with `ENABLE_MULTIPLE_API_ENDPOINT`
(`config/e3-config.h:20`), and the MAC learning nodes. I/O lcores poll the
interfaces without locks and pass a quiescent state each round
(`lcore-extension.c:309`). A thread of liburcu runs `call_rcu` callbacks in
order. The interrupt thread reports link changes.

References. A next hop holds one on its neighbor. An E-LINE's nhlfe, each nhlfe
of an E-LAN and its multicast entry hold one on a next hop. A port of a service
holds one on the service, and so does a label FIB, once, if one of its labels
leads there. Deletion of anything referenced is refused; the properties say
that the counts deserve that trust.

## Modules

| Module | Models |
|---|---|
| `CommonNhlfe` | neighbors and next hops; one step per critical section, `register_common_nexthop` and `delete_common_nexthop` in two steps with `nexthop_guard` kept |
| `NhlfeRegistry` | what they promise: a partial map from names to MACs, a set of routes, no route without its neighbor |
| `LeafEService` | the tables of E-LINEs, E-LANs and next-hop counts; one operator per function of `leaf-e-service.c` |
| `LeafPorts` | `LeafEService` with the VLAN tables, label FIBs, interfaces, API threads and the RCU queue |
| `SpineLabel` | groups of weighted next hops, the label FIB of each provider port, their API and the release of ports |
| `ExpressDelivery` | the loop of `mbuf-delivery.h` over a burst: decide, let packets with one decision wait, post them |
| `SpineForwarding` | the input node of a provider port beside the calls of `SpineLabel` |
| `LeafForwarding` | the input nodes of customer and backbone ports and MAC learning beside the calls of `LeafPorts` |
| `FastIndex` | a bucket of the MAC table of an E-LAN, its writer, its lock-free readers, its callbacks |
| `KeyTable` | what it promises: keys map to values, and a step changes one binding |
| `NodeClass` | the members of a node class and the edges that select among them |
| `ApiClientPool` | the semaphore and the ring of clients behind every generated stub |
| `ApiRpc` | the pool with ZeroMQ sockets, timeouts, late answers, restarts and the API node |
| `RemoteCall` | what the transport promises: a call runs at most once, and returns its own result if it returns one |
| `E3Interface` | interfaces, their nodes, the lists of the lcores, tap peers, RCU callbacks |
| `*_proofs` | theorems about the module they are named after, and those it extends |
| `MC*` | symmetry sets, constants and first states for TLC |

`LeafPorts` extends `LeafEService`, `ApiRpc` extends `ApiClientPool`.
`SpineForwarding` composes `SpineLabel` with `ExpressDelivery`, and
`LeafForwarding` composes `LeafPorts` with it: the forwarding node and the API
take turns on the same tables. `CommonNhlfe` implements `NhlfeRegistry`, `ApiRpc`
implements `RemoteCall` and `FastIndex` implements `KeyTable`, each by a
refinement mapping at the end of the detailed module. `LeafForwarding` reads and
writes a MAC table in one step; `FastIndex` shows how far that agrees with the
index: a step changes one binding and a lookup finds what stays, but a hit may
carry a value of the key a slot was given to meanwhile (Observations).
`LeafPorts` and `SpineLabel` use a next hop only through its count, as the code
does.

### How state maps to the code

*Tables.* An array of records with `is_valid` is a function into records and
`Free`. `nr_ports` and `nr_nhlfes` are derived from the slots. The MAC index of an
E-LAN is the function it represents. In `CommonNhlfe` the variable `held` counts
the references the clients own, and `exited` says that an `E3_ASSERT` failed.
A call with several critical sections keeps what it has read in `call[t]`
(`LeafPorts`, `SpineLabel`); the guard of an interface appears as "no other call
works on it". The RCU thread is a process of its own with the queue `rcu`; an
entry it has released is cleared, which stands for its loop index. The short
sections of `nexthop_guard` inside a service call are part of that call's step.
Allocation does not fail, since a call that fails for it changes nothing. `ref_cnt`
of a next hop wraps at `RefModulus`, `NexthopRefModulus` in the leaf; both stand for
2^16.

*Transport.* A caller is a thread of a client process, between taking a ticket
(`sem_timedwait`) and giving it back. The ring of clients is scanned under
`api_allocator_guard`, one `pthread_mutex_trylock` a step, while others give their
clients back. A request and its answer are messages on their way; a restart of the
datapath loses what it was doing and any of the messages on their way. `ZMQ_REQ` is
modelled by the state in which it refuses to send. The arguments of a call are
abstracted to whether the service knows it. The answer to a known call may be empty
though its callback has run, since the reply is built afterwards
(`e3-api-wrapper.c:143`).

*Forwarding.* One I/O lcore works on one burst at a time; input nodes of two lcores
share nothing but the tables, which they only read, and the MAC tables, whose sharing
`FastIndex` has. A step is one look into a table or one slot of an array, so that a
call can come between any two of them: the label and its next hop when the cache
misses, the kind of a label when it is used, the group of a label and then each
member on the slow path of a multicast, and each member once more when the copies are
sent. `words` is what a reader of an invalid label entry still finds in it, `hopOf`
the same for a slot of a group, `local` the interface of a next hop. A packet is the
key it is looked up by (label, or VLAN, and MAC addresses), or one of the kinds that
are handed to the host or dropped; header changes are left out, and so is a failed
allocation of a copy, by which a port of a flood gets nothing or less
(`customer-service-port.c:251`): `FloodReachesOtherPorts` speaks of floods whose
copies are allocated. `fate` counts how often a packet was given to a ring or freed:
a ring that is full makes the sender free the packet, so both end it. A use of an
invalid pointer sets `crashed` and ends the behaviour. RCU is the set `waits` of
callbacks that were queued while the burst was going on. The ghosts `seen`, `had` and
`via` record what calls did during the burst, what an E-LAN ever had, and which MAC
entry a packet was sent by; no action reads them. `mac_cache` has one entry in the
model, so that two addresses compete for it.

*Fast index.* A bucket is modelled, since keys of different buckets do not meet.
The file has the same program three times, for keys of one, two and four tag
words; a key is a `tag0` that an entry has once, and tag words that each slot has.
Tags, value and `available` bits are stored one after the other and compared one
vector after the other. Stores are seen in program order, which x86 guarantees
and the code, without a barrier of its own, needs the compiler to keep. The writer
is the master lcore, which runs both the API and MAC learning. An entry is
freed when its grace period has ended; `Invalidate` and `Cleanup` are the deletion
of the E-LAN that owns the index. A burst that has found the E-LAN goes on to look up
through its cached pointer after the deletion.

*Node classes.* A sender is an edge that leads to the class; the edges of one node
take turns, which is one of the orders in which senders may act. The
entry of a slot is one word, read and swapped at once
(`node-class.h:23`). An edge is set or cleaned while its node sends nothing, in
the model; no code in the repository cleans edges yet, and
`e3interface.c:303` sets them for a node that is already attached.

*Interfaces.* An interface has one queue, as every model of `e3iface-inventory.c`
asks for, thus an input and an output node. API calls on interfaces are serialised by
`e3iface_guard` on the master lcore, so there is one call, `api`, and it is one step
per thing that an lcore can see: a node pushed on or taken off a list, a port
published, the two fields of a peer. The master lcore is a reader of RCU until its
call returns. `linked` is the set of nodes on a list; a node that is taken off keeps
its `next`, by which an lcore that stands on it goes on. An lcore enters its list,
looks its interface and its peer up in separate steps, and passes a quiescent state
at the end. A callback waits for whoever was reading when it was queued; the nodes'
callbacks are queued by the interface's, hence two grace periods. `Failures` names
the steps of a registration that may fail once nodes exist: the ring of the second
node, the configuration of the device and its queues (`ConfigureFails`), and
`post_setup`; setting the edges of an input node fails as `post_setup` does.
`SocketOf` is the NUMA node of an lcore, from which both lcores of an interface come;
the run has one NUMA node. The ring of an output node has its name until the node's
callback frees it, and no other registration of the port finds it free. Link change
interrupts are left out, because no model of the inventory sets `check_lsc`.

## Runs

| Run | Instance | States | Shows |
|---|---|---|---|
| `nhlfe_two_endpoints` | 2 neighbors, 3 next hops, 3 names, 2 threads | 76 k | counts hold for concurrent callbacks, and `NhlfeRegistry` is implemented up to the failed assertion |
| `leaf_services` | 2 E-LINEs, 1 E-LAN of 2 ports and an nhlfe, 2 VLAN ports, 1 FIB of 2 labels | 1.5 M | counts, VLANs and labels agree with services, MAC entries are purged, with release by the RCU thread |
| `leaf_release` | 1 E-LINE, 1 E-LAN, the direct port and egress APIs, fairness | 52 k | deleted E-LANs and unregistered interfaces are released, even beside clients that bypass the VLAN tables |
| `leaf_forward` | 2 E-LANs and 1 E-LINE on 2 customer and 1 backbone port, a burst of 2 packets, 1 call | 818 k | packets are sent or freed once, unicast stays in the E-LAN, a flood reaches the other ports, addresses are learned where they were seen, only the rebinding of a label harms |
| `leaf_relearn` | the same, a burst of 1 packet | violation | finding 1 |
| `spine_labels` | 1 group of 2 members, 2 ports of 2 labels, 2 threads, fairness | 338 k | counts of groups and next hops are exact, settled labels resolve, unregistered ports are detached |
| `spine_forward` | 1 group of 2 members, 2 ports of 2 labels, a burst of 2 packets, 2 calls | 1.1 M | packets are posted as decided and never lost or freed twice, registrations never harm a burst, the port of a burst is not reclaimed |
| `fast_index` | 3 keys of 2 tag words that share some, 2 entries of 2 slots, 1 reader, 3 writes | 206 k | what stays is found, walks are safe, `KeyTable` is implemented |
| `node_class` | 2 nodes, 2 slots, 2 senders on 2 sockets | 2.8 M | counts are those of the edges, only `add_node_into_nodeclass` makes members |
| `api_rpc` | 2 clients, 3 callers, 3 calls, 1 restart, fairness | 460 k | every ticket finds a client of its own; calls run at most once and all return |
| `iface_life` | 3 interfaces on 2 ports, 4 nodes, 2 lcores, fairness | 242 k | no walk meets freed memory, indices lead to their nodes, lists and loads agree, peers are mutual, what is withdrawn is freed |
| `iface_abandon` | 2 interfaces | violation | finding 2 |

Bounds. Two services, two ports of one service, two labels of one FIB, two members of
one group and two users of one next hop are the least that tell "the first", "the
last" and "another" apart, and the code treats slots alike beyond that. Two threads
show every interleaving of two calls on one table. One client more than the pool has
makes a caller wait for a ticket. Three interfaces on two ports give an interface,
its tap device and the reuse of a port while its former interface is not yet freed;
two lcores put the input and output nodes of an interface on different lists.
`RefModulus` and `NexthopRefModulus`, which stand for 2^16, are out of reach in the
passing runs; `MaxHeld`, `MaxRefCnt` and `MaxRestarts` bound what a client or an
operator may do at will.

The forwarding runs begin with filled tables, since an empty switch forwards
nothing, and let `MaxChanges` calls begin at any time around `MaxBursts` bursts of
at most `MaxBurst` packets. Nothing but the tables and the ring survives a burst, so that a
second one begins like the first; a second packet is needed for the caches, for
packets that wait, and for the end of a run of equal decisions. The caches have
one entry (`PBP_CACHE_SIZE`, `CACHE_SIZE`), so every second key evicts the first.
The ring of MAC learning holds one entry (`RING_SIZE`), so it is full as soon as it
is not empty. In `leaf_forward` E-LAN 0 has a free slot between two ports. In
`fast_index`, `MaxWrites` counts sets and deletes between two empty buckets: three
fill an entry, empty a slot and use it again, or open a second entry and unlink
the first. Lookups are not bounded. In `node_class`, `CountModulus` is 3 for
two edges; a count wraps only after it has gone wrong, and `spoiled` records that.

Deadlock is checked except where the program ends (`exited`), where every call
of the instance has been made (`api_rpc`), and in `iface_abandon`, which allocates
its interfaces once. `iface_life` also allocates each interface once; there the
lcores go on for ever. The forwarding nodes poll for ever, which is a step that
changes nothing.

Fairness. `FairSpec` assumes that a thread inside a call goes on (its locks are
held for bounded loops) and that the RCU thread runs its queue (grace periods
end since every lcore passes a quiescent state each round, `lcore-extension.c:309`).
In `E3Interface` the grace periods are modelled, so there the lcores themselves are
fair. In `ApiRpc` a caller goes on because `zmq_poll` has a timeout; nothing is
assumed of the datapath, which may stay down for ever. Nothing is assumed of
clients.

After a finding a passing run goes on. In `iface_life` a node that the error path
has freed keeps its content, so the lcore that stands on it walks on; the run
shows that nothing else suffers, not that the error path is harmless.

## Findings

1. `leaf_relearn`: the deletion of a path or port of an E-LAN purges the MAC entries
   that lead to it, says the comment at `leaf-e-service.c:642`; an input node that
   has seen an address just before writes the entry after the purge, at the end of
   its burst or through the ring, and it stays.
2. `iface_abandon`: the error path of `register_e3interface` frees nodes whose RCU
   callbacks it has queued.

### Observations

What else the models showed. The first eight have a configuration that makes TLC
print a behaviour; the others were seen while reading.

- `MCCommonNhlfe_assert.cfg`: `register_common_nexthop` asserts that the neighbor
  it looked up can be referenced, after it has released the lock. It needs two
  API endpoints (`OneThreadNeverAsserts` below).
- `MCLeafPorts_leak.cfg`: `register_e_line_port` takes a reference each time it
  is called for the same service, and one deletion gives one back.
- `MCLeafPorts_egress.cfg`: `delete_e_lan_nhlfe` leaves egress indices that name
  the slot, which may be used again for another path.
- `MCApiRpc_timeout.cfg`: a client whose call timed out goes back to the pool with
  a socket that refuses to send.
- `MCSpineForwarding_credentials.cfg`: `provider-backbone-port.c:94` is "sure the
  fwd credentials are ready", but the label may have been rebound from a group to
  a next hop since it was cached, and no next hop is stored then.
- `MCFastIndex_hits.cfg`: `fast-index.h:106` makes sure that a slot with equal tags
  is valid. The slot may have been given to another key between the two looks, and
  the value is then one the key never had.
- `MCCommonNhlfe_wrap.cfg`: `ref_cnt` of a next hop has 16 bits and is incremented
  with no test (`common-nhlfe.c:241`). When it returns to zero a next hop that is held
  can be deleted, which the registry forbids.
- `MCSpineLabel_wrap.cfg`: the same from the spine, whose 2048 groups of 64 slots
  are more than 2^16 - 1 users: a settled label leads to a next hop that is gone.
- The caches start zeroed, so VLAN 0 and label 0 hit an entry that nobody stored,
  which is invalid: such packets are dropped
  (`common-cache.h`, `customer-service-port.c:64`).
- `mac_cache` and the learning cache are keyed by the address alone
  (`customer-service-port.c:127`, `customer-backbone-port.c:119`). An address that
  two E-LANs use in one burst goes by the entry of the first E-LAN, and is learned in
  the first only. `UnicastStaysInELan` excepts this case.
- The slow path of a spine port counts the members of a group again for each of
  them (`provider-backbone-port.c:179`). If one joins meanwhile two members may
  take the packet itself. `MbufsAreConserved` excepts this case.
- `reset_spine_label_entry` clears the group index, so a packet that was decided
  on before is sent to group 0, or through a null pointer if there is none; a
  member or next hop that is withdrawn between copying and sending is used
  unchecked (`provider-backbone-port.c:216`).
- A backbone port reads the kind of a service from the label again and then uses
  the pointer of that kind (`customer-backbone-port.c:93`), which is null if the
  label was bound to the other kind when it was cached.
- A backbone port that refuses a packet because it would go back into the backbone
  does not learn its source.
- An entry that waits in the learning ring carries an index; if the E-LAN is
  deleted and its slot registered again, the new E-LAN learns it. `had` belongs to
  the slot, so `LearnsWhereSeen` does not tell the two apart.
- The VLAN table has 4096 entries and is indexed by the whole TCI
  (`customer-service-port.c:70`).
- `delete_node_from_nodeclass` finds a free slot when it looks for node 0;
  `delete_node_from_nodeclass_pool` calls the function that adds
  (`node-class.c:176`); a node that was unregistered first can no longer be
  removed, since it is looked up by name. Setting an edge again leaves it counted
  at the slot it had, and the count of 15 bits may go below zero.
  `node-adjacency.h:36` says that `next_node` is always valid, but the index is read
  once more after the check.
- With two endpoints, two calls may bind one E-LINE to two ports
  (`customer-service-port-api.c:38`): its emptiness is checked under the guard of
  one interface only.
- The test of `message_builder_init` in `e3-api-wrapper.c:154` is negated, so a
  service that fails to build its reply sends an empty one.
- An lcore that has seen `has_peer_device` may read `peer_port_id` after
  `dissociate_e3interface` has set it to 0 (`e3iface-wrapper.c:49`).
- A port that is used again before the second grace period of its former
  interface finds the name of its ring taken and fails to register.
- `put_lcore` at `e3interface.c:193` is given the lcore that was not found.

## Proofs

Everything below holds for constants of every size, under the assumptions of the
modules: sizes are natural numbers, the sets of ports, lcores and backbone ports that
are counted are finite, the values that mean "none", "free" or a null pointer are no
members of the sets they stand beside, initial tables are tables, and decisions are
decisions. Five assumptions say more: the tables of a switch are not empty
(`TablesAssumption`, and the first part of `CapacityAssumption`); a leaf has fewer
than 2^16 services (`CapacityAssumption`: 4096 of each kind); fewer nodes send to a
class than a count of 15 bits holds (`SendersAssumption`: there are 1024 nodes, but
as each may have 64 edges it is an assumption on the graph: no node has more than 31
edges to one class); a `ref_cnt` has more values than the spine has backbone ports
and than the table has next hops (`WidthAssumption`), so that the count of a group,
which is at most one for each port, cannot wrap; and the tables that a leaf begins to
forward with are such as calls leave behind (`InitAssumption`). The users of one next
hop are bounded by no table, be they clients of the API, a spine or a leaf: theorems
that rest on its count have the premise `NoOverflow`, that it never has 2^16 users at
once.

A theorem of a model says as much as the model: the steps are those of the runs, and
the sections above say what they leave out.

| Module | Theorem | States |
|---|---|---|
| `CommonNhlfe_proofs` | `TypeCorrect` | types, no count negative |
| | `CallsKeepTheGuard` | a half-done call holds `nexthop_guard` |
| | `NexthopCounts` | `NexthopAccounting`, under `NoOverflow` |
| | `NeighborsStayAccounted` | `NeighborAccounting`, `NoDanglingNeighbor` |
| | `OneThreadNeverAsserts` | with at most one thread, `ReferenceSucceeds` |
| | `KeysAreUnique`, `TablesImplementRegistry` | no two entries for one key; `NhlfeRegistry` is implemented, under `NoOverflow` |
| `ApiRpc_proofs` (with `ApiClientPool`) | `ClientsAreExclusive`, `TicketsStayConserved`, `EveryTicketFindsClient` | the pool |
| | `CallsUseThePool` | the transport is the pool with more state, so that the three hold of it |
| | `RpcTypes`, `ReadySocketsAreQuiet` | types; no call takes another's answer |
| | `CallsAreRemoteCalls` | `RemoteCall` is implemented |
| `ExpressDelivery_proofs` | `EachIsPostedAsDecided` | bursts of every length, any decisions |
| `NodeClass_proofs` | `TypeCorrect`, `OnlyAddsMakeMembersHolds`, `AttachmentsAreCountedHolds` | types; who makes members; counts are those of the edges |
| `FastIndex_proofs` | `FastIndexTypes`, `LookupsWalkLiveEntries`, `LookupsFindWhatStays` | any number of keys, slots, entries and readers |
| | `FastIndexImplementsTable` | `KeyTable` is implemented |
| `E3Interface_proofs` | `InterfaceTypes` | types, no load negative |
| | `LcoresUseLiveMemory`, `NodesKeepTheirIndices`, `PairsAreDissociated`, `NodesStayScheduled` | `WalksAreSafe`, `IndicesLeadToOwnNodes`, `PeersAreMutual`, `NodesAreScheduled` |
| | `OnlyErrorPathsFreeInUse` | `NoFreedMemoryInUse`, the property of finding 2, if `Failures` is empty |
| `SpineForwarding_proofs` (with `SpineLabel`) | `SpineTypes`, `NexthopsAreCounted`, `GroupsAreCounted`, `SettledLabelsResolve` | the tables under concurrent calls; next hops and labels under `NoOverflow` |
| | `ReferencesBesideBursts` | the same beside bursts, under `NoOverflow` |
| | `PortOutlivesBurst`, `SpinePostsAsDecided`, `SpinePacketsAreConserved`, `WithdrawalsAloneHarm` | the four properties of `spine_forward` |
| `LeafForwarding_proofs` (with `LeafPorts`) | `LeafTypes`, `MacEntriesLeadToPorts` | types; `NoStaleMac` |
| | `NexthopsOfServicesAreCounted` | `NexthopAccounting`, if never 2^16 - 1 places use one next hop |
| | `VlansAgreeWithPorts`, `ServicesAreCounted`, `LabelsLeadToServices` | under `OneApi`: one API thread, no E-service port calls |
| | `LeafPacketsAreConserved`, `UnicastIsOfELan`, `FloodsReachAllPorts`, `AddressesStayInELan`, `RebindingAloneCrashes` | the five properties of `leaf_forward` |
| | `LeafPostsAsDecided` | `PostedAsDecided` |

The premises are needed. Without `NoOverflow` a count of 16 bits returns to zero and
a next hop in use is deleted (`MCCommonNhlfe_wrap.cfg`, `MCSpineLabel_wrap.cfg`).
Without `OneApi` two calls may bind one E-LINE to two ports, and the E-service port
calls change the ports of a service behind the VLAN tables; the runs `leaf_services`
and `leaf_release` are the two sides of it.

### Next hops

`NeighborAccounting` is not inductive alone: a step that ends a call changes the set
of settled next hops, so one must know that the thread in the middle of a call holds
`nexthop_guard` and that no other is in the middle of one (`GuardDiscipline`), which
also says that the slot it works on has `ref_cnt` 0. `SettledVia(n)` then gains or
loses exactly one element, which is what the cardinality lemmas say. The refinement
adds that names and routes are unique (`UniqueNames`, `UniqueHops`): a table with two
entries of one name is no map.

### Transport

`ScanSucceeds` is the hard one, because clients are taken and given back while the ring
is scanned. Its invariant `ScanHasClient` says that some client ahead of the scan
is free. It holds when the scan begins by the pigeonhole principle: a client that
is in use is owned by a caller with a ticket, and the one that begins to scan
owns none, so the owners are fewer than the clients (`TicketsAreConserved`). It is
kept because only the holder of `api_allocator_guard` takes clients.

`RpcInv` says that the message of a client is in one place
(`OnePlace`), that a caller who waits waits for its own call (`MessagesAreAwaited`),
that no two clients carry the same call (`CallsAreApart`), and that a callback has
run only for calls the service has had (`EffectsFollow`).

### Node classes

Types need to know that a sender that reads or attaches through an edge has one, and
that an edge that is being cleaned is not sent through. A compare-and-swap succeeds
only on an entry that was valid when it was read, so the slot is valid now and
keeps its node. The counts need that a sender which looks for a slot has detached
itself first (`SendersDetached`), and so has an edge which is cleaned
(`CleanDetached`).

### Fast index

The list of a bucket is the least set that contains the head and is closed under
`next`; that is what can be reasoned about without recursion, and it is enough: to
show that an entry stays linked one shows that every closed set has it. `ShapeInv`
says that it is a list. An entry that was unlinked keeps its `next` while a lookup may
stand on it, and `GraceInv` says where this leads: to what is linked, or to what was
unlinked under the same lookup. `Tracks` is the argument for lookups that must not miss
their key: its slot lies on the rest of the way of the lookup, and among the
candidates of the entry it compares; it uses that entries are pushed at the head and
that an entry is unlinked only when it is empty.

### Interfaces

An lcore may stand on a node that was taken off its list. `WalkInv` says that this node
is being detached by the call in progress, or waits with a callback for this very lcore
(`Safe`), and that its `next` leads to such a node again. The stages of a call
(`ApiInv`, `StageInv`) say what is on a list at which step, and `ListInv` that the
lists are lists. Loads are counted with the nodes that have an lcore but are not yet
on its list (`Pending`), since `get_io_lcore` counts before `attach_node_to_lcore`
links. For `NodesAreScheduled`, what a walk reaches is again a least closed set, and
`ReachInv` says that a set closed under the walk of an lcore has every node linked
for this lcore: a set closed after a node is pushed or unlinked was, with the node or
without it, closed before.

Finding 2 is a matter of the error paths alone: `NoErrorInv` says that without them a
call takes published interfaces off their lists only, so that `Abandon` is never taken,
and that callbacks are queued for live nodes.

### Forwarding

Both input nodes take the steps of `ExpressDelivery`. Its `LoopInv` says for each
point of the loop how `peek`, `current` and `latest_unsent` relate to what was decided
and posted: all before the first packet that waits is posted, and those that wait have
its decision (`WaitingAgree`). `WaitingBounds` and `PostedSoFar` are what the nodes
need to know of it.

*Spine.* `FwdInv` is the invariant of the tables (`SpineInv`), of the loop, and two
more. `FateInv` says for every packet of the burst where it is: given away once,
in exactly one slot of the slow path, or untouched; for the packet that is being
copied to a group, `BeingCopied` says that only the last round gives the packet itself
away. `HarmInv` says that what the burst has read still holds while no call has taken
anything away: the cache, the decisions and the members that are to be sent to.

*Leaf.* `Kept` has the parts `ControlInv` (tables, and what was learned where),
`LoopsInv`, `CachesInv`, `FloodUse` and `FateInv`. The pointers of a cache are valid
for the burst because of RCU: an E-LAN that a cache or a flood points to is registered,
or its callback waits for this burst (`InUse`). A cache entry agrees with the tables
unless `seen` tells that VLANs or labels were bound anew. A flood gives its packets
away with its last port, and none after it (`consumed`). That a flood reaches every
port needs that no port is in two slots (`SlotsInv`): the loop counts ports up to
`nr_ports` as it was at first, so a port in two slots would end it early.
`FloodReachesOtherPorts` speaks of the ports in the array of the E-LAN, valid or in
its grace period.

### Only model-checked

Liveness, which the prover does not handle: `EveryCallReturns`,
`DyingIfaceIsDetached`, `ReleasedELanIsReusable`, `DyingPortIsDetached`,
`WithdrawnIfaceIsFreed`. `EveryTicketFindsClient` and the lemmas above do not imply
them. The two findings and the behaviours listed as observations are counterexamples,
which only a run can show. Every safety property of a passing run is proved, those
that rest on the count of next hops and those of the leaf under the premises named
above.

## What is left

- `leaf_release` allows the E-service port calls, which `OneApi` excludes: what can be
  said of the VLAN tables beside them is unknown.
- `LeafForwarding` reads and writes a MAC table in one step; that this is sound is
  argued from `FastIndex`, but there is no module that composes the two.
- Queues of more than one node of a kind per interface, and an lcore with link change
  interrupts, are not modelled.

## Not modelled

- The output nodes of the ports move packets from a ring to a device and keep no
  state; how many packets a ring or a device takes is left out with them.
- The public pool of a node class and the registration of classes: they are
  called at start-up only.
- `e3-init.c` runs a sorted list of constructors before there is a second thread.
- `e3-hashmap.c` is a vendored map of strings that the datapath does not call.
- Text configuration, logging, the inventory of drivers and the language bindings
  (`e3api_export/libs/exported-api.c`) share no changing state with the rest.

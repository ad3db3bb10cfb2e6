----------------------------- MODULE NodeClass ------------------------------
(***************************************************************************)
(* A node class (e3infra/node-class.c): the worker nodes that may take     *)
(* packets for a purpose, and how the edges of other nodes select one of   *)
(* them (e3infra/node-adjacency.c).                                        *)
(*                                                                         *)
(* The control thread adds and deletes nodes and cleans edges.  The nodes  *)
(* that send run on I/O lcores and take no lock: an edge keeps the slot it *)
(* selected, and the count of edges attached to a slot is raised with a    *)
(* compare-and-swap.  Edges change only while their node sends nothing.    *)
(***************************************************************************)
EXTENDS Naturals, FiniteSets

CONSTANTS
  MAX_NR_NODES,
  MAX_NODE_IN_CLASS,
  CountModulus,      \* 2^15: node_attached_cnt has 15 bits
  Senders,           \* edges that lead to the class; those of one node take turns
  Sockets,
  SocketOf,          \* the socket of each node and sender
  None               \* INVALID_ENTRY, or no node

Nodes == 0 .. MAX_NR_NODES - 1
Slots == 0 .. MAX_NODE_IN_CLASS - 1
Entry == [is_valid: BOOLEAN, node_attached_cnt: 0 .. CountModulus - 1, node_index: Nodes]
NoEntry == [is_valid |-> FALSE, node_attached_cnt |-> 0, node_index |-> 0]

ASSUME NodeClassAssumption ==
  /\ MAX_NR_NODES \in Nat \ {0} /\ MAX_NODE_IN_CLASS \in Nat /\ CountModulus \in Nat \ {0}
  /\ SocketOf \in [Nodes \cup Senders -> Sockets]
  /\ None \notin Slots /\ Senders \cap Nodes = {}

\* There are 1024 nodes (MAX_NR_NODES) of 64 edges each (MAX_NR_EDGES), which may be
\* more than a count of 15 bits holds: no node may have over 31 edges to one class.
ASSUME SendersAssumption == IsFiniteSet(Senders) /\ Cardinality(Senders) < CountModulus

VARIABLES
  node_entries,  \* of the class
  registered,    \* the nodes that find_node_by_index finds
  edge,          \* last_entry_cached of each edge; None too if the edge is not set
  to_class,      \* forward_behavior is NODE_TO_CLASS_FWD
  send,          \* what each sender has left to do in deliver_mbufs_by_next_entry
  clean,         \* what the control thread has left to do in clean_node_next_edge
  spoiled        \* history: slots whose count an edge was not taken off or raised for

vars == <<node_entries, registered, edge, to_class, send, clean, spoiled>>

Send == [pc: {"ready", "index", "scan", "attach", "deliver"}, slot: Nat,
         target: Slots \cup {None}, entry: Entry, check_socket_id: BOOLEAN,
         next_node: Nodes \cup {None}]
Clean == [pc: {"none", "write", "reset"}, of: Senders \cup {None}, entry: Entry]

TypeOK ==
  /\ node_entries \in [Slots -> Entry]
  /\ registered \subseteq Nodes
  /\ edge \in [Senders -> Slots \cup {None}]
  /\ to_class \in [Senders -> BOOLEAN]
  /\ send \in [Senders -> Send]
  /\ clean \in Clean
  /\ spoiled \subseteq Slots

Ready == [pc |-> "ready", slot |-> 0, target |-> None, entry |-> NoEntry,
          check_socket_id |-> TRUE, next_node |-> None]
NoClean == [pc |-> "none", of |-> None, entry |-> NoEntry]

Init ==
  /\ node_entries = [k \in Slots |-> NoEntry]
  /\ registered = {}
  /\ edge = [s \in Senders |-> None] /\ to_class = [s \in Senders |-> FALSE]
  /\ send = [s \in Senders |-> Ready] /\ clean = NoClean /\ spoiled = {}

IsFirst(k, S) == k \in S /\ \A j \in S : k <= j
Valid == {k \in Slots : node_entries[k].is_valid}
Attached(k) == {s \in Senders : edge[s] = k}

----------------------------------------------------------------------------
(* The control thread.                                                     *)

ClassUnchanged == UNCHANGED <<edge, to_class, send, clean>>

RegisterNode(n) ==
  /\ clean = NoClean /\ IsFirst(n, Nodes \ registered)
  /\ registered' = registered \cup {n}
  /\ ClassUnchanged /\ UNCHANGED <<node_entries, spoiled>>

\* unregister_node leaves the class as it is.
UnregisterNode(n) ==
  /\ clean = NoClean /\ n \in registered
  /\ registered' = registered \ {n}
  /\ ClassUnchanged /\ UNCHANGED <<node_entries, spoiled>>

AddNodeIntoNodeclass(n) ==
  /\ clean = NoClean /\ n \in registered
  /\ \A k \in Valid : node_entries[k].node_index # n
  /\ \E k \in Slots :
       /\ IsFirst(k, Slots \ Valid)
       /\ node_entries' = [node_entries EXCEPT ![k] = [NoEntry EXCEPT !.is_valid = TRUE,
                                                                      !.node_index = n]]
  /\ ClassUnchanged /\ UNCHANGED <<registered, spoiled>>

\* The search looks at free slots too, which have the node index 0.
DeleteNodeFromNodeclass(n) ==
  /\ clean = NoClean /\ n \in registered
  /\ \E k \in Slots :
       /\ IsFirst(k, {j \in Slots : node_entries[j].node_index = n})
       /\ node_entries' = [node_entries EXCEPT ![k] = NoEntry]
       /\ spoiled' = IF Attached(k) # {} THEN spoiled \cup {k} ELSE spoiled
  /\ ClassUnchanged /\ UNCHANGED registered

Idle(s) == clean = NoClean /\ send[s] = Ready

\* Neither edge setter takes the edge off the slot it had selected.
SetEdge(s, is_class) ==
  /\ Idle(s)
  /\ to_class' = [to_class EXCEPT ![s] = is_class]
  /\ edge' = [edge EXCEPT ![s] = None]
  /\ spoiled' = IF edge[s] # None THEN spoiled \cup {edge[s]} ELSE spoiled
  /\ UNCHANGED <<node_entries, registered, send, clean>>

\* clean_node_next_edge reads the entry of the slot ...
BeginClean(s) ==
  /\ Idle(s) /\ to_class[s]
  /\ IF edge[s] \in Valid
     THEN clean' = [pc |-> "write", of |-> s, entry |-> node_entries[edge[s]]]
     ELSE clean' = [NoClean EXCEPT !.pc = "reset", !.of = s]
  /\ UNCHANGED <<node_entries, registered, edge, to_class, send, spoiled>>

\* ... and writes it back with a smaller count, whatever was attached meanwhile.
WriteClean ==
  LET k == edge[clean.of]
      n == (clean.entry.node_attached_cnt + CountModulus - 1) % CountModulus
  IN  /\ clean.pc = "write"
      /\ node_entries' = [node_entries EXCEPT ![k] =
                            [clean.entry EXCEPT !.node_attached_cnt = n]]
      /\ spoiled' = IF node_entries[k] # clean.entry THEN spoiled \cup {k} ELSE spoiled
      /\ clean' = [clean EXCEPT !.pc = "reset"]
      /\ edge' = [edge EXCEPT ![clean.of] = None]
      /\ UNCHANGED <<registered, to_class, send>>

EndClean ==
  /\ clean.pc = "reset"
  /\ edge' = [edge EXCEPT ![clean.of] = None]
  /\ to_class' = [to_class EXCEPT ![clean.of] = FALSE]
  /\ clean' = NoClean
  /\ UNCHANGED <<node_entries, registered, send, spoiled>>

----------------------------------------------------------------------------
(* Sending: next_forwarding_node and reselect_next_forwarding_node.        *)

To(s, next) ==
  /\ send' = [send EXCEPT ![s] = next]
  /\ UNCHANGED <<registered, to_class, clean, spoiled>>

\* The edge goes on with the slot it has, if there is a node in it.
ValidateCached(s) ==
  /\ send[s] = Ready /\ to_class[s] /\ clean.of # s
  /\ To(s, [Ready EXCEPT !.pc = IF edge[s] \in Valid THEN "index" ELSE "scan"])
  /\ UNCHANGED <<node_entries, edge>>

\* node_index_of_node_entry reads the slot again.
ReadIndex(s) ==
  /\ send[s].pc = "index"
  /\ To(s, [Ready EXCEPT !.pc = "deliver", !.next_node = node_entries[edge[s]].node_index])
  /\ UNCHANGED <<node_entries, edge>>

IsBetter(c, entry) ==
  /\ entry.is_valid /\ entry.node_index \in registered
  /\ c.target = None \/ entry.node_attached_cnt < c.entry.node_attached_cnt

ScanSlot(s) ==
  LET c == send[s]
      entry == node_entries[c.slot]
      near == SocketOf[entry.node_index] = SocketOf[s]
  IN  /\ c.pc = "scan" /\ c.slot \in Slots
      /\ To(s, IF IsBetter(c, entry) /\ (c.check_socket_id => near)
               THEN [c EXCEPT !.slot = @ + 1, !.target = c.slot, !.entry = entry]
               ELSE [c EXCEPT !.slot = @ + 1])
      /\ UNCHANGED <<node_entries, edge>>

\* No node on the socket of the sender: any node will do.
EndScan(s) ==
  LET c == send[s]
  IN  /\ c.pc = "scan" /\ c.slot \notin Slots
      /\ To(s, CASE c.target # None -> [c EXCEPT !.pc = "attach"]
                 [] c.target = None /\ c.check_socket_id ->
                      [Ready EXCEPT !.pc = "scan", !.check_socket_id = FALSE]
                 [] OTHER -> [Ready EXCEPT !.pc = "deliver"])
      /\ UNCHANGED <<node_entries, edge>>

Raised(entry) ==
  [entry EXCEPT !.node_attached_cnt = (@ + 1) % CountModulus]

\* Mutant: the entry is stored whatever the slot holds by now.
AttachUnchecked(s) ==
  LET c == send[s]
  IN  /\ c.pc = "attach"
      /\ node_entries' = [node_entries EXCEPT ![c.target] = Raised(c.entry)]
      /\ edge' = [edge EXCEPT ![s] = c.target]
      /\ To(s, [Ready EXCEPT !.pc = "deliver", !.next_node = c.entry.node_index])

\* Mutant: the count is compared and swapped, and not the whole entry.
AttachByCount(s) ==
  LET c == send[s]
  IN  /\ c.pc = "attach"
      /\ IF node_entries[c.target].node_attached_cnt = c.entry.node_attached_cnt
         THEN /\ node_entries' = [node_entries EXCEPT ![c.target] = Raised(c.entry)]
              /\ edge' = [edge EXCEPT ![s] = c.target]
              /\ To(s, [Ready EXCEPT !.pc = "deliver", !.next_node = c.entry.node_index])
         ELSE /\ To(s, [Ready EXCEPT !.pc = "scan", !.check_socket_id = c.check_socket_id])
              /\ UNCHANGED <<node_entries, edge>>

\* The compare-and-swap of the entry; the search starts again if it fails.
Attach(s) ==
  LET c == send[s]
  IN  /\ c.pc = "attach"
      /\ IF node_entries[c.target] = c.entry
         THEN /\ node_entries' = [node_entries EXCEPT ![c.target] = Raised(c.entry)]
              /\ edge' = [edge EXCEPT ![s] = c.target]
              /\ To(s, [Ready EXCEPT !.pc = "deliver", !.next_node = c.entry.node_index])
         ELSE /\ To(s, [Ready EXCEPT !.pc = "scan", !.check_socket_id = c.check_socket_id])
              /\ UNCHANGED <<node_entries, edge>>

\* The mbufs go to the ring of the node if it is registered, and are left to
\* the caller otherwise; the edge stays.
Deliver(s) ==
  /\ send[s].pc = "deliver"
  /\ To(s, Ready)
  /\ UNCHANGED <<node_entries, edge>>

----------------------------------------------------------------------------
Control ==
  \/ \E n \in Nodes :
       \/ RegisterNode(n) \/ UnregisterNode(n)
       \/ AddNodeIntoNodeclass(n) \/ DeleteNodeFromNodeclass(n)
  \/ \E s \in Senders : BeginClean(s) \/ \E is_class \in BOOLEAN : SetEdge(s, is_class)
  \/ WriteClean \/ EndClean

Sending(s) ==
  \/ ValidateCached(s) \/ ReadIndex(s)
  \/ ScanSlot(s) \/ EndScan(s) \/ Attach(s) \/ Deliver(s)

Next == Control \/ \E s \in Senders : Sending(s)

Spec == Init /\ [][Next]_vars

----------------------------------------------------------------------------
(* Properties.                                                             *)

\* However the edges of several lcores select nodes at a time, a slot counts
\* the edges attached to it, unless its node was deleted under them, an edge
\* was set again, or one was cleaned while another was being attached.
AttachmentsAreCounted ==
  \A k \in Valid \ spoiled : node_entries[k].node_attached_cnt = Cardinality(Attached(k))

Members == {node_entries[k].node_index : k \in Valid}

\* A node comes into the class only when the control thread adds it: lcores
\* that select among the nodes bring no deleted one back, and make none the
\* member of two slots.
OnlyAddsMakeMembers ==
  [][\A k \in Slots : node_entries'[k].is_valid
       /\ (~node_entries[k].is_valid \/ node_entries'[k].node_index # node_entries[k].node_index)
       => \E n \in Nodes : AddNodeIntoNodeclass(n)]_vars
=============================================================================

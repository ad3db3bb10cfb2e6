-------------------------- MODULE NodeClass_proofs --------------------------
(***************************************************************************)
(* A node comes into a class only when the control thread adds it, for any *)
(* number of nodes, slots and senders.                                     *)
(*                                                                         *)
(* Two steps write an entry that was read before: the compare-and-swap of  *)
(* a sender, which compares the whole entry, and the last step of cleaning *)
(* an edge.  The second does no harm because the thread that deletes nodes *)
(* is the one that cleans, so that senders alone can change the entry in   *)
(* between, and they change its count.  CleanInv says so.                  *)
(***************************************************************************)
EXTENDS NodeClass, FiniteSetTheorems, TLAPS

\* What a sender is about to use is a slot.
SendInv ==
  \A s \in Senders :
    /\ send[s].pc = "attach" => send[s].target \in Slots
    /\ send[s].pc = "index" => edge[s] \in Slots

\* The edge being cleaned is at rest, and its slot still holds the node that
\* was read.
CleanInv ==
  /\ clean.pc # "none" => clean.of \in Senders /\ send[clean.of].pc = "ready"
  /\ clean.pc = "write" =>
       /\ edge[clean.of] \in Slots
       /\ node_entries[edge[clean.of]].is_valid = clean.entry.is_valid
       /\ node_entries[edge[clean.of]].node_index = clean.entry.node_index

IInv == TypeOK /\ SendInv /\ CleanInv

LEMMA ConstantsInType ==
  /\ NoEntry \in Entry
  /\ Ready \in Send
  /\ NoClean \in Clean
BY NodeClassAssumption DEF NoEntry, Entry, Ready, Send, NoClean, Clean, Nodes, Slots

LEMMA RaisedEntry ==
  ASSUME NEW entry \in Entry
  PROVE  /\ Raised(entry) \in Entry
         /\ Raised(entry).is_valid = entry.is_valid
         /\ Raised(entry).node_index = entry.node_index
BY NodeClassAssumption DEF Raised, Entry

LEMMA InitIInv == Init => IInv
BY ConstantsInType DEF Init, IInv, TypeOK, SendInv, CleanInv, Ready, NoClean

(* The control thread. *)
LEMMA ControlKeepsIInv == IInv /\ Control => IInv'
<1> SUFFICES ASSUME IInv, Control PROVE IInv'
  OBVIOUS
<1> USE DEF IInv
<1>1. ASSUME NEW n \in Nodes, RegisterNode(n) \/ UnregisterNode(n) PROVE IInv'
  BY <1>1 DEF RegisterNode, UnregisterNode, ClassUnchanged, IsFirst, NoClean,
              TypeOK, SendInv, CleanInv
<1>2. ASSUME NEW n \in Nodes, AddNodeIntoNodeclass(n) PROVE IInv'
  <2>1. PICK k \in Slots : node_entries' = [node_entries EXCEPT
           ![k] = [NoEntry EXCEPT !.is_valid = TRUE, !.node_index = n]]
    BY <1>2 DEF AddNodeIntoNodeclass
  <2>2. [NoEntry EXCEPT !.is_valid = TRUE, !.node_index = n] \in Entry
    BY ConstantsInType DEF Entry
  <2>3. TypeOK'
    BY <1>2, <2>1, <2>2 DEF AddNodeIntoNodeclass, ClassUnchanged, TypeOK
  <2> QED
    BY <1>2, <2>3 DEF AddNodeIntoNodeclass, ClassUnchanged, NoClean, SendInv, CleanInv
<1>3. ASSUME NEW n \in Nodes, DeleteNodeFromNodeclass(n) PROVE IInv'
  <2>1. TypeOK'
    BY <1>3, ConstantsInType DEF DeleteNodeFromNodeclass, ClassUnchanged, TypeOK
  <2> QED
    BY <1>3, <2>1 DEF DeleteNodeFromNodeclass, ClassUnchanged, NoClean, SendInv, CleanInv
<1>4. ASSUME NEW s \in Senders, NEW is_class \in BOOLEAN, SetEdge(s, is_class) PROVE IInv'
  <2>1. TypeOK'
    BY <1>4 DEF SetEdge, TypeOK
  <2>2. SendInv'
    BY <1>4 DEF SetEdge, Idle, Ready, TypeOK, SendInv
  <2> QED
    BY <1>4, <2>1, <2>2 DEF SetEdge, Idle, NoClean, CleanInv
<1>5. ASSUME NEW s \in Senders, BeginClean(s) PROVE IInv'
  <2>1. CASE edge[s] \in Valid
    <3>1. clean' = [pc |-> "write", of |-> s, entry |-> node_entries[edge[s]]]
      BY <1>5, <2>1 DEF BeginClean
    <3>2. edge[s] \in Slots /\ node_entries[edge[s]] \in Entry
      BY <2>1 DEF Valid, TypeOK
    <3>3. clean' \in Clean
      BY <3>1, <3>2 DEF Clean
    <3> QED
      BY <1>5, <3>1, <3>2, <3>3 DEF BeginClean, Idle, Ready, TypeOK, SendInv, CleanInv
  <2>2. CASE edge[s] \notin Valid
    <3>1. clean' = [NoClean EXCEPT !.pc = "reset", !.of = s]
      BY <1>5, <2>2 DEF BeginClean
    <3>2. clean' \in Clean
      BY <3>1, ConstantsInType DEF NoClean, Clean
    <3> QED
      BY <1>5, <3>1, <3>2 DEF BeginClean, Idle, Ready, NoClean, TypeOK, SendInv, CleanInv
  <2> QED
    BY <2>1, <2>2
<1>6. ASSUME WriteClean PROVE IInv'
  <2>1. clean.of \in Senders /\ edge[clean.of] \in Slots /\ send[clean.of].pc = "ready"
    BY <1>6 DEF WriteClean, CleanInv
  <2>2. (clean.entry.node_attached_cnt + CountModulus - 1) % CountModulus
          \in 0 .. CountModulus - 1
    BY NodeClassAssumption DEF TypeOK, Clean, Entry
  <2>3. TypeOK'
    BY <1>6, <2>1, <2>2 DEF WriteClean, TypeOK, Clean, Entry
  <2>4. SendInv'
    BY <1>6, <2>1 DEF WriteClean, TypeOK, SendInv
  <2> QED
    BY <1>6, <2>1, <2>3, <2>4 DEF WriteClean, TypeOK, Clean, CleanInv
<1>7. ASSUME EndClean PROVE IInv'
  <2>1. clean.of \in Senders /\ send[clean.of].pc = "ready"
    BY <1>7 DEF EndClean, CleanInv
  <2>2. TypeOK'
    BY <1>7, <2>1, ConstantsInType DEF EndClean, TypeOK
  <2>3. SendInv'
    BY <1>7, <2>1 DEF EndClean, TypeOK, SendInv
  <2> QED
    BY <1>7, <2>2, <2>3 DEF EndClean, NoClean, CleanInv
<1> QED
  BY <1>1, <1>2, <1>3, <1>4, <1>5, <1>6, <1>7 DEF Control

(* A sender: what it goes on with is well formed, and it is not the one whose *)
(* edge is being cleaned.                                                     *)
LEMMA StepKeepsIInv ==
  ASSUME IInv, NEW s \in Senders, NEW next \in Send, To(s, next),
         UNCHANGED <<node_entries, edge>>,
         send[s].pc # "ready" \/ clean.of # s,
         next.pc = "attach" => next.target \in Slots,
         next.pc = "index" => edge[s] \in Slots
  PROVE  IInv'
<1>1. TypeOK'
  BY DEF IInv, TypeOK, To
<1>2. SendInv'
  BY DEF IInv, TypeOK, SendInv, To
<1>3. CleanInv'
  BY DEF IInv, TypeOK, CleanInv, To
<1> QED
  BY <1>1, <1>2, <1>3 DEF IInv

LEMMA AttachKeepsIInv ==
  ASSUME IInv, NEW s \in Senders, Attach(s)
  PROVE  IInv'
<1> DEFINE c == send[s]
<1>1. c \in Send /\ c.pc = "attach" /\ c.target \in Slots /\ c.entry \in Entry
  BY DEF Attach, IInv, TypeOK, SendInv, Send
<1>2. CASE node_entries[c.target] = c.entry
  <2> DEFINE next == [Ready EXCEPT !.pc = "deliver", !.next_node = c.entry.node_index]
  <2>1. /\ node_entries' = [node_entries EXCEPT ![c.target] = Raised(c.entry)]
        /\ edge' = [edge EXCEPT ![s] = c.target]
        /\ To(s, next)
    BY <1>2 DEF Attach
  <2>2. next \in Send /\ next.pc = "deliver"
    BY <1>1, ConstantsInType DEF Ready, Send, Entry
  <2>3. TypeOK'
    BY <1>1, <2>1, <2>2, RaisedEntry DEF IInv, TypeOK, To
  <2>4. SendInv'
    BY <2>1, <2>2 DEF IInv, TypeOK, SendInv, To
  <2>5. CleanInv'
    BY <1>1, <1>2, <2>1, RaisedEntry DEF IInv, TypeOK, CleanInv, To
  <2> QED
    BY <2>3, <2>4, <2>5 DEF IInv
<1>3. CASE node_entries[c.target] # c.entry
  <2> DEFINE next == [Ready EXCEPT !.pc = "scan", !.check_socket_id = c.check_socket_id]
  <2>1. next \in Send /\ next.pc = "scan"
    BY <1>1, ConstantsInType DEF Ready, Send
  <2>2. To(s, next) /\ UNCHANGED <<node_entries, edge>>
    BY <1>3 DEF Attach
  <2> HIDE DEF next
  <2> QED
    BY <1>1, <2>1, <2>2, StepKeepsIInv
<1> QED
  BY <1>2, <1>3

(* A sender. *)
LEMMA SendingKeepsIInv ==
  ASSUME IInv, NEW s \in Senders, Sending(s)
  PROVE  IInv'
<1> DEFINE c == send[s]
<1>1. c \in Send /\ edge[s] \in Slots \cup {None} /\ c.entry \in Entry
  BY DEF IInv, TypeOK, Send
<1>2. CASE ValidateCached(s)
  <2> DEFINE next == [Ready EXCEPT !.pc = IF edge[s] \in Valid THEN "index" ELSE "scan"]
  <2>1. next \in Send /\ next.pc # "attach" /\ (next.pc = "index" => edge[s] \in Slots)
    BY ConstantsInType DEF Ready, Send, Valid
  <2>2. To(s, next) /\ UNCHANGED <<node_entries, edge>> /\ clean.of # s
    BY <1>2 DEF ValidateCached
  <2> HIDE DEF next
  <2> QED
    BY <2>1, <2>2, StepKeepsIInv
<1>3. CASE ReadIndex(s)
  <2> DEFINE next == [Ready EXCEPT !.pc = "deliver",
                                   !.next_node = node_entries[edge[s]].node_index]
  <2>1. edge[s] \in Slots /\ c.pc = "index"
    BY <1>3 DEF ReadIndex, IInv, SendInv
  <2>2. node_entries[edge[s]].node_index \in Nodes
    BY <2>1 DEF IInv, TypeOK, Entry
  <2>3. next \in Send /\ next.pc = "deliver"
    BY <2>2, ConstantsInType DEF Ready, Send
  <2>4. To(s, next) /\ UNCHANGED <<node_entries, edge>>
    BY <1>3 DEF ReadIndex
  <2> HIDE DEF next
  <2> QED
    BY <2>1, <2>3, <2>4, StepKeepsIInv
<1>4. CASE ScanSlot(s)
  <2> DEFINE i == c.slot + 1
             entry == node_entries[c.slot]
             next == [c EXCEPT !.slot = i, !.target = c.slot, !.entry = entry]
             skip == [c EXCEPT !.slot = i]
  <2>1. c.pc = "scan" /\ c.slot \in Slots /\ entry \in Entry
    BY <1>4 DEF ScanSlot, IInv, TypeOK
  <2>2. i \in Nat
    BY <1>1 DEF Send
  <2>3. (To(s, next) \/ To(s, skip)) /\ UNCHANGED <<node_entries, edge>>
    BY <1>4 DEF ScanSlot
  <2> HIDE DEF i, entry
  <2>4. next \in Send /\ next.pc = "scan" /\ skip \in Send /\ skip.pc = "scan"
    <3> HIDE DEF c
    <3> QED
      BY <1>1, <2>1, <2>2 DEF Send
  <2> HIDE DEF next, skip
  <2> QED
    BY <2>1, <2>3, <2>4, StepKeepsIInv
<1>5. CASE EndScan(s)
  <2> DEFINE found == [c EXCEPT !.pc = "attach"]
             again == [Ready EXCEPT !.pc = "scan", !.check_socket_id = FALSE]
             none == [Ready EXCEPT !.pc = "deliver"]
  <2>1. c.pc = "scan"
    BY <1>5 DEF EndScan
  <2>2. again \in Send /\ again.pc = "scan" /\ none \in Send /\ none.pc = "deliver"
    BY ConstantsInType DEF Ready, Send
  <2>3. found \in Send /\ (c.target # None => found.target \in Slots) /\ found.pc = "attach"
    BY <1>1 DEF Send
  <2>4. /\ (c.target # None /\ To(s, found)) \/ To(s, again) \/ To(s, none)
        /\ UNCHANGED <<node_entries, edge>>
    BY <1>5 DEF EndScan
  <2> HIDE DEF found, again, none
  <2> QED
    BY <2>1, <2>2, <2>3, <2>4, StepKeepsIInv
<1>6. CASE Attach(s)
  BY <1>6, AttachKeepsIInv
<1>7. CASE Deliver(s)
  BY <1>7, ConstantsInType, StepKeepsIInv DEF Deliver, Ready
<1> QED
  BY <1>2, <1>3, <1>4, <1>5, <1>6, <1>7 DEF Sending

LEMMA NextIInv == IInv /\ [Next]_vars => IInv'
<1> SUFFICES ASSUME IInv, [Next]_vars PROVE IInv'
  OBVIOUS
<1>1. CASE Control
  BY <1>1, ControlKeepsIInv
<1>2. ASSUME NEW s \in Senders, Sending(s) PROVE IInv'
  BY <1>2, SendingKeepsIInv
<1>3. CASE UNCHANGED vars
  BY <1>3 DEF vars, IInv, TypeOK, SendInv, CleanInv
<1> QED
  BY <1>1, <1>2, <1>3 DEF Next

LEMMA Invariance == Spec => []IInv
BY InitIInv, NextIInv, PTL DEF Spec

----------------------------------------------------------------------------
(* Every reachable state is of the right type: a sender never works on a slot *)
(* that is none, whatever the control thread does meanwhile.                  *)
THEOREM TypeCorrect == Spec => []TypeOK
<1>1. IInv => TypeOK
  BY DEF IInv
<1> QED
  BY <1>1, Invariance, PTL

\* What a step may do to the members of the class.
Adds ==
  \A k \in Slots : node_entries'[k].is_valid
    /\ (~node_entries[k].is_valid \/ node_entries'[k].node_index # node_entries[k].node_index)
    => \E n \in Nodes : AddNodeIntoNodeclass(n)

LEMMA SendingAddsNone ==
  ASSUME IInv, NEW s \in Senders, Sending(s)
  PROVE  Adds
<1>1. CASE Attach(s)
  <2>1. send[s].entry \in Entry /\ send[s].target \in Slots
    BY <1>1 DEF Attach, IInv, TypeOK, SendInv, Send
  <2> QED
    BY <1>1, <2>1, RaisedEntry DEF Attach, Adds, IInv, TypeOK
<1>2. CASE ~Attach(s)
  <2>1. UNCHANGED node_entries
    BY <1>2 DEF Sending, ValidateCached, ReadIndex, ScanSlot, EndScan, Deliver
  <2> QED
    BY <2>1 DEF Adds
<1> QED
  BY <1>1, <1>2

LEMMA ControlAddsByName ==
  ASSUME IInv, Control
  PROVE  Adds
<1>1. CASE \E n \in Nodes : AddNodeIntoNodeclass(n)
  BY <1>1 DEF Adds
<1>2. CASE \E n \in Nodes : DeleteNodeFromNodeclass(n)
  BY <1>2 DEF DeleteNodeFromNodeclass, Adds, NoEntry, IInv, TypeOK
<1>3. CASE WriteClean
  <2>1. clean.of \in Senders /\ edge[clean.of] \in Slots
    BY <1>3 DEF WriteClean, IInv, CleanInv
  <2> DEFINE k == edge[clean.of]
             n == (clean.entry.node_attached_cnt + CountModulus - 1) % CountModulus
             written == [clean.entry EXCEPT !.node_attached_cnt = n]
  <2>2. node_entries' = [node_entries EXCEPT ![k] = written]
    BY <1>3 DEF WriteClean
  <2>3. written.is_valid = node_entries[k].is_valid
          /\ written.node_index = node_entries[k].node_index
    BY <1>3 DEF WriteClean, IInv, TypeOK, CleanInv, Clean, Entry
  <2> HIDE DEF written
  <2> QED
    BY <2>1, <2>2, <2>3 DEF Adds, IInv, TypeOK
<1>4. CASE UNCHANGED node_entries
  BY <1>4 DEF Adds
<1> QED
  BY <1>1, <1>2, <1>3, <1>4
     DEF Control, RegisterNode, UnregisterNode, BeginClean, SetEdge, EndClean

(* A node that was deleted comes back only if it is added again: of all that  *)
(* lcores and the control thread write into the class, only the addition      *)
(* brings a node into a slot.                                                 *)
THEOREM OnlyAddsMakeMembersHolds == Spec => OnlyAddsMakeMembers
<1>1. IInv /\ [Next]_vars => [Adds]_vars
  BY SendingAddsNone, ControlAddsByName DEF Next
<1>2. [][Adds]_vars => OnlyAddsMakeMembers
  BY PTL DEF OnlyAddsMakeMembers, Adds
<1> QED
  BY <1>1, <1>2, Invariance, PTL DEF Spec

----------------------------------------------------------------------------
(* The counts of the slots.  A sender that searches is attached to no slot    *)
(* whose count is still kept, so that the slot it selects gains one edge and  *)
(* none loses one; the same holds of an edge that is about to be reset.       *)
Detached(s) == edge[s] = None \/ edge[s] \in spoiled

EntriesCounted ==
  \A k \in Slots \ spoiled :
    IF node_entries[k].is_valid
    THEN node_entries[k].node_attached_cnt = Cardinality(Attached(k))
    ELSE Attached(k) = {}

SendersDetached ==
  \A s \in Senders :
    send[s].pc \in {"scan", "attach"} =>
      /\ Detached(s)
      /\ send[s].target # None => send[s].entry.is_valid

CleanDetached == clean.pc = "reset" => Detached(clean.of)

CountInv == EntriesCounted /\ SendersDetached /\ CleanDetached

LEMMA AttachedIsFinite ==
  ASSUME NEW S, S \subseteq Senders
  PROVE  IsFiniteSet(S) /\ Cardinality(S) \in Nat /\ Cardinality(S) < CountModulus
<1>1. IsFiniteSet(S) /\ Cardinality(S) <= Cardinality(Senders)
  BY SendersAssumption, FS_Subset
<1>2. Cardinality(S) \in Nat /\ Cardinality(Senders) \in Nat
  BY <1>1, SendersAssumption, FS_CardinalityType
<1> QED
  BY <1>1, <1>2, SendersAssumption, NodeClassAssumption

LEMMA AttachedAreSenders == \A k : Attached(k) \subseteq Senders
BY DEF Attached

LEMMA InitCount == Init => CountInv
BY NodeClassAssumption
   DEF Init, CountInv, EntriesCounted, SendersDetached, CleanDetached, Detached, Attached,
       NoEntry, Ready, NoClean

(* Steps that leave the entries and the edges alone. *)
LEMMA SameEntries ==
  ASSUME EntriesCounted, UNCHANGED <<node_entries, edge, spoiled>>
  PROVE  EntriesCounted'
BY DEF EntriesCounted, Attached

LEMMA SameSenders ==
  ASSUME SendersDetached, UNCHANGED <<send, edge>>, spoiled \subseteq spoiled'
  PROVE  SendersDetached'
BY DEF SendersDetached, Detached

LEMMA NodesKeepCount ==
  ASSUME IInv, CountInv, NEW n \in Nodes,
         AddNodeIntoNodeclass(n) \/ DeleteNodeFromNodeclass(n)
  PROVE  CountInv'
<1>1. UNCHANGED <<edge, send, clean>> /\ spoiled \subseteq spoiled' /\ clean = NoClean
  BY DEF AddNodeIntoNodeclass, DeleteNodeFromNodeclass, ClassUnchanged
<1>2. \A k : Attached(k)' = Attached(k)
  BY <1>1 DEF Attached
<1>3. node_entries \in [Slots -> Entry]
  BY DEF IInv, TypeOK
<1>4. SendersDetached' /\ CleanDetached'
  BY <1>1, SameSenders DEF CountInv, CleanDetached, NoClean
<1>5. CASE AddNodeIntoNodeclass(n)
  <2>1. PICK k \in Slots : IsFirst(k, Slots \ Valid)
          /\ node_entries' = [node_entries EXCEPT
               ![k] = [NoEntry EXCEPT !.is_valid = TRUE, !.node_index = n]]
    BY <1>5 DEF AddNodeIntoNodeclass
  <2>2. ~node_entries[k].is_valid /\ spoiled' = spoiled
    BY <1>5, <2>1 DEF IsFirst, Valid, AddNodeIntoNodeclass
  <2>3. node_entries'[k].is_valid /\ node_entries'[k].node_attached_cnt = 0
    BY <1>3, <2>1 DEF NoEntry
  <2>4. \A j \in Slots \ {k} : node_entries'[j] = node_entries[j]
    BY <1>3, <2>1
  <2>5. k \notin spoiled => Cardinality(Attached(k)) = 0
    BY <2>1, <2>2, FS_EmptySet DEF CountInv, EntriesCounted
  <2>6. EntriesCounted'
    BY <1>2, <2>2, <2>3, <2>4, <2>5 DEF CountInv, EntriesCounted
  <2> QED
    BY <1>4, <2>6 DEF CountInv
<1>6. CASE DeleteNodeFromNodeclass(n)
  <2>1. PICK k \in Slots : /\ node_entries' = [node_entries EXCEPT ![k] = NoEntry]
                           /\ spoiled' = IF Attached(k) # {} THEN spoiled \cup {k} ELSE spoiled
    BY <1>6 DEF DeleteNodeFromNodeclass
  <2>2. /\ ~node_entries'[k].is_valid
        /\ \A j \in Slots \ {k} : node_entries'[j] = node_entries[j]
        /\ k \notin spoiled' => Attached(k) = {}
    BY <1>3, <2>1 DEF NoEntry
  <2>3. EntriesCounted'
    BY <1>1, <1>2, <2>2 DEF CountInv, EntriesCounted
  <2> QED
    BY <1>4, <2>3 DEF CountInv
<1> QED
  BY <1>5, <1>6

LEMMA EdgesKeepCount ==
  ASSUME IInv, CountInv, NEW s \in Senders,
         BeginClean(s) \/ \E is_class \in BOOLEAN : SetEdge(s, is_class)
  PROVE  CountInv'
<1>0. /\ edge \in [Senders -> Slots \cup {None}] /\ send[s] = Ready /\ clean = NoClean
      /\ EntriesCounted /\ SendersDetached
  BY DEF IInv, TypeOK, BeginClean, SetEdge, Idle, CountInv
<1>1. CASE BeginClean(s)
  <2>1. UNCHANGED <<node_entries, edge, send, spoiled>>
    BY <1>1 DEF BeginClean
  <2>2. clean'.pc = "reset" => clean'.of = s /\ edge[s] \notin Valid
    <3>1. CASE edge[s] \in Valid
      <4>1. clean'.pc = "write"
        BY <1>1, <3>1 DEF BeginClean
      <4> QED
        BY <4>1
    <3>2. CASE edge[s] \notin Valid
      <4>1. clean' = [NoClean EXCEPT !.pc = "reset", !.of = s]
        BY <1>1, <3>2 DEF BeginClean
      <4>2. clean'.of = s
        BY <4>1 DEF NoClean
      <4> QED
        BY <3>2, <4>2
    <3> QED
      BY <3>1, <3>2
  <2>3. edge[s] \in Slots \ spoiled => edge[s] \in Valid
    BY <1>0 DEF EntriesCounted, Attached, Valid
  <2>4. CleanDetached'
    BY <1>0, <2>1, <2>2, <2>3 DEF CleanDetached, Detached
  <2> QED
    BY <1>0, <2>1, <2>4, SameEntries, SameSenders DEF CountInv
<1>2. CASE \E is_class \in BOOLEAN : SetEdge(s, is_class)
  <2>1. /\ edge' = [edge EXCEPT ![s] = None] /\ UNCHANGED <<node_entries, send, clean>>
        /\ spoiled' = IF edge[s] # None THEN spoiled \cup {edge[s]} ELSE spoiled
    BY <1>2 DEF SetEdge
  <2>2. \A k \in Slots \ spoiled' : Attached(k)' = Attached(k)
    BY <1>0, <2>1, NodeClassAssumption DEF Attached
  <2>3. EntriesCounted'
    BY <1>0, <2>1, <2>2 DEF EntriesCounted
  <2>4. SendersDetached' /\ CleanDetached'
    BY <1>0, <2>1 DEF SendersDetached, CleanDetached, Detached, NoClean
  <2> QED
    BY <2>3, <2>4 DEF CountInv
<1> QED
  BY <1>1, <1>2

LEMMA OneFewer ==
  ASSUME NEW n \in Nat, n > 0, n < CountModulus
  PROVE  (n + CountModulus - 1) % CountModulus = n - 1
<1>1. CountModulus \in Nat \ {0}
  BY NodeClassAssumption
<1>2. n + CountModulus - 1 = (n - 1) + CountModulus /\ n - 1 \in 0 .. CountModulus - 1
  BY <1>1
<1> QED
  BY <1>1, <1>2

LEMMA CleansKeepCount ==
  ASSUME IInv, CountInv, WriteClean \/ EndClean
  PROVE  CountInv'
<1> PICK s, k : s = clean.of /\ k = edge[s]
  OBVIOUS
<1>0. /\ s \in Senders /\ send[s].pc = "ready" /\ send' = send
      /\ edge \in [Senders -> Slots \cup {None}] /\ edge' = [edge EXCEPT ![s] = None]
      /\ node_entries \in [Slots -> Entry] /\ EntriesCounted /\ SendersDetached
  BY DEF IInv, TypeOK, CleanInv, WriteClean, EndClean, CountInv
<1>1. /\ \A j \in Slots \ {k} : Attached(j)' = Attached(j)
      /\ k \in Slots => Attached(k)' = Attached(k) \ {s} /\ s \in Attached(k)
  BY <1>0, NodeClassAssumption DEF Attached
<1>2. ASSUME spoiled \subseteq spoiled' PROVE SendersDetached'
  BY <1>0, <1>2 DEF SendersDetached, Detached
<1>3. CASE WriteClean
  <2> DEFINE n == (clean.entry.node_attached_cnt + CountModulus - 1) % CountModulus
  <2>1. /\ clean.pc = "write" /\ k \in Slots
        /\ node_entries' = [node_entries EXCEPT ![k] =
                              [clean.entry EXCEPT !.node_attached_cnt = n]]
        /\ spoiled' = IF node_entries[k] # clean.entry THEN spoiled \cup {k} ELSE spoiled
        /\ clean' = [clean EXCEPT !.pc = "reset"]
    BY <1>3 DEF WriteClean, IInv, CleanInv
  <2>2. \A j \in Slots \ {k} : node_entries'[j] = node_entries[j]
    BY <1>0, <2>1
  <2>3. ASSUME k \notin spoiled'
        PROVE  /\ node_entries'[k].is_valid
               /\ node_entries'[k].node_attached_cnt = Cardinality(Attached(k)')
    <3>1. k \notin spoiled /\ node_entries[k] = clean.entry
      BY <2>1, <2>3
    <3>2. /\ node_entries[k].is_valid
          /\ node_entries[k].node_attached_cnt = Cardinality(Attached(k))
      BY <1>0, <1>1, <2>1, <3>1 DEF EntriesCounted
    <3>3. PICK A, B : A = Attached(k) /\ B = Attached(k)'
      OBVIOUS
    <3>4. B = A \ {s} /\ s \in A /\ A \subseteq Senders
      BY <1>1, <2>1, <3>3, AttachedAreSenders
    <3>5. /\ IsFiniteSet(A) /\ Cardinality(A) \in Nat /\ Cardinality(A) < CountModulus
          /\ Cardinality(B) \in Nat
      BY <3>4, AttachedIsFinite
    <3>6. Cardinality(B) = Cardinality(A) - 1
      BY <3>4, <3>5, FS_RemoveElement
    <3>7. Cardinality(A) > 0
      BY <3>5, <3>6
    <3>8. clean.entry.node_attached_cnt = Cardinality(A)
      BY <3>1, <3>2, <3>3
    <3>9. n = Cardinality(B)
      BY <3>5, <3>6, <3>7, <3>8, OneFewer
    <3>10. /\ node_entries'[k].is_valid = clean.entry.is_valid
          /\ node_entries'[k].node_attached_cnt = n
      BY <1>0, <2>1 DEF IInv, TypeOK, Clean, Entry
    <3> QED
      BY <3>1, <3>2, <3>3, <3>9, <3>10
  <2>4. EntriesCounted'
    BY <1>0, <1>1, <2>1, <2>2, <2>3 DEF EntriesCounted
  <2>5. CleanDetached'
    <3>1. clean'.of = s /\ edge'[s] = None
      BY <1>0, <2>1 DEF IInv, TypeOK, Clean
    <3> QED
      BY <3>1 DEF CleanDetached, Detached
  <2> QED
    BY <1>2, <2>1, <2>4, <2>5 DEF CountInv
<1>4. CASE EndClean
  <2>1. /\ clean.pc = "reset" /\ clean' = NoClean /\ UNCHANGED <<node_entries, spoiled>>
    BY <1>4 DEF EndClean
  <2>2. k = None \/ k \in spoiled
    BY <2>1 DEF CountInv, CleanDetached, Detached
  <2>3. EntriesCounted'
    BY <1>0, <1>1, <2>1, <2>2, NodeClassAssumption DEF EntriesCounted
  <2>4. CleanDetached'
    BY <2>1 DEF CleanDetached, NoClean
  <2> QED
    BY <1>2, <2>1, <2>3, <2>4 DEF CountInv
<1> QED
  BY <1>3, <1>4

(* A sender goes on: the entries and the edges stay. *)
LEMMA StepKeepsCount ==
  ASSUME IInv, CountInv, NEW s \in Senders, NEW next, To(s, next),
         UNCHANGED <<node_entries, edge>>,
         next.pc \in {"scan", "attach"} =>
           Detached(s) /\ (next.target # None => next.entry.is_valid)
  PROVE  CountInv'
<1>1. /\ send' = [send EXCEPT ![s] = next] /\ UNCHANGED <<clean, spoiled>>
      /\ send \in [Senders -> Send]
  BY DEF To, IInv, TypeOK
<1>2. EntriesCounted'
  BY <1>1, SameEntries DEF CountInv
<1>3. SendersDetached'
  BY <1>1 DEF CountInv, SendersDetached, Detached
<1>4. CleanDetached'
  BY <1>1 DEF CountInv, CleanDetached, Detached
<1> QED
  BY <1>2, <1>3, <1>4 DEF CountInv

LEMMA OneMore ==
  ASSUME NEW n \in Nat, n + 1 < CountModulus
  PROVE  (n + 1) % CountModulus = n + 1
BY NodeClassAssumption

LEMMA AttachKeepsCount ==
  ASSUME IInv, CountInv, NEW s \in Senders, Attach(s)
  PROVE  CountInv'
<1> DEFINE c == send[s]
<1>0. PICK k : k = c.target
  OBVIOUS
<1>1. /\ c \in Send /\ c.pc = "attach" /\ k \in Slots /\ c.entry \in Entry
      /\ node_entries \in [Slots -> Entry] /\ edge \in [Senders -> Slots \cup {None}]
      /\ send \in [Senders -> Send]
      /\ Detached(s) /\ c.entry.is_valid
  BY <1>0, NodeClassAssumption
     DEF Attach, IInv, TypeOK, SendInv, Send, CountInv, SendersDetached
<1>2. CASE node_entries[k] = c.entry
  <2> DEFINE next == [Ready EXCEPT !.pc = "deliver", !.next_node = c.entry.node_index]
  <2>1. /\ node_entries' = [node_entries EXCEPT ![k] = Raised(c.entry)]
        /\ edge' = [edge EXCEPT ![s] = k]
        /\ send' = [send EXCEPT ![s] = next] /\ UNCHANGED <<clean, spoiled>>
    BY <1>0, <1>2 DEF Attach, To
  <2>2. next.pc = "deliver"
    BY DEF Ready
  <2>3. \A t \in Senders : t # s => edge'[t] = edge[t] /\ send'[t] = send[t]
    BY <1>1, <2>1
  <2>4. SendersDetached'
    <3>1. send'[s].pc = "deliver"
      BY <1>1, <2>1, <2>2
    <3> HIDE DEF next
    <3> QED
      BY <2>1, <2>3, <3>1 DEF CountInv, SendersDetached, Detached
  <2>5. CleanDetached'
    <3>1. clean.pc = "reset" => clean.of \in Senders /\ clean.of # s
      BY <1>1 DEF IInv, CleanInv
    <3> QED
      BY <2>1, <2>3, <3>1 DEF CountInv, CleanDetached, Detached
  <2>6. /\ \A j \in Slots \ (spoiled \cup {k}) : Attached(j)' = Attached(j)
        /\ k \notin spoiled => Attached(k)' = Attached(k) \cup {s} /\ s \notin Attached(k)
    <3>1. \A j \in Slots \ (spoiled \cup {k}) : edge[s] # j
      BY <1>1, NodeClassAssumption DEF Detached
    <3>2. k \notin spoiled => edge[s] # k
      BY <1>1, NodeClassAssumption DEF Detached
    <3>3. edge'[s] = k
      BY <1>1, <2>1
    <3> QED
      BY <2>3, <3>1, <3>2, <3>3 DEF Attached
  <2>7. ASSUME k \notin spoiled
        PROVE  /\ node_entries'[k].is_valid
               /\ node_entries'[k].node_attached_cnt = Cardinality(Attached(k)')
    <3>1. c.entry.node_attached_cnt = Cardinality(Attached(k))
      BY <1>1, <1>2, <2>7 DEF CountInv, EntriesCounted
    <3>2. PICK A, B : A = Attached(k) /\ B = Attached(k)'
      OBVIOUS
    <3>3. B = A \cup {s} /\ s \notin A /\ A \subseteq Senders /\ B \subseteq Senders
      BY <2>6, <2>7, <3>2, AttachedAreSenders
    <3>7. IsFiniteSet(A) /\ Cardinality(A) \in Nat /\ Cardinality(B) < CountModulus
      BY <3>3, AttachedIsFinite
    <3>8. Cardinality(B) = Cardinality(A) + 1
      BY <3>3, <3>7, FS_AddElement
    <3>4. /\ Raised(c.entry).node_attached_cnt = (c.entry.node_attached_cnt + 1) % CountModulus
          /\ Raised(c.entry).is_valid = c.entry.is_valid
      BY <1>1 DEF Raised, Entry
    <3>5. Raised(c.entry).node_attached_cnt = Cardinality(Attached(k)')
      BY <3>1, <3>2, <3>4, <3>7, <3>8, OneMore
    <3>6. node_entries'[k] = Raised(c.entry)
      BY <1>1, <2>1
    <3> QED
      BY <1>1, <3>4, <3>5, <3>6
  <2>8. \A j \in Slots \ {k} : node_entries'[j] = node_entries[j]
    BY <1>1, <2>1
  <2>9. EntriesCounted'
    <3>1. spoiled' = spoiled /\ EntriesCounted
      BY <2>1 DEF CountInv
    <3>2. ASSUME NEW j \in Slots \ spoiled, j # k
          PROVE  IF node_entries'[j].is_valid
                 THEN node_entries'[j].node_attached_cnt = Cardinality(Attached(j)')
                 ELSE Attached(j)' = {}
      <4>1. node_entries'[j] = node_entries[j] /\ Attached(j)' = Attached(j)
        BY <2>6, <2>8, <3>2
      <4> QED
        BY <3>1, <4>1 DEF EntriesCounted
    <3> QED
      BY <2>7, <3>1, <3>2 DEF EntriesCounted
  <2> QED
    BY <2>4, <2>5, <2>9 DEF CountInv
<1>3. CASE node_entries[k] # c.entry
  <2> DEFINE next == [Ready EXCEPT !.pc = "scan", !.check_socket_id = c.check_socket_id]
  <2>1. To(s, next) /\ UNCHANGED <<node_entries, edge>>
    BY <1>0, <1>3 DEF Attach
  <2>2. next.target = None
    BY DEF Ready
  <2> HIDE DEF next
  <2> QED
    BY <1>1, <2>1, <2>2, StepKeepsCount
<1> QED
  BY <1>2, <1>3

(* A sender begins to search only if its slot has no node, and then the count *)
(* of that slot is not kept.                                                  *)
LEMMA SendingKeepsCount ==
  ASSUME IInv, CountInv, NEW s \in Senders, Sending(s)
  PROVE  CountInv'
<1> DEFINE c == send[s]
<1>1. /\ c \in Send /\ edge[s] \in Slots \cup {None}
      /\ EntriesCounted /\ SendersDetached
  BY DEF IInv, TypeOK, CountInv
<1>2. CASE ValidateCached(s)
  <2> DEFINE next == [Ready EXCEPT !.pc = IF edge[s] \in Valid THEN "index" ELSE "scan"]
  <2>1. To(s, next) /\ UNCHANGED <<node_entries, edge>>
    BY <1>2 DEF ValidateCached
  <2>2. next.target = None /\ (next.pc \in {"scan", "attach"} => edge[s] \notin Valid)
    BY DEF Ready
  <2>3. edge[s] \notin Valid => Detached(s)
    BY <1>1 DEF EntriesCounted, Attached, Valid, Detached
  <2> HIDE DEF next
  <2> QED
    BY <2>1, <2>2, <2>3, StepKeepsCount
<1>3. CASE ReadIndex(s)
  <2> DEFINE next == [Ready EXCEPT !.pc = "deliver",
                                   !.next_node = node_entries[edge[s]].node_index]
  <2>1. To(s, next) /\ UNCHANGED <<node_entries, edge>>
    BY <1>3 DEF ReadIndex
  <2>2. next.pc = "deliver"
    BY DEF Ready
  <2> HIDE DEF next
  <2> QED
    BY <2>1, <2>2, StepKeepsCount
<1>4. CASE ScanSlot(s)
  <2> DEFINE i == c.slot + 1
             entry == node_entries[c.slot]
             next == [c EXCEPT !.slot = i, !.target = c.slot, !.entry = entry]
             skip == [c EXCEPT !.slot = i]
  <2>1. c.pc = "scan" /\ Detached(s) /\ (c.target # None => c.entry.is_valid)
    BY <1>1, <1>4 DEF ScanSlot, SendersDetached
  <2>2. /\ (entry.is_valid /\ To(s, next)) \/ To(s, skip)
        /\ UNCHANGED <<node_entries, edge>>
    BY <1>4 DEF ScanSlot, IsBetter
  <2> HIDE DEF i, entry
  <2>3. next.entry = entry /\ skip.target = c.target /\ skip.entry = c.entry
    <3> HIDE DEF c
    <3> QED
      BY <1>1 DEF Send
  <2> HIDE DEF next, skip
  <2> QED
    BY <2>1, <2>2, <2>3, StepKeepsCount
<1>5. CASE EndScan(s)
  <2> DEFINE found == [c EXCEPT !.pc = "attach"]
             again == [Ready EXCEPT !.pc = "scan", !.check_socket_id = FALSE]
             none == [Ready EXCEPT !.pc = "deliver"]
  <2>1. c.pc = "scan" /\ Detached(s) /\ (c.target # None => c.entry.is_valid)
    BY <1>1, <1>5 DEF EndScan, SendersDetached
  <2>2. /\ To(s, found) \/ To(s, again) \/ To(s, none)
        /\ UNCHANGED <<node_entries, edge>>
    BY <1>5 DEF EndScan
  <2>3. again.target = None /\ none.pc = "deliver"
    BY DEF Ready
  <2>4. found.target = c.target /\ found.entry = c.entry
    BY <1>1 DEF Send
  <2> HIDE DEF found, again, none
  <2> QED
    BY <2>1, <2>2, <2>3, <2>4, StepKeepsCount
<1>6. CASE Attach(s)
  BY <1>6, AttachKeepsCount
<1>7. CASE Deliver(s)
  BY <1>7, StepKeepsCount DEF Deliver, Ready
<1> QED
  BY <1>2, <1>3, <1>4, <1>5, <1>6, <1>7 DEF Sending

LEMMA NextCount == IInv /\ CountInv /\ [Next]_vars => CountInv'
<1> SUFFICES ASSUME IInv, CountInv, [Next]_vars PROVE CountInv'
  OBVIOUS
<1>1. CASE \E n \in Nodes : RegisterNode(n) \/ UnregisterNode(n)
  BY <1>1, SameEntries, SameSenders
     DEF RegisterNode, UnregisterNode, ClassUnchanged, CountInv, CleanDetached, Detached
<1>2. CASE UNCHANGED vars
  BY <1>2, SameEntries, SameSenders DEF vars, CountInv, CleanDetached, Detached
<1> QED
  BY <1>1, <1>2, NodesKeepCount, EdgesKeepCount, CleansKeepCount, SendingKeepsCount
     DEF Next, Control

(* A slot counts the edges attached to it however many senders select nodes   *)
(* at a time (the compare-and-swap of reselect_next_forwarding_node), except  *)
(* in the three cases that the history variable records.                      *)
THEOREM AttachmentsAreCountedHolds == Spec => []AttachmentsAreCounted
<1>1. Init => CountInv
  BY InitCount
<1>2. CountInv => AttachmentsAreCounted
  BY DEF CountInv, EntriesCounted, AttachmentsAreCounted, Valid
<1> QED
  BY <1>1, <1>2, NextCount, Invariance, PTL DEF Spec
=============================================================================

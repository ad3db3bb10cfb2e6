----------------------- MODULE SpineForwarding_proofs -----------------------
(***************************************************************************)
(* The input node of the spine beside the calls of the control path, for   *)
(* tables, bursts and caches of any size and any number of API threads and *)
(* calls.                                                                  *)
(*                                                                         *)
(* A step of SpineForwarding is a step of SpineLabel and a step of         *)
(* ExpressDelivery, or leaves their variables alone, so what is proved of  *)
(* them holds here too.  On top of that, PortInv says which port a         *)
(* burst keeps alive, FateInv where each of its packets is while it is     *)
(* copied and sent, and HarmInv what the burst may rely on as long as no   *)
(* call has taken anything away.                                           *)
(***************************************************************************)
EXTENDS SpineForwarding, ExpressDelivery_proofs, FiniteSetTheorems, SequenceTheorems, TLAPS

(***************************************************************************)
(* The control path: SpineLabel.                                           *)
(*                                                                         *)
(* A call on a FIB gives a reference back, writes the label and takes a    *)
(* reference in three critical sections.  What makes the counts come out   *)
(* is that pbp_guard keeps one call at a time on a port: the label it      *)
(* works on is the only one of the port without a share in a reference, so *)
(* the other labels of the FIB say whether the port holds one.  SpineInv   *)
(* puts the lock and the counts together.                                  *)
(***************************************************************************)

\* What a call that has begun works on.
Working(c) ==
  /\ c.pc \in {"write", "reference", "clear"} /\ c.iface \in Pbps /\ c.index \in Labels
  /\ c.pc # "clear" => c.entry \in LabelEntry

\* A label whose reference is about to be taken has been written.
CallsInv ==
  \A a \in Processes :
    /\ call[a] = Idle \/ Working(call[a])
    /\ call[a].pc = "reference" => labels[call[a].iface][call[a].index] = call[a].entry

\* pbp_guard: a port has at most one call that works on it.
Exclusive ==
  \A a, c \in Processes : call[a].iface = call[c].iface /\ call[a].iface # None => a = c

SpineType == TypeOK /\ CallsInv /\ Exclusive

SpineInv == SpineType /\ MnexthopAccounting

Call == [pc: Pc, iface: Pbps \cup {None}, index: Nat, entry: LabelEntry \cup {Free}]

(***************************************************************************)
(* Typing.                                                                 *)
(***************************************************************************)
LEMMA EntryFields ==
  \A e \in LabelEntry :
    \/ e.is_unicast = TRUE /\ e.NHLFE \in Nexthops
    \/ e.is_unicast = FALSE /\ e.NHLFE \in Mnexthops
BY DEF LabelEntry

\* Counting stays in 16 bits, and counting up is exact below the last value.
LEMMA Counting ==
  /\ RefCounts \subseteq Nat /\ Free \notin RefCounts
  /\ \A n \in RefCounts : /\ Incremented(n) \in RefCounts
                          /\ n + 1 < RefModulus => Incremented(n) = n + 1
                          /\ \A k \in Nat : k <= n => n - k \in RefCounts
                          /\ n # 0 => n - 1 \in RefCounts
<1>1. RefModulus \in Nat
  BY WidthAssumption
<1>2. ASSUME NEW n \in RefCounts
      PROVE  /\ Incremented(n) \in RefCounts
             /\ n + 1 < RefModulus => Incremented(n) = n + 1
             /\ \A k \in Nat : k <= n => n - k \in RefCounts
             /\ n # 0 => n - 1 \in RefCounts
  <2>1. /\ Incremented(n) \in RefCounts
        /\ n + 1 < RefModulus => Incremented(n) = n + 1
    BY <1>1 DEF RefCounts, Incremented
  <2>2. \A k \in Nat : k <= n => n - k \in RefCounts
    BY <1>1 DEF RefCounts
  <2>3. n # 0 => n - 1 \in RefCounts
    BY <1>1 DEF RefCounts
  <2> QED
    BY <2>1, <2>2, <2>3
<1>3. RefCounts \subseteq Nat
  BY <1>1 DEF RefCounts
<1> QED
  BY <1>2, <1>3, FreeAssumption

LEMMA ZeroIsACount == 0 \in RefCounts
<1>1. Cardinality(Pbps) \in Nat
  BY PortsAssumption, FS_CardinalityType
<1> QED
  BY <1>1, WidthAssumption DEF RefCounts

\* The count of a group.
LEMMA CountOfGroup ==
  ASSUME mnexthop \in [Mnexthops -> MulticastNextHops \cup {Free}],
         NEW m \in Mnexthops, mnexthop[m] # Free, NEW n \in RefCounts,
         mnexthop' = [mnexthop EXCEPT ![m] = [mnexthop[m] EXCEPT !.ref_cnt = n]]
  PROVE  /\ mnexthop' \in [Mnexthops -> MulticastNextHops \cup {Free}]
         /\ mnexthop'[m] # Free /\ mnexthop'[m].ref_cnt = n
         /\ mnexthop'[m].nexthops = mnexthop[m].nexthops
         /\ \A o \in Mnexthops \ {m} : mnexthop'[o] = mnexthop[o]
<1> DEFINE g == mnexthop[m]
<1>1. /\ [g EXCEPT !.ref_cnt = n] \in MulticastNextHops
      /\ [g EXCEPT !.ref_cnt = n].ref_cnt = n
      /\ [g EXCEPT !.ref_cnt = n].nexthops = g.nexthops
  BY DEF MulticastNextHops
<1> QED
  BY <1>1, FreeAssumption

LEMMA ReleaseType ==
  ASSUME TypeOK, NEW p \in Pbps, NEW b \in Labels, Release(p, b)
  PROVE  /\ nexthop' \in [Nexthops -> RefCounts \cup {Free}]
         /\ mnexthop' \in [Mnexthops -> MulticastNextHops \cup {Free}]
<1>1. CASE labels[p][b] # Free /\ IsOnlyLabel(p, b)
  <2> DEFINE e == labels[p][b]
  <2>1. e \in LabelEntry /\ Dereference(e)
    BY <1>1 DEF TypeOK, Release
  <2>2. CASE e.is_unicast = TRUE /\ e.NHLFE \in Nexthops
    <3>1. DereferenceNexthop(e.NHLFE) /\ mnexthop' = mnexthop
      BY <2>1, <2>2 DEF Dereference
    <3>2. nexthop[e.NHLFE] \notin {Free, 0} => nexthop[e.NHLFE] - 1 \in RefCounts
      BY <2>2, Counting DEF TypeOK
    <3> QED
      BY <2>2, <3>1, <3>2 DEF DereferenceNexthop, TypeOK
  <2>3. CASE e.is_unicast = FALSE /\ e.NHLFE \in Mnexthops
    <3>1. DereferenceMnexthop(e.NHLFE) /\ nexthop' = nexthop
      BY <2>1, <2>3 DEF Dereference
    <3> DEFINE m == e.NHLFE
    <3>2. CASE mnexthop[m] # Free /\ mnexthop[m].ref_cnt > 0
      <4>1. mnexthop[m] \in MulticastNextHops /\ mnexthop[m].ref_cnt - 1 \in RefCounts
        <5>1. mnexthop[m] \in MulticastNextHops /\ mnexthop[m].ref_cnt \in RefCounts
          BY <2>3, <3>2 DEF TypeOK, MulticastNextHops
        <5>2. mnexthop[m].ref_cnt # 0
          BY <3>2
        <5> QED
          BY <5>1, <5>2, Counting
      <4>2. mnexthop' = [mnexthop EXCEPT
                           ![m] = [mnexthop[m] EXCEPT !.ref_cnt = mnexthop[m].ref_cnt - 1]]
        BY <3>1, <3>2 DEF DereferenceMnexthop
      <4> QED
        BY <2>3, <3>1, <3>2, <4>1, <4>2, CountOfGroup DEF TypeOK
    <3> QED
      BY <3>1, <3>2 DEF DereferenceMnexthop, TypeOK
  <2> QED
    BY <2>1, <2>2, <2>3, EntryFields
<1>2. CASE ~(labels[p][b] # Free /\ IsOnlyLabel(p, b))
  BY <1>2 DEF Release, TypeOK
<1> QED
  BY <1>1, <1>2

LEMMA InitType == Init => SpineType
BY ProcessAssumption, WidthAssumption DEF Init, SpineType, TypeOK, CallsInv, Exclusive, Idle, Pc

\* A call begins to work on a port that nobody works on.
LEMMA BeginKeepsType ==
  ASSUME SpineType, NEW a \in Processes, NEW p \in Pbps, NEW b \in Labels, NEW c,
         c \in Call, Working(c), c.pc # "reference", c.iface = p,
         call[a] = Idle, Unlocked(p),
         call' = [call EXCEPT ![a] = c], labels' = labels
  PROVE  call' \in [Processes -> Call] /\ CallsInv' /\ Exclusive'
<1>1. call \in [Processes -> Call]
  BY DEF SpineType, TypeOK, Call
<1>2. /\ call' \in [Processes -> Call] /\ call'[a] = c
      /\ \A o \in Processes \ {a} : call'[o] = call[o]
  BY <1>1
<1>3. CallsInv'
  <2> SUFFICES ASSUME NEW o \in Processes
               PROVE  /\ call'[o] = Idle \/ Working(call'[o])
                      /\ call'[o].pc = "reference" =>
                           labels'[call'[o].iface][call'[o].index] = call'[o].entry
    BY Zenon DEF CallsInv, Working, Idle
  <2>1. CASE o = a
    BY <1>2, <2>1
  <2>2. CASE o # a
    BY <1>2, <2>2 DEF SpineType, CallsInv
  <2> QED
    BY <2>1, <2>2
<1>4. Exclusive'
  BY <1>2 DEF SpineType, Exclusive, Unlocked
<1> QED
  BY <1>2, <1>3, <1>4

\* A call goes on to its next critical section, or ends.
LEMMA GoOnKeepsType ==
  ASSUME SpineType, NEW a \in Processes, Working(call[a]), NEW c, c \in Call,
         c = Idle \/ (Working(c) /\ c.iface = call[a].iface /\ c.index = call[a].index),
         NEW e \in LabelEntry \cup {Free},
         \/ labels' = [labels EXCEPT ![call[a].iface][call[a].index] = e]
         \/ labels' = labels,
         c.pc = "reference" => labels'[c.iface][c.index] = c.entry,
         call' = [call EXCEPT ![a] = c]
  PROVE  /\ labels' \in [Pbps -> [Labels -> LabelEntry \cup {Free}]]
         /\ call' \in [Processes -> Call] /\ CallsInv' /\ Exclusive'
<1>1. call \in [Processes -> Call] /\ labels \in [Pbps -> [Labels -> LabelEntry \cup {Free}]]
  BY DEF SpineType, TypeOK, Call
<1>2. /\ call' \in [Processes -> Call] /\ call'[a] = c
      /\ \A o \in Processes \ {a} : call'[o] = call[o]
  BY <1>1
<1>3. /\ labels' \in [Pbps -> [Labels -> LabelEntry \cup {Free}]]
      /\ \A q \in Pbps \ {call[a].iface} : labels'[q] = labels[q]
  BY <1>1 DEF Working
<1>4. CallsInv'
  <2> SUFFICES ASSUME NEW o \in Processes
               PROVE  /\ call'[o] = Idle \/ Working(call'[o])
                      /\ call'[o].pc = "reference" =>
                           labels'[call'[o].iface][call'[o].index] = call'[o].entry
    BY Zenon DEF CallsInv, Working, Idle
  <2>1. CASE o = a
    BY <1>2, <2>1
  <2>2. CASE o # a
    <3>1. call'[o] = call[o]
      BY <1>2, <2>2
    <3>2. call[o] = Idle \/ (Working(call[o]) /\ call[o].iface # call[a].iface)
      BY <2>2, ProcessAssumption DEF SpineType, CallsInv, Exclusive, Working
    <3> QED
      BY <1>3, <3>1, <3>2 DEF SpineType, CallsInv, Idle, Working
  <2> QED
    BY <2>1, <2>2
<1>5. Exclusive'
  BY <1>2 DEF SpineType, Exclusive, Idle
<1> QED
  BY <1>2, <1>3, <1>4, <1>5

\* The other calls leave what these invariants speak of alone.
LEMMA UntouchedCalls ==
  ASSUME SpineType, UNCHANGED <<labels, call>>
  PROVE  CallsInv' /\ Exclusive'
BY DEF SpineType, CallsInv, Exclusive, Working, Idle

LEMMA NexthopCallsKeepType ==
  ASSUME SpineType, NEW t \in Threads,
         \E h \in Nexthops : RegisterCommonNexthop(t, h) \/ DeleteCommonNexthop(t, h)
  PROVE  SpineType'
<1>1. PICK h \in Nexthops : RegisterCommonNexthop(t, h) \/ DeleteCommonNexthop(t, h)
  OBVIOUS
<1>2. nexthop' \in [Nexthops -> RefCounts \cup {Free}]
  BY <1>1, ZeroIsACount DEF RegisterCommonNexthop, DeleteCommonNexthop, SpineType, TypeOK
<1>3. UNCHANGED <<mnexthop, labels, state, call, rcu>>
  BY <1>1 DEF RegisterCommonNexthop, DeleteCommonNexthop
<1> QED
  BY <1>2, <1>3, UntouchedCalls DEF SpineType, TypeOK

\* Another content of one slot of a group.
LEMMA MemberOfGroup ==
  ASSUME mnexthop \in [Mnexthops -> MulticastNextHops \cup {Free}],
         NEW m \in Mnexthops, mnexthop[m] # Free, NEW k \in Slots,
         NEW member \in Member \cup {Free},
         mnexthop' = [mnexthop EXCEPT ![m].nexthops[k] = member]
  PROVE  /\ mnexthop' \in [Mnexthops -> MulticastNextHops \cup {Free}]
         /\ mnexthop'[m] # Free /\ mnexthop'[m].ref_cnt = mnexthop[m].ref_cnt
         /\ mnexthop'[m].nexthops[k] = member
         /\ \A j \in Slots \ {k} : mnexthop'[m].nexthops[j] = mnexthop[m].nexthops[j]
         /\ \A o \in Mnexthops \ {m} : mnexthop'[o] = mnexthop[o]
<1> DEFINE g == mnexthop[m]
           new == [g EXCEPT !.nexthops = [g.nexthops EXCEPT ![k] = member]]
<1>1. g \in MulticastNextHops /\ mnexthop' = [mnexthop EXCEPT ![m] = new]
  OBVIOUS
<1>2. /\ new \in MulticastNextHops /\ new.ref_cnt = g.ref_cnt
      /\ new.nexthops[k] = member
      /\ \A j \in Slots \ {k} : new.nexthops[j] = g.nexthops[j]
  BY <1>1 DEF MulticastNextHops
<1> HIDE DEF new
<1> QED
  BY <1>1, <1>2, FreeAssumption

LEMMA GroupCallsKeepType ==
  ASSUME SpineType, NEW t \in Threads, NEW m \in Mnexthops,
         \/ RegisterMulticastNexthop(t, m)
         \/ DeleteMulticastNexthop(t, m)
         \/ \E member \in Member :
              \/ \E k \in Slots : RegisterNexthopInMnexthops(t, m, k, member)
              \/ DeleteNexthopInMnexthops(t, m, member)
  PROVE  SpineType'
<1>1. UNCHANGED <<labels, state, call, rcu>>
  BY DEF RegisterMulticastNexthop, DeleteMulticastNexthop, RegisterNexthopInMnexthops,
         DeleteNexthopInMnexthops
<1>2. SUFFICES /\ nexthop' \in [Nexthops -> RefCounts \cup {Free}]
               /\ mnexthop' \in [Mnexthops -> MulticastNextHops \cup {Free}]
  BY <1>1, UntouchedCalls DEF SpineType, TypeOK
<1> USE DEF SpineType, TypeOK
<1>3. CASE RegisterMulticastNexthop(t, m)
  <2>1. [nexthops |-> [k \in Slots |-> Free], ref_cnt |-> 0] \in MulticastNextHops
    BY ZeroIsACount DEF MulticastNextHops
  <2> QED
    BY <1>3, <2>1 DEF RegisterMulticastNexthop
<1>4. CASE DeleteMulticastNexthop(t, m)
  <2>1. mnexthop' \in [Mnexthops -> MulticastNextHops \cup {Free}]
    BY <1>4 DEF DeleteMulticastNexthop
  <2>2. ASSUME NEW h \in Nexthops
        PROVE  LET n == Cardinality(Members(m, h))
               IN  (IF nexthop[h] = Free THEN Free
                    ELSE IF nexthop[h] < n THEN 0 ELSE nexthop[h] - n) \in RefCounts \cup {Free}
    <3>1. IsFiniteSet(Slots) /\ Members(m, h) \subseteq Slots
      BY FS_Interval, SpineAssumption DEF Members, Slots
    <3>2. Cardinality(Members(m, h)) \in Nat
      BY <3>1, FS_Subset, FS_CardinalityType
    <3>3. nexthop[h] \in RefCounts \cup {Free}
      OBVIOUS
    <3> PICK n, old : n = Cardinality(Members(m, h)) /\ old = nexthop[h]
      OBVIOUS
    <3>4. ASSUME old # Free, ~(old < n) PROVE old - n \in RefCounts
      <4>1. old \in RefCounts /\ old \in Nat /\ n \in Nat
        BY <3>2, <3>3, <3>4, Counting
      <4> QED
        BY <3>4, <4>1, Counting
    <3> QED
      BY <3>4, ZeroIsACount
  <2> QED
    BY <1>4, <2>1, <2>2 DEF DeleteMulticastNexthop, DereferenceMembers
<1>5. ASSUME NEW member \in Member, NEW k \in Slots,
             RegisterNexthopInMnexthops(t, m, k, member)
      PROVE  /\ nexthop' \in [Nexthops -> RefCounts \cup {Free}]
             /\ mnexthop' \in [Mnexthops -> MulticastNextHops \cup {Free}]
  <2>1. member.next_hop \in Nexthops
    BY DEF Member
  <2>2. nexthop' \in [Nexthops -> RefCounts \cup {Free}]
    BY <1>5, <2>1, Counting DEF RegisterNexthopInMnexthops, ReferenceNexthop
  <2> QED
    BY <1>5, <2>2, MemberOfGroup DEF RegisterNexthopInMnexthops
<1>6. ASSUME NEW member \in Member, DeleteNexthopInMnexthops(t, m, member)
      PROVE  /\ nexthop' \in [Nexthops -> RefCounts \cup {Free}]
             /\ mnexthop' \in [Mnexthops -> MulticastNextHops \cup {Free}]
  <2>1. member.next_hop \in Nexthops
    BY DEF Member
  <2>2. nexthop' \in [Nexthops -> RefCounts \cup {Free}]
    BY <1>6, <2>1, Counting DEF DeleteNexthopInMnexthops, DereferenceNexthop
  <2> QED
    BY <1>6, <2>2, MemberOfGroup DEF DeleteNexthopInMnexthops
<1> QED
  BY <1>3, <1>4, <1>5, <1>6

\* What a call on a FIB remembers when it has given the reference back.
Begun(pc, p, b, e) == [pc |-> pc, iface |-> p, index |-> b, entry |-> e]

LEMMA BegunIsWorking ==
  ASSUME NEW p \in Pbps, NEW b \in Labels
  PROVE  /\ \A e \in LabelEntry :
              LET c == Begun("write", p, b, e)
              IN  /\ c \in Call /\ Working(c) /\ c.iface = p /\ c.index = b
                  /\ c.pc # "reference"
         /\ LET c == Begun("clear", p, b, Free)
            IN  /\ c \in Call /\ Working(c) /\ c.iface = p /\ c.index = b
                /\ c.pc # "reference"
BY SpineAssumption DEF Begun, Call, Working, Pc, Labels

\* The first critical section of a call on a FIB, by whichever process.
Unbind(a, p, b, c) ==
  /\ call[a] = Idle /\ Unlocked(p)
  /\ Release(p, b)
  /\ call' = [call EXCEPT ![a] = c]
  /\ c \in Call /\ Working(c) /\ c.pc # "reference" /\ c.iface = p /\ c.index = b
  /\ UNCHANGED <<labels, state, rcu>>

LEMMA CallsUnbind ==
  ASSUME NEW p \in Pbps, NEW b \in Labels
  PROVE  /\ ReleaseLabel(p, b) => \E c : Unbind(Rcu, p, b, c)
         /\ \A t \in Threads : DeleteLabelEntry(t, p, b) => \E c : Unbind(t, p, b, c)
         /\ \A t \in Threads, e \in LabelEntry :
              SetupLabelEntry(t, p, b, e) => \E c : Unbind(t, p, b, c)
<1>1. ASSUME ReleaseLabel(p, b) PROVE Unbind(Rcu, p, b, Begun("clear", p, b, Free))
  BY <1>1, BegunIsWorking DEF ReleaseLabel, Unbind, Begun, TearsDown
<1>2. ASSUME NEW t \in Threads, DeleteLabelEntry(t, p, b)
      PROVE  Unbind(t, p, b, Begun("clear", p, b, Free))
  BY <1>2, BegunIsWorking DEF DeleteLabelEntry, Unbind, Begun, MayChange, Ready
<1>3. ASSUME NEW t \in Threads, NEW e \in LabelEntry, SetupLabelEntry(t, p, b, e)
      PROVE  Unbind(t, p, b, Begun("write", p, b, e))
  BY <1>3, BegunIsWorking DEF SetupLabelEntry, Unbind, Begun, MayChange, Ready
<1> QED
  BY <1>1, <1>2, <1>3

LEMMA UnbindKeepsType ==
  ASSUME SpineType, NEW a \in Processes, NEW p \in Pbps, NEW b \in Labels, NEW c,
         Unbind(a, p, b, c)
  PROVE  SpineType'
<1>1. call' \in [Processes -> Call] /\ CallsInv' /\ Exclusive'
  BY BeginKeepsType DEF Unbind
<1>2. /\ nexthop' \in [Nexthops -> RefCounts \cup {Free}]
      /\ mnexthop' \in [Mnexthops -> MulticastNextHops \cup {Free}]
  BY ReleaseType DEF Unbind, SpineType
<1> QED
  BY <1>1, <1>2 DEF SpineType, TypeOK, Unbind, Call

\* The later critical sections, as what they do to the label and the call.
GoOn(a, c) ==
  /\ Working(call[a]) /\ c \in Call
  /\ c = Idle \/ (Working(c) /\ c.iface = call[a].iface /\ c.index = call[a].index)
  /\ call' = [call EXCEPT ![a] = c]
  /\ UNCHANGED <<state, rcu>>

Puts(a, e) == labels' = [labels EXCEPT ![call[a].iface][call[a].index] = e]

LEMMA WriteGoesOn ==
  ASSUME SpineType, NEW t \in Threads, WriteLabel(t)
  PROVE  \E c : /\ GoOn(t, c) /\ c # Idle /\ c.entry \in LabelEntry /\ Puts(t, c.entry)
                /\ c.entry = call[t].entry
<1> DEFINE c == [call[t] EXCEPT !.pc = "reference"]
<1>1. call[t] \in Call /\ call[t].pc = "write" /\ Working(call[t])
  BY DEF WriteLabel, SpineType, TypeOK, CallsInv, Call, Idle, Processes
<1>2. /\ c \in Call /\ c.iface = call[t].iface /\ c.index = call[t].index
      /\ c.entry = call[t].entry /\ c.pc = "reference"
  BY <1>1 DEF Call, Pc
<1>3. Working(c) /\ c # Idle /\ c.entry \in LabelEntry
  BY <1>1, <1>2 DEF Working, Idle
<1>4. call' = [call EXCEPT ![t] = c]
  BY DEF WriteLabel
<1>5. Puts(t, c.entry) /\ UNCHANGED <<state, rcu>>
  BY <1>2 DEF WriteLabel, Puts
<1> HIDE DEF c
<1> QED
  BY <1>1, <1>2, <1>3, <1>4, <1>5 DEF GoOn

LEMMA EndGoesOn ==
  ASSUME SpineType, NEW a \in Processes,
         call[a].pc \in {"reference", "clear"},
         call' = [call EXCEPT ![a] = Idle], UNCHANGED <<state, rcu>>
  PROVE  GoOn(a, Idle)
BY SpineAssumption DEF GoOn, SpineType, CallsInv, Call, Idle, Pc

LEMMA ContinueKeepsType ==
  ASSUME SpineType, NEW a \in Processes, WriteLabel(a) \/ ReferenceLabel(a) \/ ClearLabel(a),
         a = Rcu => ClearLabel(a)
  PROVE  SpineType'
<1> USE DEF SpineType, TypeOK
<1>1. CASE WriteLabel(a) /\ a \in Threads
  <2>1. PICK c : GoOn(a, c) /\ c # Idle /\ c.entry \in LabelEntry /\ Puts(a, c.entry)
    BY <1>1, WriteGoesOn
  <2>2. c.pc = "reference" => labels'[c.iface][c.index] = c.entry
    BY <2>1 DEF GoOn, Puts, Working
  <2>3. /\ labels' \in [Pbps -> [Labels -> LabelEntry \cup {Free}]]
        /\ call' \in [Processes -> Call] /\ CallsInv' /\ Exclusive'
    BY <2>1, <2>2, GoOnKeepsType DEF GoOn, Puts
  <2> QED
    BY <1>1, <2>3 DEF WriteLabel, Call
<1>2. CASE ClearLabel(a)
  <2>1. GoOn(a, Idle) /\ Puts(a, Free)
    BY <1>2, EndGoesOn DEF ClearLabel, Puts
  <2>2. /\ labels' \in [Pbps -> [Labels -> LabelEntry \cup {Free}]]
        /\ call' \in [Processes -> Call] /\ CallsInv' /\ Exclusive'
    BY <2>1, GoOnKeepsType DEF GoOn, Puts, Idle
  <2> QED
    BY <1>2, <2>2 DEF ClearLabel, Call
<1>3. CASE ReferenceLabel(a)
  <2>1. GoOn(a, Idle) /\ (Puts(a, Free) \/ labels' = labels)
    BY <1>3, EndGoesOn DEF ReferenceLabel, Puts
  <2>2. /\ labels' \in [Pbps -> [Labels -> LabelEntry \cup {Free}]]
        /\ call' \in [Processes -> Call] /\ CallsInv' /\ Exclusive'
    BY <2>1, GoOnKeepsType DEF GoOn, Puts, Idle
  <2>3. /\ nexthop' \in [Nexthops -> RefCounts \cup {Free}]
        /\ mnexthop' \in [Mnexthops -> MulticastNextHops \cup {Free}]
    <3> DEFINE e == call[a].entry
    <3>1. e \in LabelEntry
      BY <1>3 DEF ReferenceLabel, CallsInv, Working, Idle
    <3>2. \/ UNCHANGED <<nexthop, mnexthop>>
          \/ e.is_unicast /\ ReferenceNexthop(e.NHLFE) /\ UNCHANGED mnexthop
               /\ nexthop[e.NHLFE] # Free
          \/ ~e.is_unicast /\ ReferenceMnexthop(e.NHLFE) /\ UNCHANGED nexthop
               /\ mnexthop[e.NHLFE] # Free
      BY <1>3 DEF ReferenceLabel, Found
    <3>3. CASE e.is_unicast = TRUE /\ e.NHLFE \in Nexthops
      <4>1. nexthop[e.NHLFE] # Free => Incremented(nexthop[e.NHLFE]) \in RefCounts
        BY <3>3, Counting
      <4> QED
        BY <3>2, <3>3, <4>1 DEF ReferenceNexthop
    <3>4. CASE e.is_unicast = FALSE /\ e.NHLFE \in Mnexthops
      <4> DEFINE m == e.NHLFE
      <4>1. CASE UNCHANGED mnexthop
        BY <3>2, <3>4, <4>1
      <4>2. CASE ReferenceMnexthop(m) /\ UNCHANGED nexthop /\ mnexthop[m] # Free
        <5>1. /\ mnexthop[m] \in MulticastNextHops
              /\ Incremented(mnexthop[m].ref_cnt) \in RefCounts
          BY <3>4, <4>2, Counting DEF MulticastNextHops
        <5>2. mnexthop' = [mnexthop EXCEPT
                 ![m] = [mnexthop[m] EXCEPT !.ref_cnt = Incremented(mnexthop[m].ref_cnt)]]
          BY <4>2 DEF ReferenceMnexthop
        <5> QED
          BY <3>4, <4>2, <5>1, <5>2, CountOfGroup
      <4> QED
        BY <3>2, <3>4, <4>1, <4>2
    <3> QED
      BY <3>1, <3>3, <3>4, EntryFields
  <2> QED
    BY <1>3, <2>2, <2>3 DEF ReferenceLabel, Call
<1> QED
  BY <1>1, <1>2, <1>3, ProcessAssumption DEF Processes

LEMMA PortCallsKeepType ==
  ASSUME SpineType, NEW p \in Pbps,
         \/ \E t \in Threads : RegisterPort(t, p) \/ UnregisterPort(t, p)
         \/ DetachPort(p)
  PROVE  SpineType'
<1>1. UNCHANGED <<nexthop, mnexthop, labels, call>>
  BY DEF RegisterPort, UnregisterPort, DetachPort
<1>2. state' \in [Pbps -> {"absent", "up", "dying"}]
  BY DEF RegisterPort, UnregisterPort, DetachPort, SpineType, TypeOK
<1>3. rcu' \in Seq(Pbps)
  <2>1. rcu \in Seq(Pbps)
    BY DEF SpineType, TypeOK
  <2>2. rcu' = rcu \/ rcu' = Append(rcu, p) \/ (rcu # <<>> /\ rcu' = Tail(rcu))
    BY DEF RegisterPort, UnregisterPort, DetachPort, TearsDown
  <2> QED
    BY <2>1, <2>2, AppendProperties, HeadTailProperties
<1> QED
  BY <1>1, <1>2, <1>3, UntouchedCalls DEF SpineType, TypeOK

\* The calls of Next, by what they do: the proofs follow these cases.
LEMMA StepCases ==
  ASSUME Next
  PROVE  \/ \E t \in Threads, h \in Nexthops :
              RegisterCommonNexthop(t, h) \/ DeleteCommonNexthop(t, h)
         \/ \E t \in Threads, m \in Mnexthops :
              \/ RegisterMulticastNexthop(t, m)
              \/ DeleteMulticastNexthop(t, m)
              \/ \E member \in Member :
                   \/ \E k \in Slots : RegisterNexthopInMnexthops(t, m, k, member)
                   \/ DeleteNexthopInMnexthops(t, m, member)
         \/ \E a \in Processes, p \in Pbps, b \in Labels : \E c : Unbind(a, p, b, c)
         \/ \E a \in Processes : /\ WriteLabel(a) \/ ReferenceLabel(a) \/ ClearLabel(a)
                                 /\ a = Rcu => ClearLabel(a)
         \/ \E p \in Pbps :
              \/ \E t \in Threads : RegisterPort(t, p) \/ UnregisterPort(t, p)
              \/ DetachPort(p)
<1>1. CASE RcuStep
  <2>1. Rcu \in Processes
    BY DEF Processes
  <2>2. CASE ClearLabel(Rcu)
    BY <2>1, <2>2
  <2>3. ASSUME NEW p \in Pbps, DetachPort(p) \/ \E b \in Labels : ReleaseLabel(p, b)
        PROVE  \/ DetachPort(p)
               \/ \E a \in Processes, b \in Labels : \E c : Unbind(a, p, b, c)
    BY <2>1, <2>3, CallsUnbind
  <2> QED
    BY <1>1, <2>2, <2>3 DEF RcuStep
<1>2. ASSUME NEW t \in Threads, Begin(t) \/ Continue(t)
      PROVE  \/ \E h \in Nexthops : RegisterCommonNexthop(t, h) \/ DeleteCommonNexthop(t, h)
             \/ \E m \in Mnexthops :
                  \/ RegisterMulticastNexthop(t, m)
                  \/ DeleteMulticastNexthop(t, m)
                  \/ \E member \in Member :
                       \/ \E k \in Slots : RegisterNexthopInMnexthops(t, m, k, member)
                       \/ DeleteNexthopInMnexthops(t, m, member)
             \/ \E p \in Pbps, b \in Labels : \E c : Unbind(t, p, b, c)
             \/ WriteLabel(t) \/ ReferenceLabel(t) \/ ClearLabel(t)
             \/ \E p \in Pbps : RegisterPort(t, p) \/ UnregisterPort(t, p)
  <2>1. CASE Continue(t)
    BY <2>1 DEF Continue
  <2>2. CASE Begin(t)
    BY <2>2, CallsUnbind DEF Begin
  <2> QED
    BY <1>2, <2>1, <2>2
<1>3. \A t \in Threads : t \in Processes /\ t # Rcu
  BY ProcessAssumption DEF Processes
<1> QED
  BY <1>1, <1>2, <1>3 DEF Next

LEMMA StepKeepsType == SpineType /\ [Next]_vars => SpineType'
<1> SUFFICES ASSUME SpineType, [Next]_vars PROVE SpineType'
  OBVIOUS
<1>1. CASE UNCHANGED vars
  BY <1>1, UntouchedCalls DEF vars, SpineType, TypeOK
<1>2. CASE Next
  BY <1>2, StepCases, NexthopCallsKeepType, GroupCallsKeepType, UnbindKeepsType,
     ContinueKeepsType, PortCallsKeepType
<1> QED
  BY <1>1, <1>2

(***************************************************************************)
(* Who holds references.                                                   *)
(***************************************************************************)
LEMMA CountsAreFinite ==
  /\ \A u, n : IsFiniteSet(Fibs(u, n)) /\ Cardinality(Fibs(u, n)) \in Nat
  /\ \A u, n : IsFiniteSet(Fibs(u, n)') /\ Cardinality(Fibs(u, n)') \in Nat
  /\ \A h : IsFiniteSet(Uses(h)) /\ Cardinality(Uses(h)) \in Nat
  /\ \A h : IsFiniteSet(Uses(h)') /\ Cardinality(Uses(h)') \in Nat
<1>1. \A S \in SUBSET Pbps : IsFiniteSet(S) /\ Cardinality(S) \in Nat
  BY PortsAssumption, FS_Subset, FS_CardinalityType
<1>2. IsFiniteSet(Mnexthops \X Slots)
  <2>1. MAX_MULTICAST_NEXT_HOPS - 1 \in Int /\ MAX_HOPS_IN_MULTICAST_GROUP - 1 \in Int
    BY SpineAssumption
  <2>2. IsFiniteSet(Mnexthops) /\ IsFiniteSet(Slots)
    BY <2>1, FS_Interval DEF Mnexthops, Slots
  <2> QED
    BY <2>2, FS_Product
<1>3. \A S \in SUBSET (Mnexthops \X Slots) : IsFiniteSet(S) /\ Cardinality(S) \in Nat
  BY <1>2, FS_Subset, FS_CardinalityType
<1>4. \A u, n : Fibs(u, n) \subseteq Pbps /\ Fibs(u, n)' \subseteq Pbps
  BY DEF Fibs
<1>5. \A h : Uses(h) \subseteq Mnexthops \X Slots /\ Uses(h)' \subseteq Mnexthops \X Slots
  BY DEF Uses
<1> QED
  BY <1>1, <1>3, <1>4, <1>5

\* The first critical section takes the label's share away.
LEMMA UnbindFibs ==
  ASSUME SpineType, NEW a \in Processes, NEW p \in Pbps, NEW b \in Labels, NEW c,
         Unbind(a, p, b, c), NEW u, NEW n
  PROVE  /\ labels[p][b] # Free /\ LeadsTo(labels[p][b], u, n) => p \in Fibs(u, n)
         /\ Fibs(u, n)' = IF /\ labels[p][b] # Free /\ IsOnlyLabel(p, b)
                             /\ LeadsTo(labels[p][b], u, n)
                          THEN Fibs(u, n) \ {p} ELSE Fibs(u, n)
<1>1. /\ labels' = labels /\ call'[a].iface = p /\ call'[a].index = b
      /\ \A o \in Processes \ {a} : call'[o] = call[o]
      /\ \A o \in Processes : call[o].iface # p
      /\ call[a].iface = None /\ a \in Processes
  BY DEF Unbind, SpineType, TypeOK, Unlocked, Idle
<1>2. \A d \in Labels : Settled(p, d) <=> labels[p][d] # Free
  BY <1>1 DEF Settled
<1>3. \A d \in Labels : Settled(p, d)' <=> labels[p][d] # Free /\ d # b
  BY <1>1 DEF Settled
<1>4. \A q \in Pbps \ {p}, d \in Labels : Settled(q, d)' <=> Settled(q, d)
  BY <1>1, ProcessAssumption DEF Settled
<1>5. \A q \in Pbps \ {p} : q \in Fibs(u, n)' <=> q \in Fibs(u, n)
  BY <1>1, <1>4 DEF Fibs
<1>6. p \in Fibs(u, n) <=> \E d \in Labels : labels[p][d] # Free /\ LeadsTo(labels[p][d], u, n)
  BY <1>2 DEF Fibs
<1>7. p \in Fibs(u, n)' <=>
        \E d \in Labels : labels[p][d] # Free /\ d # b /\ LeadsTo(labels[p][d], u, n)
  BY <1>1, <1>3 DEF Fibs
<1>8. LeadsTo(labels[p][b], u, n) =>
        (IsOnlyLabel(p, b) <=> \A d \in Labels \ {b} : ~LeadsTo(labels[p][d], u, n))
  BY DEF IsOnlyLabel, LeadsTo
<1>9. \A d \in Labels : LeadsTo(labels[p][d], u, n) => labels[p][d] # Free
  BY DEF LeadsTo
<1>10. Fibs(u, n) \subseteq Pbps /\ Fibs(u, n)' \subseteq Pbps
  BY DEF Fibs
<1> QED
  BY <1>5, <1>6, <1>7, <1>8, <1>9, <1>10

\* The label that a call works on, and nobody else does.
LEMMA TheCallsLabel ==
  ASSUME SpineType, NEW a \in Processes, NEW c, GoOn(a, c)
  PROVE  /\ call[a].iface \in Pbps /\ call[a].index \in Labels /\ call'[a] = c
         /\ \A o \in Processes \ {a} : call'[o] = call[o] /\ call[o].iface # call[a].iface
         /\ \A d \in Labels : Settled(call[a].iface, d) <=>
              labels[call[a].iface][d] # Free /\ d # call[a].index
<1>1. /\ call[a].iface \in Pbps /\ call[a].index \in Labels /\ call'[a] = c
      /\ \A o \in Processes \ {a} : call'[o] = call[o] /\ call[o].iface # call[a].iface
  BY ProcessAssumption DEF GoOn, Working, SpineType, TypeOK, Exclusive
<1> QED
  BY <1>1 DEF Settled

LEMMA OtherPortsFibs ==
  ASSUME SpineType, NEW a \in Processes, NEW c, GoOn(a, c), NEW p, p = call[a].iface,
         \A q \in Pbps \ {p} : labels'[q] = labels[q]
  PROVE  \A q \in Pbps \ {p} : \A u, n : q \in Fibs(u, n)' <=> q \in Fibs(u, n)
<1>1. /\ p \in Pbps /\ call'[a] = c
      /\ \A o \in Processes \ {a} : call'[o] = call[o]
  BY TheCallsLabel
<1>2. c.iface = None \/ c.iface = p
  BY DEF GoOn, Idle
<1>3. \A q \in Pbps \ {p}, d \in Labels : Settled(q, d)' <=> Settled(q, d)
  BY <1>1, <1>2, ProcessAssumption DEF Settled
<1> QED
  BY <1>3 DEF Fibs

\* Writing or clearing a label without a share changes nobody's references.
LEMMA PutFibs ==
  ASSUME SpineType, NEW a \in Processes, NEW c, GoOn(a, c),
         NEW e, Puts(a, e), c = Idle => e = Free, NEW u, NEW n
  PROVE  Fibs(u, n)' = Fibs(u, n)
<1> PICK p, b : p = call[a].iface /\ b = call[a].index
  OBVIOUS
<1>1. /\ p \in Pbps /\ b \in Labels /\ call'[a] = c
      /\ \A o \in Processes \ {a} : call'[o] = call[o] /\ call[o].iface # p
      /\ \A d \in Labels : Settled(p, d) <=> labels[p][d] # Free /\ d # b
  BY TheCallsLabel
<1>2. /\ labels'[p][b] = e /\ \A d \in Labels \ {b} : labels'[p][d] = labels[p][d]
      /\ \A q \in Pbps \ {p} : labels'[q] = labels[q]
  BY <1>1 DEF Puts, SpineType, TypeOK
<1>3. \A d \in Labels : Settled(p, d)' <=> Settled(p, d)
  <2>1. CASE c = Idle
    <3>1. e = Free /\ c.iface # p
      BY <1>1, <2>1, ProcessAssumption DEF Idle
    <3>2. \A d \in Labels : Settled(p, d)' <=> labels'[p][d] # Free
      BY <1>1, <3>1 DEF Settled
    <3> QED
      BY <1>1, <1>2, <3>1, <3>2
  <2>2. CASE c # Idle
    <3>1. c.iface = p /\ c.index = b
      BY <2>2 DEF GoOn
    <3>2. \A d \in Labels : Settled(p, d)' <=> labels'[p][d] # Free /\ d # b
      BY <1>1, <3>1 DEF Settled
    <3> QED
      BY <1>1, <1>2, <3>2
  <2> QED
    BY <2>1, <2>2
<1>4. p \in Fibs(u, n)' <=> p \in Fibs(u, n)
  BY <1>1, <1>2, <1>3 DEF Fibs
<1>5. \A q \in Pbps \ {p} : q \in Fibs(u, n)' <=> q \in Fibs(u, n)
  BY <1>2, OtherPortsFibs
<1>6. Fibs(u, n) \subseteq Pbps /\ Fibs(u, n)' \subseteq Pbps
  BY DEF Fibs
<1> QED
  BY <1>4, <1>5, <1>6

\* The last critical section gives the label its share.
LEMMA ReferenceFibs ==
  ASSUME SpineType, NEW a \in Processes, GoOn(a, Idle), labels' = labels,
         call[a].pc = "reference", NEW u, NEW n,
         NEW p, NEW b, NEW e,
         p = call[a].iface, b = call[a].index, e = call[a].entry
  PROVE  /\ labels[p][b] = e /\ e \in LabelEntry
         /\ Fibs(u, n)' = IF LeadsTo(e, u, n) THEN Fibs(u, n) \cup {p} ELSE Fibs(u, n)
         /\ LeadsTo(e, u, n) => (IsOnlyLabel(p, b) <=> p \notin Fibs(u, n))
<1>1. /\ p \in Pbps /\ b \in Labels /\ call'[a] = Idle
      /\ \A o \in Processes \ {a} : call'[o] = call[o] /\ call[o].iface # p
      /\ \A d \in Labels : Settled(p, d) <=> labels[p][d] # Free /\ d # b
  BY TheCallsLabel
<1>2. labels[p][b] = e /\ e \in LabelEntry
  BY DEF SpineType, CallsInv, Working, Idle
<1>3. \A d \in Labels : Settled(p, d)' <=> labels[p][d] # Free
  BY <1>1, ProcessAssumption DEF Settled, Idle
<1>4. e # Free
  BY <1>2, FreeAssumption
<1>5. p \in Fibs(u, n) <=>
        \E d \in Labels \ {b} : labels[p][d] # Free /\ LeadsTo(labels[p][d], u, n)
  BY <1>1 DEF Fibs
<1>6. p \in Fibs(u, n)' <=>
        \E d \in Labels : labels[p][d] # Free /\ LeadsTo(labels[p][d], u, n)
  BY <1>1, <1>3 DEF Fibs
<1>7. LeadsTo(e, u, n) =>
        (IsOnlyLabel(p, b) <=> \A d \in Labels \ {b} : ~LeadsTo(labels[p][d], u, n))
  BY <1>2 DEF IsOnlyLabel, LeadsTo
<1>8. \A d \in Labels : LeadsTo(labels[p][d], u, n) => labels[p][d] # Free
  BY DEF LeadsTo
<1>9. \A q \in Pbps \ {p} : q \in Fibs(u, n)' <=> q \in Fibs(u, n)
  BY OtherPortsFibs
<1>10. Fibs(u, n) \subseteq Pbps /\ Fibs(u, n)' \subseteq Pbps
  BY DEF Fibs
<1>11. LeadsTo(e, u, n) => (IsOnlyLabel(p, b) <=> p \notin Fibs(u, n))
  BY <1>5, <1>7, <1>8
<1>12. Fibs(u, n)' = IF LeadsTo(e, u, n) THEN Fibs(u, n) \cup {p} ELSE Fibs(u, n)
  <2>1. p \in Fibs(u, n)' <=> p \in Fibs(u, n) \/ LeadsTo(e, u, n)
    BY <1>1, <1>2, <1>4, <1>5, <1>6
  <2> QED
    BY <1>1, <1>9, <1>10, <2>1
<1> QED
  BY <1>2, <1>11, <1>12

(***************************************************************************)
(* The counts.                                                             *)
(***************************************************************************)
LEMMA SameFibs ==
  ASSUME UNCHANGED <<labels, call>>
  PROVE  \A u, n : Fibs(u, n)' = Fibs(u, n)
BY DEF Fibs, Settled

\* The members of every group stay.
SameMembers ==
  \A m \in Mnexthops :
    /\ mnexthop'[m] = Free <=> mnexthop[m] = Free
    /\ mnexthop[m] # Free => mnexthop'[m].nexthops = mnexthop[m].nexthops

LEMMA SameUses == SameMembers => \A h : Uses(h)' = Uses(h)
BY DEF SameMembers, Uses, Members

\* The numbers that the counts are to equal.
NrMembers(h)     == Cardinality(Uses(h))
NrUnicastFibs(h) == Cardinality(Fibs(TRUE, h))
NrGroupFibs(m)   == Cardinality(Fibs(FALSE, m))

NexthopCounted ==
  \A h \in Nexthops :
    IF nexthop[h] = Free THEN NrMembers(h) = 0 /\ NrUnicastFibs(h) = 0
                         ELSE nexthop[h] = NrMembers(h) + NrUnicastFibs(h)

MnexthopCounted ==
  \A m \in Mnexthops :
    IF mnexthop[m] = Free THEN NrGroupFibs(m) = 0 ELSE mnexthop[m].ref_cnt = NrGroupFibs(m)

LEMMA NumbersAreNat ==
  /\ \A h : NrMembers(h) \in Nat /\ NrUnicastFibs(h) \in Nat /\ NrGroupFibs(h) \in Nat
  /\ \A h : NrMembers(h)' \in Nat /\ NrUnicastFibs(h)' \in Nat /\ NrGroupFibs(h)' \in Nat
BY CountsAreFinite DEF NrMembers, NrUnicastFibs, NrGroupFibs

\* A port refers to a group at most once.
LEMMA FewFibs == \A m : NrGroupFibs(m)' < RefModulus
<1>1. \A m : Fibs(FALSE, m)' \subseteq Pbps
  BY DEF Fibs
<1>2. \A m : NrGroupFibs(m)' <= Cardinality(Pbps)
  BY <1>1, PortsAssumption, FS_Subset DEF NrGroupFibs
<1>3. Cardinality(Pbps) \in Nat
  BY PortsAssumption, FS_CardinalityType
<1> QED
  BY <1>2, <1>3, NumbersAreNat, WidthAssumption

LEMMA CountedIsAccounting ==
  /\ NexthopCounted <=> NexthopAccounting
  /\ MnexthopCounted <=> MnexthopAccounting
<1>1. \A i, j \in Nat : i + j = 0 <=> i = 0 /\ j = 0
  OBVIOUS
<1>2. NexthopCounted <=> NexthopAccounting
  BY <1>1, NumbersAreNat DEF NexthopCounted, NexthopAccounting, NrMembers, NrUnicastFibs
<1>3. \A m : NrGroupFibs(m) = 0 <=> Fibs(FALSE, m) = {}
  BY CountsAreFinite, FS_EmptySet DEF NrGroupFibs
<1>4. MnexthopCounted <=> MnexthopAccounting
  BY <1>3 DEF MnexthopCounted, MnexthopAccounting, NrGroupFibs
<1> QED
  BY <1>2, <1>4

\* No ref_cnt comes round to 0: a next hop has fewer uses than 16 bits count.
NoOverflow == \A h \in Nexthops : NrMembers(h) + NrUnicastFibs(h) < RefModulus

\* Unless one does, the counts of next hops stay exact.  Those of groups stay
\* exact anyway, for there are fewer ports than 16 bits count.
NexthopsFollow == NexthopCounted /\ NoOverflow' => NexthopCounted'

LEMMA CountedIsAccountingNext ==
  /\ NexthopCounted' <=> NexthopAccounting'
  /\ MnexthopCounted' <=> MnexthopAccounting'
BY CountedIsAccounting, PTL

LEMMA NexthopCallsKeepCounts ==
  ASSUME SpineInv, NEW t \in Threads,
         \E h \in Nexthops : RegisterCommonNexthop(t, h) \/ DeleteCommonNexthop(t, h)
  PROVE  NexthopsFollow /\ MnexthopCounted'
<1>1. PICK h \in Nexthops : RegisterCommonNexthop(t, h) \/ DeleteCommonNexthop(t, h)
  OBVIOUS
<1>2. /\ UNCHANGED <<mnexthop, labels, call>>
      /\ \/ nexthop[h] = Free /\ nexthop' = [nexthop EXCEPT ![h] = 0]
         \/ nexthop[h] = 0 /\ nexthop' = [nexthop EXCEPT ![h] = Free]
  BY <1>1 DEF RegisterCommonNexthop, DeleteCommonNexthop
<1>3. \A u, n : Fibs(u, n)' = Fibs(u, n)
  BY <1>2, SameFibs
<1>4. \A g : Uses(g)' = Uses(g)
  BY <1>2, SameUses DEF SameMembers
<1>5. MnexthopAccounting'
  BY <1>2, <1>3 DEF SpineInv, MnexthopAccounting
<1>6. ASSUME NexthopAccounting PROVE NexthopAccounting'
  BY <1>2, <1>3, <1>4, <1>6, FreeAssumption DEF SpineInv, SpineType, TypeOK, NexthopAccounting
<1> QED
  BY <1>5, <1>6, CountedIsAccounting, CountedIsAccountingNext DEF NexthopsFollow

LEMMA OneLess ==
  ASSUME NEW S, NEW T, NEW x \in S, IsFiniteSet(S), T = S \ {x}
  PROVE  /\ Cardinality(S) \in Nat /\ Cardinality(T) \in Nat
         /\ Cardinality(T) = Cardinality(S) - 1 /\ Cardinality(S) > 0
<1>1. IsFiniteSet(T) /\ Cardinality(T) = Cardinality(S) - 1
  BY FS_RemoveElement
<1>2. Cardinality(S) \in Nat /\ Cardinality(T) \in Nat
  BY <1>1, FS_CardinalityType
<1> QED
  BY <1>1, <1>2

LEMMA OneMore ==
  ASSUME NEW S, NEW T, NEW x, x \notin S, IsFiniteSet(S), T = S \cup {x}
  PROVE  /\ Cardinality(S) \in Nat /\ Cardinality(T) \in Nat
         /\ Cardinality(T) = Cardinality(S) + 1
<1>1. IsFiniteSet(T) /\ Cardinality(T) = Cardinality(S) + 1
  BY FS_AddElement
<1>2. Cardinality(S) \in Nat /\ Cardinality(T) \in Nat
  BY <1>1, FS_CardinalityType
<1> QED
  BY <1>1, <1>2

\* What a step does to the numbers: the port p no longer, or from now on, has a
\* settled label to what the entry e leads to.
Loses(e) ==
  \A n : /\ NrUnicastFibs(n)' =
              IF LeadsTo(e, TRUE, n) THEN NrUnicastFibs(n) - 1 ELSE NrUnicastFibs(n)
         /\ LeadsTo(e, TRUE, n) => NrUnicastFibs(n) > 0
         /\ NrGroupFibs(n)' =
              IF LeadsTo(e, FALSE, n) THEN NrGroupFibs(n) - 1 ELSE NrGroupFibs(n)
         /\ LeadsTo(e, FALSE, n) => NrGroupFibs(n) > 0

Gains(e) ==
  \A n : /\ NrUnicastFibs(n)' =
              IF LeadsTo(e, TRUE, n) THEN NrUnicastFibs(n) + 1 ELSE NrUnicastFibs(n)
         /\ NrGroupFibs(n)' =
              IF LeadsTo(e, FALSE, n) THEN NrGroupFibs(n) + 1 ELSE NrGroupFibs(n)

SameFibNumbers ==
  \A n : NrUnicastFibs(n)' = NrUnicastFibs(n) /\ NrGroupFibs(n)' = NrGroupFibs(n)

LEMMA SameFibsSameNumbers ==
  (\A u, n : Fibs(u, n)' = Fibs(u, n)) => SameFibNumbers
BY DEF SameFibNumbers, NrUnicastFibs, NrGroupFibs

LEMMA FibsLose ==
  ASSUME NEW e, NEW p,
         \A u, n : Fibs(u, n)' = IF LeadsTo(e, u, n) THEN Fibs(u, n) \ {p} ELSE Fibs(u, n),
         \A u, n : LeadsTo(e, u, n) => p \in Fibs(u, n)
  PROVE  Loses(e)
<1>1. ASSUME NEW u, NEW n
      PROVE  /\ Cardinality(Fibs(u, n)') =
                  IF LeadsTo(e, u, n) THEN Cardinality(Fibs(u, n)) - 1
                                      ELSE Cardinality(Fibs(u, n))
             /\ LeadsTo(e, u, n) => Cardinality(Fibs(u, n)) > 0
  <2>1. CASE LeadsTo(e, u, n)
    <3>1. IsFiniteSet(Fibs(u, n)) /\ p \in Fibs(u, n) /\ Fibs(u, n)' = Fibs(u, n) \ {p}
      BY <2>1, CountsAreFinite
    <3> QED
      BY <2>1, <3>1, OneLess
  <2>2. CASE ~LeadsTo(e, u, n)
    BY <2>2
  <2> QED
    BY <2>1, <2>2
<1> QED
  BY <1>1 DEF Loses, NrUnicastFibs, NrGroupFibs

LEMMA FibsGain ==
  ASSUME NEW e, NEW p,
         \A u, n : Fibs(u, n)' = IF LeadsTo(e, u, n) THEN Fibs(u, n) \cup {p} ELSE Fibs(u, n),
         \A u, n : LeadsTo(e, u, n) => p \notin Fibs(u, n)
  PROVE  Gains(e)
<1>1. ASSUME NEW u, NEW n
      PROVE  Cardinality(Fibs(u, n)') =
                  IF LeadsTo(e, u, n) THEN Cardinality(Fibs(u, n)) + 1
                                      ELSE Cardinality(Fibs(u, n))
  <2>1. CASE LeadsTo(e, u, n)
    <3>1. IsFiniteSet(Fibs(u, n)) /\ p \notin Fibs(u, n) /\ Fibs(u, n)' = Fibs(u, n) \cup {p}
      BY <2>1, CountsAreFinite
    <3> QED
      BY <2>1, <3>1, OneMore
  <2>2. CASE ~LeadsTo(e, u, n)
    BY <2>2
  <2> QED
    BY <2>1, <2>2
<1> QED
  BY <1>1 DEF Gains, NrUnicastFibs, NrGroupFibs

LEMMA SameMemberNumbers == SameMembers => \A h : NrMembers(h)' = NrMembers(h)
BY SameUses DEF NrMembers

LEMMA LeadsToOne ==
  ASSUME NEW e \in LabelEntry
  PROVE  /\ e.is_unicast = TRUE => \A n : (LeadsTo(e, TRUE, n) <=> n = e.NHLFE) /\ ~LeadsTo(e, FALSE, n)
         /\ e.is_unicast = FALSE => \A n : (LeadsTo(e, FALSE, n) <=> n = e.NHLFE) /\ ~LeadsTo(e, TRUE, n)
BY FreeAssumption DEF LeadsTo

\* A reference less, and the count of what was referenced follows.
LEMMA DereferenceCounts ==
  ASSUME SpineInv, NEW e \in LabelEntry, Loses(e), Dereference(e)
  PROVE  NexthopsFollow /\ MnexthopCounted'
<1> USE NumbersAreNat
<1>0. MnexthopCounted /\ TypeOK
  BY CountedIsAccounting DEF SpineInv, SpineType
<1>1. CASE e.is_unicast = TRUE /\ e.NHLFE \in Nexthops
  <2> DEFINE g == e.NHLFE
  <2>1. DereferenceNexthop(g) /\ mnexthop' = mnexthop
    BY <1>1 DEF Dereference
  <2>2. /\ NrUnicastFibs(g)' = NrUnicastFibs(g) - 1 /\ NrUnicastFibs(g) > 0
        /\ \A h \in Nexthops \ {g} : NrUnicastFibs(h)' = NrUnicastFibs(h)
        /\ \A m : NrGroupFibs(m)' = NrGroupFibs(m)
    BY <1>1, LeadsToOne DEF Loses
  <2>3. \A h : NrMembers(h)' = NrMembers(h)
    BY <2>1, SameMemberNumbers DEF SameMembers
  <2>6. ASSUME NexthopCounted PROVE NexthopCounted'
    <3>1. nexthop[g] = NrMembers(g) + NrUnicastFibs(g) /\ nexthop[g] \notin {Free, 0}
      BY <1>1, <2>2, <2>6, FreeAssumption DEF NexthopCounted
    <3>2. /\ nexthop'[g] = NrMembers(g)' + NrUnicastFibs(g)'
          /\ nexthop'[g] # Free
          /\ \A h \in Nexthops \ {g} : nexthop'[h] = nexthop[h]
      <4>1. /\ nexthop'[g] = nexthop[g] - 1
            /\ \A h \in Nexthops \ {g} : nexthop'[h] = nexthop[h]
        BY <1>0, <1>1, <2>1, <3>1 DEF DereferenceNexthop, TypeOK
      <4>2. nexthop'[g] = NrMembers(g)' + NrUnicastFibs(g)' /\ nexthop'[g] \in Nat
        BY <2>2, <2>3, <3>1, <4>1
      <4> QED
        BY <4>1, <4>2, FreeAssumption
    <3> HIDE DEF g
    <3> QED
      BY <2>2, <2>3, <2>6, <3>2 DEF NexthopCounted
  <2>7. MnexthopCounted'
    BY <1>0, <2>1, <2>2 DEF MnexthopCounted
  <2> QED
    BY <2>6, <2>7 DEF NexthopsFollow
<1>2. CASE e.is_unicast = FALSE /\ e.NHLFE \in Mnexthops
  <2> DEFINE g == e.NHLFE
  <2>1. DereferenceMnexthop(g) /\ nexthop' = nexthop
    BY <1>2 DEF Dereference
  <2>2. /\ NrGroupFibs(g)' = NrGroupFibs(g) - 1 /\ NrGroupFibs(g) > 0
        /\ \A m \in Mnexthops \ {g} : NrGroupFibs(m)' = NrGroupFibs(m)
        /\ \A h : NrUnicastFibs(h)' = NrUnicastFibs(h)
    BY <1>2, LeadsToOne DEF Loses
  <2>3. /\ mnexthop[g] # Free /\ mnexthop[g].ref_cnt = NrGroupFibs(g)
        /\ mnexthop[g] \in MulticastNextHops
    BY <1>0, <1>2, <2>2 DEF MnexthopCounted, TypeOK
  <2>4. mnexthop' = [mnexthop EXCEPT
                       ![g] = [mnexthop[g] EXCEPT !.ref_cnt = NrGroupFibs(g)']]
    BY <2>1, <2>2, <2>3 DEF DereferenceMnexthop
  <2>5. /\ mnexthop'[g] # Free /\ mnexthop'[g].ref_cnt = NrGroupFibs(g)'
        /\ mnexthop'[g].nexthops = mnexthop[g].nexthops
        /\ \A o \in Mnexthops \ {g} : mnexthop'[o] = mnexthop[o]
    <3>1. PICK n : n = NrGroupFibs(g)'
      OBVIOUS
    <3>2. mnexthop' = [mnexthop EXCEPT ![g] = [mnexthop[g] EXCEPT !.ref_cnt = n]]
      BY <2>4, <3>1
    <3>0. n \in RefCounts
      <4>1. /\ mnexthop[g].ref_cnt \in RefCounts /\ mnexthop[g].ref_cnt # 0
            /\ n = mnexthop[g].ref_cnt - 1
        BY <2>2, <2>3, <3>1 DEF MulticastNextHops
      <4> QED
        BY <4>1, Counting
    <3>3. /\ mnexthop'[g] # Free /\ mnexthop'[g].ref_cnt = n
          /\ mnexthop'[g].nexthops = mnexthop[g].nexthops
          /\ \A o \in Mnexthops \ {g} : mnexthop'[o] = mnexthop[o]
      BY <1>0, <1>2, <2>3, <3>0, <3>2, CountOfGroup DEF TypeOK
    <3> QED
      BY <3>1, <3>3
  <2>6. MnexthopCounted'
    BY <1>0, <2>2, <2>5 DEF MnexthopCounted
  <2>7. \A h : NrMembers(h)' = NrMembers(h)
    BY <2>3, <2>5, SameMemberNumbers DEF SameMembers
  <2>8. NexthopsFollow
    BY <2>1, <2>2, <2>7 DEF NexthopsFollow, NexthopCounted
  <2> QED
    BY <2>6, <2>8
<1> QED
  BY <1>1, <1>2, EntryFields

\* A reference more.
LEMMA ReferenceCounts ==
  ASSUME SpineInv, NEW e \in LabelEntry, Gains(e), Found(e),
         \/ e.is_unicast /\ ReferenceNexthop(e.NHLFE) /\ UNCHANGED mnexthop
         \/ ~e.is_unicast /\ ReferenceMnexthop(e.NHLFE) /\ UNCHANGED nexthop
  PROVE  NexthopsFollow /\ MnexthopCounted'
<1> USE NumbersAreNat
<1>0. MnexthopCounted /\ TypeOK
  BY CountedIsAccounting DEF SpineInv, SpineType
<1>1. CASE e.is_unicast = TRUE /\ e.NHLFE \in Nexthops
  <2> DEFINE g == e.NHLFE
  <2>1. ReferenceNexthop(g) /\ mnexthop' = mnexthop /\ nexthop[g] # Free
    BY <1>1 DEF Found
  <2>2. /\ NrUnicastFibs(g)' = NrUnicastFibs(g) + 1
        /\ \A h \in Nexthops \ {g} : NrUnicastFibs(h)' = NrUnicastFibs(h)
        /\ \A m : NrGroupFibs(m)' = NrGroupFibs(m)
    BY <1>1, LeadsToOne DEF Gains
  <2>3. \A h : NrMembers(h)' = NrMembers(h)
    BY <2>1, SameMemberNumbers DEF SameMembers
  <2>6. ASSUME NexthopCounted, NoOverflow' PROVE NexthopCounted'
    <3>1. nexthop[g] = NrMembers(g) + NrUnicastFibs(g) /\ nexthop[g] \in RefCounts
      BY <1>0, <1>1, <2>1, <2>6 DEF NexthopCounted, TypeOK
    <3>2. NrMembers(g)' + NrUnicastFibs(g)' < RefModulus
      BY <1>1, <2>6 DEF NoOverflow
    <3>3. Incremented(nexthop[g]) = nexthop[g] + 1
      BY <2>2, <2>3, <3>1, <3>2, Counting
    <3>4. /\ nexthop'[g] = nexthop[g] + 1
          /\ \A h \in Nexthops \ {g} : nexthop'[h] = nexthop[h]
      BY <1>0, <1>1, <2>1, <3>3 DEF ReferenceNexthop, TypeOK
    <3>5. nexthop'[g] = NrMembers(g)' + NrUnicastFibs(g)' /\ nexthop'[g] \in Nat
      BY <2>2, <2>3, <3>1, <3>4
    <3>6. nexthop'[g] # Free
      BY <3>5, FreeAssumption
    <3> HIDE DEF g
    <3> QED
      BY <2>2, <2>3, <2>6, <3>4, <3>5, <3>6 DEF NexthopCounted
  <2>7. MnexthopCounted'
    BY <1>0, <2>1, <2>2 DEF MnexthopCounted
  <2> QED
    BY <2>6, <2>7 DEF NexthopsFollow
<1>2. CASE e.is_unicast = FALSE /\ e.NHLFE \in Mnexthops
  <2> DEFINE g == e.NHLFE
  <2>1. ReferenceMnexthop(g) /\ nexthop' = nexthop /\ mnexthop[g] # Free
    BY <1>2 DEF Found
  <2>2. /\ NrGroupFibs(g)' = NrGroupFibs(g) + 1
        /\ \A m \in Mnexthops \ {g} : NrGroupFibs(m)' = NrGroupFibs(m)
        /\ \A h : NrUnicastFibs(h)' = NrUnicastFibs(h)
    BY <1>2, LeadsToOne DEF Gains
  <2>3. mnexthop[g].ref_cnt = NrGroupFibs(g)
    BY <1>0, <1>2, <2>1 DEF MnexthopCounted
  <2>5. /\ mnexthop'[g] # Free /\ mnexthop'[g].ref_cnt = NrGroupFibs(g)'
        /\ mnexthop'[g].nexthops = mnexthop[g].nexthops
        /\ \A o \in Mnexthops \ {g} : mnexthop'[o] = mnexthop[o]
    <3>1. PICK n : n = NrGroupFibs(g)'
      OBVIOUS
    <3>0. n < RefModulus /\ n = mnexthop[g].ref_cnt + 1
      BY <2>2, <2>3, <3>1, FewFibs
    <3>2. /\ n = Incremented(mnexthop[g].ref_cnt) /\ n \in RefCounts
      <4>1. mnexthop[g].ref_cnt \in RefCounts
        BY <1>0, <1>2, <2>1 DEF TypeOK, MulticastNextHops
      <4> QED
        BY <3>0, <4>1, Counting
    <3>4. mnexthop' = [mnexthop EXCEPT ![g] = [mnexthop[g] EXCEPT !.ref_cnt = n]]
      BY <2>1, <3>2 DEF ReferenceMnexthop
    <3>3. /\ mnexthop'[g] # Free /\ mnexthop'[g].ref_cnt = n
          /\ mnexthop'[g].nexthops = mnexthop[g].nexthops
          /\ \A o \in Mnexthops \ {g} : mnexthop'[o] = mnexthop[o]
      BY <1>0, <1>2, <2>1, <3>2, <3>4, CountOfGroup DEF TypeOK
    <3> QED
      BY <3>1, <3>3
  <2>6. MnexthopCounted'
    BY <1>0, <2>2, <2>5 DEF MnexthopCounted
  <2>7. \A h : NrMembers(h)' = NrMembers(h)
    BY <2>1, <2>5, SameMemberNumbers DEF SameMembers
  <2>8. NexthopsFollow
    BY <2>1, <2>2, <2>7 DEF NexthopsFollow, NexthopCounted
  <2> QED
    BY <2>6, <2>8
<1> QED
  BY <1>1, <1>2, EntryFields

\* Nothing is referenced or dereferenced, and nobody begins or ceases to refer.
LEMMA NothingCounts ==
  ASSUME SpineInv, SameFibNumbers, UNCHANGED <<nexthop, mnexthop>>
  PROVE  NexthopsFollow /\ MnexthopCounted'
<1>1. \A h : NrMembers(h)' = NrMembers(h)
  BY SameMemberNumbers DEF SameMembers
<1> QED
  BY <1>1, CountedIsAccounting
     DEF SpineInv, SameFibNumbers, NexthopsFollow, NexthopCounted, MnexthopCounted

LEMMA UnbindKeepsCounts ==
  ASSUME SpineInv, NEW a \in Processes, NEW p \in Pbps, NEW b \in Labels, NEW c,
         Unbind(a, p, b, c)
  PROVE  NexthopsFollow /\ MnexthopCounted'
<1> PICK e : e = labels[p][b]
  OBVIOUS
<1>1. Release(p, b) /\ SpineType
  BY DEF Unbind, SpineInv
<1>2. CASE ~(e # Free /\ IsOnlyLabel(p, b))
  <2>1. UNCHANGED <<nexthop, mnexthop>>
    BY <1>1, <1>2 DEF Release
  <2>2. \A u, n : Fibs(u, n)' = Fibs(u, n)
    BY <1>1, <1>2, UnbindFibs
  <2> QED
    BY <2>1, <2>2, SameFibsSameNumbers, NothingCounts
<1>3. CASE e # Free /\ IsOnlyLabel(p, b)
  <2>1. Dereference(e) /\ e \in LabelEntry
    BY <1>1, <1>3 DEF Release, SpineType, TypeOK
  <2>2. \A u, n : Fibs(u, n)' = IF LeadsTo(e, u, n) THEN Fibs(u, n) \ {p} ELSE Fibs(u, n)
    BY <1>1, <1>3, UnbindFibs
  <2>3. \A u, n : LeadsTo(e, u, n) => p \in Fibs(u, n)
    BY <1>1, <1>3, UnbindFibs
  <2>4. Loses(e)
    BY <2>2, <2>3, FibsLose
  <2> QED
    BY <2>1, <2>4, DereferenceCounts
<1> QED
  BY <1>2, <1>3

LEMMA ContinueKeepsCounts ==
  ASSUME SpineInv, NEW a \in Processes, WriteLabel(a) \/ ReferenceLabel(a) \/ ClearLabel(a),
         a = Rcu => ClearLabel(a)
  PROVE  NexthopsFollow /\ MnexthopCounted'
<1>0. SpineType
  BY DEF SpineInv
<1>1. CASE WriteLabel(a) /\ a \in Threads
  <2>1. PICK c : GoOn(a, c) /\ c # Idle /\ Puts(a, c.entry)
    BY <1>0, <1>1, WriteGoesOn
  <2>2. \A u, n : Fibs(u, n)' = Fibs(u, n)
    BY <1>0, <2>1, PutFibs
  <2> QED
    BY <1>1, <2>2, SameFibsSameNumbers, NothingCounts DEF WriteLabel
<1>2. CASE ClearLabel(a)
  <2>1. GoOn(a, Idle) /\ Puts(a, Free)
    BY <1>0, <1>2, EndGoesOn DEF ClearLabel, Puts
  <2>2. \A u, n : Fibs(u, n)' = Fibs(u, n)
    BY <1>0, <2>1, PutFibs
  <2> QED
    BY <1>2, <2>2, SameFibsSameNumbers, NothingCounts DEF ClearLabel
<1>3. CASE ReferenceLabel(a)
  <2> PICK p, b, e : p = call[a].iface /\ b = call[a].index /\ e = call[a].entry
    OBVIOUS
  <2>1. GoOn(a, Idle) /\ call[a].pc = "reference"
    BY <1>0, <1>3, EndGoesOn DEF ReferenceLabel
  <2>2. CASE labels' = labels
    <3>1. /\ e \in LabelEntry
          /\ \A u, n : Fibs(u, n)' = IF LeadsTo(e, u, n) THEN Fibs(u, n) \cup {p} ELSE Fibs(u, n)
          /\ \A u, n : LeadsTo(e, u, n) => (IsOnlyLabel(p, b) <=> p \notin Fibs(u, n))
      BY <1>0, <2>1, <2>2, ReferenceFibs
    <3>2. CASE IsOnlyLabel(p, b) /\ Found(e)
      <4>1. Gains(e)
        BY <3>1, <3>2, FibsGain
      <4>2. \/ e.is_unicast /\ ReferenceNexthop(e.NHLFE) /\ UNCHANGED mnexthop
            \/ ~e.is_unicast /\ ReferenceMnexthop(e.NHLFE) /\ UNCHANGED nexthop
        BY <1>3, <3>2 DEF ReferenceLabel
      <4> QED
        BY <3>1, <3>2, <4>1, <4>2, ReferenceCounts
    <3>3. CASE ~IsOnlyLabel(p, b)
      <4>1. UNCHANGED <<nexthop, mnexthop>>
        BY <1>3, <3>3 DEF ReferenceLabel
      <4>2. \A u, n : Fibs(u, n)' = Fibs(u, n)
        BY <3>1, <3>3
      <4> QED
        BY <4>1, <4>2, SameFibsSameNumbers, NothingCounts
    <3>4. CASE IsOnlyLabel(p, b) /\ ~Found(e)
      <4>1. labels' = [labels EXCEPT ![p][b] = Free] /\ labels[p][b] = e /\ e # Free
        BY <1>3, <2>1, <3>1, <3>4, FreeAssumption DEF ReferenceLabel, SpineInv, SpineType, CallsInv
      <4>2. p \in Pbps /\ b \in Labels
        BY <2>1 DEF GoOn, Working
      <4>3. labels'[p][b] = Free
        BY <1>0, <4>1, <4>2 DEF SpineType, TypeOK
      <4> QED
        BY <2>2, <4>1, <4>3
    <3> QED
      BY <3>2, <3>3, <3>4
  <2>3. CASE labels' # labels
    <3>1. Puts(a, Free) /\ UNCHANGED <<nexthop, mnexthop>>
      BY <1>3, <2>3 DEF ReferenceLabel, Puts
    <3>2. \A u, n : Fibs(u, n)' = Fibs(u, n)
      BY <1>0, <2>1, <3>1, PutFibs
    <3> QED
      BY <3>1, <3>2, SameFibsSameNumbers, NothingCounts
  <2> QED
    BY <2>2, <2>3
<1> QED
  BY <1>1, <1>2, <1>3, ProcessAssumption DEF Processes

(***************************************************************************)
(* Groups and their members.                                               *)
(***************************************************************************)
LEMMA UsesOfGroups ==
  \A h, m, k : <<m, k>> \in Uses(h) <=>
    /\ m \in Mnexthops /\ k \in Slots /\ mnexthop[m] # Free
    /\ mnexthop[m].nexthops[k] # Free /\ mnexthop[m].nexthops[k].next_hop = h
BY DEF Uses, Members

LEMMA UsesArePairs ==
  \A h : /\ Uses(h) \subseteq Mnexthops \X Slots
         /\ Uses(h)' \subseteq Mnexthops \X Slots
BY DEF Uses

\* A new group has no member.
LEMMA RegisterGroupKeepsCounts ==
  ASSUME SpineInv, NEW t \in Threads, NEW m \in Mnexthops, RegisterMulticastNexthop(t, m)
  PROVE  NexthopsFollow /\ MnexthopCounted'
<1>1. /\ mnexthop[m] = Free /\ UNCHANGED <<nexthop, labels, call>>
      /\ mnexthop' = [mnexthop EXCEPT
                        ![m] = [nexthops |-> [k \in Slots |-> Free], ref_cnt |-> 0]]
      /\ mnexthop \in [Mnexthops -> MulticastNextHops \cup {Free}]
  BY DEF RegisterMulticastNexthop, IsFirst, SpineInv, SpineType, TypeOK
<1>2. [nexthops |-> [k \in Slots |-> Free], ref_cnt |-> 0] # Free
  <2>1. [nexthops |-> [k \in Slots |-> Free], ref_cnt |-> 0] \in MulticastNextHops
    BY ZeroIsACount DEF MulticastNextHops
  <2> QED
    BY <2>1, FreeAssumption
<1>3. /\ mnexthop'[m] # Free /\ mnexthop'[m].ref_cnt = 0
      /\ \A k \in Slots : mnexthop'[m].nexthops[k] = Free
      /\ \A o \in Mnexthops \ {m} : mnexthop'[o] = mnexthop[o]
  BY <1>1, <1>2
<1>4. \A h, o, k : <<o, k>> \in Uses(h)' <=> <<o, k>> \in Uses(h)
  <2>1. \A h, o, k : <<o, k>> \in Uses(h)' <=>
          /\ o \in Mnexthops /\ k \in Slots /\ mnexthop'[o] # Free
          /\ mnexthop'[o].nexthops[k] # Free /\ mnexthop'[o].nexthops[k].next_hop = h
    BY DEF Uses, Members
  <2>2. ASSUME NEW h, NEW k PROVE <<m, k>> \notin Uses(h)' /\ <<m, k>> \notin Uses(h)
    BY <1>1, <1>3, <2>1, UsesOfGroups
  <2>3. ASSUME NEW h, NEW o, o # m, NEW k
        PROVE  <<o, k>> \in Uses(h)' <=> <<o, k>> \in Uses(h)
    BY <1>3, <2>1, <2>3, UsesOfGroups
  <2> QED
    BY <2>2, <2>3
<1>5. \A h : Uses(h)' = Uses(h)
  BY <1>4, UsesArePairs
<1>6. \A h : NrMembers(h)' = NrMembers(h)
  BY <1>5 DEF NrMembers
<1>7. SameFibNumbers
  BY <1>1, SameFibs, SameFibsSameNumbers
<1>8. MnexthopCounted
  BY CountedIsAccounting DEF SpineInv
<1> QED
  BY <1>1, <1>3, <1>6, <1>7, <1>8
     DEF SameFibNumbers, NexthopsFollow, NexthopCounted, MnexthopCounted

\* The members of a deleted group are no users any more.
LEMMA DeleteGroupKeepsCounts ==
  ASSUME SpineInv, NEW t \in Threads, NEW m \in Mnexthops, DeleteMulticastNexthop(t, m)
  PROVE  NexthopsFollow /\ MnexthopCounted'
<1>1. /\ mnexthop[m] # Free /\ mnexthop[m].ref_cnt = 0 /\ DereferenceMembers(m)
      /\ mnexthop' = [mnexthop EXCEPT ![m] = Free] /\ UNCHANGED <<labels, call>>
      /\ mnexthop \in [Mnexthops -> MulticastNextHops \cup {Free}]
      /\ nexthop \in [Nexthops -> RefCounts \cup {Free}]
  BY DEF DeleteMulticastNexthop, SpineInv, SpineType, TypeOK
<1>2. mnexthop'[m] = Free /\ \A o \in Mnexthops \ {m} : mnexthop'[o] = mnexthop[o]
  BY <1>1
<1>3. SameFibNumbers
  BY <1>1, SameFibs, SameFibsSameNumbers
<1>4. MnexthopCounted
  BY CountedIsAccounting DEF SpineInv
<1>5. ASSUME NEW h
      PROVE  /\ Cardinality(Members(m, h)) \in Nat
             /\ Cardinality(Members(m, h)) <= NrMembers(h)
             /\ NrMembers(h)' = NrMembers(h) - Cardinality(Members(m, h))
  <2> DEFINE out == {m} \X Members(m, h)
  <2>1. out \subseteq Uses(h)
    BY <1>1 DEF Uses, Members
  <2>2. Uses(h)' = Uses(h) \ out
    <3>1. \A o, k : <<o, k>> \in Uses(h)' <=> <<o, k>> \in Uses(h) /\ o # m
      BY <1>2 DEF Uses, Members
    <3>2. \A o, k : <<o, k>> \in Uses(h) /\ o = m => <<o, k>> \in out
      BY DEF Uses
    <3>3. \A o, k : <<o, k>> \in out => o = m
      OBVIOUS
    <3> HIDE DEF out
    <3>4. \A u \in Mnexthops \X Slots : u \in Uses(h)' <=> u \in Uses(h) /\ u \notin out
      BY <3>1, <3>2, <3>3
    <3> QED
      BY <3>4, UsesArePairs
  <2>3. IsFiniteSet(Members(m, h))
    <3>1. IsFiniteSet(Slots)
      BY FS_Interval, SpineAssumption DEF Slots
    <3>2. Members(m, h) \subseteq Slots
      BY DEF Members
    <3> QED
      BY <3>1, <3>2, FS_Subset
  <2>4. Cardinality(Members(m, h)) \in Nat
    BY <2>3, FS_CardinalityType
  <2>5. IsFiniteSet(out) /\ Cardinality(out) = Cardinality(Members(m, h))
    <3>1. IsFiniteSet({m}) /\ Cardinality({m}) = 1
      BY FS_Singleton
    <3> QED
      BY <2>3, <2>4, <3>1, FS_Product
  <2>6. IsFiniteSet(Uses(h)) /\ Uses(h) \cap out = out
    BY <2>1, CountsAreFinite
  <2>7. Cardinality(Uses(h) \ out) = Cardinality(Uses(h)) - Cardinality(out)
    <3> HIDE DEF out
    <3> QED
      BY <2>6, FS_Difference
  <2>8. Cardinality(out) <= Cardinality(Uses(h))
    <3> HIDE DEF out
    <3> QED
      BY <2>1, <2>6, FS_Subset
  <2> QED
    BY <2>2, <2>4, <2>5, <2>7, <2>8 DEF NrMembers
<1>6. \A h \in Nexthops : nexthop'[h] = LET n == Cardinality(Members(m, h))
                                        IN  IF nexthop[h] = Free THEN Free
                                            ELSE IF nexthop[h] < n THEN 0 ELSE nexthop[h] - n
  BY <1>1 DEF DereferenceMembers
<1>7. ASSUME NexthopCounted, NEW h \in Nexthops
      PROVE  IF nexthop'[h] = Free THEN NrMembers(h)' = 0 /\ NrUnicastFibs(h)' = 0
                                   ELSE nexthop'[h] = NrMembers(h)' + NrUnicastFibs(h)'
  <2>1. PICK n, users, fibs \in Nat : /\ n = Cardinality(Members(m, h))
                                      /\ users = NrMembers(h) /\ fibs = NrUnicastFibs(h)
    BY <1>5, NumbersAreNat
  <2>2. n <= users /\ NrMembers(h)' = users - n /\ NrUnicastFibs(h)' = fibs
    BY <1>3, <1>5, <2>1 DEF SameFibNumbers
  <2>3. CASE nexthop[h] = Free
    <3>1. users = 0 /\ fibs = 0 /\ nexthop'[h] = Free
      BY <1>6, <1>7, <2>1, <2>3 DEF NexthopCounted
    <3> QED
      BY <2>2, <3>1
  <2>4. CASE nexthop[h] # Free
    <3>1. nexthop[h] = users + fibs
      BY <1>7, <2>1, <2>4 DEF NexthopCounted
    <3>2. nexthop'[h] = nexthop[h] - n
      BY <1>6, <2>1, <2>2, <2>4, <3>1
    <3>3. nexthop'[h] = (users - n) + fibs /\ nexthop'[h] \in Nat
      BY <2>2, <3>1, <3>2
    <3> QED
      BY <2>2, <3>3, FreeAssumption
  <2> QED
    BY <2>3, <2>4
<1>8. NexthopsFollow
  BY <1>7 DEF NexthopsFollow, NexthopCounted
<1>9. MnexthopCounted'
  BY <1>1, <1>2, <1>3, <1>4 DEF MnexthopCounted, SameFibNumbers
<1> QED
  BY <1>8, <1>9

\* One slot of a group gets another content.
SlotBecomes(m, k, member) ==
  /\ mnexthop'[m] # Free /\ mnexthop'[m].nexthops[k] = member
  /\ \A j \in Slots \ {k} : mnexthop'[m].nexthops[j] = mnexthop[m].nexthops[j]
  /\ \A o \in Mnexthops \ {m} : mnexthop'[o] = mnexthop[o]

LEMMA SlotIsReplaced ==
  ASSUME SpineType, NEW m \in Mnexthops, mnexthop[m] # Free, NEW k \in Slots,
         NEW member \in Member \cup {Free},
         mnexthop' = [mnexthop EXCEPT ![m].nexthops[k] = member]
  PROVE  SlotBecomes(m, k, member)
<1> DEFINE g == mnexthop[m]
           new == [g EXCEPT !.nexthops = [g.nexthops EXCEPT ![k] = member]]
<1>1. mnexthop \in [Mnexthops -> MulticastNextHops \cup {Free}]
  BY DEF SpineType, TypeOK
<1>2. g \in MulticastNextHops /\ mnexthop' = [mnexthop EXCEPT ![m] = new]
  BY <1>1
<1>3. /\ new \in MulticastNextHops /\ new.nexthops[k] = member
      /\ \A j \in Slots \ {k} : new.nexthops[j] = g.nexthops[j]
  BY <1>2 DEF MulticastNextHops
<1> HIDE DEF new
<1> QED
  BY <1>1, <1>2, <1>3, FreeAssumption DEF SlotBecomes

\* It changes the uses of that slot only.
LEMMA SlotChangesUses ==
  ASSUME SpineType, NEW m \in Mnexthops, mnexthop[m] # Free, NEW k \in Slots,
         NEW member \in Member \cup {Free},
         SlotBecomes(m, k, member), NEW h
  PROVE  /\ <<m, k>> \in Uses(h)' <=> member # Free /\ member.next_hop = h
         /\ \A u \in Mnexthops \X Slots :
              u # <<m, k>> => (u \in Uses(h)' <=> u \in Uses(h))
<1>3. /\ mnexthop'[m] # Free
      /\ mnexthop'[m].nexthops[k] = member
      /\ \A j \in Slots \ {k} : mnexthop'[m].nexthops[j] = mnexthop[m].nexthops[j]
      /\ \A o \in Mnexthops \ {m} : mnexthop'[o] = mnexthop[o]
  BY DEF SlotBecomes
<1>4. \A o, j : <<o, j>> \in Uses(h)' <=>
        /\ o \in Mnexthops /\ j \in Slots /\ mnexthop'[o] # Free
        /\ mnexthop'[o].nexthops[j] # Free /\ mnexthop'[o].nexthops[j].next_hop = h
  BY DEF Uses, Members
<1>5. ASSUME NEW o \in Mnexthops, NEW j \in Slots, <<o, j>> # <<m, k>>
      PROVE  <<o, j>> \in Uses(h)' <=> <<o, j>> \in Uses(h)
  <2>1. CASE o = m
    <3>1. j # k
      BY <1>5, <2>1
    <3> QED
      BY <1>3, <1>4, <2>1, <3>1, UsesOfGroups
  <2>2. CASE o # m
    BY <1>3, <1>4, <2>2, UsesOfGroups
  <2> QED
    BY <2>1, <2>2
<1>6. <<m, k>> \in Uses(h)' <=> member # Free /\ member.next_hop = h
  BY <1>3, <1>4
<1> QED
  BY <1>5, <1>6

\* What these calls do not touch.
LEMMA SlotKeepsGroups ==
  ASSUME SpineInv, NEW m \in Mnexthops, mnexthop[m] # Free, NEW k \in Slots,
         NEW member \in Member \cup {Free},
         mnexthop' = [mnexthop EXCEPT ![m].nexthops[k] = member],
         UNCHANGED <<labels, call>>
  PROVE  MnexthopCounted' /\ \A h : NrUnicastFibs(h)' = NrUnicastFibs(h)
<1>1. /\ mnexthop'[m] # Free /\ mnexthop'[m].ref_cnt = mnexthop[m].ref_cnt
      /\ \A o \in Mnexthops \ {m} : mnexthop'[o] = mnexthop[o]
  <2>1. mnexthop \in [Mnexthops -> MulticastNextHops \cup {Free}]
    BY DEF SpineInv, SpineType, TypeOK
  <2> QED
    BY <2>1, MemberOfGroup
<1>2. SameFibNumbers
  BY SameFibs, SameFibsSameNumbers
<1>3. MnexthopCounted
  BY CountedIsAccounting DEF SpineInv
<1> QED
  BY <1>1, <1>2, <1>3 DEF SameFibNumbers, MnexthopCounted

LEMMA AddMemberKeepsCounts ==
  ASSUME SpineInv, NEW t \in Threads, NEW m \in Mnexthops, NEW k \in Slots,
         NEW member \in Member, RegisterNexthopInMnexthops(t, m, k, member)
  PROVE  NexthopsFollow /\ MnexthopCounted'
<1> PICK g : g = member.next_hop
  OBVIOUS
<1>1. /\ mnexthop[m] # Free /\ nexthop[g] # Free /\ UNCHANGED <<labels, call>>
      /\ mnexthop' = [mnexthop EXCEPT ![m].nexthops[k] = member]
      /\ mnexthop[m].nexthops[k] = Free
      /\ nexthop' = [nexthop EXCEPT ![g] = Incremented(@)] /\ g \in Nexthops
      /\ nexthop \in [Nexthops -> RefCounts \cup {Free}] /\ member # Free
  BY FreeAssumption DEF RegisterNexthopInMnexthops, IsFirst, ReferenceNexthop, Member,
                        SpineInv, SpineType, TypeOK
<1>2. MnexthopCounted' /\ \A h : NrUnicastFibs(h)' = NrUnicastFibs(h)
  BY <1>1, SlotKeepsGroups
<1>3. ASSUME NEW h
      PROVE  NrMembers(h)' = IF h = g THEN NrMembers(h) + 1 ELSE NrMembers(h)
  <2>1. /\ <<m, k>> \in Uses(h)' <=> h = g
        /\ \A u \in Mnexthops \X Slots :
              u # <<m, k>> => (u \in Uses(h)' <=> u \in Uses(h))
    <3>1. SlotBecomes(m, k, member)
      BY <1>1, SlotIsReplaced DEF SpineInv
    <3> QED
      BY <1>1, <3>1, SlotChangesUses DEF SpineInv
  <2>2. <<m, k>> \notin Uses(h) /\ <<m, k>> \in Mnexthops \X Slots
    BY <1>1, UsesOfGroups
  <2>3. CASE h = g
    <3>1. Uses(h)' = Uses(h) \cup {<<m, k>>}
      BY <2>1, <2>2, <2>3, UsesArePairs
    <3> QED
      BY <2>2, <2>3, <3>1, CountsAreFinite, OneMore DEF NrMembers
  <2>4. CASE h # g
    <3>1. Uses(h)' = Uses(h)
      BY <2>1, <2>2, <2>4, UsesArePairs
    <3> QED
      BY <2>4, <3>1 DEF NrMembers
  <2> QED
    BY <2>3, <2>4
<1>4. ASSUME NexthopCounted, NoOverflow' PROVE NexthopCounted'
  <2>1. nexthop[g] = NrMembers(g) + NrUnicastFibs(g) /\ nexthop[g] \in RefCounts
    BY <1>1, <1>4 DEF NexthopCounted
  <2>2. NrMembers(g)' = NrMembers(g) + 1 /\ NrUnicastFibs(g)' = NrUnicastFibs(g)
    BY <1>2, <1>3
  <2>3. NrMembers(g)' + NrUnicastFibs(g)' < RefModulus
    BY <1>1, <1>4 DEF NoOverflow
  <2>4. Incremented(nexthop[g]) = nexthop[g] + 1
    BY <2>1, <2>2, <2>3, NumbersAreNat, Counting
  <2>5. /\ nexthop'[g] = nexthop[g] + 1
        /\ \A h \in Nexthops \ {g} : nexthop'[h] = nexthop[h]
    BY <1>1, <2>4
  <2>6. nexthop'[g] \in Nat /\ nexthop'[g] = NrMembers(g)' + NrUnicastFibs(g)'
    BY <2>1, <2>2, <2>5, NumbersAreNat
  <2>7. nexthop'[g] # Free
    BY <2>6, FreeAssumption
  <2> QED
    BY <1>2, <1>3, <1>4, <2>5, <2>6, <2>7 DEF NexthopCounted
<1> QED
  BY <1>2, <1>4 DEF NexthopsFollow

LEMMA RemoveMemberKeepsCounts ==
  ASSUME SpineInv, NEW t \in Threads, NEW m \in Mnexthops,
         NEW member \in Member, DeleteNexthopInMnexthops(t, m, member)
  PROVE  NexthopsFollow /\ MnexthopCounted'
<1> PICK g : g = member.next_hop
  OBVIOUS
<1>1. PICK k \in Slots :
      /\ mnexthop[m] # Free /\ UNCHANGED <<labels, call>>
      /\ mnexthop' = [mnexthop EXCEPT ![m].nexthops[k] = Free]
      /\ mnexthop[m].nexthops[k] = member
      /\ DereferenceNexthop(g) /\ g \in Nexthops
      /\ nexthop \in [Nexthops -> RefCounts \cup {Free}] /\ member # Free
  BY FreeAssumption DEF DeleteNexthopInMnexthops, Member, SpineInv, SpineType, TypeOK
<1>2. MnexthopCounted' /\ \A h : NrUnicastFibs(h)' = NrUnicastFibs(h)
  BY <1>1, SlotKeepsGroups
<1>3. ASSUME NEW h
      PROVE  /\ NrMembers(h)' = IF h = g THEN NrMembers(h) - 1 ELSE NrMembers(h)
             /\ h = g => NrMembers(h) > 0
  <2>1. /\ <<m, k>> \notin Uses(h)'
        /\ \A u \in Mnexthops \X Slots :
              u # <<m, k>> => (u \in Uses(h)' <=> u \in Uses(h))
    <3>1. SlotBecomes(m, k, Free)
      BY <1>1, SlotIsReplaced DEF SpineInv
    <3> QED
      BY <1>1, <3>1, SlotChangesUses DEF SpineInv
  <2>2. (<<m, k>> \in Uses(h) <=> h = g) /\ <<m, k>> \in Mnexthops \X Slots
    BY <1>1, UsesOfGroups
  <2>3. CASE h = g
    <3>1. Uses(h)' = Uses(h) \ {<<m, k>>}
      BY <2>1, <2>2, <2>3, UsesArePairs
    <3> QED
      BY <2>2, <2>3, <3>1, CountsAreFinite, OneLess DEF NrMembers
  <2>4. CASE h # g
    <3>1. Uses(h)' = Uses(h)
      BY <2>1, <2>2, <2>4, UsesArePairs
    <3> QED
      BY <2>4, <3>1 DEF NrMembers
  <2> QED
    BY <2>3, <2>4
<1>4. PICK before, fibs \in Nat :
        /\ before = NrMembers(g) /\ before > 0 /\ fibs = NrUnicastFibs(g)
        /\ NrMembers(g)' = before - 1 /\ NrUnicastFibs(g)' = fibs
  BY <1>2, <1>3, NumbersAreNat
<1>5. ASSUME NexthopCounted PROVE NexthopCounted'
  <2>1. nexthop[g] = before + fibs /\ nexthop[g] \notin {Free, 0}
    BY <1>1, <1>4, <1>5, FreeAssumption DEF NexthopCounted
  <2>2. /\ nexthop'[g] = nexthop[g] - 1
        /\ \A h \in Nexthops \ {g} : nexthop'[h] = nexthop[h]
    BY <1>1, <2>1 DEF DereferenceNexthop
  <2>3. nexthop'[g] = NrMembers(g)' + NrUnicastFibs(g)' /\ nexthop'[g] # Free
    BY <1>4, <2>1, <2>2, FreeAssumption
  <2> QED
    BY <1>2, <1>3, <1>5, <2>2, <2>3 DEF NexthopCounted
<1> QED
  BY <1>2, <1>5 DEF NexthopsFollow

LEMMA PortCallsKeepCounts ==
  ASSUME SpineInv, NEW p \in Pbps,
         \/ \E t \in Threads : RegisterPort(t, p) \/ UnregisterPort(t, p)
         \/ DetachPort(p)
  PROVE  NexthopsFollow /\ MnexthopCounted'
<1>1. UNCHANGED <<nexthop, mnexthop, labels, call>>
  BY DEF RegisterPort, UnregisterPort, DetachPort
<1> QED
  BY <1>1, SameFibs, SameFibsSameNumbers, NothingCounts

LEMMA StepKeepsCounts == SpineInv /\ [Next]_vars => NexthopsFollow /\ MnexthopCounted'
<1> SUFFICES ASSUME SpineInv, [Next]_vars PROVE NexthopsFollow /\ MnexthopCounted'
  OBVIOUS
<1>1. CASE UNCHANGED vars
  BY <1>1, SameFibs, SameFibsSameNumbers, NothingCounts DEF vars
<1>2. CASE Next
  <2>1. ASSUME NEW t \in Threads, NEW m \in Mnexthops,
               \/ RegisterMulticastNexthop(t, m)
               \/ DeleteMulticastNexthop(t, m)
               \/ \E member \in Member :
                    \/ \E k \in Slots : RegisterNexthopInMnexthops(t, m, k, member)
                    \/ DeleteNexthopInMnexthops(t, m, member)
        PROVE  NexthopsFollow /\ MnexthopCounted'
    BY <2>1, RegisterGroupKeepsCounts, DeleteGroupKeepsCounts, AddMemberKeepsCounts,
       RemoveMemberKeepsCounts
  <2> QED
    BY <1>2, <2>1, StepCases, NexthopCallsKeepCounts, UnbindKeepsCounts,
       ContinueKeepsCounts, PortCallsKeepCounts
<1> QED
  BY <1>1, <1>2

LEMMA StepKeepsSpineInv == SpineInv /\ [Next]_vars => SpineInv'
BY StepKeepsType, StepKeepsCounts, CountedIsAccountingNext DEF SpineInv

\* The counts of next hops stay exact as long as none of them comes round.
LEMMA StepKeepsNexthops ==
  SpineInv /\ NexthopAccounting /\ NoOverflow' /\ [Next]_vars => NexthopAccounting'
BY StepKeepsCounts, CountedIsAccounting, CountedIsAccountingNext DEF NexthopsFollow

LEMMA InitSpineInv == Init => SpineInv /\ NexthopAccounting
<1> SUFFICES ASSUME Init PROVE SpineInv /\ NexthopAccounting
  OBVIOUS
<1>1. \A u, n : Fibs(u, n) = {}
  BY DEF Init, Fibs, Settled
<1>2. \A h : Uses(h) = {}
  BY DEF Init, Uses
<1>3. \A n : NrMembers(n) = 0 /\ NrUnicastFibs(n) = 0 /\ NrGroupFibs(n) = 0
  BY <1>1, <1>2, FS_EmptySet DEF NrMembers, NrUnicastFibs, NrGroupFibs
<1>4. NexthopCounted /\ MnexthopCounted
  BY <1>3 DEF NexthopCounted, MnexthopCounted, Init
<1> QED
  BY <1>4, InitType, CountedIsAccounting DEF SpineInv

\* A settled label is one of the users that the counts speak of.
LEMMA CountsResolve == SpineInv /\ NexthopAccounting => LabelsResolve
<1> SUFFICES ASSUME SpineInv, NexthopAccounting, NEW p \in Pbps, NEW b \in Labels, Settled(p, b)
             PROVE  /\ Found(labels[p][b])
                    /\ ~labels[p][b].is_unicast =>
                         \A h \in Nexthops :
                           Members(labels[p][b].NHLFE, h) # {} => nexthop[h] # Free
  BY DEF LabelsResolve
<1> PICK e : e = labels[p][b]
  OBVIOUS
<1>1. e \in LabelEntry
  BY DEF SpineInv, SpineType, TypeOK, Settled
<1>2. NexthopCounted /\ MnexthopCounted
  BY CountedIsAccounting DEF SpineInv
<1>3. \A u, n : LeadsTo(e, u, n) => p \in Fibs(u, n)
  BY DEF Fibs
<1>4. \A u, n : p \in Fibs(u, n) => Cardinality(Fibs(u, n)) # 0
  BY CountsAreFinite, FS_EmptySet
<1>5. CASE e.is_unicast = TRUE /\ e.NHLFE \in Nexthops
  <2>1. NrUnicastFibs(e.NHLFE) # 0
    BY <1>1, <1>3, <1>4, <1>5, LeadsToOne DEF NrUnicastFibs
  <2>2. nexthop[e.NHLFE] # Free
    BY <1>2, <1>5, <2>1 DEF NexthopCounted
  <2> QED
    BY <1>5, <2>2 DEF Found
<1>6. CASE e.is_unicast = FALSE /\ e.NHLFE \in Mnexthops
  <2> DEFINE m == e.NHLFE
  <2>1. NrGroupFibs(m) # 0
    BY <1>1, <1>3, <1>4, <1>6, LeadsToOne DEF NrGroupFibs
  <2>2. mnexthop[m] # Free
    BY <1>2, <1>6, <2>1 DEF MnexthopCounted
  <2>3. ASSUME NEW h \in Nexthops, Members(m, h) # {} PROVE nexthop[h] # Free
    <3>1. PICK k : k \in Members(m, h)
      BY <2>3
    <3>2. <<m, k>> \in Uses(h)
      BY <1>6, <2>2, <3>1, UsesOfGroups DEF Members
    <3>3. NrMembers(h) # 0
      BY <3>2, CountsAreFinite, FS_EmptySet DEF NrMembers
    <3> QED
      BY <1>2, <3>3 DEF NexthopCounted
  <2> QED
    BY <1>6, <2>2, <2>3 DEF Found
<1> QED
  BY <1>1, <1>5, <1>6, EntryFields

(***************************************************************************)
(* The theorems.                                                           *)
(***************************************************************************)
LEMMA SpineInvHolds == Spec => []SpineInv
<1>1. Init => SpineInv
  BY InitSpineInv
<1>2. SpineInv /\ [Next]_vars => SpineInv'
  BY StepKeepsSpineInv
<1> QED
  BY <1>1, <1>2, PTL DEF Spec

\* The variables of the spine keep their types whatever the interleaving of
\* calls and callbacks (spine-label-mnexthop.c, spine-label-fib.c): no count
\* is ever outside 16 bits.
THEOREM SpineTypes == Spec => []TypeOK
<1>1. SpineInv => TypeOK
  BY DEF SpineInv, SpineType
<1> QED
  BY <1>1, SpineInvHolds, PTL

\* The ref_cnt of a next hop is the number of members and FIBs that use it
\* (reference_common_nexthop, dereference_common_nexthop), as long as no next
\* hop has as many uses as a uint16_t has values: the 2048 groups of 64 slots
\* have room for more.
THEOREM NexthopsAreCounted == Spec => ([]NoOverflow => []NexthopAccounting)
<1>1. Init => NexthopAccounting
  BY InitSpineInv
<1>2. SpineInv /\ NexthopAccounting /\ NoOverflow' /\ [Next]_vars => NexthopAccounting'
  BY StepKeepsNexthops
<1> QED
  BY <1>1, <1>2, SpineInvHolds, PTL DEF Spec

\* The ref_cnt of a group is the number of FIBs that use it
\* (reference_mnexthop, dereference_mnexthop of spine-label-mnexthop.c), which
\* there are too few of for it to come round.
THEOREM GroupsAreCounted == Spec => []MnexthopAccounting
<1>1. SpineInv => MnexthopAccounting
  BY DEF SpineInv
<1> QED
  BY <1>1, SpineInvHolds, PTL

\* A label on which no call works leads to a registered next hop, or to a
\* registered group of registered next hops (set_spine_label_entry), as long
\* as no count of a next hop comes round: delete_common_nexthop may then
\* delete one that labels and members lead to.
THEOREM SettledLabelsResolve == Spec => ([]NoOverflow => []LabelsResolve)
<1> QED
  BY CountsResolve, SpineInvHolds, NexthopsAreCounted, PTL

(***************************************************************************)
(* The input node beside it: SpineForwarding.                              *)
(***************************************************************************)

(***************************************************************************)
(* The inductive invariants.                                               *)
(***************************************************************************)
CacheEntry == [label: Labels, is_valid: BOOLEAN, hop: Nexthops \cup {None}]
SlowPath   == [pc: {"none", "copy", "send"}, group: Mnexthops, packet: Nat,
               idx_hop: Nat, iptr: Nat, consumed: BOOLEAN, invt: [Slots -> Seq(Nat)]]

TablesType ==
  /\ local \in [Nexthops -> Pbps]
  /\ words \in [Pbps -> [Labels -> LabelEntry]]
  /\ hopOf \in [Mnexthops -> [Slots -> Nexthops]]

BurstType ==
  /\ burst \in [iface: Pbps \cup {None}, mbufs: Seq(Packet)]
  /\ cache \in [0 .. PBP_CACHE_SIZE - 1 -> CacheEntry]
  /\ slow \in SlowPath
  /\ fate \in [1 .. loop.nr_mbufs -> Nat]

\* The input node has a burst while its loop runs, and the slow path runs while
\* packets are posted to a group.
BurstInv ==
  /\ loop.pc = "idle" => burst = Nobody
  /\ loop.pc # "idle" => /\ burst.iface \in Pbps
                         /\ Len(burst.mbufs) = loop.nr_mbufs /\ loop.nr_mbufs > 0
  /\ slow.pc = "none" => slow = NoSlow
  /\ slow.pc # "none" => Posting /\ LatestIdentifier[1] = "multicast"

\* The callbacks that wait are those of unregistered ports, one for each.
QueueInv ==
  /\ \A i \in 1 .. Len(rcu) : state[rcu[i]] = "dying"
  /\ \A i, j \in 1 .. Len(rcu) : rcu[i] = rcu[j] => i = j

\* The port of the burst is there, or its callback waits for the burst.
PortInv ==
  burst # Nobody => \/ IsUp(burst.iface)
                    \/ state[burst.iface] = "dying" /\ burst.iface \in waits

\* The words of what is valid are what the control path wrote.
WordsInv ==
  /\ \A p \in Pbps, b \in Labels : labels[p][b] # Free => words[p][b] = labels[p][b]
  /\ \A m \in Mnexthops, k \in Slots :
       MemberAt(m, k) # Free => hopOf[m][k] = MemberAt(m, k).next_hop

\* Slot k of the slow path has packet i to send.
Stands(invt, i) == \E j \in DOMAIN invt : invt[j] = i
Holds(k, i) == (slow.pc = "send" => k >= slow.iptr) /\ Stands(slow.invt[k], i)

Joined         == "joined" \in seen
NobodyHolds(i) == \A k \in Slots : ~Holds(k, i)
Somewhere(i)   == fate[i] > 0 \/ \E k \in Slots : Holds(k, i)
AtMostOnce(i) ==
  /\ fate[i] <= 1
  /\ fate[i] = 1 => NobodyHolds(i)
  /\ \A k, l \in Slots : Holds(k, i) /\ Holds(l, i) => k = l
Once(i)      == Somewhere(i) /\ (Joined \/ AtMostOnce(i))
Untouched(i) == fate[i] = 0 /\ NobodyHolds(i)

\* The packet that is copied has been given away by the last round if at all.
BeingCopied(i) ==
  /\ fate[i] = 0
  /\ slow.consumed <=> \E k \in Slots : Holds(k, i)
  /\ \A k \in Slots : Holds(k, i) => k < slow.iptr
  /\ \/ Joined
     \/ AtMostOnce(i) /\ (slow.consumed => slow.idx_hop >= NrHops(slow.group))

\* Where packet i of the burst is.
PacketFate(i) ==
  /\ i <= Len(posted) => Once(i) /\ NobodyHolds(i)
  /\ i > Len(posted) /\ slow.pc = "none" => Untouched(i)
  /\ i > Len(posted) /\ slow.pc = "copy" =>
       /\ i < slow.packet => Once(i)
       /\ i = slow.packet => BeingCopied(i)
       /\ i > slow.packet => Untouched(i)
  /\ i > Len(posted) /\ slow.pc = "send" =>
       /\ i <= loop.current => Once(i)
       /\ i > loop.current => Untouched(i)

FateInv ==
  /\ slow.pc = "copy" => slow.packet \in Waiting
  /\ \A i \in 1 .. loop.nr_mbufs : PacketFate(i)

\* While nothing has been taken away, what the burst has read is still so.
Withdrawn == "withdrawal" \in seen
Forwards(b) == labels[burst.iface][b] # Free /\ Found(labels[burst.iface][b])
CacheHolds ==
  \A c \in 0 .. PBP_CACHE_SIZE - 1 :
    cache[c].is_valid =>
      /\ Forwards(cache[c].label)
      /\ labels[burst.iface][cache[c].label].is_unicast => cache[c].hop # None
DecisionsHold ==
  \A i \in 1 .. Len(decided) :
    decided[i][1] = "multicast" =>
      /\ decided[i][2] \in Labels /\ Forwards(decided[i][2])
      /\ ~labels[burst.iface][decided[i][2]].is_unicast
MembersHold ==
  slow.pc # "none" =>
    /\ mnexthop[slow.group] # Free
    /\ \A k \in Slots : slow.invt[k] # <<>> =>
         MemberAt(slow.group, k) # Free /\ Reachable(MemberAt(slow.group, k).next_hop)
HarmInv ==
  /\ ~Withdrawn => ~crashed
  /\ ~Withdrawn /\ burst # Nobody => CacheHolds /\ DecisionsHold /\ MembersHold

ControlInv == SpineInv /\ TablesType /\ QueueInv /\ WordsInv
LoopsInv   == DeliveryInv /\ BurstType /\ BurstInv /\ PortInv
FwdInv     == ControlInv /\ LoopsInv /\ FateInv /\ HarmInv

(***************************************************************************)
(* The steps.                                                              *)
(***************************************************************************)
\* A call or a callback, as the input node sees it.
ControlStep ==
  /\ Next /\ KeepWords /\ Watch
  /\ \/ GracePeriod /\ \E t \in Threads : Begin(t) \/ Continue(t)
     \/ UNCHANGED waits /\ RcuStep /\ (rcu # <<>> => Head(rcu) \notin waits)
  /\ UNCHANGED <<deliveryVars, fwdVars, bursts>>

LEMMA ForwardingCases ==
  ASSUME [ForwardingNext]_allVars
  PROVE  \/ UNCHANGED allVars
         \/ ~crashed /\ \E p \in Pbps, n \in 1 .. MaxBurst, mbufs \in [1 .. MaxBurst -> Packet] :
              RxBurst(p, SubSeq(mbufs, 1, n))
         \/ ~crashed /\ BurstStep
         \/ ~crashed /\ ControlStep
<1>1. ApiStep => ControlStep
  BY DEF ApiStep, ControlStep, Next
<1>2. ReclaimStep => ControlStep
  BY DEF ReclaimStep, ControlStep, Next
<1> QED
  BY <1>1, <1>2 DEF ForwardingNext, Halted, NoBurstYet

\* The burst leaves the tables alone.
LEMMA BurstKeepsTables ==
  ASSUME BurstStep \/ \E p, mbufs : RxBurst(p, mbufs)
  PROVE  TablesUnchanged
BY DEF BurstStep, RxBurst, Lookup, Decide, DecideCrashes, EndOfBurst, PostAtOnce, BeginSlowPath,
       CopyToMember, EndOfMembers, SendToMember, EndOfSlowPath, Posted

\* Calls beside a burst are calls of the spine.
LEMMA ForwardingIsSpine == [ForwardingNext]_allVars => [Next]_vars
<1> SUFFICES ASSUME [ForwardingNext]_allVars PROVE [Next]_vars
  OBVIOUS
<1>1. UNCHANGED allVars \/ TablesUnchanged \/ Next
  BY ForwardingCases, BurstKeepsTables DEF ControlStep
<1> QED
  BY <1>1 DEF allVars, TablesUnchanged

(***************************************************************************)
(* The tables.                                                             *)
(***************************************************************************)
LEMMA ZeroIsAnEntry == 0 \in Nexthops /\ 0 \in Mnexthops /\ 0 \in Labels /\ 1 \in Labels
BY TablesAssumption, SpineAssumption DEF Nexthops, Mnexthops, Labels

LEMMA ClearedEntry ==
  ASSUME NEW e \in LabelEntry
  PROVE  [e EXCEPT !.NHLFE = 0] \in LabelEntry
BY ZeroIsAnEntry DEF LabelEntry

LEMMA MemberInGroup ==
  ASSUME SpineType, NEW m \in Mnexthops, NEW k \in Slots
  PROVE  MemberAt(m, k) \in Member \cup {Free}
<1>1. mnexthop[m] \in MulticastNextHops \cup {Free}
  BY DEF SpineType, TypeOK
<1> QED
  BY <1>1 DEF MemberAt, MulticastNextHops

LEMMA WordsKeepType ==
  ASSUME SpineType, SpineType', TablesType, KeepWords
  PROVE  TablesType'
<1>1. ASSUME NEW p \in Pbps, NEW b \in Labels
      PROVE  (IF labels'[p][b] # Free THEN labels'[p][b]
              ELSE IF ClearsLabel(p, b) THEN [words[p][b] EXCEPT !.NHLFE = 0]
              ELSE words[p][b]) \in LabelEntry
  <2>1. labels'[p][b] \in LabelEntry \cup {Free}
    BY DEF SpineType, TypeOK
  <2>2. words[p][b] \in LabelEntry
    BY DEF TablesType
  <2>3. [words[p][b] EXCEPT !.NHLFE = 0] \in LabelEntry
    BY <2>2, ClearedEntry
  <2> QED
    BY <2>1, <2>2, <2>3
<1>2. words' \in [Pbps -> [Labels -> LabelEntry]]
  BY <1>1 DEF KeepWords
<1>3. ASSUME NEW m \in Mnexthops, NEW k \in Slots
      PROVE  (IF mnexthop'[m] # Free /\ mnexthop'[m].nexthops[k] # Free
              THEN mnexthop'[m].nexthops[k].next_hop
              ELSE IF mnexthop[m] = Free /\ mnexthop'[m] # Free THEN 0
              ELSE hopOf[m][k]) \in Nexthops
  <2>1. mnexthop'[m] \in MulticastNextHops \cup {Free}
    BY DEF SpineType, TypeOK
  <2>2. hopOf[m][k] \in Nexthops /\ 0 \in Nexthops
    BY ZeroIsAnEntry DEF TablesType
  <2> QED
    BY <2>1, <2>2 DEF MulticastNextHops, Member
<1>4. hopOf' \in [Mnexthops -> [Slots -> Nexthops]]
  BY <1>3 DEF KeepWords
<1>5. local' \in [Nexthops -> Pbps]
  BY DEF KeepWords, TablesType
<1> QED
  BY <1>2, <1>4, <1>5 DEF TablesType

LEMMA KeptWords ==
  ASSUME KeepWords
  PROVE  WordsInv'
<1>1. \A p \in Pbps, b \in Labels : labels'[p][b] # Free => words'[p][b] = labels'[p][b]
  BY DEF KeepWords
<1>2. ASSUME NEW m \in Mnexthops, NEW k \in Slots, MemberAt(m, k)' # Free
      PROVE  hopOf'[m][k] = MemberAt(m, k)'.next_hop
  BY <1>2 DEF KeepWords, MemberAt
<1> QED
  BY <1>1, <1>2 DEF WordsInv

\* What calls and callbacks do to the ports.
ComesUp(p)  == state[p] = "absent" /\ state' = [state EXCEPT ![p] = "up"] /\ rcu' = rcu
GoesDown(p) ==
  state[p] = "up" /\ state' = [state EXCEPT ![p] = "dying"] /\ rcu' = Append(rcu, p)

LEMMA CallPortSteps ==
  ASSUME NEW t \in Threads, Begin(t) \/ Continue(t)
  PROVE  UNCHANGED <<state, rcu>> \/ \E p \in Pbps : ComesUp(p) \/ GoesDown(p)
<1>1. ASSUME NEW m \in Mnexthops,
             \/ RegisterMulticastNexthop(t, m)
             \/ DeleteMulticastNexthop(t, m)
             \/ \E member \in Member :
                  \/ \E k \in Slots : RegisterNexthopInMnexthops(t, m, k, member)
                  \/ DeleteNexthopInMnexthops(t, m, member)
      PROVE  UNCHANGED <<state, rcu>>
  BY <1>1 DEF RegisterMulticastNexthop, DeleteMulticastNexthop,
              RegisterNexthopInMnexthops, DeleteNexthopInMnexthops
<1>2. ASSUME NEW h, RegisterCommonNexthop(t, h) \/ DeleteCommonNexthop(t, h)
      PROVE  UNCHANGED <<state, rcu>>
  BY <1>2 DEF RegisterCommonNexthop, DeleteCommonNexthop
<1>3. Continue(t) => UNCHANGED <<state, rcu>>
  BY DEF Continue, WriteLabel, ReferenceLabel, ClearLabel
<1>4. ASSUME NEW p, NEW b, DeleteLabelEntry(t, p, b) \/ \E e \in LabelEntry : SetupLabelEntry(t, p, b, e)
      PROVE  UNCHANGED <<state, rcu>>
  BY <1>4 DEF DeleteLabelEntry, SetupLabelEntry
<1>5. CASE Begin(t)
  <2>1. CASE \E m \in Mnexthops :
               \/ RegisterMulticastNexthop(t, m)
               \/ DeleteMulticastNexthop(t, m)
               \/ \E member \in Member :
                    \/ \E k \in Slots : RegisterNexthopInMnexthops(t, m, k, member)
                    \/ DeleteNexthopInMnexthops(t, m, member)
    BY <1>1, <2>1
  <2>2. CASE \E p \in Pbps :
               \/ RegisterPort(t, p)
               \/ UnregisterPort(t, p)
               \/ \E b \in Labels :
                    \/ DeleteLabelEntry(t, p, b)
                    \/ \E entry \in LabelEntry : SetupLabelEntry(t, p, b, entry)
    <3>1. PICK p \in Pbps :
            \/ RegisterPort(t, p)
            \/ UnregisterPort(t, p)
            \/ \E b \in Labels :
                 \/ DeleteLabelEntry(t, p, b)
                 \/ \E entry \in LabelEntry : SetupLabelEntry(t, p, b, entry)
      BY <2>2
    <3>2. CASE \E b \in Labels :
                 \/ DeleteLabelEntry(t, p, b)
                 \/ \E entry \in LabelEntry : SetupLabelEntry(t, p, b, entry)
      BY <1>4, <3>2
    <3>3. CASE RegisterPort(t, p) \/ UnregisterPort(t, p)
      <4>1. ComesUp(p) \/ GoesDown(p)
        BY <3>3 DEF RegisterPort, UnregisterPort, ComesUp, GoesDown
      <4> QED
        BY <3>1, <4>1
    <3> QED
      BY <3>1, <3>2, <3>3
  <2> QED
    BY <1>2, <1>5, <2>1, <2>2 DEF Begin
<1> QED
  BY <1>3, <1>5

LEMMA CallbackPortSteps ==
  ASSUME RcuStep
  PROVE  UNCHANGED <<state, rcu>> \/ \E p \in Pbps : DetachPort(p)
BY DEF RcuStep, ClearLabel, ReleaseLabel

LEMMA PortSteps ==
  ASSUME Next
  PROVE  \/ UNCHANGED <<state, rcu>>
         \/ \E p \in Pbps : ComesUp(p) \/ GoesDown(p) \/ DetachPort(p)
BY CallPortSteps, CallbackPortSteps DEF Next

LEMMA StepKeepsQueue ==
  ASSUME SpineType, QueueInv, Next
  PROVE  QueueInv'
<1>1. rcu \in Seq(Pbps) /\ state \in [Pbps -> {"absent", "up", "dying"}]
  BY DEF SpineType, TypeOK
<1>2. \A i \in 1 .. Len(rcu) : rcu[i] \in Pbps /\ state[rcu[i]] = "dying"
  BY <1>1 DEF QueueInv
<1>3. CASE UNCHANGED <<state, rcu>>
  BY <1>3 DEF QueueInv
<1>4. ASSUME NEW p \in Pbps, ComesUp(p) PROVE QueueInv'
  BY <1>1, <1>2, <1>4 DEF QueueInv, ComesUp
<1>5. ASSUME NEW p \in Pbps, GoesDown(p) PROVE QueueInv'
  <2>0. state[p] = "up" /\ state' = [state EXCEPT ![p] = "dying"] /\ rcu' = Append(rcu, p)
    BY <1>5 DEF GoesDown
  <2>1. /\ Len(rcu') = Len(rcu) + 1 /\ rcu'[Len(rcu) + 1] = p
        /\ \A i \in 1 .. Len(rcu) : rcu'[i] = rcu[i]
    BY <1>1, <2>0, AppendProperties
  <2>2. \A i \in 1 .. Len(rcu) : rcu[i] # p
    BY <1>2, <2>0
  <2>3. \A i \in 1 .. Len(rcu) + 1 : i \in 1 .. Len(rcu) \/ i = Len(rcu) + 1
    BY <1>1
  <2>4. \A i \in 1 .. Len(rcu') : state'[rcu'[i]] = "dying"
    BY <1>1, <1>2, <2>0, <2>1, <2>3
  <2>5. \A i, j \in 1 .. Len(rcu') : rcu'[i] = rcu'[j] => i = j
    BY <2>1, <2>2, <2>3 DEF QueueInv
  <2> QED
    BY <2>4, <2>5 DEF QueueInv
<1>6. ASSUME NEW p \in Pbps, DetachPort(p)
      PROVE  QueueInv'
  <2>1. /\ rcu # <<>> /\ Head(rcu) = p /\ rcu' = Tail(rcu)
        /\ state' = [state EXCEPT ![p] = "absent"]
    BY <1>6 DEF DetachPort, TearsDown
  <2>2. /\ Len(rcu') = Len(rcu) - 1 /\ rcu[1] = p /\ Len(rcu) > 0
        /\ \A i \in 1 .. Len(rcu') : rcu'[i] = rcu[i + 1]
    BY <1>1, <2>1, HeadTailProperties
  <2>3. \A i \in 1 .. Len(rcu') : i + 1 \in 1 .. Len(rcu) /\ i + 1 # 1 /\ 1 \in 1 .. Len(rcu)
    BY <1>1, <2>2
  <2>4. \A i \in 1 .. Len(rcu') : rcu'[i] = rcu[i + 1] /\ rcu'[i] # p
    BY <2>2, <2>3 DEF QueueInv
  <2>5. \A i \in 1 .. Len(rcu') : state'[rcu'[i]] = "dying"
    BY <1>1, <1>2, <2>1, <2>3, <2>4
  <2>6. \A i, j \in 1 .. Len(rcu') : rcu'[i] = rcu'[j] => i = j
    <3> SUFFICES ASSUME NEW i \in 1 .. Len(rcu'), NEW j \in 1 .. Len(rcu'), rcu'[i] = rcu'[j]
                 PROVE  i = j
      OBVIOUS
    <3>1. i + 1 = j + 1
      BY <2>3, <2>4 DEF QueueInv
    <3> QED
      BY <3>1
  <2> QED
    BY <2>5, <2>6 DEF QueueInv
<1> QED
  BY <1>3, <1>4, <1>5, <1>6, PortSteps

LEMMA StepKeepsControl ==
  ASSUME ControlInv, [ForwardingNext]_allVars
  PROVE  ControlInv'
<1>1. SpineInv'
  BY ForwardingIsSpine, StepKeepsSpineInv DEF ControlInv
<1>2. CASE UNCHANGED allVars \/ TablesUnchanged
  <2>1. UNCHANGED <<vars, local, words, hopOf>>
    BY <1>2 DEF allVars, TablesUnchanged
  <2>2. TablesType' /\ QueueInv' /\ WordsInv'
    BY <2>1 DEF ControlInv, TablesType, QueueInv, WordsInv, MemberAt, vars
  <2> QED
    BY <1>1, <2>2 DEF ControlInv
<1>3. CASE ControlStep
  BY <1>1, <1>3, WordsKeepType, KeptWords, StepKeepsQueue DEF ControlInv, ControlStep, SpineInv
<1> QED
  BY <1>2, <1>3, ForwardingCases, BurstKeepsTables

(***************************************************************************)
(* The burst.                                                              *)
(***************************************************************************)
LEMMA IndexInCache == \A b \in Nat : CacheIndex(b) \in 0 .. PBP_CACHE_SIZE - 1
BY CacheAssumption DEF CacheIndex

LEMMA PacketToDecide ==
  ASSUME LoopsInv, MayPeek
  PROVE  /\ NextPacket \in Packet /\ burst.iface \in Pbps
         /\ NextPacket.label \in Labels /\ NextPacket.label \in Nat
<1>1. loop.pc # "idle" /\ loop.peek + 1 \in 1 .. loop.nr_mbufs
  BY DEF MayPeek, LoopsInv, DeliveryInv, LoopType
<1>2. Len(burst.mbufs) = loop.nr_mbufs /\ burst.iface \in Pbps /\ burst.mbufs \in Seq(Packet)
  BY <1>1 DEF LoopsInv, BurstInv, BurstType
<1>3. NextPacket \in Packet
  BY <1>1, <1>2 DEF NextPacket
<1>4. NextPacket.label \in Labels
  BY <1>3, ZeroIsAnEntry DEF Packet
<1> QED
  BY <1>2, <1>3, <1>4 DEF Labels

LEMMA DecisionIsOne ==
  ASSUME TablesType, LoopsInv, MayPeek, ~UsesNoNexthop(NextPacket)
  PROVE  Decision(NextPacket) \in Decisions
<1> PICK packet : packet = NextPacket
  OBVIOUS
<1>1. packet \in Packet /\ packet.label \in Labels /\ packet.label \in Nat /\ burst.iface \in Pbps
  BY PacketToDecide
<1>2. packet.kind \in {"host", "expired", "mpls"}
  BY <1>1 DEF Packet
<1> PICK b, entry : b = packet.label /\ entry = Cached(b)
  OBVIOUS
<1>3. entry \in CacheEntry
  BY <1>1, IndexInCache DEF LoopsInv, BurstType, Cached
<1>4. /\ <<"drop">> \in Decisions /\ <<"host">> \in Decisions
      /\ \A p \in Pbps : <<"unicast", p>> \in Decisions
      /\ \A d \in Labels : <<"multicast", d>> \in Decisions
  BY DecisionsAssumption DEF SpineDecisions
<1>5. CASE packet.kind = "host"
  BY <1>4, <1>5 DEF Decision
<1>6. CASE packet.kind = "expired"
  BY <1>4, <1>6 DEF Decision
<1>7. CASE packet.kind = "mpls"
  <2>1. Decision(packet) = IF ~entry.is_valid THEN <<"drop">>
                           ELSE IF ~IsUnicastNow(b) THEN <<"multicast", b>>
                           ELSE IF IsUp(local[entry.hop]) THEN <<"unicast", local[entry.hop]>>
                           ELSE <<"drop">>
    BY <1>7 DEF Decision
  <2>2. entry.is_valid /\ IsUnicastNow(b) => local[entry.hop] \in Pbps
    BY <1>3, <1>7 DEF UsesNoNexthop, TablesType, CacheEntry
  <2> QED
    BY <1>1, <1>4, <2>1, <2>2
<1> QED
  BY <1>2, <1>5, <1>6, <1>7

\* Steps that work through the burst are steps of express delivery.
LEMMA ForwardingIsDelivery ==
  ASSUME TablesType, LoopsInv, [ForwardingNext]_allVars
  PROVE  [DeliveryNext]_deliveryVars
<1>1. CASE UNCHANGED allVars
  BY <1>1 DEF allVars
<1>2. ASSUME NEW p \in Pbps, NEW n \in 1 .. MaxBurst, NEW mbufs \in [1 .. MaxBurst -> Packet],
             RxBurst(p, SubSeq(mbufs, 1, n))
      PROVE  DeliveryNext
  <2>1. Receive(Len(SubSeq(mbufs, 1, n)))
    BY <1>2 DEF RxBurst
  <2>2. Len(SubSeq(mbufs, 1, n)) \in 1 .. MaxBurst
    BY <2>1 DEF Receive
  <2> QED
    BY <2>1, <2>2 DEF DeliveryNext
<1>3. CASE BurstStep
  <2>1. Decide => DeliveryNext
    BY DecisionIsOne DEF Decide, DeliveryNext
  <2>2. EndOfBurst \/ PostAtOnce \/ EndOfSlowPath => DeliveryNext
    BY DEF EndOfBurst, PostAtOnce, EndOfSlowPath, Posted, DeliveryNext
  <2>3. Lookup \/ DecideCrashes \/ BeginSlowPath \/ CopyToMember \/ EndOfMembers \/ SendToMember
          => UNCHANGED deliveryVars
    BY DEF Lookup, DecideCrashes, BeginSlowPath, CopyToMember, EndOfMembers, SendToMember
  <2> QED
    BY <1>3, <2>1, <2>2, <2>3 DEF BurstStep
<1>4. CASE ControlStep
  BY <1>4 DEF ControlStep
<1> QED
  BY <1>1, <1>2, <1>3, <1>4, ForwardingCases

LEMMA NothingIsTyped ==
  NoCache \in [0 .. PBP_CACHE_SIZE - 1 -> CacheEntry] /\ NoSlow \in SlowPath
  /\ Nobody \in [iface: Pbps \cup {None}, mbufs: Seq(Packet)]
BY ZeroIsAnEntry DEF NoCache, CacheEntry, NoSlow, SlowPath, Nobody

LEMMA DisposedType ==
  ASSUME fate \in [1 .. loop.nr_mbufs -> Nat], NEW S
  PROVE  /\ Disposed(S) \in [1 .. loop.nr_mbufs -> Nat]
         /\ \A i \in 1 .. loop.nr_mbufs :
              Disposed(S)[i] = IF i \in S THEN fate[i] + 1 ELSE fate[i]
<1>1. DOMAIN fate = 1 .. loop.nr_mbufs /\ \A i \in 1 .. loop.nr_mbufs : fate[i] \in Nat
  OBVIOUS
<1> QED
  BY <1>1 DEF Disposed

\* A burst arrives.
LEMMA RxKeepsLoops ==
  ASSUME ControlInv, LoopsInv, NEW p \in Pbps, NEW n \in 1 .. MaxBurst,
         NEW mbufs \in [1 .. MaxBurst -> Packet], RxBurst(p, SubSeq(mbufs, 1, n))
  PROVE  /\ BurstType' /\ BurstInv' /\ PortInv'
         /\ loop'.pc = "peek" /\ slow' = NoSlow /\ cache' = NoCache /\ posted' = <<>>
         /\ decided' = <<>> /\ seen' = {} /\ fate' = [i \in 1 .. loop'.nr_mbufs |-> 0]
         /\ crashed' = crashed
<1> PICK packets : packets = SubSeq(mbufs, 1, n)
  OBVIOUS
<1>1. packets \in Seq(Packet)
  BY BurstAssumption
<1>2. Len(packets) \in Nat /\ Len(packets) \in 1 .. MaxBurst
  BY <1>1 DEF RxBurst, Receive
<1>3. /\ loop'.pc = "peek" /\ loop'.nr_mbufs = Len(packets)
      /\ posted' = <<>> /\ decided' = <<>>
  BY DEF RxBurst, Receive, NoBurst
<1>4. /\ burst' = [iface |-> p, mbufs |-> packets] /\ cache' = NoCache /\ slow' = NoSlow
      /\ fate' = [i \in 1 .. Len(packets) |-> 0] /\ seen' = {} /\ IsUp(p) /\ state' = state
      /\ crashed' = crashed
  BY DEF RxBurst, TablesUnchanged, vars
<1>5. BurstType'
  BY <1>1, <1>2, <1>3, <1>4, NothingIsTyped DEF BurstType
<1>6. BurstInv'
  BY <1>2, <1>3, <1>4 DEF BurstInv, NoSlow
<1>7. PortInv'
  BY <1>4 DEF PortInv, IsUp
<1> QED
  BY <1>3, <1>4, <1>5, <1>6, <1>7

\* What Posted does to the burst.
LEMMA PostedKeepsLoops ==
  ASSUME LoopsInv, Posted, fate' \in [1 .. loop.nr_mbufs -> Nat]
  PROVE  /\ BurstType' /\ BurstInv' /\ PortInv'
         /\ loop'.nr_mbufs = loop.nr_mbufs
<1>1. /\ loop \in LoopType /\ loop.pc \in {"restart", "last"} /\ slow' = NoSlow
      /\ state' = state
  BY DEF Posted, Post, Posting, LoopsInv, DeliveryInv, TablesUnchanged, vars
<1>2. CASE loop.pc = "last"
  <2>1. /\ loop'.pc = "idle" /\ loop'.nr_mbufs = loop.nr_mbufs
        /\ burst' = Nobody /\ cache' = NoCache
    BY <1>2 DEF Posted, Post, NoBurst
  <2>2. BurstType'
    BY <1>1, <2>1, NothingIsTyped DEF BurstType
  <2> QED
    BY <1>1, <2>1, <2>2 DEF BurstInv, PortInv, NoSlow
<1>3. CASE loop.pc = "restart"
  <2>1. /\ loop'.pc = "peek" /\ loop'.nr_mbufs = loop.nr_mbufs
        /\ burst' = burst /\ cache' = cache /\ waits' = waits
    BY <1>1, <1>3 DEF Posted, Post, LoopType
  <2>2. BurstType'
    BY <1>1, <2>1, NothingIsTyped DEF BurstType, LoopsInv
  <2> QED
    BY <1>1, <1>3, <2>1, <2>2 DEF BurstInv, PortInv, NoSlow, LoopsInv, IsUp
<1> QED
  BY <1>1, <1>2, <1>3

\* The port of the burst: no other step of the burst changes it.
LEMMA SameBurst ==
  ASSUME LoopsInv, UNCHANGED <<loop, decided, burst, waits, state>>,
         cache' \in [0 .. PBP_CACHE_SIZE - 1 -> CacheEntry],
         slow' \in SlowPath, fate' \in [1 .. loop.nr_mbufs -> Nat],
         slow'.pc = "none" => slow' = NoSlow,
         slow'.pc # "none" => Posting /\ LatestIdentifier[1] = "multicast"
  PROVE  BurstType' /\ BurstInv' /\ PortInv'
BY DEF LoopsInv, BurstType, BurstInv, PortInv, IsUp, Posting, LatestIdentifier

OneMoreAt(invt, k, given) == [invt EXCEPT ![k] = Append(@, given)]

\* One round of the inner loop: member k is passed over, or takes a packet.
PassesOver(k) ==
  /\ slow'.invt = slow.invt /\ slow'.consumed = slow.consumed
  /\ slow'.idx_hop = IF MemberAt(slow.group, k) = Free THEN slow.idx_hop ELSE slow.idx_hop + 1
Takes(k, given) ==
  /\ slow'.invt = OneMoreAt(slow.invt, k, given)
  /\ MemberAt(slow.group, k) # Free /\ Reachable(MemberAt(slow.group, k).next_hop)
  /\ slow'.idx_hop = slow.idx_hop + 1
  /\ \/ /\ given = Copy /\ slow'.consumed = slow.consumed
        /\ slow.idx_hop + 1 # NrHops(slow.group)
     \/ /\ given = slow.packet /\ slow'.consumed = TRUE
        /\ slow.idx_hop + 1 = NrHops(slow.group)

\* The slow path after a round, without and with a packet taken.
Passed(s, next, idx) == [s EXCEPT !.iptr = next, !.idx_hop = idx]
Taken(s, k, given, consumed) ==
  [s EXCEPT !.invt[k] = Append(@, given), !.consumed = consumed]

RoundEnds(s, t, next, idx) ==
  /\ t \in SlowPath /\ t.pc = "copy" /\ t.group = s.group
  /\ t.packet = s.packet /\ t.iptr = next /\ t.idx_hop = idx

RoundTakes(s, t, k, next, idx, given, consumed) ==
  /\ RoundEnds(s, t, next, idx)
  /\ t.consumed = consumed /\ t.invt = OneMoreAt(s.invt, k, given)

LEMMA PassedFields ==
  ASSUME NEW s \in SlowPath, s.pc = "copy", NEW idx \in Nat, NEW next \in Nat
  PROVE  LET step == Passed(s, next, idx)
         IN  RoundEnds(s, step, next, idx) /\ step.consumed = s.consumed /\ step.invt = s.invt
BY DEF SlowPath, Passed, RoundEnds

LEMMA RoundFields ==
  ASSUME NEW s \in SlowPath, s.pc = "copy", NEW k \in Slots, NEW idx \in Nat, NEW next \in Nat,
         NEW given \in Nat, NEW consumed \in BOOLEAN
  PROVE  RoundTakes(s, Taken(Passed(s, next, idx), k, given, consumed), k, next, idx, given,
                    consumed)
<1> DEFINE step == Passed(s, next, idx)
           invt == [s.invt EXCEPT ![k] = Append(s.invt[k], given)]
           taken == Taken(step, k, given, consumed)
<1>1. /\ step \in SlowPath /\ step.pc = "copy" /\ step.group = s.group
      /\ step.packet = s.packet /\ step.iptr = next /\ step.idx_hop = idx
      /\ step.invt = s.invt
  BY PassedFields DEF RoundEnds
<1>2. taken = [[step EXCEPT !.invt = invt] EXCEPT !.consumed = consumed]
  BY <1>1 DEF Taken
<1>3. invt \in [Slots -> Seq(Nat)]
  <2>1. s.invt \in [Slots -> Seq(Nat)]
    BY DEF SlowPath
  <2> QED
    BY <2>1, AppendProperties
<1>4. invt = OneMoreAt(s.invt, k, given)
  BY DEF OneMoreAt
<1> HIDE DEF invt, step, taken
<1>5. /\ taken \in SlowPath /\ taken.pc = step.pc /\ taken.group = step.group
      /\ taken.packet = step.packet /\ taken.iptr = step.iptr /\ taken.idx_hop = step.idx_hop
      /\ taken.consumed = consumed /\ taken.invt = invt
  BY <1>1, <1>2, <1>3 DEF SlowPath
<1>6. /\ RoundEnds(s, taken, next, idx) /\ taken.consumed = consumed
      /\ taken.invt = OneMoreAt(s.invt, k, given)
  BY <1>1, <1>4, <1>5 DEF RoundEnds
<1> QED
  BY <1>6 DEF step, taken, RoundTakes

LEMMA CopyRound ==
  ASSUME slow \in SlowPath, CopyToMember, NEW k, k = slow.iptr
  PROVE  /\ k \in Slots /\ k \in Nat /\ slow.pc = "copy" /\ slow'.pc = "copy"
         /\ slow.idx_hop < NrHops(slow.group)
         /\ slow'.group = slow.group /\ slow'.packet = slow.packet /\ slow'.iptr = k + 1
         /\ PassesOver(k) \/ Takes(k, Copy) \/ Takes(k, slow.packet)
         /\ slow' \in SlowPath
         /\ UNCHANGED <<deliveryVars, burst, cache, fate, crashed, waits, bursts, seen>>
         /\ TablesUnchanged
<1> PICK member : member = MemberAt(slow.group, k)
  OBVIOUS
<1> PICK idx : idx = IF member = Free THEN slow.idx_hop ELSE slow.idx_hop + 1
  OBVIOUS
<1> DEFINE isLast == slow.idx_hop + 1 = NrHops(slow.group)
           given  == IF isLast THEN slow.packet ELSE Copy
           step   == Passed(slow, k + 1, idx)
<1>1. /\ k \in Slots /\ slow.pc = "copy" /\ slow.idx_hop < NrHops(slow.group)
      /\ UNCHANGED <<deliveryVars, burst, cache, fate, crashed, waits, bursts, seen>>
      /\ TablesUnchanged
  BY DEF CopyToMember, MayCopy
<1>2. \/ slow' = step
      \/ /\ member # Free /\ Reachable(member.next_hop)
         /\ slow' = Taken(step, k, given, step.consumed \/ isLast)
  BY DEF CopyToMember, Passed, Taken
<1>3. /\ k \in Nat /\ k + 1 \in Nat /\ idx \in Nat /\ slow.packet \in Nat
      /\ Copy \in Nat /\ slow.consumed \in BOOLEAN
  BY <1>1 DEF SlowPath, Copy, Slots
<1>4. /\ RoundEnds(slow, step, k + 1, idx)
      /\ step.consumed = slow.consumed /\ step.invt = slow.invt
  BY <1>1, <1>3, PassedFields
<1>5. CASE slow' = step
  BY <1>1, <1>3, <1>4, <1>5 DEF PassesOver, RoundEnds
<1>6. CASE /\ member # Free /\ Reachable(member.next_hop)
           /\ slow' = Taken(step, k, given, step.consumed \/ isLast)
  <2>1. CASE isLast
    <3>1. (step.consumed \/ isLast) = TRUE /\ given = slow.packet
      BY <2>1
    <3>2. slow' = Taken(step, k, slow.packet, TRUE)
      BY <1>6, <3>1, Zenon
    <3>3. RoundTakes(slow, slow', k, k + 1, idx, slow.packet, TRUE)
      BY <1>1, <1>3, <2>1, <3>1, <3>2, RoundFields
    <3>4. Takes(k, slow.packet)
      BY <1>6, <2>1, <3>3 DEF Takes, RoundEnds, RoundTakes
    <3> QED
      BY <1>1, <1>3, <3>3, <3>4 DEF RoundEnds, RoundTakes
  <2>2. CASE ~isLast
    <3>1. (step.consumed \/ isLast) = slow.consumed /\ given = Copy
      BY <1>3, <1>4, <2>2
    <3>2. slow' = Taken(step, k, Copy, slow.consumed)
      BY <1>6, <3>1, Zenon
    <3>3. RoundTakes(slow, slow', k, k + 1, idx, Copy, slow.consumed)
      BY <1>1, <1>3, <2>2, <3>1, <3>2, RoundFields
    <3>4. Takes(k, Copy)
      BY <1>6, <2>2, <3>3 DEF Takes, RoundEnds, RoundTakes
    <3> QED
      BY <1>1, <1>3, <3>3, <3>4 DEF RoundEnds, RoundTakes
  <2> QED
    BY <2>1, <2>2
<1> QED
  BY <1>2, <1>5, <1>6

\* The end of a packet: the next packet is copied, or all are sent.
LEMMA EndOfCopies ==
  ASSUME slow \in SlowPath, loop \in LoopType, EndOfMembers
  PROVE  /\ slow.pc = "copy" /\ slow' \in SlowPath
         /\ slow'.group = slow.group /\ slow'.invt = slow.invt
         /\ ~(slow.idx_hop < NrHops(slow.group) /\ slow.iptr \in Slots)
         /\ \/ /\ slow.packet < loop.current /\ slow'.pc = "copy"
               /\ slow'.packet = slow.packet + 1 /\ slow'.iptr = 0
               /\ slow'.idx_hop = 0 /\ slow'.consumed = FALSE
            \/ /\ ~(slow.packet < loop.current) /\ slow'.pc = "send" /\ slow'.iptr = 0
               /\ slow'.packet = slow.packet
         /\ fate' = IF slow.consumed THEN fate ELSE Disposed({slow.packet})
         /\ UNCHANGED <<deliveryVars, burst, cache, crashed, waits, bursts, seen>>
         /\ TablesUnchanged
<1>1. /\ slow.pc = "copy"
      /\ ~(slow.idx_hop < NrHops(slow.group) /\ slow.iptr \in Slots)
      /\ fate' = IF slow.consumed THEN fate ELSE Disposed({slow.packet})
      /\ UNCHANGED <<deliveryVars, burst, cache, crashed, waits, bursts, seen>>
      /\ TablesUnchanged
      /\ slow' = IF slow.packet < loop.current
                 THEN [slow EXCEPT !.packet = @ + 1, !.idx_hop = 0, !.iptr = 0,
                                   !.consumed = FALSE]
                 ELSE [slow EXCEPT !.pc = "send", !.iptr = 0]
  BY DEF EndOfMembers, MayCopy
<1>0. slow.pc = "copy" /\ slow.packet + 1 \in Nat
  BY <1>1 DEF SlowPath
<1>2. CASE slow.packet < loop.current
  <2>1. slow' = [slow EXCEPT !.packet = @ + 1, !.idx_hop = 0, !.iptr = 0, !.consumed = FALSE]
    BY <1>1, <1>2
  <2>2. /\ slow' \in SlowPath /\ slow'.pc = "copy" /\ slow'.group = slow.group
        /\ slow'.invt = slow.invt /\ slow'.packet = slow.packet + 1 /\ slow'.iptr = 0
        /\ slow'.idx_hop = 0 /\ slow'.consumed = FALSE
    BY <1>0, <2>1 DEF SlowPath
  <2> QED
    BY <1>1, <1>2, <2>2
<1>3. CASE ~(slow.packet < loop.current)
  <2>1. slow' = [slow EXCEPT !.pc = "send", !.iptr = 0]
    BY <1>1, <1>3
  <2>2. /\ slow' \in SlowPath /\ slow'.pc = "send" /\ slow'.group = slow.group
        /\ slow'.invt = slow.invt /\ slow'.packet = slow.packet /\ slow'.iptr = 0
    BY <1>0, <2>1 DEF SlowPath
  <2> QED
    BY <1>1, <1>3, <2>2
<1> QED
  BY <1>2, <1>3

LEMMA BeginEffects ==
  ASSUME loop \in LoopType, BeginSlowPath, NEW b, b = LatestIdentifier[2],
         NEW m, m = words[burst.iface][b].NHLFE
  PROVE  /\ Posting /\ LatestIdentifier[1] = "multicast" /\ slow.pc = "none"
         /\ \/ /\ m \in Mnexthops /\ mnexthop[m] # Free /\ ~crashed'
               /\ slow' = [NoSlow EXCEPT !.pc = "copy", !.group = m, !.packet = loop.latest_unsent]
               /\ slow' \in SlowPath /\ slow'.pc = "copy" /\ slow'.group = m
               /\ slow'.packet = loop.latest_unsent /\ slow'.iptr = 0 /\ slow'.idx_hop = 0
               /\ slow'.consumed = FALSE /\ slow'.invt = [k \in Slots |-> <<>>]
            \/ /\ ~(m \in Mnexthops /\ mnexthop[m] # Free) /\ crashed' = TRUE /\ slow' = slow
         /\ UNCHANGED <<deliveryVars, burst, cache, fate, waits, bursts, seen>>
         /\ TablesUnchanged
<1> DEFINE found == m \in Mnexthops /\ mnexthop[m] # Free
<1>1. /\ Posting /\ LatestIdentifier[1] = "multicast" /\ slow.pc = "none"
      /\ slow' = IF found THEN [NoSlow EXCEPT !.pc = "copy", !.group = m,
                                              !.packet = loop.latest_unsent]
                 ELSE slow
      /\ crashed' = ~found
      /\ UNCHANGED <<deliveryVars, burst, cache, fate, waits, bursts, seen>> /\ TablesUnchanged
  BY DEF BeginSlowPath
<1>2. CASE found
  <2>1. slow' = [NoSlow EXCEPT !.pc = "copy", !.group = m, !.packet = loop.latest_unsent]
        /\ ~crashed'
    BY <1>1, <1>2
  <2>2. loop.latest_unsent \in Nat
    BY DEF LoopType
  <2>3. /\ NoSlow \in SlowPath /\ NoSlow.iptr = 0 /\ NoSlow.idx_hop = 0
        /\ NoSlow.consumed = FALSE /\ NoSlow.invt = [k \in Slots |-> <<>>]
    BY NothingIsTyped DEF NoSlow
  <2>4. /\ slow' \in SlowPath /\ slow'.pc = "copy" /\ slow'.group = m
        /\ slow'.packet = loop.latest_unsent /\ slow'.iptr = NoSlow.iptr
        /\ slow'.idx_hop = NoSlow.idx_hop /\ slow'.consumed = NoSlow.consumed
        /\ slow'.invt = NoSlow.invt
    BY <1>2, <2>1, <2>2, <2>3 DEF SlowPath
  <2>5. m \in Mnexthops /\ mnexthop[m] # Free
    BY <1>2
  <2> HIDE DEF found
  <2> QED
    BY <1>1, <2>1, <2>3, <2>4, <2>5
<1>3. CASE ~found
  BY <1>1, <1>3
<1> QED
  BY <1>2, <1>3

LEMMA SendEffects ==
  ASSUME slow \in SlowPath, SendToMember, NEW k, k = slow.iptr
  PROVE  /\ slow.pc = "send" /\ k \in Slots /\ k \in Nat /\ slow' \in SlowPath
         /\ slow'.pc = "send" /\ slow'.invt = slow.invt /\ slow'.group = slow.group
         /\ \/ /\ ~crashed'
               /\ fate' = Disposed({slow.invt[k][i] : i \in DOMAIN slow.invt[k]})
               /\ slow'.iptr = k + 1
            \/ /\ crashed' /\ fate' = fate /\ slow' = slow
               /\ slow.invt[k] # <<>> /\ ~Reachable(hopOf[slow.group][k])
         /\ UNCHANGED <<deliveryVars, burst, cache, waits, bursts, seen>>
         /\ TablesUnchanged
<1>1. /\ slow.pc = "send" /\ k \in Slots /\ k \in Nat
      /\ crashed' = (slow.invt[k] # <<>> /\ ~Reachable(hopOf[slow.group][k]))
      /\ fate' = IF crashed' THEN fate
                 ELSE Disposed({slow.invt[k][i] : i \in DOMAIN slow.invt[k]})
      /\ slow' = IF crashed' THEN slow ELSE [slow EXCEPT !.iptr = k + 1]
      /\ UNCHANGED <<deliveryVars, burst, cache, waits, bursts, seen>>
      /\ TablesUnchanged
  BY DEF SendToMember, Slots
<1>2. /\ [slow EXCEPT !.iptr = k + 1] \in SlowPath
      /\ [slow EXCEPT !.iptr = k + 1].iptr = k + 1
      /\ [slow EXCEPT !.iptr = k + 1].pc = slow.pc
      /\ [slow EXCEPT !.iptr = k + 1].group = slow.group
      /\ [slow EXCEPT !.iptr = k + 1].invt = slow.invt
  BY <1>1 DEF SlowPath
<1>3. CASE crashed'
  BY <1>1, <1>3
<1>4. CASE ~crashed'
  BY <1>1, <1>2, <1>4
<1> QED
  BY <1>3, <1>4

LEMMA BurstStepKeepsLoops ==
  ASSUME ControlInv, LoopsInv, BurstStep
  PROVE  BurstType' /\ BurstInv' /\ PortInv'
<1>1. /\ TablesType /\ SpineType /\ loop \in LoopType /\ slow \in SlowPath
      /\ cache \in [0 .. PBP_CACHE_SIZE - 1 -> CacheEntry]
      /\ fate \in [1 .. loop.nr_mbufs -> Nat]
      /\ slow.pc = "none" => slow = NoSlow
      /\ slow.pc # "none" => Posting /\ LatestIdentifier[1] = "multicast"
  BY DEF ControlInv, LoopsInv, SpineInv, DeliveryInv, BurstType, BurstInv
<1>2. TablesUnchanged => state' = state
  BY DEF TablesUnchanged, vars
<1>0. \A S : Disposed(S) \in [1 .. loop.nr_mbufs -> Nat]
  BY <1>1, DisposedType
<1>3. CASE Lookup
  <2>1. /\ UNCHANGED <<deliveryVars, burst, slow, fate, waits>> /\ TablesUnchanged /\ MayPeek
    BY <1>3 DEF Lookup
  <2> PICK b, found : b = NextPacket.label /\ found = labels[burst.iface][b]
    OBVIOUS
  <2> PICK hop : hop = CASE found = Free \/ ~found.is_unicast -> cache[CacheIndex(b)].hop
                         [] OTHER -> IF nexthop[found.NHLFE] # Free THEN found.NHLFE ELSE None
    OBVIOUS
  <2> PICK valid : valid = (found # Free /\ Found(found))
    OBVIOUS
  <2>2. b \in Labels /\ CacheIndex(b) \in 0 .. PBP_CACHE_SIZE - 1 /\ burst.iface \in Pbps
    BY <2>1, PacketToDecide, IndexInCache
  <2>3. found \in LabelEntry \cup {Free}
    BY <1>1, <2>2 DEF SpineType, TypeOK
  <2>4. hop \in Nexthops \cup {None}
    BY <1>1, <2>2, <2>3, EntryFields DEF CacheEntry
  <2>5. cache' = [cache EXCEPT ![CacheIndex(b)] = [label |-> b, is_valid |-> valid, hop |-> hop]]
    BY <1>3 DEF Lookup
  <2>6. [label |-> b, is_valid |-> valid, hop |-> hop] \in CacheEntry
    BY <2>2, <2>4 DEF CacheEntry
  <2>7. cache' \in [0 .. PBP_CACHE_SIZE - 1 -> CacheEntry]
    BY <1>1, <2>5, <2>6
  <2> QED
    BY <1>1, <1>2, <2>1, <2>7, SameBurst DEF deliveryVars
<1>4. CASE Decide
  <2>1. /\ Proceed(Decision(NextPacket)) /\ MayPeek /\ UNCHANGED <<fwdVars, waits>>
        /\ TablesUnchanged
    BY <1>4 DEF Decide
  <2>2. /\ loop'.pc \in {"peek", "restart"} /\ loop'.nr_mbufs = loop.nr_mbufs
        /\ loop.pc = "peek" /\ slow.pc = "none"
    BY <1>1, <2>1 DEF Proceed, MayPeek, LoopType, Posting
  <2> QED
    BY <1>1, <1>2, <2>1, <2>2 DEF fwdVars, BurstType, BurstInv, PortInv, IsUp, LoopsInv, NoSlow
<1>5. CASE DecideCrashes
  <2>1. UNCHANGED <<deliveryVars, burst, cache, slow, fate, waits>> /\ TablesUnchanged
    BY <1>5 DEF DecideCrashes
  <2> QED
    BY <1>1, <1>2, <2>1, SameBurst DEF deliveryVars
<1>6. CASE EndOfBurst
  <2>1. Drain /\ UNCHANGED <<fwdVars, waits>> /\ TablesUnchanged
    BY <1>6 DEF EndOfBurst
  <2>2. loop.pc = "peek" /\ loop.nr_mbufs > 0 /\ loop.peek = loop.nr_mbufs /\ slow.pc = "none"
    BY <1>1, <2>1 DEF Drain, LoopsInv, BurstInv, Posting
  <2>3. loop.latest_unsent # 0
    BY <1>1, <2>2 DEF LoopsInv, DeliveryInv, LoopInv, LoopType
  <2>4. loop'.pc = "last" /\ loop'.nr_mbufs = loop.nr_mbufs
    BY <1>1, <2>1, <2>3 DEF Drain, LoopType
  <2> QED
    BY <1>1, <1>2, <2>1, <2>2, <2>4 DEF fwdVars, BurstType, BurstInv, PortInv, IsUp, LoopsInv, NoSlow
<1>7. CASE PostAtOnce
  <2>1. fate' \in [1 .. loop.nr_mbufs -> Nat] /\ Posted
    BY <1>1, <1>7, DisposedType DEF PostAtOnce
  <2> QED
    BY <2>1, PostedKeepsLoops
<1>8. CASE BeginSlowPath
  <2>1. /\ Posting /\ LatestIdentifier[1] = "multicast" /\ slow' \in SlowPath
        /\ slow'.pc = "none" => slow' = NoSlow
        /\ UNCHANGED <<deliveryVars, burst, cache, fate, waits>> /\ TablesUnchanged
    BY <1>1, <1>8, BeginEffects
  <2> QED
    BY <1>1, <1>2, <2>1, SameBurst DEF deliveryVars
<1>9. CASE CopyToMember
  <2>1. /\ slow.pc = "copy" /\ slow'.pc = "copy" /\ slow' \in SlowPath
        /\ UNCHANGED <<deliveryVars, burst, cache, fate, waits>> /\ TablesUnchanged
    BY <1>1, <1>9, CopyRound
  <2> QED
    BY <1>1, <1>2, <2>1, SameBurst DEF deliveryVars
<1>10. CASE EndOfMembers
  <2>1. /\ slow.pc = "copy" /\ slow'.pc \in {"copy", "send"} /\ slow' \in SlowPath
        /\ fate' \in [1 .. loop.nr_mbufs -> Nat]
        /\ UNCHANGED <<deliveryVars, burst, cache, waits>> /\ TablesUnchanged
    BY <1>0, <1>1, <1>10, EndOfCopies
  <2> QED
    BY <1>1, <1>2, <2>1, SameBurst DEF deliveryVars
<1>11. CASE SendToMember
  <2>1. /\ slow.pc = "send" /\ slow'.pc = "send" /\ slow' \in SlowPath
        /\ fate' \in [1 .. loop.nr_mbufs -> Nat]
        /\ UNCHANGED <<deliveryVars, burst, cache, waits>> /\ TablesUnchanged
    BY <1>0, <1>1, <1>11, SendEffects
  <2> QED
    BY <1>1, <1>2, <2>1, SameBurst DEF deliveryVars
<1>12. CASE EndOfSlowPath
  <2>1. fate' \in [1 .. loop.nr_mbufs -> Nat] /\ Posted
    BY <1>1, <1>12 DEF EndOfSlowPath
  <2> QED
    BY <2>1, PostedKeepsLoops
<1> QED
  BY <1>3, <1>4, <1>5, <1>6, <1>7, <1>8, <1>9, <1>10, <1>11, <1>12 DEF BurstStep

\* Calls leave the burst alone, and the port of the burst is not reclaimed.
LEMMA ControlKeepsLoops ==
  ASSUME ControlInv, LoopsInv, ControlStep
  PROVE  BurstType' /\ BurstInv' /\ PortInv'
<1>1. /\ UNCHANGED <<loop, decided, burst, cache, slow, fate>>
      /\ BurstType /\ BurstInv /\ PortInv /\ QueueInv
      /\ rcu \in Seq(Pbps) /\ state \in [Pbps -> {"absent", "up", "dying"}]
  BY DEF ControlStep, deliveryVars, fwdVars, LoopsInv, ControlInv, SpineInv, SpineType, TypeOK
<1>2. BurstType' /\ BurstInv'
  BY <1>1 DEF BurstType, BurstInv, Posting, LatestIdentifier
<1>3. ASSUME burst # Nobody
      PROVE  state'[burst.iface] = "up" \/ (state'[burst.iface] = "dying" /\ burst.iface \in waits')
  <2> PICK q : q = burst.iface
    OBVIOUS
  <2>1. q \in Pbps
    BY <1>1, <1>3 DEF BurstInv
  <2>2. state[q] = "up" \/ (state[q] = "dying" /\ q \in waits)
    BY <1>1, <1>3 DEF PortInv, IsUp
  <2>3. CASE GracePeriod /\ \E t \in Threads : Begin(t) \/ Continue(t)
    <3>1. UNCHANGED <<state, rcu>> \/ \E p \in Pbps : ComesUp(p) \/ GoesDown(p)
      BY <2>3, CallPortSteps
    <3>2. state'[q] = state[q] \/ (state[q] = "up" /\ state'[q] = "dying")
      BY <1>1, <2>1, <2>2, <3>1 DEF ComesUp, GoesDown
    <3>3. q \in waits => q \in waits'
      BY <2>3 DEF GracePeriod
    <3>4. state[q] = "up" /\ state'[q] = "dying" => q \in waits'
      BY <1>3, <2>1, <2>3 DEF GracePeriod, IsUp
    <3> QED
      BY <2>2, <3>2, <3>3, <3>4
  <2>4. CASE UNCHANGED waits /\ RcuStep /\ (rcu # <<>> => Head(rcu) \notin waits)
    <3>1. UNCHANGED <<state, rcu>> \/ \E p \in Pbps : DetachPort(p)
      BY <2>4, CallbackPortSteps
    <3>2. ASSUME NEW p \in Pbps, DetachPort(p) PROVE state'[q] = state[q]
      <4>1. /\ rcu # <<>> /\ Head(rcu) = p /\ state' = [state EXCEPT ![p] = "absent"]
        BY <3>2 DEF DetachPort, TearsDown
      <4>2. 1 \in 1 .. Len(rcu) /\ rcu[1] = p
        BY <1>1, <4>1
      <4>3. state[p] = "dying" /\ p \notin waits
        BY <1>1, <2>4, <4>1, <4>2 DEF QueueInv
      <4>4. p # q
        BY <2>2, <4>3
      <4> QED
        BY <1>1, <2>1, <4>1, <4>4
    <3>3. state'[q] = state[q]
      BY <3>1, <3>2
    <3> QED
      BY <2>2, <2>4, <3>3
  <2> QED
    BY <2>3, <2>4 DEF ControlStep
<1> QED
  BY <1>1, <1>2, <1>3 DEF PortInv, IsUp

LEMMA StepKeepsLoops ==
  ASSUME ControlInv, LoopsInv, [ForwardingNext]_allVars
  PROVE  LoopsInv'
<1>1. DeliveryInv'
  BY ForwardingIsDelivery, DeliveryStep DEF ControlInv, LoopsInv
<1>2. CASE UNCHANGED allVars
  BY <1>1, <1>2 DEF allVars, deliveryVars, fwdVars, vars, LoopsInv, BurstType, BurstInv, PortInv,
                    IsUp, Posting, LatestIdentifier
<1> QED
  BY <1>1, <1>2, ForwardingCases, RxKeepsLoops, BurstStepKeepsLoops, ControlKeepsLoops DEF LoopsInv

(***************************************************************************)
(* The tables the burst starts with.                                       *)
(***************************************************************************)
\* The fields of the entries that Populated writes.
LEMMA PopulatedTables ==
  ASSUME Populated, call = [a \in Processes |-> Idle]
  PROVE  /\ labels \in [Pbps -> [Labels -> LabelEntry]] /\ words = labels
         /\ \A p \in Pbps, b \in Labels :
              /\ labels[p][b].NHLFE = 0
              /\ b = 1 => labels[p][b].is_unicast = FALSE
              /\ b # 1 => labels[p][b].is_unicast = TRUE
              /\ Settled(p, b)
         /\ local \in [Nexthops -> Pbps]
         /\ hopOf \in [Mnexthops -> [Slots -> Nexthops]]
         /\ mnexthop \in [Mnexthops -> MulticastNextHops]
         /\ \A m \in Mnexthops :
              /\ mnexthop[m].ref_cnt = IF m = 0 THEN Cardinality(Pbps) ELSE 0
              /\ \A k \in Slots :
                   IF m = 0 /\ k \in Nexthops
                   THEN /\ mnexthop[m].nexthops[k] \in Member
                        /\ mnexthop[m].nexthops[k].next_hop = k /\ hopOf[m][k] = k
                   ELSE mnexthop[m].nexthops[k] = Free
         /\ nexthop = [h \in Nexthops |->
              (IF h \in Slots THEN 1 ELSE 0) + (IF h = 0 THEN Cardinality(Pbps) ELSE 0)]
<1>1. PICK at \in [Nexthops -> Pbps], push \in [Nexthops -> PushLabels], swap \in SwapLabels :
        LET unicast   == [is_unicast |-> TRUE, NHLFE |-> 0, swapped_label |-> swap]
            multicast == [is_unicast |-> FALSE, NHLFE |-> 0, swapped_label |-> swap]
            fib == [b \in Labels |-> IF b = 1 THEN multicast ELSE unicast]
        IN  /\ \A p \in Pbps : \E h \in Nexthops : at[h] = p
            /\ push[0] # swap
            /\ local = at
            /\ labels = [p \in Pbps |-> fib]
            /\ words = labels
            /\ mnexthop = [m \in Mnexthops |->
                 [nexthops |-> [k \in Slots |-> IF m = 0 /\ k \in Nexthops
                                                THEN [next_hop |-> k, label_to_push |-> push[k]]
                                                ELSE Free],
                  ref_cnt |-> IF m = 0 THEN Cardinality(Pbps) ELSE 0]]
            /\ hopOf = [m \in Mnexthops |-> [k \in Slots |-> IF k \in Nexthops THEN k ELSE 0]]
            /\ nexthop = [h \in Nexthops |->
                 (IF h \in Slots THEN 1 ELSE 0) + (IF h = 0 THEN Cardinality(Pbps) ELSE 0)]
  BY DEF Populated
<1> DEFINE unicast   == [is_unicast |-> TRUE, NHLFE |-> 0, swapped_label |-> swap]
           multicast == [is_unicast |-> FALSE, NHLFE |-> 0, swapped_label |-> swap]
           fib == [b \in Labels |-> IF b = 1 THEN multicast ELSE unicast]
<1>2. unicast \in LabelEntry /\ multicast \in LabelEntry
  BY ZeroIsAnEntry DEF LabelEntry
<1>3. labels = [p \in Pbps |-> fib] /\ words = labels
  BY <1>1
<1>4. labels \in [Pbps -> [Labels -> LabelEntry]]
  <2> HIDE DEF unicast, multicast
  <2> QED
    BY <1>2, <1>3
<1>5. ASSUME NEW p \in Pbps, NEW b \in Labels
      PROVE  /\ labels[p][b].NHLFE = 0
             /\ b = 1 => labels[p][b].is_unicast = FALSE
             /\ b # 1 => labels[p][b].is_unicast = TRUE
             /\ Settled(p, b)
  <2>1. labels[p][b] = IF b = 1 THEN multicast ELSE unicast
    BY <1>3
  <2>2. labels[p][b] # Free
    BY <1>4, FreeAssumption
  <2>3. \A a \in Processes : call[a].iface # p
    BY ProcessAssumption DEF Idle
  <2>4. Settled(p, b)
    BY <2>2, <2>3 DEF Settled
  <2> QED
    BY <2>1, <2>4
<1>6. Cardinality(Pbps) \in Nat
  BY PortsAssumption, FS_CardinalityType
<1>7. \A k \in Nexthops : [next_hop |-> k, label_to_push |-> push[k]] \in Member
  BY DEF Member
<1>8. ASSUME NEW m \in Mnexthops
      PROVE  /\ mnexthop[m] \in MulticastNextHops
             /\ mnexthop[m].ref_cnt = IF m = 0 THEN Cardinality(Pbps) ELSE 0
             /\ \A k \in Slots :
                  IF m = 0 /\ k \in Nexthops
                  THEN /\ mnexthop[m].nexthops[k] \in Member
                       /\ mnexthop[m].nexthops[k].next_hop = k /\ hopOf[m][k] = k
                  ELSE mnexthop[m].nexthops[k] = Free
  <2> DEFINE hops == [k \in Slots |-> IF m = 0 /\ k \in Nexthops
                                      THEN [next_hop |-> k, label_to_push |-> push[k]]
                                      ELSE Free]
             count == IF m = 0 THEN Cardinality(Pbps) ELSE 0
  <2>1. mnexthop[m] = [nexthops |-> hops, ref_cnt |-> count]
    BY <1>1
  <2>2. hops \in [Slots -> Member \cup {Free}] /\ count \in RefCounts
    <3>1. hops \in [Slots -> Member \cup {Free}]
      BY <1>7
    <3>2. count \in RefCounts
      BY <1>6, WidthAssumption DEF RefCounts
    <3> QED
      BY <3>1, <3>2
  <2>3. \A k \in Slots : hopOf[m][k] = IF k \in Nexthops THEN k ELSE 0
    BY <1>1
  <2>4. \A k \in Slots : IF m = 0 /\ k \in Nexthops
                         THEN hops[k] \in Member /\ hops[k].next_hop = k
                         ELSE hops[k] = Free
    BY <1>7
  <2>5. [nexthops |-> hops, ref_cnt |-> count] \in MulticastNextHops
    <3> HIDE DEF hops, count
    <3> QED
      BY <2>2 DEF MulticastNextHops
  <2> QED
    BY <2>1, <2>3, <2>4, <2>5
<1>9. mnexthop \in [Mnexthops -> MulticastNextHops]
  <2>1. mnexthop = [m \in Mnexthops |-> mnexthop[m]]
    BY <1>1
  <2> QED
    BY <1>8, <2>1
<1>10. hopOf \in [Mnexthops -> [Slots -> Nexthops]] /\ local \in [Nexthops -> Pbps]
  BY <1>1, ZeroIsAnEntry
<1>11. nexthop = [h \in Nexthops |->
         (IF h \in Slots THEN 1 ELSE 0) + (IF h = 0 THEN Cardinality(Pbps) ELSE 0)]
  BY <1>1
<1> QED
  BY <1>3, <1>4, <1>5, <1>8, <1>9, <1>10, <1>11

\* Each next hop has a member in group 0, all FIBs lead to next hop 0 and group 0.
LEMMA PopulatedCounts ==
  ASSUME Populated, call = [a \in Processes |-> Idle]
  PROVE  NexthopAccounting /\ MnexthopAccounting
<1>1. Cardinality(Pbps) \in Nat
  BY PortsAssumption, FS_CardinalityType
<1>2. ASSUME NEW n
      PROVE  /\ Fibs(TRUE, n) = IF n = 0 THEN Pbps ELSE {}
             /\ Fibs(FALSE, n) = IF n = 0 THEN Pbps ELSE {}
  <2>1. ASSUME NEW p \in Pbps, NEW b \in Labels
        PROVE  /\ Settled(p, b) /\ LeadsTo(labels[p][b], TRUE, n) <=> n = 0 /\ b # 1
               /\ Settled(p, b) /\ LeadsTo(labels[p][b], FALSE, n) <=> n = 0 /\ b = 1
    <3>1. /\ labels[p][b].NHLFE = 0 /\ Settled(p, b)
          /\ b = 1 => labels[p][b].is_unicast = FALSE
          /\ b # 1 => labels[p][b].is_unicast = TRUE
      BY PopulatedTables
    <3>2. labels[p][b] # Free
      BY <3>1 DEF Settled
    <3> QED
      BY <3>1, <3>2 DEF LeadsTo
  <2>2. 0 \in Labels /\ 1 \in Labels
    BY ZeroIsAnEntry
  <2>3. ASSUME NEW p \in Pbps
        PROVE  (p \in Fibs(TRUE, n) <=> n = 0) /\ (p \in Fibs(FALSE, n) <=> n = 0)
    <3>1. p \in Fibs(TRUE, n) <=> n = 0 /\ \E b \in Labels : b # 1
      BY <2>1 DEF Fibs
    <3>2. p \in Fibs(FALSE, n) <=> n = 0 /\ \E b \in Labels : b = 1
      BY <2>1 DEF Fibs
    <3>3. (\E b \in Labels : b # 1) /\ (\E b \in Labels : b = 1)
      BY <2>2
    <3> QED
      BY <3>1, <3>2, <3>3
  <2>4. Fibs(TRUE, n) \subseteq Pbps /\ Fibs(FALSE, n) \subseteq Pbps
    BY DEF Fibs
  <2>5. Fibs(TRUE, n) = IF n = 0 THEN Pbps ELSE {}
    BY <2>3, <2>4
  <2>6. Fibs(FALSE, n) = IF n = 0 THEN Pbps ELSE {}
    BY <2>3, <2>4
  <2> QED
    BY <2>5, <2>6
<1>3. ASSUME NEW h \in Nexthops
      PROVE  nexthop[h] # Free /\ nexthop[h] = Cardinality(Uses(h)) + Cardinality(Fibs(TRUE, h))
  <2>1. Uses(h) = IF h \in Slots THEN {<<0, h>>} ELSE {}
    <3>1. \A m \in Mnexthops, k \in Slots :
            mnexthop[m] # Free /\ mnexthop[m].nexthops[k] # Free
              /\ mnexthop[m].nexthops[k].next_hop = h <=> m = 0 /\ k = h
      BY PopulatedTables, FreeAssumption
    <3>2. \A m \in Mnexthops, k \in Slots : <<m, k>> \in Uses(h) <=> m = 0 /\ k = h
      BY <3>1 DEF Uses, Members
    <3>3. Uses(h) \subseteq Mnexthops \X Slots /\ 0 \in Mnexthops
      BY ZeroIsAnEntry DEF Uses
    <3> QED
      BY <3>2, <3>3
  <2>2. Cardinality(Uses(h)) = IF h \in Slots THEN 1 ELSE 0
    BY <2>1, FS_Singleton, FS_EmptySet
  <2>3. Cardinality(Fibs(TRUE, h)) = IF h = 0 THEN Cardinality(Pbps) ELSE 0
    BY <1>2, FS_EmptySet
  <2>4. nexthop[h] = (IF h \in Slots THEN 1 ELSE 0) + (IF h = 0 THEN Cardinality(Pbps) ELSE 0)
    BY PopulatedTables
  <2> PICK i, j \in Nat : /\ i = IF h \in Slots THEN 1 ELSE 0
                          /\ j = IF h = 0 THEN Cardinality(Pbps) ELSE 0
    BY <1>1
  <2>5. Cardinality(Uses(h)) = i /\ Cardinality(Fibs(TRUE, h)) = j /\ nexthop[h] = i + j
    BY <2>2, <2>3, <2>4
  <2>6. nexthop[h] \in Nat
    BY <2>5
  <2> QED
    BY <2>5, <2>6, FreeAssumption
<1>4. ASSUME NEW m \in Mnexthops
      PROVE  mnexthop[m] # Free /\ mnexthop[m].ref_cnt = Cardinality(Fibs(FALSE, m))
  <2>1. Cardinality(Fibs(FALSE, m)) = IF m = 0 THEN Cardinality(Pbps) ELSE 0
    BY <1>2, FS_EmptySet
  <2>2. mnexthop[m] \in MulticastNextHops
    BY PopulatedTables
  <2>3. mnexthop[m].ref_cnt = IF m = 0 THEN Cardinality(Pbps) ELSE 0
    BY PopulatedTables
  <2> QED
    BY <2>1, <2>2, <2>3, FreeAssumption
<1> QED
  BY <1>3, <1>4 DEF NexthopAccounting, MnexthopAccounting

LEMMA InitControl == ForwardingInit => ControlInv
<1> SUFFICES ASSUME ForwardingInit PROVE ControlInv
  OBVIOUS
<1>1. /\ Populated /\ state = [p \in Pbps |-> "up"] /\ rcu = <<>>
      /\ call = [a \in Processes |-> Idle]
  BY DEF ForwardingInit
<1>2. nexthop \in [Nexthops -> RefCounts]
  <2>1. Cardinality(Pbps) \in Nat
    BY PortsAssumption, FS_CardinalityType
  <2>2. ASSUME NEW h \in Nexthops
        PROVE  (IF h \in Slots THEN 1 ELSE 0) + (IF h = 0 THEN Cardinality(Pbps) ELSE 0)
                 \in RefCounts
    BY <2>1, WidthAssumption, FilledAssumption DEF RefCounts
  <2> QED
    BY <1>1, <2>2, PopulatedTables
<1>3. call \in [Processes -> [pc: Pc, iface: Pbps \cup {None}, index: Nat,
                              entry: LabelEntry \cup {Free}]]
  BY <1>1 DEF Idle, Pc
<1>4. TypeOK
  BY <1>1, <1>2, <1>3, PopulatedTables DEF TypeOK
<1>5. CallsInv /\ Exclusive
  BY <1>1 DEF CallsInv, Exclusive, Idle
<1>6. QueueInv
  BY <1>1 DEF QueueInv
<1>7. TablesType
  BY <1>1, PopulatedTables DEF TablesType
<1>8. WordsInv
  BY <1>1, PopulatedTables DEF WordsInv, MemberAt
<1> QED
  BY <1>1, <1>4, <1>5, <1>6, <1>7, <1>8, PopulatedCounts DEF ControlInv, SpineInv, SpineType

LEMMA InitLoops == ForwardingInit => LoopsInv
<1> SUFFICES ASSUME ForwardingInit PROVE LoopsInv
  OBVIOUS
<1>1. /\ DeliveryInit /\ burst = Nobody /\ cache = NoCache /\ slow = NoSlow /\ fate = <<>>
  BY DEF ForwardingInit
<1>2. loop.pc = "idle" /\ loop.nr_mbufs = 0
  BY <1>1 DEF DeliveryInit, NoBurst
<1>3. BurstType
  BY <1>1, <1>2, NothingIsTyped DEF BurstType
<1> QED
  BY <1>1, <1>2, <1>3, LoopInit DEF LoopsInv, BurstInv, PortInv, NoSlow

LEMMA InitNexthops == ForwardingInit => NexthopAccounting
BY PopulatedCounts DEF ForwardingInit

LEMMA ControlAndLoops == ForwardingSpec => [](ControlInv /\ LoopsInv)
<1>1. ForwardingInit => ControlInv /\ LoopsInv
  BY InitControl, InitLoops
<1>2. ControlInv /\ LoopsInv /\ [ForwardingNext]_allVars => (ControlInv /\ LoopsInv)'
  BY StepKeepsControl, StepKeepsLoops
<1> QED
  BY <1>1, <1>2, PTL DEF ForwardingSpec

\* The port whose label FIB a burst reads is not reclaimed under it
\* (unregister_e3interface frees the port by call_rcu).
THEOREM PortOutlivesBurst == ForwardingSpec => []BurstHoldsItsPort
<1>1. LoopsInv => BurstHoldsItsPort
  BY ProcessAssumption DEF LoopsInv, BurstInv, PortInv, BurstHoldsItsPort, IsUp, Nobody
<1> QED
  BY <1>1, ControlAndLoops, PTL

\* Each packet of a burst is posted once, in order and by its own decision,
\* whatever calls run beside the burst (provider_backbone_port_iface_input_iface).
THEOREM SpinePostsAsDecided == ForwardingSpec => []PostedAsDecided
<1>1. LoopsInv => PostedAsDecided
  BY DeliveryInvImplies DEF LoopsInv
<1> QED
  BY <1>1, ControlAndLoops, PTL

\* References are counted right beside the bursts, too: those of groups in any
\* case, those of next hops as long as none has as many uses as a uint16_t has
\* values (reference_common_nexthop), and then settled labels resolve.
THEOREM ReferencesBesideBursts ==
  ForwardingSpec => /\ []MnexthopAccounting
                    /\ []NoOverflow => [](NexthopAccounting /\ LabelsResolve)
<1>1. ControlInv => SpineInv /\ MnexthopAccounting
  BY DEF ControlInv, SpineInv
<1>2. SpineInv /\ NexthopAccounting /\ NoOverflow' /\ [ForwardingNext]_allVars
        => NexthopAccounting'
  BY ForwardingIsSpine, StepKeepsNexthops
<1>3. SpineInv /\ NexthopAccounting => LabelsResolve
  BY CountsResolve
<1> QED
  BY <1>1, <1>2, <1>3, InitNexthops, ControlAndLoops, PTL DEF ForwardingSpec

(***************************************************************************)
(* Where the packets are.                                                  *)
(***************************************************************************)
\* Packets of which nothing changes.
SameHolders(i) == \A k \in Slots : Holds(k, i)' <=> Holds(k, i)

LEMMA SameFate ==
  ASSUME NEW i, fate'[i] = fate[i], SameHolders(i), Joined => Joined'
  PROVE  /\ Once(i) => Once(i)'
         /\ Untouched(i) => Untouched(i)'
         /\ NobodyHolds(i) => NobodyHolds(i)'
         /\ AtMostOnce(i) => AtMostOnce(i)'
         /\ (\E k \in Slots : Holds(k, i)') <=> (\E k \in Slots : Holds(k, i))
BY DEF SameHolders, Once, Somewhere, AtMostOnce, NobodyHolds, Untouched

LEMMA SameSlots ==
  ASSUME slow'.invt = slow.invt, slow.pc # "send", slow'.pc # "send"
  PROVE  \A i : SameHolders(i)
BY DEF SameHolders, Holds

LEMMA StandsAppended ==
  ASSUME NEW s \in Seq(Nat), NEW g \in Nat, NEW i
  PROVE  Stands(Append(s, g), i) <=> Stands(s, i) \/ i = g
<1>1. /\ Append(s, g) \in Seq(Nat) /\ Len(Append(s, g)) = Len(s) + 1
      /\ \A j \in 1 .. Len(s) : Append(s, g)[j] = s[j]
      /\ Append(s, g)[Len(s) + 1] = g
  BY AppendProperties
<1>2. /\ DOMAIN s = 1 .. Len(s) /\ DOMAIN Append(s, g) = 1 .. Len(s) + 1 /\ Len(s) \in Nat
  BY <1>1
<1>3. \A j \in 1 .. Len(s) + 1 : j \in 1 .. Len(s) \/ j = Len(s) + 1
  BY <1>2
<1>4. Len(s) + 1 \in 1 .. Len(s) + 1 /\ \A j \in 1 .. Len(s) : j \in 1 .. Len(s) + 1
  BY <1>2
<1>5. Stands(Append(s, g), i) => Stands(s, i) \/ i = g
  BY <1>1, <1>2, <1>3 DEF Stands
<1>6. Stands(s, i) => Stands(Append(s, g), i)
  BY <1>1, <1>2, <1>4 DEF Stands
<1>7. i = g => Stands(Append(s, g), i)
  BY <1>1, <1>2, <1>4 DEF Stands
<1> QED
  BY <1>5, <1>6, <1>7

\* What is waiting to be posted.
\* Posting: every packet that waits has been given away.
LEMMA PostKeepsFate ==
  ASSUME ControlInv, LoopsInv, FateInv, Posted, seen' = seen,
         \A i \in 1 .. loop.nr_mbufs :
           /\ ~(i \in Waiting) => fate'[i] = fate[i] /\ NobodyHolds(i)
           /\ i \in Waiting => fate'[i] > 0 /\ (Joined \/ fate'[i] = 1),
         slow.pc # "copy"
  PROVE  FateInv'
<1>1. DeliveryInv /\ Post /\ slow' = NoSlow
  BY DEF LoopsInv, Posted
<1>2. Len(posted') = loop.current /\ loop'.nr_mbufs = loop.nr_mbufs
  BY <1>1, PostedSoFar
<1>3. slow'.pc = "none" /\ slow'.invt = [k \in Slots |-> <<>>]
  BY <1>1 DEF NoSlow
<1>4. \A i : NobodyHolds(i)'
  BY <1>3 DEF NobodyHolds, Holds, Stands
<1>5. ASSUME NEW i \in 1 .. loop.nr_mbufs PROVE PacketFate(i)'
  <2>1. /\ loop.current \in Nat /\ Len(posted) \in Nat /\ Len(posted) < loop.current
        /\ i \in Waiting <=> i > Len(posted) /\ i <= loop.current
    BY <1>1, <1>5, WaitingBounds DEF Post
  <2>2. Joined' <=> Joined
    BY DEF Joined
  <2>3. fate[i] \in Nat
    BY <1>5 DEF LoopsInv, BurstType
  <2>4. CASE i \in Waiting
    <3>1. fate'[i] > 0 /\ (Joined \/ fate'[i] = 1)
      BY <1>5, <2>4
    <3>2. Once(i)'
      BY <1>4, <2>2, <3>1 DEF Once, Somewhere, AtMostOnce, NobodyHolds
    <3> QED
      BY <1>2, <1>3, <1>4, <2>1, <2>4, <3>2 DEF PacketFate
  <2>5. CASE i \notin Waiting /\ i <= Len(posted)
    <3>1. fate'[i] = fate[i] /\ NobodyHolds(i) /\ Once(i)
      BY <1>5, <2>5 DEF FateInv, PacketFate
    <3>2. SameHolders(i)
      BY <1>4, <3>1 DEF SameHolders, NobodyHolds
    <3>3. Once(i)'
      BY <2>2, <3>1, <3>2, SameFate
    <3> QED
      BY <1>2, <1>3, <1>4, <2>1, <2>5, <3>3 DEF PacketFate
  <2>6. CASE i \notin Waiting /\ i > Len(posted)
    <3>1. i > loop.current
      BY <2>1, <2>6
    <3>2. fate'[i] = fate[i] /\ fate[i] = 0
      BY <1>5, <2>6, <3>1 DEF FateInv, PacketFate, Untouched, LoopsInv, BurstType, SlowPath
    <3>3. Untouched(i)'
      BY <1>4, <3>2 DEF Untouched
    <3> QED
      BY <1>2, <1>3, <1>4, <2>1, <3>1, <3>3 DEF PacketFate
  <2> QED
    BY <2>1, <2>4, <2>5, <2>6
<1> QED
  BY <1>2, <1>3, <1>5 DEF FateInv

LEMMA SlotsAreFinite == \A S \in SUBSET Slots : IsFiniteSet(S) /\ Cardinality(S) \in Nat
<1>1. MAX_HOPS_IN_MULTICAST_GROUP - 1 \in Int
  BY SpineAssumption
<1>2. IsFiniteSet(Slots)
  BY <1>1, FS_Interval DEF Slots
<1> QED
  BY <1>2, FS_Subset, FS_CardinalityType

LEMMA HopsAreCounted == \A m : NrHops(m) \in Nat /\ NrHops(m)' \in Nat
<1>1. \A S \in SUBSET Slots : Cardinality(S) \in Nat
  BY SlotsAreFinite
<1> QED
  BY <1>1 DEF NrHops

LEMMA BurstIsThere ==
  ASSUME LoopsInv, loop.pc # "idle"
  PROVE  burst # Nobody /\ burst.iface \in Pbps
BY ProcessAssumption DEF LoopsInv, BurstInv, Nobody

\* The packets stay where they are.
LEMMA PacketsStay ==
  ASSUME LoopsInv, FateInv, slow' = slow, fate' = fate, posted' = posted,
         Joined => Joined', loop'.nr_mbufs = loop.nr_mbufs,
         slow.pc # "none" => loop' = loop,
         slow.pc = "copy" => Joined' \/ NrHops(slow.group)' <= NrHops(slow.group)
  PROVE  FateInv'
<1>1. \A i : fate'[i] = fate[i] /\ SameHolders(i)
  BY DEF SameHolders, Holds
<1>2. \A i : /\ Once(i) => Once(i)'
             /\ Untouched(i) => Untouched(i)'
             /\ NobodyHolds(i) => NobodyHolds(i)'
             /\ AtMostOnce(i) => AtMostOnce(i)'
  BY <1>1, SameFate
<1>3. slow.idx_hop \in Nat
  BY DEF LoopsInv, BurstType, SlowPath
<1>4. ASSUME NEW i, slow.pc = "copy", BeingCopied(i) PROVE BeingCopied(i)'
  <2>1. slow.idx_hop >= NrHops(slow.group) => Joined' \/ slow'.idx_hop >= NrHops(slow.group)'
    BY <1>3, <1>4, HopsAreCounted
  <2>2. (\E k \in Slots : Holds(k, i)') <=> (\E k \in Slots : Holds(k, i))
    BY <1>1 DEF SameHolders
  <2>3. \A k \in Slots : Holds(k, i)' => k < slow'.iptr
    BY <1>1, <1>4 DEF SameHolders, BeingCopied
  <2> QED
    BY <1>2, <1>4, <2>1, <2>2, <2>3 DEF BeingCopied
<1>5. \A i : PacketFate(i) => PacketFate(i)'
  BY <1>2, <1>4 DEF PacketFate
<1>6. slow.pc = "copy" => slow'.packet \in Waiting'
  BY DEF FateInv, Waiting
<1> QED
  BY <1>5, <1>6 DEF FateInv

\* A call: only a member that joins makes a group larger.
LEMMA ControlKeepsFate ==
  ASSUME ControlInv, LoopsInv, FateInv, ControlStep
  PROVE  FateInv'
<1>1. UNCHANGED <<loop, posted, burst, slow, fate>> /\ Watch
  BY DEF ControlStep, deliveryVars, fwdVars
<1>2. Joined => Joined'
  BY <1>1 DEF Watch, Joined
<1>3. ASSUME slow.pc = "copy", ~Joined'
      PROVE  NrHops(slow.group)' <= NrHops(slow.group)
  <2>1. burst # Nobody
    BY <1>3, BurstIsThere DEF LoopsInv, BurstInv, Posting
  <2>2. ~Joins
    BY <1>1, <1>3, <2>1 DEF Watch, Joined
  <2> PICK m : m = slow.group
    OBVIOUS
  <2>3. m \in Mnexthops /\ slow'.group = m
    BY <1>1 DEF LoopsInv, BurstType, SlowPath
  <2> DEFINE before == {k \in Slots : MemberAt(m, k) # Free}
             after  == {k \in Slots : (IF mnexthop'[m] = Free THEN Free
                                       ELSE mnexthop'[m].nexthops[k]) # Free}
  <2>4. after \subseteq before
    BY <2>2, <2>3 DEF Joins
  <2>5. IsFiniteSet(before)
    BY SlotsAreFinite
  <2>6. Cardinality(after) <= Cardinality(before)
    BY <2>4, <2>5, FS_Subset
  <2>7. NrHops(slow.group)' = Cardinality(after) /\ NrHops(slow.group) = Cardinality(before)
    BY <2>3 DEF NrHops, MemberAt
  <2> QED
    BY <2>6, <2>7
<1> QED
  BY <1>1, <1>2, <1>3, PacketsStay

\* A round of the inner loop: packet i stands in slot k afterwards.
LEMMA HoldsOneMore ==
  ASSUME slow \in SlowPath, slow.pc = "copy", slow'.pc = "copy", NEW k \in Slots,
         NEW g \in Nat, slow'.invt = OneMoreAt(slow.invt, k, g)
  PROVE  \A l \in Slots : \A i : Holds(l, i)' <=> Holds(l, i) \/ (l = k /\ i = g)
<1>1. slow.invt \in [Slots -> Seq(Nat)]
  BY DEF SlowPath
<1>2. \A l \in Slots : slow'.invt[l] = IF l = k THEN Append(slow.invt[k], g) ELSE slow.invt[l]
  BY <1>1 DEF OneMoreAt
<1>3. \A i : Stands(Append(slow.invt[k], g), i) <=> Stands(slow.invt[k], i) \/ i = g
  BY <1>1, StandsAppended
<1>4. \A l \in Slots : \A i : Stands(slow'.invt[l], i) <=> Stands(slow.invt[l], i) \/ (l = k /\ i = g)
  BY <1>2, <1>3
<1> QED
  BY <1>4 DEF Holds

LEMMA CopyKeepsFate ==
  ASSUME LoopsInv, FateInv, CopyToMember
  PROVE  FateInv'
<1> PICK k, p : k = slow.iptr /\ p = slow.packet
  OBVIOUS
<1>1. slow \in SlowPath /\ p \in Nat /\ slow.idx_hop \in Nat /\ slow.consumed \in BOOLEAN
  BY DEF LoopsInv, BurstType, SlowPath
<1>2. /\ k \in Slots /\ k \in Nat /\ slow.pc = "copy" /\ slow'.pc = "copy"
      /\ slow.idx_hop < NrHops(slow.group)
      /\ slow'.group = slow.group /\ slow'.packet = p /\ slow'.iptr = k + 1
      /\ PassesOver(k) \/ Takes(k, Copy) \/ Takes(k, p)
      /\ UNCHANGED <<loop, posted, fate, seen, mnexthop>>
  BY <1>1, CopyRound DEF deliveryVars, TablesUnchanged, vars
<1>3. /\ p \in Waiting /\ DeliveryInv /\ Posting
  BY <1>2 DEF FateInv, LoopsInv, BurstInv
<1>4. p > Len(posted) /\ p > 0 /\ p \in 1 .. loop.nr_mbufs /\ Len(posted) \in Nat
  BY <1>1, <1>3, WaitingBounds
<1>5. NrHops(slow.group)' = NrHops(slow.group) /\ NrHops(slow.group) \in Nat
  BY <1>2, HopsAreCounted DEF NrHops, MemberAt
<1>6. Joined' <=> Joined
  BY <1>2 DEF Joined
<1>7. \A i : i # p /\ i # Copy => SameHolders(i)
  <2>1. PassesOver(k) => \A i : SameHolders(i)
    BY <1>2, SameSlots DEF PassesOver
  <2>2. ASSUME NEW g \in Nat, Takes(k, g) PROVE \A i : i # g => SameHolders(i)
    BY <1>1, <1>2, <2>2, HoldsOneMore DEF Takes, SameHolders
  <2> QED
    BY <1>1, <1>2, <2>1, <2>2 DEF Copy
<1>8. BeingCopied(p)
  BY <1>2, <1>4 DEF FateInv, PacketFate
<1>9. Joined \/ (AtMostOnce(p) /\ slow.consumed = FALSE)
  BY <1>1, <1>2, <1>5, <1>8 DEF BeingCopied
<1>10. BeingCopied(p)'
  <2>1. CASE PassesOver(k) \/ Takes(k, Copy)
    <3>1. SameHolders(p) /\ slow'.consumed = slow.consumed
      <4>1. CASE PassesOver(k)
        BY <1>2, <4>1, SameSlots DEF PassesOver
      <4>2. CASE Takes(k, Copy)
        <5>1. \/ slow'.consumed = slow.consumed
              \/ Copy = p
          BY <4>2 DEF Takes
        <5>2. slow'.consumed = slow.consumed
          BY <1>4, <5>1 DEF Copy
        <5>3. Copy \in Nat /\ Copy # p
          BY <1>4 DEF Copy
        <5>4. SameHolders(p)
          BY <1>1, <1>2, <4>2, <5>3, HoldsOneMore DEF Takes, SameHolders
        <5> QED
          BY <5>2, <5>4
      <4> QED
        BY <2>1, <4>1, <4>2
    <3>2. fate'[p] = fate[p] /\ fate[p] = 0
      BY <1>2, <1>8 DEF BeingCopied
    <3>3. AtMostOnce(p) => AtMostOnce(p)'
      BY <1>6, <3>1, <3>2, SameFate
    <3>4. slow'.consumed <=> \E l \in Slots : Holds(l, p)'
      BY <1>8, <3>1 DEF BeingCopied, SameHolders
    <3>5. \A l \in Slots : Holds(l, p)' => l < slow'.iptr
      <4>1. \A l \in Slots : Holds(l, p)' => l < k
        BY <1>8, <3>1 DEF BeingCopied, SameHolders
      <4> QED
        BY <1>2, <4>1 DEF Slots
    <3>6. Joined' \/ (AtMostOnce(p)' /\ slow'.consumed = FALSE)
      BY <1>6, <1>9, <3>1, <3>3
    <3> QED
      BY <1>2, <3>2, <3>4, <3>5, <3>6 DEF BeingCopied
  <2>2. CASE Takes(k, p) /\ p # Copy
    <3>1. \A l \in Slots : Holds(l, p)' <=> Holds(l, p) \/ l = k
      BY <1>1, <1>2, <2>2, HoldsOneMore DEF Takes
    <3>2. /\ slow'.consumed = TRUE /\ slow'.idx_hop = slow.idx_hop + 1
          /\ slow.idx_hop + 1 = NrHops(slow.group)
      BY <2>2 DEF Takes
    <3>3. fate'[p] = 0
      BY <1>2, <1>8 DEF BeingCopied
    <3>4. \A l \in Slots : Holds(l, p)' => l < slow'.iptr
      <4>1. \A l \in Slots : Holds(l, p)' => l < k \/ l = k
        BY <1>8, <3>1 DEF BeingCopied
      <4> QED
        BY <1>2, <4>1 DEF Slots
    <3>5. ~Joined => AtMostOnce(p)'
      <4>1. ~Joined => \A l \in Slots : Holds(l, p)' => l = k
        BY <1>8, <1>9, <3>1 DEF BeingCopied
      <4> QED
        BY <3>3, <4>1 DEF AtMostOnce
    <3>6. slow'.idx_hop >= NrHops(slow.group)'
      BY <1>5, <3>2
    <3> QED
      BY <1>2, <1>6, <3>1, <3>2, <3>3, <3>4, <3>5, <3>6 DEF BeingCopied
  <2> QED
    BY <1>2, <1>4, <2>1, <2>2 DEF Copy
<1>11. ASSUME NEW i \in 1 .. loop.nr_mbufs, i # p PROVE PacketFate(i)'
  <2>1. SameHolders(i) /\ fate'[i] = fate[i]
    BY <1>2, <1>7, <1>11 DEF Copy
  <2>2. /\ Once(i) => Once(i)'
        /\ Untouched(i) => Untouched(i)'
        /\ NobodyHolds(i) => NobodyHolds(i)'
    BY <1>6, <2>1, SameFate
  <2>3. PacketFate(i)
    BY <1>11 DEF FateInv
  <2> QED
    BY <1>2, <1>11, <2>2, <2>3 DEF PacketFate
<1>12. PacketFate(p)'
  BY <1>2, <1>4, <1>10 DEF PacketFate
<1>13. slow'.packet \in Waiting'
  BY <1>2, <1>3 DEF Waiting
<1> QED
  BY <1>2, <1>11, <1>12, <1>13 DEF FateInv

\* The packet has been copied: the next one is, or all are sent.
LEMMA EndKeepsFate ==
  ASSUME LoopsInv, FateInv, EndOfMembers
  PROVE  FateInv'
<1> PICK p : p = slow.packet
  OBVIOUS
<1>1. /\ slow \in SlowPath /\ p \in Nat /\ slow.idx_hop \in Nat /\ slow.iptr \in Nat
      /\ slow.consumed \in BOOLEAN /\ loop \in LoopType /\ fate \in [1 .. loop.nr_mbufs -> Nat]
  BY DEF LoopsInv, DeliveryInv, BurstType, SlowPath
<1>2. /\ slow.pc = "copy" /\ slow'.invt = slow.invt
      /\ \/ /\ p < loop.current /\ slow'.pc = "copy"
            /\ slow'.packet = p + 1 /\ slow'.iptr = 0
            /\ slow'.idx_hop = 0 /\ slow'.consumed = FALSE
         \/ /\ ~(p < loop.current) /\ slow'.pc = "send" /\ slow'.iptr = 0
      /\ fate' = IF slow.consumed THEN fate ELSE Disposed({p})
      /\ UNCHANGED <<loop, posted, seen>>
  BY <1>1, EndOfCopies DEF deliveryVars
<1>3. /\ p \in Waiting /\ DeliveryInv /\ Posting
  BY <1>2 DEF FateInv, LoopsInv, BurstInv
<1>4. /\ p > Len(posted) /\ p > 0 /\ p \in 1 .. loop.nr_mbufs /\ Len(posted) \in Nat
      /\ p <= loop.current /\ loop.current \in Nat
      /\ \A i \in Nat : i \in Waiting <=> i > Len(posted) /\ i <= loop.current
  BY <1>1, <1>3, WaitingBounds
<1>5. Joined' <=> Joined
  BY <1>2 DEF Joined
<1>6. \A i : SameHolders(i)
  <2>1. slow'.pc = "send" => \A l \in Slots : l >= slow'.iptr
    BY <1>2 DEF Slots
  <2> QED
    BY <1>2, <2>1 DEF SameHolders, Holds
<1>7. BeingCopied(p)
  BY <1>2, <1>4 DEF FateInv, PacketFate
<1>8. \A i \in 1 .. loop.nr_mbufs :
        fate'[i] = IF i = p /\ ~slow.consumed THEN fate[i] + 1 ELSE fate[i]
  BY <1>1, <1>2, DisposedType
<1>9. Once(p)'
  <2>1. CASE slow.consumed
    <3>1. fate'[p] = fate[p]
      BY <1>4, <1>8, <2>1
    <3>2. Once(p)
      BY <1>7, <2>1 DEF BeingCopied, Once, Somewhere
    <3> QED
      BY <1>5, <1>6, <3>1, <3>2, SameFate
  <2>2. CASE ~slow.consumed
    <3>1. fate'[p] = 1
      BY <1>4, <1>7, <1>8, <2>2 DEF BeingCopied
    <3>2. \A l \in Slots : ~Holds(l, p)'
      BY <1>6, <1>7, <2>2 DEF BeingCopied, SameHolders
    <3> QED
      BY <3>1, <3>2 DEF Once, Somewhere, AtMostOnce, NobodyHolds
  <2> QED
    BY <2>1, <2>2
<1>10. ASSUME NEW i \in 1 .. loop.nr_mbufs, i # p
       PROVE  /\ fate'[i] = fate[i]
              /\ Once(i) => Once(i)'
              /\ Untouched(i) => Untouched(i)'
              /\ NobodyHolds(i) => NobodyHolds(i)'
  BY <1>5, <1>6, <1>8, <1>10, SameFate
<1>11. CASE slow'.pc = "copy"
  <2>1. /\ p < loop.current /\ slow'.packet = p + 1 /\ slow'.iptr = 0
        /\ slow'.idx_hop = 0 /\ slow'.consumed = FALSE
    BY <1>2, <1>11
  <2>2. ASSUME NEW i \in 1 .. loop.nr_mbufs PROVE PacketFate(i)'
    <3>1. CASE i < p
      BY <1>2, <1>4, <1>10, <1>11, <2>1, <2>2, <3>1 DEF FateInv, PacketFate
    <3>2. CASE i = p
      BY <1>2, <1>4, <1>9, <1>11, <2>1, <2>2, <3>2 DEF PacketFate
    <3>3. CASE i > p
      <4>1. i # p /\ i > Len(posted) /\ Untouched(i)
        BY <1>2, <1>4, <2>2, <3>3 DEF FateInv, PacketFate
      <4>2. Untouched(i)'
        BY <1>10, <2>2, <4>1
      <4>3. BeingCopied(i)'
        BY <2>1, <4>2 DEF BeingCopied, Untouched, NobodyHolds, AtMostOnce
      <4> QED
        BY <1>2, <1>4, <1>11, <2>1, <2>2, <3>3, <4>1, <4>2, <4>3 DEF PacketFate
    <3> QED
      BY <1>4, <2>2, <3>1, <3>2, <3>3
  <2>3. slow'.packet \in Waiting'
    <3>1. p + 1 \in Waiting
      BY <1>1, <1>4, <2>1
    <3> QED
      BY <1>2, <2>1, <3>1 DEF Waiting
  <2> QED
    BY <1>2, <2>2, <2>3 DEF FateInv
<1>12. CASE slow'.pc = "send"
  <2>1. ~(p < loop.current)
    BY <1>2, <1>12
  <2>2. ASSUME NEW i \in 1 .. loop.nr_mbufs PROVE PacketFate(i)'
    <3>1. CASE i < p
      BY <1>2, <1>4, <1>10, <1>12, <2>1, <2>2, <3>1 DEF FateInv, PacketFate
    <3>2. CASE i = p
      BY <1>2, <1>4, <1>9, <1>12, <2>1, <2>2, <3>2 DEF PacketFate
    <3>3. CASE i > p
      BY <1>2, <1>4, <1>10, <1>12, <2>1, <2>2, <3>3 DEF FateInv, PacketFate
    <3> QED
      BY <1>4, <2>2, <3>1, <3>2, <3>3
  <2> QED
    BY <1>2, <1>12, <2>2 DEF FateInv
<1> QED
  BY <1>2, <1>11, <1>12

\* The packets of one slot are given to its port.
LEMMA SendKeepsFate ==
  ASSUME LoopsInv, FateInv, SendToMember
  PROVE  FateInv'
<1> PICK k : k = slow.iptr
  OBVIOUS
<1> DEFINE S == {slow.invt[k][i] : i \in DOMAIN slow.invt[k]}
<1>1. slow \in SlowPath /\ loop \in LoopType /\ fate \in [1 .. loop.nr_mbufs -> Nat]
  BY DEF LoopsInv, DeliveryInv, BurstType
<1>2. /\ slow.pc = "send" /\ k \in Slots /\ k \in Nat /\ slow'.pc = "send"
      /\ slow'.invt = slow.invt
      /\ \/ fate' = Disposed(S) /\ slow'.iptr = k + 1
         \/ fate' = fate /\ slow' = slow
      /\ UNCHANGED <<loop, posted, seen>>
  BY <1>1, SendEffects DEF deliveryVars
<1> HIDE DEF S
<1>3. Joined' <=> Joined
  BY <1>2 DEF Joined
<1>4. CASE fate' = fate /\ slow' = slow
  BY <1>2, <1>3, <1>4, PacketsStay
<1>5. CASE fate' = Disposed(S) /\ slow'.iptr = k + 1
  <2>1. \A i : Holds(k, i) <=> i \in S
    <3>1. \A i : Stands(slow.invt[k], i) <=> i \in S
      BY DEF Stands, S
    <3> QED
      BY <1>2, <3>1 DEF Holds
  <2>2. \A l \in Slots : \A i : Holds(l, i)' <=> Holds(l, i) /\ l # k
    <3>1. \A l \in Slots : l >= k + 1 <=> l >= k /\ l # k
      BY <1>2 DEF Slots
    <3> QED
      BY <1>2, <1>5, <3>1 DEF Holds
  <2>3. \A i \in 1 .. loop.nr_mbufs :
          fate[i] \in Nat /\ fate'[i] = IF Holds(k, i) THEN fate[i] + 1 ELSE fate[i]
    BY <1>1, <1>5, <2>1, DisposedType
  <2>4. ASSUME NEW i \in 1 .. loop.nr_mbufs
        PROVE  /\ Once(i) => Once(i)'
               /\ Untouched(i) => Untouched(i)'
               /\ NobodyHolds(i) => NobodyHolds(i)'
    <3>1. CASE Holds(k, i)
      <4>1. fate'[i] = fate[i] + 1 /\ fate'[i] > 0 /\ ~NobodyHolds(i)
        BY <1>2, <2>3, <2>4, <3>1 DEF NobodyHolds
      <4>2. ASSUME AtMostOnce(i) PROVE AtMostOnce(i)'
        <5>1. fate[i] = 0 /\ \A l \in Slots : Holds(l, i) => l = k
          BY <1>2, <2>3, <2>4, <3>1, <4>1, <4>2 DEF AtMostOnce
        <5>2. fate'[i] = 1 /\ \A l \in Slots : ~Holds(l, i)'
          BY <2>2, <4>1, <5>1
        <5> QED
          BY <5>2 DEF AtMostOnce, NobodyHolds
      <4> QED
        BY <1>3, <4>1, <4>2 DEF Once, Somewhere, Untouched
    <3>2. CASE ~Holds(k, i)
      <4>1. fate'[i] = fate[i] /\ SameHolders(i)
        BY <2>2, <2>3, <2>4, <3>2 DEF SameHolders
      <4> QED
        BY <1>3, <4>1, SameFate
    <3> QED
      BY <3>1, <3>2
  <2>5. \A i \in 1 .. loop.nr_mbufs : PacketFate(i)'
    BY <1>2, <2>4 DEF FateInv, PacketFate
  <2> QED
    BY <1>2, <2>5 DEF FateInv
<1> QED
  BY <1>2, <1>4, <1>5

\* Posting to one port, and the end of the slow path.
LEMMA PostsKeepFate ==
  ASSUME ControlInv, LoopsInv, FateInv, PostAtOnce \/ EndOfSlowPath
  PROVE  FateInv'
<1>1. /\ slow \in SlowPath /\ fate \in [1 .. loop.nr_mbufs -> Nat] /\ DeliveryInv
      /\ Posted /\ Posting /\ seen' = seen
  BY DEF LoopsInv, BurstType, PostAtOnce, EndOfSlowPath, Posted, Post
<1>2. /\ Len(posted) \in Nat /\ loop.current \in Nat /\ Len(posted) < loop.current
      /\ \A i \in Nat : i \in Waiting <=> i > Len(posted) /\ i <= loop.current
  BY <1>1, WaitingBounds
<1>3. CASE PostAtOnce
  <2>1. slow.pc = "none" /\ fate' = Disposed(Waiting)
    BY <1>1, <1>3 DEF PostAtOnce, LoopsInv, BurstInv
  <2>2. ASSUME NEW i \in 1 .. loop.nr_mbufs
        PROVE  /\ ~(i \in Waiting) => fate'[i] = fate[i] /\ NobodyHolds(i)
               /\ i \in Waiting => fate'[i] > 0 /\ (Joined \/ fate'[i] = 1)
    <3>1. fate'[i] = IF i \in Waiting THEN fate[i] + 1 ELSE fate[i]
      BY <1>1, <2>1, <2>2, DisposedType
    <3>2. NobodyHolds(i) /\ (i \in Waiting => fate[i] = 0)
      BY <1>2, <2>1, <2>2 DEF FateInv, PacketFate, Untouched
    <3> QED
      BY <3>1, <3>2
  <2> QED
    BY <1>1, <2>1, <2>2, PostKeepsFate
<1>4. CASE EndOfSlowPath
  <2>1. slow.pc = "send" /\ slow.iptr \notin Slots /\ slow.iptr \in Nat /\ fate' = fate
    BY <1>1, <1>4 DEF EndOfSlowPath, SlowPath
  <2>2. \A i : NobodyHolds(i)
    <3>1. \A k \in Slots : ~(k >= slow.iptr)
      BY <2>1, SpineAssumption DEF Slots
    <3> QED
      BY <2>1, <3>1 DEF NobodyHolds, Holds
  <2>3. ASSUME NEW i \in 1 .. loop.nr_mbufs, i \in Waiting
        PROVE  fate'[i] > 0 /\ (Joined \/ fate'[i] = 1)
    <3>1. Once(i) /\ fate[i] \in Nat
      BY <1>1, <1>2, <2>1, <2>3 DEF FateInv, PacketFate
    <3> QED
      BY <2>1, <2>2, <3>1 DEF Once, Somewhere, NobodyHolds, AtMostOnce
  <2> QED
    BY <1>1, <2>1, <2>2, <2>3, PostKeepsFate
<1> QED
  BY <1>3, <1>4

\* The first packet that waits is copied, or the group is gone.
LEMMA BeginKeepsFate ==
  ASSUME LoopsInv, FateInv, BeginSlowPath
  PROVE  FateInv'
<1> PICK b : b = LatestIdentifier[2]
  OBVIOUS
<1> PICK m : m = words[burst.iface][b].NHLFE
  OBVIOUS
<1>1. loop \in LoopType /\ DeliveryInv /\ slow \in SlowPath
  BY DEF LoopsInv, DeliveryInv, BurstType
<1>2. /\ Posting /\ slow.pc = "none"
      /\ \/ /\ slow'.pc = "copy" /\ slow'.packet = loop.latest_unsent /\ slow'.iptr = 0
            /\ slow'.consumed = FALSE /\ slow'.invt = [k \in Slots |-> <<>>]
         \/ slow' = slow
      /\ UNCHANGED <<loop, posted, fate, seen>>
  BY <1>1, BeginEffects DEF deliveryVars
<1>3. Joined' <=> Joined
  BY <1>2 DEF Joined
<1>4. CASE slow' = slow
  BY <1>2, <1>3, <1>4, PacketsStay
<1>5. CASE /\ slow'.pc = "copy" /\ slow'.packet = loop.latest_unsent /\ slow'.iptr = 0
           /\ slow'.consumed = FALSE /\ slow'.invt = [k \in Slots |-> <<>>]
  <2>1. /\ loop.latest_unsent \in Nat /\ Len(posted) = loop.latest_unsent - 1
        /\ Len(posted) \in Nat /\ loop.latest_unsent \in Waiting
    BY <1>1, <1>2, WaitingBounds
  <2>2. \A i : NobodyHolds(i)'
    BY <1>5 DEF NobodyHolds, Holds, Stands
  <2>3. ASSUME NEW i \in 1 .. loop.nr_mbufs PROVE PacketFate(i)'
    <3>1. CASE i <= Len(posted)
      <4>1. Once(i) /\ NobodyHolds(i)
        BY <2>3, <3>1 DEF FateInv, PacketFate
      <4>2. SameHolders(i) /\ fate'[i] = fate[i]
        BY <1>2, <2>2, <4>1 DEF SameHolders, NobodyHolds
      <4>3. Once(i)'
        BY <1>3, <4>1, <4>2, SameFate
      <4> QED
        BY <1>2, <2>2, <2>1, <2>3, <3>1, <4>3 DEF PacketFate
    <3>2. CASE i > Len(posted)
      <4>1. Untouched(i)'
        BY <1>2, <2>2, <2>3, <3>2 DEF FateInv, PacketFate, Untouched
      <4>2. BeingCopied(i)'
        BY <1>5, <4>1 DEF BeingCopied, Untouched, NobodyHolds, AtMostOnce
      <4>3. ~(i < loop.latest_unsent)
        BY <2>1, <2>3, <3>2
      <4> QED
        BY <1>2, <1>5, <2>1, <2>3, <3>2, <4>1, <4>2, <4>3 DEF PacketFate
    <3> QED
      BY <2>1, <2>3, <3>1, <3>2
  <2>4. slow'.packet \in Waiting'
    BY <1>2, <1>5, <2>1 DEF Waiting
  <2> QED
    BY <1>2, <2>3, <2>4 DEF FateInv
<1> QED
  BY <1>2, <1>4, <1>5

LEMMA StepKeepsFate ==
  ASSUME ControlInv, LoopsInv, FateInv, [ForwardingNext]_allVars
  PROVE  FateInv'
<1>2. NrHops(slow.group) \in Nat
  BY HopsAreCounted
<1>3. CASE UNCHANGED allVars
  <2>1. /\ UNCHANGED <<slow, fate, posted, seen, loop, mnexthop>>
    BY <1>3 DEF allVars, fwdVars, deliveryVars, vars
  <2>2. NrHops(slow.group)' = NrHops(slow.group)
    BY <2>1 DEF NrHops, MemberAt
  <2> QED
    BY <1>2, <2>1, <2>2, PacketsStay DEF Joined
<1>4. ASSUME NEW p \in Pbps, NEW n \in 1 .. MaxBurst, NEW mbufs \in [1 .. MaxBurst -> Packet],
             RxBurst(p, SubSeq(mbufs, 1, n))
      PROVE  FateInv'
  <2>1. /\ slow' = NoSlow /\ posted' = <<>> /\ fate' = [i \in 1 .. loop'.nr_mbufs |-> 0]
    BY <1>4, RxKeepsLoops
  <2>2. slow'.pc = "none" /\ \A i : NobodyHolds(i)'
    BY <2>1 DEF NoSlow, NobodyHolds, Holds, Stands
  <2>3. \A i \in 1 .. loop'.nr_mbufs : Untouched(i)' /\ ~(i <= Len(posted'))
    BY <2>1, <2>2 DEF Untouched
  <2> QED
    BY <2>2, <2>3 DEF FateInv, PacketFate
<1>5. ASSUME Lookup \/ DecideCrashes \/ Decide \/ EndOfBurst
      PROVE  FateInv'
  <2>1. /\ UNCHANGED <<slow, fate, posted, seen, mnexthop>> /\ loop.pc = "peek"
    BY <1>5 DEF Lookup, DecideCrashes, Decide, EndOfBurst, MayPeek, Drain, Proceed, fwdVars,
                deliveryVars, TablesUnchanged, vars
  <2>2. slow.pc = "none"
    BY <2>1 DEF LoopsInv, BurstInv, Posting
  <2>3. loop'.nr_mbufs = loop.nr_mbufs
    <3>1. loop \in LoopType
      BY DEF LoopsInv, DeliveryInv
    <3> QED
      BY <1>5, <3>1 DEF Lookup, DecideCrashes, Decide, EndOfBurst, Drain, Proceed, NoBurst,
                        deliveryVars, LoopType
  <2> QED
    BY <2>1, <2>2, <2>3, PacketsStay DEF Joined
<1> QED
  BY <1>3, <1>4, <1>5, ForwardingCases, ControlKeepsFate, CopyKeepsFate, EndKeepsFate,
     SendKeepsFate, PostsKeepFate, BeginKeepsFate DEF BurstStep

(***************************************************************************)
(* What the burst may rely on.                                             *)
(***************************************************************************)
LEMMA CountKeepsMembers ==
  ASSUME SpineType, NEW g \in Mnexthops, NEW n, mnexthop[g] # Free,
         mnexthop' = [mnexthop EXCEPT ![g].ref_cnt = n],
         NEW m \in Mnexthops
  PROVE  mnexthop[m] # Free => mnexthop'[m].nexthops = mnexthop[m].nexthops
<1> PICK r : r = mnexthop[g]
  OBVIOUS
<1>1. mnexthop \in [Mnexthops -> MulticastNextHops \cup {Free}] /\ r \in MulticastNextHops
  BY DEF SpineType, TypeOK
<1>2. mnexthop'[m] = IF m = g THEN [r EXCEPT !.ref_cnt = n] ELSE mnexthop[m]
  BY <1>1
<1>3. [r EXCEPT !.ref_cnt = n].nexthops = r.nexthops
  BY <1>1 DEF MulticastNextHops
<1> QED
  BY <1>2, <1>3

LEMMA FibCallsKeepMembers ==
  ASSUME SpineType, NEW m \in Mnexthops, mnexthop[m] # Free,
         \/ \E a \in Processes, p \in Pbps, b \in Labels : \E c : Unbind(a, p, b, c)
         \/ \E a \in Processes : WriteLabel(a) \/ ReferenceLabel(a) \/ ClearLabel(a)
  PROVE  mnexthop'[m].nexthops = mnexthop[m].nexthops
<1>1. ASSUME NEW e \in LabelEntry, Dereference(e)
      PROVE  mnexthop'[m].nexthops = mnexthop[m].nexthops
  <2>1. e.NHLFE \in Mnexthops \/ UNCHANGED mnexthop
    BY <1>1, EntryFields DEF Dereference
  <2> QED
    BY <1>1, <2>1, CountKeepsMembers DEF Dereference, DereferenceMnexthop
<1>2. ASSUME NEW a \in Processes, NEW p \in Pbps, NEW b \in Labels, NEW c, Unbind(a, p, b, c)
      PROVE  mnexthop'[m].nexthops = mnexthop[m].nexthops
  <2>1. UNCHANGED mnexthop \/ (labels[p][b] # Free /\ Dereference(labels[p][b]))
    BY <1>2 DEF Unbind, Release
  <2> QED
    BY <1>1, <2>1 DEF SpineType, TypeOK
<1>3. ASSUME NEW a \in Processes, ReferenceLabel(a)
      PROVE  mnexthop'[m].nexthops = mnexthop[m].nexthops
  <2> PICK e : e = call[a].entry
    OBVIOUS
  <2>1. CASE UNCHANGED mnexthop
    BY <2>1
  <2>2. CASE Found(e) /\ ~e.is_unicast /\ ReferenceMnexthop(e.NHLFE)
    <3>1. e \in LabelEntry
      BY <1>3 DEF ReferenceLabel, SpineType, CallsInv, Working, Idle
    <3>2. e.NHLFE \in Mnexthops /\ mnexthop[e.NHLFE] # Free
      BY <2>2, <3>1, EntryFields DEF Found
    <3> QED
      BY <2>2, <3>2, CountKeepsMembers DEF ReferenceMnexthop
  <2> QED
    BY <1>3, <2>1, <2>2 DEF ReferenceLabel
<1>4. ASSUME NEW a \in Processes, WriteLabel(a) \/ ClearLabel(a)
      PROVE  UNCHANGED mnexthop
  BY <1>4 DEF WriteLabel, ClearLabel
<1> QED
  BY <1>2, <1>3, <1>4

\* A call puts a member into a free slot or takes it out: it never replaces one.
LEMMA MembersAreNotReplaced ==
  ASSUME SpineType, Next, NEW m \in Mnexthops, NEW k \in Slots,
         mnexthop[m] # Free, mnexthop'[m] # Free,
         mnexthop[m].nexthops[k] # Free, mnexthop'[m].nexthops[k] # Free
  PROVE  mnexthop'[m].nexthops[k] = mnexthop[m].nexthops[k]
<1>0. mnexthop \in [Mnexthops -> MulticastNextHops \cup {Free}]
  BY DEF SpineType, TypeOK
<1>1. ASSUME NEW t \in Threads, NEW h \in Nexthops,
             RegisterCommonNexthop(t, h) \/ DeleteCommonNexthop(t, h)
      PROVE  UNCHANGED mnexthop
  BY <1>1 DEF RegisterCommonNexthop, DeleteCommonNexthop
<1>2. ASSUME NEW t \in Threads, NEW g \in Mnexthops,
             RegisterMulticastNexthop(t, g) \/ DeleteMulticastNexthop(t, g)
      PROVE  mnexthop'[m] = mnexthop[m]
  <2>1. g = m => mnexthop[g] = Free \/ mnexthop'[m] = Free
    BY <1>0, <1>2 DEF RegisterMulticastNexthop, DeleteMulticastNexthop, IsFirst
  <2>2. g # m => mnexthop'[m] = mnexthop[m]
    BY <1>0, <1>2 DEF RegisterMulticastNexthop, DeleteMulticastNexthop
  <2> QED
    BY <2>1, <2>2
<1>3. ASSUME NEW g \in Mnexthops, NEW j \in Slots, NEW member \in Member \cup {Free},
             mnexthop[g] # Free, mnexthop' = [mnexthop EXCEPT ![g].nexthops[j] = member],
             mnexthop[g].nexthops[j] = Free \/ member = Free
      PROVE  mnexthop'[m].nexthops[k] = mnexthop[m].nexthops[k]
  <2>1. SlotBecomes(g, j, member)
    BY <1>3, SlotIsReplaced
  <2> QED
    BY <1>3, <2>1 DEF SlotBecomes
<1>4. ASSUME NEW t \in Threads, NEW g \in Mnexthops, NEW member \in Member, NEW j \in Slots,
             RegisterNexthopInMnexthops(t, g, j, member)
      PROVE  mnexthop'[m].nexthops[k] = mnexthop[m].nexthops[k]
  BY <1>3, <1>4 DEF RegisterNexthopInMnexthops, IsFirst
<1>5. ASSUME NEW t \in Threads, NEW g \in Mnexthops, NEW member \in Member,
             DeleteNexthopInMnexthops(t, g, member)
      PROVE  mnexthop'[m].nexthops[k] = mnexthop[m].nexthops[k]
  BY <1>3, <1>5 DEF DeleteNexthopInMnexthops
<1>6. ASSUME NEW p \in Pbps,
             \/ \E t \in Threads : RegisterPort(t, p) \/ UnregisterPort(t, p)
             \/ DetachPort(p)
      PROVE  UNCHANGED mnexthop
  BY <1>6 DEF RegisterPort, UnregisterPort, DetachPort
<1> QED
  BY <1>1, <1>2, <1>4, <1>5, <1>6, StepCases, FibCallsKeepMembers

\* Nothing has been taken away by this call.
LEMMA NothingWithdrawn ==
  ASSUME ControlInv, LoopsInv, ControlStep, burst # Nobody, ~Withdrawn'
  PROVE  /\ ~Withdrawn
         /\ \A b \in Labels : labels[burst.iface][b] # Free =>
              labels'[burst.iface][b] = labels[burst.iface][b]
         /\ \A e \in LabelEntry : Found(e) => Found(e)'
         /\ \A m \in Mnexthops : mnexthop[m] # Free => mnexthop'[m] # Free
         /\ \A m \in Mnexthops, k \in Slots : MemberAt(m, k) # Free =>
              MemberAt(m, k)' = MemberAt(m, k)
         /\ \A h \in Nexthops : Reachable(h) => Reachable(h)'
<1>1. ~Withdraws /\ ~Withdrawn
  BY DEF ControlStep, Watch, Withdrawn
<1>2. burst.iface \in Pbps
  BY DEF LoopsInv, BurstInv
<1>3. \A b \in Labels : labels[burst.iface][b] # Free =>
        labels'[burst.iface][b] = labels[burst.iface][b]
  BY <1>1, <1>2 DEF Withdraws
<1>4. /\ \A h \in Nexthops : nexthop[h] # Free => nexthop'[h] # Free
      /\ \A m \in Mnexthops : mnexthop[m] # Free => mnexthop'[m] # Free
  BY <1>1 DEF Withdraws
<1>5. \A e \in LabelEntry : Found(e) => Found(e)'
  BY <1>4, EntryFields DEF Found
<1>6. ASSUME NEW m \in Mnexthops, NEW k \in Slots, MemberAt(m, k) # Free
      PROVE  MemberAt(m, k)' = MemberAt(m, k)
  <2>1. /\ mnexthop[m] # Free /\ mnexthop[m].nexthops[k] # Free
        /\ mnexthop'[m] # Free /\ mnexthop'[m].nexthops[k] # Free
    BY <1>1, <1>6 DEF Withdraws, MemberAt
  <2> QED
    BY <2>1, MembersAreNotReplaced DEF MemberAt, ControlStep, ControlInv, SpineInv
<1>7. ASSUME NEW h \in Nexthops, Reachable(h) PROVE Reachable(h)'
  <2>1. nexthop[h] # Free /\ IsUp(local[h]) /\ local[h] \in Pbps
    BY <1>7 DEF Reachable, ControlInv, TablesType
  <2>2. local'[h] = local[h]
    <3>1. PICK at \in [{i \in Nexthops : nexthop[i] = Free /\ nexthop'[i] # Free} -> Pbps] :
            local' = [i \in Nexthops |-> IF i \in DOMAIN at THEN at[i] ELSE local[i]]
      BY DEF ControlStep, KeepWords
    <3>2. h \notin DOMAIN at
      BY <2>1, <3>1
    <3> QED
      BY <3>1, <3>2
  <2>3. nexthop'[h] # Free /\ state'[local[h]] = "up"
    BY <1>1, <1>4, <2>1 DEF Withdraws
  <2> QED
    BY <2>2, <2>3 DEF Reachable, IsUp
<1> QED
  BY <1>1, <1>3, <1>4, <1>5, <1>6, <1>7

LEMMA ControlKeepsHarm ==
  ASSUME ControlInv, LoopsInv, HarmInv, ControlStep
  PROVE  HarmInv'
<1>1. UNCHANGED <<decided, burst, cache, slow, crashed>>
  BY DEF ControlStep, deliveryVars, fwdVars
<1>2. CASE burst = Nobody
  <2>1. seen' = seen
    BY <1>2 DEF ControlStep, Watch
  <2> QED
    BY <1>1, <1>2, <2>1 DEF HarmInv, Withdrawn
<1>3. CASE Withdrawn'
  BY <1>3 DEF HarmInv
<1>4. CASE burst # Nobody /\ ~Withdrawn'
  <2> PICK p : p = burst.iface
    OBVIOUS
  <2>1. /\ ~Withdrawn /\ ~crashed /\ CacheHolds /\ DecisionsHold /\ MembersHold
    BY <1>4, NothingWithdrawn DEF HarmInv
  <2>2. /\ \A b \in Labels : labels[p][b] # Free => labels'[p][b] = labels[p][b]
        /\ \A e \in LabelEntry : Found(e) => Found(e)'
        /\ \A m \in Mnexthops : mnexthop[m] # Free => mnexthop'[m] # Free
        /\ \A m \in Mnexthops, k \in Slots : MemberAt(m, k) # Free =>
             MemberAt(m, k)' = MemberAt(m, k)
        /\ \A h \in Nexthops : Reachable(h) => Reachable(h)'
    BY <1>4, NothingWithdrawn
  <2>3. p \in Pbps /\ labels \in [Pbps -> [Labels -> LabelEntry \cup {Free}]]
    BY <1>4 DEF LoopsInv, BurstInv, ControlInv, SpineInv, SpineType, TypeOK
  <2>4. ASSUME NEW b \in Labels, Forwards(b)
        PROVE  Forwards(b)' /\ labels'[p][b] = labels[p][b]
    <3>1. labels[p][b] \in LabelEntry /\ Found(labels[p][b]) /\ labels'[p][b] = labels[p][b]
      BY <2>2, <2>3, <2>4 DEF Forwards
    <3> PICK e \in LabelEntry : e = labels[p][b]
      BY <3>1
    <3>2. Found(e)'
      BY <2>2, <3>1
    <3>3. e # Free /\ labels'[p][b] = e
      BY <3>1, FreeAssumption
    <3>4. Found(labels[p][b])'
      BY <3>2, <3>3 DEF Found
    <3> QED
      BY <1>1, <3>1, <3>3, <3>4 DEF Forwards, Found
  <2>5. CacheHolds'
    <3>1. \A c \in 0 .. PBP_CACHE_SIZE - 1 : cache[c].label \in Labels
      BY DEF LoopsInv, BurstType, CacheEntry
    <3> QED
      BY <1>1, <2>1, <2>4, <3>1 DEF CacheHolds
  <2>6. DecisionsHold'
    BY <1>1, <2>1, <2>4 DEF DecisionsHold
  <2>7. MembersHold'
    <3> PICK g : g = slow.group
      OBVIOUS
    <3>1. g \in Mnexthops
      BY DEF LoopsInv, BurstType, SlowPath
    <3>2. CASE slow.pc # "none"
      <4>1. mnexthop'[g] # Free
        BY <2>1, <2>2, <3>1, <3>2 DEF MembersHold
      <4>2. ASSUME NEW k \in Slots, slow'.invt[k] # <<>>
            PROVE  MemberAt(g, k)' # Free /\ Reachable(MemberAt(g, k).next_hop)'
        <5> PICK member : member = MemberAt(g, k)
          OBVIOUS
        <5>1. member # Free /\ Reachable(member.next_hop)
          BY <1>1, <2>1, <3>2, <4>2 DEF MembersHold
        <5>2. member \in Member
          BY <3>1, <5>1, MemberInGroup DEF ControlInv, SpineInv
        <5>3. Reachable(member.next_hop)' /\ MemberAt(g, k)' = member
          BY <2>2, <3>1, <5>1, <5>2 DEF Member
        <5> QED
          BY <5>1, <5>3
      <4> QED
        BY <1>1, <4>1, <4>2 DEF MembersHold
    <3>3. CASE slow.pc = "none"
      BY <1>1, <3>3 DEF MembersHold
    <3> QED
      BY <3>2, <3>3
  <2> QED
    BY <1>1, <2>1, <2>5, <2>6, <2>7 DEF HarmInv
<1> QED
  BY <1>2, <1>3, <1>4

\* Posting and sending change nothing of what the burst relies on.
LEMMA SameCredentials ==
  ASSUME TablesUnchanged, burst' = burst
  PROVE  /\ cache' = cache => (CacheHolds' <=> CacheHolds)
         /\ decided' = decided => (DecisionsHold' <=> DecisionsHold)
         /\ slow' = slow => (MembersHold' <=> MembersHold)
         /\ \A b : Forwards(b)' <=> Forwards(b)
<1>1. UNCHANGED <<nexthop, mnexthop, labels, state, local>>
  BY DEF TablesUnchanged, vars
<1>2. \A b : Forwards(b)' <=> Forwards(b)
  BY <1>1 DEF Forwards, Found
<1>3. cache' = cache => (CacheHolds' <=> CacheHolds)
  BY <1>1, <1>2 DEF CacheHolds
<1>4. decided' = decided => (DecisionsHold' <=> DecisionsHold)
  BY <1>1, <1>2 DEF DecisionsHold
<1>5. slow' = slow => (MembersHold' <=> MembersHold)
  BY <1>1 DEF MembersHold, MemberAt, Reachable, IsUp
<1> QED
  BY <1>2, <1>3, <1>4, <1>5

LEMMA LookupKeepsHarm ==
  ASSUME ControlInv, LoopsInv, HarmInv, Lookup
  PROVE  HarmInv'
<1>1. /\ UNCHANGED <<decided, burst, slow, crashed, seen>> /\ TablesUnchanged /\ MayPeek
  BY DEF Lookup, deliveryVars
<1> PICK b, found : b = NextPacket.label /\ found = labels[burst.iface][b]
  OBVIOUS
<1> PICK hop : hop = CASE found = Free \/ ~found.is_unicast -> cache[CacheIndex(b)].hop
                       [] OTHER -> IF nexthop[found.NHLFE] # Free THEN found.NHLFE ELSE None
  OBVIOUS
<1> PICK valid : valid = (found # Free /\ Found(found))
  OBVIOUS
<1>2. b \in Labels /\ CacheIndex(b) \in 0 .. PBP_CACHE_SIZE - 1 /\ burst.iface \in Pbps
  BY <1>1, PacketToDecide, IndexInCache
<1>3. found \in LabelEntry \cup {Free}
  BY <1>2 DEF ControlInv, SpineInv, SpineType, TypeOK
<1>4. cache' = [cache EXCEPT ![CacheIndex(b)] = [label |-> b, is_valid |-> valid, hop |-> hop]]
  BY DEF Lookup
<1>5. cache \in [0 .. PBP_CACHE_SIZE - 1 -> CacheEntry]
  BY DEF LoopsInv, BurstType
<1>6. /\ cache'[CacheIndex(b)].label = b /\ cache'[CacheIndex(b)].is_valid = valid
      /\ cache'[CacheIndex(b)].hop = hop
      /\ \A c \in 0 .. PBP_CACHE_SIZE - 1 : c # CacheIndex(b) => cache'[c] = cache[c]
  BY <1>2, <1>4, <1>5
<1>7. valid => Forwards(b) /\ (found.is_unicast => hop # None)
  <2>1. valid => Forwards(b)
    BY DEF Forwards
  <2>2. ASSUME valid, found.is_unicast PROVE hop # None
    <3>1. found \in LabelEntry /\ found # Free /\ nexthop[found.NHLFE] # Free
      BY <1>3, <2>2, FreeAssumption DEF Found
    <3>2. hop = found.NHLFE /\ found.NHLFE \in Nexthops
      BY <2>2, <3>1, EntryFields
    <3> QED
      BY <3>2, NullAssumption DEF Nexthops
  <2> QED
    BY <2>1, <2>2
<1>8. UNCHANGED labels /\ \A d : Forwards(d)' <=> Forwards(d)
  BY <1>1, SameCredentials DEF TablesUnchanged, vars
<1>9. CacheHolds => CacheHolds'
  <2> SUFFICES ASSUME CacheHolds, NEW c \in 0 .. PBP_CACHE_SIZE - 1, cache'[c].is_valid
               PROVE  /\ Forwards(cache'[c].label)
                      /\ labels[burst.iface][cache'[c].label].is_unicast => cache'[c].hop # None
    BY <1>1, <1>8 DEF CacheHolds
  <2>1. CASE c = CacheIndex(b)
    BY <1>6, <1>7, <2>1
  <2>2. CASE c # CacheIndex(b)
    BY <1>6, <2>2 DEF CacheHolds
  <2> QED
    BY <2>1, <2>2
<1> QED
  BY <1>1, <1>9, SameCredentials DEF HarmInv, Withdrawn

\* The entry found in the cache is that of the label.
LEMMA HitHolds ==
  ASSUME ControlInv, LoopsInv, CacheHolds, MayPeek, Hit(NextPacket.label),
         Cached(NextPacket.label).is_valid, NEW b, b = NextPacket.label
  PROVE  /\ b \in Labels /\ Forwards(b)
         /\ labels[burst.iface][b].is_unicast <=> IsUnicastNow(b)
         /\ labels[burst.iface][b].is_unicast => Cached(b).hop # None
<1>1. b \in Labels /\ CacheIndex(b) \in 0 .. PBP_CACHE_SIZE - 1 /\ burst.iface \in Pbps
  BY PacketToDecide, IndexInCache
<1>2. cache[CacheIndex(b)].label = b /\ cache[CacheIndex(b)].is_valid
  BY DEF Hit, Cached
<1>3. Forwards(b) /\ (labels[burst.iface][b].is_unicast => Cached(b).hop # None)
  BY <1>1, <1>2 DEF CacheHolds, Cached
<1>4. words[burst.iface][b] = labels[burst.iface][b]
  BY <1>1, <1>3 DEF Forwards, ControlInv, WordsInv
<1> QED
  BY <1>1, <1>3, <1>4 DEF IsUnicastNow

LEMMA DecideKeepsHarm ==
  ASSUME ControlInv, LoopsInv, HarmInv, Decide
  PROVE  HarmInv'
<1>1. /\ UNCHANGED <<burst, cache, slow, crashed, seen>> /\ TablesUnchanged /\ MayPeek
      /\ NextPacket.kind = "mpls" => Hit(NextPacket.label)
      /\ decided' = Append(decided, Decision(NextPacket))
  BY DEF Decide, fwdVars, Proceed
<1> PICK packet, b, d : packet = NextPacket /\ b = packet.label /\ d = Decision(packet)
  OBVIOUS
<1>2. packet \in Packet /\ decided \in Seq(Decisions) /\ d \in Decisions
  BY <1>1, PacketToDecide, DecisionIsOne DEF LoopsInv, DeliveryInv, Decide, ControlInv
<1>3. packet.kind \in {"host", "expired", "mpls"}
  BY <1>2 DEF Packet
<1>4. ASSUME CacheHolds, d[1] = "multicast"
      PROVE  d[2] \in Labels /\ Forwards(d[2]) /\ ~labels[burst.iface][d[2]].is_unicast
  <2>1. packet.kind = "mpls"
    BY <1>3, <1>4 DEF Decision
  <2>2. d = IF ~Cached(b).is_valid THEN <<"drop">>
            ELSE IF ~IsUnicastNow(b) THEN <<"multicast", b>>
            ELSE IF IsUp(local[Cached(b).hop]) THEN <<"unicast", local[Cached(b).hop]>>
            ELSE <<"drop">>
    BY <2>1 DEF Decision
  <2>3. Cached(b).is_valid /\ ~IsUnicastNow(b) /\ d = <<"multicast", b>>
    BY <1>4, <2>2
  <2>4. d[2] = b
    BY <2>3
  <2>5. b \in Labels /\ Forwards(b) /\ (labels[burst.iface][b].is_unicast <=> IsUnicastNow(b))
    BY <1>1, <1>4, <2>1, <2>3, HitHolds
  <2> QED
    BY <2>3, <2>4, <2>5
<1>5. /\ Len(decided') = Len(decided) + 1 /\ decided'[Len(decided) + 1] = d
      /\ \A i \in 1 .. Len(decided) : decided'[i] = decided[i]
      /\ Len(decided) \in Nat
  BY <1>1, <1>2, AppendProperties
<1>6. UNCHANGED labels /\ \A c : Forwards(c)' <=> Forwards(c)
  BY <1>1, SameCredentials DEF TablesUnchanged, vars
<1>7. CacheHolds /\ DecisionsHold => DecisionsHold'
  <2> SUFFICES ASSUME CacheHolds, DecisionsHold, NEW i \in 1 .. Len(decided) + 1,
                      decided'[i][1] = "multicast"
               PROVE  /\ decided'[i][2] \in Labels /\ Forwards(decided'[i][2])
                      /\ ~labels[burst.iface][decided'[i][2]].is_unicast
    BY <1>1, <1>5, <1>6 DEF DecisionsHold
  <2>1. CASE i \in 1 .. Len(decided)
    BY <1>5, <2>1 DEF DecisionsHold
  <2>2. CASE i = Len(decided) + 1
    BY <1>4, <1>5, <2>2
  <2> QED
    BY <1>5, <2>1, <2>2
<1> QED
  BY <1>1, <1>7, SameCredentials DEF HarmInv, Withdrawn

\* As long as the burst can rely on its tables it uses no invalid pointer.
LEMMA NoCrashBeforeWithdrawal ==
  ASSUME ControlInv, LoopsInv, HarmInv, burst # Nobody, ~Withdrawn
  PROVE  /\ ~DecideCrashes
         /\ BeginSlowPath => ~crashed' /\ MembersHold'
         /\ SendToMember => ~crashed' /\ MembersHold'
<1>0. CacheHolds /\ DecisionsHold /\ MembersHold /\ slow \in SlowPath /\ loop \in LoopType
  BY DEF HarmInv, LoopsInv, BurstType, DeliveryInv
<1>1. ~DecideCrashes
  <2> SUFFICES ASSUME DecideCrashes PROVE FALSE
    OBVIOUS
  <2> PICK b : b = NextPacket.label
    OBVIOUS
  <2>1. MayPeek /\ Hit(b) /\ Cached(b).is_valid /\ IsUnicastNow(b) /\ Cached(b).hop = None
    BY DEF DecideCrashes, UsesNoNexthop
  <2> QED
    BY <1>0, <2>1, HitHolds
<1>2. ASSUME BeginSlowPath PROVE ~crashed' /\ MembersHold'
  <2> PICK b : b = LatestIdentifier[2]
    OBVIOUS
  <2> PICK m : m = words[burst.iface][b].NHLFE
    OBVIOUS
  <2>1. Posting /\ LatestIdentifier[1] = "multicast" /\ UNCHANGED mnexthop
    BY <1>2 DEF BeginSlowPath, TablesUnchanged, vars
  <2>2. loop.latest_unsent \in 1 .. Len(decided)
    BY <2>1 DEF LoopsInv, DeliveryInv, LoopInv, LoopType, Posting
  <2>3. b \in Labels /\ Forwards(b) /\ ~labels[burst.iface][b].is_unicast
    BY <1>0, <2>1, <2>2 DEF DecisionsHold, LatestIdentifier
  <2>4. burst.iface \in Pbps /\ labels[burst.iface][b] \in LabelEntry
    BY <2>1, <2>3 DEF LoopsInv, BurstInv, Posting, Forwards, ControlInv, SpineInv, SpineType, TypeOK
  <2>5. words[burst.iface][b] = labels[burst.iface][b]
    BY <2>3, <2>4 DEF Forwards, ControlInv, WordsInv
  <2>6. m \in Mnexthops /\ mnexthop[m] # Free
    BY <2>3, <2>4, <2>5, EntryFields DEF Forwards, Found
  <2>7. slow'.group = m /\ slow'.invt = [k \in Slots |-> <<>>]
    <3>1. slow' = [NoSlow EXCEPT !.pc = "copy", !.group = m, !.packet = loop.latest_unsent]
      BY <1>2, <2>6 DEF BeginSlowPath
    <3> QED
      BY <3>1 DEF NoSlow
  <2>8. ~crashed'
    BY <1>2, <2>6 DEF BeginSlowPath
  <2> QED
    BY <2>1, <2>6, <2>7, <2>8 DEF MembersHold
<1>3. ASSUME SendToMember PROVE ~crashed' /\ MembersHold'
  <2> PICK k : k = slow.iptr
    OBVIOUS
  <2> PICK g : g = slow.group
    OBVIOUS
  <2>1. /\ slow.pc = "send" /\ k \in Slots /\ slow'.invt = slow.invt /\ slow'.group = g
        /\ \/ ~crashed'
           \/ slow.invt[k] # <<>> /\ ~Reachable(hopOf[g][k])
        /\ TablesUnchanged
    BY <1>0, <1>3, SendEffects
  <2>2. g \in Mnexthops
    BY <1>0 DEF SlowPath
  <2>3. slow.invt[k] # <<>> => Reachable(hopOf[g][k])
    <3>1. slow.invt[k] # <<>> =>
            MemberAt(g, k) # Free /\ Reachable(MemberAt(g, k).next_hop)
      BY <1>0, <2>1 DEF MembersHold
    <3> QED
      BY <2>1, <2>2, <3>1 DEF ControlInv, WordsInv
  <2>4. UNCHANGED <<mnexthop, nexthop, local, state>>
    BY <2>1 DEF TablesUnchanged, vars
  <2>5. MembersHold'
    BY <1>0, <2>1, <2>4 DEF MembersHold, MemberAt, Reachable, IsUp
  <2> QED
    BY <2>1, <2>3, <2>5
<1> QED
  BY <1>1, <1>2, <1>3

\* A round of the inner loop: only members that can be reached take a packet.
LEMMA CopyKeepsMembers ==
  ASSUME LoopsInv, MembersHold, CopyToMember
  PROVE  MembersHold'
<1> PICK k, g : k = slow.iptr /\ g = slow.group
  OBVIOUS
<1>1. slow \in SlowPath /\ slow.invt \in [Slots -> Seq(Nat)]
  BY DEF LoopsInv, BurstType, SlowPath
<1>2. /\ k \in Slots /\ slow.pc = "copy" /\ slow'.group = g
      /\ PassesOver(k) \/ Takes(k, Copy) \/ Takes(k, slow.packet)
      /\ TablesUnchanged
  BY <1>1, CopyRound
<1>3. UNCHANGED <<mnexthop, nexthop, local, state>>
  BY <1>2 DEF TablesUnchanged, vars
<1>4. \/ slow'.invt = slow.invt
      \/ /\ \A l \in Slots : l # k => slow'.invt[l] = slow.invt[l]
         /\ MemberAt(g, k) # Free /\ Reachable(MemberAt(g, k).next_hop)
  BY <1>1, <1>2 DEF PassesOver, Takes, OneMoreAt
<1>5. /\ mnexthop[g] # Free
      /\ \A l \in Slots : slow'.invt[l] # <<>> =>
           MemberAt(g, l) # Free /\ Reachable(MemberAt(g, l).next_hop)
  BY <1>2, <1>4 DEF MembersHold
<1> QED
  BY <1>2, <1>3, <1>5 DEF MembersHold, MemberAt, Reachable, IsUp

LEMMA StepKeepsHarm ==
  ASSUME ControlInv, LoopsInv, HarmInv, [ForwardingNext]_allVars
  PROVE  HarmInv'
<1>1. slow \in SlowPath /\ loop \in LoopType
  BY DEF LoopsInv, BurstType, DeliveryInv
<1>2. CASE UNCHANGED allVars
  <2>1. /\ UNCHANGED <<burst, cache, decided, slow, crashed, seen>> /\ TablesUnchanged
    BY <1>2 DEF allVars, fwdVars, deliveryVars, TablesUnchanged
  <2> QED
    BY <2>1, SameCredentials DEF HarmInv, Withdrawn
<1>3. ASSUME NEW p \in Pbps, NEW n \in 1 .. MaxBurst, NEW mbufs \in [1 .. MaxBurst -> Packet],
             RxBurst(p, SubSeq(mbufs, 1, n)), ~crashed
      PROVE  HarmInv'
  <2>1. slow' = NoSlow /\ cache' = NoCache /\ decided' = <<>> /\ crashed' = crashed
    BY <1>3, RxKeepsLoops
  <2>2. CacheHolds' /\ DecisionsHold' /\ MembersHold'
    BY <2>1 DEF CacheHolds, DecisionsHold, MembersHold, NoCache, NoSlow
  <2> QED
    BY <1>3, <2>1, <2>2 DEF HarmInv
<1>4. ASSUME EndOfBurst PROVE HarmInv'
  <2>1. UNCHANGED <<burst, cache, decided, slow, crashed, seen>> /\ TablesUnchanged
    BY <1>4 DEF EndOfBurst, Drain, fwdVars
  <2> QED
    BY <2>1, SameCredentials DEF HarmInv, Withdrawn
<1>5. ASSUME PostAtOnce \/ EndOfSlowPath PROVE HarmInv'
  <2>1. /\ slow' = NoSlow /\ UNCHANGED <<crashed, seen, decided>> /\ TablesUnchanged
        /\ burst' = Nobody \/ UNCHANGED <<burst, cache>>
    BY <1>5 DEF PostAtOnce, EndOfSlowPath, Posted, Post
  <2>2. MembersHold'
    BY <2>1 DEF MembersHold, NoSlow
  <2> QED
    BY <2>1, <2>2, SameCredentials DEF HarmInv, Withdrawn
<1>6. ASSUME DecideCrashes \/ BeginSlowPath \/ SendToMember PROVE HarmInv'
  <2>1. UNCHANGED <<loop, burst, cache, decided, seen>> /\ TablesUnchanged
    BY <1>6 DEF DecideCrashes, BeginSlowPath, SendToMember, deliveryVars
  <2>2. loop.pc # "idle"
    BY <1>1, <1>6 DEF DecideCrashes, BeginSlowPath, SendToMember, MayPeek, Posting, LoopsInv, BurstInv
  <2>3. burst # Nobody
    BY <2>2, BurstIsThere
  <2> QED
    BY <1>6, <2>1, <2>3, SameCredentials, NoCrashBeforeWithdrawal DEF HarmInv, Withdrawn
<1>7. ASSUME CopyToMember PROVE HarmInv'
  <2>1. UNCHANGED <<burst, cache, decided, crashed, seen>> /\ TablesUnchanged
    BY <1>7 DEF CopyToMember, deliveryVars
  <2> QED
    BY <1>7, <2>1, SameCredentials, CopyKeepsMembers DEF HarmInv, Withdrawn
<1>8. ASSUME EndOfMembers PROVE HarmInv'
  <2>1. /\ UNCHANGED <<burst, cache, decided, crashed, seen>> /\ TablesUnchanged
        /\ slow'.group = slow.group /\ slow'.invt = slow.invt /\ slow.pc # "none"
    BY <1>1, <1>8, EndOfCopies DEF deliveryVars
  <2>2. MembersHold => MembersHold'
    BY <2>1 DEF MembersHold, MemberAt, Reachable, IsUp, TablesUnchanged, vars
  <2> QED
    BY <2>1, <2>2, SameCredentials DEF HarmInv, Withdrawn
<1> QED
  BY <1>2, <1>3, <1>4, <1>5, <1>6, <1>7, <1>8, ForwardingCases, ControlKeepsHarm, LookupKeepsHarm,
     DecideKeepsHarm DEF BurstStep

(***************************************************************************)
(* The theorems about the packets.                                         *)
(***************************************************************************)
LEMMA ForwardingKeepsInv == ForwardingSpec => []FwdInv
<1>1. ForwardingInit => FwdInv
  <2> SUFFICES ASSUME ForwardingInit PROVE FwdInv
    OBVIOUS
  <2>1. ControlInv /\ LoopsInv
    BY InitControl, InitLoops
  <2>2. /\ burst = Nobody /\ slow = NoSlow /\ ~crashed /\ loop = NoBurst
    BY DEF ForwardingInit, DeliveryInit
  <2>3. FateInv
    BY <2>2 DEF FateInv, NoSlow, NoBurst
  <2>4. HarmInv
    BY <2>2 DEF HarmInv
  <2> QED
    BY <2>1, <2>3, <2>4 DEF FwdInv
<1>2. FwdInv /\ [ForwardingNext]_allVars => FwdInv'
  BY StepKeepsControl, StepKeepsLoops, StepKeepsFate, StepKeepsHarm DEF FwdInv
<1> QED
  BY <1>1, <1>2, PTL DEF ForwardingSpec

\* Every packet that has been posted was given to a ring or freed, and no
\* packet twice unless a member joined a group during the burst
\* (_pbp_multicast_fordward_slow_path, which reads nr_hops for every member).
THEOREM SpinePacketsAreConserved == ForwardingSpec => []MbufsAreConserved
<1>1. FwdInv => MbufsAreConserved
  <2> SUFFICES ASSUME FwdInv PROVE MbufsAreConserved
    OBVIOUS
  <2>1. DeliveryInv /\ fate \in [1 .. loop.nr_mbufs -> Nat] /\ FateInv /\ slow \in SlowPath
    BY DEF FwdInv, LoopsInv, BurstType
  <2>2. /\ Len(posted) \in Nat /\ Len(posted) <= loop.nr_mbufs /\ loop.nr_mbufs \in Nat
        /\ loop.current \in Nat /\ slow.packet \in Nat /\ slow.pc \in {"none", "copy", "send"}
    BY <2>1 DEF DeliveryInv, LoopInv, LoopType, SlowPath
  <2>3. ASSUME NEW i \in 1 .. loop.nr_mbufs PROVE fate[i] <= 1 \/ Joined
    <3>1. Once(i) \/ Untouched(i) \/ fate[i] = 0
      BY <2>1, <2>2, <2>3 DEF FateInv, PacketFate, BeingCopied
    <3> QED
      BY <3>1 DEF Once, AtMostOnce, Untouched
  <2>4. \A i \in 1 .. Len(posted) : fate[i] > 0
    <3> SUFFICES ASSUME NEW i \in 1 .. Len(posted) PROVE fate[i] > 0
      OBVIOUS
    <3>1. i \in 1 .. loop.nr_mbufs /\ i <= Len(posted)
      BY <2>2
    <3> QED
      BY <2>1, <3>1 DEF FateInv, PacketFate, Once, Somewhere, NobodyHolds
  <2>5. \A i \in DOMAIN fate : fate[i] > 1 => "joined" \in seen
    BY <2>1, <2>3 DEF Joined
  <2> QED
    BY <2>4, <2>5 DEF MbufsAreConserved
<1> QED
  BY <1>1, ForwardingKeepsInv, PTL

\* Forwarding uses an invalid pointer only if a call took something away during
\* the burst: what the lookups checked holds until then
\* (_process_pbp_input_packet and the unchecked reads of the slow path).
THEOREM WithdrawalsAloneHarm == ForwardingSpec => []OnlyWithdrawalsHarm
<1>1. FwdInv => OnlyWithdrawalsHarm
  BY DEF FwdInv, HarmInv, OnlyWithdrawalsHarm, Withdrawn
<1> QED
  BY <1>1, ForwardingKeepsInv, PTL
=============================================================================

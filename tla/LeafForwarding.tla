--------------------------- MODULE LeafForwarding ---------------------------
(***************************************************************************)
(* The input nodes of customer service ports (leaf/customer-service-port.c)*)
(* and customer backbone ports (leaf/customer-backbone-port.c), and MAC    *)
(* learning (leaf/mac-learning.c), beside the calls of LeafPorts.          *)
(*                                                                         *)
(* An I/O lcore works on one burst at a time.  It takes no lock, keeps the *)
(* services of VLANs or labels and the entries of MAC addresses it found   *)
(* in two caches for the length of the burst, and refreshes the MAC tables *)
(* with the source addresses at its end.  A new address goes through a     *)
(* ring to the MAC learning node, which runs on the thread of the API.     *)
(*                                                                         *)
(* A MAC table is read and written in one step: FastIndex is its detail.   *)
(***************************************************************************)
EXTENDS LeafPorts, ExpressDelivery

CONSTANTS
  CACHE_SIZE,   \* CSP_CACHE_SIZE, CBP_CACHE_SIZE
  RING_SIZE,    \* of the ring of the MAC learning node
  InitVlans,    \* the services that VLANs and labels are bound to at first,
  InitLabels,
  InitPorts,    \* the ports of the E-LANs, with slots of deleted ports between,
  InitFibs,     \* and what their MAC tables may hold
  MaxChanges,   \* bound: API calls that begin
  MaxBursts     \* bound: bursts that arrive

ASSUME CacheAssumption == CACHE_SIZE \in Nat \ {0} /\ RING_SIZE \in Nat

VARIABLES
  local,      \* local_e3iface of each next hop
  words,      \* the words of each label entry, valid or not
  burst,      \* the port and the packets of the burst
  cache,      \* csp_cache or cbp_cache
  mcache,     \* mac_cache; bound: the MAC addresses share one entry of it
  learned,    \* mac_learning_cache
  ring,       \* what waits for the MAC learning node
  flood,      \* variables of _csp_ or _cbp_multicast_forward_slow_path
  fate,       \* ghost: how often each packet was given to a ring or freed
  via,        \* ghost: the MAC entry each packet of the burst was sent by
  waits,      \* RCU callbacks the present burst holds up
  crashed,    \* an invalid pointer was used
  changes,    \* bound: API calls that have begun
  bursts,     \* bound: bursts that have arrived
  had,        \* ghost: ports and nhlfes each E-LAN has or had
  seen        \* ghost: what calls did to the tables since the burst began

burstVars == <<deliveryVars, burst, cache, mcache, learned, flood, fate, via, crashed, bursts>>
allVars == <<vars, burstVars, local, words, ring, waits, changes, had, seen>>

\* What the burst leaves alone, except for fib and ring.
TablesUnchanged == UNCHANGED <<vars, local, words, changes, had>>

CspPacket == [kind: {"eth"}, key: Vlans, src: Macs, dst: Macs]
CbpPacket == [kind: {"mpls"}, key: Labels, src: Macs, dst: Macs]
               \cup [kind: {"host", "expired"}, key: {0}, src: {None}, dst: {None}]
PacketsOf(i) == IF i \in Csps THEN CspPacket ELSE CbpPacket

LeafDecisions ==
  {<<"drop">>, <<"host">>} \cup ({"eline", "elan"} \X Ifaces)
    \cup ({"flood"} \X (Vlans \cup ELans))

ASSUME DecisionsAssumption == LeafDecisions \subseteq Decisions

NoEntry == [key |-> 0, is_valid |-> FALSE, is_e_line |-> FALSE,
            eline |-> None, elan |-> None, hop |-> None]
NoCache == [c \in 0 .. CACHE_SIZE - 1 |-> NoEntry]
NoMac   == [mac |-> None, is_valid |-> FALSE, entry |-> None]
NoFlood == [pc |-> "none", elan |-> None, nr_ports |-> 0, nr_port |-> 0, port_id |-> 0,
            consumed |-> FALSE, sent |-> {}]
Nobody  == [iface |-> None, mbufs |-> <<>>]

Entries(l) == IF elan[l] = Free THEN {}
              ELSE ({elan[l].ports[k] : k \in PortSlots}
                      \cup {elan[l].nhlfes[k] : k \in NhlfeSlots}) \ {None}

PortsBoundTo(service) ==
  {p \in Port : InitVlans[p.iface][p.vlan_tci] = service}

\* The bindings are such as calls leave behind: a VLAN leads to an E-LAN that has
\* the port, to an E-LINE alone, and a MAC entry to a port of its E-LAN.
ASSUME InitAssumption ==
  /\ InitVlans \in [Csps -> [Vlans -> Services \cup {None}]]
  /\ InitLabels \in [Cbps -> [Labels -> LabelEntry \cup {None}]]
  /\ InitPorts \in [ELans -> [PortSlots -> Port \cup {None}]]
  /\ InitFibs \subseteq [ELans -> [Macs -> Port \cup Nhlfe \cup {None}]]
  /\ \A l \in ELans :
       /\ PortsBoundTo(ELanService(l)) = {InitPorts[l][k] : k \in PortSlots} \ {None}
       /\ \A j, k \in PortSlots :
            InitPorts[l][j] = InitPorts[l][k] /\ InitPorts[l][j] # None => j = k
       /\ \A fib \in InitFibs, mac \in Macs :
            fib[l][mac] \in Port => fib[l][mac] \in PortsBoundTo(ELanService(l))
  /\ \A s \in ELines : \A p, q \in PortsBoundTo(ELineService(s)) : p = q
ASSUME CapacityAssumption ==  \* 4096 services of each kind, counted in a uint16_t
  /\ MAX_E_LINE_SERVICES > 0 /\ MAX_NHLFE_IN_E_LAN_SERVICE > 0
  /\ MAX_E_LINE_SERVICES + MAX_E_LAN_SERVICES < NexthopRefModulus

\* Services, VLANs and labels as calls of LeafPorts set them up: every service
\* has the same path.
ForwardingInit ==
  \E path \in Nhlfe, at \in [Nexthops -> Cbps], fib \in InitFibs :
    LET Counts(service) == Cardinality(PortsBoundTo(service))
          + Cardinality({c \in Cbps : \E b \in Labels :
                           InitLabels[c][b] # None /\ InitLabels[c][b].service = service})
        ELineOf(s) == PortsBoundTo(ELineService(s))
    IN  /\ \A l \in ELans, mac \in Macs : fib[l][mac] \in Nhlfe => fib[l][mac] = path
        /\ elan = [l \in ELans |->
             [is_valid |-> TRUE, ports |-> InitPorts[l], multicast_NHLFE |-> None,
              nhlfes |-> [k \in NhlfeSlots |-> IF k = 0 THEN path ELSE None],
              fib |-> fib[l], ref_cnt |-> Counts(ELanService(l))]]
        /\ eline = [s \in ELines |->
             [port |-> IF ELineOf(s) = {} THEN None ELSE CHOOSE p \in ELineOf(s) : TRUE,
              nhlfe |-> path, ref_cnt |-> Counts(ELineService(s))]]
        /\ nexthop = [h \in Nexthops |->
             IF h # path.NHLFE THEN 0
             ELSE Cardinality(ELines) + Cardinality(ELans)]
        /\ local = at
        /\ state = [i \in Ifaces |-> "up"]
        /\ vlans = InitVlans /\ labels = InitLabels
        /\ words = [c \in Cbps |-> [b \in Labels |->
             IF InitLabels[c][b] # None THEN InitLabels[c][b]
             ELSE [service |-> ELineService(0), egress |-> None]]]
        /\ call = [a \in Threads \cup {Rcu} |-> Idle] /\ rcu = <<>>
        /\ DeliveryInit
        /\ burst = Nobody /\ cache = NoCache /\ mcache = NoMac /\ learned = <<>>
        /\ ring = <<>> /\ flood = NoFlood /\ fate = <<>> /\ via = <<>>
        /\ waits = {} /\ crashed = FALSE /\ changes = 0 /\ bursts = 0 /\ seen = {}
        /\ had = [l \in ELans |-> Entries(l)]

----------------------------------------------------------------------------
(* The burst: what an input node reads.                                    *)

\* find_e3interface_by_index no longer finds an unregistered interface.
IsUp(i) == state[i] = "up"
Reachable(h) == nexthop[h] # Free /\ IsUp(local[h])
AtCsp == burst.iface \in Csps

\* The rest of what a step of the burst may change.
Reads(v) == UNCHANGED <<v, ring, waits, seen>> /\ TablesUnchanged

RxBurst(i, mbufs) ==
  /\ burst = Nobody /\ IsUp(i)
  /\ bursts < MaxBursts /\ bursts' = bursts + 1
  /\ Receive(Len(mbufs))
  /\ burst' = [iface |-> i, mbufs |-> mbufs]
  /\ cache' = NoCache /\ mcache' = NoMac /\ learned' = <<>>
  /\ fate' = [k \in 1 .. Len(mbufs) |-> 0] /\ via' = <<>> /\ seen' = {}
  /\ UNCHANGED <<flood, crashed, ring, waits>> /\ TablesUnchanged

NextPacket == burst.mbufs[loop.peek + 1]
CacheIndex(key) == key % CACHE_SIZE
Cached(p) == cache[CacheIndex(p.key)]
IsKeyed(p) == p.kind \in {"eth", "mpls"}

\* Mutant: any entry that was stored is taken for the packet's.
HitsAny(p) == Cached(p).key = p.key \/ Cached(p).is_valid

\* The cache is zeroed, so that key 0 hits an entry nobody has stored.
Hits(p) == Cached(p).key = p.key

Store(p, entry) ==
  /\ MayPeek /\ IsKeyed(p) /\ ~Hits(p)
  /\ cache' = [cache EXCEPT ![CacheIndex(p.key)] = entry]
  /\ Reads(<<deliveryVars, burst, mcache, learned, flood, fate, via, crashed, bursts>>)

\* A customer port looks the service of the VLAN up, and all that an E-LINE needs.
VlanEntry(i, p) ==
  LET s == vlans[i][p.key]
      n == s.service_index
      path == IF FindELine(n) THEN eline[n].nhlfe ELSE None
      old == [Cached(p) EXCEPT !.key = p.key, !.is_valid = FALSE]
  IN  CASE s = None -> old
        [] s # None /\ s.e_service = "e_line" ->
             [old EXCEPT !.is_e_line = TRUE, !.eline = IF FindELine(n) THEN n ELSE None,
                         !.hop = IF path = None THEN None ELSE path.NHLFE,
                         !.is_valid = path # None /\ Reachable(path.NHLFE)]
        [] s # None /\ s.e_service = "e_lan" ->
             [old EXCEPT !.is_e_line = FALSE,
                         !.elan = IF FindELan(n) THEN n ELSE None,
                         !.is_valid = FindELan(n)]

LookupVlan == AtCsp /\ Store(NextPacket, VlanEntry(burst.iface, NextPacket))

\* Mutant: the pointer of E-LANs is set for both kinds of service.
LookupLabelAsELan ==
  LET p == NextPacket
      b == labels[burst.iface][p.key]
      n == b.service.service_index
      old == [Cached(p) EXCEPT !.key = p.key, !.is_valid = FALSE]
  IN  /\ burst.iface \in Cbps
      /\ Store(p, IF b = None THEN old
                  ELSE [old EXCEPT !.elan = n, !.is_valid = FindService(b.service)])

\* A backbone port looks the service of the label up.  It keeps a pointer for
\* each kind of service, and sets one of them.
LabelsEntry(i, p) ==
  LET b == labels[i][p.key]
      n == b.service.service_index
      old == [Cached(p) EXCEPT !.key = p.key, !.is_valid = FALSE]
  IN  CASE b = None -> old
        [] b # None /\ b.service.e_service = "e_line" ->
             [old EXCEPT !.eline = IF FindELine(n) THEN n ELSE None,
                         !.is_valid = HasELinePort(n)]
        [] b # None /\ b.service.e_service = "e_lan" ->
             [old EXCEPT !.elan = IF FindELan(n) THEN n ELSE None,
                         !.is_valid = FindELan(n)]

LookupLabel ==
  burst.iface \in Cbps /\ Store(NextPacket, LabelsEntry(burst.iface, NextPacket))

\* A customer port goes by the kind it has cached, a backbone port reads the
\* kind from the label entry again.
Word(p) == words[burst.iface][p.key]
IsELineNow(p) == IF AtCsp THEN Cached(p).is_e_line ELSE Word(p).service.e_service = "e_line"

Served(p) == IsKeyed(p) /\ Cached(p).is_valid
InELan(p) == Served(p) /\ ~IsELineNow(p)

MayDecide(p) == MayPeek /\ (IsKeyed(p) => Hits(p))

\* The kind of service has no pointer in the cached entry.
UsesNoService(p) ==
  Served(p) /\ (IF IsELineNow(p) THEN Cached(p).eline = None ELSE Cached(p).elan = None)

Crash ==
  /\ MayDecide(NextPacket) /\ UsesNoService(NextPacket)
  /\ crashed' = TRUE
  /\ Reads(<<deliveryVars, burst, cache, mcache, learned, flood, fate, via, bursts>>)

\* The MAC cache is keyed by the address alone, though tables are per E-LAN.
MacHits(p) == mcache.mac = p.dst

\* A customer port also looks up what a path needs.
LookupMac ==
  LET p == NextPacket
      found == elan[Cached(p).elan].fib[p.dst]
  IN  /\ MayDecide(p) /\ InELan(p) /\ ~UsesNoService(p) /\ ~MacHits(p)
      /\ mcache' = [mac |-> p.dst, entry |-> found,
                    is_valid |-> found # None
                      /\ (AtCsp /\ found \in Nhlfe => Reachable(found.NHLFE))]
      /\ Reads(<<deliveryVars, burst, cache, learned, flood, fate, via, crashed, bursts>>)

----------------------------------------------------------------------------
(* The burst: deciding and learning.                                       *)

\* What the e3iface field of an E-LINE still holds without a port is left open.
ELineIfaces(s) ==
  IF eline[s] = Free \/ ~HasELinePort(s) THEN Csps ELSE {eline[s].port.iface}

\* A path back into the backbone is refused at a backbone port.
MacDecision(p) ==
  CASE ~mcache.is_valid -> IF AtCsp THEN <<"flood", p.key>> ELSE <<"flood", Cached(p).elan>>
    [] mcache.is_valid /\ mcache.entry \in Port -> <<"elan", mcache.entry.iface>>
    [] mcache.is_valid /\ mcache.entry \in Nhlfe ->
         IF AtCsp THEN <<"elan", local[mcache.entry.NHLFE]>> ELSE <<"drop">>

MayDecideAs(p) ==
  CASE p.kind = "host" -> {<<"host">>}
    [] p.kind = "expired" \/ (IsKeyed(p) /\ ~Cached(p).is_valid) -> {<<"drop">>}
    [] Served(p) /\ IsELineNow(p) ->
         IF AtCsp THEN {<<"eline", local[Cached(p).hop]>>}
         ELSE {"eline"} \X ELineIfaces(Cached(p).eline)
    [] InELan(p) -> {MacDecision(p)}

\* The source of a packet at a backbone port is reached by the egress nhlfe of
\* its label, if there is one.
SourceEntry(p) ==
  IF AtCsp THEN [iface |-> burst.iface, vlan_tci |-> p.key]
  ELSE IF Word(p).egress = None THEN None
  ELSE elan[Cached(p).elan].nhlfes[Word(p).egress.slot]

\* Addresses are learned once in a burst, in the E-LAN that brings them first.
\* The backbone port leaves the packet before, if it is refused.
Learns(p) ==
  /\ InELan(p) /\ p.src # None
  /\ \A k \in DOMAIN learned : learned[k].mac # p.src
  /\ SourceEntry(p) # None
  /\ AtCsp \/ MacDecision(p) # <<"drop">>

Decide ==
  LET p == NextPacket
  IN  /\ MayDecide(p) /\ ~UsesNoService(p)
      /\ InELan(p) => MacHits(p)
      /\ \E id \in MayDecideAs(p) : Proceed(id)
      /\ learned' = IF Learns(p)
                    THEN Append(learned, [mac |-> p.src, elan |-> Cached(p).elan,
                                          entry |-> SourceEntry(p)])
                    ELSE learned
      /\ via' = Append(via, IF InELan(p) /\ mcache.is_valid THEN mcache.entry ELSE None)
      /\ Reads(<<burst, cache, mcache, flood, fate, crashed, bursts>>)

EndOfPackets ==
  /\ Drain
  /\ Reads(<<burst, cache, mcache, learned, flood, fate, via, crashed, bursts>>)

----------------------------------------------------------------------------
(* The burst: posting.                                                     *)

\* The packets of the run are given to a ring or freed.
Disposed == [k \in DOMAIN fate |-> IF k \in Waiting THEN fate[k] + 1 ELSE fate[k]]

Posted ==
  /\ Post
  /\ flood' = NoFlood
  /\ Reads(<<burst, cache, mcache, learned, via, crashed, bursts>>)

PostAtOnce ==
  /\ Posting /\ LatestIdentifier[1] # "flood"
  /\ fate' = Disposed
  /\ Posted

\* The customer port looks the E-LAN of the VLAN up again, the backbone port
\* takes the one it decided by.
FloodELans ==
  LET key == LatestIdentifier[2]
      s == vlans[burst.iface][key]
      l == IF ~AtCsp THEN key
           ELSE IF s # None /\ s.e_service = "e_lan" THEN s.service_index ELSE None
  IN  {k \in ELans : k = l /\ FindELan(k)}

BeginFlood ==
  /\ Posting /\ LatestIdentifier[1] = "flood" /\ flood.pc = "none"
  /\ \E l \in FloodELans :
       flood' = [NoFlood EXCEPT !.pc = "ports", !.elan = l,
                   !.nr_ports = Cardinality(PortSlots \ FreePortSlots(l))]
  /\ Reads(<<deliveryVars, burst, cache, mcache, learned, fate, via, crashed, bursts>>)

\* No such E-LAN: the packets are freed.
FloodNowhere ==
  /\ Posting /\ LatestIdentifier[1] = "flood" /\ flood.pc = "none" /\ FloodELans = {}
  /\ fate' = Disposed
  /\ Posted

Flooding == flood.pc = "ports" /\ flood.port_id \in PortSlots /\ flood.nr_port < flood.nr_ports

\* Mutant: the count of ports is compared with the slot.
FloodPortOfCount ==
  LET k == flood.port_id
      port == elan[flood.elan].ports[k]
      own == AtCsp /\ port = [iface |-> burst.iface, vlan_tci |-> LatestIdentifier[2]]
      goes == port # None /\ ~own /\ IsUp(port.iface)
      last == ~AtCsp /\ goes /\ flood.nr_port + 1 >= flood.nr_ports
  IN  /\ Flooding
      /\ flood' = [flood EXCEPT !.port_id = k + 1, !.nr_port = @ + 1,
                     !.sent = IF goes THEN @ \cup {port} ELSE @, !.consumed = @ \/ last]
      /\ fate' = IF last THEN Disposed ELSE fate
      /\ Reads(<<deliveryVars, burst, cache, mcache, learned, via, crashed, bursts>>)

\* A customer port sends copies to all ports but the one the packets came from,
\* a backbone port copies, and the packets themselves to the last of the ports
\* (customer-backbone-port.c:187).  A port that is sent to gets as many copies as
\* there are mbufs for: the first that cannot be allocated ends the copying for this
\* port (customer-service-port.c:251), and the flood goes on with the next one.
FloodPort ==
  LET k == flood.port_id
      port == elan[flood.elan].ports[k]
      own == AtCsp /\ port = [iface |-> burst.iface, vlan_tci |-> LatestIdentifier[2]]
      goes == port # None /\ ~own /\ IsUp(port.iface)
      last == ~AtCsp /\ goes /\ flood.nr_port + 1 >= flood.nr_ports
  IN  /\ Flooding
      /\ flood' = [flood EXCEPT !.port_id = k + 1,
                     !.nr_port = IF port = None THEN @ ELSE @ + 1,
                     !.sent = IF goes THEN @ \cup {port} ELSE @, !.consumed = @ \/ last]
      /\ fate' = IF last THEN Disposed ELSE fate
      /\ Reads(<<deliveryVars, burst, cache, mcache, learned, via, crashed, bursts>>)

\* Mutant: the packets are freed though the last port has taken them.
FloodEndFrees ==
  /\ flood.pc = "ports" /\ ~Flooding
  /\ fate' = Disposed
  /\ Posted

\* The customer port sends the packets themselves to the multicast path or
\* frees them, the backbone port frees them unless the last port took them.
FloodEnd ==
  /\ flood.pc = "ports" /\ ~Flooding
  /\ fate' = IF flood.consumed THEN fate ELSE Disposed
  /\ Posted

----------------------------------------------------------------------------
(* MAC learning.                                                           *)

SetFib(l, mac, entry) ==
  /\ elan' = [elan EXCEPT ![l].fib[mac] = entry]
  /\ UNCHANGED <<eline, nexthop, ports, local, words, changes, had, seen>>

InUpdate == burst # Nobody /\ loop.pc = "idle" /\ learned # <<>>

\* Mutant: the E-LAN of the first address is used for all.
UpdateMacOfFirst ==
  LET e == [Head(learned) EXCEPT !.elan = learned[Len(learned)].elan]
      l == e.elan
  IN  /\ InUpdate
      /\ learned' = Tail(learned)
      /\ IF FindELan(l) /\ elan[l].fib[e.mac] # None
         THEN SetFib(l, e.mac, e.entry) /\ UNCHANGED ring
         ELSE /\ ring' = IF FindELan(l) /\ Len(ring) < RING_SIZE THEN Append(ring, e) ELSE ring
              /\ UNCHANGED seen /\ TablesUnchanged
      /\ UNCHANGED <<deliveryVars, burst, cache, mcache, flood, fate, via, crashed, bursts, waits>>

\* update_mac_learning_cache: an address that is known is refreshed in place,
\* a new one is queued if there is room.
UpdateMac ==
  LET e == Head(learned)
      l == e.elan
  IN  /\ InUpdate
      /\ learned' = Tail(learned)
      /\ IF FindELan(l) /\ elan[l].fib[e.mac] # None
         THEN SetFib(l, e.mac, e.entry) /\ UNCHANGED ring
         ELSE /\ ring' = IF FindELan(l) /\ Len(ring) < RING_SIZE THEN Append(ring, e) ELSE ring
              /\ UNCHANGED seen /\ TablesUnchanged
      /\ UNCHANGED <<deliveryVars, burst, cache, mcache, flood, fate, via, crashed, bursts, waits>>

\* The node of the port is done, and its lcore passes a quiescent state.
EndOfBurst ==
  /\ burst # Nobody /\ loop.pc = "idle" /\ learned = <<>>
  /\ burst' = Nobody /\ cache' = NoCache /\ mcache' = NoMac /\ waits' = {}
  /\ UNCHANGED <<deliveryVars, learned, flood, fate, via, crashed, bursts, ring, seen>>
  /\ TablesUnchanged

\* mac_learning_node_process_func, on a thread between two calls of the API.
LearnMac(t) ==
  LET e == Head(ring)
  IN  /\ Ready(t) /\ ring # <<>>
      /\ ring' = Tail(ring)
      /\ IF FindELan(e.elan) THEN SetFib(e.elan, e.mac, e.entry)
         ELSE UNCHANGED seen /\ TablesUnchanged
      /\ UNCHANGED <<burstVars, waits>>

----------------------------------------------------------------------------
(* API calls and the RCU thread, as the burst sees them.                   *)

\* Ghosts: the words of invalid label entries, the interface a new next hop
\* leads to, what E-LANs had, what bindings changed.
Watch ==
  /\ words' = [c \in Cbps |-> [b \in Labels |->
                 IF labels'[c][b] # None THEN labels'[c][b] ELSE words[c][b]]]
  /\ \E at \in [{h \in Nexthops : nexthop[h] = Free /\ nexthop'[h] # Free} -> Cbps] :
       local' = [h \in Nexthops |-> IF h \in DOMAIN at THEN at[h] ELSE local[h]]
  /\ had' = [l \in ELans |-> had[l] \cup Entries(l)']
  /\ seen' = IF burst = Nobody THEN seen
             ELSE seen \cup (IF labels' # labels THEN {"label"} ELSE {})
                       \cup (IF vlans' # vlans THEN {"vlan"} ELSE {})
                       \cup (IF state' # state \/ \E l \in ELans : Entries(l)' # Entries(l)
                             THEN {"port"} ELSE {})

\* call_rcu: the callback waits for the burst that is going on.
GracePeriod ==
  waits' = IF burst = Nobody \/ Len(rcu') <= Len(rcu) THEN waits
           ELSE waits \cup {rcu'[Len(rcu')]}

ApiStep ==
  \E t \in Threads :
    /\ \/ changes < MaxChanges /\ Begin(t) /\ changes' = changes + 1
       \/ Continue(t) /\ UNCHANGED changes
    /\ Watch /\ GracePeriod
    /\ UNCHANGED <<burstVars, ring>>

ReclaimStep ==
  /\ rcu # <<>> => Head(rcu) \notin waits
  /\ RcuStep
  /\ Watch
  /\ UNCHANGED <<burstVars, ring, waits, changes>>

----------------------------------------------------------------------------
BurstStep ==
  \/ LookupVlan \/ LookupLabel \/ LookupMac \/ Crash \/ Decide \/ EndOfPackets
  \/ PostAtOnce \/ BeginFlood \/ FloodNowhere \/ FloodPort \/ FloodEnd
  \/ UpdateMac \/ EndOfBurst

\* Nothing arrives, or the process is gone.
Still == (crashed \/ burst = Nobody) /\ UNCHANGED allVars

ForwardingNext ==
  \/ Still
  \/ /\ ~crashed
     /\ \/ \E i \in Ifaces, n \in 1 .. MaxBurst :
             \E mbufs \in [1 .. n -> PacketsOf(i)] : RxBurst(i, mbufs)
        \/ BurstStep
        \/ \E t \in Threads : LearnMac(t)
        \/ ApiStep
        \/ ReclaimStep

ForwardingSpec == ForwardingInit /\ [][ForwardingNext]_allVars

----------------------------------------------------------------------------
(* Properties.                                                             *)

\* Whatever calls change meanwhile, a packet is given to a ring or freed once,
\* and not before it is posted.
PacketsAreConserved ==
  /\ \A k \in DOMAIN fate : fate[k] <= 1
  /\ \A k \in 1 .. Len(posted) : fate[k] = 1

\* The E-LANs a packet belongs to by its VLAN or label, while bindings stay.
ELansOf(p) ==
  {l \in ELans : IF AtCsp THEN vlans[burst.iface][p.key] = ELanService(l)
                          ELSE Word(p).service = ELanService(l)}

\* A packet is sent by unicast only where its E-LAN has, or had, a port or a
\* path, however MAC entries are learned and purged; unless an earlier packet
\* of the burst had the same destination in another E-LAN, whose entry is then
\* taken from the cache.
UnicastStaysInELan ==
  \A k \in DOMAIN via :
    LET p == burst.mbufs[k]
    IN  burst # Nobody /\ via[k] # None /\ seen \cap {"vlan", "label"} = {} =>
          \/ \E l \in ELansOf(p) : via[k] \in had[l]
          \/ \E j \in 1 .. k - 1 : burst.mbufs[j].dst = p.dst
                                     /\ ELansOf(burst.mbufs[j]) # ELansOf(p)

\* A flood is sent to every port of the E-LAN that is up but the one it came
\* from, holes in the array of ports notwithstanding, unless ports, interfaces
\* or bindings change during the burst.  How many of its packets a port gets
\* depends on the mbufs there are for copies.
FloodReachesOtherPorts ==
  flood.pc = "ports" /\ ~Flooding /\ seen = {} =>
    flood.sent = {p \in Port : /\ \E k \in PortSlots : elan[flood.elan].ports[k] = p
                               /\ IsUp(p.iface)
                               /\ AtCsp => p # [iface |-> burst.iface,
                                                vlan_tci |-> LatestIdentifier[2]]}

\* A MAC entry leads to a port or nhlfe that its own E-LAN has or had: what was
\* seen in one E-LAN is never learned in another.
LearnsWhereSeen ==
  \A l \in ELans, mac \in Macs :
    FindELan(l) => elan[l].fib[mac] \in had[l] \cup {None}

\* An input node uses no null pointer unless a label that it has cached is
\* bound to another kind of service during the burst.
OnlyRebindingCrashes == crashed => "label" \in seen
=============================================================================

-------------------------- MODULE FastIndex_proofs --------------------------
(***************************************************************************)
(* What is proved of FastIndex, for every number of keys, entries, slots,  *)
(* tag words and I/O lcores.                                               *)
(***************************************************************************)
EXTENDS FastIndex, TLAPS

(* What lookup r may stand on: the list, and the unlinked entries whose    *)
(* grace period waits for r.                                               *)
Safe(r) == Linked \cup {d \in DOMAIN retired : r \in retired[d]}

(* The list is a list: no entry has two predecessors, the head has none,   *)
(* and an unlinked entry is not in it.                                     *)
ShapeInv ==
    /\ \A x \in Linked : entry[x].next # head \/ head = NoEntry
    /\ \A x \in Linked, y \in Linked :
          entry[x].next = entry[y].next /\ entry[x].next # NoEntry => x = y
    /\ \A d \in DOMAIN retired : d \notin Linked

(* The stale next pointer of an unlinked entry leads a lookup that may     *)
(* still follow it to what is linked, or was unlinked under that lookup.   *)
GraceInv ==
    \A d \in DOMAIN retired :
        /\ retired[d] \subseteq Inside
        /\ \A r \in retired[d] : entry[d].next \in Safe(r) \cup {NoEntry}

(* What the writer is about to do: the slot it fills or clears is linked   *)
(* and not available, the key it inserts is not in the index.              *)
Filling == writer.pc \in {"tags", "value", "publish"}
WriterInv ==
    /\ writer.pc # "idle" => valid /\ writer.at \in Linked
    /\ writer.pc \in {"tags", "value", "publish", "zero"} =>
          writer.slot \notin entry[writer.at].avail
    /\ writer.pc \in {"tags", "zero"} => writer.word <= NrTags
    /\ Filling => entry[writer.at].tag0 = writer.key.tag0
    /\ Filling => \A k \in Keys : writer.key = k => Holding(k) = {}
    /\ writer.pc = "tags" =>
          \A j \in 1..NrTags : j < writer.word =>
              entry[writer.at].tags[writer.slot][j] = writer.key.tags[j]
    /\ writer.pc \in {"value", "publish"} =>
          entry[writer.at].tags[writer.slot] = writer.key.tags
    /\ writer.pc = "unlink" => entry[writer.at].avail = {}

(* A key sits in at most one slot.                                         *)
OneSlotInv == \A k \in Keys : \A x \in Holding(k), y \in Holding(k) : x = y

Stands(r) ==
    lookup[r].pc # "idle" =>
        /\ lookup[r].at \in Safe(r) \cup {NoEntry}
        /\ lookup[r].pc # "walk" => lookup[r].at # NoEntry

(* The slot of a key that has stayed lies on the rest of the way of a      *)
(* lookup that has not found it yet, and among the candidates of the entry *)
(* the lookup is comparing.                                                *)
Tracks(r) ==
    \A k \in Keys, a \in Entries \cup {NoEntry} :
        /\ lookup[r].pc # "idle" /\ lookup[r].steady
        /\ lookup[r].key = k /\ lookup[r].at = a
        => /\ Holding(k) # {}
           /\ ~lookup[r].found =>
                 \A es \in Holding(k) :
                     /\ es[1] \in From(a)
                     /\ es[1] = a /\ lookup[r].pc \in {"compare", "probe"} =>
                           es[2] \in lookup[r].cand

LookupInv == \A r \in Readers : Stands(r) /\ Tracks(r)

Inv == TypeOK /\ ShapeInv /\ GraceInv /\ WriterInv /\ OneSlotInv /\ LookupInv

-----------------------------------------------------------------------------
(* Walks                                                                   *)

(* A way holds its start, is closed under the next pointers, and is the    *)
(* least such set (the loop of add_index_2_4_item_unsafe and of the        *)
(* lookups over next).                                                     *)
LEMMA FromIsLeast ==
    ASSUME TypeOK, NEW p \in Entries \cup {NoEntry}
    PROVE  /\ From(p) \subseteq Entries
           /\ p \in From(p) \cup {NoEntry}
           /\ Closed(From(p))
           /\ \A S \in SUBSET Entries :
                 p \in S \cup {NoEntry} /\ Closed(S) => From(p) \subseteq S
<1>1. From(p) \subseteq Entries /\ p \in From(p) \cup {NoEntry}
  BY DEF From
<1>2. \A S \in SUBSET Entries : p \in S \cup {NoEntry} /\ Closed(S) => From(p) \subseteq S
  BY DEF From
<1>3. Closed(From(p))
  <2> SUFFICES ASSUME NEW x \in From(p)
               PROVE  entry[x].next \in From(p) \cup {NoEntry}
    BY DEF Closed
  <2>1. x \in Entries /\ entry[x].next \in Entries \cup {NoEntry}
    BY <1>1 DEF TypeOK, EntryType
  <2>2. \A S \in SUBSET Entries : p \in S \cup {NoEntry} /\ Closed(S)
                                   => entry[x].next \in S \cup {NoEntry}
    BY <1>2 DEF Closed
  <2> QED BY <2>1, <2>2 DEF From
<1> QED BY <1>1, <1>2, <1>3

(* The null pointer leads nowhere.                                         *)
LEMMA FromNothing == From(NoEntry) = {}
<1>1. Closed({}) /\ {} \in SUBSET Entries /\ NoEntry \in {} \cup {NoEntry}
  BY DEF Closed
<1>2. \A e \in From(NoEntry) : e \in {}
  BY <1>1 DEF From
<1> QED BY <1>2

(* The list is the way from the head.                                      *)
LEMMA LinkedIsLeast ==
    ASSUME TypeOK
    PROVE  /\ Linked \subseteq Entries
           /\ head \in Linked \cup {NoEntry}
           /\ \A x \in Linked : entry[x].next \in Linked \cup {NoEntry}
           /\ \A S \in SUBSET Entries :
                 head \in S \cup {NoEntry} /\ Closed(S) => Linked \subseteq S
<1>1. head \in Entries \cup {NoEntry}
  BY DEF TypeOK
<1> QED BY <1>1, FromIsLeast DEF Linked, Closed

(* A step that leaves the next pointers of a closed set alone leaves the   *)
(* ways that start in it alone.                                            *)
LEMMA FromIsKept ==
    ASSUME NEW p, NEW S \in SUBSET Entries, p \in S \cup {NoEntry}, Closed(S),
           \A x \in S : entry'[x].next = entry[x].next
    PROVE  From(p)' = From(p)
<1>1. ASSUME NEW e \in From(p)' PROVE e \in From(p)
  <2> SUFFICES ASSUME NEW T \in SUBSET Entries, p \in T \cup {NoEntry}, Closed(T)
               PROVE  e \in T
    BY <1>1 DEF From
  <2>1. T \cap S \in SUBSET Entries /\ p \in (T \cap S) \cup {NoEntry}
    OBVIOUS
  <2>2. Closed(T \cap S)'
    BY DEF Closed
  <2> QED BY <1>1, <2>1, <2>2 DEF From
<1>2. ASSUME NEW e \in From(p) PROVE e \in From(p)'
  <2> SUFFICES ASSUME NEW T \in SUBSET Entries, p \in T \cup {NoEntry}, Closed(T)'
               PROVE  e \in T
    BY <1>2 DEF From
  <2>1. T \cap S \in SUBSET Entries /\ p \in (T \cap S) \cup {NoEntry}
    OBVIOUS
  <2>2. Closed(T \cap S)
    BY DEF Closed
  <2> QED BY <1>2, <2>1, <2>2 DEF From
<1> QED BY <1>1, <1>2

(* What a step does that touches no next pointer.                          *)
NextsStay == /\ head' = head
             /\ \A e \in Entries : entry'[e].next = entry[e].next

LEMMA WaysStay ==
    ASSUME TypeOK, NextsStay
    PROVE  /\ Linked' = Linked
           /\ \A p \in Entries \cup {NoEntry} : From(p)' = From(p)
<1>1. Closed(Entries)
  BY DEF Closed, TypeOK, EntryType
<1>2. \A p \in Entries \cup {NoEntry} : From(p)' = From(p)
  BY <1>1, FromIsKept DEF NextsStay
<1>3. head \in Entries \cup {NoEntry}
  BY DEF TypeOK
<1>4. \A p : head = p => Linked = From(p) /\ Linked' = From(p)'
  BY DEF Linked, NextsStay
<1> QED BY <1>2, <1>3, <1>4

(* Where a step only sets null pointers, the ways grow.                    *)
LEMMA WaysGrow ==
    ASSUME NEW p, NEW S \in SUBSET Entries, p \in S \cup {NoEntry}, Closed(S),
           \A x \in S : entry'[x].next = entry[x].next \/ entry[x].next = NoEntry
    PROVE  From(p) \subseteq From(p)'
<1> SUFFICES ASSUME NEW e \in From(p), NEW T \in SUBSET Entries,
                    p \in T \cup {NoEntry}, Closed(T)'
             PROVE  e \in T
  BY DEF From
<1>1. T \cap S \in SUBSET Entries /\ p \in (T \cap S) \cup {NoEntry}
  OBVIOUS
<1>2. Closed(T \cap S)
  BY DEF Closed
<1> QED BY <1>1, <1>2 DEF From

(* Appending e: the first entry of the list, or the one after the last.    *)
Appends(e) ==
    /\ e \in Entries /\ e \notin Linked /\ e \notin DOMAIN retired
    /\ entry'[e].next = NoEntry
    /\ \/ /\ head = NoEntry /\ head' = e
          /\ \A x \in Entries \ {e} : entry'[x].next = entry[x].next
       \/ \E l \in Linked :
             /\ head' = head /\ entry[l].next = NoEntry /\ entry'[l].next = e
             /\ \A x \in Entries \ {e, l} : entry'[x].next = entry[x].next

LEMMA AppendedIsLinked ==
    ASSUME TypeOK, NEW e, Appends(e)
    PROVE  Linked' = Linked \cup {e}
<1>0. e \in Entries /\ e # NoEntry /\ e \notin Linked /\ entry'[e].next = NoEntry
  BY FastIndexAssumption DEF Appends
<1>1. ASSUME head = NoEntry, head' = e
      PROVE  Linked' = Linked \cup {e}
  <2>1. Linked = {}
    BY <1>1, FromNothing DEF Linked
  <2>2. Closed({e})'
    BY <1>0 DEF Closed
  <2>3. \A x \in Linked' : x \in {e}
    BY <1>0, <1>1, <2>2 DEF Linked, From
  <2>4. e \in Linked'
    BY <1>0, <1>1 DEF Linked, From
  <2> QED BY <2>1, <2>3, <2>4
<1>2. ASSUME NEW l \in Linked, head' = head, entry[l].next = NoEntry, entry'[l].next = e,
             \A x \in Entries \ {e, l} : entry'[x].next = entry[x].next
      PROVE  Linked' = Linked \cup {e}
  <2>1. PICK L : L = Linked
    OBVIOUS
  <2>2. /\ L \subseteq Entries /\ head \in L \cup {NoEntry} /\ l \in L
        /\ \A x \in L : entry[x].next \in L \cup {NoEntry}
    BY <2>1, LinkedIsLeast
  <2>3. Closed(L \cup {e})'
    BY <1>0, <1>2, <2>2 DEF Closed
  <2>4. L \cup {e} \in SUBSET Entries /\ head' \in (L \cup {e}) \cup {NoEntry}
    BY <1>0, <1>2, <2>2
  <2>5. \A x \in Linked' : x \in L \cup {e}
    BY <2>3, <2>4 DEF Linked, From
  <2>6. ASSUME NEW x \in L \cup {e}, NEW T \in SUBSET Entries,
               head' \in T \cup {NoEntry}, Closed(T)'
        PROVE  x \in T
    <3>1. Closed(T \cap L)
      BY <1>0, <1>2, <2>1, <2>2, <2>6 DEF Closed
    <3>2. L \subseteq T \cap L
      BY <3>1, <1>2, <2>1, <2>2, <2>6, LinkedIsLeast
    <3>3. e \in T
      BY <3>2, <1>0, <1>2, <2>2, <2>6 DEF Closed
    <3> QED BY <3>2, <3>3, <2>6
  <2>7. \A x \in L \cup {e} : x \in Linked'
    BY <1>0, <2>2, <2>6 DEF Linked, From
  <2> QED BY <2>1, <2>5, <2>7
<1> QED BY <1>0, <1>1, <1>2 DEF Appends

(* Unlinking u: whoever leads to u now leads to what u leads to.           *)
Bypasses(u) ==
    /\ head' = IF head = u THEN entry[u].next ELSE head
    /\ \A x \in Entries : entry'[x].next = IF x \in Linked /\ entry[x].next = u
                                           THEN entry[u].next ELSE entry[x].next

LEMMA NoSelfLoop ==
    ASSUME TypeOK, ShapeInv, NEW u \in Linked
    PROVE  entry[u].next # u /\ (head = u => \A x \in Linked : entry[x].next # u)
<1>0. /\ Linked \subseteq Entries /\ head \in Linked \cup {NoEntry} /\ NoEntry \notin Linked
      /\ \A x \in Linked : entry[x].next \in Linked \cup {NoEntry}
  BY LinkedIsLeast, FastIndexAssumption
<1>1. head = u => \A x \in Linked : entry[x].next # u
  BY <1>0 DEF ShapeInv
<1>2. ASSUME entry[u].next = u PROVE FALSE
  <2>1. head # u
    BY <1>1, <1>2
  <2>2. Closed(Linked \ {u})
    BY <1>0, <1>2 DEF Closed, ShapeInv
  <2>3. Linked \ {u} \in SUBSET Entries /\ head \in (Linked \ {u}) \cup {NoEntry}
    BY <1>0, <2>1
  <2> QED BY <2>2, <2>3, LinkedIsLeast
<1> QED BY <1>1, <1>2

(* A way that leads through u loses u only.                                *)
LEMMA WaysBypass ==
    ASSUME TypeOK, NEW u \in Entries, Bypasses(u), NEW p, NEW e \in From(p), e # u
    PROVE  e \in From(p)'
<1> SUFFICES ASSUME NEW T \in SUBSET Entries, p \in T \cup {NoEntry}, Closed(T)'
             PROVE  e \in T
  BY DEF From
<1>1. CASE entry[u].next \in T \cup {NoEntry}
  <2>1. Closed(T \cup {u})
    BY <1>1 DEF Closed, Bypasses
  <2>2. T \cup {u} \in SUBSET Entries /\ p \in (T \cup {u}) \cup {NoEntry}
    OBVIOUS
  <2>3. e \in T \cup {u}
    BY <2>1, <2>2 DEF From
  <2> QED BY <2>3
<1>2. CASE entry[u].next \notin T \cup {NoEntry}
  <2>1. Closed(T)
    BY <1>2 DEF Closed, Bypasses
  <2> QED BY <2>1 DEF From
<1> QED BY <1>1, <1>2

LEMMA UnlinkedIsGone ==
    ASSUME TypeOK, ShapeInv, NEW u \in Linked, Bypasses(u)
    PROVE  Linked' = Linked \ {u}
<1>1. PICK L : L = Linked
  OBVIOUS
<1>2. /\ L \subseteq Entries /\ head \in L \cup {NoEntry} /\ NoEntry \notin L /\ u \in L
      /\ \A x \in L : entry[x].next \in L \cup {NoEntry}
  BY <1>1, LinkedIsLeast, FastIndexAssumption
<1>3. entry[u].next # u /\ (head = u => \A x \in L : entry[x].next # u)
  BY <1>1, NoSelfLoop
<1>4. Closed(L \ {u})'
  BY <1>1, <1>2, <1>3 DEF Closed, Bypasses
<1>5. L \ {u} \in SUBSET Entries /\ head' \in (L \ {u}) \cup {NoEntry}
  BY <1>2, <1>3 DEF Bypasses
<1>6. \A x \in Linked' : x \in L \ {u}
  BY <1>4, <1>5 DEF Linked, From
<1>7. ASSUME NEW x \in L \ {u}, NEW T \in SUBSET Entries,
             head' \in T \cup {NoEntry}, Closed(T)'
      PROVE  x \in T
  <2>1. CASE entry[u].next \in T \cup {NoEntry}
    <3>1. Closed(T \cup {u})
      BY <2>1, <1>7 DEF Closed, Bypasses
    <3>2. T \cup {u} \in SUBSET Entries /\ head \in (T \cup {u}) \cup {NoEntry}
      BY <1>2, <1>7 DEF Bypasses
    <3> QED BY <3>1, <3>2, <1>1, <1>7, LinkedIsLeast
  <2>2. CASE entry[u].next \notin T \cup {NoEntry}
    <3>1. Closed(T)
      BY <2>2, <1>7 DEF Closed, Bypasses
    <3>2. head \in T \cup {NoEntry}
      BY <2>2, <1>7 DEF Bypasses
    <3> QED BY <3>1, <3>2, <1>1, <1>7, LinkedIsLeast
  <2> QED BY <2>1, <2>2
<1>8. \A x \in L \ {u} : x \in Linked'
  BY <1>2, <1>7 DEF Linked, From
<1> QED BY <1>1, <1>6, <1>8

-----------------------------------------------------------------------------
(* Stores                                                                  *)

(* All fields of the entries but the one a store is about.                 *)
SameBut(f) ==
    \A e \in Entries :
        /\ f # "tag0" => entry'[e].tag0 = entry[e].tag0
        /\ f # "tags" => entry'[e].tags = entry[e].tags
        /\ f # "avail" => entry'[e].avail = entry[e].avail
        /\ f # "val" => entry'[e].val = entry[e].val
        /\ f # "next" => entry'[e].next = entry[e].next

(* One value of one slot is stored.                                        *)
ValueStored(a, s, v) ==
    \A e \in Entries, t \in Slots :
        entry'[e].val[t] = IF e = a /\ t = s THEN v ELSE entry[e].val[t]
ValuesStay == \A e \in Entries : entry'[e].val = entry[e].val

LEMMA StoringAValue ==
    ASSUME entry \in [Entries -> EntryType], NEW a \in Entries, NEW s \in Slots,
           NEW v \in Values, entry' = [entry EXCEPT ![a].val[s] = v]
    PROVE  /\ entry' \in [Entries -> EntryType]
           /\ SameBut("val")
           /\ ValueStored(a, s, v)
<1>1. entry[a] \in EntryType /\ entry[a].val \in [Slots -> Values]
  BY DEF EntryType
<1>2. PICK w : w = [entry[a].val EXCEPT ![s] = v]
  OBVIOUS
<1>3. w \in [Slots -> Values] /\ \A t \in Slots : w[t] = IF t = s THEN v ELSE entry[a].val[t]
  BY <1>1, <1>2
<1>4. entry' = [entry EXCEPT ![a] = [entry[a] EXCEPT !.val = w]]
  BY <1>2
<1>5. [entry[a] EXCEPT !.val = w] \in EntryType
  BY <1>1, <1>3 DEF EntryType
<1>6. entry' \in [Entries -> EntryType]
  BY <1>4, <1>5
<1>7. SameBut("val")
  BY <1>1, <1>4 DEF SameBut, EntryType
<1>8. \A e \in Entries : entry'[e].val = IF e = a THEN w ELSE entry[e].val
  BY <1>1, <1>4 DEF EntryType
<1>9. ValueStored(a, s, v)
  BY <1>3, <1>8 DEF ValueStored
<1> QED BY <1>6, <1>7, <1>9

(* One tag word of one slot is stored.                                     *)
TagStored(a, s, w, n) ==
    /\ \A e \in Entries, t \in Slots :
          e # a \/ t # s => entry'[e].tags[t] = entry[e].tags[t]
    /\ \A j \in 1..NrTags :
          entry'[a].tags[s][j] = IF j = w THEN n ELSE entry[a].tags[s][j]

LEMMA StoringATag ==
    ASSUME entry \in [Entries -> EntryType], NEW a \in Entries, NEW s \in Slots,
           NEW w \in 1..NrTags, NEW n \in Nat,
           entry' = [entry EXCEPT ![a].tags[s][w] = n]
    PROVE  /\ entry' \in [Entries -> EntryType]
           /\ SameBut("tags")
           /\ TagStored(a, s, w, n)
<1>1. /\ entry[a] \in EntryType /\ entry[a].tags \in [Slots -> [1..NrTags -> Nat]]
      /\ entry[a].tags[s] \in [1..NrTags -> Nat]
  BY DEF EntryType
<1>2. PICK u : u = [entry[a].tags[s] EXCEPT ![w] = n]
  OBVIOUS
<1>3. PICK g : g = [entry[a].tags EXCEPT ![s] = u]
  OBVIOUS
<1>4. /\ u \in [1..NrTags -> Nat]
      /\ \A j \in 1..NrTags : u[j] = IF j = w THEN n ELSE entry[a].tags[s][j]
  BY <1>1, <1>2
<1>5. /\ g \in [Slots -> [1..NrTags -> Nat]]
      /\ \A t \in Slots : g[t] = IF t = s THEN u ELSE entry[a].tags[t]
  BY <1>1, <1>3, <1>4
<1>6. entry' = [entry EXCEPT ![a] = [entry[a] EXCEPT !.tags = g]]
  BY <1>2, <1>3
<1>7. [entry[a] EXCEPT !.tags = g] \in EntryType
  BY <1>1, <1>5 DEF EntryType
<1>8. entry' \in [Entries -> EntryType]
  BY <1>6, <1>7
<1>9. SameBut("tags")
  BY <1>1, <1>6 DEF SameBut, EntryType
<1>10. \A e \in Entries : entry'[e].tags = IF e = a THEN g ELSE entry[e].tags
  BY <1>1, <1>6 DEF EntryType
<1>11. \A e \in Entries, t \in Slots :
          e # a \/ t # s => entry'[e].tags[t] = entry[e].tags[t]
  BY <1>5, <1>10
<1>12. entry'[a].tags[s] = u
  BY <1>5, <1>10
<1>13. TagStored(a, s, w, n)
  BY <1>4, <1>11, <1>12 DEF TagStored
<1> QED BY <1>8, <1>9, <1>13

LEMMA StoringAvail ==
    ASSUME entry \in [Entries -> EntryType], NEW a \in Entries, NEW A \in SUBSET Slots,
           entry' = [entry EXCEPT ![a].avail = A]
    PROVE  /\ entry' \in [Entries -> EntryType]
           /\ SameBut("avail")
           /\ \A e \in Entries : entry'[e].avail = IF e = a THEN A ELSE entry[e].avail
<1>1. entry[a] \in EntryType
  OBVIOUS
<1>2. [entry[a] EXCEPT !.avail = A] \in EntryType
  BY <1>1 DEF EntryType
<1>3. entry' \in [Entries -> EntryType]
  BY <1>2
<1>4. SameBut("avail")
  BY <1>1 DEF SameBut, EntryType
<1>5. \A e \in Entries : entry'[e].avail = IF e = a THEN A ELSE entry[e].avail
  BY <1>1 DEF EntryType
<1> QED BY <1>3, <1>4, <1>5

LEMMA StoringNext ==
    ASSUME entry \in [Entries -> EntryType], NEW a \in Entries,
           NEW n \in Entries \cup {NoEntry}, entry' = [entry EXCEPT ![a].next = n]
    PROVE  /\ entry' \in [Entries -> EntryType]
           /\ SameBut("next")
           /\ \A e \in Entries : entry'[e].next = IF e = a THEN n ELSE entry[e].next
<1>1. entry[a] \in EntryType
  OBVIOUS
<1>2. [entry[a] EXCEPT !.next = n] \in EntryType
  BY <1>1 DEF EntryType
<1>3. entry' \in [Entries -> EntryType]
  BY <1>2
<1>4. SameBut("next")
  BY <1>1 DEF SameBut, EntryType
<1>5. \A e \in Entries : entry'[e].next = IF e = a THEN n ELSE entry[e].next
  BY <1>1 DEF EntryType
<1> QED BY <1>3, <1>4, <1>5

LEMMA Defaults ==
    /\ SomeKey \in Keys /\ SomeValue \in Values /\ ZeroTags \in [1..NrTags -> Nat]
    /\ 0 \in Slots /\ Zeroed \in EntryType
    /\ Idle \in WriterType /\ NoLookup \in LookupType
<1>1. SomeKey \in Keys /\ SomeValue \in Values
  BY FastIndexAssumption DEF SomeKey, SomeValue
<1>2. ZeroTags \in [1..NrTags -> Nat] /\ 0 \in Slots
  BY FastIndexAssumption DEF ZeroTags, Slots
<1>3. Zeroed \in EntryType
  BY <1>1, <1>2 DEF Zeroed, EntryType
<1>4. Idle \in WriterType
  BY <1>1, <1>2 DEF Idle, WriterType
<1>5. NoLookup \in LookupType
  BY <1>1 DEF NoLookup, LookupType
<1> QED BY <1>1, <1>2, <1>3, <1>4, <1>5

-----------------------------------------------------------------------------
(* Keys                                                                    *)

LEMMA HoldingIs ==
    ASSUME NEW k, NEW x, NEW t
    PROVE  <<x, t>> \in Holding(k) <=>
               /\ x \in Linked /\ t \in Slots /\ t \in entry[x].avail
               /\ entry[x].tag0 = k.tag0 /\ entry[x].tags[t] = k.tags
  BY DEF Holding

LEMMA HoldsPairs ==
    ASSUME NEW k, NEW es \in Holding(k)
    PROVE  es = <<es[1], es[2]>> /\ es[1] \in Linked /\ es[2] \in Slots
  BY DEF Holding

LEMMA SameHolding ==
    ASSUME NEW k, \A e, t : <<e, t>> \in Holding(k)' <=> <<e, t>> \in Holding(k)
    PROVE  Holding(k)' = Holding(k)
<1>1. \A es \in Holding(k) : es = <<es[1], es[2]>>
  BY HoldsPairs
<1>2. \A es \in Holding(k)' : es = <<es[1], es[2]>>
  BY DEF Holding
<1> QED BY <1>1, <1>2

LEMMA KeysDiffer ==
    ASSUME NEW k \in Keys, NEW q \in Keys, k.tag0 = q.tag0, k.tags = q.tags
    PROVE  k = q
<1>1. k \in [tag0 : Nat, tags : [1..NrTags -> Nat]] /\ q \in [tag0 : Nat, tags : [1..NrTags -> Nat]]
  BY FastIndexAssumption
<1> QED BY <1>1

(* A step keeps the slots of all keys when the list and what its available *)
(* slots say stay.                                                         *)
LEMMA HoldingStays ==
    ASSUME Linked' = Linked,
           \A e \in Linked :
               /\ entry'[e].tag0 = entry[e].tag0 /\ entry'[e].avail = entry[e].avail
               /\ \A t \in entry[e].avail : entry'[e].tags[t] = entry[e].tags[t]
    PROVE  \A k : Holding(k)' = Holding(k)
<1> SUFFICES ASSUME NEW k PROVE Holding(k)' = Holding(k)
  OBVIOUS
<1>1. \A es \in Linked \X Slots : es[1] \in Linked /\ es[2] \in Slots
  OBVIOUS
<1> QED BY <1>1 DEF Holding

(* What a step may do to the slots of a key: nothing, take them away, or   *)
(* give one to a key that had none.                                        *)
Settles ==
    \A k \in Keys : \/ Holding(k)' \subseteq Holding(k)
                    \/ Holding(k) = {} /\ \E es : Holding(k)' = {es}

LEMMA SettlingKeepsOneSlot ==
    ASSUME OneSlotInv, Settles
    PROVE  OneSlotInv'
  BY DEF OneSlotInv, Settles

-----------------------------------------------------------------------------
(* Steps that leave the list alone                                         *)

Calm == NextsStay /\ retired' = retired /\ Inside \subseteq Inside'

LEMMA CalmKeepsTheList ==
    ASSUME TypeOK, ShapeInv, GraceInv, Calm
    PROVE  /\ Linked' = Linked
           /\ \A p \in Entries \cup {NoEntry} : From(p)' = From(p)
           /\ \A r : Safe(r)' = Safe(r)
           /\ ShapeInv' /\ GraceInv'
<1>1. /\ Linked' = Linked /\ \A p \in Entries \cup {NoEntry} : From(p)' = From(p)
  BY WaysStay DEF Calm
<1>2. Linked \subseteq Entries /\ DOMAIN retired \subseteq Entries
  BY LinkedIsLeast DEF TypeOK
<1>3. head' = head /\ retired' = retired /\ \A e \in Entries : entry'[e].next = entry[e].next
  BY DEF Calm, NextsStay
<1>4. \A r : Safe(r)' = Safe(r)
  BY <1>1, <1>3 DEF Safe
<1>5. ShapeInv'
  BY <1>1, <1>2, <1>3 DEF ShapeInv
<1>6. Inside \subseteq Inside'
  BY DEF Calm
<1>7. GraceInv'
  <2> SUFFICES ASSUME NEW d \in DOMAIN retired
               PROVE  /\ retired[d] \subseteq Inside
                      /\ \A r \in retired[d] : entry'[d].next \in Safe(r) \cup {NoEntry}
    <3>1. \A r \in Readers : Safe(r)' = Safe(r)
      BY <1>4
    <3> QED BY <1>3, <1>4, <1>6 DEF GraceInv
  <2> QED BY <1>2, <1>3 DEF GraceInv
<1> QED BY <1>1, <1>4, <1>5, <1>7

(* A step that changes nothing of what the writer has prepared.            *)
ContentsStay ==
    /\ Linked' = Linked
    /\ \A e \in Linked : /\ entry'[e].tag0 = entry[e].tag0
                         /\ entry'[e].avail = entry[e].avail
                         /\ entry'[e].tags = entry[e].tags

LEMMA WriterUndisturbed ==
    ASSUME WriterInv, writer' = writer, valid' = valid, ContentsStay
    PROVE  WriterInv' /\ \A k : Holding(k)' = Holding(k)
<1>1. \A k : Holding(k)' = Holding(k)
  BY HoldingStays DEF ContentsStay
<1>2. writer' = writer /\ valid' = valid /\ \A k : Holding(k)' = Holding(k)
  BY <1>1
<1>4. CASE writer.pc = "idle"
  <2>1. writer'.pc = "idle"
    BY <1>2, <1>4
  <2> QED BY <2>1, <1>2 DEF WriterInv, Filling
<1>5. CASE writer.pc # "idle"
  <2>1. writer.at \in Linked /\ writer'.at \in Linked'
    BY <1>5 DEF WriterInv, ContentsStay
  <2>2. /\ entry'[writer.at].tag0 = entry[writer.at].tag0
        /\ entry'[writer.at].avail = entry[writer.at].avail
        /\ entry'[writer.at].tags = entry[writer.at].tags
    BY <2>1 DEF ContentsStay
  <2>3. Filling' <=> Filling
    BY DEF Filling
  <2> QED BY <2>1, <2>2, <2>3, <1>2 DEF WriterInv
<1> QED BY <1>1, <1>4, <1>5

-----------------------------------------------------------------------------
(* Lookups beside a step of the others                                     *)

(* The lookup stays where it is, and its ghost sees the step.              *)
Watches(r) ==
    /\ lookup'[r].pc = lookup[r].pc /\ lookup'[r].key = lookup[r].key
    /\ lookup'[r].at = lookup[r].at /\ lookup'[r].cand = lookup[r].cand
    /\ lookup'[r].found = lookup[r].found
    /\ lookup[r].pc # "idle" /\ lookup'[r].steady =>
          lookup[r].steady /\ \A k \in Keys : k = lookup[r].key => Holding(k)' # {}

(* The rest of its way still leads to the slot it is after.                *)
WaysLead(r) ==
    \A k \in Keys, a \in Entries \cup {NoEntry} :
        lookup[r].pc # "idle" /\ k = lookup[r].key /\ a = lookup[r].at =>
            \A es \in Holding(k) : es \in Holding(k)' /\ es[1] \in From(a)
                                       => es[1] \in From(a)'

LEMMA LookupUndisturbed ==
    ASSUME TypeOK, NEW r \in Readers, Stands(r), Tracks(r), Settles, Watches(r), WaysLead(r),
           lookup[r].pc # "idle" => \A a : a \in Safe(r) => a \in Safe(r)'
    PROVE  Stands(r)' /\ Tracks(r)'
<1>1. lookup[r] \in LookupType
  BY DEF TypeOK
<1>2. lookup[r].key \in Keys /\ lookup[r].at \in Entries \cup {NoEntry}
  BY <1>1 DEF LookupType
<1>3. Stands(r)'
  <2> SUFFICES ASSUME lookup'[r].pc # "idle"
               PROVE  /\ lookup'[r].at \in Safe(r)' \cup {NoEntry}
                      /\ lookup'[r].pc # "walk" => lookup'[r].at # NoEntry
    BY DEF Stands
  <2> QED BY DEF Stands, Watches
<1>4. Tracks(r)'
  <2> SUFFICES ASSUME NEW k \in Keys, lookup'[r].key = k,
                      NEW a \in Entries \cup {NoEntry}, lookup'[r].at = a,
                      lookup'[r].pc # "idle", lookup'[r].steady
               PROVE  /\ Holding(k)' # {}
                      /\ ~lookup'[r].found =>
                            \A es \in Holding(k)' :
                              /\ es[1] \in From(a)'
                              /\ es[1] = a /\ lookup'[r].pc \in {"compare", "probe"} =>
                                    es[2] \in lookup'[r].cand
    BY DEF Tracks
  <2>1. /\ k = lookup[r].key /\ a = lookup[r].at /\ lookup[r].pc # "idle"
        /\ lookup[r].steady /\ Holding(k)' # {}
    BY DEF Watches
  <2>2. /\ Holding(k) # {}
        /\ ~lookup[r].found =>
              \A es \in Holding(k) :
                  /\ es[1] \in From(a)
                  /\ a = es[1] /\ lookup[r].pc \in {"compare", "probe"} =>
                        es[2] \in lookup[r].cand
    BY <2>1 DEF Tracks
  <2>3. Holding(k)' \subseteq Holding(k)
    BY <2>2 DEF Settles
  <2>4. \A es \in Holding(k)' : es[1] \in From(a) => es[1] \in From(a)'
    BY <2>1, <2>3 DEF WaysLead
  <2> QED BY <2>1, <2>2, <2>3, <2>4 DEF Watches
<1> QED BY <1>3, <1>4

LEMMA BoundIsTyped ==
    ASSUME entry' \in [Entries -> EntryType], NEW k
    PROVE  Bound(k)' \subseteq Values
<1>1. \A e \in Entries, t \in Slots : entry'[e].val[t] \in Values
  BY DEF EntryType
<1>2. Linked' \subseteq Entries
  BY DEF Linked, From
<1> QED BY <1>1, <1>2 DEF Bound, Holding

LEMMA WatchedIsSeen ==
    ASSUME TypeOK, entry' \in [Entries -> EntryType],
           NEW r \in Readers, lookup'[r] = Watched(lookup[r])
    PROVE  lookup'[r] \in LookupType /\ Watches(r)
<1>1. lookup'[r] = Watched(lookup[r]) /\ lookup[r] \in LookupType
  BY DEF TypeOK
<1>2. PICK k \in Keys : k = lookup[r].key
  BY <1>1 DEF LookupType
<1>3. PICK B \in SUBSET Values : B = Bound(k)'
  BY BoundIsTyped
<1>4. BoundNext[lookup[r].key] = B
  BY <1>2, <1>3 DEF BoundNext
<1>5. B # {} => Holding(k)' # {}
  BY <1>3 DEF Bound
<1>6. CASE lookup[r].pc = "idle"
  BY <1>1, <1>6 DEF Watched, Watches
<1>7. CASE lookup[r].pc # "idle"
  <2>1. lookup'[r] = [lookup[r] EXCEPT !.steady = (lookup[r].steady /\ B # {}),
                                       !.held = lookup[r].held \cup B]
    BY <1>1, <1>4, <1>7 DEF Watched
  <2>2. lookup'[r] \in LookupType
    BY <1>1, <2>1 DEF LookupType
  <2>3. /\ lookup'[r].pc = lookup[r].pc /\ lookup'[r].key = lookup[r].key
        /\ lookup'[r].at = lookup[r].at /\ lookup'[r].cand = lookup[r].cand
        /\ lookup'[r].found = lookup[r].found
        /\ lookup'[r].steady => lookup[r].steady /\ B # {}
    BY <1>1, <2>1 DEF LookupType
  <2> QED BY <1>2, <1>5, <2>2, <2>3 DEF Watches
<1> QED BY <1>6, <1>7

LEMMA WatchingIsSeen ==
    ASSUME TypeOK, Watch, entry' \in [Entries -> EntryType]
    PROVE  lookup' \in [Readers -> LookupType] /\ \A r \in Readers : Watches(r)
<1>1. ASSUME NEW r \in Readers PROVE lookup'[r] \in LookupType /\ Watches(r)
  <2>1. lookup'[r] = Watched(lookup[r])
    BY DEF Watch
  <2> QED BY <2>1, WatchedIsSeen
<1>2. lookup' = [r \in Readers |-> Watched(lookup[r])]
  BY DEF Watch
<1> QED BY <1>1, <1>2

LEMMA UnwatchedIsUnchanged ==
    ASSUME LookupInv, lookup' = lookup, \A k : Holding(k)' = Holding(k), TypeOK
    PROVE  \A r \in Readers : Watches(r)
<1> SUFFICES ASSUME NEW r \in Readers, NEW k \in Keys, k = lookup[r].key,
                    lookup[r].pc # "idle", lookup[r].steady
             PROVE  Holding(k)' # {}
  BY DEF Watches
<1>1. lookup[r].at \in Entries \cup {NoEntry}
  BY DEF TypeOK, LookupType
<1> QED BY <1>1 DEF LookupInv, Tracks

(* What a step of the writer or of RCU has to show.                        *)
Harmless ==
    /\ TypeOK' /\ ShapeInv' /\ GraceInv' /\ WriterInv' /\ Settles
    /\ \A r \in Readers : /\ Watches(r) /\ WaysLead(r)
                          /\ lookup[r].pc # "idle" => \A a : a \in Safe(r) => a \in Safe(r)'

LEMMA HarmlessKeepsInv ==
    ASSUME Inv, Harmless
    PROVE  Inv'
<1>1. TypeOK' /\ ShapeInv' /\ GraceInv' /\ WriterInv'
  BY DEF Harmless
<1>2. OneSlotInv'
  BY SettlingKeepsOneSlot DEF Inv, Harmless
<1>3. ASSUME NEW r \in Readers PROVE Stands(r)' /\ Tracks(r)'
  BY LookupUndisturbed DEF Inv, LookupInv, Harmless
<1>4. LookupInv'
  BY <1>3 DEF LookupInv
<1> QED BY <1>1, <1>2, <1>4 DEF Inv

(* Most steps of the writer touch neither the list nor what is retired.    *)
LEMMA CalmWrite ==
    ASSUME Inv, entry' \in [Entries -> EntryType], NextsStay, retired' = retired,
           \A r \in Readers : Watches(r)
    PROVE  /\ ShapeInv' /\ GraceInv' /\ Linked' = Linked
           /\ \A r \in Readers :
                 WaysLead(r) /\ \A a : a \in Safe(r) => a \in Safe(r)'
<1>1. Calm
  BY DEF Calm, Watches, Inside
<1>2. /\ ShapeInv' /\ GraceInv' /\ Linked' = Linked
      /\ \A p \in Entries \cup {NoEntry} : From(p)' = From(p)
      /\ \A r : Safe(r)' = Safe(r)
  BY <1>1, CalmKeepsTheList DEF Inv
<1>3. \A r \in Readers : WaysLead(r)
  BY <1>2 DEF WaysLead
<1>4. \A r \in Readers : \A a : a \in Safe(r) => a \in Safe(r)'
  BY <1>2
<1> QED BY <1>2, <1>3, <1>4

LEMMA SameHoldingSettles ==
    ASSUME \A k : Holding(k)' = Holding(k)
    PROVE  Settles
  BY DEF Settles

LEMMA SameButKeepsNexts ==
    ASSUME NEW f, f # "next", SameBut(f), head' = head
    PROVE  NextsStay
  BY DEF SameBut, NextsStay

LEMMA SameButKeepsValues ==
    ASSUME NEW f, f # "val", SameBut(f)
    PROVE  ValuesStay
  BY DEF SameBut, ValuesStay

LEMMA OverwriteStep ==
    ASSUME Inv, NEW k \in Keys, NEW v \in Values, Overwrite(k, v)
    PROVE  /\ Harmless /\ \A q : Holding(q)' = Holding(q)
           /\ \E a \in Entries, s \in Slots : ValueStored(a, s, v)
<1>0. TypeOK /\ entry \in [Entries -> EntryType] /\ Linked \subseteq Entries
  BY LinkedIsLeast DEF Inv, TypeOK
<1>1. PICK es \in Holding(k) : entry' = [entry EXCEPT ![es[1]].val[es[2]] = v]
  BY DEF Overwrite
<1>2. es[1] \in Entries /\ es[2] \in Slots
  BY <1>0, HoldsPairs
<1>3. /\ entry' \in [Entries -> EntryType] /\ SameBut("val")
      /\ ValueStored(es[1], es[2], v)
  BY <1>0, <1>1, <1>2, StoringAValue
<1>4. /\ head' = head /\ retired' = retired /\ writer' = writer /\ valid' = valid
      /\ Watch /\ writes' = writes + 1 /\ writes < MaxWrites
  BY DEF Overwrite, WriterStarts
<1>5. lookup' \in [Readers -> LookupType] /\ \A r \in Readers : Watches(r)
  BY <1>0, <1>3, <1>4, WatchingIsSeen
<1>6. TypeOK'
  BY <1>0, <1>3, <1>4, <1>5, FastIndexAssumption DEF TypeOK
<1>7. NextsStay
  BY <1>3, <1>4, SameButKeepsNexts
<1>8. /\ ShapeInv' /\ GraceInv' /\ Linked' = Linked
      /\ \A r \in Readers : WaysLead(r) /\ \A a : a \in Safe(r) => a \in Safe(r)'
  BY <1>3, <1>4, <1>5, <1>7, CalmWrite
<1>9. ContentsStay
  BY <1>0, <1>3, <1>8 DEF ContentsStay, SameBut
<1>10. WriterInv' /\ \A q : Holding(q)' = Holding(q)
  BY <1>4, <1>9, WriterUndisturbed DEF Inv
<1>11. Harmless
  BY <1>5, <1>6, <1>8, <1>10, SameHoldingSettles DEF Harmless
<1> QED BY <1>2, <1>3, <1>10, <1>11

LEMMA BeginInsertStep ==
    ASSUME Inv, NEW k \in Keys, NEW v \in Values, BeginInsert(k, v)
    PROVE  Harmless /\ \A q : Holding(q)' = Holding(q)
<1>0. TypeOK /\ entry \in [Entries -> EntryType] /\ Linked \subseteq Entries
  BY LinkedIsLeast DEF Inv, TypeOK
<1>1. PICK e \in FirstRoom(k) : \E s \in Least(Slots \ entry[e].avail) :
          writer' = [pc |-> "tags", key |-> k, val |-> v, at |-> e, slot |-> s, word |-> 1]
  BY DEF BeginInsert
<1>2. PICK s \in Least(Slots \ entry[e].avail) :
          writer' = [pc |-> "tags", key |-> k, val |-> v, at |-> e, slot |-> s, word |-> 1]
  BY <1>1
<1>3. e \in Linked /\ e \in Entries /\ entry[e].tag0 = k.tag0
  BY <1>0 DEF FirstRoom, WithRoom
<1>4. s \in Slots /\ s \notin entry[e].avail
  BY DEF Least
<1>5. /\ head' = head /\ retired' = retired /\ entry' = entry /\ valid' = valid
      /\ lookup' = lookup /\ writes' = writes + 1 /\ writes < MaxWrites
      /\ valid /\ Holding(k) = {}
  BY DEF BeginInsert, WriterStarts
<1>6. writer' \in WriterType
  BY <1>2, <1>3, <1>4 DEF WriterType
<1>7. TypeOK'
  BY <1>0, <1>5, <1>6, FastIndexAssumption DEF TypeOK
<1>8. NextsStay /\ Linked' = Linked
  BY <1>0, <1>5, WaysStay DEF NextsStay
<1>9. \A q : Holding(q)' = Holding(q)
  BY <1>5, <1>8, HoldingStays
<1>10. \A r \in Readers : Watches(r)
  BY <1>5, <1>9, UnwatchedIsUnchanged DEF Inv
<1>11. /\ ShapeInv' /\ GraceInv'
       /\ \A r \in Readers : WaysLead(r) /\ \A a : a \in Safe(r) => a \in Safe(r)'
  BY <1>0, <1>5, <1>8, <1>10, CalmWrite
<1>12. Holding(k)' = {}
  BY <1>5, <1>9
<1>13. /\ writer'.pc = "tags" /\ writer'.key = k /\ writer'.at = e
       /\ writer'.slot = s /\ writer'.word = 1
  BY <1>2
<1>14. WriterInv'
  <2>1. \A q \in Keys : writer'.key = q => Holding(q)' = {}
    BY <1>12, <1>13
  <2>2. 1 <= NrTags /\ \A j \in 1..NrTags : ~(j < 1)
    BY FastIndexAssumption
  <2> QED BY <2>1, <2>2, <1>3, <1>4, <1>5, <1>8, <1>13 DEF WriterInv, Filling
<1> QED BY <1>7, <1>9, <1>10, <1>11, <1>14, SameHoldingSettles DEF Harmless

(* The writer's stores into a slot that is not available are not seen.     *)
LEMMA UnavailableIsUnseen ==
    ASSUME Inv, entry' \in [Entries -> EntryType], NextsStay, retired' = retired, Watch,
           NEW a \in Linked, NEW s, s \notin entry[a].avail,
           \A e \in Entries : entry'[e].tag0 = entry[e].tag0 /\ entry'[e].avail = entry[e].avail,
           NEW w, NEW n, TagStored(a, s, w, n)
    PROVE  /\ lookup' \in [Readers -> LookupType] /\ \A r \in Readers : Watches(r)
           /\ ShapeInv' /\ GraceInv' /\ Linked' = Linked
           /\ \A q : Holding(q)' = Holding(q)
           /\ \A r \in Readers :
                 WaysLead(r) /\ \A x : x \in Safe(r) => x \in Safe(r)'
<1>0. TypeOK /\ Linked \subseteq Entries
  BY LinkedIsLeast DEF Inv
<1>1. lookup' \in [Readers -> LookupType] /\ \A r \in Readers : Watches(r)
  BY <1>0, WatchingIsSeen
<1>2. /\ ShapeInv' /\ GraceInv' /\ Linked' = Linked
      /\ \A r \in Readers : WaysLead(r) /\ \A x : x \in Safe(r) => x \in Safe(r)'
  BY <1>1, CalmWrite
<1>3. \A e \in Linked : entry[e].avail \subseteq Slots
  BY <1>0 DEF TypeOK, EntryType
<1>4. \A q : Holding(q)' = Holding(q)
  BY <1>0, <1>2, <1>3, HoldingStays DEF TagStored
<1> QED BY <1>1, <1>2, <1>4

LEMMA StoreTagStep ==
    ASSUME Inv, StoreTag
    PROVE  Harmless /\ ValuesStay /\ \A q : Holding(q)' = Holding(q)
<1>0. /\ TypeOK /\ entry \in [Entries -> EntryType] /\ Linked \subseteq Entries
      /\ writer \in WriterType /\ writer.pc = "tags" /\ WriterInv
  BY LinkedIsLeast DEF Inv, TypeOK, StoreTag
<1>1. PICK a : a = writer.at
  OBVIOUS
<1>2. PICK s : s = writer.slot
  OBVIOUS
<1>3. PICK w : w = writer.word
  OBVIOUS
<1>4. PICK k : k = writer.key
  OBVIOUS
<1>5. /\ a \in Linked /\ a \in Entries /\ s \in Slots /\ w \in Nat \ {0} /\ k \in Keys
      /\ valid /\ s \notin entry[a].avail /\ w <= NrTags /\ w \in 1..NrTags
      /\ entry[a].tag0 = k.tag0 /\ Holding(k) = {}
      /\ \A j \in 1..NrTags : j < w => entry[a].tags[s][j] = k.tags[j]
  BY <1>0, <1>1, <1>2, <1>3, <1>4, FastIndexAssumption DEF WriterInv, WriterType, Filling
<1>6. k.tags \in [1..NrTags -> Nat] /\ k.tags[w] \in Nat
  BY <1>5, FastIndexAssumption
<1>n. PICK n \in Nat : n = k.tags[w]
  BY <1>6
<1>7. /\ entry' = [entry EXCEPT ![a].tags[s][w] = k.tags[w]]
      /\ writer' = [writer EXCEPT !.word = w + 1, !.pc = IF w = NrTags THEN "value" ELSE "tags"]
      /\ head' = head /\ retired' = retired /\ valid' = valid /\ writes' = writes /\ Watch
  BY <1>1, <1>2, <1>3, <1>4, <1>0 DEF StoreTag, WriterType
<1>8. /\ entry' \in [Entries -> EntryType] /\ SameBut("tags") /\ TagStored(a, s, w, n)
  <2>1. entry' = [entry EXCEPT ![a].tags[s][w] = n]
    BY <1>7, <1>n
  <2> QED BY <1>0, <1>5, <2>1, StoringATag
<1>9. NextsStay
  BY <1>7, <1>8, SameButKeepsNexts
<1>10. \A e \in Entries : entry'[e].tag0 = entry[e].tag0 /\ entry'[e].avail = entry[e].avail
  BY <1>8 DEF SameBut
<1>11. /\ lookup' \in [Readers -> LookupType] /\ \A r \in Readers : Watches(r)
       /\ ShapeInv' /\ GraceInv' /\ Linked' = Linked
       /\ \A q : Holding(q)' = Holding(q)
       /\ \A r \in Readers : WaysLead(r) /\ \A x : x \in Safe(r) => x \in Safe(r)'
  BY <1>5, <1>7, <1>8, <1>9, <1>10, UnavailableIsUnseen
<1>12. writer' \in WriterType
  <2>1. PICK pc \in {"value", "tags"} : pc = IF w = NrTags THEN "value" ELSE "tags"
    OBVIOUS
  <2>2. writer' = [writer EXCEPT !.word = w + 1, !.pc = pc]
    BY <1>7, <2>1
  <2>3. w + 1 \in Nat \ {0}
    BY <1>5
  <2> QED BY <1>0, <2>2, <2>3 DEF WriterType
<1>13. TypeOK'
  BY <1>0, <1>7, <1>8, <1>11, <1>12 DEF TypeOK
<1>14. /\ writer'.at = a /\ writer'.slot = s /\ writer'.key = k /\ writer'.word = w + 1
       /\ writer'.pc = IF w = NrTags THEN "value" ELSE "tags"
  BY <1>0, <1>1, <1>2, <1>4, <1>7 DEF WriterType
<1>15. WriterInv'
  <2>1. \A q \in Keys : writer'.key = q => Holding(q)' = {}
    BY <1>5, <1>11, <1>14
  <2>2. /\ a \in Linked' /\ s \notin entry'[a].avail /\ entry'[a].tag0 = k.tag0 /\ valid'
    BY <1>5, <1>7, <1>10, <1>11
  <2>3. \A j \in 1..NrTags : j < w + 1 => entry'[a].tags[s][j] = k.tags[j]
    BY <1>5, <1>8, <1>n DEF TagStored
  <2>4. CASE w = NrTags
    <3>1. entry'[a].tags[s] \in [1..NrTags -> Nat]
      BY <1>5, <1>8 DEF EntryType
    <3>2. \A j \in 1..NrTags : entry'[a].tags[s][j] = k.tags[j]
      BY <2>3, <2>4, FastIndexAssumption
    <3>3. PICK f \in [1..NrTags -> Nat] : f = entry'[a].tags[s]
      BY <3>1
    <3>4. PICK g \in [1..NrTags -> Nat] : g = k.tags
      BY <1>6
    <3>5. \A j \in 1..NrTags : f[j] = g[j]
      BY <3>2, <3>3, <3>4
    <3>6. f = g
      <4>1. f = [j \in 1..NrTags |-> f[j]] /\ g = [j \in 1..NrTags |-> g[j]]
        OBVIOUS
      <4> QED BY <3>5, <4>1, Zenon
    <3> QED BY <3>3, <3>4, <3>6, <2>1, <2>2, <2>4, <1>14 DEF WriterInv, Filling
  <2>5. CASE w # NrTags
    <3>1. w + 1 <= NrTags
      BY <2>5, <1>5, FastIndexAssumption
    <3> QED BY <3>1, <2>1, <2>2, <2>3, <2>5, <1>14 DEF WriterInv, Filling
  <2> QED BY <2>4, <2>5
<1>16. ValuesStay
  BY <1>8, SameButKeepsValues
<1> QED BY <1>11, <1>13, <1>15, <1>16, SameHoldingSettles DEF Harmless

LEMMA StoreValueStep ==
    ASSUME Inv, StoreValue
    PROVE  /\ Harmless /\ \A q : Holding(q)' = Holding(q)
           /\ \E a \in Entries, s \in Slots, v \in Values : ValueStored(a, s, v)
<1>0. /\ TypeOK /\ entry \in [Entries -> EntryType] /\ Linked \subseteq Entries
      /\ writer \in WriterType /\ writer.pc = "value" /\ WriterInv
  BY LinkedIsLeast DEF Inv, TypeOK, StoreValue
<1>1. PICK a : a = writer.at
  OBVIOUS
<1>2. PICK s : s = writer.slot
  OBVIOUS
<1>3. PICK v \in Values : v = writer.val
  BY <1>0 DEF WriterType
<1>4. a \in Linked /\ a \in Entries /\ s \in Slots
  BY <1>0, <1>1, <1>2 DEF WriterInv, WriterType
<1>5. /\ entry' = [entry EXCEPT ![a].val[s] = v] /\ writer' = [writer EXCEPT !.pc = "publish"]
      /\ head' = head /\ retired' = retired /\ valid' = valid /\ writes' = writes /\ Watch
  BY <1>1, <1>2, <1>3 DEF StoreValue
<1>6. entry' \in [Entries -> EntryType] /\ SameBut("val") /\ ValueStored(a, s, v)
  BY <1>0, <1>4, <1>5, StoringAValue
<1>7. lookup' \in [Readers -> LookupType] /\ \A r \in Readers : Watches(r)
  BY <1>0, <1>5, <1>6, WatchingIsSeen
<1>8. NextsStay
  BY <1>5, <1>6, SameButKeepsNexts
<1>9. /\ ShapeInv' /\ GraceInv' /\ Linked' = Linked
      /\ \A r \in Readers : WaysLead(r) /\ \A x : x \in Safe(r) => x \in Safe(r)'
  BY <1>5, <1>6, <1>7, <1>8, CalmWrite
<1>10. \A q : Holding(q)' = Holding(q)
  BY <1>0, <1>6, <1>9, HoldingStays DEF SameBut
<1>11. writer' \in WriterType
  BY <1>0, <1>5 DEF WriterType
<1>12. TypeOK'
  BY <1>0, <1>5, <1>6, <1>7, <1>11 DEF TypeOK
<1>13. /\ writer'.pc = "publish" /\ writer'.at = a /\ writer'.slot = s /\ writer'.key = writer.key
  BY <1>0, <1>1, <1>2, <1>5 DEF WriterType
<1>14. /\ entry'[a].tag0 = entry[a].tag0 /\ entry'[a].tags = entry[a].tags
       /\ entry'[a].avail = entry[a].avail
  BY <1>4, <1>6 DEF SameBut
<1>15. /\ valid /\ s \notin entry[a].avail /\ entry[a].tag0 = writer.key.tag0
       /\ entry[a].tags[s] = writer.key.tags
       /\ \A q \in Keys : writer.key = q => Holding(q) = {}
  BY <1>0, <1>1, <1>2 DEF WriterInv, Filling
<1>16. WriterInv'
  BY <1>4, <1>5, <1>9, <1>10, <1>13, <1>14, <1>15 DEF WriterInv, Filling
<1>17. Harmless
  BY <1>7, <1>9, <1>10, <1>12, <1>16, SameHoldingSettles DEF Harmless
<1> QED BY <1>4, <1>6, <1>10, <1>17

(* The slot of key k becomes es, which no other key had or gets.           *)
Gives(k, es) == /\ Holding(k) = {} /\ Holding(k)' = {es}
                /\ \A q \in Keys \ {k} : Holding(q)' = Holding(q)
Takes(k) == /\ Holding(k)' = {}
            /\ \A q \in Keys \ {k} : Holding(q)' = Holding(q)

LEMMA GivingSettles ==
    ASSUME NEW k, NEW es, Gives(k, es)
    PROVE  Settles
  BY DEF Gives, Settles

LEMMA TakingSettles ==
    ASSUME NEW k, Takes(k)
    PROVE  Settles
  BY DEF Takes, Settles

LEMMA IdleWriter ==
    ASSUME writer' = Idle
    PROVE  WriterInv' /\ writer' \in WriterType
<1>1. writer'.pc = "idle"
  BY DEF Idle
<1>2. WriterInv'
  BY <1>1 DEF WriterInv, Filling
<1> QED BY <1>2, Defaults

LEMMA PublishStep ==
    ASSUME Inv, Publish
    PROVE  /\ Harmless
           /\ \E k \in Keys, es \in Entries \X Slots : Gives(k, es)
           /\ ValuesStay
<1>0. /\ TypeOK /\ entry \in [Entries -> EntryType] /\ Linked \subseteq Entries
      /\ writer \in WriterType /\ writer.pc = "publish" /\ WriterInv
  BY LinkedIsLeast DEF Inv, TypeOK, Publish
<1>1. PICK a : a = writer.at
  OBVIOUS
<1>2. PICK s : s = writer.slot
  OBVIOUS
<1>3. PICK k \in Keys : k = writer.key
  BY <1>0 DEF WriterType
<1>4. /\ a \in Linked /\ a \in Entries /\ s \in Slots /\ s \notin entry[a].avail
      /\ entry[a].tag0 = k.tag0 /\ entry[a].tags[s] = k.tags /\ Holding(k) = {}
  BY <1>0, <1>1, <1>2, <1>3 DEF WriterInv, WriterType, Filling
<1>5. PICK A \in SUBSET Slots : A = entry[a].avail \cup {s}
  BY <1>0, <1>4 DEF EntryType
<1>6. /\ entry' = [entry EXCEPT ![a].avail = A] /\ writer' = Idle
      /\ head' = head /\ retired' = retired /\ valid' = valid /\ writes' = writes /\ Watch
  BY <1>1, <1>2, <1>5 DEF Publish
<1>7. /\ entry' \in [Entries -> EntryType] /\ SameBut("avail")
      /\ \A e \in Entries : entry'[e].avail = IF e = a THEN A ELSE entry[e].avail
  BY <1>0, <1>4, <1>6, StoringAvail
<1>8. lookup' \in [Readers -> LookupType] /\ \A r \in Readers : Watches(r)
  BY <1>0, <1>6, <1>7, WatchingIsSeen
<1>9. NextsStay
  BY <1>6, <1>7, SameButKeepsNexts
<1>10. /\ ShapeInv' /\ GraceInv' /\ Linked' = Linked
       /\ \A r \in Readers : WaysLead(r) /\ \A x : x \in Safe(r) => x \in Safe(r)'
  BY <1>6, <1>7, <1>8, <1>9, CalmWrite
<1>11. WriterInv' /\ writer' \in WriterType
  BY <1>6, IdleWriter
<1>12. TypeOK'
  BY <1>0, <1>6, <1>7, <1>8, <1>11 DEF TypeOK
<1>13. \A e \in Linked : entry'[e].tag0 = entry[e].tag0 /\ entry'[e].tags = entry[e].tags
  BY <1>0, <1>7 DEF SameBut
<1>14. \A q, e, t : <<e, t>> \in Holding(q)' <=>
           /\ e \in Linked /\ t \in Slots /\ t \in entry'[e].avail
           /\ entry[e].tag0 = q.tag0 /\ entry[e].tags[t] = q.tags
  BY <1>10, <1>13 DEF Holding
<1>a. \A e \in Linked : \A t : t \in entry'[e].avail <=> t \in entry[e].avail \/ (e = a /\ t = s)
  BY <1>0, <1>4, <1>5, <1>7
<1>15. \A q, e, t : <<e, t>> \in Holding(q)' <=>
           \/ <<e, t>> \in Holding(q)
           \/ e = a /\ t = s /\ entry[a].tag0 = q.tag0 /\ entry[a].tags[s] = q.tags
  <2> SUFFICES ASSUME NEW q, NEW e, NEW t
               PROVE  <<e, t>> \in Holding(q)' <=>
                         \/ <<e, t>> \in Holding(q)
                         \/ e = a /\ t = s /\ entry[a].tag0 = q.tag0 /\ entry[a].tags[s] = q.tags
    OBVIOUS
  <2>1. <<e, t>> \in Holding(q)' <=>
           /\ e \in Linked /\ t \in Slots /\ t \in entry'[e].avail
           /\ entry[e].tag0 = q.tag0 /\ entry[e].tags[t] = q.tags
    BY <1>14
  <2>2. <<e, t>> \in Holding(q) <=>
           /\ e \in Linked /\ t \in Slots /\ t \in entry[e].avail
           /\ entry[e].tag0 = q.tag0 /\ entry[e].tags[t] = q.tags
    BY HoldingIs
  <2> QED BY <2>1, <2>2, <1>4, <1>a
<1>16. \A q : \A es \in Holding(q)' : es = <<es[1], es[2]>>
  BY DEF Holding
<1>17. Holding(k)' = {<<a, s>>}
  BY <1>4, <1>15, <1>16
<1>18. ASSUME NEW q \in Keys, q # k PROVE Holding(q)' = Holding(q)
  <2>1. ~(k.tag0 = q.tag0 /\ k.tags = q.tags)
    BY <1>18, KeysDiffer
  <2>2. \A e, t : <<e, t>> \in Holding(q)' <=> <<e, t>> \in Holding(q)
    BY <1>4, <1>15, <2>1
  <2> QED BY <2>2, SameHolding
<1>19. Gives(k, <<a, s>>)
  BY <1>4, <1>17, <1>18 DEF Gives
<1>20. Settles
  BY <1>19, GivingSettles
<1>21. \E q \in Keys, es \in Entries \X Slots : Gives(q, es)
  BY <1>4, <1>19
<1>22. ValuesStay
  BY <1>7, SameButKeepsValues
<1> QED BY <1>8, <1>10, <1>11, <1>12, <1>20, <1>21, <1>22 DEF Harmless

LEMMA BeginDeleteStep ==
    ASSUME Inv, NEW k \in Keys, BeginDelete(k)
    PROVE  Harmless /\ Takes(k) /\ ValuesStay
<1>0. /\ TypeOK /\ entry \in [Entries -> EntryType] /\ Linked \subseteq Entries
      /\ writer \in WriterType /\ writer.pc = "idle" /\ valid
      /\ writes' = writes + 1 /\ writes < MaxWrites /\ valid' = valid
  BY LinkedIsLeast DEF Inv, TypeOK, BeginDelete, WriterStarts
<1>1. PICK es \in Holding(k) :
          /\ entry' = [entry EXCEPT ![es[1]].avail = entry[es[1]].avail \ {es[2]}]
          /\ writer' = [pc |-> "zero", key |-> k, val |-> SomeValue,
                        at |-> es[1], slot |-> es[2], word |-> 1]
  BY <1>0 DEF BeginDelete, Holding
<1>2. PICK a : a = es[1]
  OBVIOUS
<1>3. PICK s : s = es[2]
  OBVIOUS
<1>4. /\ es = <<a, s>> /\ a \in Linked /\ a \in Entries /\ s \in Slots
  BY <1>0, <1>2, <1>3, HoldsPairs
<1>5. PICK A \in SUBSET Slots : A = entry[a].avail \ {s}
  BY <1>0, <1>4 DEF EntryType
<1>6. /\ entry' = [entry EXCEPT ![a].avail = A]
      /\ writer' = [pc |-> "zero", key |-> k, val |-> SomeValue, at |-> a, slot |-> s, word |-> 1]
      /\ head' = head /\ retired' = retired /\ Watch
  BY <1>1, <1>2, <1>3, <1>5 DEF BeginDelete
<1>7. /\ entry' \in [Entries -> EntryType] /\ SameBut("avail")
      /\ \A e \in Entries : entry'[e].avail = IF e = a THEN A ELSE entry[e].avail
  BY <1>0, <1>4, <1>6, StoringAvail
<1>8. lookup' \in [Readers -> LookupType] /\ \A r \in Readers : Watches(r)
  BY <1>0, <1>6, <1>7, WatchingIsSeen
<1>9. NextsStay
  BY <1>6, <1>7, SameButKeepsNexts
<1>10. /\ ShapeInv' /\ GraceInv' /\ Linked' = Linked
       /\ \A r \in Readers : WaysLead(r) /\ \A x : x \in Safe(r) => x \in Safe(r)'
  BY <1>6, <1>7, <1>8, <1>9, CalmWrite
<1>11. writer' \in WriterType
  BY <1>4, <1>6, Defaults DEF WriterType
<1>12. TypeOK'
  BY <1>0, <1>6, <1>7, <1>8, <1>11, FastIndexAssumption DEF TypeOK
<1>13. WriterInv'
  <2>1. /\ writer'.pc = "zero" /\ writer'.at = a /\ writer'.slot = s /\ writer'.word = 1
    BY <1>6
  <2>2. s \notin entry'[a].avail /\ a \in Linked' /\ valid'
    BY <1>0, <1>4, <1>5, <1>7, <1>10
  <2>3. 1 <= NrTags
    BY FastIndexAssumption
  <2> QED BY <2>1, <2>2, <2>3 DEF WriterInv, Filling
<1>14. \A e \in Linked : entry'[e].tag0 = entry[e].tag0 /\ entry'[e].tags = entry[e].tags
  BY <1>0, <1>7 DEF SameBut
<1>15. \A e \in Linked : \A t : t \in entry'[e].avail <=> t \in entry[e].avail /\ ~(e = a /\ t = s)
  BY <1>0, <1>4, <1>5, <1>7
<1>16. \A q, e, t : <<e, t>> \in Holding(q)' <=> <<e, t>> \in Holding(q) /\ ~(e = a /\ t = s)
  <2> SUFFICES ASSUME NEW q, NEW e, NEW t
               PROVE  <<e, t>> \in Holding(q)' <=> <<e, t>> \in Holding(q) /\ ~(e = a /\ t = s)
    OBVIOUS
  <2>1. <<e, t>> \in Holding(q)' <=>
           /\ e \in Linked /\ t \in Slots /\ t \in entry'[e].avail
           /\ entry[e].tag0 = q.tag0 /\ entry[e].tags[t] = q.tags
    BY <1>10, <1>14 DEF Holding
  <2>2. <<e, t>> \in Holding(q) <=>
           /\ e \in Linked /\ t \in Slots /\ t \in entry[e].avail
           /\ entry[e].tag0 = q.tag0 /\ entry[e].tags[t] = q.tags
    BY HoldingIs
  <2> QED BY <2>1, <2>2, <1>15
<1>17. Holding(k)' = {}
  <2> SUFFICES ASSUME NEW f \in Holding(k)' PROVE FALSE
    OBVIOUS
  <2>1. f = <<f[1], f[2]>>
    BY DEF Holding
  <2>2. f \in Holding(k)
    BY <1>16, <2>1
  <2>3. f = es
    BY <1>0, <2>2 DEF Inv, OneSlotInv
  <2> QED BY <1>4, <1>16, <2>3
<1>18. ASSUME NEW q \in Keys, q # k PROVE Holding(q)' = Holding(q)
  <2>1. ~(k.tag0 = q.tag0 /\ k.tags = q.tags)
    BY <1>18, KeysDiffer
  <2>2. /\ <<a, s>> \in Holding(k)
        /\ entry[a].tag0 = k.tag0 /\ entry[a].tags[s] = k.tags
    BY <1>1, <1>4, HoldingIs
  <2>3. <<a, s>> \notin Holding(q)
    BY <2>1, <2>2, HoldingIs
  <2>4. \A e, t : <<e, t>> \in Holding(q)' <=> <<e, t>> \in Holding(q)
    BY <1>16, <2>3
  <2> QED BY <2>4, SameHolding
<1>19. Takes(k)
  BY <1>17, <1>18 DEF Takes
<1>20. Settles
  BY <1>19, TakingSettles
<1>21. ValuesStay
  BY <1>7, SameButKeepsValues
<1> QED BY <1>8, <1>10, <1>12, <1>13, <1>19, <1>20, <1>21 DEF Harmless

LEMMA ZeroTagStep ==
    ASSUME Inv, ZeroTag
    PROVE  Harmless /\ ValuesStay /\ \A q : Holding(q)' = Holding(q)
<1>0. /\ TypeOK /\ entry \in [Entries -> EntryType] /\ Linked \subseteq Entries
      /\ writer \in WriterType /\ writer.pc = "zero" /\ WriterInv
  BY LinkedIsLeast DEF Inv, TypeOK, ZeroTag
<1>1. PICK a : a = writer.at
  OBVIOUS
<1>2. PICK s : s = writer.slot
  OBVIOUS
<1>3. PICK w : w = writer.word
  OBVIOUS
<1>4. /\ a \in Linked /\ a \in Entries /\ s \in Slots /\ s \notin entry[a].avail
      /\ w \in 1..NrTags /\ w \in Nat \ {0} /\ w <= NrTags /\ valid
  BY <1>0, <1>1, <1>2, <1>3, FastIndexAssumption DEF WriterInv, WriterType
<1>5. /\ entry' = [entry EXCEPT ![a].tags[s][w] = 0]
      /\ writer' = IF w < NrTags THEN [writer EXCEPT !.word = w + 1]
                   ELSE IF entry[a].avail = {} THEN [writer EXCEPT !.pc = "unlink"]
                   ELSE Idle
      /\ head' = head /\ retired' = retired /\ valid' = valid /\ writes' = writes /\ Watch
  BY <1>1, <1>2, <1>3 DEF ZeroTag
<1>6. entry' \in [Entries -> EntryType] /\ SameBut("tags") /\ TagStored(a, s, w, 0)
  BY <1>0, <1>4, <1>5, StoringATag
<1>7. NextsStay
  BY <1>5, <1>6, SameButKeepsNexts
<1>8. \A e \in Entries : entry'[e].tag0 = entry[e].tag0 /\ entry'[e].avail = entry[e].avail
  BY <1>6 DEF SameBut
<1>9. /\ lookup' \in [Readers -> LookupType] /\ \A r \in Readers : Watches(r)
      /\ ShapeInv' /\ GraceInv' /\ Linked' = Linked
      /\ \A q : Holding(q)' = Holding(q)
      /\ \A r \in Readers : WaysLead(r) /\ \A x : x \in Safe(r) => x \in Safe(r)'
  BY <1>4, <1>5, <1>6, <1>7, <1>8, UnavailableIsUnseen
<1>10. /\ a \in Linked' /\ s \notin entry'[a].avail /\ entry'[a].avail = entry[a].avail /\ valid'
  BY <1>4, <1>5, <1>8, <1>9
<1>11. WriterInv' /\ writer' \in WriterType
  <2>1. CASE w < NrTags
    <3>1. writer' = [writer EXCEPT !.word = w + 1] /\ w + 1 <= NrTags /\ w + 1 \in Nat \ {0}
      BY <1>4, <1>5, <2>1, FastIndexAssumption
    <3>2. writer' \in WriterType
      BY <1>0, <3>1 DEF WriterType
    <3>3. writer'.pc = "zero" /\ writer'.at = a /\ writer'.slot = s /\ writer'.word = w + 1
      BY <1>0, <1>1, <1>2, <3>1 DEF WriterType
    <3>4. WriterInv'
      BY <1>10, <3>1, <3>3 DEF WriterInv, Filling
    <3> QED BY <3>2, <3>4
  <2>2. CASE ~(w < NrTags) /\ entry[a].avail = {}
    <3>1. writer' = [writer EXCEPT !.pc = "unlink"]
      BY <1>5, <2>2
    <3>2. writer' \in WriterType
      BY <1>0, <3>1 DEF WriterType
    <3>3. writer'.pc = "unlink" /\ writer'.at = a
      BY <1>0, <1>1, <3>1 DEF WriterType
    <3>4. WriterInv'
      BY <1>10, <2>2, <3>3 DEF WriterInv, Filling
    <3> QED BY <3>2, <3>4
  <2>3. CASE ~(w < NrTags) /\ entry[a].avail # {}
    BY <1>5, <2>3, IdleWriter
  <2> QED BY <2>1, <2>2, <2>3
<1>12. TypeOK'
  BY <1>0, <1>5, <1>6, <1>9, <1>11 DEF TypeOK
<1>13. ValuesStay
  BY <1>6, SameButKeepsValues
<1> QED BY <1>9, <1>11, <1>12, <1>13, SameHoldingSettles DEF Harmless

LEMMA SafeIsClosed ==
    ASSUME TypeOK, GraceInv, NEW r
    PROVE  Safe(r) \subseteq Entries /\ Closed(Safe(r))
<1>1. /\ Linked \subseteq Entries /\ DOMAIN retired \subseteq Entries
      /\ \A x \in Linked : entry[x].next \in Linked \cup {NoEntry}
  BY LinkedIsLeast DEF TypeOK
<1>2. \A x \in Safe(r) : entry[x].next \in Safe(r) \cup {NoEntry}
  BY <1>1 DEF Safe, GraceInv
<1> QED BY <1>1, <1>2 DEF Safe, Closed

(* The new entry of a key, as it is before it is linked.                   *)
Filled(k, v) == [Zeroed EXCEPT !.tag0 = k.tag0, !.tags[0] = k.tags,
                               !.val[0] = v, !.avail = {0}]

LEMMA FilledHoldsItsKey ==
    ASSUME NEW k \in Keys, NEW v \in Values
    PROVE  /\ Filled(k, v) \in EntryType
           /\ Filled(k, v).tag0 = k.tag0 /\ Filled(k, v).avail = {0}
           /\ Filled(k, v).tags[0] = k.tags /\ Filled(k, v).next = NoEntry
           /\ Filled(k, v).val[0] = v
<1>1. /\ k.tag0 \in Nat /\ k.tags \in [1..NrTags -> Nat] /\ 0 \in Slots
      /\ Zeroed \in EntryType /\ Zeroed.next = NoEntry
  BY FastIndexAssumption, Defaults DEF Zeroed
<1>2. Zeroed.tags \in [Slots -> [1..NrTags -> Nat]] /\ Zeroed.val \in [Slots -> Values]
  BY <1>1 DEF EntryType
<1>3. PICK g \in [Slots -> [1..NrTags -> Nat]] : g = [Zeroed.tags EXCEPT ![0] = k.tags]
  BY <1>1, <1>2
<1>4. PICK h \in [Slots -> Values] : h = [Zeroed.val EXCEPT ![0] = v]
  BY <1>1, <1>2
<1>5. g[0] = k.tags /\ h[0] = v
  BY <1>1, <1>2, <1>3, <1>4
<1>6. Filled(k, v) = [Zeroed EXCEPT !.tag0 = k.tag0, !.tags = g, !.val = h, !.avail = {0}]
  BY <1>3, <1>4 DEF Filled
<1>7. Filled(k, v) = [tag0 |-> k.tag0, tags |-> g, avail |-> {0}, val |-> h, next |-> NoEntry]
  BY <1>1, <1>6 DEF EntryType
<1>8. Filled(k, v) \in EntryType
  BY <1>1, <1>7 DEF EntryType
<1> QED BY <1>5, <1>7, <1>8

(* What Append does, whether the list was empty or not.                    *)
Appended(e, f) ==
    /\ entry' \in [Entries -> EntryType] /\ Appends(e) /\ entry'[e] = f
    /\ \A x \in Entries \ {e} :
          /\ entry'[x].tag0 = entry[x].tag0 /\ entry'[x].tags = entry[x].tags
          /\ entry'[x].avail = entry[x].avail /\ entry'[x].val = entry[x].val
          /\ entry'[x].next = entry[x].next \/ (entry[x].next = NoEntry /\ x \in Linked)
    /\ head' \in Entries \cup {NoEntry}

LEMMA AppendAppends ==
    ASSUME Inv, NEW k \in Keys, NEW v \in Values, Append(k, v)
    PROVE  \E e \in Entries : Appended(e, Filled(k, v))
<1>0. /\ TypeOK /\ entry \in [Entries -> EntryType] /\ Linked \subseteq Entries
      /\ head \in Entries \cup {NoEntry}
  BY LinkedIsLeast DEF Inv, TypeOK
<1>1. PICK f \in EntryType : f = Filled(k, v) /\ f.next = NoEntry
  BY FilledHoldsItsKey
<1>2. PICK e \in Entries \ (Linked \cup DOMAIN retired) :
          \/ head = NoEntry /\ head' = e /\ entry' = [entry EXCEPT ![e] = f]
          \/ \E last \in Linked :
                /\ entry[last].next = NoEntry /\ head' = head
                /\ entry' = [entry EXCEPT ![e] = f, ![last].next = e]
  BY <1>1 DEF Append, Filled
<1>3. ASSUME head = NoEntry, head' = e, entry' = [entry EXCEPT ![e] = f]
      PROVE  Appended(e, f)
  <2>1. entry' \in [Entries -> EntryType] /\ \A x \in Entries : entry'[x] = IF x = e THEN f ELSE entry[x]
    BY <1>0, <1>3
  <2>2. Appends(e)
    BY <1>1, <1>3, <2>1 DEF Appends
  <2>3. entry'[e] = f /\ head' \in Entries \cup {NoEntry}
    BY <1>3, <2>1
  <2>4. \A x \in Entries \ {e} : entry'[x] = entry[x]
    BY <2>1
  <2> QED BY <2>1, <2>2, <2>3, <2>4 DEF Appended
<1>4. ASSUME NEW l \in Linked, entry[l].next = NoEntry, head' = head,
             entry' = [entry EXCEPT ![e] = f, ![l].next = e]
      PROVE  Appended(e, f)
  <2>1. l # e /\ l \in Entries /\ entry[l] \in EntryType
    BY <1>0
  <2>2. PICK m : m = [entry[l] EXCEPT !.next = e]
    OBVIOUS
  <2>3. /\ m \in EntryType /\ m.next = e /\ m.tag0 = entry[l].tag0 /\ m.tags = entry[l].tags
        /\ m.avail = entry[l].avail /\ m.val = entry[l].val
    BY <2>1, <2>2 DEF EntryType
  <2>4. /\ entry' \in [Entries -> EntryType]
        /\ \A x \in Entries : entry'[x] = IF x = l THEN m ELSE IF x = e THEN f ELSE entry[x]
    BY <1>0, <1>4, <2>1, <2>2, <2>3
  <2>5. Appends(e)
    BY <1>0, <1>1, <1>4, <2>1, <2>3, <2>4 DEF Appends
  <2>6. entry'[e] = f /\ head' \in Entries \cup {NoEntry}
    BY <1>0, <1>4, <2>1, <2>4
  <2>7. \A x \in Entries \ {e} : entry'[x] = entry[x] \/ (x = l /\ entry'[x] = m)
    BY <2>4
  <2>8. ASSUME NEW x \in Entries \ {e}
        PROVE  /\ entry'[x].tag0 = entry[x].tag0 /\ entry'[x].tags = entry[x].tags
               /\ entry'[x].avail = entry[x].avail /\ entry'[x].val = entry[x].val
               /\ entry'[x].next = entry[x].next \/ (entry[x].next = NoEntry /\ x \in Linked)
    BY <1>4, <2>3, <2>7
  <2> QED BY <2>4, <2>5, <2>6, <2>8 DEF Appended
<1> QED BY <1>1, <1>2, <1>3, <1>4

LEMMA AppendStep ==
    ASSUME Inv, NEW k \in Keys, NEW v \in Values, Append(k, v)
    PROVE  /\ Harmless
           /\ \E e \in Entries : Gives(k, <<e, 0>>) /\ entry'[e] = Filled(k, v)
                                 /\ \A x \in Linked : entry'[x].val = entry[x].val
<1>0. /\ TypeOK /\ ShapeInv /\ GraceInv /\ Linked \subseteq Entries
      /\ DOMAIN retired \subseteq Entries /\ head \in Linked \cup {NoEntry}
      /\ \A x \in Linked : entry[x].next \in Linked \cup {NoEntry}
  BY LinkedIsLeast DEF Inv, TypeOK
<1>1. PICK e \in Entries : Appended(e, Filled(k, v))
  BY AppendAppends
<1>2. PICK f \in EntryType : /\ f = Filled(k, v) /\ f.tag0 = k.tag0 /\ f.avail = {0}
                             /\ f.tags[0] = k.tags /\ f.next = NoEntry
  BY FilledHoldsItsKey
<1>3. /\ retired' = retired /\ writer' = writer /\ writer.pc = "idle" /\ valid' = valid
      /\ Watch /\ writes' = writes + 1 /\ writes < MaxWrites /\ Holding(k) = {}
  BY DEF Append, WriterStarts
<1>4. /\ entry' \in [Entries -> EntryType] /\ Appends(e) /\ entry'[e] = f
      /\ head' \in Entries \cup {NoEntry}
      /\ \A x \in Entries \ {e} :
          /\ entry'[x].tag0 = entry[x].tag0 /\ entry'[x].tags = entry[x].tags
          /\ entry'[x].avail = entry[x].avail /\ entry'[x].val = entry[x].val
          /\ entry'[x].next = entry[x].next \/ (entry[x].next = NoEntry /\ x \in Linked)
  BY <1>1, <1>2 DEF Appended
<1>5. Linked' = Linked \cup {e} /\ e \notin Linked /\ e \notin DOMAIN retired
  BY <1>0, <1>4, AppendedIsLinked DEF Appends
<1>6. lookup' \in [Readers -> LookupType] /\ \A r \in Readers : Watches(r)
  BY <1>0, <1>3, <1>4, WatchingIsSeen
<1>7. TypeOK'
  BY <1>0, <1>3, <1>4, <1>6, FastIndexAssumption DEF TypeOK
<1>8. ShapeInv'
  <2>1. \A d \in DOMAIN retired' : d \notin Linked'
    BY <1>0, <1>3, <1>5 DEF ShapeInv
  <2>2. CASE head = NoEntry /\ head' = e
    <3>1. Linked = {}
      BY <2>2, FromNothing DEF Linked
    <3>2. \A x \in Linked' : x = e /\ entry'[x].next = NoEntry
      BY <1>2, <1>4, <1>5, <3>1
    <3> QED BY <2>1, <2>2, <3>2, FastIndexAssumption DEF ShapeInv
  <2>3. ASSUME NEW l \in Linked, head' = head, entry[l].next = NoEntry, entry'[l].next = e,
               \A x \in Entries \ {e, l} : entry'[x].next = entry[x].next
        PROVE  ShapeInv'
    <3>1. \A x \in Linked' : \/ x = e /\ entry'[x].next = NoEntry
                             \/ x = l /\ entry'[x].next = e
                             \/ x \in Linked \ {l} /\ entry'[x].next = entry[x].next
      BY <1>0, <1>2, <1>4, <1>5, <2>3
    <3>2. e # head /\ e # NoEntry /\ \A x \in Linked : entry[x].next # e
      BY <1>0, <1>5, FastIndexAssumption
    <3>3. \A x \in Linked' : entry'[x].next # head' \/ head' = NoEntry
      BY <3>1, <3>2, <2>3, <1>0 DEF ShapeInv
    <3>4. \A x \in Linked', y \in Linked' :
             entry'[x].next = entry'[y].next /\ entry'[x].next # NoEntry => x = y
      BY <3>1, <3>2, <1>0 DEF ShapeInv
    <3> QED BY <2>1, <3>3, <3>4 DEF ShapeInv
  <2> QED BY <1>4, <2>2, <2>3 DEF Appends
<1>9. \A r : Safe(r)' = Safe(r) \cup {e}
  BY <1>3, <1>5 DEF Safe
<1>10. Inside' = Inside
  BY <1>6 DEF Inside, Watches
<1>11. GraceInv'
  <2> SUFFICES ASSUME NEW d \in DOMAIN retired
               PROVE  /\ retired'[d] \subseteq Inside'
                      /\ \A r \in retired'[d] : entry'[d].next \in Safe(r)' \cup {NoEntry}
    BY <1>3 DEF GraceInv
  <2>1. d \in Entries \ {e} /\ d \notin Linked
    BY <1>0, <1>5 DEF ShapeInv
  <2>2. entry'[d].next = entry[d].next
    BY <1>4, <2>1
  <2> QED BY <1>0, <1>3, <1>9, <1>10, <2>2 DEF GraceInv
<1>12. WriterInv'
  <2>1. writer'.pc = "idle"
    BY <1>3
  <2> QED BY <2>1 DEF WriterInv, Filling
<1>13. \A r \in Readers : WaysLead(r)
  <2> SUFFICES ASSUME NEW r \in Readers, NEW q \in Keys, NEW a \in Entries \cup {NoEntry},
                      lookup[r].pc # "idle", a = lookup[r].at,
                      NEW es \in Holding(q), es[1] \in From(a)
               PROVE  es[1] \in From(a)'
    BY DEF WaysLead
  <2>1. PICK S \in SUBSET Entries : S = Safe(r) /\ Closed(S)
    BY <1>0, SafeIsClosed
  <2>2. a \in S \cup {NoEntry}
    BY <2>1 DEF Inv, LookupInv, Stands
  <2>3. e \notin S
    BY <1>5, <2>1 DEF Safe
  <2>4. \A x \in S : entry'[x].next = entry[x].next \/ entry[x].next = NoEntry
    BY <1>4, <2>3
  <2> QED BY <2>1, <2>2, <2>4, WaysGrow
<1>14. \A q, x, t : <<x, t>> \in Holding(q)' <=>
           \/ <<x, t>> \in Holding(q)
           \/ x = e /\ t = 0 /\ k.tag0 = q.tag0 /\ k.tags = q.tags
  <2> SUFFICES ASSUME NEW q, NEW x, NEW t
               PROVE  <<x, t>> \in Holding(q)' <=>
                         \/ <<x, t>> \in Holding(q)
                         \/ x = e /\ t = 0 /\ k.tag0 = q.tag0 /\ k.tags = q.tags
    OBVIOUS
  <2>1. <<x, t>> \in Holding(q)' <=>
           /\ x \in Linked \cup {e} /\ t \in Slots /\ t \in entry'[x].avail
           /\ entry'[x].tag0 = q.tag0 /\ entry'[x].tags[t] = q.tags
    BY <1>5 DEF Holding
  <2>2. <<x, t>> \in Holding(q) <=>
           /\ x \in Linked /\ t \in Slots /\ t \in entry[x].avail
           /\ entry[x].tag0 = q.tag0 /\ entry[x].tags[t] = q.tags
    BY HoldingIs
  <2>3. 0 \in Slots
    BY Defaults
  <2> QED BY <2>1, <2>2, <2>3, <1>0, <1>2, <1>4, <1>5
<1>15. Gives(k, <<e, 0>>)
  <2>1. \A es \in Holding(k)' : es = <<es[1], es[2]>>
    BY DEF Holding
  <2>2. Holding(k)' = {<<e, 0>>}
    BY <1>3, <1>14, <2>1
  <2>3. ASSUME NEW q \in Keys, q # k PROVE Holding(q)' = Holding(q)
    <3>1. ~(k.tag0 = q.tag0 /\ k.tags = q.tags)
      BY <2>3, KeysDiffer
    <3>2. \A x, t : <<x, t>> \in Holding(q)' <=> <<x, t>> \in Holding(q)
      BY <1>14, <3>1
    <3> QED BY <3>2, SameHolding
  <2> QED BY <1>3, <2>2, <2>3 DEF Gives
<1>16. \A x \in Linked : entry'[x].val = entry[x].val
  BY <1>0, <1>4, <1>5
<1>17. Settles
  BY <1>15, GivingSettles
<1>18. \A r \in Readers : \A a : a \in Safe(r) => a \in Safe(r)'
  BY <1>9
<1>19. Harmless
  BY <1>6, <1>7, <1>8, <1>11, <1>12, <1>13, <1>17, <1>18 DEF Harmless
<1> QED BY <1>2, <1>4, <1>15, <1>16, <1>19

LEMMA UnlinkBypasses ==
    ASSUME Inv, Unlink, NEW u, u = writer.at
    PROVE  /\ u \in Linked /\ entry[u].avail = {}
           /\ Bypasses(u) /\ entry' \in [Entries -> EntryType] /\ SameBut("next")
           /\ head' \in Entries \cup {NoEntry}
<1>0. /\ TypeOK /\ ShapeInv /\ entry \in [Entries -> EntryType] /\ Linked \subseteq Entries
      /\ head \in Linked \cup {NoEntry} /\ writer.pc = "unlink"
      /\ \A x \in Linked : entry[x].next \in Linked \cup {NoEntry}
  BY LinkedIsLeast DEF Inv, TypeOK, Unlink
<1>1. u \in Linked /\ u \in Entries /\ u # NoEntry /\ entry[u].avail = {}
  BY <1>0, FastIndexAssumption DEF Inv, WriterInv
<1>2. PICK n \in Entries \cup {NoEntry} : n = entry[u].next
  BY <1>0, <1>1
<1>3. CASE head = u
  <2>1. head' = n /\ entry' = entry
    BY <1>2, <1>3 DEF Unlink
  <2>2. \A x \in Linked : entry[x].next # u
    BY <1>0, <1>1, <1>3, NoSelfLoop
  <2>3. Bypasses(u)
    BY <1>2, <1>3, <2>1, <2>2 DEF Bypasses
  <2> QED BY <1>0, <1>1, <1>2, <2>1, <2>3 DEF SameBut
<1>4. CASE head # u
  <2>1. PICK p \in Linked : /\ entry[p].next = u /\ head' = head
                            /\ entry' = [entry EXCEPT ![p].next = n]
    BY <1>2, <1>4 DEF Unlink
  <2>2. /\ entry' \in [Entries -> EntryType] /\ SameBut("next")
        /\ \A x \in Entries : entry'[x].next = IF x = p THEN n ELSE entry[x].next
    BY <1>0, <2>1, StoringNext
  <2>3. \A x \in Linked : entry[x].next = u => x = p
    BY <1>0, <1>1, <2>1 DEF ShapeInv
  <2>4. Bypasses(u)
    BY <1>2, <1>4, <2>1, <2>2, <2>3 DEF Bypasses
  <2> QED BY <1>0, <1>1, <2>1, <2>2, <2>4
<1> QED BY <1>3, <1>4

LEMMA UnlinkStep ==
    ASSUME Inv, Unlink
    PROVE  Harmless /\ ValuesStay /\ \A q : Holding(q)' = Holding(q)
<1>1. PICK u : u = writer.at
  OBVIOUS
<1>2. /\ u \in Linked /\ entry[u].avail = {}
      /\ Bypasses(u) /\ entry' \in [Entries -> EntryType] /\ SameBut("next")
      /\ head' \in Entries \cup {NoEntry}
  BY <1>1, UnlinkBypasses
<1>3. /\ TypeOK /\ ShapeInv /\ GraceInv /\ Linked \subseteq Entries
      /\ NoEntry \notin Linked /\ head \in Linked \cup {NoEntry}
      /\ \A x \in Linked : entry[x].next \in Linked \cup {NoEntry}
      /\ DOMAIN retired \subseteq Entries
      /\ retired \in [DOMAIN retired -> SUBSET Readers]
  BY LinkedIsLeast, FastIndexAssumption DEF Inv, TypeOK
<1>4. /\ retired' = [e \in DOMAIN retired \cup {u} |-> IF e = u THEN Inside ELSE retired[e]]
      /\ writer' = Idle /\ valid' = valid /\ writes' = writes /\ Watch
  BY <1>1 DEF Unlink
<1>5. Linked' = Linked \ {u}
  BY <1>2, <1>3, UnlinkedIsGone
<1>6. lookup' \in [Readers -> LookupType] /\ \A r \in Readers : Watches(r)
  BY <1>2, <1>3, <1>4, WatchingIsSeen
<1>7. WriterInv' /\ writer' \in WriterType
  BY <1>4, IdleWriter
<1>8. Inside' = Inside /\ Inside \subseteq Readers
  BY <1>6 DEF Inside, Watches
<1>9. /\ DOMAIN retired' = DOMAIN retired \cup {u} /\ retired'[u] = Inside
      /\ \A d \in DOMAIN retired : d # u /\ retired'[d] = retired[d]
  BY <1>2, <1>3, <1>4 DEF ShapeInv
<1>10. /\ DOMAIN retired' \subseteq Entries
       /\ retired' \in [DOMAIN retired' -> SUBSET Readers]
  BY <1>2, <1>3, <1>4, <1>8
<1>11. TypeOK'
  BY <1>2, <1>3, <1>4, <1>6, <1>7, <1>10 DEF TypeOK
<1>12. /\ entry[u].next # u /\ (head = u => \A x \in Linked : entry[x].next # u)
  BY <1>2, <1>3, NoSelfLoop
<1>13. ShapeInv'
  <2>1. /\ head' = IF head = u THEN entry[u].next ELSE head
        /\ \A x \in Linked : entry'[x].next = IF entry[x].next = u THEN entry[u].next
                                              ELSE entry[x].next
    BY <1>2, <1>3 DEF Bypasses
  <2>2. \A x \in Linked' : entry'[x].next # head' \/ head' = NoEntry
    BY <2>1, <1>2, <1>3, <1>5, <1>12 DEF ShapeInv
  <2>3. \A x \in Linked', y \in Linked' :
           entry'[x].next = entry'[y].next /\ entry'[x].next # NoEntry => x = y
    BY <2>1, <1>2, <1>3, <1>5, <1>12 DEF ShapeInv
  <2>4. \A d \in DOMAIN retired' : d \notin Linked'
    BY <1>3, <1>5, <1>9 DEF ShapeInv
  <2> QED BY <2>2, <2>3, <2>4 DEF ShapeInv
<1>14. \A r \in Inside : Safe(r)' = Safe(r)
  BY <1>2, <1>5, <1>9 DEF Safe
<1>15. GraceInv'
  <2> SUFFICES ASSUME NEW d \in DOMAIN retired'
               PROVE  /\ retired'[d] \subseteq Inside
                      /\ \A r \in Inside : r \in retired'[d] =>
                            entry'[d].next \in Safe(r) \cup {NoEntry}
    BY <1>8, <1>14 DEF GraceInv
  <2>1. CASE d = u
    <3>1. entry'[u].next = entry[u].next
      BY <1>2, <1>3, <1>12 DEF Bypasses
    <3>2. entry[u].next \in Linked \cup {NoEntry}
      BY <1>2, <1>3
    <3> QED BY <2>1, <3>1, <3>2, <1>9 DEF Safe
  <2>2. CASE d # u
    <3>1. d \in DOMAIN retired /\ d \in Entries /\ d \notin Linked /\ retired'[d] = retired[d]
      BY <2>2, <1>3, <1>9 DEF ShapeInv
    <3>2. entry'[d].next = entry[d].next
      BY <3>1, <1>2 DEF Bypasses
    <3> QED BY <3>1, <3>2, <1>3 DEF GraceInv
  <2> QED BY <2>1, <2>2
<1>16. \A e \in Entries : /\ entry'[e].tag0 = entry[e].tag0 /\ entry'[e].tags = entry[e].tags
                          /\ entry'[e].avail = entry[e].avail
  BY <1>2 DEF SameBut
<1>17. \A q : Holding(q)' = Holding(q)
  <2> SUFFICES ASSUME NEW q, NEW x, NEW t
               PROVE  <<x, t>> \in Holding(q)' <=> <<x, t>> \in Holding(q)
    BY SameHolding
  <2>1. <<x, t>> \in Holding(q)' <=>
           /\ x \in Linked \ {u} /\ t \in Slots /\ t \in entry'[x].avail
           /\ entry'[x].tag0 = q.tag0 /\ entry'[x].tags[t] = q.tags
    BY <1>5 DEF Holding
  <2>2. <<x, t>> \in Holding(q) <=>
           /\ x \in Linked /\ t \in Slots /\ t \in entry[x].avail
           /\ entry[x].tag0 = q.tag0 /\ entry[x].tags[t] = q.tags
    BY HoldingIs
  <2> QED BY <2>1, <2>2, <1>2, <1>3, <1>16
<1>18. \A r \in Readers : WaysLead(r)
  <2> SUFFICES ASSUME NEW r \in Readers, NEW q \in Keys, NEW a \in Entries \cup {NoEntry},
                      NEW es \in Holding(q), es[1] \in From(a)
               PROVE  es[1] \in From(a)'
    BY DEF WaysLead
  <2>1. es[1] # u
    BY <1>2 DEF Holding
  <2> QED BY <2>1, <1>2, <1>3, WaysBypass
<1>19. \A r \in Readers : lookup[r].pc # "idle" => \A a : a \in Safe(r) => a \in Safe(r)'
  BY <1>14 DEF Inside
<1>20. ValuesStay
  BY <1>2, SameButKeepsValues
<1> QED BY <1>6, <1>7, <1>11, <1>13, <1>15, <1>17, <1>18, <1>19, <1>20, SameHoldingSettles
        DEF Harmless

LEMMA ReclaimStep ==
    ASSUME Inv, NEW e \in Entries, Reclaim(e)
    PROVE  Harmless /\ (\A q : Holding(q)' = Holding(q)) /\ Linked' = Linked
           /\ \A x \in Linked : entry'[x] = entry[x]
<1>0. /\ TypeOK /\ ShapeInv /\ GraceInv /\ Linked \subseteq Entries
      /\ head \in Linked \cup {NoEntry}
      /\ \A x \in Linked : entry[x].next \in Linked \cup {NoEntry}
      /\ DOMAIN retired \subseteq Entries
      /\ entry \in [Entries -> EntryType]
      /\ retired \in [DOMAIN retired -> SUBSET Readers]
  BY LinkedIsLeast DEF Inv, TypeOK
<1>1. /\ e \in DOMAIN retired /\ retired[e] = {} /\ e \notin Linked
      /\ retired' = [f \in DOMAIN retired \ {e} |-> retired[f]]
      /\ entry' = [entry EXCEPT ![e] = Zeroed]
      /\ head' = head /\ valid' = valid /\ writer' = writer /\ lookup' = lookup
      /\ writes' = writes
  BY <1>0 DEF Reclaim, ShapeInv
<1>2. /\ entry' \in [Entries -> EntryType]
      /\ \A x \in Entries : x # e => entry'[x] = entry[x]
  BY <1>0, <1>1, Defaults
<1>3. /\ DOMAIN retired' = DOMAIN retired \ {e}
      /\ \A d \in DOMAIN retired' : retired'[d] = retired[d]
  BY <1>1
<1>4. TypeOK'
  BY <1>0, <1>1, <1>2 DEF TypeOK
<1>5. Linked' = Linked
  <2>1. PICK L \in SUBSET Entries : L = Linked
    BY <1>0
  <2>2. PICK p : p = head
    OBVIOUS
  <2>3. Closed(L) /\ p \in L \cup {NoEntry}
    BY <1>0, <2>1, <2>2 DEF Closed
  <2>4. \A x \in L : entry'[x].next = entry[x].next
    BY <1>1, <1>2, <2>1
  <2>5. From(p)' = From(p)
    BY <2>3, <2>4, FromIsKept
  <2>6. Linked = From(p) /\ Linked' = From(p)'
    BY <1>1, <2>2 DEF Linked
  <2> QED BY <2>5, <2>6
<1>6. \A r : Safe(r)' = Safe(r)
  BY <1>1, <1>3, <1>5 DEF Safe
<1>7. \A x \in Linked : entry'[x] = entry[x]
  BY <1>0, <1>1, <1>2
<1>8. ShapeInv'
  BY <1>0, <1>1, <1>3, <1>5, <1>7 DEF ShapeInv
<1>9. Inside' = Inside
  BY <1>1 DEF Inside
<1>10. GraceInv'
  <2> SUFFICES ASSUME NEW d \in DOMAIN retired \ {e}
               PROVE  /\ retired'[d] \subseteq Inside'
                      /\ \A r \in retired'[d] : entry'[d].next \in Safe(r)' \cup {NoEntry}
    BY <1>3 DEF GraceInv
  <2> QED BY <1>0, <1>2, <1>3, <1>6, <1>9 DEF GraceInv
<1>11. ContentsStay
  BY <1>5, <1>7 DEF ContentsStay
<1>12. WriterInv' /\ \A q : Holding(q)' = Holding(q)
  BY <1>1, <1>11, WriterUndisturbed DEF Inv
<1>13. \A r \in Readers : Watches(r)
  BY <1>0, <1>1, <1>12, UnwatchedIsUnchanged DEF Inv
<1>14. \A r \in Readers : WaysLead(r)
  <2> SUFFICES ASSUME NEW r \in Readers, NEW q \in Keys, NEW a \in Entries \cup {NoEntry},
                      lookup[r].pc # "idle", a = lookup[r].at,
                      NEW es \in Holding(q), es[1] \in From(a)
               PROVE  es[1] \in From(a)'
    BY DEF WaysLead
  <2>1. PICK S \in SUBSET Entries : S = Safe(r) /\ Closed(S)
    BY <1>0, SafeIsClosed
  <2>2. a \in S \cup {NoEntry}
    BY <2>1 DEF Inv, LookupInv, Stands
  <2>3. e \notin S
    BY <1>1, <2>1 DEF Safe
  <2>4. \A x \in S : entry'[x].next = entry[x].next \/ entry[x].next = NoEntry
    BY <1>2, <2>3
  <2> QED BY <2>1, <2>2, <2>4, WaysGrow
<1>15. \A r \in Readers : \A a : a \in Safe(r) => a \in Safe(r)'
  BY <1>6
<1> QED BY <1>4, <1>5, <1>7, <1>8, <1>10, <1>12, <1>13, <1>14, <1>15, SameHoldingSettles
        DEF Harmless

LEMMA InvalidateStep ==
    ASSUME Inv, Invalidate
    PROVE  Inv' /\ Linked' = Linked
<1>1. /\ head' = head /\ entry' = entry /\ retired' = retired /\ writer' = writer
      /\ lookup' = lookup /\ writes' = writes /\ valid' = FALSE /\ writer.pc = "idle"
  BY DEF Invalidate
<1>2. TypeOK'
  BY <1>1 DEF Inv, TypeOK
<1>3. WriterInv'
  BY <1>1 DEF WriterInv, Filling
<1>4. ShapeInv' /\ GraceInv' /\ OneSlotInv' /\ LookupInv' /\ Linked' = Linked
  BY <1>1 DEF Inv, ShapeInv, GraceInv, OneSlotInv, LookupInv, Stands, Tracks, Safe, Inside,
              Holding, Linked, From, Closed
<1> QED BY <1>2, <1>3, <1>4 DEF Inv

LEMMA CleanupStep ==
    ASSUME Inv, Cleanup
    PROVE  Inv' /\ \A q : Holding(q)' = {}
<1>0. /\ TypeOK /\ GraceInv /\ Inside = {} /\ ~valid
      /\ retired' = retired /\ writer' = writer /\ lookup' = lookup /\ head' = NoEntry
      /\ valid' = TRUE /\ writes' = 0
      /\ entry' = [e \in Entries |-> IF e \in Linked THEN Zeroed ELSE entry[e]]
  BY DEF Inv, Cleanup
<1>1. Linked' = {}
  <2>1. Closed({})' /\ {} \in SUBSET Entries /\ head' \in {} \cup {NoEntry}
    BY <1>0 DEF Closed
  <2>2. \A e \in Linked' : e \in {}
    BY <2>1 DEF Linked, From
  <2> QED BY <2>2
<1>2. \A q : Holding(q)' = {}
  BY <1>1 DEF Holding
<1>3. entry' \in [Entries -> EntryType]
  BY <1>0, Defaults DEF TypeOK
<1>4. TypeOK'
  BY <1>0, <1>3, FastIndexAssumption DEF TypeOK
<1>5. \A r \in Readers : lookup'[r].pc = "idle"
  BY <1>0 DEF Inside
<1>6. LookupInv'
  BY <1>5 DEF LookupInv, Stands, Tracks
<1>7. ShapeInv'
  BY <1>1 DEF ShapeInv
<1>8. GraceInv'
  BY <1>0 DEF GraceInv, Inside
<1>9. writer'.pc = "idle"
  BY <1>0 DEF Inv, WriterInv
<1>10. WriterInv'
  BY <1>9 DEF WriterInv, Filling
<1>11. OneSlotInv'
  BY <1>2 DEF OneSlotInv
<1> QED BY <1>2, <1>4, <1>6, <1>7, <1>8, <1>10, <1>11 DEF Inv

-----------------------------------------------------------------------------
(* The lookups' own steps                                                  *)

(* An entry further on the way of a is on the way of what follows a.       *)
LEMMA WayOn ==
    ASSUME NEW a \in Entries, NEW b, b = entry[a].next, NEW e \in From(a), e # a
    PROVE  e \in From(b)
<1> SUFFICES ASSUME NEW T \in SUBSET Entries, b \in T \cup {NoEntry}, Closed(T)
             PROVE  e \in T
  BY DEF From
<1>1. Closed(T \cup {a}) /\ T \cup {a} \in SUBSET Entries
  BY DEF Closed
<1>2. e \in T \cup {a}
  BY <1>1 DEF From
<1> QED BY <1>2

(* What a lookup has to be like after a step of its own.                   *)
OnCourse(r, l) ==
    /\ l.at \in Safe(r) \cup {NoEntry}
    /\ l.pc # "walk" => l.at # NoEntry
    /\ l.steady => Holding(l.key) # {}
    /\ l.steady /\ ~l.found =>
          \A es \in Holding(l.key) :
              /\ es[1] \in From(l.at)
              /\ es[1] = l.at /\ l.pc \in {"compare", "probe"} => es[2] \in l.cand

LEMMA LookupStep ==
    ASSUME Inv, NEW r \in Readers, NEW l \in LookupType, l.pc # "idle", OnCourse(r, l),
           lookup' \in [Readers -> LookupType], lookup'[r] = l,
           \A q \in Readers \ {r} : Watches(q),
           entry' \in [Entries -> EntryType], SameBut("val"), head' = head,
           retired' = retired, valid' = valid, writer' = writer, writes' = writes
    PROVE  Inv' /\ Linked' = Linked /\ \A q : Holding(q)' = Holding(q)
<1>0. TypeOK /\ Linked \subseteq Entries
  BY LinkedIsLeast DEF Inv
<1>1. TypeOK'
  BY <1>0 DEF TypeOK
<1>2. Calm
  <2>1. NextsStay
    BY SameButKeepsNexts
  <2>2. Inside \subseteq Inside'
    BY DEF Inside, Watches
  <2> QED BY <2>1, <2>2 DEF Calm
<1>3. /\ Linked' = Linked
      /\ \A p \in Entries \cup {NoEntry} : From(p)' = From(p)
      /\ \A q : Safe(q)' = Safe(q)
      /\ ShapeInv' /\ GraceInv'
  BY <1>0, <1>2, CalmKeepsTheList DEF Inv
<1>4. ContentsStay
  BY <1>0, <1>3 DEF ContentsStay, SameBut
<1>5. WriterInv' /\ \A q : Holding(q)' = Holding(q)
  BY <1>4, WriterUndisturbed DEF Inv
<1>6. Settles
  BY <1>5, SameHoldingSettles
<1>7. OneSlotInv'
  BY <1>6, SettlingKeepsOneSlot DEF Inv
<1>8. ASSUME NEW q \in Readers, q # r PROVE Stands(q)' /\ Tracks(q)'
  <2>1. Watches(q) /\ Stands(q) /\ Tracks(q)
    BY <1>8 DEF Inv, LookupInv
  <2>2. WaysLead(q) /\ \A a : a \in Safe(q) => a \in Safe(q)'
    BY <1>3 DEF WaysLead
  <2> QED BY <1>0, <1>6, <2>1, <2>2, LookupUndisturbed
<1>9. Stands(r)'
  <2>1. Safe(r)' = Safe(r)
    BY <1>3
  <2> QED BY <2>1 DEF Stands, OnCourse
<1>10. Tracks(r)'
  <2> SUFFICES ASSUME NEW k \in Keys, l.key = k,
                      NEW a \in Entries \cup {NoEntry}, l.at = a, l.steady
               PROVE  /\ Holding(k)' # {}
                      /\ ~l.found =>
                            \A es \in Holding(k)' :
                              /\ es[1] \in From(a)'
                              /\ es[1] = a /\ l.pc \in {"compare", "probe"} => es[2] \in l.cand
    BY DEF Tracks
  <2>1. Holding(k)' = Holding(k) /\ From(a)' = From(a)
    BY <1>3, <1>5
  <2> QED BY <2>1 DEF OnCourse
<1>11. LookupInv'
  BY <1>8, <1>9, <1>10 DEF LookupInv
<1> QED BY <1>1, <1>3, <1>5, <1>7, <1>11 DEF Inv

LEMMA LookStep ==
    ASSUME Inv, NEW r \in Readers, NEW l \in LookupType, l.pc # "idle", OnCourse(r, l),
           Look(r, l), entry' = entry
    PROVE  Inv' /\ Linked' = Linked /\ \A q : Holding(q)' = Holding(q)
<1>0. TypeOK /\ LookupInv
  BY DEF Inv
<1>1. /\ lookup' \in [Readers -> LookupType] /\ lookup'[r] = l
      /\ \A q \in Readers \ {r} : lookup'[q] = lookup[q]
      /\ head' = head /\ retired' = retired /\ valid' = valid /\ writer' = writer
      /\ writes' = writes
  BY <1>0 DEF Look, TypeOK
<1>2. entry' \in [Entries -> EntryType] /\ SameBut("val")
  BY <1>0 DEF TypeOK, SameBut
<1>3. \A q : Holding(q)' = Holding(q)
  BY <1>1 DEF Holding, Linked, From, Closed
<1>4. ASSUME NEW q \in Readers \ {r} PROVE Watches(q)
  <2> SUFFICES ASSUME NEW k \in Keys, k = lookup[q].key,
                      lookup[q].pc # "idle", lookup[q].steady
               PROVE  Holding(k)' # {}
    BY <1>1 DEF Watches
  <2>1. lookup[q].at \in Entries \cup {NoEntry}
    BY <1>0 DEF TypeOK, LookupType
  <2> QED BY <1>0, <1>3, <2>1 DEF LookupInv, Tracks
<1> QED BY <1>1, <1>2, <1>4, LookupStep

(* A lookup is on its course, and knows where it is.                       *)
LEMMA IsOnCourse ==
    ASSUME Inv, NEW r \in Readers, lookup[r].pc # "idle", NEW l, l = lookup[r]
    PROVE  l \in LookupType /\ OnCourse(r, l)
<1>1. l \in LookupType /\ l.key \in Keys /\ l.at \in Entries \cup {NoEntry}
  BY DEF Inv, TypeOK, LookupType
<1>2. Stands(r) /\ Tracks(r)
  BY DEF Inv, LookupInv
<1> QED BY <1>1, <1>2 DEF Stands, Tracks, OnCourse

LEMMA BeginLookupStep ==
    ASSUME Inv, NEW r \in Readers, NEW k \in Keys, NEW u \in BOOLEAN, NEW v \in Values,
           BeginLookup(r, k, u, v)
    PROVE  Inv' /\ Linked' = Linked /\ \A q : Holding(q)' = Holding(q)
<1>0. /\ TypeOK /\ head \in Linked \cup {NoEntry} /\ entry' = entry
      /\ \A es \in Holding(k) : es[1] \in Linked
  BY LinkedIsLeast, HoldsPairs DEF Inv, BeginLookup
<1>1. PICK b \in BOOLEAN : b = (Bound(k) # {})
  OBVIOUS
<1>2. PICK B \in SUBSET Values : B = Bound(k)
  <2>1. \A e \in Entries, t \in Slots : entry[e].val[t] \in Values
    BY <1>0 DEF TypeOK, EntryType
  <2>2. Linked \subseteq Entries
    BY <1>0, LinkedIsLeast
  <2>3. Bound(k) \subseteq Values
    BY <2>1, <2>2 DEF Bound, Holding
  <2> QED BY <2>3
<1>3. PICK p \in Entries \cup {NoEntry} : p = head
  BY <1>0 DEF TypeOK
<1>4. PICK l : l = [pc |-> "walk", key |-> k, update |-> u, val |-> v, at |-> p, word |-> 1,
                    cand |-> {}, found |-> FALSE, steady |-> b, held |-> B]
  OBVIOUS
<1>5. l \in LookupType
  BY <1>4 DEF LookupType
<1>6. Look(r, l)
  BY <1>1, <1>2, <1>3, <1>4 DEF BeginLookup
<1>7. b => Holding(k) # {}
  BY <1>1 DEF Bound
<1>8. Linked = From(p)
  BY <1>3 DEF Linked
<1>9. OnCourse(r, l)
  BY <1>0, <1>3, <1>4, <1>7, <1>8 DEF OnCourse, Safe
<1>10. l.pc # "idle"
  BY <1>4
<1> QED BY <1>0, <1>5, <1>6, <1>9, <1>10, LookStep

(* A lookup that has found its key, or whose key is not where it stands,   *)
(* may go on to the next entry.                                            *)
LEMMA AdvanceStaysOnCourse ==
    ASSUME Inv, NEW r \in Readers, lookup[r].pc # "idle", lookup[r].at # NoEntry,
           NEW m \in LookupType, m.at = lookup[r].at, m.key = lookup[r].key,
           m.steady = lookup[r].steady, lookup[r].found => m.found,
           m.steady /\ ~m.found => \A es \in Holding(m.key) : es[1] # m.at,
           NEW l, l = Advance(m)
    PROVE  l \in LookupType /\ OnCourse(r, l) /\ l.pc = "walk"
<1>1. PICK o : o = lookup[r]
  OBVIOUS
<1>2. o \in LookupType /\ OnCourse(r, o)
  BY <1>1, IsOnCourse
<1>3. m.at \in Safe(r) /\ Safe(r) \subseteq Entries /\ Closed(Safe(r))
  BY <1>1, <1>2, SafeIsClosed DEF OnCourse, Inv
<1>4. PICK n \in Entries \cup {NoEntry} : n = entry[m.at].next /\ n \in Safe(r) \cup {NoEntry}
  BY <1>3 DEF Closed
<1>5. l = [m EXCEPT !.at = n, !.pc = "walk"]
  BY <1>4 DEF Advance
<1>6. /\ l \in LookupType /\ l.at = n /\ l.pc = "walk" /\ l.key = m.key
      /\ l.steady = m.steady /\ l.found = m.found
  BY <1>5 DEF LookupType
<1>7. ASSUME m.steady, ~m.found, NEW es \in Holding(m.key)
      PROVE  es[1] \in From(n)
  <2>1. es[1] \in From(m.at) /\ es[1] # m.at
    BY <1>1, <1>2, <1>7 DEF OnCourse
  <2> QED BY <1>3, <1>4, <2>1, WayOn
<1>8. m.steady => Holding(m.key) # {}
  BY <1>1, <1>2 DEF OnCourse
<1> QED BY <1>4, <1>6, <1>7, <1>8 DEF OnCourse

LEMMA WalkOverStep ==
    ASSUME Inv, NEW r \in Readers, WalkOver(r)
    PROVE  Inv' /\ Linked' = Linked /\ \A q : Holding(q)' = Holding(q)
<1>1. PICK o : o = lookup[r]
  OBVIOUS
<1>2. PICK l : l = Advance(o)
  OBVIOUS
<1>3. /\ o.pc = "walk" /\ o.at # NoEntry /\ Passes(o) /\ Look(r, l) /\ entry' = entry
  BY <1>1, <1>2 DEF WalkOver
<1>4. o \in LookupType
  BY <1>1, <1>3, IsOnCourse
<1>5. o.steady /\ ~o.found => \A es \in Holding(o.key) : es[1] # o.at
  BY <1>3 DEF Passes, Holding
<1>6. l \in LookupType /\ OnCourse(r, l) /\ l.pc = "walk"
  BY <1>1, <1>2, <1>3, <1>4, <1>5, AdvanceStaysOnCourse
<1> QED BY <1>3, <1>6, LookStep

LEMMA CompareStep ==
    ASSUME Inv, NEW r \in Readers, Compare(r)
    PROVE  Inv' /\ Linked' = Linked /\ \A q : Holding(q)' = Holding(q)
<1>1. PICK o : o = lookup[r]
  OBVIOUS
<1>2. PICK c : c = IF o.pc = "walk" THEN Matching([o EXCEPT !.word = 1])
                   ELSE o.cand \cap Matching(o)
  OBVIOUS
<1>3. PICK w : w = IF o.pc = "walk" THEN 1 ELSE o.word
  OBVIOUS
<1>4. PICK l : l = IF w < NrTags
                   THEN [o EXCEPT !.pc = "compare", !.cand = c, !.word = w + 1]
                   ELSE IF c # {} THEN [o EXCEPT !.pc = "probe", !.cand = c]
                   ELSE Advance(o)
  OBVIOUS
<1>5. /\ o.pc = "compare" \/ (o.pc = "walk" /\ o.at # NoEntry /\ ~Passes(o))
      /\ Look(r, l) /\ entry' = entry
  BY <1>1, <1>2, <1>3, <1>4 DEF Compare
<1>6. o \in LookupType /\ OnCourse(r, o) /\ o.pc # "idle"
  BY <1>1, <1>5, IsOnCourse
<1>7. /\ o.at # NoEntry /\ o.at \in Safe(r) /\ o.cand \subseteq Slots /\ w \in Nat \ {0}
  BY <1>3, <1>5, <1>6 DEF OnCourse, LookupType
<1>8. c \subseteq Slots
  BY <1>2, <1>7 DEF Matching
<1>9. \A es \in Holding(o.key) : es[1] = o.at /\ o.steady /\ ~o.found => es[2] \in c
  <2> SUFFICES ASSUME NEW es \in Holding(o.key), es[1] = o.at, o.steady, ~o.found
               PROVE  es[2] \in c
    OBVIOUS
  <2>1. es[2] \in Slots /\ entry[o.at].tags[es[2]] = o.key.tags
    BY DEF Holding
  <2>2. CASE o.pc = "walk"
    <3>1. PICK m : m = [o EXCEPT !.word = 1]
      OBVIOUS
    <3>2. m.at = o.at /\ m.key = o.key
      BY <1>6, <3>1 DEF LookupType
    <3>3. es[2] \in Matching(m)
      BY <2>1, <3>2 DEF Matching
    <3> QED BY <1>2, <2>2, <3>1, <3>3
  <2>3. CASE o.pc = "compare"
    <3>1. es[2] \in o.cand
      BY <1>6, <2>3 DEF OnCourse
    <3>2. es[2] \in Matching(o)
      BY <2>1 DEF Matching
    <3> QED BY <1>2, <2>3, <3>1, <3>2
  <2> QED BY <1>5, <2>2, <2>3
<1>10. ASSUME NEW pc \in {"compare", "probe"}, NEW j \in Nat \ {0},
              l = [o EXCEPT !.pc = pc, !.cand = c, !.word = j]
       PROVE  l \in LookupType /\ l.pc # "idle" /\ OnCourse(r, l)
  <2>1. l \in LookupType
    BY <1>6, <1>8, <1>10 DEF LookupType
  <2>2. /\ l.pc = pc /\ l.cand = c /\ l.at = o.at /\ l.key = o.key
        /\ l.steady = o.steady /\ l.found = o.found
    BY <1>6, <1>10 DEF LookupType
  <2>3. OnCourse(r, l)
    BY <1>6, <1>7, <1>9, <2>2 DEF OnCourse
  <2> QED BY <2>1, <2>2, <2>3
<1>11. l \in LookupType /\ l.pc # "idle" /\ OnCourse(r, l)
  <2>1. CASE w < NrTags
    <3>1. w + 1 \in Nat \ {0} /\ l = [o EXCEPT !.pc = "compare", !.cand = c, !.word = w + 1]
      BY <1>4, <1>7, <2>1
    <3> QED BY <1>10, <3>1
  <2>2. CASE ~(w < NrTags) /\ c # {}
    <3>1. l = [o EXCEPT !.pc = "probe", !.cand = c]
      BY <1>4, <2>2
    <3>2. o.word \in Nat \ {0} /\ l = [o EXCEPT !.pc = "probe", !.cand = c, !.word = o.word]
      BY <1>6, <3>1 DEF LookupType
    <3> QED BY <1>10, <3>2
  <2>3. CASE ~(w < NrTags) /\ c = {}
    <3>1. l = Advance(o)
      BY <1>4, <2>3
    <3>2. o.steady /\ ~o.found => \A es \in Holding(o.key) : es[1] # o.at
      BY <1>9, <2>3
    <3>3. l \in LookupType /\ OnCourse(r, l) /\ l.pc = "walk"
      BY <1>1, <1>6, <1>7, <3>1, <3>2, AdvanceStaysOnCourse
    <3> QED BY <3>3
  <2> QED BY <2>1, <2>2, <2>3
<1> QED BY <1>5, <1>11, LookStep

LEMMA ProbeStep ==
    ASSUME Inv, NEW r \in Readers, Probe(r)
    PROVE  Inv' /\ Linked' = Linked /\ \A q : Holding(q)' = Holding(q)
<1>1. PICK o : o = lookup[r]
  OBVIOUS
<1>2. PICK s \in Least(o.cand) :
          Look(r, IF s \in entry[o.at].avail THEN [o EXCEPT !.pc = "hit", !.cand = {s}]
                  ELSE IF o.cand # {s} THEN [o EXCEPT !.cand = o.cand \ {s}]
                  ELSE Advance(o))
  BY <1>1 DEF Probe
<1>3. PICK l : l = IF s \in entry[o.at].avail THEN [o EXCEPT !.pc = "hit", !.cand = {s}]
                   ELSE IF o.cand # {s} THEN [o EXCEPT !.cand = o.cand \ {s}]
                   ELSE Advance(o)
  OBVIOUS
<1>4. Look(r, l) /\ entry' = entry /\ o.pc = "probe"
  BY <1>1, <1>2, <1>3 DEF Probe
<1>5. o \in LookupType /\ OnCourse(r, o) /\ o.pc # "idle"
  BY <1>1, <1>4, IsOnCourse
<1>6. o.at # NoEntry /\ o.cand \subseteq Slots /\ s \in o.cand
  BY <1>4, <1>5 DEF OnCourse, LookupType, Least
<1>7. \A es \in Holding(o.key) :
         es[1] = o.at /\ o.steady /\ ~o.found =>
             es[2] \in o.cand /\ es[2] \in entry[o.at].avail
  BY <1>4, <1>5 DEF OnCourse, Holding
<1>8. l \in LookupType /\ l.pc # "idle" /\ OnCourse(r, l)
  <2>1. CASE s \in entry[o.at].avail
    <3>1. l = [o EXCEPT !.pc = "hit", !.cand = {s}]
      BY <1>3, <2>1
    <3>2. l \in LookupType
      BY <1>5, <1>6, <3>1 DEF LookupType
    <3>3. /\ l.pc = "hit" /\ l.at = o.at /\ l.key = o.key
          /\ l.steady = o.steady /\ l.found = o.found
      BY <1>5, <3>1 DEF LookupType
    <3> QED BY <1>5, <1>6, <3>2, <3>3 DEF OnCourse
  <2>2. CASE s \notin entry[o.at].avail /\ o.cand # {s}
    <3>1. l = [o EXCEPT !.cand = o.cand \ {s}]
      BY <1>3, <2>2
    <3>2. l \in LookupType
      BY <1>5, <1>6, <3>1 DEF LookupType
    <3>3. /\ l.pc = "probe" /\ l.at = o.at /\ l.key = o.key /\ l.cand = o.cand \ {s}
          /\ l.steady = o.steady /\ l.found = o.found
      BY <1>4, <1>5, <3>1 DEF LookupType
    <3>4. OnCourse(r, l)
      BY <1>5, <1>6, <1>7, <2>2, <3>3 DEF OnCourse
    <3> QED BY <3>2, <3>3, <3>4
  <2>3. CASE s \notin entry[o.at].avail /\ o.cand = {s}
    <3>1. l = Advance(o)
      BY <1>3, <2>3
    <3>2. o.steady /\ ~o.found => \A es \in Holding(o.key) : es[1] # o.at
      BY <1>7, <2>3
    <3>3. l \in LookupType /\ OnCourse(r, l) /\ l.pc = "walk"
      BY <1>1, <1>5, <1>6, <3>1, <3>2, AdvanceStaysOnCourse
    <3> QED BY <3>3
  <2> QED BY <2>1, <2>2, <2>3
<1> QED BY <1>4, <1>8, LookStep

LEMMA TakeValueStep ==
    ASSUME Inv, NEW r \in Readers, TakeValue(r)
    PROVE  Inv' /\ Linked' = Linked /\ \A q : Holding(q)' = Holding(q)
<1>1. PICK o : o = lookup[r]
  OBVIOUS
<1>2. PICK s \in o.cand :
          Look(r, Advance([o EXCEPT !.found = TRUE, !.val = entry[o.at].val[s]]))
  BY <1>1 DEF TakeValue
<1>3. entry' = entry /\ o.pc = "hit"
  BY <1>1 DEF TakeValue
<1>4. o \in LookupType /\ OnCourse(r, o)
  BY <1>1, <1>3, IsOnCourse
<1>5. o.at # NoEntry /\ o.at \in Entries /\ s \in Slots
  BY <1>3, <1>4 DEF OnCourse, LookupType
<1>6. PICK v \in Values : v = entry[o.at].val[s]
  BY <1>5 DEF Inv, TypeOK, EntryType
<1>7. PICK m : m = [o EXCEPT !.found = TRUE, !.val = v]
  OBVIOUS
<1>8. /\ m \in LookupType /\ m.at = o.at /\ m.key = o.key /\ m.steady = o.steady /\ m.found
  BY <1>4, <1>7 DEF LookupType
<1>9. PICK l : l = Advance(m)
  OBVIOUS
<1>10. l \in LookupType /\ OnCourse(r, l) /\ l.pc = "walk"
  BY <1>1, <1>3, <1>5, <1>8, <1>9, AdvanceStaysOnCourse
<1>11. Look(r, l)
  BY <1>2, <1>6, <1>7, <1>9
<1> QED BY <1>3, <1>10, <1>11, LookStep

LEMMA RefreshStep ==
    ASSUME Inv, NEW r \in Readers, Refresh(r)
    PROVE  Inv' /\ Linked' = Linked /\ \A q : Holding(q)' = Holding(q)
<1>1. PICK o : o = lookup[r]
  OBVIOUS
<1>2. PICK s \in o.cand : entry' = [entry EXCEPT ![o.at].val[s] = o.val]
  BY <1>1 DEF Refresh
<1>3. PICK m : m = [o EXCEPT !.found = TRUE]
  OBVIOUS
<1>4. PICK l : l = Advance(m)
  OBVIOUS
<1>5. /\ o.pc = "hit" /\ head' = head /\ retired' = retired /\ valid' = valid
      /\ writer' = writer /\ writes' = writes
      /\ lookup' = [q \in Readers |-> IF q = r THEN l ELSE Watched(lookup[q])]
  BY <1>1, <1>3, <1>4 DEF Refresh
<1>6. o \in LookupType /\ OnCourse(r, o)
  BY <1>1, <1>5, IsOnCourse
<1>7. o.at # NoEntry /\ o.at \in Entries /\ s \in Slots /\ o.val \in Values
  BY <1>5, <1>6 DEF OnCourse, LookupType
<1>8. TypeOK /\ entry \in [Entries -> EntryType]
  BY DEF Inv, TypeOK
<1>9. entry' \in [Entries -> EntryType] /\ SameBut("val")
  BY <1>2, <1>7, <1>8, StoringAValue
<1>10. /\ m \in LookupType /\ m.at = o.at /\ m.key = o.key /\ m.steady = o.steady /\ m.found
  BY <1>3, <1>6 DEF LookupType
<1>11. l \in LookupType /\ OnCourse(r, l) /\ l.pc = "walk"
  BY <1>1, <1>4, <1>5, <1>7, <1>10, AdvanceStaysOnCourse
<1>12. ASSUME NEW q \in Readers, q # r PROVE lookup'[q] \in LookupType /\ Watches(q)
  <2>1. lookup'[q] = Watched(lookup[q])
    BY <1>5, <1>12
  <2> QED BY <1>8, <1>9, <2>1, WatchedIsSeen
<1>13. lookup' \in [Readers -> LookupType] /\ lookup'[r] = l
  BY <1>5, <1>11, <1>12
<1> QED BY <1>5, <1>9, <1>11, <1>12, <1>13, LookupStep

LEMMA EndLookupStep ==
    ASSUME Inv, NEW r \in Readers, EndLookup(r)
    PROVE  Inv' /\ Linked' = Linked /\ \A q : Holding(q)' = Holding(q)
<1>0. /\ TypeOK /\ ShapeInv /\ GraceInv /\ LookupInv /\ Linked \subseteq Entries
      /\ retired \in [DOMAIN retired -> SUBSET Readers]
  BY LinkedIsLeast DEF Inv, TypeOK
<1>1. /\ lookup' = [lookup EXCEPT ![r] = NoLookup]
      /\ retired' = [e \in DOMAIN retired |-> retired[e] \ {r}]
      /\ head' = head /\ entry' = entry /\ valid' = valid /\ writer' = writer
      /\ writes' = writes
  BY DEF EndLookup
<1>2. /\ Linked' = Linked /\ (\A q : Holding(q)' = Holding(q)) /\ \A p : From(p)' = From(p)
  BY <1>1 DEF Holding, Linked, From, Closed
<1>3. lookup' \in [Readers -> LookupType] /\ lookup'[r].pc = "idle"
      /\ \A q \in Readers \ {r} : lookup'[q] = lookup[q]
  BY <1>0, <1>1, Defaults DEF TypeOK, NoLookup
<1>4. /\ DOMAIN retired' = DOMAIN retired
      /\ \A d \in DOMAIN retired : retired'[d] = retired[d] \ {r}
  BY <1>1
<1>5. TypeOK'
  <2>1. retired' \in [DOMAIN retired' -> SUBSET Readers]
    BY <1>0, <1>1
  <2> QED BY <1>0, <1>1, <1>3, <1>4, <2>1 DEF TypeOK
<1>6. \A q : q # r => Safe(q)' = Safe(q)
  BY <1>2, <1>4 DEF Safe
<1>7. ShapeInv'
  BY <1>0, <1>1, <1>2, <1>4 DEF ShapeInv
<1>8. Inside \ {r} \subseteq Inside'
  BY <1>3 DEF Inside
<1>9. GraceInv'
  <2> SUFFICES ASSUME NEW d \in DOMAIN retired
               PROVE  /\ retired'[d] \subseteq Inside'
                      /\ \A q \in retired'[d] : entry'[d].next \in Safe(q)' \cup {NoEntry}
    BY <1>4 DEF GraceInv
  <2> QED BY <1>0, <1>1, <1>4, <1>6, <1>8 DEF GraceInv
<1>10. ContentsStay
  BY <1>1, <1>2 DEF ContentsStay
<1>11. WriterInv'
  BY <1>1, <1>10, WriterUndisturbed DEF Inv
<1>12. OneSlotInv'
  BY <1>2 DEF Inv, OneSlotInv
<1>13. ASSUME NEW q \in Readers PROVE Stands(q)' /\ Tracks(q)'
  <2>1. CASE q = r
    BY <1>3, <2>1 DEF Stands, Tracks
  <2>2. CASE q # r
    <3>1. lookup'[q] = lookup[q] /\ Safe(q)' = Safe(q) /\ Stands(q) /\ Tracks(q)
      BY <1>0, <1>3, <1>6, <2>2 DEF LookupInv
    <3>2. Stands(q)'
      BY <3>1 DEF Stands
    <3>3. Tracks(q)'
      BY <1>2, <3>1 DEF Tracks
    <3> QED BY <3>2, <3>3
  <2> QED BY <2>1, <2>2
<1>14. LookupInv'
  BY <1>13 DEF LookupInv
<1> QED BY <1>2, <1>5, <1>7, <1>9, <1>11, <1>12, <1>14 DEF Inv

-----------------------------------------------------------------------------
(* The invariant                                                           *)

LEMMA InitInv ==
    ASSUME Init
    PROVE  Inv
<1>1. /\ head = NoEntry /\ entry = [e \in Entries |-> Zeroed] /\ retired = <<>>
      /\ valid = TRUE /\ writer = Idle /\ lookup = [r \in Readers |-> NoLookup] /\ writes = 0
  BY DEF Init
<1>2. DOMAIN retired = {}
  BY <1>1
<1>3. retired \in [{} -> SUBSET Readers]
  BY <1>1
<1>4. TypeOK
  BY <1>1, <1>2, <1>3, Defaults, FastIndexAssumption DEF TypeOK
<1>5. Linked = {}
  BY <1>1, FromNothing DEF Linked
<1>6. ShapeInv /\ GraceInv
  BY <1>2, <1>5 DEF ShapeInv, GraceInv
<1>7. WriterInv
  BY <1>1 DEF WriterInv, Filling, Idle
<1>8. OneSlotInv
  BY <1>5 DEF OneSlotInv, Holding
<1>9. LookupInv
  BY <1>1 DEF LookupInv, Stands, Tracks, NoLookup
<1> QED BY <1>4, <1>6, <1>7, <1>8, <1>9 DEF Inv

LEMMA WriteKeepsInv ==
    ASSUME Inv, Write
    PROVE  Inv'
<1>1. ASSUME NEW k \in Keys, NEW v \in Values, Overwrite(k, v) PROVE Inv'
  BY <1>1, OverwriteStep, HarmlessKeepsInv
<1>2. ASSUME NEW k \in Keys, NEW v \in Values, BeginInsert(k, v) PROVE Inv'
  BY <1>2, BeginInsertStep, HarmlessKeepsInv
<1>3. ASSUME NEW k \in Keys, NEW v \in Values, Append(k, v) PROVE Inv'
  BY <1>3, AppendStep, HarmlessKeepsInv
<1>4. ASSUME NEW k \in Keys, BeginDelete(k) PROVE Inv'
  BY <1>4, BeginDeleteStep, HarmlessKeepsInv
<1>5. ASSUME StoreTag PROVE Inv'
  BY <1>5, StoreTagStep, HarmlessKeepsInv
<1>6. ASSUME StoreValue PROVE Inv'
  BY <1>6, StoreValueStep, HarmlessKeepsInv
<1>7. ASSUME Publish PROVE Inv'
  BY <1>7, PublishStep, HarmlessKeepsInv
<1>8. ASSUME ZeroTag PROVE Inv'
  BY <1>8, ZeroTagStep, HarmlessKeepsInv
<1>9. ASSUME Unlink PROVE Inv'
  BY <1>9, UnlinkStep, HarmlessKeepsInv
<1> QED BY <1>1, <1>2, <1>3, <1>4, <1>5, <1>6, <1>7, <1>8, <1>9 DEF Write

(* A step of a lookup other than Refresh leaves the table alone.           *)
Unseen == entry' = entry /\ \A q : Holding(q)' = Holding(q)

LEMMA ReadKeepsInv ==
    ASSUME Inv, NEW r \in Readers, Read(r)
    PROVE  Inv' /\ (Refresh(r) \/ Unseen)
<1>1. ASSUME WalkOver(r) PROVE Inv' /\ Unseen
  BY <1>1, WalkOverStep DEF WalkOver, Unseen
<1>2. ASSUME Compare(r) PROVE Inv' /\ Unseen
  BY <1>2, CompareStep DEF Compare, Unseen
<1>3. ASSUME Probe(r) PROVE Inv' /\ Unseen
  BY <1>3, ProbeStep DEF Probe, Unseen
<1>4. ASSUME TakeValue(r) PROVE Inv' /\ Unseen
  BY <1>4, TakeValueStep DEF TakeValue, Unseen
<1>5. ASSUME Refresh(r) PROVE Inv'
  BY <1>5, RefreshStep
<1>6. ASSUME EndLookup(r) PROVE Inv' /\ Unseen
  BY <1>6, EndLookupStep DEF EndLookup, Unseen
<1> QED BY <1>1, <1>2, <1>3, <1>4, <1>5, <1>6 DEF Read

LEMMA LookupsKeepInv ==
    ASSUME Inv, Lookups
    PROVE  Inv' /\ ((\E r \in Readers : Refresh(r)) \/ Unseen)
<1>1. ASSUME NEW r \in Readers, NEW k \in Keys, NEW u \in BOOLEAN, NEW v \in Values,
             BeginLookup(r, k, u, v)
      PROVE  Inv' /\ Unseen
  BY <1>1, BeginLookupStep DEF BeginLookup, Unseen
<1>2. ASSUME NEW r \in Readers, Read(r)
      PROVE  Inv' /\ ((\E q \in Readers : Refresh(q)) \/ Unseen)
  BY <1>2, ReadKeepsInv
<1>3. SomeValue \in Values /\ TRUE \in BOOLEAN /\ FALSE \in BOOLEAN
  BY Defaults
<1> QED BY <1>1, <1>2, <1>3 DEF Lookups

LEMMA RcuKeepsInv ==
    ASSUME Inv, Rcu
    PROVE  Inv'
<1>1. ASSUME NEW e \in Entries, Reclaim(e) PROVE Inv'
  BY <1>1, ReclaimStep, HarmlessKeepsInv
<1> QED BY <1>1, InvalidateStep, CleanupStep DEF Rcu

LEMMA StutterKeepsInv ==
    ASSUME Inv, UNCHANGED vars
    PROVE  Inv'
<1>1. /\ head' = head /\ entry' = entry /\ retired' = retired /\ valid' = valid
      /\ writer' = writer /\ lookup' = lookup /\ writes' = writes
  BY DEF vars
<1>2. TypeOK'
  BY <1>1 DEF Inv, TypeOK
<1>3. ShapeInv' /\ GraceInv' /\ OneSlotInv' /\ LookupInv' /\ Linked' = Linked
  BY <1>1 DEF Inv, ShapeInv, GraceInv, OneSlotInv, LookupInv, Stands, Tracks, Safe, Inside,
              Holding, Linked, From, Closed
<1>4. ContentsStay
  BY <1>1, <1>3 DEF ContentsStay
<1>5. WriterInv'
  BY <1>1, <1>4, WriterUndisturbed DEF Inv
<1> QED BY <1>2, <1>3, <1>5 DEF Inv

(* The inductive invariant holds of every behaviour: of the bucket of      *)
(* fast-index.c with any number of lookups beside its one writer.          *)
THEOREM FastIndexInvariant == Spec => []Inv
<1>1. Init => Inv
  BY InitInv
<1>2. Inv /\ [Next]_vars => Inv'
  BY WriteKeepsInv, RcuKeepsInv, LookupsKeepInv, StutterKeepsInv DEF Next
<1> QED BY <1>1, <1>2, PTL DEF Spec

(* Every variable keeps its type: no handler of fast-index.c stores a      *)
(* pointer, a slot or a tag word it must not.                              *)
THEOREM FastIndexTypes == Spec => []TypeOK
<1>1. Inv => TypeOK
  BY DEF Inv
<1> QED BY <1>1, FastIndexInvariant, PTL

(* No lookup stands on freed memory: findex_*_entry_rcu_callback frees an  *)
(* entry after the lookups that may hold it or come to it over a stale     *)
(* next pointer, and cleanup_findex_2_4_entries runs with nobody inside.   *)
THEOREM LookupsWalkLiveEntries == Spec => []WalksAreSafe
<1>1. Inv => WalksAreSafe
  BY DEF Inv, LookupInv, Stands, WalksAreSafe, Safe
<1> QED BY <1>1, FastIndexInvariant, PTL

(* A lookup (fast_index_*_item_safe, update_index_2_4_item_safe) whose key *)
(* stays in the index all the way comes back with it, whatever the writer  *)
(* inserts, deletes, unlinks and frees meanwhile.                          *)
THEOREM LookupsFindWhatStays == Spec => []PresentKeysAreFound
<1>1. Inv => PresentKeysAreFound
  <2> SUFFICES ASSUME Inv, NEW r \in Readers, AtEnd(r), lookup[r].steady, ~lookup[r].found
               PROVE  FALSE
    BY DEF PresentKeysAreFound
  <2>1. PICK o : o = lookup[r]
    OBVIOUS
  <2>2. o.pc = "walk" /\ o.at = NoEntry /\ o.steady /\ ~o.found
    BY <2>1 DEF AtEnd
  <2>3. OnCourse(r, o)
    BY <2>1, <2>2, IsOnCourse
  <2>4. PICK es \in Holding(o.key) : es[1] \in From(NoEntry)
    BY <2>2, <2>3 DEF OnCourse
  <2> QED BY <2>4, FromNothing
<1> QED BY <1>1, FastIndexInvariant, PTL

-----------------------------------------------------------------------------
(* The table                                                               *)

Abstract == [k \in Keys |-> Bound(k)]

LEMMA TableStays ==
    ASSUME \A k \in Keys : Bound(k)' = Bound(k)
    PROVE  Abstract' = Abstract
  BY DEF Abstract

(* The step of the table that binds k to B, and nothing else.              *)
Rebinds(k, B) == /\ Bound(k)' = B
                 /\ \A q \in Keys \ {k} : Bound(q)' = Bound(q)

LEMMA RebindingIsExcept ==
    ASSUME NEW k \in Keys, NEW B, Rebinds(k, B)
    PROVE  Abstract' = [Abstract EXCEPT ![k] = B]
<1>1. \A q \in Keys : Bound(q)' = IF q = k THEN B ELSE Bound(q)
  BY DEF Rebinds
<1>2. Abstract' = [q \in Keys |-> IF q = k THEN B ELSE Bound(q)]
  BY <1>1 DEF Abstract
<1> QED BY <1>2 DEF Abstract

TableStep == Table!TableNext \/ Abstract' = Abstract

LEMMA SettingIsAStep ==
    ASSUME NEW k \in Keys, NEW v \in Values, Rebinds(k, {v})
    PROVE  TableStep
<1>1. Abstract' = [Abstract EXCEPT ![k] = {v}]
  BY RebindingIsExcept
<1> QED BY <1>1 DEF TableStep, Abstract, Table!TableNext, Table!Set

LEMMA DeletingIsAStep ==
    ASSUME NEW k \in Keys, Rebinds(k, {})
    PROVE  TableStep
<1>1. Abstract' = [Abstract EXCEPT ![k] = {}]
  BY RebindingIsExcept
<1> QED BY <1>1 DEF TableStep, Abstract, Table!TableNext, Table!Delete

(* A key whose slots and their values stay keeps its binding.              *)
LEMMA BindingStays ==
    ASSUME NEW k, Holding(k)' = Holding(k),
           \A es \in Holding(k) : entry'[es[1]].val[es[2]] = entry[es[1]].val[es[2]]
    PROVE  Bound(k)' = Bound(k)
<1>1. PICK H : H = Holding(k)
  OBVIOUS
<1>2. Bound(k) = {entry[es[1]].val[es[2]] : es \in H}
  BY <1>1 DEF Bound
<1>3. Bound(k)' = {entry'[es[1]].val[es[2]] : es \in H}
  BY <1>1 DEF Bound
<1>4. \A es \in H : entry'[es[1]].val[es[2]] = entry[es[1]].val[es[2]]
  BY <1>1
<1> QED BY <1>2, <1>3, <1>4

(* One slot, one value.                                                    *)
LEMMA BindingOfOneSlot ==
    ASSUME NEW k, NEW es, Holding(k)' = {es}
    PROVE  Bound(k)' = {entry'[es[1]].val[es[2]]}
  BY DEF Bound

LEMMA QuietStepsAreUnseen ==
    ASSUME TypeOK, \A q : Holding(q)' = Holding(q), ValuesStay
    PROVE  TableStep
<1>1. ASSUME NEW k \in Keys PROVE Bound(k)' = Bound(k)
  <2>1. \A es \in Holding(k) : es[1] \in Entries
    BY HoldsPairs, LinkedIsLeast
  <2> QED BY <2>1, BindingStays DEF ValuesStay
<1> QED BY <1>1, TableStays DEF TableStep

LEMMA ValueStoresAreSteps ==
    ASSUME Inv, \A q : Holding(q)' = Holding(q), NEW a \in Entries, NEW s \in Slots,
           NEW v \in Values, ValueStored(a, s, v)
    PROVE  TableStep
<1>0. TypeOK /\ OneSlotInv /\ Linked \subseteq Entries
  BY LinkedIsLeast DEF Inv
<1>1. ASSUME NEW q \in Keys, <<a, s>> \notin Holding(q) PROVE Bound(q)' = Bound(q)
  <2>1. ASSUME NEW es \in Holding(q) PROVE entry'[es[1]].val[es[2]] = entry[es[1]].val[es[2]]
    <3>1. es = <<es[1], es[2]>> /\ es[1] \in Entries /\ es[2] \in Slots
      BY <1>0, HoldsPairs
    <3>2. ~(es[1] = a /\ es[2] = s)
      BY <1>1, <3>1
    <3> QED BY <3>1, <3>2 DEF ValueStored
  <2> QED BY <2>1, BindingStays
<1>2. CASE \A q \in Keys : <<a, s>> \notin Holding(q)
  BY <1>1, <1>2, TableStays DEF TableStep
<1>3. ASSUME NEW k \in Keys, <<a, s>> \in Holding(k) PROVE TableStep
  <2>1. Holding(k)' = {<<a, s>>}
    BY <1>0, <1>3 DEF OneSlotInv
  <2>2. PICK es : es = <<a, s>>
    OBVIOUS
  <2>3. Bound(k)' = {entry'[es[1]].val[es[2]]} /\ es[1] = a /\ es[2] = s
    BY <2>1, <2>2, BindingOfOneSlot
  <2>4. Bound(k)' = {v}
    BY <2>3 DEF ValueStored
  <2>5. ASSUME NEW q \in Keys \ {k} PROVE Bound(q)' = Bound(q)
    <3>1. <<a, s>> \notin Holding(q)
      BY <1>3, HoldingIs, KeysDiffer
    <3> QED BY <1>1, <3>1
  <2>6. Rebinds(k, {v})
    BY <2>4, <2>5 DEF Rebinds
  <2> QED BY <2>6, SettingIsAStep
<1> QED BY <1>2, <1>3

LEMMA GivingIsAStep ==
    ASSUME TypeOK, entry' \in [Entries -> EntryType], NEW k \in Keys,
           NEW es \in Entries \X Slots, Gives(k, es),
           \A x \in Linked : entry'[x].val = entry[x].val
    PROVE  TableStep
<1>1. Bound(k)' = {entry'[es[1]].val[es[2]]}
  BY BindingOfOneSlot DEF Gives
<1>2. PICK v \in Values : v = entry'[es[1]].val[es[2]]
  BY DEF EntryType
<1>3. ASSUME NEW q \in Keys \ {k} PROVE Bound(q)' = Bound(q)
  <2>1. Holding(q)' = Holding(q) /\ \A f \in Holding(q) : f[1] \in Linked
    BY HoldsPairs DEF Gives
  <2> QED BY <2>1, BindingStays
<1>4. Rebinds(k, {v})
  BY <1>1, <1>2, <1>3 DEF Rebinds
<1> QED BY <1>4, SettingIsAStep

LEMMA TakingIsAStep ==
    ASSUME TypeOK, NEW k \in Keys, Takes(k), ValuesStay
    PROVE  TableStep
<1>1. Bound(k)' = {}
  BY DEF Takes, Bound
<1>2. ASSUME NEW q \in Keys \ {k} PROVE Bound(q)' = Bound(q)
  <2>1. Holding(q)' = Holding(q) /\ \A f \in Holding(q) : f[1] \in Entries
    BY HoldsPairs, LinkedIsLeast DEF Takes
  <2> QED BY <2>1, BindingStays DEF ValuesStay
<1>3. Rebinds(k, {})
  BY <1>1, <1>2 DEF Rebinds
<1> QED BY <1>3, DeletingIsAStep

LEMMA WritesAreSteps ==
    ASSUME Inv, Inv', Write
    PROVE  TableStep
<1>0. TypeOK /\ entry' \in [Entries -> EntryType] /\ Linked \subseteq Entries /\ 0 \in Slots
  BY LinkedIsLeast, Defaults DEF Inv, TypeOK
<1>1. ASSUME NEW k \in Keys, NEW v \in Values, Overwrite(k, v) PROVE TableStep
  BY <1>1, OverwriteStep, ValueStoresAreSteps
<1>2. ASSUME NEW k \in Keys, NEW v \in Values, BeginInsert(k, v) PROVE TableStep
  <2>1. ValuesStay
    BY <1>2 DEF BeginInsert, ValuesStay
  <2> QED BY <1>0, <1>2, <2>1, BeginInsertStep, QuietStepsAreUnseen
<1>3. ASSUME NEW k \in Keys, NEW v \in Values, Append(k, v) PROVE TableStep
  <2>1. PICK e \in Entries : Gives(k, <<e, 0>>) /\ \A x \in Linked : entry'[x].val = entry[x].val
    BY <1>3, AppendStep
  <2>2. <<e, 0>> \in Entries \X Slots
    BY <1>0
  <2> QED BY <1>0, <2>1, <2>2, GivingIsAStep
<1>4. ASSUME NEW k \in Keys, BeginDelete(k) PROVE TableStep
  BY <1>0, <1>4, BeginDeleteStep, TakingIsAStep
<1>5. ASSUME StoreTag PROVE TableStep
  BY <1>0, <1>5, StoreTagStep, QuietStepsAreUnseen
<1>6. ASSUME StoreValue PROVE TableStep
  BY <1>6, StoreValueStep, ValueStoresAreSteps
<1>7. ASSUME Publish PROVE TableStep
  <2>1. PICK k \in Keys, es \in Entries \X Slots : Gives(k, es)
    BY <1>7, PublishStep
  <2>2. \A x \in Linked : entry'[x].val = entry[x].val
    BY <1>0, <1>7, PublishStep DEF ValuesStay
  <2> QED BY <1>0, <2>1, <2>2, GivingIsAStep
<1>8. ASSUME ZeroTag PROVE TableStep
  BY <1>0, <1>8, ZeroTagStep, QuietStepsAreUnseen
<1>9. ASSUME Unlink PROVE TableStep
  BY <1>0, <1>9, UnlinkStep, QuietStepsAreUnseen
<1> QED BY <1>1, <1>2, <1>3, <1>4, <1>5, <1>6, <1>7, <1>8, <1>9 DEF Write

LEMMA UnchangedEntriesAreUnseen ==
    ASSUME TypeOK, entry' = entry, \A q : Holding(q)' = Holding(q)
    PROVE  TableStep
<1>1. ValuesStay
  BY DEF ValuesStay
<1> QED BY <1>1, QuietStepsAreUnseen

LEMMA RcuIsAStep ==
    ASSUME Inv, Rcu
    PROVE  TableStep
<1>0. TypeOK
  BY DEF Inv
<1>1. ASSUME NEW e \in Entries, Reclaim(e) PROVE TableStep
  <2>1. /\ \A q : Holding(q)' = Holding(q)
        /\ \A x \in Linked : entry'[x] = entry[x]
    BY <1>1, ReclaimStep
  <2>2. ASSUME NEW k \in Keys PROVE Bound(k)' = Bound(k)
    <3>1. \A es \in Holding(k) : es[1] \in Linked
      BY HoldsPairs
    <3> QED BY <2>1, <3>1, BindingStays
  <2> QED BY <2>2, TableStays DEF TableStep
<1>2. ASSUME Invalidate PROVE TableStep
  <2>1. entry' = entry /\ head' = head
    BY <1>2 DEF Invalidate
  <2>2. \A q : Holding(q)' = Holding(q)
    BY <2>1 DEF Holding, Linked, From, Closed
  <2> QED BY <1>0, <2>1, <2>2, UnchangedEntriesAreUnseen
<1>3. ASSUME Cleanup PROVE TableStep
  <2>1. \A q : Holding(q)' = {}
    BY <1>3, CleanupStep
  <2>2. \A q \in Keys : Bound(q)' = {}
    BY <2>1 DEF Bound
  <2>3. Abstract' = [k \in Keys |-> {}]
    BY <2>2 DEF Abstract
  <2> QED BY <2>3 DEF TableStep, Abstract, Table!TableNext, Table!Clear
<1> QED BY <1>1, <1>2, <1>3 DEF Rcu

LEMMA LookupsAreSteps ==
    ASSUME Inv, Lookups
    PROVE  TableStep
<1>0. TypeOK
  BY DEF Inv
<1>1. ASSUME NEW r \in Readers, Refresh(r) PROVE TableStep
  <2>1. \A q : Holding(q)' = Holding(q)
    BY <1>1, RefreshStep
  <2>2. PICK o : o = lookup[r]
    OBVIOUS
  <2>3. PICK s \in o.cand : entry' = [entry EXCEPT ![o.at].val[s] = o.val]
    BY <1>1, <2>2 DEF Refresh
  <2>4. o.pc = "hit"
    BY <1>1, <2>2 DEF Refresh
  <2>5. o \in LookupType /\ OnCourse(r, o)
    BY <2>2, <2>4, IsOnCourse
  <2>6. o.at \in Entries /\ s \in Slots /\ o.val \in Values
    BY <2>4, <2>5 DEF OnCourse, LookupType
  <2>7. ValueStored(o.at, s, o.val)
    BY <1>0, <2>3, <2>6, StoringAValue DEF TypeOK
  <2> QED BY <2>1, <2>6, <2>7, ValueStoresAreSteps
<1>2. ASSUME Unseen PROVE TableStep
  BY <1>0, <1>2, UnchangedEntriesAreUnseen DEF Unseen
<1> QED BY <1>1, <1>2, LookupsKeepInv

(* The bucket is a table: seen through its available slots, every store of *)
(* the writer (add_index_*_item_unsafe, delete_index_*_item_unsafe), of a  *)
(* refreshing lookup and of the RCU callbacks changes the binding of one   *)
(* key to one value or to none, empties the table, or is not seen.         *)
THEOREM FastIndexImplementsTable == Spec => ImplementsTable
<1>1. Init => Table!TableInit
  <2> SUFFICES ASSUME Init PROVE \A k \in Keys : Bound(k) = {}
    BY DEF Table!TableInit
  <2>1. Linked = {}
    BY FromNothing DEF Linked, Init
  <2> QED BY <2>1 DEF Bound, Holding
<1>2. Inv /\ Inv' /\ [Next]_vars => [Table!TableNext]_Abstract
  <2> SUFFICES ASSUME Inv, Inv', [Next]_vars PROVE TableStep
    BY DEF TableStep
  <2>1. CASE UNCHANGED vars
    <3>1. head' = head /\ entry' = entry
      BY <2>1 DEF vars
    <3>2. \A q : Holding(q)' = Holding(q)
      BY <3>1 DEF Holding, Linked, From, Closed
    <3>3. TypeOK
      BY DEF Inv
    <3> QED BY <3>1, <3>2, <3>3, UnchangedEntriesAreUnseen
  <2> QED BY <2>1, WritesAreSteps, RcuIsAStep, LookupsAreSteps DEF Next
<1>3. [Table!TableNext]_Abstract <=> [Table!TableNext]_([k \in Keys |-> Bound(k)])
  BY DEF Abstract
<1> QED BY <1>1, <1>2, <1>3, FastIndexInvariant, PTL DEF Spec, ImplementsTable, Table!TableSpec
=============================================================================

----------------------------- MODULE FastIndex -----------------------------
(***************************************************************************)
(* One bucket of a fast index (e3infra/fast-index.c, fast-index.h): the    *)
(* table an E-LAN keeps its MAC entries in.  A bucket is a list of entries *)
(* of a fixed number of slots.  One writer at a time sets and deletes keys *)
(* (the API, or the MAC learning node, both on the master lcore); I/O      *)
(* lcores look keys up, or refresh the value of a key they find, without   *)
(* a lock.  An entry whose last slot is cleared is unlinked and is freed   *)
(* by an RCU callback.                                                     *)
(*                                                                         *)
(* The file holds the same program three times: 2_2 compares one tag word  *)
(* per slot, 2_4 two, and 2_1_6 three and one more, tag0, that all the     *)
(* slots of an entry share.  Here a key is its tag0 and NrTags tag words,  *)
(* and keys of 2_2 and 2_4 have one tag0.  The tag words of the slots of   *)
(* an entry are loaded one vector after the other, as the SIMD code does.  *)
(* Stores take effect in program order (x86-TSO, no compiler reordering).  *)
(***************************************************************************)
EXTENDS Naturals

CONSTANTS Keys,      \* keys of the bucket: records with tag0 and a tuple tags
          Values,    \* forwarding entries
          Entries,   \* the memory entries are allocated from
          Readers,   \* I/O lcores
          NrSlots,   \* FINDEX_*_TAGS_LENGTH
          NrTags,    \* tag words a lookup compares slot by slot
          NoEntry,   \* the null pointer
          MaxWrites  \* bound: sets and deletes between two empty buckets

ASSUME FastIndexAssumption ==
    /\ NrSlots \in Nat \ {0} /\ NrTags \in Nat \ {0}
    /\ MaxWrites \in Nat
    /\ NoEntry \notin Entries
    /\ Keys # {} /\ Keys \subseteq [tag0 : Nat, tags : [1..NrTags -> Nat]]
    /\ Values # {}

VARIABLES head,      \* base[key_index].next
          entry,     \* the memory of every entry
          retired,   \* unlinked entry -> lcores its grace period waits for
          valid,     \* the E-LAN that owns the base can be found
          writer,    \* what the writer is about to store
          lookup,    \* the lookup of every I/O lcore
          writes     \* sets and deletes so far

vars == <<head, entry, retired, valid, writer, lookup, writes>>

Slots == 0..(NrSlots - 1)
ZeroTags == [j \in 1..NrTags |-> 0]
SomeValue == CHOOSE v \in Values : TRUE
SomeKey == CHOOSE k \in Keys : TRUE

(* RTE_ZMALLOC: no slot available and every tag zero. *)
Zeroed == [tag0 |-> 0, tags |-> [s \in Slots |-> ZeroTags], avail |-> {},
           val |-> [s \in Slots |-> SomeValue], next |-> NoEntry]

Idle == [pc |-> "idle", key |-> SomeKey, val |-> SomeValue,
         at |-> NoEntry, slot |-> 0, word |-> 1]
NoLookup == [pc |-> "idle", key |-> SomeKey, update |-> FALSE, val |-> SomeValue,
             at |-> NoEntry, word |-> 1, cand |-> {}, found |-> FALSE,
             steady |-> FALSE, held |-> {}]

Init ==
    /\ head = NoEntry
    /\ entry = [e \in Entries |-> Zeroed]
    /\ retired = <<>>
    /\ valid = TRUE
    /\ writer = Idle
    /\ lookup = [r \in Readers |-> NoLookup]
    /\ writes = 0

(* What a walk that starts at p comes to: the least set that p and the next *)
(* pointers of its entries lead into.                                       *)
Closed(S) == \A e \in S : entry[e].next \in S \cup {NoEntry}
From(p) == {e \in Entries : \A S \in SUBSET Entries :
                                p \in S \cup {NoEntry} /\ Closed(S) => e \in S}
Linked == From(head)

(* The slots that hold a key, and the values it is bound to. *)
Holding(k) == {es \in Linked \X Slots :
                  /\ entry[es[1]].tag0 = k.tag0
                  /\ es[2] \in entry[es[1]].avail
                  /\ entry[es[1]].tags[es[2]] = k.tags}
Bound(k) == {entry[es[1]].val[es[2]] : es \in Holding(k)}

(* The linked entries with the key's tag0 and a free slot, the first of them. *)
WithRoom(k) == {e \in Linked : entry[e].tag0 = k.tag0 /\ entry[e].avail # Slots}
FirstRoom(k) == {e \in WithRoom(k) : WithRoom(k) \subseteq From(e)}

Least(S) == {s \in S : \A t \in S : s <= t}

(* Ghost: what a step does to the key that a lookup is about. *)
BoundNext == [k \in Keys |-> Bound(k)']
Watched(l) == IF l.pc = "idle" THEN l
              ELSE [l EXCEPT !.steady = @ /\ BoundNext[l.key] # {},
                             !.held = @ \cup BoundNext[l.key]]
Watch == lookup' = [r \in Readers |-> Watched(lookup[r])]

-----------------------------------------------------------------------------
(* The writer: add_index_*_item_unsafe, delete_index_*_item_unsafe *)

WriterStarts == /\ writer.pc = "idle" /\ valid /\ writes < MaxWrites
                /\ writes' = writes + 1
                /\ UNCHANGED valid

(* The key is in the index: its value is overwritten. *)
Overwrite(k, v) ==
    /\ WriterStarts
    /\ \E es \in Holding(k) : entry' = [entry EXCEPT ![es[1]].val[es[2]] = v]
    /\ UNCHANGED <<head, retired, writer>>
    /\ Watch

\* Mutant: a key that is in the index is inserted again.
InsertAgain(k, v) ==
    /\ WriterStarts
    /\ \E e \in FirstRoom(k) : \E s \in Least(Slots \ entry[e].avail) :
          writer' = [pc |-> "tags", key |-> k, val |-> v, at |-> e, slot |-> s, word |-> 1]
    /\ UNCHANGED <<head, entry, retired, lookup>>

(* The key goes into the first free slot ... *)
BeginInsert(k, v) ==
    /\ WriterStarts
    /\ Holding(k) = {}
    /\ \E e \in FirstRoom(k) : \E s \in Least(Slots \ entry[e].avail) :
          writer' = [pc |-> "tags", key |-> k, val |-> v, at |-> e, slot |-> s, word |-> 1]
    /\ UNCHANGED <<head, entry, retired, lookup>>

(* ... tag word by tag word, ... *)
StoreTag ==
    /\ writer.pc = "tags"
    /\ entry' = [entry EXCEPT ![writer.at].tags[writer.slot][writer.word]
                                  = writer.key.tags[writer.word]]
    /\ writer' = [writer EXCEPT !.word = @ + 1,
                                !.pc = IF writer.word = NrTags THEN "value" ELSE "tags"]
    /\ UNCHANGED <<head, retired, valid, writes>>
    /\ Watch

(* ... then its value, and the slot becomes available last. *)
StoreValue ==
    /\ writer.pc = "value"
    /\ entry' = [entry EXCEPT ![writer.at].val[writer.slot] = writer.val]
    /\ writer' = [writer EXCEPT !.pc = "publish"]
    /\ UNCHANGED <<head, retired, valid, writes>>
    /\ Watch

Publish ==
    /\ writer.pc = "publish"
    /\ entry' = [entry EXCEPT ![writer.at].avail = @ \cup {writer.slot}]
    /\ writer' = Idle
    /\ UNCHANGED <<head, retired, valid, writes>>
    /\ Watch

(* No entry has room: a new one, filled before it is linked at the tail. *)
Append(k, v) ==
    /\ WriterStarts
    /\ Holding(k) = {} /\ WithRoom(k) = {}
    /\ \E e \in Entries \ (Linked \cup DOMAIN retired) :
          LET filled == [Zeroed EXCEPT !.tag0 = k.tag0, !.tags[0] = k.tags,
                                       !.val[0] = v, !.avail = {0}]
          IN IF head = NoEntry
             THEN /\ head' = e
                  /\ entry' = [entry EXCEPT ![e] = filled]
             ELSE \E last \in Linked :
                     /\ entry[last].next = NoEntry
                     /\ entry' = [entry EXCEPT ![e] = filled, ![last].next = e]
                     /\ UNCHANGED head
    /\ UNCHANGED <<retired, writer>>
    /\ Watch

(* The slot of a deleted key is first made unavailable ... *)
BeginDelete(k) ==
    /\ WriterStarts
    /\ \E es \in Holding(k) :
          /\ entry' = [entry EXCEPT ![es[1]].avail = @ \ {es[2]}]
          /\ writer' = [pc |-> "zero", key |-> k, val |-> SomeValue,
                        at |-> es[1], slot |-> es[2], word |-> 1]
    /\ UNCHANGED <<head, retired>>
    /\ Watch

(* ... then its tags are zeroed. *)
ZeroTag ==
    /\ writer.pc = "zero"
    /\ entry' = [entry EXCEPT ![writer.at].tags[writer.slot][writer.word] = 0]
    /\ writer' = IF writer.word < NrTags THEN [writer EXCEPT !.word = @ + 1]
                 ELSE IF entry[writer.at].avail = {} THEN [writer EXCEPT !.pc = "unlink"]
                 ELSE Idle
    /\ UNCHANGED <<head, retired, valid, writes>>
    /\ Watch

Inside == {r \in Readers : lookup[r].pc # "idle"}

\* Mutant: the unlinked entry is reset at once.
UnlinkAndReset ==
    /\ writer.pc = "unlink"
    /\ IF head = writer.at
       THEN /\ head' = entry[head].next
            /\ entry' = [entry EXCEPT ![writer.at].next = NoEntry]
       ELSE \E p \in Linked :
               /\ entry[p].next = writer.at
               /\ entry' = [entry EXCEPT ![p].next = entry[writer.at].next,
                                         ![writer.at].next = NoEntry]
               /\ UNCHANGED head
    /\ retired' = [e \in DOMAIN retired \cup {writer.at} |->
                      IF e = writer.at THEN Inside ELSE retired[e]]
    /\ writer' = Idle
    /\ UNCHANGED <<valid, writes>>
    /\ Watch

(* An entry without keys leaves the list but keeps its own next pointer, and *)
(* call_rcu waits for the lookups under way.                                 *)
Unlink ==
    /\ writer.pc = "unlink"
    /\ IF head = writer.at
       THEN head' = entry[head].next /\ UNCHANGED entry
       ELSE \E p \in Linked :
               /\ entry[p].next = writer.at
               /\ entry' = [entry EXCEPT ![p].next = entry[writer.at].next]
               /\ UNCHANGED head
    /\ retired' = [e \in DOMAIN retired \cup {writer.at} |->
                      IF e = writer.at THEN Inside ELSE retired[e]]
    /\ writer' = Idle
    /\ UNCHANGED <<valid, writes>>
    /\ Watch

\* Mutant: the entry is freed by the writer, without a grace period.
ReclaimAtOnce(e) ==
    /\ e \in DOMAIN retired
    /\ retired' = [f \in DOMAIN retired \ {e} |-> retired[f]]
    /\ entry' = [entry EXCEPT ![e] = Zeroed]
    /\ UNCHANGED <<head, valid, writer, lookup, writes>>

(* findex_*_entry_rcu_callback: the memory can be allocated again. *)
Reclaim(e) ==
    /\ e \in DOMAIN retired /\ retired[e] = {}
    /\ retired' = [f \in DOMAIN retired \ {e} |-> retired[f]]
    /\ entry' = [entry EXCEPT ![e] = Zeroed]
    /\ UNCHANGED <<head, valid, writer, lookup, writes>>

(* The E-LAN is deleted: from here nobody finds its base. *)
Invalidate ==
    /\ valid /\ writer.pc = "idle"
    /\ valid' = FALSE
    /\ UNCHANGED <<head, entry, retired, writer, lookup, writes>>

(* cleanup_findex_2_4_entries, in the RCU callback of the E-LAN: what is    *)
(* linked is freed at once.  The next E-LAN allocates a zeroed base.        *)
Cleanup ==
    /\ ~valid /\ Inside = {}
    /\ entry' = [e \in Entries |-> IF e \in Linked THEN Zeroed ELSE entry[e]]
    /\ head' = NoEntry
    /\ valid' = TRUE
    /\ writes' = 0
    /\ UNCHANGED <<retired, writer, lookup>>

-----------------------------------------------------------------------------
(* The lookup of an I/O lcore: fast_index_*_item_safe, update_index_2_4_item_safe *)

Look(r, l) == /\ lookup' = [lookup EXCEPT ![r] = l]
              /\ UNCHANGED <<head, retired, valid, writer, writes>>

AtEnd(r) == lookup[r].pc = "walk" /\ lookup[r].at = NoEntry

(* A burst finds the E-LAN when it begins.  With the next packet it may use *)
(* the pointer it has cached, whether the E-LAN can still be found or not.  *)
BeginLookup(r, k, update, v) ==
    /\ (lookup[r].pc = "idle" /\ valid) \/ AtEnd(r)
    /\ Look(r, [pc |-> "walk", key |-> k, update |-> update, val |-> v,
                at |-> head, word |-> 1, cand |-> {}, found |-> FALSE,
                steady |-> Bound(k) # {}, held |-> Bound(k)])
    /\ UNCHANGED entry

(* Entries of another tag0, and what follows a hit, are walked over (2_2 ends *)
(* its walk with the hit).                                                    *)
Passes(l) == l.found \/ entry[l.at].tag0 # l.key.tag0

Advance(l) == [l EXCEPT !.at = entry[l.at].next, !.pc = "walk"]

WalkOver(r) ==
    /\ lookup[r].pc = "walk" /\ lookup[r].at # NoEntry
    /\ Passes(lookup[r])
    /\ Look(r, Advance(lookup[r]))
    /\ UNCHANGED entry

(* The vectors are compared one tag word after the other. *)
Matching(l) == {s \in Slots : entry[l.at].tags[s][l.word] = l.key.tags[l.word]}

Compare(r) ==
    LET l == lookup[r]
        cand == IF l.pc = "walk" THEN Matching([l EXCEPT !.word = 1])
                ELSE l.cand \cap Matching(l)
        word == IF l.pc = "walk" THEN 1 ELSE l.word
    IN /\ l.pc = "compare" \/ (l.pc = "walk" /\ l.at # NoEntry /\ ~Passes(l))
       /\ Look(r, IF word < NrTags
                  THEN [l EXCEPT !.pc = "compare", !.cand = cand, !.word = word + 1]
                  ELSE IF cand # {} THEN [l EXCEPT !.pc = "probe", !.cand = cand]
                  ELSE Advance(l))
       /\ UNCHANGED entry

(* Equal tags are not enough: the slot must be available. *)
Probe(r) ==
    LET l == lookup[r]
    IN /\ l.pc = "probe"
       /\ \E s \in Least(l.cand) :
             Look(r, IF s \in entry[l.at].avail THEN [l EXCEPT !.pc = "hit", !.cand = {s}]
                     ELSE IF l.cand # {s} THEN [l EXCEPT !.cand = @ \ {s}]
                     ELSE Advance(l))
       /\ UNCHANGED entry

(* The value is read, or overwritten by the one the caller brings. *)
TakeValue(r) ==
    LET l == lookup[r]
    IN /\ l.pc = "hit" /\ ~l.update
       /\ \E s \in l.cand :
             Look(r, Advance([l EXCEPT !.found = TRUE, !.val = entry[l.at].val[s]]))
       /\ UNCHANGED entry

Refresh(r) ==
    LET l == lookup[r]
    IN /\ l.pc = "hit" /\ l.update
       /\ \E s \in l.cand : entry' = [entry EXCEPT ![l.at].val[s] = l.val]
       /\ lookup' = [q \in Readers |->
             IF q = r THEN Advance([l EXCEPT !.found = TRUE]) ELSE Watched(lookup[q])]
       /\ UNCHANGED <<head, retired, valid, writer, writes>>

(* The lcore is done with the burst and passes a quiescent state. *)
EndLookup(r) ==
    /\ AtEnd(r)
    /\ lookup' = [lookup EXCEPT ![r] = NoLookup]
    /\ retired' = [e \in DOMAIN retired |-> retired[e] \ {r}]
    /\ UNCHANGED <<head, entry, valid, writer, writes>>

-----------------------------------------------------------------------------
Write ==
    \/ \E k \in Keys, v \in Values : Overwrite(k, v) \/ BeginInsert(k, v) \/ Append(k, v)
    \/ \E k \in Keys : BeginDelete(k)
    \/ StoreTag \/ StoreValue \/ Publish \/ ZeroTag \/ Unlink

Rcu == (\E e \in Entries : Reclaim(e)) \/ Invalidate \/ Cleanup

Read(r) == WalkOver(r) \/ Compare(r) \/ Probe(r) \/ TakeValue(r) \/ Refresh(r) \/ EndLookup(r)

Lookups == \E r \in Readers :
               \/ \E k \in Keys : BeginLookup(r, k, FALSE, SomeValue)
               \/ \E k \in Keys, v \in Values : BeginLookup(r, k, TRUE, v)
               \/ Read(r)

Next == Write \/ Rcu \/ Lookups

Spec == Init /\ [][Next]_vars

-----------------------------------------------------------------------------
(* What the index is for its users: a table that maps every key to at most *)
(* one value, of which a store of the writer or of a lookup changes one    *)
(* binding, and the deletion of the E-LAN all.                             *)
Table == INSTANCE KeyTable WITH table <- [k \in Keys |-> Bound(k)]

EntryType == [tag0 : Nat, tags : [Slots -> [1..NrTags -> Nat]], avail : SUBSET Slots,
              val : [Slots -> Values], next : Entries \cup {NoEntry}]
WriterType == [pc : {"idle", "tags", "value", "publish", "zero", "unlink"},
               key : Keys, val : Values, at : Entries \cup {NoEntry},
               slot : Slots, word : Nat \ {0}]
LookupType == [pc : {"idle", "walk", "compare", "probe", "hit"}, key : Keys,
               update : BOOLEAN, val : Values, at : Entries \cup {NoEntry},
               word : Nat \ {0}, cand : SUBSET Slots, found : BOOLEAN,
               steady : BOOLEAN, held : SUBSET Values]

TypeOK ==
    /\ head \in Entries \cup {NoEntry}
    /\ entry \in [Entries -> EntryType]
    /\ DOMAIN retired \subseteq Entries
    /\ retired \in [DOMAIN retired -> SUBSET Readers]
    /\ valid \in BOOLEAN
    /\ writer \in WriterType
    /\ lookup \in [Readers -> LookupType]
    /\ writes \in 0..MaxWrites

(* However the writer inserts, deletes, unlinks and frees around a lookup, *)
(* a key that stays in the index from the begin of the lookup to its end   *)
(* is found (lookups take no lock).                                        *)
PresentKeysAreFound ==
    \A r \in Readers : AtEnd(r) /\ lookup[r].steady => lookup[r].found

(* A lookup never stands on an entry whose memory was given back, whether  *)
(* by the callback of a deleted entry or with the whole E-LAN.             *)
WalksAreSafe ==
    \A r \in Readers : lookup[r].pc # "idle" =>
        lookup[r].at \in Linked \cup DOMAIN retired \cup {NoEntry}

(* Stores of one slot are seen as one change of one key's binding, never   *)
(* as a half written key or a key bound twice.                             *)
ImplementsTable == Table!TableSpec

(* fast-index.h:106 says of a slot whose tags are equal: "we'd make sure   *)
(* this item is valid".  A hit then answers with a value that the key had  *)
(* at some time during the lookup.                                         *)
HitsAreValidItems ==
    \A r \in Readers : AtEnd(r) /\ lookup[r].found /\ ~lookup[r].update =>
        lookup[r].val \in lookup[r].held
=============================================================================

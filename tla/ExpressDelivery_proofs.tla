----------------------- MODULE ExpressDelivery_proofs -----------------------
(***************************************************************************)
(* For bursts of any length and any decisions: every packet is posted      *)
(* once, in order and by its own decision.                                 *)
(***************************************************************************)
EXTENDS ExpressDelivery, SequenceTheorems, TLAPS

LoopType ==
  [pc: {"idle", "peek", "restart", "last"}, nr_mbufs: Nat, latest_unsent: Nat,
   current: Nat, peek: Nat]

\* Every packet that waits was decided on as the first of them.
WaitingAgree ==
  \A i \in Waiting : decided[i] = LatestIdentifier

\* What the variables of the loop say of the burst at each of its points: all
\* packets before the first that waits are posted, and those that wait reach up
\* to the packet peeked last, or to the one before it if that one made the
\* others be posted.
LoopInv ==
  /\ loop.pc = "peek" =>
       /\ loop.peek <= loop.nr_mbufs
       /\ Len(decided) = loop.peek /\ loop.current = loop.peek
       /\ \/ loop.peek = 0 /\ loop.latest_unsent = 0 /\ Len(posted) = 0
          \/ loop.latest_unsent \in 1 .. loop.peek
             /\ Len(posted) = loop.latest_unsent - 1 /\ WaitingAgree
  /\ loop.pc = "restart" =>
       /\ loop.peek <= loop.nr_mbufs /\ Len(decided) = loop.peek
       /\ loop.current = loop.peek - 1 /\ loop.latest_unsent \in 1 .. loop.current
       /\ Len(posted) = loop.latest_unsent - 1 /\ WaitingAgree
  /\ loop.pc = "last" =>
       /\ loop.peek = loop.nr_mbufs /\ Len(decided) = loop.peek
       /\ loop.current = loop.peek /\ loop.latest_unsent \in 1 .. loop.peek
       /\ Len(posted) = loop.latest_unsent - 1 /\ WaitingAgree
  /\ loop.pc = "idle" =>
       Len(decided) = loop.nr_mbufs /\ Len(posted) = loop.nr_mbufs

DeliveryInv ==
  /\ loop \in LoopType
  /\ decided \in Seq(Decisions) /\ posted \in Seq(Nat \X Decisions)
  /\ LoopInv
  /\ \A i \in 1 .. Len(posted) : posted[i] = <<i, decided[i]>>

LEMMA LoopInit == DeliveryInit => DeliveryInv
BY DEF DeliveryInit, DeliveryInv, LoopInv, LoopType, NoBurst

LEMMA ReceiveKeeps ==
  ASSUME DeliveryInv, NEW n \in 1 .. MaxBurst, Receive(n)
  PROVE  DeliveryInv'
<1>1. n \in Nat /\ decided' = <<>> /\ posted' = <<>>
  BY BurstAssumption DEF Receive
<1>2. loop' = [NoBurst EXCEPT !.pc = "peek", !.nr_mbufs = n] /\ NoBurst \in LoopType
  BY DEF Receive, NoBurst, LoopType
<1>3. /\ loop' \in LoopType /\ loop'.pc = "peek" /\ loop'.nr_mbufs = n
      /\ loop'.latest_unsent = 0 /\ loop'.current = 0 /\ loop'.peek = 0
  BY <1>1, <1>2 DEF LoopType, NoBurst
<1>4. LoopInv'
  BY <1>1, <1>3 DEF LoopInv
<1> QED
  BY <1>1, <1>3, <1>4 DEF DeliveryInv

LEMMA DrainKeeps == DeliveryInv /\ Drain => DeliveryInv'
BY DEF DeliveryInv, LoopInv, LoopType, Drain, NoBurst, WaitingAgree, Waiting,
       LatestIdentifier

\* A decision is appended; the packets that wait keep theirs.
LEMMA ProceedKeeps ==
  ASSUME DeliveryInv, NEW id \in Decisions, Proceed(id)
  PROVE  DeliveryInv'
<1> DEFINE iptr == loop.peek + 1
<1>1. /\ loop.pc = "peek" /\ loop.peek < loop.nr_mbufs /\ loop \in LoopType
      /\ Len(decided) = loop.peek /\ loop.current = loop.peek
      /\ posted' = posted /\ decided' = Append(decided, id)
  BY DEF Proceed, MayPeek, DeliveryInv, LoopInv
<1>0. /\ loop.peek \in Nat /\ loop.nr_mbufs \in Nat /\ loop.latest_unsent \in Nat
      /\ iptr \in Nat /\ iptr <= loop.nr_mbufs /\ iptr = loop.peek + 1
  BY <1>1 DEF LoopType
<1>2. /\ decided' \in Seq(Decisions) /\ Len(decided') = iptr /\ decided'[iptr] = id
      /\ \A i \in 1 .. loop.peek : decided'[i] = decided[i]
  BY <1>1 DEF DeliveryInv, LoopType
<1>3. \A i \in 1 .. Len(posted') : posted'[i] = <<i, decided'[i]>>
  BY <1>1, <1>2 DEF DeliveryInv, LoopInv, LoopType
<1>4. CASE loop.latest_unsent = 0
  <2>1. loop' = [loop EXCEPT !.peek = iptr, !.latest_unsent = iptr, !.current = iptr]
    BY <1>4 DEF Proceed
  <2>2. loop' \in LoopType /\ loop'.pc = "peek" /\ loop'.peek = iptr
        /\ loop'.nr_mbufs = loop.nr_mbufs
        /\ loop'.latest_unsent = iptr /\ loop'.current = iptr
    BY <1>0, <1>1, <2>1 DEF LoopType
  <2>. loop.peek = 0 /\ Len(posted) = 0
    BY <1>0, <1>1, <1>4 DEF DeliveryInv, LoopInv
  <2>3. WaitingAgree'
    BY <1>2, <2>2, <1>1 DEF WaitingAgree, Waiting, LatestIdentifier, LoopType
  <2>4. LoopInv'
    BY <1>0, <1>1, <1>2, <2>2, <2>3 DEF LoopInv
  <2> QED
    BY <1>1, <1>2, <1>3, <2>2, <2>4 DEF DeliveryInv
<1>5. CASE loop.latest_unsent # 0 /\ id = LatestIdentifier
  <2>1. loop' = [loop EXCEPT !.peek = iptr, !.current = iptr]
    BY <1>5 DEF Proceed
  <2>2. /\ loop' \in LoopType /\ loop'.pc = "peek" /\ loop'.peek = iptr
        /\ loop'.nr_mbufs = loop.nr_mbufs
        /\ loop'.latest_unsent = loop.latest_unsent /\ loop'.current = iptr
    BY <1>0, <1>1, <2>1 DEF LoopType
  <2>. /\ loop.latest_unsent \in 1 .. loop.peek
       /\ Len(posted) = loop.latest_unsent - 1 /\ WaitingAgree
    BY <1>0, <1>1, <1>5 DEF DeliveryInv, LoopInv
  <2>3. WaitingAgree'
    BY <1>1, <1>2, <1>5, <2>2 DEF WaitingAgree, Waiting, LatestIdentifier, LoopType
  <2>4. LoopInv'
    BY <1>0, <1>1, <1>2, <2>2, <2>3 DEF LoopInv
  <2> QED
    BY <1>1, <1>2, <1>3, <2>2, <2>4 DEF DeliveryInv
<1>6. CASE loop.latest_unsent # 0 /\ id # LatestIdentifier
  <2>1. loop' = [loop EXCEPT !.peek = iptr, !.pc = "restart"]
    BY <1>6 DEF Proceed
  <2>2. /\ loop' \in LoopType /\ loop'.pc = "restart" /\ loop'.peek = iptr
        /\ loop'.nr_mbufs = loop.nr_mbufs
        /\ loop'.latest_unsent = loop.latest_unsent /\ loop'.current = loop.peek
    BY <1>0, <1>1, <2>1 DEF LoopType
  <2>. /\ loop.latest_unsent \in 1 .. loop.peek
       /\ Len(posted) = loop.latest_unsent - 1 /\ WaitingAgree
    BY <1>0, <1>1, <1>6 DEF DeliveryInv, LoopInv
  <2>3. WaitingAgree'
    BY <1>1, <1>2, <2>2 DEF WaitingAgree, Waiting, LatestIdentifier, LoopType
  <2>4. LoopInv'
    BY <1>0, <1>1, <1>2, <2>2, <2>3 DEF LoopInv
  <2> QED
    BY <1>1, <1>2, <1>3, <2>2, <2>4 DEF DeliveryInv
<1> QED
  BY <1>4, <1>5, <1>6

\* The packets from first on, n of them, all with the decision d.
LEMMA RunOfPackets ==
  ASSUME NEW D, NEW d \in D, NEW first \in Nat \ {0}, NEW n \in Nat
  PROVE  LET run == [k \in 1 .. n |-> <<first + k - 1, d>>]
         IN  /\ run \in Seq(Nat \X D) /\ Len(run) = n
             /\ \A k \in 1 .. n : run[k] = <<first + k - 1, d>>
<1> DEFINE run == [k \in 1 .. n |-> <<first + k - 1, d>>]
<1>1. ASSUME NEW k \in 1 .. n PROVE <<first + k - 1, d>> \in Nat \X D
  <2>1. first + k - 1 \in Nat
    OBVIOUS
  <2> QED
    BY <2>1
<1>2. run \in [1 .. n -> Nat \X D]
  BY <1>1
<1>3. run \in Seq(Nat \X D) /\ Len(run) = n
  BY <1>2, LenProperties
<1> QED
  BY <1>3

\* Appending them to the packets before first.
LEMMA AppendRun ==
  ASSUME NEW S, NEW d, NEW first \in Nat \ {0}, NEW n \in Nat \ {0},
         NEW s \in Seq(S), Len(s) = first - 1,
         NEW r \in Seq(S), Len(r) = n,
         \A k \in 1 .. n : r[k] = <<first + k - 1, d>>,
         NEW t, t = s \o r
  PROVE  /\ t \in Seq(S) /\ Len(t) = first + n - 1
         /\ \A i \in 1 .. Len(s) : t[i] = s[i]
         /\ \A i \in first .. first + n - 1 : t[i] = <<i, d>>
<1>1. /\ t \in Seq(S) /\ Len(t) = Len(s) + Len(r)
      /\ \A i \in 1 .. Len(s) + Len(r) : t[i] = IF i <= Len(s) THEN s[i] ELSE r[i - Len(s)]
  BY ConcatProperties, Zenon
<1>2. \A i \in 1 .. Len(s) : t[i] = s[i]
  BY <1>1
<1>3. ASSUME NEW i \in first .. first + n - 1 PROVE t[i] = <<i, d>>
  <2>1. /\ i - Len(s) \in 1 .. n /\ first + (i - Len(s)) - 1 = i
        /\ i \in 1 .. Len(s) + Len(r) /\ ~(i <= Len(s))
    OBVIOUS
  <2> QED
    BY <1>1, <2>1
<1> QED
  <2>1. Len(t) = first + n - 1
    BY <1>1
  <2>2. t \in Seq(S)
    BY <1>1
  <2> QED
    BY <2>1, <2>2, <1>2, <1>3, Zenon

\* The packets that wait follow those posted before.
LEMMA PostKeeps == DeliveryInv /\ Post => DeliveryInv'
<1> SUFFICES ASSUME DeliveryInv, Post PROVE DeliveryInv'
  OBVIOUS
<1>1. /\ loop \in LoopType /\ decided' = decided
      /\ decided \in Seq(Decisions) /\ posted \in Seq(Nat \X Decisions)
      /\ loop.latest_unsent \in 1 .. loop.current /\ loop.current <= Len(decided)
      /\ Len(posted) = loop.latest_unsent - 1 /\ WaitingAgree
      /\ loop.pc \in {"restart", "last"} /\ Len(decided) = loop.peek
      /\ loop.peek <= loop.nr_mbufs
      /\ loop.pc = "restart" => loop.current = loop.peek - 1
      /\ loop.pc = "last" => loop.current = loop.peek /\ loop.peek = loop.nr_mbufs
  BY DEF Post, Posting, DeliveryInv, LoopInv, LoopType
<1>0. /\ loop.peek \in Nat /\ loop.nr_mbufs \in Nat /\ loop.current \in Nat
      /\ loop.latest_unsent \in Nat \ {0} /\ loop.latest_unsent <= loop.current
  BY <1>1 DEF LoopType
<1>2. LatestIdentifier \in Decisions
  BY <1>0, <1>1 DEF LatestIdentifier
<1>3. posted' = posted \o [k \in 1 .. loop.current - loop.latest_unsent + 1 |->
                             <<loop.latest_unsent + k - 1, LatestIdentifier>>]
  BY DEF Post
<1>4. /\ posted' \in Seq(Nat \X Decisions) /\ Len(posted') = loop.current
      /\ \A i \in 1 .. Len(posted) : posted'[i] = posted[i]
      /\ \A i \in loop.latest_unsent .. loop.current :
           posted'[i] = <<i, LatestIdentifier>>
  <2> DEFINE first == loop.latest_unsent
             n == loop.current - first + 1
             run == [k \in 1 .. n |-> <<first + k - 1, LatestIdentifier>>]
  <2>1. n \in Nat \ {0} /\ first \in Nat \ {0} /\ first + n - 1 = loop.current
    BY <1>0
  <2>2. posted' = posted \o run
    BY <1>3
  <2>3. /\ run \in Seq(Nat \X Decisions) /\ Len(run) = n
        /\ \A k \in 1 .. n : run[k] = <<first + k - 1, LatestIdentifier>>
    <3> HIDE DEF n, first
    <3> QED
      BY <1>2, <2>1, RunOfPackets
  <2>4. Len(posted) = first - 1 /\ posted \in Seq(Nat \X Decisions)
    BY <1>1
  <2>5. /\ posted' \in Seq(Nat \X Decisions) /\ Len(posted') = first + n - 1
        /\ \A i \in 1 .. Len(posted) : posted'[i] = posted[i]
        /\ \A i \in first .. first + n - 1 : posted'[i] = <<i, LatestIdentifier>>
    <3> DEFINE S == Nat \X Decisions
               after == posted'
    <3>1. /\ posted \in Seq(S) /\ run \in Seq(S) /\ after = posted \o run
          /\ Len(posted) = first - 1 /\ Len(run) = n
          /\ \A k \in 1 .. n : run[k] = <<first + k - 1, LatestIdentifier>>
      BY <2>2, <2>3, <2>4
    <3> HIDE DEF n, first, run, S, after
    <3>2. /\ after \in Seq(S) /\ Len(after) = first + n - 1
          /\ \A i \in 1 .. Len(posted) : after[i] = posted[i]
          /\ \A i \in first .. first + n - 1 : after[i] = <<i, LatestIdentifier>>
      BY <2>1, <3>1, AppendRun
    <3> QED
      BY <3>2 DEF S, after
  <2> QED
    BY <2>1, <2>5
<1>5. ASSUME NEW i \in 1 .. Len(posted') PROVE posted'[i] = <<i, decided'[i]>>
  <2>1. CASE i \in 1 .. Len(posted)
    BY <1>1, <1>4, <2>1 DEF DeliveryInv
  <2>2. CASE i \in loop.latest_unsent .. loop.current
    BY <1>1, <1>4, <2>2 DEF WaitingAgree, Waiting
  <2>3. Len(posted) = loop.latest_unsent - 1 /\ Len(posted') = loop.current
    BY <1>1, <1>4
  <2>4. i \in 1 .. Len(posted) \/ i \in loop.latest_unsent .. loop.current
    BY <1>0, <2>3
  <2> QED
    BY <2>1, <2>2, <2>4
<1>6. CASE loop.pc = "last"
  <2>1. loop' = [NoBurst EXCEPT !.nr_mbufs = loop.nr_mbufs]
    BY <1>6 DEF Post
  <2>2. loop' \in LoopType /\ loop'.pc = "idle" /\ loop'.nr_mbufs = loop.nr_mbufs
    BY <1>1, <2>1 DEF LoopType, NoBurst
  <2>3. LoopInv'
    BY <1>0, <1>1, <1>4, <1>6, <2>2 DEF LoopInv
  <2> QED
    BY <1>1, <1>4, <1>5, <2>2, <2>3 DEF DeliveryInv
<1>7. CASE loop.pc = "restart"
  <2>1. loop' = [loop EXCEPT !.pc = "peek", !.latest_unsent = loop.peek,
                             !.current = loop.peek]
    BY <1>7 DEF Post
  <2>2. /\ loop' \in LoopType /\ loop'.pc = "peek" /\ loop'.peek = loop.peek
        /\ loop'.nr_mbufs = loop.nr_mbufs
        /\ loop'.latest_unsent = loop.peek /\ loop'.current = loop.peek
    BY <1>1, <2>1 DEF LoopType
  <2>3. WaitingAgree'
    BY <1>1, <2>2 DEF WaitingAgree, Waiting, LatestIdentifier, LoopType
  <2>4. LoopInv'
    BY <1>0, <1>1, <1>4, <1>7, <2>2, <2>3 DEF LoopInv
  <2> QED
    BY <1>1, <1>4, <1>5, <2>2, <2>4 DEF DeliveryInv
<1> QED
  BY <1>1, <1>6, <1>7

LEMMA DeliveryStep == DeliveryInv /\ [DeliveryNext]_deliveryVars => DeliveryInv'
<1> SUFFICES ASSUME DeliveryInv, [DeliveryNext]_deliveryVars PROVE DeliveryInv'
  OBVIOUS
<1>1. CASE \E n \in 1 .. MaxBurst : Receive(n)
  BY <1>1, ReceiveKeeps
<1>2. CASE \E id \in Decisions : Proceed(id)
  BY <1>2, ProceedKeeps
<1>3. CASE Drain
  BY <1>3, DrainKeeps
<1>4. CASE Post
  BY <1>4, PostKeeps
<1>5. CASE UNCHANGED deliveryVars
  BY <1>5 DEF deliveryVars, DeliveryInv, LoopInv, WaitingAgree, Waiting, LatestIdentifier
<1> QED
  BY <1>1, <1>2, <1>3, <1>4, <1>5 DEF DeliveryNext

\* What waits is what has not been posted.
LEMMA WaitingBounds ==
  ASSUME DeliveryInv, Posting
  PROVE  /\ loop.latest_unsent \in Nat /\ loop.current \in Nat /\ loop.nr_mbufs \in Nat
         /\ Len(posted) \in Nat /\ Len(posted) = loop.latest_unsent - 1
         /\ loop.latest_unsent > 0 /\ loop.latest_unsent <= loop.current
         /\ loop.current <= loop.nr_mbufs
         /\ \A i \in Nat : i \in Waiting <=> i > Len(posted) /\ i <= loop.current
BY DEF DeliveryInv, LoopInv, LoopType, Posting, Waiting

\* A run of packets has been posted.
LEMMA PostedSoFar ==
  ASSUME DeliveryInv, Post
  PROVE  Len(posted') = loop.current /\ loop'.nr_mbufs = loop.nr_mbufs
<1>1. DeliveryInv' /\ loop \in LoopType /\ Posting
  BY PostKeeps DEF DeliveryInv, Post
<1>2. CASE loop.pc = "last"
  <2>1. loop'.pc = "idle" /\ loop'.nr_mbufs = loop.nr_mbufs
    BY <1>2 DEF Post, NoBurst
  <2>2. Len(posted') = loop'.nr_mbufs
    BY <1>1, <2>1 DEF DeliveryInv, LoopInv
  <2>3. loop.current = loop.nr_mbufs
    BY <1>1, <1>2 DEF DeliveryInv, LoopInv
  <2> QED
    BY <2>1, <2>2, <2>3
<1>3. CASE loop.pc = "restart"
  <2>1. /\ loop'.pc = "peek" /\ loop'.nr_mbufs = loop.nr_mbufs
        /\ loop'.latest_unsent = loop.peek /\ loop'.peek = loop.peek
    BY <1>1, <1>3 DEF Post, LoopType
  <2>2. loop.current = loop.peek - 1 /\ loop.peek \in Nat /\ loop.current \in Nat
        /\ loop.current > 0
    BY <1>1, <1>3 DEF DeliveryInv, LoopInv, LoopType
  <2>3. Len(posted') = loop'.latest_unsent - 1
    BY <1>1, <2>1, <2>2 DEF DeliveryInv, LoopInv
  <2> QED
    BY <2>1, <2>2, <2>3
<1> QED
  BY <1>1, <1>2, <1>3 DEF Posting

LEMMA DeliveryInvImplies == DeliveryInv => PostedAsDecided
BY DEF DeliveryInv, LoopInv, LoopType, PostedAsDecided

\* Express delivery loses, doubles and reorders no packet of a burst, and posts
\* none by the decision on another (proceed_mbuf, flush_pending_mbuf).
THEOREM EachIsPostedAsDecided == DeliverySpec => []PostedAsDecided
<1>1. DeliveryInit => DeliveryInv
  BY LoopInit
<1>2. DeliveryInv /\ [DeliveryNext]_deliveryVars => DeliveryInv'
  BY DeliveryStep
<1>3. DeliveryInv => PostedAsDecided
  BY DeliveryInvImplies
<1> QED
  BY <1>1, <1>2, <1>3, PTL DEF DeliverySpec
=============================================================================

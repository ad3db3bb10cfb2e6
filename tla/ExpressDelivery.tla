-------------------------- MODULE ExpressDelivery --------------------------
(***************************************************************************)
(* How an input node works through a burst (e3infra/include/mbuf-          *)
(* delivery.h): every packet is given a forwarding decision, and           *)
(* consecutive packets with the same decision are posted together.  The    *)
(* forwarding nodes of the spine and the leaf extend this module; what     *)
(* they do to post a run of packets ends with the step Post.               *)
(*                                                                         *)
(* Packets are counted from 1 here and from 0 in the code: 0 stands for    *)
(* its -1.                                                                 *)
(***************************************************************************)
EXTENDS Naturals, Sequences

CONSTANTS
  MaxBurst,   \* PBP_NODE_BURST_SIZE and the like
  Decisions   \* values of fwd_id

ASSUME BurstAssumption == MaxBurst \in Nat

VARIABLES
  loop,      \* the express delivery variables of the burst
  decided,   \* history: the decision on each packet so far
  posted     \* history: packets posted so far, each with the decision it went by

deliveryVars == <<loop, decided, posted>>

NoBurst == [pc |-> "idle", nr_mbufs |-> 0, latest_unsent |-> 0, current |-> 0,
            peek |-> 0]

DeliveryInit == loop = NoBurst /\ decided = <<>> /\ posted = <<>>

----------------------------------------------------------------------------
\* RESET_EXPRESS_DELIVERY_VARS and pre_setup_env.
Receive(n) ==
  /\ loop.pc = "idle" /\ n \in 1 .. MaxBurst
  /\ loop' = [NoBurst EXCEPT !.pc = "peek", !.nr_mbufs = n]
  /\ decided' = <<>> /\ posted' = <<>>

\* peek_next_mbuf finds a packet to decide on.
MayPeek == loop.pc = "peek" /\ loop.peek < loop.nr_mbufs

\* _latest_identifier: the decision of the packets that wait.
LatestIdentifier == decided[loop.latest_unsent]

Waiting == loop.latest_unsent .. loop.current

\* proceed_mbuf: the packet joins those that wait, or they must be posted first.
Proceed(id) ==
  LET iptr == loop.peek + 1
  IN  /\ MayPeek
      /\ decided' = Append(decided, id)
      /\ loop' = IF loop.latest_unsent = 0
                 THEN [loop EXCEPT !.peek = iptr, !.latest_unsent = iptr, !.current = iptr]
                 ELSE IF id = LatestIdentifier
                 THEN [loop EXCEPT !.peek = iptr, !.current = iptr]
                 ELSE [loop EXCEPT !.peek = iptr, !.pc = "restart"]
      /\ UNCHANGED posted

\* No packet is left to decide on: what waits, if anything, is posted last.
Drain ==
  /\ loop.pc = "peek" /\ loop.peek = loop.nr_mbufs
  /\ loop' = IF loop.latest_unsent # 0 THEN [loop EXCEPT !.pc = "last"]
             ELSE [NoBurst EXCEPT !.nr_mbufs = loop.nr_mbufs]
  /\ UNCHANGED <<decided, posted>>

Posting == loop.pc \in {"restart", "last"}

\* Mutant: the packet that caused the restart is not proceeded again.
PostWithoutProceed ==
  /\ Posting
  /\ posted' = posted \o [k \in 1 .. loop.current - loop.latest_unsent + 1 |->
                            <<loop.latest_unsent + k - 1, LatestIdentifier>>]
  /\ loop' = IF loop.pc = "last" THEN [NoBurst EXCEPT !.nr_mbufs = loop.nr_mbufs]
             ELSE [loop EXCEPT !.pc = "peek", !.latest_unsent = 0, !.current = 0]
  /\ UNCHANGED decided

\* The packets that wait have been posted: flush_pending_mbuf, and the packet
\* that caused the restart is the first to wait.
Post ==
  /\ Posting
  /\ posted' = posted \o [k \in 1 .. loop.current - loop.latest_unsent + 1 |->
                            <<loop.latest_unsent + k - 1, LatestIdentifier>>]
  /\ loop' = IF loop.pc = "last" THEN [NoBurst EXCEPT !.nr_mbufs = loop.nr_mbufs]
             ELSE [loop EXCEPT !.pc = "peek", !.latest_unsent = loop.peek,
                               !.current = loop.peek]
  /\ UNCHANGED decided

----------------------------------------------------------------------------
DeliveryNext ==
  \/ \E n \in 1 .. MaxBurst : Receive(n)
  \/ \E id \in Decisions : Proceed(id)
  \/ Drain
  \/ Post

DeliverySpec == DeliveryInit /\ [][DeliveryNext]_deliveryVars

----------------------------------------------------------------------------
\* Every packet is posted once, in the order of the burst and by the decision
\* that was made on it; a burst that has ended left none behind.
PostedAsDecided ==
  /\ Len(posted) <= Len(decided)
  /\ \A i \in 1 .. Len(posted) : posted[i] = <<i, decided[i]>>
  /\ loop.pc = "idle" => Len(posted) = loop.nr_mbufs
=============================================================================

----------------------------- MODULE MCNodeClass -----------------------------
(* Two senders on two sockets, and a class of two nodes. *)
EXTENDS NodeClass, TLC

\* Odd nodes and one of the senders are on the second socket.
MCSocketOf ==
  [x \in Nodes \cup Senders |->
     IF x \in Nodes THEN (IF x % 2 = 1 THEN 1 ELSE 0)
     ELSE (IF x = CHOOSE s \in Senders : TRUE THEN 0 ELSE 1)]
=============================================================================

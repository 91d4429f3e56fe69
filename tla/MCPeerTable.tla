---------------------------- MODULE MCPeerTable ----------------------------
(* Instances of PeerTable for TLC.  "me" is this node; it, or an identity  *)
(* restored to c1, is told of itself by other nodes.                       *)
EXTENDS PeerTable, TLC

MCBootId == [u \in BootUrls |-> <<"bootstrap", u>>]

\* The contributors are alike, and so are the URLs that any peer may have.
Symmetry ==
  Permutations(Contributor) \cup Permutations(Url \ (Undialable \cup BootUrls))

\* Without restarts the node keeps its id; which of them does not matter.
LiveInit == Init /\ local = CHOOSE c \in Contributor : TRUE

LiveSpec == LiveInit /\ [][Next]_vars /\ Fairness
=============================================================================

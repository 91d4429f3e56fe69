------------------------------ MODULE DeltaLog ------------------------------
(***************************************************************************)
(* What a node promises its peers about the deltas it publishes: an        *)
(* append-only log of batches.  A batch is never empty, never larger than  *)
(* MaxDelta, and never repeats a torrent that is still in the index and    *)
(* was published before.  A torrent deleted from the index may come back   *)
(* and be published again.                                                 *)
(*                                                                         *)
(* Peers rely on exactly this: they remember one number per node, the      *)
(* sequence of the last batch they took, and never look behind it.         *)
(***************************************************************************)
EXTENDS Naturals, Sequences, FiniteSets

CONSTANTS Hash,       \* the info-hashes
          MaxDelta    \* the most records one delta holds

VARIABLES log,        \* the batches published, oldest first
          index,      \* the torrents of the index
          published   \* those of them that are in some batch

logVars == <<log, index, published>>

Batch == {b \in SUBSET Hash : b # {} /\ Cardinality(b) <= MaxDelta}

LogInit == log = <<>> /\ index = {} /\ published = {}

\* A torrent comes into the index.
Learn(h) ==
  /\ h \notin index
  /\ index' = index \cup {h}
  /\ UNCHANGED <<log, published>>

\* A batch is appended.  A torrent of it that was deleted meanwhile, and may
\* have come back, is in the batch all the same but counts as unpublished.
Publish(b, kept) ==
  /\ b \cap published = {}
  /\ kept \subseteq b \cap index
  /\ log' = Append(log, b)
  /\ published' = published \cup kept
  /\ UNCHANGED index

\* A torrent is deleted from the index; nothing else makes it unpublished.
Forget(h) ==
  /\ h \in index
  /\ index' = index \ {h}
  /\ published' = published \ {h}
  /\ UNCHANGED log

LogNext ==
  \/ \E b \in Batch : \E kept \in SUBSET b : Publish(b, kept)
  \/ \E h \in Hash : Learn(h) \/ Forget(h)

LogSpec == LogInit /\ [][LogNext]_logVars
=============================================================================

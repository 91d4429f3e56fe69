---------------------------- MODULE DeltaGossip ----------------------------
(***************************************************************************)
(* A node that publishes deltas (DeltaExport) and one that gossips with    *)
(* it: gossip_with_peer of manager.rs against the manifest and the delta   *)
(* files that routes/sync.rs serves, and the merge of the records into the *)
(* reader's index (merge.rs).                                              *)
(*                                                                         *)
(* The manifest lists every delta file of the directory, the one being     *)
(* written and those the file "sequence" does not cover included, and      *)
(* names each by the hash of its content.  A file is fetched by that hash, *)
(* so a file that changed after the manifest was read is not found.  The   *)
(* content of a file stands for its hash here.                             *)
(*                                                                         *)
(* How the reader chooses its partner and stores its table row by row is   *)
(* PeerTable's subject.  MaxDrops bounds what goes wrong between the two.  *)
(***************************************************************************)
EXTENDS DeltaExport

CONSTANTS Wanted,    \* the torrents whose records pass the reader's filters
          MaxDrops   \* bound: faults of the network and the reader

ASSUME GossipAssumption == Wanted \subseteq Hash /\ MaxDrops \in Nat

VARIABLES
  got,        \* the wanted torrents of the publisher the reader has
  seen,       \* last_sequence of the publisher in the reader's table
  savedSeen,  \* and in its row of sync_state
  step,       \* gossip_with_peer: "idle", "fetch" or "merge"
  listed,     \* the new deltas of the manifest still to be fetched
  upto,       \* max_seq
  left,       \* the records of the fetched delta not merged yet
  drops,
  lost        \* history: the records the reader put aside by errors of its own,
              \* as pairs of a delta and a torrent

publisher == vars
session == <<step, listed, upto, left>>
reader == <<got, seen, savedSeen, step, listed, upto, left, drops, lost>>
allVars == <<vars, reader>>

Content == [rows : SUBSET Hash, sealed : BOOLEAN]

GossipTypeOK ==
  /\ got \subseteq Wanted
  /\ seen \in Nat
  /\ savedSeen \in Nat
  /\ step \in {"idle", "fetch", "merge"}
  /\ DOMAIN listed \subseteq Nat \ {0}
  /\ listed \in [DOMAIN listed -> Content]
  /\ upto \in Nat
  /\ left \subseteq Hash
  /\ drops \in Nat
  /\ lost \subseteq Nat \X Hash

Greatest(m, n) == IF m < n THEN n ELSE m

Nothing == [s \in {} |-> [rows |-> {}, sealed |-> FALSE]]

GossipInit ==
  /\ Init
  /\ got = {} /\ seen = 0 /\ savedSeen = 0
  /\ step = "idle" /\ listed = Nothing /\ upto = 0 /\ left = {}
  /\ drops = 0 /\ lost = {}

-----------------------------------------------------------------------------
(* A session.                                                              *)

Drop ==
  /\ drops < MaxDrops
  /\ drops' = drops + 1

\* The deltas are taken in the order of their sequences.
Current == CHOOSE s \in DOMAIN listed : \A t \in DOMAIN listed : s <= t

Remaining == [s \in DOMAIN listed \ {Current} |-> listed[s]]

CloseSession ==
  /\ step' = "idle"
  /\ listed' = Nothing
  /\ upto' = 0
  /\ left' = {}

\* Mutant: one delta too many is taken for seen.
ReadManifestPast ==
  /\ step = "idle"
  /\ pc # "down"
  /\ \E s \in DOMAIN delta : s > seen + 1
  /\ listed' = [s \in {t \in DOMAIN delta : t > seen + 1} |-> delta[s]]
  /\ upto' = seen
  /\ step' = "fetch"
  /\ UNCHANGED <<publisher, got, seen, savedSeen, left, drops, lost>>

\* The manifest, less what the watermark covers; a session with nothing new
\* ends at once.
ReadManifest ==
  /\ step = "idle"
  /\ pc # "down"
  /\ \E s \in DOMAIN delta : s > seen
  /\ listed' = [s \in {t \in DOMAIN delta : t > seen} |-> delta[s]]
  /\ upto' = seen
  /\ step' = "fetch"
  /\ UNCHANGED <<publisher, got, seen, savedSeen, left, drops, lost>>

\* The file is there as it was listed, and complete.
Fetch ==
  /\ step = "fetch"
  /\ DOMAIN listed # {}
  /\ pc # "down"
  /\ delta[Current] = listed[Current]
  /\ listed[Current].sealed
  /\ left' = listed[Current].rows
  /\ step' = "merge"
  /\ UNCHANGED <<publisher, got, seen, savedSeen, listed, upto, drops, lost>>

\* Mutants: max_seq is raised before the status is looked at; or the same
\* delta is asked for again.
FetchNotFoundSeen ==
  /\ step = "fetch"
  /\ DOMAIN listed # {}
  /\ pc # "down"
  /\ delta[Current] # listed[Current] \/ ~listed[Current].sealed
  /\ listed' = Remaining
  /\ upto' = Current
  /\ UNCHANGED <<publisher, got, seen, savedSeen, step, left, drops, lost>>
FetchNotFoundRetry ==
  /\ step = "fetch"
  /\ DOMAIN listed # {}
  /\ pc # "down"
  /\ delta[Current] # listed[Current]
  /\ UNCHANGED <<publisher, reader>>

\* No file has the listed hash any more (404): the next delta is tried.  A
\* file still being written may have grown since.
FetchNotFound ==
  /\ step = "fetch"
  /\ DOMAIN listed # {}
  /\ pc # "down"
  /\ delta[Current] # listed[Current] \/ ~listed[Current].sealed
  /\ listed' = Remaining
  /\ UNCHANGED <<publisher, got, seen, savedSeen, step, upto, left, drops, lost>>

\* The file is incomplete still: reading it fails and so does the session.
FetchUnreadable ==
  /\ step = "fetch"
  /\ DOMAIN listed # {}
  /\ pc # "down"
  /\ delta[Current] = listed[Current]
  /\ ~listed[Current].sealed
  /\ CloseSession
  /\ UNCHANGED <<publisher, got, seen, savedSeen, drops, lost>>

\* Mutant: the filters are not applied.
MergeRecordUnfiltered(h) ==
  /\ step = "merge"
  /\ h \in left
  /\ got' = got \cup {h}
  /\ left' = left \ {h}
  /\ UNCHANGED <<publisher, seen, savedSeen, step, listed, upto, drops, lost>>

\* A record that passes the filters becomes, or already is, a torrent of the
\* reader's index; the others are skipped.
MergeRecord(h) ==
  /\ step = "merge"
  /\ h \in left
  /\ got' = got \cup ({h} \cap Wanted)
  /\ left' = left \ {h}
  /\ UNCHANGED <<publisher, seen, savedSeen, step, listed, upto, drops, lost>>

\* The delta is merged.
Merged ==
  /\ step = "merge"
  /\ left = {}
  /\ upto' = Greatest(upto, Current)
  /\ listed' = Remaining
  /\ step' = "fetch"
  /\ UNCHANGED <<publisher, got, seen, savedSeen, left, drops, lost>>

\* update_watermark
Finish ==
  /\ step = "fetch"
  /\ DOMAIN listed = {}
  /\ seen' = Greatest(seen, upto)
  /\ CloseSession
  /\ UNCHANGED <<publisher, got, savedSeen, drops, lost>>

Session == ReadManifest \/ Fetch \/ FetchNotFound \/ FetchUnreadable
             \/ (\E h \in Hash : MergeRecord(h)) \/ Merged \/ Finish

-----------------------------------------------------------------------------
(* Between the sessions, and what goes wrong.                              *)

\* The table is persisted, at any time.
SaveWatermark ==
  /\ savedSeen' = seen
  /\ UNCHANGED <<publisher, got, seen, session, drops, lost>>

\* A request times out, the connection fails or the publisher is down: the
\* session fails, and what it merged stays.
SessionFails ==
  /\ step = "fetch"
  /\ (pc = "down" /\ UNCHANGED drops) \/ Drop
  /\ CloseSession
  /\ UNCHANGED <<publisher, got, seen, savedSeen, lost>>

\* The publisher left the reader's table: its watermark is forgotten, also
\* when it is learned again.  A session under way goes on.
Evict ==
  /\ Drop
  /\ seen' = 0
  /\ UNCHANGED <<publisher, got, savedSeen, session, lost>>

\* The reader restarts from the row of sync_state, if the last persist was
\* not cut short before it wrote that row.
ReaderRestart ==
  /\ Drop
  /\ savedSeen' \in {0, savedSeen}
  /\ seen' = savedSeen'
  /\ CloseSession
  /\ UNCHANGED <<publisher, got, lost>>

Interruption == SessionFails \/ Evict \/ ReaderRestart

\* What the reader puts aside of the delta it is at.
PutAside(torrents) == lost' = lost \cup ({Current} \X torrents)

\* A status that is no success, on a file that may be complete, such as the
\* 503 of a node that is starting: the next delta is tried, and the watermark
\* passes this one with that one.
FetchRefused ==
  /\ Drop
  /\ step = "fetch"
  /\ DOMAIN listed # {}
  /\ PutAside(listed[Current].rows)
  /\ listed' = Remaining
  /\ UNCHANGED <<publisher, got, seen, savedSeen, step, upto, left>>

\* merge_delta counts a record that fails and goes on with the next; the
\* delta is merged all the same.
RecordLost(h) ==
  /\ Drop
  /\ step = "merge"
  /\ h \in left
  /\ PutAside({h})
  /\ left' = left \ {h}
  /\ UNCHANGED <<publisher, got, seen, savedSeen, step, listed, upto>>

Loss == FetchRefused \/ \E h \in Hash : RecordLost(h)

-----------------------------------------------------------------------------
Reader == Session \/ SaveWatermark \/ Interruption \/ Loss

\* The publisher's writes succeed and it stays up; sessions may fail, records
\* be lost by the reader, and the reader restart, at any point.
SafeNext == (ReliableNext /\ UNCHANGED reader) \/ Reader
SafeSpec == GossipInit /\ [][SafeNext]_allVars

\* Anything may fail.
GossipNext == (Next /\ UNCHANGED reader) \/ Reader
GossipSpec == GossipInit /\ [][GossipNext]_allVars

\* The gossip loop comes back to the publisher every import_interval for as
\* long as it is among its targets, and every request has a timeout.
FairSafeSpec == SafeSpec /\ WF_allVars(Export /\ UNCHANGED reader) /\ WF_allVars(Session)

FairGossipSpec ==
  /\ GossipSpec
  /\ WF_allVars((Export \/ Restart) /\ UNCHANGED reader)
  /\ WF_allVars(Session \/ SessionFails)

-----------------------------------------------------------------------------
(* Properties                                                              *)

\* The delta is complete, and each of its wanted torrents is in the reader's
\* index or was put aside by an error of the reader's own at that very delta.
CoveredAt(s) ==
  /\ Complete(s)
  /\ \A h \in delta[s].rows \cap Wanted : h \in got \/ <<s, h>> \in lost

Covered(n) == \A s \in 1..n : CoveredAt(s)

\* But for the records the reader itself put aside, by a refused request or a
\* failed merge, the watermark never passes a delta that was not merged in
\* full: not when a manifest lists a delta half written, nor when sessions
\* fail half way, watermarks are forgotten, or the reader restarts from an
\* older one.  The gossip never looks behind the watermark again, which is
\* why nothing else may be missing there.
WatermarkCovers == Covered(seen) /\ Covered(savedSeen)

\* A wanted torrent in a saved delta reaches the reader, through any number
\* of failed sessions and restarts of the reader, unless the watermark passes
\* a delta at which an error of the reader's own put it aside.
PassedOver(h) == \E s \in 1..seen : <<s, h>> \in lost

SavedReachesReader ==
  \A h \in Wanted : Published(h) ~> (h \in got \/ PassedOver(h))

\* Whatever fails, a session ends.
SessionEnds == step # "idle" ~> step = "idle"
=============================================================================

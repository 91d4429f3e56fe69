----------------------------- MODULE PeerTable -----------------------------
(***************************************************************************)
(* The peer table of indexarr-sync (discovery.rs) under the loops that     *)
(* share it (manager.rs): gossip reads targets and watermarks and reports  *)
(* results, discovery and the XMPP channel add peers, discovery ages the   *)
(* reputations and persists the table to sync_state row by row, a shutdown *)
(* persists it once more, a start loads it.                                *)
(*                                                                         *)
(* Everything under one acquisition of the table's lock is one step.       *)
(* persist holds the read lock over its awaits, so no step writes the      *)
(* table while "saving" is set.                                            *)
(*                                                                         *)
(* Reputations are small integers: only their order, the clamp and the     *)
(* threshold matter.  The source of a peer is "bootstrap" or "learned"     *)
(* ("pex" or "xmpp" in the code).  MaxSeq and MaxFaults are bounds.        *)
(*                                                                         *)
(* The ids of a PEX answer are whatever the asked node has in its table,   *)
(* and it too names its bootstrap peers "bootstrap-<hash>": a node may be  *)
(* told of its own bootstrap peers, under URLs that are not its own.       *)
(***************************************************************************)
EXTENDS Integers, FiniteSets

CONSTANTS Contributor,  \* contributor ids, of this node and of the others
          Url,          \* URLs met in discovery
          Undialable,   \* those that is_dialable_peer_url refuses
          BootUrls,     \* sync_peers of the configuration
          BootId,       \* the id each of them gets: "bootstrap-<hash>"
          NoPeer,       \* no id
          MaxPeers, Fanout, FailLimit,
          RepInitial, RepMax, Untrusted, Penalty, Bonus, Longevity,
          MaxSeq,       \* bound: the highest delta sequence of a peer
          MaxFaults     \* bound: stops, crashes and database errors

Ids == Contributor \cup {BootId[u] : u \in BootUrls}

ASSUME PeerTableAssumption ==
  /\ Undialable \subseteq Url
  /\ IsFiniteSet(BootUrls) /\ Cardinality(BootUrls) <= MaxPeers
  /\ NoPeer \notin Ids
  /\ \A u \in BootUrls : BootId[u] \notin Contributor
  /\ \A u, v \in BootUrls : BootId[u] = BootId[v] => u = v
  /\ MaxPeers \in Nat \ {0} /\ Fanout \in Nat \ {0} /\ FailLimit \in Nat \ {0}
  /\ RepInitial \in Nat /\ RepMax \in Nat /\ RepInitial <= RepMax
  /\ Untrusted \in Nat /\ Penalty \in Nat /\ Bonus \in Nat /\ Longevity \in Nat
  /\ MaxSeq \in Nat /\ MaxFaults \in Nat

VARIABLES
  peers,     \* PeerTable.peers: id -> entry
  urlIndex,  \* PeerTable.url_index: URL -> id
  local,     \* local_contributor_id
  db,        \* the rows of sync_state: id -> entry
  mode,      \* "starting", "up", "stopping" or "down"
  toBoot,    \* bootstrap URLs still to be added by this start
  disc,      \* the discovery loop: "pex", or "persist" at the end of a round
  saving,    \* persist is running, under the read lock
  unsaved,   \* the entries it has still to insert
  phase,     \* the gossip loop: "sleep", "next", "fetch" or "report"
  targets,   \* the targets left in this round
  partner,   \* the peer being gossiped with
  read,      \* our_watermark, as read before fetching
  outcome,   \* "merged", "ok" or "error", to be reported
  faults,
  misnamed   \* history: the bootstrap URLs whose id discovery gave another entry

table == <<peers, urlIndex>>
saver == <<db, saving, unsaved>>
gossip == <<phase, targets, partner, read, outcome>>
vars == <<peers, urlIndex, local, db, mode, toBoot, disc, saving, unsaved,
          phase, targets, partner, read, outcome, faults, misnamed>>

Entry == [url : Url \cup BootUrls, source : {"bootstrap", "learned"},
          seq : Nat, fail : Nat, rep : 0..RepMax]

TypeOK ==
  /\ DOMAIN peers \subseteq Ids /\ peers \in [DOMAIN peers -> Entry]
  /\ DOMAIN db \subseteq Ids /\ db \in [DOMAIN db -> Entry]
  /\ DOMAIN urlIndex \subseteq Url \cup BootUrls
  /\ urlIndex \in [DOMAIN urlIndex -> Ids]
  /\ local \in Contributor
  /\ mode \in {"starting", "up", "stopping", "down"}
  /\ toBoot \subseteq BootUrls
  /\ disc \in {"pex", "persist"}
  /\ saving \in BOOLEAN
  /\ unsaved \subseteq Ids
  /\ phase \in {"sleep", "next", "fetch", "report"}
  /\ targets \subseteq Ids
  /\ partner \in Ids \cup {NoPeer}
  /\ read \in Nat
  /\ outcome \in {"none", "merged", "ok", "error"}
  /\ faults \in Nat
  /\ misnamed \subseteq BootUrls

-----------------------------------------------------------------------------
(* Partial functions.                                                      *)

Empty == [x \in {} |-> x]
With(f, x, v) == [y \in DOMAIN f \cup {x} |-> IF y = x THEN v ELSE f[y]]
Without(f, x) == [y \in DOMAIN f \ {x} |-> f[y]]

Least(m, n) == IF m < n THEN m ELSE n
Greatest(m, n) == IF m < n THEN n ELSE m

-----------------------------------------------------------------------------
(* PeerTable.                                                              *)

Boots == {id \in DOMAIN peers : peers[id].source = "bootstrap"}
Learned == DOMAIN peers \ Boots
Healthy == {id \in DOMAIN peers : peers[id].rep > Untrusted}

\* Mutant: the node does not know itself.
AcceptsSelf(id, url, source) == source = "bootstrap" \/ url \notin Undialable

Accepts(id, url, source) ==
  source = "bootstrap" \/ (id # local /\ url \notin Undialable)

\* Mutant: the reputation is not clamped.
AdjustedOnly(e, d) == [e EXCEPT !.rep = e.rep + d]

\* apply_reputation_delta
Adjusted(e, d) == [e EXCEPT !.rep = Greatest(0, Least(RepMax, e.rep + d))]

NewEntry(url, source) ==
  [url |-> url, source |-> source, seq |-> 0, fail |-> 0, rep |-> RepInitial]

\* Mutant: a bootstrap peer may be evicted.
EvictableAny(v) == \A o \in DOMAIN peers : peers[v].rep <= peers[o].rep

\* Mutant: the table takes one peer too many.
FullLate == Cardinality(DOMAIN peers) > MaxPeers
Full == Cardinality(DOMAIN peers) >= MaxPeers

\* A known peer is moved to another URL.  Mutant: it is made anew.
MovedAnew(id, url) == [peers EXCEPT ![id] = NewEntry(url, "learned")]
Moved(id, url) == [peers EXCEPT ![id].url = url]

\* evict_one picks a learned peer of the lowest reputation.
Evictable(v) ==
  /\ v \in Learned
  /\ \A o \in Learned : peers[v].rep <= peers[o].rep

\* add_peer, past the test of accepts_peer: the URL is known; or the id is,
\* and its URL changes, in the entry only; or an entry is made, for which
\* another may have to go; or the table is full of bootstrap peers.
AddAccepted(id, url, source) ==
  \/ /\ url \in DOMAIN urlIndex
     /\ UNCHANGED table
  \/ /\ url \notin DOMAIN urlIndex
     /\ id \in DOMAIN peers
     /\ peers' = Moved(id, url)
     /\ UNCHANGED urlIndex
  \/ /\ url \notin DOMAIN urlIndex
     /\ id \notin DOMAIN peers
     /\ ~Full
     /\ peers' = With(peers, id, NewEntry(url, source))
     /\ urlIndex' = With(urlIndex, url, id)
  \/ /\ url \notin DOMAIN urlIndex
     /\ id \notin DOMAIN peers
     /\ Full
     /\ \E v \in DOMAIN peers :
          /\ Evictable(v)
          /\ peers' = With(Without(peers, v), id, NewEntry(url, source))
          /\ urlIndex' = With(Without(urlIndex, peers[v].url), url, id)
  \/ /\ url \notin DOMAIN urlIndex
     /\ id \notin DOMAIN peers
     /\ Full
     /\ Learned = {}
     /\ UNCHANGED table

AddPeer(id, url, source) ==
  IF Accepts(id, url, source) THEN AddAccepted(id, url, source)
                              ELSE UNCHANGED table

\* update_health(id, false).  fail_count is compared with the limit only, so
\* that of a bootstrap peer, which no limit removes, stops there.
HealthFailed(id) ==
  LET e == peers[id]
      count == Least(FailLimit, e.fail + 1)
  IN  IF count >= FailLimit /\ e.source # "bootstrap"
      THEN /\ peers' = Without(peers, id)
           /\ urlIndex' = Without(urlIndex, e.url)
      ELSE /\ peers' = [peers EXCEPT ![id] =
                          Adjusted([e EXCEPT !.fail = count], -Penalty)]
           /\ UNCHANGED urlIndex

\* update_health(id, true), and the contribution bonus if records came.
HealthPassed(id, bonus) ==
  /\ peers' = [peers EXCEPT ![id] = Adjusted([@ EXCEPT !.fail = 0], bonus)]
  /\ UNCHANGED urlIndex

\* get_gossip_targets returns the set s: the healthy peers by reputation,
\* after a bootstrap peer if none of the healthy ones is, cut to the fanout.
IsTargets(s) ==
  \E f \in SUBSET Boots :
    /\ IF Boots \cap Healthy = {} /\ Boots # {} THEN Cardinality(f) = 1 ELSE f = {}
    /\ f \subseteq s /\ s \ f \subseteq Healthy
    /\ Cardinality(s) = Least(Fanout, Cardinality(f) + Cardinality(Healthy))
    /\ \A a \in s \ f, b \in Healthy \ s : peers[a].rep >= peers[b].rep

-----------------------------------------------------------------------------
(* Start: load, then the bootstrap peers, before any loop runs.            *)

\* A row whose peer the table would refuse is skipped.
Loadable == {id \in DOMAIN db : db[id].source = "bootstrap" \/
                                (id # local' /\ db[id].url \notin Undialable)}

\* Of two rows with one URL, the last read is the one indexed.
LoadRows(ids) ==
  /\ peers' = [id \in ids |-> db[id]]
  /\ \E last \in [{db[id].url : id \in ids} -> ids] :
       /\ \A u \in DOMAIN last : db[last[u]].url = u
       /\ urlIndex' = last

Quiet ==
  /\ disc' = "pex" /\ saving' = FALSE /\ unsaved' = {}
  /\ phase' = "sleep" /\ targets' = {} /\ partner' = NoPeer
  /\ read' = 0 /\ outcome' = "none"

Init ==
  /\ peers = Empty /\ urlIndex = Empty /\ db = Empty
  /\ local \in Contributor
  /\ mode = "starting" /\ toBoot = BootUrls
  /\ disc = "pex" /\ saving = FALSE /\ unsaved = {}
  /\ phase = "sleep" /\ targets = {} /\ partner = NoPeer
  /\ read = 0 /\ outcome = "none"
  /\ faults = 0 /\ misnamed = {}

\* The identity may have been restored to another one meanwhile.  An error
\* of load is ignored and leaves the table empty.
Start ==
  /\ mode = "down"
  /\ mode' = "starting"
  /\ local' \in Contributor
  /\ toBoot' = BootUrls
  /\ \/ LoadRows(Loadable) /\ UNCHANGED faults
     \/ LoadRows({}) /\ faults < MaxFaults /\ faults' = faults + 1
  /\ UNCHANGED <<db, disc, saving, unsaved, gossip, misnamed>>

Bootstrap(u) ==
  /\ mode = "starting"
  /\ u \in toBoot
  /\ AddPeer(BootId[u], u, "bootstrap")
  /\ toBoot' = toBoot \ {u}
  /\ UNCHANGED <<local, mode, disc, saver, gossip, faults, misnamed>>

Started ==
  /\ mode = "starting"
  /\ toBoot = {}
  /\ mode' = "up"
  /\ UNCHANGED <<table, local, toBoot, disc, saver, gossip, faults, misnamed>>

-----------------------------------------------------------------------------
(* Discovery.                                                              *)

\* Mutant: persist does not hold the lock over its awaits.
WritableAlways == mode = "up"
Writable == mode = "up" /\ ~saving

\* A peer told of in a PEX answer, with any id, or found in the XMPP room.
Learn(id, url) ==
  /\ Writable
  /\ AddPeer(id, url, "learned")
  /\ misnamed' = misnamed \cup {u \in BootUrls : id = BootId[u] /\ peers' # peers}
  /\ UNCHANGED <<local, mode, toBoot, disc, saver, gossip, faults>>

\* Mutant: only healthy peers grow older.
AgeHealthy ==
  /\ Writable
  /\ disc = "pex"
  /\ peers' = [id \in DOMAIN peers |-> IF id \in Healthy
                                      THEN Adjusted(peers[id], Longevity) ELSE peers[id]]
  /\ disc' = "persist"
  /\ UNCHANGED <<urlIndex, local, mode, toBoot, saver, gossip, faults, misnamed>>

\* The end of a discovery round ages every reputation ...
Age ==
  /\ Writable
  /\ disc = "pex"
  /\ peers' = [id \in DOMAIN peers |-> Adjusted(peers[id], Longevity)]
  /\ disc' = "persist"
  /\ UNCHANGED <<urlIndex, local, mode, toBoot, saver, gossip, faults, misnamed>>

\* ... and persists the table: all rows are deleted, then inserted one by one.
PersistDelete ==
  /\ (mode = "up" /\ disc = "persist") \/ mode = "stopping"
  /\ ~saving
  /\ db' = Empty
  /\ saving' = TRUE
  /\ unsaved' = DOMAIN peers
  /\ UNCHANGED <<table, local, mode, toBoot, disc, gossip, faults, misnamed>>

PersistInsert(id) ==
  /\ saving
  /\ id \in unsaved
  /\ db' = With(db, id, peers[id])
  /\ unsaved' = unsaved \ {id}
  /\ UNCHANGED <<table, local, mode, toBoot, disc, saving, gossip, faults, misnamed>>

\* persist returns; what becomes of the loop, or of the manager.
PersistReturn ==
  /\ saving' = FALSE
  /\ unsaved' = {}
  /\ disc' = "pex"
  /\ mode' = IF mode = "stopping" THEN "down" ELSE mode
  /\ UNCHANGED <<table, local, db, toBoot, gossip, misnamed>>

PersistEnd == saving /\ unsaved = {} /\ PersistReturn /\ UNCHANGED faults

\* A failing INSERT ends it; the error is ignored.
PersistError ==
  /\ saving /\ unsaved # {}
  /\ faults < MaxFaults /\ faults' = faults + 1
  /\ PersistReturn

Persist == PersistDelete \/ (\E id \in Ids : PersistInsert(id)) \/ PersistEnd

-----------------------------------------------------------------------------
(* Gossip.                                                                 *)

GossipRound ==
  /\ mode = "up"
  /\ phase = "sleep"
  /\ targets' \in {s \in SUBSET DOMAIN peers : s # {} /\ IsTargets(s)}
  /\ phase' = "next"
  /\ UNCHANGED <<table, local, mode, toBoot, disc, saver, partner, read, outcome, faults, misnamed>>

\* The next target's manifest is fetched and our watermark for it read; the
\* target may have left the table since the round began.
Dial(id) ==
  /\ mode = "up"
  /\ phase = "next"
  /\ id \in targets
  /\ partner' = id
  /\ targets' = targets \ {id}
  /\ read' = IF id \in DOMAIN peers THEN peers[id].seq ELSE 0
  /\ phase' = "fetch"
  /\ UNCHANGED <<table, local, mode, toBoot, disc, saver, outcome, faults, misnamed>>

\* The new deltas, if any, are merged, and the watermark moves to the last.
Fetched(max) ==
  /\ mode = "up"
  /\ phase = "fetch"
  /\ max \in read..MaxSeq
  /\ IF max > read /\ partner \in DOMAIN peers
     THEN peers' = [peers EXCEPT ![partner].seq = Greatest(@, max)]
     ELSE UNCHANGED peers
  /\ max > read => ~saving
  /\ outcome' \in IF max > read THEN {"merged", "ok"} ELSE {"ok"}
  /\ phase' = "report"
  /\ UNCHANGED <<urlIndex, local, mode, toBoot, disc, saver, targets, partner, read, faults, misnamed>>

\* The manifest, a delta or its merge fails.
FetchFailed ==
  /\ mode = "up"
  /\ phase = "fetch"
  /\ outcome' = "error"
  /\ phase' = "report"
  /\ UNCHANGED <<table, local, mode, toBoot, disc, saver, targets, partner, read, faults, misnamed>>

Report ==
  /\ Writable
  /\ phase = "report"
  /\ IF partner \notin DOMAIN peers THEN UNCHANGED table
     ELSE \/ outcome = "error" /\ HealthFailed(partner)
          \/ outcome = "merged" /\ HealthPassed(partner, Bonus)
          \/ outcome = "ok" /\ HealthPassed(partner, 0)
  /\ phase' = IF targets = {} THEN "sleep" ELSE "next"
  /\ partner' = NoPeer /\ read' = 0 /\ outcome' = "none"
  /\ UNCHANGED <<local, mode, toBoot, disc, saver, targets, faults, misnamed>>

Gossip == GossipRound \/ (\E id \in Ids : Dial(id))
            \/ (\E max \in 0..MaxSeq : Fetched(max)) \/ FetchFailed \/ Report

-----------------------------------------------------------------------------
\* Cancellation drops the loops where they are, a persist included.
Stop ==
  /\ mode = "up"
  /\ faults < MaxFaults /\ faults' = faults + 1
  /\ mode' = "stopping"
  /\ Quiet
  /\ UNCHANGED <<table, local, db, toBoot, misnamed>>

Crash ==
  /\ mode # "down"
  /\ faults < MaxFaults /\ faults' = faults + 1
  /\ mode' = "down"
  /\ toBoot' = {}
  /\ Quiet
  /\ UNCHANGED <<table, local, db, misnamed>>

Next ==
  \/ Start \/ (\E u \in BootUrls : Bootstrap(u)) \/ Started
  \/ \E id \in Ids, url \in Url : Learn(id, url)
  \/ Age \/ Persist \/ PersistError
  \/ Gossip
  \/ Stop \/ Crash

Spec == Init /\ [][Next]_vars

\* Each loop runs for as long as the manager does, and every request has a
\* timeout; a supervisor restarts a node that went down.  The lock is
\* tokio's, which queues its waiters: gossip is let in between two persists.
Fairness ==
  /\ SF_vars(Gossip)
  /\ WF_vars(Age) /\ WF_vars(Persist)
  /\ WF_vars(Start) /\ WF_vars(\E u \in BootUrls : Bootstrap(u)) /\ WF_vars(Started)

FairSpec == Spec /\ Fairness

-----------------------------------------------------------------------------
(* Properties                                                              *)

\* The table never outgrows max_peers: not by a load that checks nothing,
\* nor by the bootstrap peers added after it.
TableBounded == Cardinality(DOMAIN peers) <= MaxPeers

\* No learned peer is this node or has an undialable URL, also after the
\* node came back under another identity or a known peer changed its URL.
NoSelfPeer ==
  mode # "down" => \A id \in Learned : id # local /\ peers[id].url \notin Undialable

\* A learned peer that reached the failure limit is gone from the table.
FailuresBelowLimit == \A id \in Learned : peers[id].fail < FailLimit

\* A running node has each configured bootstrap peer in its table, under its
\* configured URL, whatever was evicted, persisted in part or lost before,
\* unless discovery once accepted that peer's id with another URL.
BootstrapPresent ==
  mode \in {"up", "stopping"} => \A u \in BootUrls \ misnamed :
    /\ BootId[u] \in Boots
    /\ peers[BootId[u]].url = u

\* The rows a persist has written are the table's, and it misses none: the
\* table does not change under it.
SnapshotIsConsistent ==
  saving => /\ DOMAIN db \cup unsaved = DOMAIN peers
            /\ \A id \in DOMAIN db : db[id] = peers[id]

\* While the node runs, no peer in the table is set back to a lower
\* watermark, though watermarks are read, and written, under other locks.
WatermarkMonotone ==
  [][mode # "down" => \A id \in DOMAIN peers \cap DOMAIN peers' :
       peers'[id].seq >= peers[id].seq]_vars

\* As many as a round has room for, a bootstrap peer that none of the healthy
\* ones is included, have at least the reputation of the peer id.
CrowdedOut(id) ==
  LET ahead == {o \in Healthy \ {id} : peers[o].rep >= peers[id].rep}
      first == IF Boots # {} /\ Boots \cap Healthy = {} THEN 1 ELSE 0
  IN  Cardinality(ahead) + first >= Fanout

\* A learned peer that failed does not stay in the table for ever without
\* answering, although it is no gossip target while its reputation is low,
\* unless again and again others fill the rounds in which it could be one.
FailingPeerIsDropped ==
  \A id \in Ids :
    <>[](id \in Healthy => ~CrowdedOut(id))
      => ((id \in Learned /\ peers[id].fail > 0)
            ~> (id \notin DOMAIN peers \/ peers[id].fail = 0))

\* "Dedup by URL": no two peers of the table have the same URL.
DedupByUrl ==
  \A a, b \in DOMAIN peers : peers[a].url = peers[b].url => a = b
=============================================================================

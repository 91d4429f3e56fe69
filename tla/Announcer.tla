------------------------------ MODULE Announcer ------------------------------
(***************************************************************************)
(* The announcer (indexarr-announcer/src/lib.rs) and the peer refresher    *)
(* (indexarr-dht/src/peer_refresher.rs), which both validate torrents by   *)
(* the order of announced_at.  The announcer keeps a pool of torrents,     *)
(* scrapes the trackers of each while it stays, and records what it saw    *)
(* when the stay ends: counts, or a strike.  Searches show no torrent that *)
(* has no announced_at yet.                                                *)
(*                                                                         *)
(* Counts are abstracted to "some activity".  Of announced_at only the     *)
(* order matters: "stamped" lists the rows that have one, the oldest       *)
(* first.  A stay is counted in polls.  MaxFaults bounds failed statements *)
(* and deletions.                                                          *)
(***************************************************************************)
EXTENDS Naturals, Sequences, SequencesExt, FiniteSets

CONSTANTS Hash,
          PoolSize,    \* announcer_pool_size
          Rotate,      \* polls until rotate_interval is over
          RefreshSize, \* the refresher's batch
          Trackers,    \* the trackers of each torrent
          Defaults,    \* default_trackers
          Web, Udp,    \* trackers with an http(s) or udp URL
          MaxFaults

ASSUME AnnouncerAssumption ==
  /\ IsFiniteSet(Hash)
  /\ PoolSize \in Nat /\ Rotate \in Nat /\ RefreshSize \in Nat /\ MaxFaults \in Nat

VARIABLES
  listing,    \* the rows of torrents that have a name
  stamped,    \* of those, the ones with announced_at, in its order
  pool,       \* tracked: the age of each torrent in the pool
  active,     \* those of the pool with best_seeds or best_peers above 0
  annPc,      \* where run is in its loop
  harvested,  \* results not yet recorded
  leaving,    \* the harvest, removed from the pool at the end
  struck,     \* the row whose third strike was counted, not yet marked
  udpClient,  \* udp_client is Some
  batch,      \* rows whose peers the refresher looks for
  quiet,      \* history: stays without activity since the last with any
  annFaults

pooled == <<pool, active, annPc, harvested, leaving, struck, udpClient>>
annVars == <<listing, stamped, pooled, batch, quiet, annFaults>>

Strikes == 3

\* A named row: announce_miss and no_peers.
NewListing == [miss |-> 0, noPeers |-> FALSE]

AnnWith(f, k, v) == [x \in DOMAIN f \cup {k} |-> IF x = k THEN v ELSE f[x]]
Stamp(h) == stamped' = Append(RemoveFirst(stamped, h), h)
Stamped == {stamped[i] : i \in DOMAIN stamped}

\* Without a stamp (NULLS FIRST) or with an older one.
StampedBefore(a, b) ==
  \/ a \notin Stamped /\ b \in Stamped
  \/ \E i, j \in DOMAIN stamped : stamped[i] = a /\ stamped[j] = b /\ i < j

RowsSame == UNCHANGED <<listing, stamped, batch, quiet>>
AnnFault == annFaults < MaxFaults /\ annFaults' = annFaults + 1

---------------------------------------------------------------------------
(* The announcer *)

Candidates == {h \in DOMAIN listing \ DOMAIN pool : ~listing[h].noPeers}

\* free_slots
FreeSlots == PoolSize - Cardinality(DOMAIN pool)

\* Mutant of IsLoad: the newest first.
IsLoadNewest(c) ==
  /\ c \subseteq Candidates
  /\ Cardinality(c) = IF Cardinality(Candidates) < FreeSlots THEN Cardinality(Candidates) ELSE FreeSlots
  /\ \A a \in c, b \in Candidates \ c : ~StampedBefore(a, b)

\* ORDER BY announced_at ASC NULLS FIRST LIMIT free_slots
IsLoad(c) ==
  /\ c \subseteq Candidates
  /\ Cardinality(c) = IF Cardinality(Candidates) < FreeSlots THEN Cardinality(Candidates) ELSE FreeSlots
  /\ \A a \in c, b \in Candidates \ c : ~StampedBefore(b, a)

\* load_candidates
LoadCandidates ==
  /\ annPc = "load"
  /\ \E c \in SUBSET Candidates :
       /\ IsLoad(c)
       /\ pool' = [h \in DOMAIN pool \cup c |-> IF h \in c THEN 0 ELSE pool[h]]
  /\ annPc' = "poll"
  /\ RowsSame /\ UNCHANGED <<active, harvested, leaving, struck, udpClient, annFaults>>

\* Its query fails; the loop goes on with the pool as it is.
LoadFailed ==
  /\ annPc = "load" /\ AnnFault
  /\ annPc' = "poll"
  /\ RowsSame /\ UNCHANGED <<pool, active, harvested, leaving, struck, udpClient>>

\* scrape_trackers: the torrent's own trackers or the default ones, each
\* asked only if its URL has a scheme the node can use.
AskedTrackers(h) == (IF Trackers[h] = {} THEN Defaults ELSE Trackers[h])
              \cap (Web \cup IF udpClient THEN Udp ELSE {})

\* poll_and_harvest: every torrent of the pool is scraped, and those whose
\* stay is over are harvested, in the order of the map, which is any.
PollAndHarvest ==
  /\ annPc = "poll"
  /\ \E seen \in SUBSET {h \in DOMAIN pool : AskedTrackers(h) # {}} :
       active' = active \cup seen
  /\ leaving' = {h \in DOMAIN pool : pool[h] >= Rotate}
  /\ harvested' = leaving'
  /\ quiet' = [h \in Hash |-> IF h \notin leaving' THEN quiet[h]
                              ELSE IF h \in active' THEN 0
                              ELSE IF quiet[h] < Strikes THEN quiet[h] + 1 ELSE Strikes]
  /\ annPc' = "persist"
  /\ UNCHANGED <<listing, stamped, batch, pool, struck, udpClient, annFaults>>

\* Mutant of RecordActive: the misses stay.
RecordActiveKeepMiss(h) ==
  /\ annPc = "persist" /\ struck = {} /\ h \in harvested /\ h \in active
  /\ IF h \in DOMAIN listing THEN Stamp(h) ELSE UNCHANGED stamped
  /\ harvested' = harvested \ {h}
  /\ UNCHANGED <<listing, pool, active, annPc, leaving, struck, udpClient, batch, quiet, annFaults>>

\* A result with activity: the counts, the stamp, and no miss any more.
RecordActive(h) ==
  /\ annPc = "persist" /\ struck = {} /\ h \in harvested /\ h \in active
  /\ IF h \in DOMAIN listing
     THEN listing' = [listing EXCEPT ![h].miss = 0] /\ Stamp(h)
     ELSE UNCHANGED <<listing, stamped>>
  /\ harvested' = harvested \ {h}
  /\ UNCHANGED <<pool, active, annPc, leaving, struck, udpClient, batch, quiet, annFaults>>

\* A result without: one miss more, and the stamp.  With the third a second
\* statement is to follow.
RecordMiss(h) ==
  /\ annPc = "persist" /\ struck = {} /\ h \in harvested /\ h \notin active
  /\ IF h \in DOMAIN listing
     THEN /\ listing' = [listing EXCEPT ![h].miss = @ + 1] /\ Stamp(h)
          /\ struck' = IF listing[h].miss + 1 >= Strikes THEN {h} ELSE {}
     ELSE UNCHANGED <<listing, stamped, struck>>
  /\ harvested' = harvested \ {h}
  /\ UNCHANGED <<pool, active, annPc, leaving, udpClient, batch, quiet, annFaults>>

\* no_peers = TRUE, for whatever row has that hash now.
MarkNoPeers ==
  /\ annPc = "persist"
  /\ \E h \in struck :
       listing' = IF h \in DOMAIN listing THEN [listing EXCEPT ![h].noPeers = TRUE] ELSE listing
  /\ struck' = {}
  /\ UNCHANGED <<stamped, pool, active, annPc, harvested, leaving, udpClient, batch, quiet, annFaults>>

\* The first statement that fails ends persist_results.
PersistFailed ==
  /\ annPc = "persist" /\ harvested \cup struck # {} /\ AnnFault
  /\ harvested' = {} /\ struck' = {}
  /\ RowsSame /\ UNCHANGED <<pool, active, annPc, leaving, udpClient>>

\* The harvest leaves the pool, recorded or not, and the loop sleeps.
RemoveHarvested ==
  /\ annPc = "persist" /\ harvested = {} /\ struck = {}
  /\ pool' = [h \in DOMAIN pool \ leaving |-> IF pool[h] < Rotate THEN pool[h] + 1 ELSE pool[h]]
  /\ active' = active \ leaving
  /\ leaving' = {}
  /\ annPc' = "load"
  /\ RowsSame /\ UNCHANGED <<harvested, struck, udpClient, annFaults>>

AnnounceStep ==
  \/ LoadCandidates \/ LoadFailed \/ PollAndHarvest
  \/ (\E h \in harvested : RecordActive(h) \/ RecordMiss(h))
  \/ MarkNoPeers \/ PersistFailed \/ RemoveHarvested

---------------------------------------------------------------------------
(* The peer refresher *)

RefreshedBefore(a, b) ==
  \/ Trackers[a] = {} /\ Trackers[b] # {}
  \/ (Trackers[a] = {} <=> Trackers[b] = {}) /\ StampedBefore(a, b)

\* The batch: torrents without trackers first, then by announced_at.
SelectBatch ==
  /\ batch = {}
  /\ \E b \in SUBSET DOMAIN listing :
       /\ Cardinality(b) = IF Cardinality(DOMAIN listing) < RefreshSize
                           THEN Cardinality(DOMAIN listing) ELSE RefreshSize
       /\ \A x \in b, y \in DOMAIN listing \ b : ~RefreshedBefore(y, x)
       /\ batch' = b
  /\ UNCHANGED <<listing, stamped, pooled, quiet, annFaults>>

\* A torrent the DHT has peers for is stamped; an error is ignored.
Refresh(h) ==
  /\ h \in batch
  /\ batch' = batch \ {h}
  /\ IF h \in DOMAIN listing THEN Stamp(h) ELSE UNCHANGED stamped
  /\ UNCHANGED <<listing, pooled, quiet, annFaults>>

\* One it has none for, or whose UPDATE fails, is left as it is.
RefreshNothing(h) ==
  /\ h \in batch
  /\ batch' = batch \ {h}
  /\ UNCHANGED <<listing, stamped, pooled, quiet, annFaults>>

---------------------------------------------------------------------------
(* Other writers *)

\* A torrent gets its name: resolved, uploaded or merged.
AddListing(h) ==
  /\ h \notin DOMAIN listing
  /\ listing' = AnnWith(listing, h, NewListing)
  /\ quiet' = [quiet EXCEPT ![h] = 0]
  /\ UNCHANGED <<stamped, pooled, batch, annFaults>>

\* A repaired row is resolved again: it may have peers, its misses stay.
RenewListing(h) ==
  /\ h \in DOMAIN listing /\ listing[h].noPeers /\ AnnFault
  /\ listing' = [listing EXCEPT ![h].noPeers = FALSE]
  /\ UNCHANGED <<stamped, pooled, batch, quiet>>

Unlist(h) ==
  /\ h \in DOMAIN listing /\ AnnFault
  /\ listing' = [x \in DOMAIN listing \ {h} |-> listing[x]]
  /\ stamped' = RemoveFirst(stamped, h)
  /\ UNCHANGED <<pooled, batch, quiet>>

---------------------------------------------------------------------------

AnnInit ==
  /\ listing = <<>> /\ stamped = <<>>
  /\ pool = <<>> /\ active = {} /\ annPc = "load"
  /\ harvested = {} /\ leaving = {} /\ struck = {}
  /\ udpClient \in BOOLEAN
  /\ batch = {} /\ quiet = [h \in Hash |-> 0] /\ annFaults = 0

AnnNext ==
  \/ AnnounceStep
  \/ SelectBatch
  \/ \E h \in Hash : Refresh(h) \/ RefreshNothing(h) \/ AddListing(h) \/ RenewListing(h) \/ Unlist(h)

AnnSpec == AnnInit /\ [][AnnNext]_annVars

\* The announcer's loop goes on; nothing is assumed of the refresher.
FairAnnSpec == AnnSpec /\ WF_annVars(AnnounceStep)

---------------------------------------------------------------------------
(* Properties *)

AnnTypeOK ==
  /\ DOMAIN listing \subseteq Hash
  /\ \A h \in DOMAIN listing : listing[h] \in [miss : Nat, noPeers : BOOLEAN]
  /\ Stamped \subseteq DOMAIN listing
  /\ DOMAIN pool \subseteq Hash
  /\ Cardinality(DOMAIN pool) <= PoolSize
  /\ \A h \in DOMAIN pool : pool[h] \in 0..Rotate
  /\ active \cup leaving \subseteq DOMAIN pool
  /\ harvested \cup struck \subseteq leaving
  /\ annPc \in {"load", "poll", "persist"}
  /\ udpClient \in BOOLEAN
  /\ batch \subseteq Hash
  /\ quiet \in [Hash -> 0..Strikes]
  /\ annFaults \in 0..MaxFaults

\* The 3-strike rule: while no statement failed and no row was deleted or
\* requeued, a torrent without peers was in the pool three times in a row
\* without any activity.
ThreeStrikes ==
  annFaults = 0 =>
    \A h \in DOMAIN listing : listing[h].noPeers => quiet[h] >= Strikes

\* Every torrent with a name is stamped in the end, so that searches show
\* it, or is marked as without peers, whatever the pool held, and the
\* failures and the refresher did, before.
NamedIsShown ==
  \A h \in Hash :
    (h \in DOMAIN listing /\ h \notin Stamped)
      ~> (h \notin DOMAIN listing \/ h \in Stamped \/ listing[h].noPeers)
=============================================================================

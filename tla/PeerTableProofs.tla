-------------------------- MODULE PeerTableProofs --------------------------
(***************************************************************************)
(* Theorems about the peer table, for every set of contributors and URLs,  *)
(* every size of the table and any number of stops, crashes and errors.    *)
(***************************************************************************)
EXTENDS PeerTable, FiniteSetTheorems, TLAPS

(***************************************************************************)
(* What is true of an entry of the table, and of a row of sync_state the   *)
(* table is loaded from, when discovery gave the ids of the bootstrap URLs *)
(* in m to other entries.  A bootstrap URL that is not in m, or that no    *)
(* learned peer can have, is held: no other entry than its own has it.     *)
(***************************************************************************)
Held(m, u) == u \notin m \/ u \in Undialable

EntryOK(m, id, e) ==
  /\ e \in Entry
  /\ e.source = "bootstrap" => id \in {BootId[u] : u \in BootUrls}
  /\ e.source = "learned" => e.fail < FailLimit
  /\ \A u \in BootUrls :
       /\ e.source = "learned" /\ id = BootId[u] => ~Held(m, u)
       /\ u \notin m /\ id = BootId[u] => e.url = u
       /\ Held(m, u) /\ e.url = u => id = BootId[u]

EntriesOK(m, f) ==
  /\ DOMAIN f \subseteq Ids
  /\ f = [id \in DOMAIN f |-> f[id]]
  /\ \A id \in DOMAIN f : EntryOK(m, id, f[id])
  /\ IsFiniteSet(DOMAIN f)
  /\ Cardinality(DOMAIN f) <= MaxPeers

\* The index has a held bootstrap URL only if the table has its peer, and
\* the other way round if its id was never given away.
IndexOK(m) ==
  /\ urlIndex = [u \in DOMAIN urlIndex |-> urlIndex[u]]
  /\ \A u \in BootUrls :
       /\ Held(m, u) /\ u \in DOMAIN urlIndex => BootId[u] \in DOMAIN peers
       /\ u \notin m /\ BootId[u] \in DOMAIN peers => u \in DOMAIN urlIndex

TableOK(m) == EntriesOK(m, peers) /\ IndexOK(m) /\ local \in Contributor

TableInv == misnamed \subseteq BootUrls /\ TableOK(misnamed)

\* Bootstrap peers are added before the loops start.
StartInv ==
  /\ toBoot \subseteq BootUrls
  /\ mode \in {"up", "stopping"} => toBoot = {}
  /\ mode # "down" =>
       \A u \in BootUrls \ toBoot : Held(misnamed, u) => BootId[u] \in DOMAIN peers

SaveInv ==
  /\ EntriesOK(misnamed, db)
  /\ saving \in BOOLEAN
  /\ saving => mode \in {"up", "stopping"}
  /\ SnapshotIsConsistent

\* NoSelfPeer, of whatever mode.
NoSelfEntries ==
  \A id \in Learned : id # local /\ peers[id].url \notin Undialable

Inv == TableInv /\ StartInv /\ SaveInv /\ (mode # "down" => NoSelfEntries)

-----------------------------------------------------------------------------
(* Entries.                                                                *)

\* The clamp keeps a reputation in its range, and touches nothing else.
LEMMA AdjustedFacts ==
  ASSUME NEW e \in Entry, NEW d \in Int
  PROVE  /\ Adjusted(e, d) \in Entry
         /\ Adjusted(e, d).source = e.source /\ Adjusted(e, d).url = e.url
         /\ Adjusted(e, d).fail = e.fail /\ Adjusted(e, d).seq = e.seq
BY PeerTableAssumption DEF Adjusted, Entry, Least, Greatest

\* An adjusted entry is as good as the entry it was.
LEMMA AdjustedOK ==
  ASSUME NEW m, NEW id, NEW e, NEW d \in Int, EntryOK(m, id, e)
  PROVE  EntryOK(m, id, Adjusted(e, d))
BY AdjustedFacts DEF EntryOK

\* Entries may be replaced by good ones.
LEMMA ReplaceOK ==
  ASSUME NEW m, NEW f, NEW g, EntriesOK(m, f), DOMAIN g = DOMAIN f,
         g = [id \in DOMAIN g |-> g[id]],
         \A id \in DOMAIN g : EntryOK(m, id, g[id])
  PROVE  EntriesOK(m, g)
BY DEF EntriesOK

\* Entries may be left out.
LEMMA SubsetOK ==
  ASSUME NEW m, NEW f, NEW g, EntriesOK(m, f), DOMAIN g \subseteq DOMAIN f,
         g = [id \in DOMAIN g |-> g[id]],
         \A id \in DOMAIN g : g[id] = f[id]
  PROVE  EntriesOK(m, g)
<1>1. IsFiniteSet(DOMAIN g) /\ Cardinality(DOMAIN g) <= Cardinality(DOMAIN f)
  BY FS_Subset DEF EntriesOK
<1>2. Cardinality(DOMAIN f) \in Nat /\ Cardinality(DOMAIN g) \in Nat
  BY <1>1, FS_CardinalityType DEF EntriesOK
<1> QED
  BY <1>1, <1>2, PeerTableAssumption DEF EntriesOK

\* A good entry may be added where there is room.
LEMMA InsertOK ==
  ASSUME NEW m, NEW f, NEW id \in Ids, NEW e, EntriesOK(m, f), EntryOK(m, id, e),
         id \notin DOMAIN f, Cardinality(DOMAIN f) < MaxPeers
  PROVE  EntriesOK(m, With(f, id, e))
<1>1. /\ IsFiniteSet(DOMAIN f \cup {id})
      /\ Cardinality(DOMAIN f \cup {id}) = Cardinality(DOMAIN f) + 1
  BY FS_AddElement DEF EntriesOK
<1>2. Cardinality(DOMAIN f) \in Nat
  BY FS_CardinalityType DEF EntriesOK
<1>3. Cardinality(DOMAIN f \cup {id}) <= MaxPeers
  BY <1>1, <1>2, PeerTableAssumption
<1> DEFINE g == With(f, id, e)
<1>4. /\ DOMAIN g = DOMAIN f \cup {id}
      /\ g = [y \in DOMAIN g |-> g[y]]
      /\ g[id] = e
      /\ \A y \in DOMAIN f : y # id => g[y] = f[y]
  BY DEF With
<1> HIDE DEF g
<1>5. \A y \in DOMAIN g : EntryOK(m, y, g[y])
  BY <1>4, Zenon DEF EntriesOK
<1>6. EntriesOK(m, g)
  BY <1>1, <1>3, <1>4, <1>5 DEF EntriesOK
<1> QED
  BY <1>6 DEF g

\* So is the new entry of a learned or a bootstrap peer.
LEMMA NewEntryOK ==
  ASSUME NEW m, NEW id \in Ids, NEW url \in Url \cup BootUrls, NEW source,
         \/ /\ source = "learned" /\ url \notin Undialable
            /\ \A u \in BootUrls : u = url => ~Held(m, u)
            /\ \A u \in BootUrls : id = BootId[u] => ~Held(m, u)
         \/ source = "bootstrap" /\ url \in BootUrls /\ id = BootId[url]
  PROVE  EntryOK(m, id, NewEntry(url, source))
<1>1. NewEntry(url, source) \in Entry
  BY PeerTableAssumption DEF NewEntry, Entry
<1>2. /\ NewEntry(url, source).source = source /\ NewEntry(url, source).url = url
      /\ NewEntry(url, source).fail = 0
  BY DEF NewEntry
<1> QED
  BY <1>1, <1>2, PeerTableAssumption DEF EntryOK, Held

\* What is good stays good when more ids are given away.
LEMMA WeakerOK ==
  ASSUME NEW m, NEW n, m \subseteq n, NEW f, EntriesOK(m, f)
  PROVE  EntriesOK(n, f)
<1>1. \A u : Held(n, u) => Held(m, u)
  BY DEF Held
<1>2. \A u : u \notin n => u \notin m
  OBVIOUS
<1> QED
  BY <1>1, <1>2 DEF EntriesOK, EntryOK

\* Dropping an entry leaves room for one.
LEMMA DropOK ==
  ASSUME NEW m, NEW f, EntriesOK(m, f), NEW id \in DOMAIN f
  PROVE  /\ EntriesOK(m, Without(f, id))
         /\ Cardinality(DOMAIN Without(f, id)) < MaxPeers
<1> DEFINE g == Without(f, id)
<1>1. /\ DOMAIN g = DOMAIN f \ {id}
      /\ g = [y \in DOMAIN g |-> g[y]]
      /\ \A y \in DOMAIN g : g[y] = f[y]
  BY DEF Without
<1> HIDE DEF g
<1>2. EntriesOK(m, g)
  BY <1>1, SubsetOK
<1>3. Cardinality(DOMAIN g) = Cardinality(DOMAIN f) - 1
  BY <1>1, FS_RemoveElement DEF EntriesOK
<1>4. Cardinality(DOMAIN f) \in Nat
  BY FS_CardinalityType DEF EntriesOK
<1>5. Cardinality(DOMAIN g) < MaxPeers
  BY <1>3, <1>4, PeerTableAssumption DEF EntriesOK
<1> QED
  BY <1>2, <1>5 DEF g

-----------------------------------------------------------------------------
(* The steps that write the table.                                         *)

\* The sources of the entries are two.
LEMMA LearnedSource ==
  ASSUME NEW m, EntriesOK(m, peers)
  PROVE  Learned = {id \in DOMAIN peers : peers[id].source = "learned"}
BY DEF EntriesOK, EntryOK, Entry, Learned, Boots

\* A table without a certain bootstrap peer has room, or a learned peer.
LEMMA RoomForBoot ==
  ASSUME NEW m, EntriesOK(m, peers), NEW u \in BootUrls, BootId[u] \notin DOMAIN peers,
         Learned = {}
  PROVE  Cardinality(DOMAIN peers) < MaxPeers
<1> DEFINE others == BootUrls \ {u}
           urlOf == [id \in DOMAIN peers |-> CHOOSE v \in others : id = BootId[v]]
<1>1. \A id \in DOMAIN peers : \E v \in others : id = BootId[v]
  BY DEF EntriesOK, EntryOK, Learned, Boots
<1>2. \A id \in DOMAIN peers : urlOf[id] \in others /\ id = BootId[urlOf[id]]
  BY <1>1
<1>3. urlOf \in [DOMAIN peers -> others] /\ \A a, b \in DOMAIN peers : urlOf[a] = urlOf[b] => a = b
  BY <1>2
<1>4. urlOf \in Injection(DOMAIN peers, others)
  BY <1>3 DEF Injection, IsInjective
<1>5. IsFiniteSet(others) /\ Cardinality(others) = Cardinality(BootUrls) - 1
  BY FS_RemoveElement, PeerTableAssumption
<1>6. Cardinality(DOMAIN peers) <= Cardinality(others)
  BY <1>4, <1>5, FS_Injection
<1>7. Cardinality(DOMAIN peers) \in Nat /\ Cardinality(BootUrls) \in Nat
  BY FS_CardinalityType, PeerTableAssumption DEF EntriesOK
<1> QED
  BY <1>5, <1>6, <1>7, PeerTableAssumption

\* Who calls add_peer, with what: discovery, for a learned peer, once every
\* held bootstrap peer is there; or the start, for a bootstrap peer.  m is
\* what is given away after the call.
Caller(m, id, url, source) ==
  \/ /\ source = "learned" /\ id \in Ids /\ url \in Url
     /\ \A u \in BootUrls : Held(m, u) => BootId[u] \in DOMAIN peers
     /\ \A u \in BootUrls : id = BootId[u] /\ peers' # peers => u \in m
  \/ source = "bootstrap" /\ url \in BootUrls /\ id = BootId[url]

LEMMA AddStep ==
  ASSUME NEW m, TableOK(m), NoSelfEntries, NEW id, NEW url, NEW source,
         Caller(m, id, url, source), AddPeer(id, url, source), local' = local,
         misnamed' = m
  PROVE  /\ TableOK(m)' /\ NoSelfEntries'
         /\ source = "bootstrap" /\ Held(m, url) => id \in DOMAIN peers'
         /\ \A u \in BootUrls : Held(m, u) /\ BootId[u] \in DOMAIN peers
                                  => BootId[u] \in DOMAIN peers'
<1>0. EntriesOK(m, peers) /\ IndexOK(m) /\ local \in Contributor /\ id \in Ids
  BY DEF TableOK, Caller, Ids
<1>l. /\ Learned = {x \in DOMAIN peers : peers[x].source = "learned"}
      /\ \A x \in Learned : x # local /\ peers[x].url \notin Undialable
  BY <1>0, LearnedSource DEF NoSelfEntries
\* A learned peer is not this node, and has no held URL.
<1>a. Accepts(id, url, source) /\ source = "learned" /\ url \notin DOMAIN urlIndex =>
        /\ id # local /\ url \notin Undialable /\ url \in Url
        /\ \A u \in BootUrls : u = url => ~Held(m, u)
  <2>1. SUFFICES ASSUME Accepts(id, url, source), source = "learned",
                        url \notin DOMAIN urlIndex, NEW u \in BootUrls, u = url, Held(m, u)
                 PROVE  FALSE
    BY DEF Accepts, Caller
  <2>2. u \notin m
    BY <2>1 DEF Accepts, Held
  <2>3. BootId[u] \in DOMAIN peers
    BY <2>1 DEF Caller
  <2> QED
    BY <1>0, <2>1, <2>2, <2>3 DEF IndexOK
<1>1. CASE UNCHANGED table /\ (source = "bootstrap" /\ Held(m, url) => id \in DOMAIN peers)
  <2>1. UNCHANGED <<peers, urlIndex, local>>
    BY <1>1 DEF table
  <2>2. TableOK(m)'
    BY <2>1, <1>0 DEF TableOK, IndexOK, EntriesOK, EntryOK
  <2>3. NoSelfEntries'
    BY <2>1, <1>l DEF NoSelfEntries, Learned, Boots
  <2> QED
    BY <1>1, <2>1, <2>2, <2>3
<1>2. CASE ~Accepts(id, url, source)
  BY <1>1, <1>2 DEF AddPeer, Accepts, Caller
<1>3. CASE Accepts(id, url, source)
  <2>0. AddAccepted(id, url, source)
    BY <1>3 DEF AddPeer
  <2>1. CASE url \in DOMAIN urlIndex
    <3>1. source = "bootstrap" /\ Held(m, url) => id \in DOMAIN peers
      BY <2>1, <1>0 DEF Caller, IndexOK
    <3> QED
      BY <1>1, <2>0, <2>1, <3>1 DEF AddAccepted, Full, Moved
  <2>2. CASE url \notin DOMAIN urlIndex
    <3>1. CASE id \in DOMAIN peers
      <4>1. peers' = [peers EXCEPT ![id].url = url] /\ UNCHANGED urlIndex
        BY <1>0, <2>0, <2>2, <3>1 DEF AddAccepted, Full, Moved
      <4> DEFINE e == [peers[id] EXCEPT !.url = url]
      <4>2. /\ DOMAIN peers' = DOMAIN peers
            /\ peers' = [x \in DOMAIN peers' |-> peers'[x]]
            /\ \A x \in DOMAIN peers : x # id => peers'[x] = peers[x]
            /\ peers'[id] = e
        BY <1>0, <3>1, <4>1 DEF EntriesOK
      <4>3. CASE peers' = peers
        BY <1>1, <3>1, <4>1, <4>3 DEF table
      <4>4. CASE peers' # peers
        <5>1. EntryOK(m, id, peers[id]) /\ peers[id] \in Entry /\ url \in Url \cup BootUrls
          BY <1>0, <3>1 DEF EntriesOK, EntryOK, Caller
        <5>2. /\ e \in Entry /\ e.url = url /\ e.source = peers[id].source
              /\ e.fail = peers[id].fail
          BY <5>1 DEF Entry
        <5> HIDE DEF e
        <5>3. EntryOK(m, id, e)
          <6>1. CASE source = "learned"
            <7>1. \A u \in BootUrls : (id = BootId[u] => u \in m) /\ (u = url => ~Held(m, u))
              BY <1>3, <1>a, <2>2, <4>4, <6>1 DEF Caller
            <7> QED
              BY <5>1, <5>2, <7>1 DEF EntryOK
          <6>2. CASE source = "bootstrap" /\ url \in BootUrls /\ id = BootId[url]
            BY <5>1, <5>2, <6>2, PeerTableAssumption DEF EntryOK
          <6> QED
            BY <6>1, <6>2 DEF Caller
        <5>4. \A x \in DOMAIN peers' : EntryOK(m, x, peers'[x])
          BY <1>0, <4>2, <5>3, Zenon DEF EntriesOK
        <5>5. EntriesOK(m, peers')
          BY <1>0, <4>2, <5>4, ReplaceOK
        <5>6. TableOK(m)'
          BY <1>0, <4>1, <4>2, <5>5 DEF TableOK, IndexOK
        <5>7. peers[id].source = "learned" => url \notin Undialable
          <6>1. CASE source = "learned"
            BY <1>3, <6>1 DEF Accepts
          <6>2. CASE url \in BootUrls /\ id = BootId[url]
            BY <5>1, <6>2 DEF EntryOK, Held
          <6> QED
            BY <6>1, <6>2 DEF Caller
        <5>8. NoSelfEntries'
          <6> SUFFICES ASSUME NEW x \in Learned'
                       PROVE  x # local /\ peers'[x].url \notin Undialable
            BY DEF NoSelfEntries
          <6>1. x \in DOMAIN peers /\ peers'[x].source # "bootstrap"
            BY <4>2 DEF Learned, Boots
          <6>2. x \in Learned
            BY <4>2, <5>2, <6>1 DEF Learned, Boots
          <6> QED
            BY <1>l, <4>2, <5>2, <5>7, <6>2
        <5> QED
          BY <3>1, <4>2, <5>6, <5>8
      <4> QED
        BY <4>3, <4>4
    <3>2. CASE id \notin DOMAIN peers
      <4>0. url \in Url \cup BootUrls /\ source \in {"learned", "bootstrap"}
        BY DEF Caller
      <4> DEFINE e == NewEntry(url, source)
      <4>e. e.url = url /\ e.source = source
        BY DEF NewEntry
      <4>g. peers' # peers =>
              /\ source = "learned" =>
                   \A u \in BootUrls : (id = BootId[u] => ~Held(m, u)) /\ (u = url => ~Held(m, u))
              /\ EntryOK(m, id, e)
        <5>1. ASSUME peers' # peers, source = "learned", NEW u \in BootUrls, id = BootId[u]
              PROVE  ~Held(m, u)
          BY <3>2, <5>1 DEF Caller
        <5> QED
          BY <1>0, <1>3, <1>a, <2>2, <4>0, <5>1, NewEntryOK DEF Caller
      <4> HIDE DEF e
      <4>1. CASE Cardinality(DOMAIN peers) < MaxPeers
        <5>1. /\ peers' = With(peers, id, e)
              /\ urlIndex' = With(urlIndex, url, id)
          BY <1>0, <2>0, <2>2, <3>2, <4>1, FS_CardinalityType, PeerTableAssumption
             DEF AddAccepted, Full, Moved, EntriesOK, e
        <5>3. /\ DOMAIN peers' = DOMAIN peers \cup {id}
              /\ \A x \in DOMAIN peers : peers'[x] = peers[x]
              /\ peers'[id] = e
          BY <3>2, <5>1 DEF With
        <5>c. peers' # peers
          BY <3>2, <5>3
        <5>2. EntriesOK(m, peers')
          BY <1>0, <3>2, <4>g, <4>1, <5>1, <5>c, InsertOK
        <5>4. /\ urlIndex' = [u \in DOMAIN urlIndex' |-> urlIndex'[u]]
              /\ DOMAIN urlIndex' = DOMAIN urlIndex \cup {url}
          BY <5>1 DEF With
        <5>5. ASSUME NEW u \in BootUrls
              PROVE  /\ Held(m, u) /\ u \in DOMAIN urlIndex' => BootId[u] \in DOMAIN peers'
                     /\ u \notin m /\ BootId[u] \in DOMAIN peers' => u \in DOMAIN urlIndex'
          <6>1. Held(m, u) /\ u = url => BootId[u] = id
            BY <4>g, <5>c DEF Caller
          <6>2. u \notin m /\ BootId[u] = id => u = url
            BY <4>g, <5>c, PeerTableAssumption DEF Caller, Held
          <6> QED
            BY <1>0, <5>3, <5>4, <6>1, <6>2 DEF IndexOK
        <5>6. NoSelfEntries'
          <6> SUFFICES ASSUME NEW x \in Learned'
                       PROVE  x # local /\ peers'[x].url \notin Undialable
            BY DEF NoSelfEntries
          <6>1. x \in DOMAIN peers' /\ peers'[x].source # "bootstrap"
            BY DEF Learned, Boots
          <6>2. CASE x \in DOMAIN peers
            BY <1>l, <5>3, <6>1, <6>2 DEF Learned, Boots
          <6>3. CASE x = id
            BY <1>3, <1>a, <2>2, <4>0, <4>e, <5>3, <6>1, <6>3
          <6> QED
            BY <5>3, <6>1, <6>2, <6>3
        <5>7. TableOK(m)'
          BY <1>0, <5>2, <5>4, <5>5 DEF TableOK, IndexOK
        <5> QED
          BY <5>3, <5>6, <5>7
      <4>2. CASE Cardinality(DOMAIN peers) >= MaxPeers /\ Learned = {}
        <5>1. ASSUME url \in BootUrls, id = BootId[url] PROVE FALSE
          <6>1. Cardinality(DOMAIN peers) < MaxPeers
            BY <1>0, <3>2, <4>2, <5>1, RoomForBoot
          <6>2. Cardinality(DOMAIN peers) \in Nat
            BY <1>0, FS_CardinalityType DEF EntriesOK
          <6> QED
            BY <4>2, <6>1, <6>2, PeerTableAssumption
        <5> QED
          BY <1>0, <1>1, <2>0, <2>2, <3>2, <4>2, <5>1, FS_CardinalityType, PeerTableAssumption
             DEF AddAccepted, Full, Moved, Evictable, EntriesOK, Caller
      <4>3. CASE Cardinality(DOMAIN peers) >= MaxPeers /\ Learned # {}
        <5>1. PICK v \in DOMAIN peers :
                /\ v \in Learned
                /\ peers' = With(Without(peers, v), id, e)
                /\ urlIndex' = With(Without(urlIndex, peers[v].url), url, id)
          BY <1>0, <2>0, <2>2, <3>2, <4>3, FS_CardinalityType, PeerTableAssumption
             DEF AddAccepted, Full, Moved, Evictable, EntriesOK, e
        <5>3. /\ DOMAIN peers' = (DOMAIN peers \ {v}) \cup {id}
              /\ \A x \in DOMAIN peers : x # v => peers'[x] = peers[x]
              /\ peers'[id] = e
          BY <3>2, <5>1 DEF With, Without
        <5>c. peers' # peers
          BY <3>2, <5>3
        <5>2. EntriesOK(m, peers')
          <6>1. /\ EntriesOK(m, Without(peers, v))
                /\ Cardinality(DOMAIN Without(peers, v)) < MaxPeers
            BY <1>0, DropOK
          <6>2. id \notin DOMAIN Without(peers, v)
            BY <3>2 DEF Without
          <6> QED
            BY <1>0, <4>g, <5>1, <5>c, <6>1, <6>2, InsertOK
        <5>4. /\ urlIndex' = [u \in DOMAIN urlIndex' |-> urlIndex'[u]]
              /\ DOMAIN urlIndex' = (DOMAIN urlIndex \ {peers[v].url}) \cup {url}
          BY <5>1 DEF With, Without
        <5>5. \A u \in BootUrls : Held(m, u) => v # BootId[u] /\ peers[v].url # u
          BY <1>0, <1>l, <5>1 DEF EntriesOK, EntryOK
        <5>6. ASSUME NEW u \in BootUrls
              PROVE  /\ Held(m, u) /\ u \in DOMAIN urlIndex' => BootId[u] \in DOMAIN peers'
                     /\ u \notin m /\ BootId[u] \in DOMAIN peers' => u \in DOMAIN urlIndex'
          <6>1. Held(m, u) /\ u = url => BootId[u] = id
            BY <4>g, <5>c DEF Caller
          <6>2. u \notin m /\ BootId[u] = id => u = url
            BY <4>g, <5>c, PeerTableAssumption DEF Caller, Held
          <6>3. u \notin m => Held(m, u)
            BY DEF Held
          <6> QED
            BY <1>0, <5>3, <5>4, <5>5, <6>1, <6>2, <6>3 DEF IndexOK
        <5>7. NoSelfEntries'
          <6> SUFFICES ASSUME NEW x \in Learned'
                       PROVE  x # local /\ peers'[x].url \notin Undialable
            BY DEF NoSelfEntries
          <6>1. x \in DOMAIN peers' /\ peers'[x].source # "bootstrap"
            BY DEF Learned, Boots
          <6>2. CASE x \in DOMAIN peers \ {v}
            BY <1>l, <5>3, <6>1, <6>2 DEF Learned, Boots
          <6>3. CASE x = id
            BY <1>3, <1>a, <2>2, <4>0, <4>e, <5>3, <6>1, <6>3
          <6> QED
            BY <5>3, <6>1, <6>2, <6>3
        <5>8. \A u \in BootUrls : Held(m, u) /\ BootId[u] \in DOMAIN peers
                                    => BootId[u] \in DOMAIN peers'
          BY <5>3, <5>5
        <5>9. TableOK(m)'
          BY <1>0, <5>2, <5>4, <5>6 DEF TableOK, IndexOK
        <5> QED
          BY <5>3, <5>7, <5>8, <5>9
      <4> QED
        BY <1>0, <4>1, <4>2, <4>3, FS_CardinalityType, PeerTableAssumption DEF EntriesOK
    <3> QED
      BY <3>1, <3>2
  <2> QED
    BY <2>1, <2>2
<1> QED
  BY <1>2, <1>3

\* update_health keeps a good table; no held bootstrap peer goes.
LEMMA HealthStep ==
  ASSUME NEW m, m = misnamed, TableOK(m), NoSelfEntries, NEW id \in DOMAIN peers,
         local' = local, misnamed' = misnamed,
         HealthFailed(id) \/ HealthPassed(id, Bonus) \/ HealthPassed(id, 0)
  PROVE  /\ TableOK(m)' /\ NoSelfEntries'
         /\ \A u \in BootUrls : Held(m, u) /\ BootId[u] \in DOMAIN peers
                                  => BootId[u] \in DOMAIN peers'
<1> DEFINE e == peers[id]
           count == Least(FailLimit, e.fail + 1)
<1>0. EntriesOK(m, peers) /\ IndexOK(m) /\ local \in Contributor /\ EntryOK(m, id, e)
  BY DEF TableOK, EntriesOK
<1>c. count \in Nat /\ count <= FailLimit
  BY <1>0, PeerTableAssumption DEF EntryOK, Entry, Least
<1> HIDE DEF count
<1>1. CASE \E f : /\ peers' = [peers EXCEPT ![id] = f] /\ UNCHANGED urlIndex
                  /\ EntryOK(m, id, f) /\ f.url = e.url /\ f.source = e.source
  <2>1. PICK f : /\ peers' = [peers EXCEPT ![id] = f] /\ UNCHANGED urlIndex
                 /\ EntryOK(m, id, f) /\ f.url = e.url /\ f.source = e.source
    BY <1>1
  <2>2. /\ DOMAIN peers' = DOMAIN peers
        /\ peers' = [x \in DOMAIN peers' |-> peers'[x]]
        /\ \A x \in DOMAIN peers : x # id => peers'[x] = peers[x]
        /\ peers'[id] = f
    BY <1>0, <2>1 DEF EntriesOK
  <2>3. \A x \in DOMAIN peers' : EntryOK(m, x, peers'[x])
    BY <1>0, <2>1, <2>2, Zenon DEF EntriesOK
  <2>4. EntriesOK(m, peers')
    BY <1>0, <2>2, <2>3, ReplaceOK
  <2>5. \A x \in DOMAIN peers : peers'[x].url = peers[x].url /\ peers'[x].source = peers[x].source
    BY <2>1, <2>2
  <2> QED
    BY <1>0, <2>1, <2>2, <2>4, <2>5 DEF TableOK, IndexOK, NoSelfEntries, Learned, Boots
<1>2. CASE /\ peers' = Without(peers, id) /\ urlIndex' = Without(urlIndex, e.url)
           /\ e.source = "learned"
  <2>1. EntriesOK(m, peers')
    BY <1>0, <1>2, DropOK
  <2>2. \A u \in BootUrls : Held(m, u) => id # BootId[u] /\ e.url # u
    BY <1>0, <1>2 DEF EntryOK
  <2>3. /\ DOMAIN peers' = DOMAIN peers \ {id}
        /\ \A x \in DOMAIN peers' : peers'[x] = peers[x]
        /\ DOMAIN urlIndex' = DOMAIN urlIndex \ {e.url}
        /\ urlIndex' = [u \in DOMAIN urlIndex' |-> urlIndex'[u]]
    BY <1>2 DEF Without
  <2>4. \A u : u \notin m => Held(m, u)
    BY DEF Held
  <2>5. IndexOK(m)'
    BY <1>0, <2>2, <2>3, <2>4 DEF IndexOK
  <2>6. NoSelfEntries'
    BY <2>3 DEF NoSelfEntries, Learned, Boots
  <2> QED
    BY <1>0, <2>1, <2>2, <2>3, <2>5, <2>6 DEF TableOK
<1>3. ASSUME NEW b \in Nat, HealthPassed(id, b)
      PROVE  \E f : /\ peers' = [peers EXCEPT ![id] = f] /\ UNCHANGED urlIndex
                    /\ EntryOK(m, id, f) /\ f.url = e.url /\ f.source = e.source
  <2>1. EntryOK(m, id, [e EXCEPT !.fail = 0]) /\ [e EXCEPT !.fail = 0] \in Entry
    BY <1>0, PeerTableAssumption DEF EntryOK, Entry
  <2>2. EntryOK(m, id, Adjusted([e EXCEPT !.fail = 0], b))
    BY <2>1, AdjustedOK
  <2>3. /\ Adjusted([e EXCEPT !.fail = 0], b).url = e.url
        /\ Adjusted([e EXCEPT !.fail = 0], b).source = e.source
    BY <1>0, <2>1, AdjustedFacts DEF EntryOK, Entry
  <2> QED
    BY <1>3, <2>2, <2>3 DEF HealthPassed
<1>4. CASE HealthFailed(id)
  <2>1. CASE count >= FailLimit /\ e.source # "bootstrap"
    BY <1>0, <1>2, <1>4, <2>1 DEF HealthFailed, EntryOK, Entry, count
  <2>2. CASE ~(count >= FailLimit /\ e.source # "bootstrap")
    <3>1. EntryOK(m, id, [e EXCEPT !.fail = count]) /\ [e EXCEPT !.fail = count] \in Entry
      BY <1>0, <1>c, <2>2, PeerTableAssumption DEF EntryOK, Entry
    <3>2. -Penalty \in Int
      BY PeerTableAssumption
    <3>3. EntryOK(m, id, Adjusted([e EXCEPT !.fail = count], -Penalty))
      BY <3>1, <3>2, AdjustedOK
    <3>4. /\ Adjusted([e EXCEPT !.fail = count], -Penalty).url = e.url
          /\ Adjusted([e EXCEPT !.fail = count], -Penalty).source = e.source
      BY <1>0, <3>1, <3>2, AdjustedFacts DEF EntryOK, Entry
    <3>5. /\ peers' = [peers EXCEPT ![id] = Adjusted([e EXCEPT !.fail = count], -Penalty)]
          /\ UNCHANGED urlIndex
      BY <1>4, <2>2 DEF HealthFailed, count
    <3> QED
      BY <1>1, <3>3, <3>4, <3>5
  <2> QED
    BY <2>1, <2>2
<1> QED
  BY <1>1, <1>3, <1>4, PeerTableAssumption

-----------------------------------------------------------------------------
(* The inductive invariant.                                                *)

\* An empty table is good.
LEMMA EmptyOK == \A m : EntriesOK(m, Empty)
BY FS_EmptySet, PeerTableAssumption DEF EntriesOK, Empty

LEMMA InitInv == Init => Inv
BY EmptyOK DEF Init, Inv, TableInv, TableOK, IndexOK, StartInv, SaveInv, NoSelfEntries,
               Learned, Boots, SnapshotIsConsistent, Empty

\* A start finds in sync_state, or without it, a good table.
LEMMA StartStep ==
  ASSUME Inv, Start PROVE TableInv' /\ NoSelfEntries'
<1> DEFINE m == misnamed
<1>1. PICK ids \in SUBSET DOMAIN db : LoadRows(ids) /\ ids \subseteq Loadable
  BY DEF Start, Loadable
<1>2. EntriesOK(m, db) /\ m' = m /\ m \subseteq BootUrls
  BY DEF Inv, SaveInv, TableInv, Start
<1> HIDE DEF m
<1>3. /\ DOMAIN peers' = ids
      /\ peers' = [id \in DOMAIN peers' |-> peers'[id]]
      /\ \A id \in DOMAIN peers' : peers'[id] = db[id]
  BY <1>1 DEF LoadRows
<1>4. EntriesOK(m, peers')
  BY <1>1, <1>2, <1>3, SubsetOK
<1>5. /\ DOMAIN urlIndex' = {db[id].url : id \in ids}
      /\ urlIndex' = [u \in DOMAIN urlIndex' |-> urlIndex'[u]]
  BY <1>1 DEF LoadRows
<1>6. ASSUME NEW u \in BootUrls
      PROVE  /\ Held(m, u) /\ u \in DOMAIN urlIndex' => BootId[u] \in DOMAIN peers'
             /\ u \notin m /\ BootId[u] \in DOMAIN peers' => u \in DOMAIN urlIndex'
  <2>1. ASSUME NEW id \in ids, db[id].url = u, Held(m, u) PROVE id = BootId[u]
    BY <1>1, <1>2, <2>1 DEF EntriesOK, EntryOK
  <2>2. u \notin m /\ BootId[u] \in ids => db[BootId[u]].url = u
    BY <1>1, <1>2 DEF EntriesOK, EntryOK
  <2> QED
    BY <1>3, <1>5, <2>1, <2>2
<1>7. NoSelfEntries'
  BY <1>1, <1>3 DEF NoSelfEntries, Loadable, Learned, Boots
<1>8. local' \in Contributor
  BY DEF Start
<1>9. IndexOK(m)'
  BY <1>2, <1>5, <1>6 DEF IndexOK
<1> QED
  BY <1>2, <1>4, <1>7, <1>8, <1>9 DEF TableInv, TableOK, m

LEMMA InvStep == Inv /\ [Next]_vars => Inv'
<1> SUFFICES ASSUME Inv, [Next]_vars PROVE Inv'
  OBVIOUS
<1>i. TableInv /\ StartInv /\ SaveInv /\ (mode # "down" => NoSelfEntries)
  BY DEF Inv
<1>t. TableOK(misnamed) /\ misnamed \subseteq BootUrls
  BY <1>i DEF TableInv
<1>u. ASSUME UNCHANGED <<peers, urlIndex, local, misnamed>>
      PROVE  TableInv' /\ (NoSelfEntries => NoSelfEntries')
  BY <1>i, <1>u DEF TableInv, TableOK, IndexOK, EntriesOK, EntryOK, NoSelfEntries, Learned, Boots
\* A step that leaves most alone.
<1>s. ASSUME UNCHANGED <<mode, toBoot, misnamed, db, saving>>,
             ~saving \/ (UNCHANGED <<peers, unsaved>>),
             \A u \in BootUrls : Held(misnamed, u) /\ BootId[u] \in DOMAIN peers
                                   => BootId[u] \in DOMAIN peers'
      PROVE  StartInv' /\ SaveInv'
  BY <1>i, <1>s DEF StartInv, SaveInv, SnapshotIsConsistent
<1>1. CASE Start
  <2>1. TableInv' /\ NoSelfEntries'
    BY <1>1, StartStep
  <2>2. ~saving /\ UNCHANGED <<db, saving>>
    BY <1>1, <1>i DEF Start, SaveInv
  <2>3. StartInv' /\ SaveInv'
    BY <1>1, <1>i, <2>2 DEF Start, StartInv, SaveInv, SnapshotIsConsistent
  <2> QED
    BY <2>1, <2>3 DEF Inv
<1>2. ASSUME NEW u \in BootUrls, Bootstrap(u) PROVE Inv'
  <2>1. /\ mode = "starting" /\ UNCHANGED <<local, mode, saver, misnamed>> /\ ~saving
        /\ toBoot' = toBoot \ {u}
    BY <1>2, <1>i DEF Bootstrap, SaveInv, saver
  <2>2. PICK m : m = misnamed
    OBVIOUS
  <2>3. Caller(m, BootId[u], u, "bootstrap") /\ AddPeer(BootId[u], u, "bootstrap")
    BY <1>2 DEF Caller, Bootstrap
  <2>4. /\ TableOK(m)' /\ NoSelfEntries'
        /\ Held(m, u) => BootId[u] \in DOMAIN peers'
        /\ \A v \in BootUrls : Held(m, v) /\ BootId[v] \in DOMAIN peers
                                 => BootId[v] \in DOMAIN peers'
    BY <1>i, <1>t, <2>1, <2>2, <2>3, AddStep
  <2>5. StartInv'
    BY <1>i, <2>1, <2>2, <2>4 DEF StartInv
  <2>6. SaveInv'
    BY <1>i, <2>1 DEF SaveInv, SnapshotIsConsistent, saver
  <2>7. TableInv'
    BY <1>t, <2>1, <2>2, <2>4 DEF TableInv
  <2> QED
    BY <2>4, <2>5, <2>6, <2>7 DEF Inv
<1>3. CASE Started
  <2>1. UNCHANGED <<peers, urlIndex, local, misnamed, db, saving, unsaved, toBoot>>
        /\ mode = "starting" /\ mode' = "up" /\ toBoot = {}
    BY <1>3 DEF Started, table, saver
  <2> QED
    BY <1>i, <1>u, <2>1 DEF Inv, StartInv, SaveInv, SnapshotIsConsistent
<1>4. ASSUME NEW id \in Ids, NEW url \in Url, Learn(id, url) PROVE Inv'
  <2>1. /\ mode = "up" /\ ~saving /\ UNCHANGED <<local, mode, toBoot, saver>>
        /\ toBoot = {}
        /\ misnamed' = misnamed \cup {u \in BootUrls : id = BootId[u] /\ peers' # peers}
    BY <1>4, <1>i DEF Learn, Writable, StartInv
  <2>2. PICK m : m = misnamed'
    OBVIOUS
  <2>3. misnamed \subseteq m /\ m \subseteq BootUrls
    BY <1>t, <2>1, <2>2
  <2>h. \A u : Held(m, u) => Held(misnamed, u)
    BY <2>3 DEF Held
  <2>4. TableOK(m) /\ EntriesOK(m, db)
    <3>1. EntriesOK(m, peers) /\ EntriesOK(m, db)
      BY <1>i, <1>t, <2>3, WeakerOK DEF TableOK, SaveInv
    <3>2. IndexOK(m)
      BY <1>t, <2>3, <2>h DEF IndexOK, TableOK
    <3> QED
      BY <1>t, <3>1, <3>2 DEF TableOK
  <2>5. Caller(m, id, url, "learned") /\ AddPeer(id, url, "learned")
    BY <1>4, <1>i, <2>1, <2>2, <2>h DEF Caller, Learn, StartInv
  <2>6. /\ TableOK(m)' /\ NoSelfEntries'
        /\ \A u \in BootUrls : Held(m, u) /\ BootId[u] \in DOMAIN peers
                                 => BootId[u] \in DOMAIN peers'
    BY <1>i, <2>1, <2>2, <2>4, <2>5, AddStep
  <2>7. StartInv'
    BY <1>i, <2>1, <2>2, <2>6, <2>h DEF StartInv
  <2>8. SaveInv'
    BY <1>i, <2>1, <2>2, <2>4 DEF SaveInv, SnapshotIsConsistent, saver
  <2>9. TableInv'
    BY <2>2, <2>3, <2>6 DEF TableInv
  <2> QED
    BY <2>6, <2>7, <2>8, <2>9 DEF Inv
<1>5. CASE Age
  <2>1. /\ mode = "up" /\ ~saving
        /\ UNCHANGED <<urlIndex, local, mode, toBoot, saver, misnamed>>
        /\ peers' = [id \in DOMAIN peers |-> Adjusted(peers[id], Longevity)]
    BY <1>5 DEF Age, Writable
  <2>m. PICK m : m = misnamed
    OBVIOUS
  <2>e. EntriesOK(m, peers) /\ IndexOK(m)
    BY <1>t, <2>m DEF TableOK
  <2>2. \A id \in DOMAIN peers : /\ EntryOK(m, id, peers'[id])
                                /\ peers'[id].url = peers[id].url
                                /\ peers'[id].source = peers[id].source
    <3> SUFFICES ASSUME NEW id \in DOMAIN peers
                 PROVE  /\ EntryOK(m, id, peers'[id])
                        /\ peers'[id].url = peers[id].url
                        /\ peers'[id].source = peers[id].source
      OBVIOUS
    <3>1. EntryOK(m, id, peers[id]) /\ Longevity \in Int
      BY <2>e, PeerTableAssumption DEF EntriesOK
    <3>2. EntryOK(m, id, Adjusted(peers[id], Longevity))
      BY <3>1, AdjustedOK
    <3>3. /\ Adjusted(peers[id], Longevity).url = peers[id].url
          /\ Adjusted(peers[id], Longevity).source = peers[id].source
      BY <3>1, AdjustedFacts DEF EntryOK
    <3> QED
      BY <2>1, <3>2, <3>3
  <2>3. DOMAIN peers' = DOMAIN peers /\ peers' = [id \in DOMAIN peers' |-> peers'[id]]
    BY <2>1
  <2>4. EntriesOK(m, peers')
    BY <2>e, <2>2, <2>3, ReplaceOK
  <2>5. TableOK(m)'
    BY <1>t, <2>1, <2>3, <2>4, <2>e DEF TableOK, IndexOK
  <2>6. TableInv' /\ NoSelfEntries'
    BY <1>i, <1>t, <2>1, <2>2, <2>3, <2>5, <2>m DEF TableInv, NoSelfEntries, Learned, Boots
  <2>7. StartInv' /\ SaveInv'
    BY <1>s, <2>1, <2>3 DEF saver
  <2> QED
    BY <2>6, <2>7 DEF Inv
<1>6. CASE PersistDelete
  <2>1. EntriesOK(misnamed', db') /\ DOMAIN db' = {}
    BY <1>6, EmptyOK DEF PersistDelete, Empty
  <2>2. /\ mode \in {"up", "stopping"} /\ saving' = TRUE /\ unsaved' = DOMAIN peers
        /\ UNCHANGED <<table, local, mode, toBoot, misnamed>>
    BY <1>6 DEF PersistDelete
  <2> QED
    BY <1>i, <1>u, <2>1, <2>2 DEF Inv, StartInv, SaveInv, SnapshotIsConsistent, table
<1>7. ASSUME NEW id \in Ids, PersistInsert(id) PROVE Inv'
  <2>1. /\ saving /\ id \in unsaved
        /\ db' = With(db, id, peers[id]) /\ unsaved' = unsaved \ {id}
        /\ UNCHANGED <<table, local, mode, toBoot, saving, misnamed>>
    BY <1>7 DEF PersistInsert
  <2>2. /\ DOMAIN db' = DOMAIN db \cup {id}
        /\ db' = [x \in DOMAIN db' |-> db'[x]]
        /\ \A x \in DOMAIN db' : db'[x] = IF x = id THEN peers[id] ELSE db[x]
    BY <2>1 DEF With
  <2>3. SnapshotIsConsistent'
    BY <1>i, <2>1, <2>2 DEF SaveInv, SnapshotIsConsistent, table
  <2>4. \A x \in DOMAIN db' : x \in DOMAIN peers /\ db'[x] = peers[x]
    BY <1>i, <2>1, <2>2 DEF SaveInv, SnapshotIsConsistent
  <2>5. EntriesOK(misnamed', db')
    BY <1>t, <2>1, <2>2, <2>4, SubsetOK DEF TableOK
  <2> QED
    BY <1>i, <1>u, <2>1, <2>3, <2>5 DEF Inv, StartInv, SaveInv, table
<1>8. CASE PersistEnd \/ PersistError
  <2>1. /\ saving' = FALSE /\ UNCHANGED <<table, local, db, toBoot, misnamed>>
        /\ mode' \in {mode, "down"}
    BY <1>8 DEF PersistEnd, PersistError, PersistReturn
  <2> QED
    BY <1>i, <1>u, <2>1 DEF Inv, StartInv, SaveInv, SnapshotIsConsistent, table
<1>9. CASE GossipRound \/ (\E id \in Ids : Dial(id)) \/ FetchFailed
  <2>1. UNCHANGED <<table, local, mode, toBoot, saver, misnamed>>
    BY <1>9 DEF GossipRound, Dial, FetchFailed
  <2> QED
    BY <1>i, <1>u, <1>s, <2>1 DEF Inv, table, saver
<1>10. ASSUME NEW max \in 0..MaxSeq, Fetched(max) PROVE Inv'
  <2>1. /\ mode = "up" /\ UNCHANGED <<urlIndex, local, mode, toBoot, saver, misnamed>>
    BY <1>10 DEF Fetched
  <2>2. CASE UNCHANGED peers
    BY <1>i, <1>u, <1>s, <2>1, <2>2 DEF Inv, saver
  <2>3. CASE /\ partner \in DOMAIN peers /\ ~saving
             /\ peers' = [peers EXCEPT ![partner].seq = Greatest(@, max)]
    <3>m. PICK m : m = misnamed
      OBVIOUS
    <3>t. EntriesOK(m, peers) /\ IndexOK(m)
      BY <1>t, <3>m DEF TableOK
    <3> DEFINE e == [peers[partner] EXCEPT !.seq = Greatest(@, max)]
    <3>1. /\ DOMAIN peers' = DOMAIN peers
          /\ peers' = [x \in DOMAIN peers' |-> peers'[x]]
          /\ \A x \in DOMAIN peers : x # partner => peers'[x] = peers[x]
          /\ peers'[partner] = e
      BY <3>t, <2>3 DEF EntriesOK
    <3>2. EntryOK(m, partner, peers[partner])
      BY <3>t, <2>3 DEF EntriesOK
    <3>3. /\ EntryOK(m, partner, e) /\ e.url = peers[partner].url
          /\ e.source = peers[partner].source
      BY <3>2, PeerTableAssumption DEF EntryOK, Entry, Greatest
    <3> HIDE DEF e
    <3>4. \A x \in DOMAIN peers' : EntryOK(m, x, peers'[x])
      BY <3>t, <3>1, <3>3, Zenon DEF EntriesOK
    <3>5. EntriesOK(m, peers')
      BY <3>t, <3>1, <3>4, ReplaceOK
    <3>6. TableOK(m)'
      BY <1>t, <2>1, <3>1, <3>5, <3>t DEF TableOK, IndexOK
    <3>s. \A x \in DOMAIN peers :
            peers'[x].url = peers[x].url /\ peers'[x].source = peers[x].source
      BY <3>1, <3>3
    <3>7. TableInv' /\ NoSelfEntries'
      BY <1>i, <1>t, <2>1, <3>1, <3>s, <3>6, <3>m DEF TableInv, NoSelfEntries, Learned, Boots
    <3>8. StartInv' /\ SaveInv'
      BY <1>s, <2>1, <2>3, <3>1 DEF saver
    <3> QED
      BY <3>7, <3>8 DEF Inv
  <2> QED
    BY <1>10, <2>2, <2>3 DEF Fetched
<1>11. CASE Report
  <2>1. /\ mode = "up" /\ ~saving /\ UNCHANGED <<local, mode, toBoot, saver, misnamed>>
    BY <1>11 DEF Report, Writable
  <2>2. CASE UNCHANGED table
    BY <1>i, <1>u, <1>s, <2>1, <2>2 DEF Inv, table, saver
  <2>3. CASE /\ partner \in DOMAIN peers
             /\ \/ HealthFailed(partner)
                \/ HealthPassed(partner, Bonus)
                \/ HealthPassed(partner, 0)
    <3>m. PICK m : m = misnamed
      OBVIOUS
    <3>1. /\ TableOK(m)' /\ NoSelfEntries'
          /\ \A u \in BootUrls : Held(m, u) /\ BootId[u] \in DOMAIN peers
                                   => BootId[u] \in DOMAIN peers'
      BY <1>i, <1>t, <2>1, <2>3, <3>m, HealthStep
    <3>2. StartInv' /\ SaveInv'
      BY <1>s, <2>1, <3>1, <3>m DEF saver
    <3>3. TableInv'
      BY <1>t, <2>1, <3>1, <3>m DEF TableInv
    <3> QED
      BY <3>1, <3>2, <3>3 DEF Inv
  <2> QED
    BY <1>11, <2>2, <2>3 DEF Report
<1>12. CASE Stop \/ Crash
  <2>1. /\ saving' = FALSE /\ UNCHANGED <<table, local, db, misnamed>>
        /\ \/ mode' = "down" /\ toBoot' = {}
           \/ mode = "up" /\ mode' = "stopping" /\ toBoot' = toBoot
    BY <1>12 DEF Stop, Crash, Quiet
  <2> QED
    BY <1>i, <1>u, <2>1 DEF Inv, StartInv, SaveInv, SnapshotIsConsistent, table
<1>13. CASE UNCHANGED vars
  BY <1>i, <1>u, <1>13 DEF Inv, StartInv, SaveInv, SnapshotIsConsistent, vars
<1> QED
  BY <1>1, <1>2, <1>3, <1>4, <1>5, <1>6, <1>7, <1>8, <1>9, <1>10, <1>11, <1>12, <1>13
     DEF Next, Persist, Gossip

-----------------------------------------------------------------------------
(* The properties.                                                         *)

\* The table never outgrows max_peers.
THEOREM Bounded == Spec => []TableBounded
<1>1. Inv => TableBounded
  BY DEF Inv, TableInv, TableOK, EntriesOK, TableBounded
<1> QED
  BY <1>1, InitInv, InvStep, PTL DEF Spec

\* No learned peer of a running node is the node itself or undialable.
THEOREM NeverSelf == Spec => []NoSelfPeer
<1>1. Inv => NoSelfPeer
  BY DEF Inv, NoSelfPeer, NoSelfEntries
<1> QED
  BY <1>1, InitInv, InvStep, PTL DEF Spec

\* A learned peer at the failure limit is not in the table.
THEOREM FailuresBounded == Spec => []FailuresBelowLimit
<1>1. Inv => FailuresBelowLimit
  <2>1. Inv => EntriesOK(misnamed, peers)
    BY DEF Inv, TableInv, TableOK
  <2> QED
    BY <2>1, LearnedSource DEF EntriesOK, EntryOK, FailuresBelowLimit
<1> QED
  BY <1>1, InitInv, InvStep, PTL DEF Spec

\* A running node has all its configured bootstrap peers, under their URLs,
\* through partial persists, failed loads, evictions and changes of identity,
\* but for those whose id discovery accepted with another URL.
THEOREM BootstrapStays == Spec => []BootstrapPresent
<1>1. Inv => BootstrapPresent
  <2> SUFFICES ASSUME Inv, mode \in {"up", "stopping"}, NEW u \in BootUrls \ misnamed
               PROVE  BootId[u] \in Boots /\ peers[BootId[u]].url = u
    BY DEF BootstrapPresent
  <2>1. Held(misnamed, u)
    BY DEF Held
  <2>2. BootId[u] \in DOMAIN peers
    BY <2>1 DEF Inv, StartInv
  <2>3. EntryOK(misnamed, BootId[u], peers[BootId[u]])
    BY <2>2 DEF Inv, TableInv, TableOK, EntriesOK
  <2> QED
    BY <2>1, <2>2, <2>3 DEF EntryOK, Entry, Boots
<1> QED
  BY <1>1, InitInv, InvStep, PTL DEF Spec

\* What persist has written so far is the table's.
THEOREM SnapshotConsistent == Spec => []SnapshotIsConsistent
<1>1. Inv => SnapshotIsConsistent
  BY DEF Inv, SaveInv
<1> QED
  BY <1>1, InitInv, InvStep, PTL DEF Spec

\* No peer that stays in a running node's table loses watermark.
THEOREM WatermarksGrow == Spec => WatermarkMonotone
<1> DEFINE Kept == \A id \in DOMAIN peers \cap DOMAIN peers' :
                     peers'[id].seq >= peers[id].seq
<1>1. Inv /\ [Next]_vars => [mode # "down" => Kept]_vars
  <2> SUFFICES ASSUME Inv, Next, mode # "down" PROVE Kept
    OBVIOUS
  <2>1. \A id \in DOMAIN peers : peers[id] \in Entry
    BY DEF Inv, TableInv, TableOK, EntriesOK, EntryOK
  <2>2. \A id \in DOMAIN peers : peers[id].seq \in Nat
    BY <2>1 DEF Entry
  <2>3. CASE UNCHANGED peers
    BY <2>2, <2>3
  <2>4. ASSUME NEW id, NEW url, NEW source, AddPeer(id, url, source) PROVE Kept
    <3>1. CASE UNCHANGED table
      BY <2>3, <3>1 DEF table
    <3>2. CASE peers' = [peers EXCEPT ![id].url = url]
      BY <2>1, <2>2, <3>2 DEF Entry
    <3>3. CASE id \notin DOMAIN peers /\ peers' = With(peers, id, NewEntry(url, source))
      BY <2>2, <3>3 DEF With
    <3>4. CASE /\ id \notin DOMAIN peers
               /\ \E v \in DOMAIN peers :
                    peers' = With(Without(peers, v), id, NewEntry(url, source))
      BY <2>2, <3>4 DEF With, Without
    <3> QED
      BY <2>4, <3>1, <3>2, <3>3, <3>4 DEF AddPeer, AddAccepted, Full, Moved
  <2>5. ASSUME NEW u \in BootUrls, Bootstrap(u) PROVE Kept
    BY <2>4, <2>5 DEF Bootstrap
  <2>6. ASSUME NEW id \in Ids, NEW url \in Url, Learn(id, url) PROVE Kept
    BY <2>4, <2>6 DEF Learn
  <2>7. CASE Age
    <3>1. \A id \in DOMAIN peers : Adjusted(peers[id], Longevity).seq = peers[id].seq
      BY <2>1, AdjustedFacts, PeerTableAssumption
    <3> QED
      BY <2>2, <2>7, <3>1 DEF Age
  <2>8. ASSUME NEW max \in 0..MaxSeq, Fetched(max) PROVE Kept
    <3>1. CASE peers' = [peers EXCEPT ![partner].seq = Greatest(@, max)]
      BY <2>1, <2>2, <3>1, PeerTableAssumption DEF Greatest, Entry
    <3> QED
      BY <2>3, <2>8, <3>1 DEF Fetched
  <2>9. CASE Report
    <3>1. CASE /\ partner \in DOMAIN peers
               /\ \E e \in Entry, d \in Int : /\ e.seq = peers[partner].seq
                    /\ peers' = [peers EXCEPT ![partner] = Adjusted(e, d)]
      BY <2>2, <3>1, AdjustedFacts
    <3>2. CASE peers' = Without(peers, partner)
      BY <2>2, <3>2 DEF Without
    <3>3. ASSUME partner \in DOMAIN peers, NEW b \in Nat, HealthPassed(partner, b)
          PROVE  Kept
      <4> DEFINE e == [peers[partner] EXCEPT !.fail = 0]
      <4>1. e \in Entry /\ e.seq = peers[partner].seq
        BY <2>1, <3>3 DEF Entry
      <4>2. peers' = [peers EXCEPT ![partner] = Adjusted(e, b)]
        BY <3>3 DEF HealthPassed
      <4>3. b \in Int
        OBVIOUS
      <4> HIDE DEF e
      <4> QED
        BY <3>1, <3>3, <4>1, <4>2, <4>3
    <3>4. ASSUME partner \in DOMAIN peers, HealthFailed(partner)
          PROVE  Kept
      <4> DEFINE count == Least(FailLimit, peers[partner].fail + 1)
      <4>1. peers[partner] \in Entry
        BY <2>1, <3>4
      <4>2. count \in Nat /\ -Penalty \in Int
        BY <4>1, PeerTableAssumption DEF Entry, Least
      <4>3. /\ [peers[partner] EXCEPT !.fail = count] \in Entry
            /\ [peers[partner] EXCEPT !.fail = count].seq = peers[partner].seq
        BY <4>1, <4>2 DEF Entry
      <4>4. \/ peers' = Without(peers, partner)
            \/ peers' = [peers EXCEPT ![partner] =
                           Adjusted([peers[partner] EXCEPT !.fail = count], -Penalty)]
        BY <3>4 DEF HealthFailed
      <4>5. CASE peers' = [peers EXCEPT ![partner] =
                    Adjusted([peers[partner] EXCEPT !.fail = count], -Penalty)]
        <5> DEFINE e == [peers[partner] EXCEPT !.fail = count]
        <5>1. e \in Entry /\ e.seq = peers[partner].seq
          BY <4>3
        <5>2. peers' = [peers EXCEPT ![partner] = Adjusted(e, -Penalty)]
          BY <4>5
        <5> HIDE DEF e
        <5> QED
          BY <3>1, <3>4, <4>2, <5>1, <5>2
      <4> QED
        BY <3>2, <4>4, <4>5
    <3> QED
      BY <2>3, <2>9, <3>3, <3>4, PeerTableAssumption DEF Report, table
  <2>10. CASE Started \/ Persist \/ PersistError \/ GossipRound \/ FetchFailed
              \/ (\E id \in Ids : Dial(id)) \/ Stop \/ Crash
    <3>1. UNCHANGED peers
      BY <2>10 DEF Started, Persist, PersistDelete, PersistInsert, PersistEnd, PersistError,
                   PersistReturn, GossipRound, FetchFailed, Dial, Stop, Crash, table
    <3> QED
      BY <2>3, <3>1
  <2> QED
    BY <2>5, <2>6, <2>7, <2>8, <2>9, <2>10 DEF Next, Start, Gossip
<1> QED
  BY <1>1, InitInv, InvStep, PTL DEF Spec, WatermarkMonotone

-----------------------------------------------------------------------------
(* Types.                                                                  *)

\* What the index maps, and what the loops remember between their steps.
IndexTypes ==
  /\ DOMAIN urlIndex \subseteq Url \cup BootUrls
  /\ \A u \in DOMAIN urlIndex : urlIndex[u] \in Ids

LoopTypes ==
  /\ mode \in {"starting", "up", "stopping", "down"}
  /\ disc \in {"pex", "persist"}
  /\ unsaved \subseteq Ids
  /\ phase \in {"sleep", "next", "fetch", "report"}
  /\ targets \subseteq Ids
  /\ partner \in Ids \cup {NoPeer}
  /\ read \in Nat
  /\ outcome \in {"none", "merged", "ok", "error"}
  /\ faults \in Nat

\* add_peer indexes the URL it was given under the id it was given.
LEMMA AddIndexes ==
  ASSUME IndexTypes, NEW id \in Ids, NEW url \in Url \cup BootUrls, NEW source,
         AddPeer(id, url, source)
  PROVE  IndexTypes'
<1>1. CASE UNCHANGED urlIndex
  BY <1>1 DEF IndexTypes
<1>2. CASE urlIndex' = With(urlIndex, url, id)
  BY <1>2 DEF IndexTypes, With
<1>3. CASE \E old : urlIndex' = With(Without(urlIndex, old), url, id)
  BY <1>3 DEF IndexTypes, With, Without
<1> QED
  BY <1>1, <1>2, <1>3 DEF AddPeer, AddAccepted, table

\* Loaded rows are indexed by their own URLs and ids.
LEMMA LoadIndexes ==
  ASSUME EntriesOK(misnamed, db), NEW ids \in SUBSET DOMAIN db, LoadRows(ids)
  PROVE  IndexTypes'
<1>1. \A id \in ids : id \in Ids /\ db[id].url \in Url \cup BootUrls
  BY DEF EntriesOK, EntryOK, Entry
<1>2. PICK last \in [{db[id].url : id \in ids} -> ids] : urlIndex' = last
  BY DEF LoadRows
<1> QED
  BY <1>1, <1>2 DEF IndexTypes

LEMMA IndexStep ==
  ASSUME Inv, IndexTypes, Next
  PROVE  IndexTypes'
<1>1. CASE UNCHANGED urlIndex
  BY <1>1 DEF IndexTypes
<1>2. CASE Start
  <2>1. {} \in SUBSET DOMAIN db /\ Loadable \in SUBSET DOMAIN db
    BY DEF Loadable
  <2> QED
    BY <1>2, <2>1, LoadIndexes DEF Start, Inv, SaveInv
<1>3. ASSUME NEW u \in BootUrls, Bootstrap(u) PROVE IndexTypes'
  BY <1>3, AddIndexes DEF Bootstrap, Ids
<1>4. ASSUME NEW id \in Ids, NEW url \in Url, Learn(id, url) PROVE IndexTypes'
  BY <1>4, AddIndexes DEF Learn, Ids
<1>5. CASE Report
  <2>1. CASE UNCHANGED table
    BY <1>1, <2>1 DEF table
  <2>2. CASE HealthFailed(partner)
    BY <1>1, <2>2 DEF HealthFailed, IndexTypes, Without
  <2>3. CASE HealthPassed(partner, Bonus) \/ HealthPassed(partner, 0)
    BY <1>1, <2>3 DEF HealthPassed
  <2> QED
    BY <1>5, <2>1, <2>2, <2>3 DEF Report
<1>6. CASE \/ Started \/ Age \/ Persist \/ PersistError \/ Stop \/ Crash
           \/ GossipRound \/ FetchFailed
           \/ (\E id \in Ids : Dial(id)) \/ (\E max \in 0..MaxSeq : Fetched(max))
  <2>1. UNCHANGED urlIndex
    BY <1>6 DEF Started, Age, Persist, PersistDelete, PersistInsert, PersistEnd,
                PersistError, PersistReturn, Stop, Crash, GossipRound, FetchFailed,
                Dial, Fetched, table
  <2> QED
    BY <1>1, <2>1
<1> QED
  BY <1>2, <1>3, <1>4, <1>5, <1>6 DEF Next, Gossip

\* A loop that is cut short remembers nothing.
LEMMA QuietTypes ==
  ASSUME Quiet, mode' \in {"stopping", "down"}, faults' \in Nat
  PROVE  LoopTypes'
BY DEF Quiet, LoopTypes

LEMMA LoopStep ==
  ASSUME Inv, LoopTypes, Next
  PROVE  LoopTypes'
<1> USE DEF LoopTypes
<1>p. DOMAIN peers \subseteq Ids /\ \A id \in DOMAIN peers : peers[id].seq \in Nat
  BY DEF Inv, TableInv, TableOK, EntriesOK, EntryOK, Entry
<1>1. CASE Start \/ Started \/ \E u \in BootUrls : Bootstrap(u)
  BY <1>1 DEF Start, Started, Bootstrap, gossip, saver
<1>2. CASE Age \/ \E id \in Ids, url \in Url : Learn(id, url)
  BY <1>2 DEF Learn, Age, gossip, saver
<1>3. CASE Persist \/ PersistError
  <2>1. CASE PersistDelete
    BY <1>p, <2>1 DEF PersistDelete, gossip
  <2>2. CASE \E id \in Ids : PersistInsert(id)
    BY <2>2 DEF PersistInsert, gossip
  <2>3. CASE PersistEnd \/ PersistError
    BY <2>3 DEF PersistEnd, PersistError, PersistReturn, gossip
  <2> QED
    BY <1>3, <2>1, <2>2, <2>3 DEF Persist
<1>4. CASE GossipRound
  BY <1>p, <1>4 DEF GossipRound, saver
<1>5. ASSUME NEW id \in Ids, Dial(id) PROVE LoopTypes'
  BY <1>p, <1>5 DEF Dial, saver
<1>6. CASE FetchFailed \/ Report \/ \E max \in 0..MaxSeq : Fetched(max)
  BY <1>6 DEF FetchFailed, Report, Fetched, saver
<1>7. CASE Stop \/ Crash
  BY <1>7, QuietTypes DEF Stop, Crash
<1> QED
  BY <1>1, <1>2, <1>3, <1>4, <1>5, <1>6, <1>7 DEF Next, Gossip

\* Every variable keeps its type: a reputation stays in 0..RepMax under the
\* bonuses and penalties of loops that know nothing of each other, and a row
\* that is loaded again is an entry the table could have held.
THEOREM Typed == Spec => []TypeOK
<1> DEFINE TInv == Inv /\ IndexTypes /\ LoopTypes
<1>1. Init => TInv
  <2>1. Init => IndexTypes /\ LoopTypes
    BY DEF Init, Empty, IndexTypes, LoopTypes
  <2> QED
    BY <2>1, InitInv
<1>2. TInv /\ [Next]_vars => TInv'
  <2> SUFFICES ASSUME TInv, [Next]_vars PROVE IndexTypes' /\ LoopTypes'
    BY InvStep
  <2>1. CASE Next
    BY <2>1, IndexStep, LoopStep
  <2>2. CASE UNCHANGED vars
    BY <2>2 DEF vars, IndexTypes, LoopTypes
  <2> QED
    BY <2>1, <2>2
<1>3. TInv => TypeOK
  <2> SUFFICES ASSUME TInv PROVE TypeOK
    OBVIOUS
  <2>1. ASSUME NEW f, EntriesOK(misnamed, f)
        PROVE  DOMAIN f \subseteq Ids /\ f \in [DOMAIN f -> Entry]
    BY <2>1 DEF EntriesOK, EntryOK
  <2>2. urlIndex \in [DOMAIN urlIndex -> Ids]
    BY DEF Inv, TableInv, TableOK, IndexOK, IndexTypes
  <2> QED
    BY <2>1, <2>2 DEF TypeOK, Inv, TableInv, TableOK, StartInv, SaveInv, IndexTypes, LoopTypes
<1> QED
  BY <1>1, <1>2, <1>3, PTL DEF Spec
=============================================================================

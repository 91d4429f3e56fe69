---------------------------- MODULE DeltaExport ----------------------------
(***************************************************************************)
(* The delta exporter of indexarr-sync (delta.rs), run by the export loop  *)
(* of the sync manager, together with the operations of the rest of the    *)
(* node that change the rows it exports.                                   *)
(*                                                                         *)
(* One export touches two stores that no transaction joins: the torrents   *)
(* table (sync_sequence marks) and the sync directory (one file per delta  *)
(* and the file "sequence").  Each write of one of them is a step here, so *)
(* a crash, a cancelled await or an error can fall between any two.        *)
(*                                                                         *)
(* A row is abstracted to what the export query looks at.  NULL in         *)
(* resolved_at and sync_sequence is 0.  The clock of resolved_at is        *)
(* "clock"; MaxClock bounds it and MaxFaults bounds the faults.            *)
(***************************************************************************)
EXTENDS Integers, FiniteSets

CONSTANTS Hash,        \* the info-hashes
          MaxDelta,    \* sync max_delta_size
          Chunk,       \* rows marked by one UPDATE (500 in the code)
          MaxClock,    \* bound: resolutions and imports in one behaviour
          MaxFaults    \* bound: faults in one behaviour

ASSUME ExportAssumption ==
  /\ MaxDelta \in Nat \ {0}
  /\ Chunk \in Nat \ {0}
  /\ MaxClock \in Nat
  /\ MaxFaults \in Nat
  /\ IsFiniteSet(Hash)

VARIABLES
  known,         \* the rows of torrents
  resolvedAt,    \* resolved_at of each row, 0 for NULL
  shareable,     \* rows with seed_count >= 1 and a name that is no placeholder
  syncSequence,  \* sync_sequence of each row, 0 for NULL
  clock,
  sequence,      \* what load_sequence makes of the file "sequence"
  delta,         \* the files delta_N.ndjson.gz: their rows, and if complete
  pc,            \* where export_delta is; "down" while the node is down
  batch,         \* the rows the query returned
  todo,          \* the rows of batch not marked yet
  cur,           \* the local variable sequence of export_delta
  faults

rows == <<known, resolvedAt, shareable, syncSequence, clock>>
exporter == <<pc, batch, todo, cur>>
vars == <<known, resolvedAt, shareable, syncSequence, clock,
          sequence, delta, pc, batch, todo, cur, faults>>

PC == {"idle", "create", "write", "mark", "save", "saving", "down"}

TypeOK ==
  /\ known \subseteq Hash
  /\ resolvedAt \in [Hash -> Nat]
  /\ shareable \subseteq known
  /\ syncSequence \in [Hash -> Nat]
  /\ clock \in Nat
  /\ sequence \in Nat
  /\ DOMAIN delta \subseteq Nat \ {0}
  /\ delta \in [DOMAIN delta -> [rows : SUBSET Hash, sealed : BOOLEAN]]
  /\ pc \in PC
  /\ batch \subseteq Hash
  /\ todo \subseteq batch
  /\ cur \in Nat
  /\ faults \in Nat

Init ==
  /\ known = {}
  /\ resolvedAt = [h \in Hash |-> 0]
  /\ shareable = {}
  /\ syncSequence = [h \in Hash |-> 0]
  /\ clock = 0
  /\ sequence = 0
  /\ delta = [s \in {} |-> [rows |-> {}, sealed |-> FALSE]]
  /\ pc = "idle"
  /\ batch = {}
  /\ todo = {}
  /\ cur = 0
  /\ faults = 0

-----------------------------------------------------------------------------
(* The rest of the node.                                                   *)

\* The crawler's ingest inserts a bare row.
Discover(h) ==
  /\ pc # "down"
  /\ h \notin known
  /\ known' = known \cup {h}
  /\ UNCHANGED <<resolvedAt, shareable, syncSequence, clock,
                 sequence, delta, exporter, faults>>

\* The resolver stores the metadata; it writes over an earlier resolution.
Resolve(h) ==
  /\ pc # "down"
  /\ h \in known
  /\ clock < MaxClock
  /\ clock' = clock + 1
  /\ resolvedAt' = [resolvedAt EXCEPT ![h] = clock + 1]
  /\ UNCHANGED <<known, shareable, syncSequence, sequence, delta, exporter, faults>>

\* The announcer finds seeds.
Harvest(h) ==
  /\ pc # "down"
  /\ h \in known
  /\ shareable' = shareable \cup {h}
  /\ UNCHANGED <<known, resolvedAt, syncSequence, clock,
                 sequence, delta, exporter, faults>>

\* A record of a peer's delta is merged: a row that is new or unresolved
\* becomes resolved, with at least one seed.
Import(h) ==
  /\ pc # "down"
  /\ h \in known => resolvedAt[h] = 0
  /\ clock < MaxClock
  /\ clock' = clock + 1
  /\ known' = known \cup {h}
  /\ resolvedAt' = [resolvedAt EXCEPT ![h] = clock + 1]
  /\ shareable' = shareable \cup {h}
  /\ UNCHANGED <<syncSequence, sequence, delta, exporter, faults>>

\* The operator deletes a torrent.
Delete(h) ==
  /\ pc # "down"
  /\ h \in known
  /\ known' = known \ {h}
  /\ resolvedAt' = [resolvedAt EXCEPT ![h] = 0]
  /\ shareable' = shareable \ {h}
  /\ syncSequence' = [syncSequence EXCEPT ![h] = 0]
  /\ UNCHANGED <<clock, sequence, delta, exporter, faults>>

Index == \E h \in Hash :
  Discover(h) \/ Resolve(h) \/ Harvest(h) \/ Import(h) \/ Delete(h)

-----------------------------------------------------------------------------
(* export_delta                                                            *)

\* Mutant: the query forgets sync_sequence IS NULL.
ExportableAgain(h) == h \in shareable /\ resolvedAt[h] # 0

\* The WHERE clause of the export query.
Exportable(h) ==
  /\ h \in shareable
  /\ resolvedAt[h] # 0
  /\ syncSequence[h] = 0

Candidates == {h \in Hash : Exportable(h)}

\* ORDER BY resolved_at ASC LIMIT max_delta_size; ties fall either way.
OldestFirst(b) ==
  /\ b \subseteq Candidates
  /\ Cardinality(b) <= MaxDelta
  /\ b # Candidates => Cardinality(b) = MaxDelta
  /\ \A h \in b, g \in Candidates \ b : resolvedAt[h] <= resolvedAt[g]

\* Mutant: the list of rows to mark survives the call.
LeaveTodo(to) == pc' = to /\ batch' = {} /\ cur' = 0 /\ UNCHANGED todo

\* export_delta is over, or dropped: its local variables are gone.
Leave(to) ==
  /\ pc' = to
  /\ batch' = {}
  /\ todo' = {}
  /\ cur' = 0

\* Mutant: the sequence is not incremented.
SelectSame ==
  /\ pc = "idle"
  /\ \E b \in SUBSET Hash : b # {} /\ OldestFirst(b) /\ batch' = b /\ todo' = b
  /\ cur' = IF sequence = 0 THEN 1 ELSE sequence
  /\ pc' = "create"
  /\ UNCHANGED <<rows, sequence, delta, faults>>

\* load_sequence and the query; with no row the call returns.
Select ==
  /\ pc = "idle"
  /\ \E b \in SUBSET Hash :
       /\ b # {}
       /\ OldestFirst(b)
       /\ batch' = b
       /\ todo' = b
  /\ cur' = sequence + 1
  /\ pc' = "create"
  /\ UNCHANGED <<rows, sequence, delta, faults>>

\* The file with the number n is now f, the others as they were.
WithDelta(n, f) ==
  [s \in DOMAIN delta \cup {n} |-> IF s = n THEN f ELSE delta[s]]

\* Mutant: File::create_new, which leaves a file of that name alone.
CreateNew ==
  /\ pc = "create"
  /\ cur \notin DOMAIN delta
  /\ delta' = WithDelta(cur, [rows |-> {}, sealed |-> FALSE])
  /\ pc' = "write"
  /\ UNCHANGED <<rows, sequence, batch, todo, cur, faults>>

\* File::create empties a file of that name.
Create ==
  /\ pc = "create"
  /\ delta' = WithDelta(cur, [rows |-> {}, sealed |-> FALSE])
  /\ pc' = "write"
  /\ UNCHANGED <<rows, sequence, batch, todo, cur, faults>>

\* The rows, as the query read them, and the end of the gzip stream.
Write ==
  /\ pc = "write"
  /\ delta' = WithDelta(cur, [rows |-> batch, sealed |-> TRUE])
  /\ pc' = "mark"
  /\ UNCHANGED <<rows, sequence, batch, todo, cur, faults>>

\* The next chunk of the batch.
IsChunk(c) ==
  /\ c # {}
  /\ Cardinality(c) <= Chunk
  /\ c # todo => Cardinality(c) = Chunk

\* Mutant: the UPDATE marks every exportable row.
SetMarksAll(c) ==
  syncSequence' = [h \in Hash |-> IF h \in c \cap known \/ Exportable(h)
                                 THEN cur ELSE syncSequence[h]]

\* One UPDATE; a row deleted since the query is not there to be marked.
SetMarks(c) ==
  syncSequence' = [h \in Hash |-> IF h \in c \cap known THEN cur ELSE syncSequence[h]]

Mark ==
  /\ pc = "mark"
  /\ \E c \in SUBSET todo :
       /\ IsChunk(c)
       /\ SetMarks(c)
       /\ todo' = todo \ c
  /\ pc' = IF todo' = {} THEN "save" ELSE "mark"
  /\ UNCHANGED <<known, resolvedAt, shareable, clock, sequence, delta, batch, cur, faults>>

\* std::fs::write opens and truncates the file: from here to the write,
\* load_sequence finds nothing to parse and returns 0.
SaveTruncate ==
  /\ pc = "save"
  /\ sequence' = 0
  /\ pc' = "saving"
  /\ UNCHANGED <<rows, delta, batch, todo, cur, faults>>

\* Mutant: the sequence from before the increment is saved.
SaveWriteOld ==
  /\ pc = "saving"
  /\ sequence' = cur - 1
  /\ Leave("idle")
  /\ UNCHANGED <<rows, delta, faults>>

SaveWrite ==
  /\ pc = "saving"
  /\ sequence' = cur
  /\ Leave("idle")
  /\ UNCHANGED <<rows, delta, faults>>

Export == Select \/ Create \/ Write \/ Mark \/ SaveTruncate \/ SaveWrite

-----------------------------------------------------------------------------
(* What can go wrong between two writes.                                   *)

Fault ==
  /\ faults < MaxFaults
  /\ faults' = faults + 1

\* Mutant: an error of the file is ignored, as that of save_sequence is.
FileErrorIgnored ==
  /\ Fault
  /\ pc \in {"create", "write"}
  /\ pc' = "mark"
  /\ UNCHANGED <<rows, sequence, delta, batch, todo, cur>>

\* File::create or a write to the file fails: export_delta returns the error.
FileError ==
  /\ Fault
  /\ pc \in {"create", "write"}
  /\ Leave("idle")
  /\ UNCHANGED <<rows, sequence, delta>>

\* An UPDATE of sync_sequence fails: export_delta returns the error.
MarkError ==
  /\ Fault
  /\ pc = "mark"
  /\ Leave("idle")
  /\ UNCHANGED <<rows, sequence, delta>>

\* The file "sequence" cannot be opened, or cannot be written once it is
\* empty; save_sequence ignores both and export_delta reports success.
SaveError ==
  /\ Fault
  /\ pc \in {"save", "saving"}
  /\ Leave("idle")
  /\ UNCHANGED <<rows, sequence, delta>>

\* The node dies, at any step.
Crash ==
  /\ Fault
  /\ pc # "down"
  /\ Leave("down")
  /\ UNCHANGED <<rows, sequence, delta>>

\* A clean shutdown drops the export loop at the await it is in: the UPDATE
\* under way is executed or not, and nothing after it is.
Shutdown ==
  /\ Fault
  /\ pc = "mark"
  /\ \E c \in SUBSET todo : (c = {} \/ IsChunk(c)) /\ SetMarks(c)
  /\ Leave("down")
  /\ UNCHANGED <<known, resolvedAt, shareable, clock, sequence, delta>>

\* The start-up repair requeues resolved rows whose classification is
\* missing; their sync_sequence stays.
Restart ==
  /\ pc = "down"
  /\ \E incomplete \in SUBSET known :
       resolvedAt' = [h \in Hash |-> IF h \in incomplete THEN 0 ELSE resolvedAt[h]]
  /\ pc' = "idle"
  /\ UNCHANGED <<known, shareable, syncSequence, clock, sequence, delta,
                 batch, todo, cur, faults>>

Faults == FileError \/ MarkError \/ SaveError \/ Crash \/ Shutdown

-----------------------------------------------------------------------------
ReliableNext == Index \/ Export
Next == ReliableNext \/ Faults \/ Restart

\* No write fails and the node stays up.
ReliableSpec == Init /\ [][ReliableNext]_vars
Spec == Init /\ [][Next]_vars

\* The export loop runs export_delta every export_interval for as long as
\* the node is up, and a supervisor brings the node back.
FairReliableSpec == ReliableSpec /\ WF_vars(Export)
FairSpec == Spec /\ WF_vars(Export) /\ WF_vars(Restart)

-----------------------------------------------------------------------------
(* Properties                                                              *)

\* A delta file that a peer can read to its end, with records in it.
Complete(s) == s \in DOMAIN delta /\ delta[s].sealed /\ delta[s].rows # {}

\* Every sequence up to the one the node has saved names a complete delta
\* file with records in it, whatever failed before: a peer that reads the
\* manifest never meets a hole below the saved sequence.
SavedSequenceIsComplete == \A s \in 1..sequence : Complete(s)

\* A step never changes a delta file that the saved sequence covers; peers
\* whose watermark has passed it would never see the new content.
SavedDeltasAreImmutable ==
  [][\A s \in 1..sequence : s \in DOMAIN delta' /\ delta'[s] = delta[s]]_vars

\* A row marked with a sequence is a row of the delta that has this
\* sequence.  The export query leaves marked rows out for ever, so a row
\* marked without being in its delta is never offered to any peer.
MarkedIsPublished ==
  \A h \in known : syncSequence[h] # 0 =>
    /\ syncSequence[h] \in DOMAIN delta
    /\ h \in delta[syncSequence[h]].rows

Published(h) == \E s \in 1..sequence : h \in delta[s].rows

\* With no fault, a row that meets the export conditions reaches a delta
\* file covered by the saved sequence, unless it is deleted first.
ExportableGetsPublished ==
  \A h \in Hash : Exportable(h) ~> (Published(h) \/ h \notin known)

\* Whatever fails, the exporter does not get stuck on a row: it is marked,
\* requeued or deleted in the end.
ExportableGetsMarked == \A h \in Hash : Exportable(h) ~> ~Exportable(h)

\* The published log, as DeltaLog describes it.  While the file "sequence"
\* is being rewritten the log is still the one it named before.
Saved == IF pc = "saving" THEN cur - 1 ELSE sequence

Log == INSTANCE DeltaLog WITH
  log <- [s \in 1..Saved |-> delta[s].rows],
  index <- known,
  published <- {h \in Hash : syncSequence[h] \in 1..Saved}

\* With no fault the exporter implements the append-only log.
ImplementsLog == Log!LogSpec
=============================================================================

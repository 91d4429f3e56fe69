------------------------- MODULE DeltaExportProofs -------------------------
(***************************************************************************)
(* Theorems about the delta exporter, for every set of hashes, every       *)
(* MaxDelta and Chunk, and any number of faults.                           *)
(***************************************************************************)
EXTENDS DeltaExport, Sequences, FiniteSetTheorems, TLAPS

(***************************************************************************)
(* What holds whatever fails.  The exporter works on the one number after  *)
(* the saved sequence, and the file of this number is complete before the  *)
(* saved sequence can move to it.  While the file "sequence" is empty the  *)
(* deltas it named, and the new one, are complete.                         *)
(***************************************************************************)
NextNumber == pc \in {"create", "write", "mark", "save"} => cur = sequence + 1

FileBeforeMarks ==
  /\ pc \notin {"idle", "down"} => batch # {}
  /\ pc \in {"mark", "save", "saving"} => Complete(cur) /\ delta[cur].rows = batch

SavingIsComplete ==
  pc = "saving" => sequence = 0 /\ \A s \in 1..cur : Complete(s)

SavedInv ==
  /\ TypeOK
  /\ NextNumber
  /\ FileBeforeMarks
  /\ SavingIsComplete
  /\ SavedSequenceIsComplete

(***************************************************************************)
(* What holds besides while nothing fails: a mark is in the saved log, or  *)
(* it is one the export under way has just set.                            *)
(***************************************************************************)
InLog(h) == syncSequence[h] \in 1..Saved /\ h \in delta[syncSequence[h]].rows

JustMarked(h) ==
  /\ pc \in {"mark", "save", "saving"}
  /\ syncSequence[h] = cur
  /\ h \in batch

MarksAccountedFor ==
  \A h \in Hash : syncSequence[h] # 0 => InLog(h) \/ JustMarked(h)

NumberAfterSaved == pc \notin {"idle", "down"} => cur = Saved + 1

BatchIsNew == \A h \in batch : syncSequence[h] \in {0, cur}

MarkedIsKnown == \A h \in Hash : syncSequence[h] # 0 => h \in known

ReliableInv ==
  /\ SavedInv
  /\ NumberAfterSaved
  /\ MarksAccountedFor
  /\ BatchIsNew
  /\ MarkedIsKnown
  /\ Cardinality(batch) <= MaxDelta

-----------------------------------------------------------------------------
LEMMA InitSaved == Init => SavedInv
BY ExportAssumption DEF Init, SavedInv, TypeOK, NextNumber, FileBeforeMarks,
   SavingIsComplete, SavedSequenceIsComplete, PC

\* Every step keeps the types; a delta file is created under a number >= 1.
LEMMA TypeStep == TypeOK /\ NextNumber /\ [Next]_vars => TypeOK'
<1> SUFFICES ASSUME TypeOK, NextNumber, [Next]_vars PROVE TypeOK'
  OBVIOUS
<1> USE ExportAssumption DEF TypeOK, PC, rows, exporter
<1>1. ASSUME NEW h \in Hash,
             Discover(h) \/ Resolve(h) \/ Harvest(h) \/ Import(h) \/ Delete(h)
      PROVE TypeOK'
  <2>1. CASE Discover(h)
    BY <2>1 DEF Discover
  <2>2. CASE Resolve(h)
    BY <2>2 DEF Resolve
  <2>3. CASE Harvest(h)
    BY <2>3 DEF Harvest
  <2>4. CASE Import(h)
    BY <2>4 DEF Import
  <2>5. CASE Delete(h)
    BY <2>5 DEF Delete
  <2> QED
    BY <1>1, <2>1, <2>2, <2>3, <2>4, <2>5
<1>2. CASE Select
  BY <1>2 DEF Select, OldestFirst, Candidates
<1>3. CASE Create
  <2>1. cur \in Nat \ {0} /\ UNCHANGED <<rows, sequence, batch, todo, cur, faults>>
    BY <1>3 DEF Create, NextNumber
  <2> QED
    BY <1>3, <2>1 DEF Create, WithDelta
<1>4. CASE Write
  <2>1. cur \in Nat \ {0} /\ UNCHANGED <<rows, sequence, batch, todo, cur, faults>>
    BY <1>4 DEF Write, NextNumber
  <2> QED
    BY <1>4, <2>1 DEF Write, WithDelta
<1>5. CASE Mark
  BY <1>5 DEF Mark, SetMarks, IsChunk
<1>6. CASE SaveTruncate
  BY <1>6 DEF SaveTruncate
<1>7. CASE SaveWrite
  BY <1>7 DEF SaveWrite, Leave
<1>8. CASE FileError \/ MarkError \/ SaveError \/ Crash
  BY <1>8 DEF FileError, MarkError, SaveError, Crash, Leave, Fault
<1>9. CASE Shutdown
  BY <1>9 DEF Shutdown, SetMarks, Leave, Fault
<1>10. CASE Restart
  BY <1>10 DEF Restart
<1>11. CASE UNCHANGED vars
  BY <1>11 DEF vars
<1> QED
  BY <1>1, <1>2, <1>3, <1>4, <1>5, <1>6, <1>7, <1>8, <1>9, <1>10, <1>11
     DEF Next, ReliableNext, Index, Export, Faults

\* The steps that touch neither the sync directory nor the exporter.
LEMMA IndexStep ==
  ASSUME Index PROVE UNCHANGED <<sequence, delta, exporter, faults>>
BY DEF Index, Discover, Resolve, Harvest, Import, Delete

\* The inductive step under every fault.
LEMMA SavedStep == SavedInv /\ [Next]_vars => SavedInv'
<1> SUFFICES ASSUME SavedInv, [Next]_vars PROVE SavedInv'
  OBVIOUS
<1> DEFINE FilesInv == /\ NextNumber
                       /\ FileBeforeMarks
                       /\ SavingIsComplete
                       /\ SavedSequenceIsComplete
<1>0. TypeOK'
  BY TypeStep DEF SavedInv
<1> SUFFICES FilesInv'
  BY <1>0 DEF SavedInv
<1> USE DEF SavedInv, NextNumber, FileBeforeMarks, SavingIsComplete,
            SavedSequenceIsComplete, Complete
<1>1. CASE Index
  <2>1. UNCHANGED <<sequence, delta, pc, batch, todo, cur>>
    BY <1>1, IndexStep DEF exporter
  <2> QED
    BY <2>1
<1>2. CASE Select
  BY <1>2 DEF Select
<1>3. CASE Create
  <2>1. /\ cur = sequence + 1 /\ sequence \in Nat /\ pc' = "write"
        /\ UNCHANGED <<sequence, batch, cur>> /\ batch # {}
    BY <1>3 DEF Create, TypeOK
  <2>2. \A s \in 1..sequence : s \in DOMAIN delta' /\ delta'[s] = delta[s]
    BY <1>3, <2>1 DEF Create, WithDelta
  <2> QED
    BY <2>1, <2>2
<1>4. CASE Write
  <2>1. /\ cur = sequence + 1 /\ sequence \in Nat /\ pc' = "mark"
        /\ UNCHANGED <<sequence, batch, cur>> /\ batch # {}
    BY <1>4 DEF Write, TypeOK
  <2>2. \A s \in 1..sequence : s \in DOMAIN delta' /\ delta'[s] = delta[s]
    BY <1>4, <2>1 DEF Write, WithDelta
  <2>3. cur \in DOMAIN delta' /\ delta'[cur] = [rows |-> batch, sealed |-> TRUE]
    BY <1>4 DEF Write, WithDelta
  <2> QED
    BY <2>1, <2>2, <2>3
<1>5. CASE Mark
  BY <1>5 DEF Mark
<1>6. CASE SaveTruncate
  <2>1. cur = sequence + 1 /\ sequence \in Nat
    BY <1>6 DEF SaveTruncate, TypeOK
  <2>2. \A s \in 1..cur : Complete(s)
    BY <1>6, <2>1 DEF SaveTruncate
  <2> QED
    BY <1>6, <2>2 DEF SaveTruncate
<1>7. CASE SaveWrite
  BY <1>7 DEF SaveWrite, Leave
<1>8. CASE FileError \/ MarkError \/ SaveError \/ Crash
  BY <1>8 DEF FileError, MarkError, SaveError, Crash, Leave
<1>9. CASE Shutdown
  BY <1>9 DEF Shutdown, Leave
<1>10. CASE Restart
  BY <1>10 DEF Restart
<1>11. CASE UNCHANGED vars
  BY <1>11 DEF vars
<1> QED
  BY <1>1, <1>2, <1>3, <1>4, <1>5, <1>6, <1>7, <1>8, <1>9, <1>10, <1>11
     DEF Next, ReliableNext, Export, Faults

\* Type correctness of the exporter, under crashes, errors and shutdowns.
THEOREM TypeCorrect == Spec => []TypeOK
<1>1. SavedInv => TypeOK
  BY DEF SavedInv
<1> QED
  BY <1>1, InitSaved, SavedStep, PTL DEF Spec

\* Whatever fails, the saved sequence never gets ahead of the complete
\* delta files.
THEOREM SavedComplete == Spec => []SavedSequenceIsComplete
<1>1. SavedInv => SavedSequenceIsComplete
  BY DEF SavedInv
<1> QED
  BY <1>1, InitSaved, SavedStep, PTL DEF Spec

\* Whatever fails, no step changes a delta file the saved sequence covers.
THEOREM SavedImmutable == Spec => SavedDeltasAreImmutable
<1> DEFINE Kept == \A s \in 1..sequence : s \in DOMAIN delta' /\ delta'[s] = delta[s]
<1>1. SavedInv /\ [Next]_vars => [Kept]_vars
  <2> SUFFICES ASSUME SavedInv, [Next]_vars PROVE Kept
    OBVIOUS
  <2>1. CASE Create \/ Write
    <3>1. cur = sequence + 1 /\ sequence \in Nat
      BY <2>1 DEF Create, Write, SavedInv, NextNumber, TypeOK
    <3>2. \E f : delta' = WithDelta(cur, f)
      BY <2>1 DEF Create, Write
    <3> QED
      BY <3>1, <3>2 DEF WithDelta, SavedInv, SavedSequenceIsComplete, Complete
  <2>2. CASE UNCHANGED delta
    BY <2>2 DEF SavedInv, SavedSequenceIsComplete, Complete
  <2>3. Index => UNCHANGED delta
    BY IndexStep
  <2>4. Select \/ Mark \/ SaveTruncate \/ SaveWrite \/ Faults \/ Restart \/ UNCHANGED vars
          => UNCHANGED delta
    BY DEF Select, Mark, SaveTruncate, SaveWrite, Restart, vars, Faults,
           FileError, MarkError, SaveError, Crash, Shutdown
  <2> QED
    BY <2>1, <2>2, <2>3, <2>4 DEF Next, ReliableNext, Export
<1> QED
  BY <1>1, InitSaved, SavedStep, PTL DEF Spec, SavedDeltasAreImmutable

-----------------------------------------------------------------------------
(* What holds while nothing fails.                                         *)

LEMMA InitReliable == Init => ReliableInv
<1> SUFFICES ASSUME Init PROVE ReliableInv
  OBVIOUS
<1>1. SavedInv
  BY InitSaved
<1>2. Cardinality(batch) <= MaxDelta
  BY FS_EmptySet, ExportAssumption DEF Init
<1> QED
  BY <1>1, <1>2 DEF Init, ReliableInv, NumberAfterSaved, MarksAccountedFor, BatchIsNew,
                     MarkedIsKnown

\* The operations of the rest of the node set no mark.
LEMMA IndexMarks ==
  ASSUME TypeOK, Index
  PROVE  \A h \in Hash : syncSequence'[h] \in {0, syncSequence[h]}
BY DEF TypeOK, Index, Discover, Resolve, Harvest, Import, Delete, rows

\* Only rows of the table are marked, and a deleted row loses its mark.
LEMMA KnownStep == ReliableInv /\ [ReliableNext]_vars => MarkedIsKnown'
<1> SUFFICES ASSUME TypeOK, MarkedIsKnown, [ReliableNext]_vars PROVE MarkedIsKnown'
  BY DEF ReliableInv, SavedInv
<1> USE DEF MarkedIsKnown, rows
<1>1. CASE Index
  <2>1. PICK g \in Hash : Discover(g) \/ Resolve(g) \/ Harvest(g) \/ Import(g) \/ Delete(g)
    BY <1>1 DEF Index
  <2> QED
    BY <2>1 DEF Discover, Resolve, Harvest, Import, Delete, TypeOK
<1>2. CASE Mark
  <2>1. PICK c : SetMarks(c)
    BY <1>2 DEF Mark
  <2> QED
    BY <1>2, <2>1 DEF Mark, SetMarks, TypeOK
<1>3. CASE Select \/ Create \/ Write \/ SaveTruncate \/ SaveWrite
  BY <1>3 DEF Select, Create, Write, SaveTruncate, SaveWrite
<1>4. CASE UNCHANGED vars
  BY <1>4 DEF vars
<1> QED
  BY <1>1, <1>2, <1>3, <1>4 DEF ReliableNext, Export

LEMMA ReliableStep == ReliableInv /\ [ReliableNext]_vars => ReliableInv'
<1> SUFFICES ASSUME ReliableInv, [ReliableNext]_vars PROVE ReliableInv'
  OBVIOUS
<1> DEFINE MarksInv == /\ NumberAfterSaved
                       /\ MarksAccountedFor
                       /\ BatchIsNew
                       /\ Cardinality(batch) <= MaxDelta
<1>0. SavedInv'
  BY SavedStep DEF ReliableInv, Next
<1>t. TypeOK /\ TypeOK' /\ NextNumber
  BY <1>0 DEF SavedInv, ReliableInv
<1>k. MarkedIsKnown'
  BY KnownStep
<1> SUFFICES MarksInv'
  BY <1>0, <1>k DEF ReliableInv
<1> USE DEF ReliableInv, NumberAfterSaved, MarksAccountedFor, BatchIsNew,
            Saved, InLog, JustMarked
<1>1. CASE Index
  <2>1. UNCHANGED <<sequence, delta, pc, batch, todo, cur>>
    BY <1>1, IndexStep DEF exporter
  <2>2. \A h \in Hash : syncSequence'[h] \in {0, syncSequence[h]}
    BY <1>1, <1>t, IndexMarks
  <2> QED
    BY <2>1, <2>2, <1>t DEF TypeOK
<1>2. CASE Select
  <2>1. \A h \in batch' : syncSequence[h] = 0
    BY <1>2 DEF Select, OldestFirst, Candidates, Exportable
  <2>2. Cardinality(batch') <= MaxDelta
    BY <1>2 DEF Select, OldestFirst
  <2>3. /\ pc = "idle" /\ pc' = "create" /\ cur' = sequence + 1
        /\ UNCHANGED <<syncSequence, sequence, delta>>
    BY <1>2 DEF Select, rows
  <2> QED
    BY <2>1, <2>2, <2>3, <1>t DEF TypeOK
<1>3. CASE Create
  <2>1. /\ cur = sequence + 1 /\ pc = "create" /\ pc' = "write"
        /\ UNCHANGED <<sequence, batch, cur, syncSequence>>
    BY <1>3, <1>t DEF Create, NextNumber, rows
  <2>2. \A s \in 1..sequence : delta'[s] = delta[s]
    BY <1>3, <2>1, <1>t DEF Create, WithDelta, TypeOK, SavedInv,
                            SavedSequenceIsComplete, Complete
  <2> QED
    BY <2>1, <2>2, <1>t DEF TypeOK
<1>4. CASE Write
  <2>1. /\ cur = sequence + 1 /\ pc = "write" /\ pc' = "mark"
        /\ UNCHANGED <<sequence, batch, cur, syncSequence>>
    BY <1>4, <1>t DEF Write, NextNumber, rows
  <2>2. \A s \in 1..sequence : delta'[s] = delta[s]
    BY <1>4, <2>1, <1>t DEF Write, WithDelta, TypeOK, SavedInv,
                            SavedSequenceIsComplete, Complete
  <2> QED
    BY <2>1, <2>2, <1>t DEF TypeOK
<1>5. CASE Mark
  <2>1. PICK c \in SUBSET todo : SetMarks(c)
    BY <1>5 DEF Mark
  <2>2. /\ pc = "mark" /\ pc' \in {"mark", "save"}
        /\ UNCHANGED <<sequence, delta, batch, cur>>
    BY <1>5 DEF Mark
  <2>3. c \subseteq batch
    BY <1>t, <2>1 DEF TypeOK
  <2> QED
    BY <2>1, <2>2, <2>3, <1>t DEF SetMarks, TypeOK
<1>6. CASE SaveTruncate
  BY <1>6, <1>t DEF SaveTruncate, NextNumber, TypeOK, rows
<1>7. CASE SaveWrite
  <2>1. /\ pc = "saving" /\ pc' = "idle" /\ sequence' = cur /\ batch' = {}
        /\ UNCHANGED <<syncSequence, delta>>
    BY <1>7 DEF SaveWrite, Leave, rows
  <2>2. delta[cur].rows = batch /\ cur \in 1..cur /\ 1..(cur - 1) \subseteq 1..cur
    <3>1. delta[cur].rows = batch /\ cur \in DOMAIN delta
      BY <2>1 DEF SavedInv, FileBeforeMarks, Complete
    <3>2. cur \in Nat \ {0}
      BY <3>1, <1>t DEF TypeOK
    <3> QED
      BY <3>1, <3>2
  <2>3. Cardinality(batch') <= MaxDelta
    BY <2>1, FS_EmptySet, ExportAssumption
  <2> QED
    BY <2>1, <2>2, <2>3, <1>t DEF TypeOK
<1>8. CASE UNCHANGED vars
  BY <1>8 DEF vars
<1> QED
  BY <1>1, <1>2, <1>3, <1>4, <1>5, <1>6, <1>7, <1>8 DEF ReliableNext, Export

\* While nothing fails, a marked row is in the delta it is marked with.
THEOREM ReliableMarks == ReliableSpec => []MarkedIsPublished
<1>1. ReliableInv => MarkedIsPublished
  <2> SUFFICES ASSUME ReliableInv, NEW h \in known, syncSequence[h] # 0
               PROVE  /\ syncSequence[h] \in DOMAIN delta
                      /\ h \in delta[syncSequence[h]].rows
    BY DEF MarkedIsPublished
  <2>1. CASE InLog(h)
    <3>1. Complete(syncSequence[h])
      BY <2>1 DEF InLog, Saved, ReliableInv, SavedInv, SavedSequenceIsComplete,
                  SavingIsComplete, TypeOK
    <3> QED
      BY <2>1, <3>1 DEF InLog, Complete
  <2>2. CASE JustMarked(h)
    BY <2>2 DEF JustMarked, ReliableInv, SavedInv, FileBeforeMarks, Complete
  <2> QED
    BY <2>1, <2>2 DEF ReliableInv, MarksAccountedFor, SavedInv, TypeOK
<1> QED
  BY <1>1, InitReliable, ReliableStep, PTL DEF ReliableSpec

-----------------------------------------------------------------------------
(* Refinement: while nothing fails, the exporter is an append-only log.    *)

PublishedLog == [s \in 1..Saved |-> delta[s].rows]
PublishedRows == {h \in Hash : syncSequence[h] \in 1..Saved}

LEMMA InitLog == Init => Log!LogInit
BY DEF Init, Log!LogInit, Saved

\* A step that leaves the saved sequence and the files it covers alone
\* leaves the log alone.
LEMMA LogStutter ==
  ASSUME TypeOK, Saved' = Saved, \A s \in 1..Saved : delta'[s] = delta[s]
  PROVE  PublishedLog' = PublishedLog
BY DEF PublishedLog

LEMMA LogStep == ReliableInv /\ ReliableInv' /\ [ReliableNext]_vars
                   => [Log!LogNext]_(Log!logVars)
<1> SUFFICES ASSUME ReliableInv, ReliableInv', [ReliableNext]_vars
             PROVE  Log!LogNext \/ UNCHANGED <<PublishedLog, known, PublishedRows>>
  BY DEF Log!logVars, PublishedLog, PublishedRows
<1>t. TypeOK /\ TypeOK' /\ NextNumber /\ NumberAfterSaved /\ SavedSequenceIsComplete
  BY DEF SavedInv, ReliableInv
<1>1. CASE Index
  <2>1. UNCHANGED <<sequence, delta, pc, cur>>
    BY <1>1, IndexStep DEF exporter
  <2>2. UNCHANGED PublishedLog
    BY <2>1 DEF PublishedLog, Saved
  <2>3. PICK g \in Hash : Discover(g) \/ Resolve(g) \/ Harvest(g) \/ Import(g) \/ Delete(g)
    BY <1>1 DEF Index
  <2>4. CASE UNCHANGED <<known, syncSequence>>
    BY <2>1, <2>2, <2>4 DEF PublishedRows, Saved
  <2>5. CASE g \notin known /\ known' = known \cup {g} /\ UNCHANGED syncSequence
    <3>1. Log!Learn(g)
      BY <2>1, <2>2, <2>5 DEF Log!Learn, PublishedRows, PublishedLog, Saved
    <3> QED
      BY <3>1 DEF Log!LogNext
  <2>6. CASE Delete(g)
    <3>1. PublishedRows' = PublishedRows \ {g}
      BY <2>1, <2>6, <1>t DEF Delete, PublishedRows, Saved, TypeOK
    <3>2. Log!Forget(g)
      BY <2>2, <2>6, <3>1 DEF Delete, Log!Forget, PublishedRows, PublishedLog
    <3> QED
      BY <3>2 DEF Log!LogNext
  <2>7. CASE Import(g)
    <3>1. UNCHANGED syncSequence /\ known' = known \cup {g}
      BY <2>7 DEF Import
    <3>2. CASE g \in known
      BY <2>4, <3>1, <3>2
    <3>3. CASE g \notin known
      BY <2>5, <3>1, <3>3
    <3> QED
      BY <3>2, <3>3
  <2> QED
    BY <2>3, <2>4, <2>5, <2>6, <2>7 DEF Discover, Resolve, Harvest
<1>2. CASE Select
  BY <1>2 DEF Select, PublishedLog, PublishedRows, Saved, rows
<1>3. CASE Create \/ Write
  <2>1. /\ cur = sequence + 1 /\ pc \in {"create", "write"} /\ pc' \in {"write", "mark"}
        /\ UNCHANGED <<known, sequence, syncSequence>>
    BY <1>3, <1>t DEF Create, Write, NextNumber, rows
  <2>2. Saved = sequence /\ Saved' = sequence
    BY <2>1 DEF Saved
  <2>3. \A s \in 1..sequence : delta'[s] = delta[s]
    BY <1>3, <2>1, <1>t DEF Create, Write, WithDelta, TypeOK,
                            SavedSequenceIsComplete, Complete
  <2> QED
    BY <2>1, <2>2, <2>3 DEF PublishedLog, PublishedRows
<1>4. CASE Mark
  <2>1. PICK c \in SUBSET todo : SetMarks(c)
    BY <1>4 DEF Mark
  <2>2. /\ pc = "mark" /\ pc' \in {"mark", "save"}
        /\ UNCHANGED <<known, sequence, delta, batch, cur>>
    BY <1>4 DEF Mark
  <2>3. Saved = sequence /\ Saved' = sequence /\ cur = sequence + 1
    BY <2>2, <1>t DEF Saved, NextNumber
  <2>4. \A h \in c : syncSequence[h] \in {0, cur}
    BY <2>1, <1>t DEF ReliableInv, BatchIsNew, TypeOK
  <2>5. PublishedRows' = PublishedRows
    BY <2>1, <2>3, <2>4, <1>t DEF SetMarks, PublishedRows, TypeOK
  <2> QED
    BY <2>2, <2>3, <2>5 DEF PublishedLog
<1>5. CASE SaveTruncate
  <2>1. Saved' = Saved
    BY <1>5, <1>t DEF SaveTruncate, Saved, NextNumber, TypeOK
  <2> QED
    BY <1>5, <2>1 DEF SaveTruncate, PublishedLog, PublishedRows, rows
<1>6. CASE SaveWrite
  <2>1. /\ Saved = cur - 1 /\ Saved' = cur /\ pc = "saving"
        /\ UNCHANGED <<known, delta, syncSequence>>
    BY <1>6 DEF SaveWrite, Saved, Leave, rows
  <2>2. /\ cur \in Nat \ {0} /\ delta[cur].rows = batch
        /\ batch # {} /\ batch \in SUBSET Hash
    BY <2>1, <1>t DEF ReliableInv, SavedInv, FileBeforeMarks, Complete, TypeOK
  <2>3. PublishedLog' = Append(PublishedLog, batch)
    <3>1. PublishedLog' = [s \in 1..cur |-> delta[s].rows]
      BY <2>1 DEF PublishedLog
    <3>2. PublishedLog = [s \in 1..(cur - 1) |-> delta[s].rows]
      BY <2>1 DEF PublishedLog
    <3>3. PublishedLog \in Seq(SUBSET Hash) /\ Len(PublishedLog) = cur - 1
      <4>1. \A s \in 1..(cur - 1) : delta[s].rows \in SUBSET Hash
        BY <2>1, <2>2, <1>t DEF ReliableInv, SavedInv, SavingIsComplete, Complete, TypeOK
      <4> QED
        BY <2>2, <3>2, <4>1
    <3> QED
      BY <2>2, <3>1, <3>2, <3>3
  <2> DEFINE kept == {h \in Hash : syncSequence[h] = cur}
  <2>4. kept \subseteq batch \cap known
    BY <2>1, <2>2, <1>t DEF ReliableInv, MarksAccountedFor, MarkedIsKnown, InLog,
                            JustMarked, TypeOK
  <2>5. PublishedRows' = PublishedRows \cup kept
    <3>1. PublishedRows' = {h \in Hash : syncSequence[h] \in 1..cur}
      BY <2>1 DEF PublishedRows
    <3>2. PublishedRows = {h \in Hash : syncSequence[h] \in 1..(cur - 1)}
      BY <2>1 DEF PublishedRows
    <3>3. \A n \in Nat : n \in 1..cur <=> n \in 1..(cur - 1) \/ n = cur
      BY <2>2
    <3>4. \A h \in Hash : syncSequence[h] \in Nat
      BY <1>t DEF TypeOK
    <3> QED
      BY <3>1, <3>2, <3>3, <3>4
  <2>6. batch \cap PublishedRows = {}
    BY <2>1, <2>2, <1>t DEF ReliableInv, BatchIsNew, PublishedRows
  <2>7. batch \in Log!Batch
    BY <2>2 DEF Log!Batch, ReliableInv, Log!Cardinality, Cardinality
  <2>8. PICK b, k : b = batch /\ k = kept
    OBVIOUS
  <2>9. Log!Publish(b, k)
    BY <2>1, <2>3, <2>4, <2>5, <2>6, <2>8 DEF Log!Publish, PublishedLog, PublishedRows
  <2>10. b \in Log!Batch /\ k \in SUBSET b
    BY <2>4, <2>7, <2>8
  <2> QED
    BY <2>9, <2>10 DEF Log!LogNext
<1>7. CASE UNCHANGED vars
  BY <1>7 DEF vars, PublishedLog, PublishedRows, Saved
<1> QED
  BY <1>1, <1>2, <1>3, <1>4, <1>5, <1>6, <1>7 DEF ReliableNext, Export

\* While nothing fails, the exporter implements the append-only log.
THEOREM ReliableImplementsLog == ReliableSpec => ImplementsLog
BY InitLog, InitReliable, ReliableStep, LogStep, PTL
   DEF ReliableSpec, ImplementsLog, Log!LogSpec
=============================================================================

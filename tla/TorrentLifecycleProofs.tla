----------------------- MODULE TorrentLifecycleProofs -----------------------
(***************************************************************************)
(* Theorems about the rows of a torrent, for any number of clients, of     *)
(* requests and of files, and whatever fails.                              *)
(***************************************************************************)
EXTENDS TorrentLifecycle, FiniteSetTheorems, SequenceTheorems, TLAPS

Kind == {"none", "magnet", "upload", "import", "merge", "resolver"}
Source == {"none", "bep51", "sync", "upload"} \cup ImportSource
Statement == {"insert", "update", "content", "process"} \cup TorrentFile
PlanType == [kind : Kind, named : BOOLEAN, source : Source, todo : Seq(Statement),
             answer : {"none", "done", "error"}]
RowType == [source : Source, resolved : BOOLEAN, priority : BOOLEAN,
            by : {"none", "resolver", "upload", "import", "merge"},
            content : BOOLEAN, files : [TorrentFile -> Nat]]

FilesLeft(p) == {f \in TorrentFile : \E i \in DOMAIN p.todo : p.todo[i] = f}
Left(p) == p.todo # <<>>

\* What comes first tells the requests apart; files and content follow, no
\* file twice.
WellFormed(p) ==
  /\ \A i \in DOMAIN p.todo : i > 1 => p.todo[i] \in TorrentFile \cup {"content"}
  /\ \A i, j \in DOMAIN p.todo : p.todo[i] = p.todo[j] /\ p.todo[i] \in TorrentFile => i = j
  /\ Left(p) => p.kind # "none"
  /\ Left(p) => (Head(p.todo) = "process" <=> p.kind = "resolver")
  /\ p.kind = "resolver" => Len(p.todo) <= 1
  /\ p.kind = "magnet" => FilesLeft(p) = {}
  /\ Left(p) /\ Head(p.todo) = "insert" => p.source # "none"

\* A request whose own row is there, and whose files are still to be stored.
Storing(p) == FilesLeft(p) # {} /\ Head(p.todo) # "insert"

LifeTypes ==
  /\ torrent \in RowType /\ plan \in [Client -> PlanType]
  /\ requests \in 0..MaxRequests /\ raced \in BOOLEAN /\ lifeFaults \in 0..LifeFaults
  /\ \A c \in Client : WellFormed(plan[c])
  /\ ~Exists => torrent = Blank

\* Nobody but the request that made the row stores its files before the
\* resolver does, and the resolver only those of a row that has none.
RaceInv ==
  ~raced =>
    /\ \A f \in TorrentFile : torrent.files[f] <= 1
    /\ Exists /\ ~torrent.resolved => torrent.files = Blank.files
    /\ \A c \in Client :
         /\ Storing(plan[c]) => /\ Exists /\ torrent.resolved
                                /\ \A f \in FilesLeft(plan[c]) : torrent.files[f] = 0
                                /\ \A d \in Client : Storing(plan[d]) => d = c
         /\ FilesLeft(plan[c]) # {} => plan[c].named
         /\ Left(plan[c]) /\ Head(plan[c].todo) = "process" =>
              /\ Exists /\ torrent.files = Blank.files
              /\ \A d \in Client : ~Storing(plan[d])
              /\ \A d \in Client : Left(plan[d]) /\ Head(plan[d].todo) = "process" => d = c

LifeInv == LifeTypes /\ RaceInv /\ ResolvedHereIsComplete

---------------------------------------------------------------------------
(* What requests are left with *)

\* The list holds each file once.
LEMMA FileListFacts ==
  /\ FileList \in Seq(TorrentFile)
  /\ \A i, j \in DOMAIN FileList : FileList[i] = FileList[j] => i = j
<1> DEFINE n == Cardinality(TorrentFile)
<1>1. n \in Nat /\ ExistsBijection(1..n, TorrentFile)
  BY FS_CardinalityType, TorrentLifecycleAssumption
<1>2. PICK f \in [1..n -> TorrentFile] : IsInjective(f)
  BY <1>1 DEF ExistsBijection, Bijection, Injection
<1>3. FileList \in [1..n -> TorrentFile] /\ IsInjective(FileList)
  BY <1>2 DEF FileList, SetToSeq
<1> QED BY <1>1, <1>3, SeqDef DEF IsInjective

LEMMA Words ==
  \A s \in {"insert", "update", "content", "process"} : s \notin TorrentFile
BY TorrentLifecycleAssumption

\* The statement at the head is done, tolerated or not: what is left is as
\* before, less that statement, or nothing is left.
LEMMA AnswerFacts ==
  ASSUME NEW p \in PlanType, WellFormed(p), Left(p), NEW ok \in BOOLEAN,
         NEW todo \in {Tail(p.todo), <<>>}
  PROVE  LET q == Answer(p, todo, ok)
         IN  /\ q \in PlanType /\ WellFormed(q) /\ q.named = p.named
             /\ FilesLeft(q) \subseteq FilesLeft(p) \ {Head(p.todo)}
             /\ Left(q) => Head(q.todo) \in TorrentFile \cup {"content"}
<1> DEFINE q == Answer(p, todo, ok)
<1> USE DEF PlanType, Left
<1>1. /\ p.todo \in Seq(Statement) /\ Len(p.todo) \in Nat \ {0} /\ DOMAIN p.todo = 1..Len(p.todo)
      /\ Head(p.todo) = p.todo[1]
  OBVIOUS
<1>2. q.todo = todo /\ q.kind = p.kind /\ q.named = p.named /\ q.source = p.source
      /\ q.answer \in {"none", "done", "error"}
  BY DEF Answer
<1>3. q \in PlanType
  <2>1. Tail(p.todo) \in Seq(Statement) /\ <<>> \in Seq(Statement)
    BY <1>1
  <2> QED BY <2>1 DEF Answer
<1>4. CASE todo = <<>>
  <2>1. DOMAIN q.todo = {} /\ ~Left(q)
    BY <1>2, <1>4
  <2>2. FilesLeft(q) = {}
    BY <2>1 DEF FilesLeft
  <2>3. WellFormed(q)
    BY <2>1, <2>2 DEF WellFormed
  <2> QED BY <1>2, <1>3, <2>1, <2>2, <2>3
<1>5. CASE todo = Tail(p.todo)
  <2>1. /\ DOMAIN todo = 1..Len(p.todo) - 1
        /\ \A i \in DOMAIN todo : todo[i] = p.todo[i + 1] /\ i + 1 \in DOMAIN p.todo
    BY <1>1, <1>5
  <2>2. \A i \in DOMAIN todo : todo[i] \in TorrentFile \cup {"content"}
    BY <2>1, <1>1 DEF WellFormed
  <2>3. \A i, j \in DOMAIN todo : todo[i] = todo[j] /\ todo[i] \in TorrentFile => i = j
    BY <2>1, <1>1 DEF WellFormed
  <2>4. FilesLeft(q) \subseteq FilesLeft(p) \ {Head(p.todo)}
    BY <1>1, <1>2, <2>1 DEF FilesLeft, WellFormed
  <2>5. Left(q) => Head(q.todo) \in TorrentFile \cup {"content"}
    <3>1. SUFFICES ASSUME todo # <<>> PROVE Head(todo) \in TorrentFile \cup {"content"}
      BY <1>2
    <3>2. todo \in Seq(Statement)
      BY <1>1, <1>5
    <3>3. 1 \in DOMAIN todo /\ Head(todo) = todo[1]
      BY <3>1, <3>2
    <3> QED BY <3>3, <2>2
  <2>6. ~Left(q) \/ Head(q.todo) \notin {"insert", "process"}
    BY <2>5, Words
  <2>7. Left(q) => p.kind # "resolver"
    <3>1. SUFFICES ASSUME Left(q), p.kind = "resolver" PROVE FALSE
      OBVIOUS
    <3>2. Len(p.todo) <= 1
      BY <3>1 DEF WellFormed
    <3>3. todo = <<>>
      <4>1. Len(Tail(p.todo)) = 0 /\ Tail(p.todo) \in Seq(Statement)
        <5>1. Tail(p.todo) \in Seq(Statement) /\ Len(Tail(p.todo)) = Len(p.todo) - 1
          BY <1>1, HeadTailProperties
        <5>2. Len(p.todo) = 1
          <6> DEFINE n == Len(p.todo)
          <6>1. n \in Nat \ {0} /\ n <= 1
            BY <1>1, <3>2
          <6> HIDE DEF n
          <6>2. n = 1
            BY <6>1
          <6> QED BY <6>2 DEF n
        <5> QED BY <5>1, <5>2
      <4> QED BY <1>5, <4>1
    <3> QED BY <1>2, <3>1, <3>3
  <2>8. p.kind = "magnet" => FilesLeft(q) = {}
    BY <2>4 DEF WellFormed
  <2>9. p.kind = "resolver" => Len(q.todo) <= 1
    BY <1>2, <2>7
  <2>10. Left(q) => p.kind # "none"
    BY DEF WellFormed
  <2>11. WellFormed(q)
    BY <1>2, <2>2, <2>3, <2>6, <2>7, <2>8, <2>9, <2>10 DEF WellFormed
  <2> QED BY <1>2, <1>3, <2>4, <2>5, <2>11
<1> QED BY <1>4, <1>5

\* The plan of a request that begins.
PlanFor(kind, named, source, todo) ==
  [kind |-> kind, named |-> named, source |-> source, todo |-> todo, answer |-> "none"]

\* What may follow its first word: files and content, no file twice.
Rest ==
  {rest \in Seq(TorrentFile \cup {"content"}) :
     \A i, j \in DOMAIN rest : rest[i] = rest[j] /\ rest[i] \in TorrentFile => i = j}

LEMMA PlanOf ==
  ASSUME NEW kind \in Kind \ {"none"}, NEW named \in BOOLEAN, NEW source \in Source,
         NEW word \in {"insert", "update", "process"}, NEW rest \in Rest,
         word = "process" <=> kind = "resolver",
         kind \in {"magnet", "resolver"} => rest = <<>>,
         word = "insert" => source # "none"
  PROVE  LET p == PlanFor(kind, named, source, <<word>> \o rest)
         IN  /\ p \in PlanType /\ WellFormed(p) /\ Left(p) /\ Head(p.todo) = word
             /\ rest = <<>> => FilesLeft(p) = {}
<1> DEFINE todo == <<word>> \o rest
           p == PlanFor(kind, named, source, todo)
<1> USE DEF PlanFor, Rest
<1>1. rest \in Seq(Statement) /\ <<word>> \in Seq(Statement) /\ Len(<<word>>) = 1 /\ <<word>>[1] = word
  <2>1. TorrentFile \cup {"content"} \subseteq Statement
    BY DEF Statement
  <2> QED BY <2>1, SeqMonotonic DEF Statement
<1>2. /\ todo \in Seq(Statement) /\ Len(todo) = 1 + Len(rest)
      /\ \A i \in 1..Len(todo) : todo[i] = IF i = 1 THEN word ELSE rest[i - 1]
  <2>1. \A i \in 1..1 : i = 1
    OBVIOUS
  <2> QED BY <1>1, <2>1, ConcatProperties
<1>3. Len(rest) \in Nat /\ DOMAIN rest = 1..Len(rest) /\ DOMAIN todo = 1..1 + Len(rest)
  BY <1>1, <1>2, LenProperties
<1> HIDE DEF todo
<1>4. p \in PlanType
  BY <1>2 DEF PlanType
<1>5. todo # <<>> /\ Head(todo) = word
  BY <1>2, <1>3
<1>6. \A i \in DOMAIN todo : i > 1 => i - 1 \in DOMAIN rest /\ todo[i] = rest[i - 1]
                                      /\ todo[i] \in TorrentFile \cup {"content"}
  BY <1>2, <1>3
<1>7. \A i \in DOMAIN todo : todo[i] \in TorrentFile => i > 1
  BY <1>2, <1>3, Words
<1>8. \A i, j \in DOMAIN todo : todo[i] = todo[j] /\ todo[i] \in TorrentFile => i = j
  <2> TAKE i, j \in DOMAIN todo
  <2> HAVE todo[i] = todo[j] /\ todo[i] \in TorrentFile
  <2>1. i > 1 /\ j > 1
    BY <1>7
  <2>2. i - 1 = j - 1
    BY <1>6, <2>1
  <2> QED BY <1>3, <2>2
<1>9. rest = <<>> => FilesLeft(p) = {} /\ Len(todo) = 1
  <2> HAVE rest = <<>>
  <2>1. DOMAIN todo = {1} /\ Len(todo) = 1
    BY <1>2, <1>3
  <2> QED BY <2>1, <1>7 DEF FilesLeft
<1>10. WellFormed(p)
  BY <1>5, <1>6, <1>8, <1>9 DEF WellFormed, Left
<1> QED BY <1>4, <1>5, <1>9, <1>10 DEF todo, Left

---------------------------------------------------------------------------
(* The invariant *)

LEMMA BlankFacts ==
  /\ Blank \in RowType /\ Blank.source = "none" /\ Blank.by = "none"
  /\ ~Blank.resolved /\ Blank.files = [f \in TorrentFile |-> 0]
BY DEF Blank, RowType, Source

LEMMA NoPlanFacts == NoPlan \in PlanType /\ WellFormed(NoPlan) /\ ~Left(NoPlan) /\ FilesLeft(NoPlan) = {}
<1>1. NoPlan.todo = <<>> /\ NoPlan.kind = "none" /\ <<>> \in Seq(Statement)
  BY DEF NoPlan
<1>2. ~Left(NoPlan) /\ DOMAIN NoPlan.todo = {}
  BY <1>1 DEF Left
<1>3. FilesLeft(NoPlan) = {}
  BY <1>2 DEF FilesLeft
<1>4. NoPlan \in PlanType
  BY <1>1 DEF NoPlan, PlanType, Kind, Source
<1> QED BY <1>1, <1>2, <1>3, <1>4 DEF WellFormed

LEMMA LifeInvInit == LifeInit => LifeInv
<1> SUFFICES ASSUME LifeInit PROVE LifeInv
  OBVIOUS
<1>1. 0 \in 0..MaxRequests /\ 0 \in 0..LifeFaults
  BY TorrentLifecycleAssumption
<1>2. LifeTypes
  BY <1>1, BlankFacts, NoPlanFacts DEF LifeInit, LifeTypes
<1>3. \A c \in Client : ~Storing(plan[c]) /\ ~Left(plan[c]) /\ FilesLeft(plan[c]) = {}
  BY NoPlanFacts DEF LifeInit, Storing
<1>4. RaceInv
  BY <1>3, BlankFacts DEF LifeInit, RaceInv, Exists
<1> QED BY <1>2, <1>4, BlankFacts DEF LifeInit, LifeInv, ResolvedHereIsComplete

\* A request that begins changes no row.  If it is the resolver's it found
\* an unresolved row, and no other job unless that counts as a race; if it has files it begins with its
\* INSERT, and but for an import that counts as a race it has a name.
LEMMA BeginKeeps ==
  ASSUME LifeInv, NEW c \in Client, ~Left(plan[c]),
         NEW q \in PlanType, WellFormed(q), Left(q), ~Storing(q),
         plan' = [plan EXCEPT ![c] = q], requests' \in 0..MaxRequests,
         raced' \in BOOLEAN, raced => raced', UNCHANGED <<torrent, lifeFaults>>,
         ~raced' /\ FilesLeft(q) # {} => q.named,
         ~raced' /\ Head(q.todo) = "process" =>
           /\ Exists /\ ~torrent.resolved
           /\ \A d \in Client : Left(plan[d]) => Head(plan[d].todo) # "process"
  PROVE  LifeInv'
<1> USE DEF LifeInv
<1>1. plan' \in [Client -> PlanType] /\ \A d \in Client : plan'[d] = IF d = c THEN q ELSE plan[d]
  BY DEF LifeTypes
<1>2. LifeTypes'
  BY <1>1 DEF LifeTypes, Exists
<1>3. RaceInv'
  <2> SUFFICES ASSUME ~raced' PROVE RaceInv'
    BY DEF RaceInv
  <2>1. ~raced
    OBVIOUS
  <2>2. \A d \in Client : Storing(plan'[d]) => d # c /\ Storing(plan[d])
    BY <1>1
  <2>3. ASSUME NEW d \in Client, d # c
        PROVE  /\ Storing(plan[d]) => /\ Exists /\ torrent.resolved
                                      /\ \A f \in FilesLeft(plan[d]) : torrent.files[f] = 0
                                      /\ \A e \in Client : Storing(plan[e]) => e = d
               /\ FilesLeft(plan[d]) # {} => plan[d].named
               /\ Left(plan[d]) /\ Head(plan[d].todo) = "process" =>
                     /\ Exists /\ torrent.files = Blank.files
                     /\ \A e \in Client : ~Storing(plan[e])
                     /\ \A e \in Client : Left(plan[e]) /\ Head(plan[e].todo) = "process" => e = d
    BY <2>1 DEF RaceInv
  <2>4. Head(q.todo) = "process" =>
          /\ Exists /\ torrent.files = Blank.files /\ \A e \in Client : ~Storing(plan[e])
    BY <2>1 DEF RaceInv
  <2>5. (\A f \in TorrentFile : torrent.files[f] <= 1) /\ (Exists /\ ~torrent.resolved => torrent.files = Blank.files)
    BY <2>1 DEF RaceInv
  <2>6. \A d \in Client :
          Storing(plan'[d]) => /\ Exists /\ torrent.resolved
                               /\ \A f \in FilesLeft(plan'[d]) : torrent.files[f] = 0
                               /\ \A e \in Client : Storing(plan'[e]) => e = d
    BY <1>1, <2>2, <2>3
  <2>7. \A d \in Client : FilesLeft(plan'[d]) # {} => plan'[d].named
    BY <1>1, <2>3
  <2>8. \A d \in Client : Left(plan'[d]) /\ Head(plan'[d].todo) = "process" =>
          /\ Exists /\ torrent.files = Blank.files
          /\ \A e \in Client : ~Storing(plan'[e])
          /\ \A e \in Client : Left(plan'[e]) /\ Head(plan'[e].todo) = "process" => e = d
    BY <1>1, <2>2, <2>3, <2>4
  <2> QED BY <2>5, <2>6, <2>7, <2>8 DEF RaceInv, Exists
<1> QED BY <1>2, <1>3 DEF ResolvedHereIsComplete

\* What a statement makes of the row.
LEMMA EffectFacts ==
  ASSUME LifeInv, NEW c \in Client, Left(plan[c]),
         Refers(Head(plan[c].todo)) => Exists
  PROVE  LET p == plan[c] s == Head(p.todo) e == Effect(p, s)
         IN  /\ e \in RowType
             /\ e.source = "none" => e = Blank
             /\ e.by = "resolver" => e.resolved /\ e.content /\ \A f \in TorrentFile : e.files[f] >= 1
             /\ s \notin TorrentFile \cup {"process"} => e.files = IF s = "insert" /\ ~Exists THEN Blank.files ELSE torrent.files
             /\ Exists => e.source = torrent.source /\ (torrent.resolved => e.resolved)
             /\ s = "process" => e.resolved /\ \A f \in TorrentFile : e.files[f] = torrent.files[f] + 1
             /\ s \in TorrentFile => \A f \in TorrentFile : e.files[f] = torrent.files[f] + IF f = s THEN 1 ELSE 0
             /\ s = "insert" /\ ~Exists => e.source # "none" /\ (p.named /\ p.kind # "magnet" => e.resolved)
<1> DEFINE p == plan[c]
           s == Head(p.todo)
           e == Effect(p, s)
<1>1. /\ p \in PlanType /\ WellFormed(p) /\ s \in Statement /\ torrent \in RowType
      /\ (~Exists => torrent = Blank) /\ ResolvedHereIsComplete
  BY DEF LifeInv, LifeTypes, PlanType, Left
<1> HIDE DEF p, s
<1> USE <1>1, BlankFacts
<1>2. CASE s = "insert" /\ ~Exists
  <2>1. e = Inserted(p)
    BY <1>2, Words DEF Effect
  <2>2. p.source \in Source \ {"none"} /\ p.named \in BOOLEAN /\ p.kind \in Kind \ {"none", "resolver"}
    <3>1. Left(p) /\ s = Head(p.todo)
      BY DEF p, s
    <3> QED BY <3>1, <1>2 DEF WellFormed, PlanType
  <2>3. /\ e.source = p.source /\ (e.resolved <=> p.named /\ p.kind # "magnet")
        /\ e.files = Blank.files
        /\ e \in [source : Source, resolved : BOOLEAN, priority : BOOLEAN,
                  by : {"none", "upload", "import", "merge"}, content : BOOLEAN, files : [TorrentFile -> Nat]]
    <3> DEFINE magnet == p.kind = "magnet"
               done == p.named /\ ~magnet
               by == IF done THEN p.kind ELSE "none"
    <3>1. e = [source |-> p.source, resolved |-> done, priority |-> magnet,
               by |-> by, content |-> FALSE, files |-> [f \in TorrentFile |-> 0]]
      BY <2>1 DEF Inserted, Blank
    <3>2. by \in {"none", "upload", "import", "merge"} /\ (done <=> p.named /\ p.kind # "magnet")
      BY <2>2 DEF Kind
    <3>3. magnet \in BOOLEAN /\ done \in BOOLEAN
      OBVIOUS
    <3> HIDE DEF magnet, done, by
    <3>4. e \in [source : Source, resolved : BOOLEAN, priority : BOOLEAN,
                  by : {"none", "upload", "import", "merge"}, content : BOOLEAN, files : [TorrentFile -> Nat]]
      BY <2>2, <3>1, <3>2, <3>3
    <3>5. /\ e.source = p.source /\ e.resolved = done /\ e.by = by
          /\ e.files = Blank.files
      BY <3>1
    <3> QED BY <3>2, <3>4, <3>5
  <2> QED BY <1>2, <2>2, <2>3, Words DEF RowType, p, s
<1>3. CASE s = "update" /\ Exists
  <2>1. e = MergedInto
    BY <1>3, Words DEF Effect
  <2> QED BY <1>3, <2>1, Words DEF MergedInto, RowType, Exists, p, s
<1>4. CASE s = "content"
  <2>1. e = [torrent EXCEPT !.content = TRUE]
    BY <1>4, Words DEF Effect
  <2>2. Exists
    BY <1>4 DEF Refers, p, s
  <2> QED BY <1>4, <2>1, <2>2, Words DEF RowType, Exists, ResolvedHereIsComplete, p, s
<1>5. CASE s \in TorrentFile
  <2>1. e = [torrent EXCEPT !.files[s] = @ + 1]
    BY <1>5, Words DEF Effect
  <2>2. Exists
    BY <1>5 DEF Refers, p, s
  <2>3. \A f \in TorrentFile : e.files[f] = torrent.files[f] + (IF f = s THEN 1 ELSE 0)
    BY <1>5, <2>1 DEF RowType
  <2>4. e \in RowType
    BY <1>5, <2>1 DEF RowType
  <2> QED BY <1>5, <2>1, <2>2, <2>3, <2>4, Words DEF RowType, Exists, ResolvedHereIsComplete, p, s
<1>6. CASE s = "process"
  <2>1. e = Processed
    BY <1>6, Words DEF Effect
  <2>2. Exists
    BY <1>6 DEF Refers, p, s
  <2>3. \A f \in TorrentFile : e.files[f] = torrent.files[f] + 1
    BY <2>1 DEF Processed, RowType
  <2>4. e \in RowType /\ e.resolved /\ e.content /\ e.source = torrent.source
    <3> DEFINE files == [f \in TorrentFile |-> torrent.files[f] + 1]
    <3>1. files \in [TorrentFile -> Nat]
      BY DEF RowType
    <3>2. e = [torrent EXCEPT !.resolved = TRUE, !.priority = FALSE,
                              !.by = "resolver", !.content = TRUE, !.files = files]
      BY <2>1 DEF Processed
    <3> HIDE DEF files
    <3> QED BY <3>1, <3>2 DEF RowType
  <2> QED BY <1>6, <2>2, <2>3, <2>4, Words DEF RowType, Exists, p, s
<1>7. CASE s \in {"insert", "update"} /\ (s = "insert" => Exists) /\ (s = "update" => ~Exists)
  <2>1. e = torrent
    BY <1>7, Words DEF Effect
  <2> QED BY <1>7, <2>1, Words DEF Exists, ResolvedHereIsComplete, p, s
<1> QED BY <1>2, <1>3, <1>4, <1>5, <1>6, <1>7 DEF Statement

\* A request goes on with less to do; the row has at most the one file more
\* that its statement stored.
LEMMA GoesOnKeeps ==
  ASSUME LifeTypes, RaceInv, LifeTypes', ~raced', raced => raced',
         NEW c \in Client, Left(plan[c]), NEW q \in PlanType,
         plan' = [plan EXCEPT ![c] = q], q.named = plan[c].named,
         FilesLeft(q) \subseteq FilesLeft(plan[c]) \ {Head(plan[c].todo)},
         Left(q) => Head(q.todo) \in TorrentFile \cup {"content"},
         Storing(q) => Exists' /\ torrent'.resolved,
         Exists => Exists' /\ (torrent.resolved => torrent'.resolved),
         \/ torrent'.files = torrent.files
         \/ /\ Head(plan[c].todo) \in TorrentFile /\ Exists
            /\ \A f \in TorrentFile :
                 torrent'.files[f] = torrent.files[f] + IF f = Head(plan[c].todo) THEN 1 ELSE 0,
         Exists' /\ ~torrent'.resolved => torrent'.files = torrent.files /\ torrent.files = Blank.files,
         Storing(q) => Storing(plan[c]) \/ ~Exists
  PROVE  RaceInv'
<1> DEFINE s == Head(plan[c].todo)
<1>1. \A d \in Client : plan'[d] = IF d = c THEN q ELSE plan[d]
  BY DEF LifeTypes
<1>2. /\ \A f \in TorrentFile : torrent.files[f] <= 1 /\ torrent.files[f] \in Nat
      /\ torrent.files \in [TorrentFile -> Nat] /\ torrent'.files \in [TorrentFile -> Nat]
      /\ Blank.files = [f \in TorrentFile |-> 0]
  BY BlankFacts DEF RaceInv, LifeTypes, RowType
<1>3. \A d \in Client :
        /\ Storing(plan[d]) => /\ Exists /\ torrent.resolved
                               /\ \A f \in FilesLeft(plan[d]) : torrent.files[f] = 0
                               /\ \A e \in Client : Storing(plan[e]) => e = d
        /\ FilesLeft(plan[d]) # {} => plan[d].named
        /\ Left(plan[d]) /\ Head(plan[d].todo) = "process" =>
              /\ Exists /\ torrent.files = Blank.files
              /\ \A e \in Client : ~Storing(plan[e])
              /\ \A e \in Client : Left(plan[e]) /\ Head(plan[e].todo) = "process" => e = d
  BY DEF RaceInv
<1>4. s \in TorrentFile => s \in FilesLeft(plan[c]) /\ Storing(plan[c])
  <2>1. plan[c].todo \in Seq(Statement)
    BY DEF LifeTypes, PlanType
  <2>2. 1 \in DOMAIN plan[c].todo /\ plan[c].todo[1] = s
    BY <2>1 DEF Left
  <2>3. s \in TorrentFile => s \in FilesLeft(plan[c])
    BY <2>2 DEF FilesLeft
  <2> QED BY <2>3, Words DEF Storing
<1> HIDE DEF s
<1>5. CASE torrent'.files = torrent.files
  <2>1. \A f \in TorrentFile : torrent'.files[f] = torrent.files[f]
    BY <1>5
  <2>2. \A d \in Client : Storing(plan'[d]) => Storing(plan[d]) \/ (d = c /\ torrent.files = Blank.files)
    <3>1. ~Exists => torrent.files = Blank.files
      BY DEF LifeTypes
    <3> QED BY <1>1, <3>1
  <2>3. \A d \in Client : FilesLeft(plan'[d]) \subseteq FilesLeft(plan[d])
    BY <1>1
  <2>4. \A d \in Client : Storing(plan'[d]) => \A f \in FilesLeft(plan'[d]) : torrent'.files[f] = 0
    <3> SUFFICES ASSUME NEW d \in Client, Storing(plan'[d]), NEW f \in FilesLeft(plan'[d])
                 PROVE  torrent.files[f] = 0
      BY <1>5
    <3>1. f \in FilesLeft(plan[d]) /\ f \in TorrentFile
      BY <2>3 DEF FilesLeft
    <3> QED BY <1>2, <1>3, <2>2, <3>1
  <2>5. \A d \in Client : Storing(plan'[d]) => Exists' /\ torrent'.resolved
    BY <1>1, <1>3
  <2>6. ASSUME NEW d \in Client, NEW e \in Client, Storing(plan'[d]), Storing(plan'[e]) PROVE e = d
    <3>1. CASE d # c /\ e # c
      BY <1>1, <1>3, <2>6, <3>1
    <3>2. CASE d = c \/ e = c
      <4> SUFFICES ASSUME d # e PROVE FALSE
        OBVIOUS
      <4>1. Storing(q) /\ \E x \in Client \ {c} : Storing(plan[x])
        BY <1>1, <2>6, <3>2
      <4>2. Storing(plan[c])
        BY <1>3, <4>1
      <4> QED BY <1>3, <4>1, <4>2
    <3> QED BY <3>1, <3>2
  <2>7. \A d \in Client : FilesLeft(plan'[d]) # {} => plan'[d].named
    BY <1>1, <1>3, <2>3
  <2>8. ASSUME NEW d \in Client, Left(plan'[d]), Head(plan'[d].todo) = "process"
        PROVE  /\ Exists' /\ torrent'.files = Blank.files
               /\ \A e \in Client : ~Storing(plan'[e])
               /\ \A e \in Client : Left(plan'[e]) /\ Head(plan'[e].todo) = "process" => e = d
    <3>1. d # c /\ Left(plan[d]) /\ Head(plan[d].todo) = "process"
      BY <1>1, <2>8, Words
    <3>2. /\ Exists /\ torrent.files = Blank.files /\ \A e \in Client : ~Storing(plan[e])
          /\ \A e \in Client : Left(plan[e]) /\ Head(plan[e].todo) = "process" => e = d
      BY <1>3, <3>1
    <3>3. ~Storing(q)
      BY <3>2
    <3> QED BY <1>1, <1>5, <3>2, <3>3, Words
  <2>9. Exists' /\ ~torrent'.resolved => torrent'.files = Blank.files
    OBVIOUS
  <2> QED BY <1>2, <2>1, <2>4, <2>5, <2>6, <2>7, <2>8, <2>9 DEF RaceInv, Blank
<1>6. CASE s \in TorrentFile /\ \A f \in TorrentFile : torrent'.files[f] = torrent.files[f] + IF f = s THEN 1 ELSE 0
  <2>1. Storing(plan[c]) /\ torrent.files[s] = 0 /\ Exists /\ torrent.resolved
    BY <1>3, <1>4, <1>6
  <2>2. \A d \in Client \ {c} : ~Storing(plan'[d])
    BY <1>1, <1>3, <2>1
  <2>3. \A d \in Client : ~(Left(plan'[d]) /\ Head(plan'[d].todo) = "process")
    BY <1>1, <1>3, <2>1, Words
  <2>4. \A f \in FilesLeft(q) : torrent'.files[f] = 0
    <3> TAKE f \in FilesLeft(q)
    <3>1. f # s /\ f \in FilesLeft(plan[c]) /\ f \in TorrentFile
      BY DEF s, FilesLeft
    <3>2. torrent.files[f] = 0
      BY <1>3, <2>1, <3>1
    <3> QED BY <1>6, <3>1, <3>2
  <2>5. \A f \in TorrentFile : torrent'.files[f] <= 1
    BY <1>2, <1>6, <2>1
  <2>6. \A d \in Client : FilesLeft(plan'[d]) # {} => plan'[d].named
    BY <1>1, <1>3
  <2>7. Exists' /\ torrent'.resolved
    BY <2>1
  <2> QED BY <1>1, <2>2, <2>3, <2>4, <2>5, <2>6, <2>7 DEF RaceInv
<1> QED BY <1>5, <1>6 DEF s

LEMMA ExecuteKeeps ==
  ASSUME LifeInv, NEW c \in Client, Execute(c)
  PROVE  LifeInv'
<1> DEFINE p == plan[c]
           s == Head(p.todo)
           e == Effect(p, s)
           q == Answer(p, Tail(p.todo), TRUE)
<1>1. /\ Left(p) /\ (Refers(s) => Exists) /\ torrent' = e /\ plan' = [plan EXCEPT ![c] = q]
      /\ raced' = (raced \/ (s = "insert" /\ Exists)) /\ UNCHANGED <<requests, lifeFaults>>
  BY DEF Execute, Free, Left
<1>2. p \in PlanType /\ WellFormed(p)
  BY DEF LifeInv, LifeTypes
<1>3. /\ q \in PlanType /\ WellFormed(q) /\ q.named = p.named
      /\ FilesLeft(q) \subseteq FilesLeft(p) \ {s}
      /\ Left(q) => Head(q.todo) \in TorrentFile \cup {"content"}
  BY <1>1, <1>2, AnswerFacts
<1>4. /\ e \in RowType
      /\ e.source = "none" => e = Blank
      /\ e.by = "resolver" => e.resolved /\ e.content /\ \A f \in TorrentFile : e.files[f] >= 1
      /\ s \notin TorrentFile \cup {"process"} => e.files = IF s = "insert" /\ ~Exists THEN Blank.files ELSE torrent.files
      /\ Exists => e.source = torrent.source /\ (torrent.resolved => e.resolved)
      /\ s = "process" => e.resolved /\ \A f \in TorrentFile : e.files[f] = torrent.files[f] + 1
      /\ s \in TorrentFile => \A f \in TorrentFile : e.files[f] = torrent.files[f] + IF f = s THEN 1 ELSE 0
      /\ s = "insert" /\ ~Exists => e.source # "none" /\ (p.named /\ p.kind # "magnet" => e.resolved)
  BY <1>1, EffectFacts
<1> HIDE DEF e, q
<1>5. LifeTypes'
  BY <1>1, <1>3, <1>4 DEF LifeInv, LifeTypes, Exists
<1>6. ResolvedHereIsComplete'
  BY <1>1, <1>4 DEF ResolvedHereIsComplete
<1>7. ASSUME ~raced' PROVE RaceInv'
  <2>1. ~raced /\ (s = "insert" => ~Exists) /\ RaceInv /\ LifeTypes
    BY <1>1, <1>7 DEF LifeInv
  <2>2. ~Exists => torrent = Blank
    BY <2>1 DEF LifeTypes
  <2>3. s # "insert" /\ FilesLeft(q) # {} => Storing(p)
    BY <1>3 DEF Storing
  <2>4. Storing(q) => FilesLeft(p) # {}
    BY <1>3 DEF Storing
  <2>5. FilesLeft(p) # {} => p.named /\ p.kind # "magnet"
    BY <1>2, <2>1 DEF RaceInv, WellFormed
  <2>6. Storing(p) => Exists /\ torrent.resolved
    BY <2>1 DEF RaceInv
  <2>7. CASE s # "process"
    <3>1. Storing(q) => Exists' /\ torrent'.resolved
      <4>1. CASE s = "insert"
        BY <1>1, <1>4, <2>1, <2>4, <2>5, <4>1 DEF Exists
      <4>2. CASE s # "insert"
        BY <1>1, <1>4, <2>3, <2>6, <4>2 DEF Exists, Storing
      <4> QED BY <4>1, <4>2
    <3>2. Exists => Exists' /\ (torrent.resolved => torrent'.resolved)
      BY <1>1, <1>4 DEF Exists
    <3>3. \/ torrent'.files = torrent.files
          \/ /\ s \in TorrentFile /\ Exists
             /\ \A f \in TorrentFile : torrent'.files[f] = torrent.files[f] + IF f = s THEN 1 ELSE 0
      <4>1. s \in TorrentFile => Exists
        BY <1>1 DEF Refers
      <4> QED BY <1>1, <1>4, <2>2, <2>7, <4>1
    <3>4. Exists' /\ ~torrent'.resolved => torrent'.files = torrent.files /\ torrent.files = Blank.files
      <4> SUFFICES ASSUME Exists', ~torrent'.resolved
                   PROVE  torrent'.files = torrent.files /\ torrent.files = Blank.files
        OBVIOUS
      <4>1. s \notin TorrentFile
        <5>1. s \in TorrentFile => s \in FilesLeft(p)
          <6>1. p.todo \in Seq(Statement) /\ p.todo # <<>>
            BY <1>1, <1>2 DEF PlanType, Left
          <6> QED BY <6>1 DEF FilesLeft
        <5>2. s \in TorrentFile => Storing(p)
          BY <5>1, Words DEF Storing
        <5> QED BY <2>6, <3>2, <5>2
      <4>2. torrent.files = Blank.files
        BY <2>1, <2>2, <3>2 DEF RaceInv
      <4> QED BY <1>1, <1>4, <2>7, <4>1, <4>2
    <3>5. Storing(q) => Storing(p) \/ ~Exists
      BY <2>1, <2>3 DEF Storing
    <3> QED BY <1>1, <1>3, <1>5, <1>7, <2>1, <3>1, <3>2, <3>3, <3>4, <3>5, GoesOnKeeps
  <2>8. CASE s = "process"
    <3>1. /\ Exists /\ torrent.files = Blank.files /\ \A d \in Client : ~Storing(plan[d])
          /\ \A d \in Client : Left(plan[d]) /\ Head(plan[d].todo) = "process" => d = c
      BY <1>1, <2>1, <2>8 DEF RaceInv
    <3>2. FilesLeft(q) = {}
      BY <2>3, <2>8, <3>1
    <3>3. \A d \in Client : plan'[d] = IF d = c THEN q ELSE plan[d]
      BY <1>1 DEF LifeInv, LifeTypes
    <3>4. \A d \in Client : ~Storing(plan'[d]) /\ ~(Left(plan'[d]) /\ Head(plan'[d].todo) = "process")
      BY <1>3, <3>1, <3>2, <3>3, Words DEF Storing
    <3>5. \A d \in Client : FilesLeft(plan'[d]) # {} => plan'[d].named
      BY <2>1, <3>2, <3>3 DEF RaceInv
    <3>6. torrent'.resolved /\ \A f \in TorrentFile : torrent'.files[f] = 1
      BY <1>1, <1>4, <2>8, <3>1, BlankFacts
    <3> QED BY <3>4, <3>5, <3>6 DEF RaceInv
  <2> QED BY <2>7, <2>8
<1> QED BY <1>5, <1>6, <1>7 DEF LifeInv, RaceInv

\* A statement that fails changes no row, and leaves the request with less.
LEMMA FailedKeeps ==
  ASSUME LifeInv, NEW c \in Client, Failed(c)
  PROVE  LifeInv'
<1> DEFINE p == plan[c]
           s == Head(p.todo)
           todo == IF Tolerates(p) THEN Tail(p.todo) ELSE <<>>
           q == Answer(p, todo, Tolerates(p))
<1>1. /\ Left(p) /\ plan' = [plan EXCEPT ![c] = q] /\ lifeFaults' \in 0..LifeFaults
      /\ UNCHANGED <<torrent, requests, raced>>
  <2>1. Left(p) /\ UNCHANGED <<torrent, requests, raced>>
    BY DEF Failed, Free, Left
  <2>2. lifeFaults \in 0..LifeFaults /\ LifeFaults \in Nat
    BY TorrentLifecycleAssumption DEF LifeInv, LifeTypes
  <2>3. lifeFaults' = lifeFaults \/ LifeFault
    BY DEF Failed
  <2>4. lifeFaults' \in 0..LifeFaults
    BY <2>2, <2>3 DEF LifeFault
  <2>5. plan' = [plan EXCEPT ![c] = q]
    <3>1. CASE Tolerates(p)
      <4>1. plan' = [plan EXCEPT ![c] = Answer(p, Tail(p.todo), TRUE)]
        BY <3>1 DEF Failed
      <4>2. todo = Tail(p.todo) /\ Tolerates(p) = TRUE
        BY <3>1 DEF Tolerates
      <4> QED BY <4>1, <4>2
    <3>2. CASE ~Tolerates(p)
      <4>1. plan' = [plan EXCEPT ![c] = Answer(p, <<>>, FALSE)]
        BY <3>2 DEF Failed
      <4>2. todo = <<>> /\ Tolerates(p) = FALSE
        BY <3>2 DEF Tolerates
      <4> QED BY <4>1, <4>2
    <3> QED BY <3>1, <3>2
  <2> QED BY <2>1, <2>4, <2>5
<1>2. p \in PlanType /\ WellFormed(p) /\ Tolerates(p) \in BOOLEAN
  BY DEF LifeInv, LifeTypes, Tolerates
<1>3. todo \in {Tail(p.todo), <<>>}
  OBVIOUS
<1>4. todo = <<>> => FilesLeft(q) = {} /\ ~Left(q)
  BY <1>2 DEF FilesLeft, Left, Answer, PlanType
<1>5. todo # <<>> => s \in TorrentFile \cup {"content"}
  BY DEF Tolerates
<1> HIDE DEF todo
<1>6. /\ q \in PlanType /\ WellFormed(q) /\ q.named = p.named
      /\ FilesLeft(q) \subseteq FilesLeft(p) \ {s}
      /\ Left(q) => Head(q.todo) \in TorrentFile \cup {"content"}
  BY <1>1, <1>2, <1>3, AnswerFacts
<1> HIDE DEF q
<1>7. LifeTypes'
  BY <1>1, <1>6 DEF LifeInv, LifeTypes, Exists
<1>8. ResolvedHereIsComplete'
  BY <1>1 DEF LifeInv, ResolvedHereIsComplete
<1>9. ASSUME ~raced' PROVE RaceInv'
  <2>1. ~raced /\ RaceInv /\ LifeTypes
    BY <1>1, <1>9 DEF LifeInv
  <2>2. Storing(q) => Storing(p)
    BY <1>4, <1>5, <1>6, Words DEF Storing
  <2>3. Storing(q) => Exists' /\ torrent'.resolved
    BY <1>1, <2>1, <2>2 DEF RaceInv, Exists
  <2>4. Exists' /\ ~torrent'.resolved => torrent'.files = torrent.files /\ torrent.files = Blank.files
    BY <1>1, <2>1 DEF RaceInv, Exists
  <2> QED BY <1>1, <1>6, <1>7, <1>9, <2>1, <2>2, <2>3, <2>4, GoesOnKeeps DEF Exists
<1> QED BY <1>7, <1>8, <1>9 DEF LifeInv, RaceInv

---------------------------------------------------------------------------
(* How requests begin *)

\* What Begins does, once the request's plan is known to be one.
LEMMA BeginsFacts ==
  ASSUME LifeInv, NEW c \in Client, NEW kind, NEW named, NEW source, NEW todo,
         Begins(c, kind, named, source, todo)
  PROVE  /\ ~Left(plan[c]) /\ requests' \in 0..MaxRequests /\ UNCHANGED <<torrent, lifeFaults>>
         /\ plan' = [plan EXCEPT ![c] = PlanFor(kind, named, source, todo)]
<1>1. requests \in 0..MaxRequests /\ MaxRequests \in Nat
  BY TorrentLifecycleAssumption DEF LifeInv, LifeTypes
<1>2. requests' = requests + 1 /\ requests < MaxRequests
  BY DEF Begins
<1>3. requests' \in 0..MaxRequests
  BY <1>1, <1>2
<1> QED BY <1>3 DEF Begins, Free, Left, PlanFor

\* A request that inserts the row first, with rest after it.
LEMMA InsertKeeps ==
  ASSUME LifeInv, NEW c \in Client, NEW kind \in {"magnet", "upload", "import", "merge"},
         NEW named \in BOOLEAN, NEW source \in Source \ {"none"},
         NEW rest \in Rest,
         kind = "magnet" => rest = <<>>,
         Begins(c, kind, named, source, <<"insert">> \o rest),
         raced' \in BOOLEAN, raced => raced', ~raced' /\ rest # <<>> => named
  PROVE  LifeInv'
<1> DEFINE q == PlanFor(kind, named, source, <<"insert">> \o rest)
<1>1. /\ q \in PlanType /\ WellFormed(q) /\ Left(q) /\ Head(q.todo) = "insert"
      /\ rest = <<>> => FilesLeft(q) = {}
  <2>1. kind \in Kind \ {"none"} /\ kind # "resolver" /\ source \in Source /\ source # "none"
    BY DEF Kind
  <2>2. "insert" \in {"insert", "update", "process"} /\ "insert" # "process"
    OBVIOUS
  <2> QED BY <2>1, <2>2, PlanOf
<1>2. q.named = named
  BY DEF PlanFor
<1>3. /\ ~Left(plan[c]) /\ requests' \in 0..MaxRequests /\ UNCHANGED <<torrent, lifeFaults>>
      /\ plan' = [plan EXCEPT ![c] = q]
  BY BeginsFacts
<1> HIDE DEF q
<1>4. ~Storing(q)
  BY <1>1 DEF Storing
<1>5. ~raced' /\ FilesLeft(q) # {} => q.named
  BY <1>1, <1>2
<1> QED BY <1>1, <1>3, <1>4, <1>5, BeginKeeps

\* A request of one word, no INSERT: a merge into an unresolved row, or the
\* resolver's transaction.
LEMMA WordKeeps ==
  ASSUME LifeInv, NEW c \in Client, NEW kind \in {"merge", "resolver"},
         NEW named \in BOOLEAN, NEW source \in Source,
         NEW word \in {"update", "process"}, word = "process" <=> kind = "resolver",
         Begins(c, kind, named, source, <<word>>), raced' \in BOOLEAN, raced => raced',
         ~raced' /\ kind = "resolver" =>
           /\ Exists /\ ~torrent.resolved
           /\ \A d \in Client : Left(plan[d]) => plan[d].kind # "resolver"
  PROVE  LifeInv'
<1> DEFINE q == PlanFor(kind, named, source, <<word>>)
<1>1. /\ q.todo = <<word>> /\ q.kind = kind /\ DOMAIN q.todo = {1} /\ Len(q.todo) = 1
      /\ q.todo[1] = word /\ word \notin TorrentFile /\ word # "insert"
  BY Words DEF PlanFor
<1>2. /\ q \in PlanType /\ WellFormed(q) /\ Left(q) /\ Head(q.todo) = word /\ FilesLeft(q) = {}
  <2>1. q \in PlanType
    <3>1. <<word>> \in Seq(Statement)
      BY DEF Statement
    <3> QED BY <3>1 DEF PlanType, PlanFor, Kind
  <2>2. Left(q) /\ Head(q.todo) = word
    BY <1>1 DEF Left
  <2>3. FilesLeft(q) = {}
    BY <1>1 DEF FilesLeft
  <2> HIDE DEF q
  <2>4. WellFormed(q)
    BY <1>1, <2>2, <2>3 DEF WellFormed
  <2> QED BY <2>1, <2>2, <2>3, <2>4
<1>3. /\ ~Left(plan[c]) /\ requests' \in 0..MaxRequests /\ UNCHANGED <<torrent, lifeFaults>>
      /\ plan' = [plan EXCEPT ![c] = q]
  BY BeginsFacts
<1> HIDE DEF q
<1>4. ~Storing(q)
  BY <1>2 DEF Storing
<1>5. \A d \in Client : Left(plan[d]) => (Head(plan[d].todo) = "process" <=> plan[d].kind = "resolver")
  BY DEF LifeInv, LifeTypes, WellFormed
<1>6. ~raced' /\ Head(q.todo) = "process" =>
        /\ Exists /\ ~torrent.resolved
        /\ \A d \in Client : Left(plan[d]) => Head(plan[d].todo) # "process"
  BY <1>2, <1>5
<1> QED BY <1>2, <1>3, <1>4, <1>6, BeginKeeps

LEMMA NoFiles == <<>> \in Rest /\ <<"insert">> \o <<>> = <<"insert">>
<1>1. <<"insert">> \in Seq(Statement)
  BY DEF Statement
<1>2. <<"insert">> \o <<>> = <<"insert">>
  BY <1>1, ConcatEmptySeq
<1> QED BY <1>2 DEF Rest

\* The files alone, before the content or after it.
LEMMA WithFiles ==
  {FileList, FileList \o <<"content">>, <<"content">> \o FileList, <<"content">>} \subseteq Rest
<1> DEFINE S == TorrentFile \cup {"content"}
           n == Len(FileList)
           C == <<"content">>
<1>1. /\ FileList \in Seq(S) /\ C \in Seq(S) /\ n \in Nat /\ DOMAIN FileList = 1..n
      /\ Len(C) = 1 /\ C[1] = "content"
  <2>1. FileList \in Seq(S)
    BY FileListFacts, SeqMonotonic
  <2> QED BY <2>1, LenProperties
<1>2. \A i, j \in 1..n : FileList[i] = FileList[j] => i = j
  BY <1>1, FileListFacts
<1>3. "content" \notin TorrentFile
  BY Words
<1> HIDE DEF S, C, n
<1>4. FileList \o C \in Rest
  <2> DEFINE rest == FileList \o C
  <2>1. /\ rest \in Seq(S) /\ Len(rest) = n + 1
        /\ \A i \in 1..n + 1 : rest[i] = IF i <= n THEN FileList[i] ELSE C[i - n]
    BY <1>1, ConcatProperties DEF n
  <2> HIDE DEF rest
  <2>2. DOMAIN rest = 1..n + 1
    BY <2>1, LenProperties
  <2>3. \A i \in 1..n + 1 : rest[i] \in TorrentFile => i \in 1..n /\ rest[i] = FileList[i]
    <3> TAKE i \in 1..n + 1
    <3>1. CASE i <= n
      BY <1>1, <2>1, <3>1
    <3>2. CASE ~(i <= n)
      <4>1. i - n = 1
        BY <1>1, <3>2
      <4> QED BY <1>1, <1>3, <2>1, <3>2, <4>1
    <3> QED BY <3>1, <3>2
  <2>4. \A i, j \in DOMAIN rest : rest[i] = rest[j] /\ rest[i] \in TorrentFile => i = j
    BY <1>2, <2>2, <2>3
  <2>5. rest \in Rest
    BY <2>1, <2>4 DEF Rest, S
  <2> QED BY <2>5 DEF rest
<1>5. C \o FileList \in Rest
  <2> DEFINE rest == C \o FileList
  <2>1. rest \in Seq(S) /\ Len(rest) = 1 + n
    BY <1>1, ConcatProperties DEF n
  <2>2. \A i \in 1..1 + n : rest[i] = IF i <= 1 THEN C[i] ELSE FileList[i - 1]
    <3>1. \A i \in 1..Len(C) + Len(FileList) :
            (C \o FileList)[i] = IF i <= Len(C) THEN C[i] ELSE FileList[i - Len(C)]
      BY <1>1, ConcatProperties
    <3>2. 1..Len(C) + Len(FileList) = 1..1 + n
      BY <1>1 DEF n
    <3> QED BY <1>1, <3>1, <3>2
  <2> HIDE DEF rest
  <2>3. DOMAIN rest = 1..1 + n
    BY <2>1, LenProperties
  <2>4. \A i \in 1..1 + n : rest[i] \in TorrentFile => i - 1 \in 1..n /\ rest[i] = FileList[i - 1]
    <3> TAKE i \in 1..1 + n
    <3>1. CASE i <= 1
      <4>1. i = 1
        BY <1>1, <3>1
      <4> QED BY <1>1, <1>3, <2>2, <4>1
    <3>2. CASE ~(i <= 1)
      BY <1>1, <2>2, <3>2
    <3> QED BY <3>1, <3>2
  <2>5. \A i, j \in DOMAIN rest : rest[i] = rest[j] /\ rest[i] \in TorrentFile => i = j
    <3> SUFFICES ASSUME NEW i \in 1..1 + n, NEW j \in 1..1 + n, rest[i] = rest[j], rest[i] \in TorrentFile
                 PROVE  i = j
      BY <2>3
    <3>1. i - 1 = j - 1
      BY <1>2, <2>4
    <3> QED BY <1>1, <3>1
  <2>6. rest \in Rest
    BY <2>1, <2>5 DEF Rest, S
  <2> QED BY <2>6 DEF rest
<1>6. C \in Rest
  <2>1. DOMAIN C = {1}
    BY <1>1, LenProperties DEF C
  <2> QED BY <1>1, <2>1 DEF Rest, S
<1>7. FileList \in Rest
  BY <1>1, <1>2 DEF Rest, S
<1> QED BY <1>4, <1>5, <1>6, <1>7 DEF C

---------------------------------------------------------------------------
(* Steps that are no client's *)

\* The crawler's row is unresolved and has no files.
LEMMA DiscoverKeeps == LifeInv /\ DiscoverHash => LifeInv'
<1> SUFFICES ASSUME LifeInv, DiscoverHash PROVE LifeInv'
  OBVIOUS
<1>1. /\ ~Exists /\ torrent = Blank /\ UNCHANGED <<plan, requests, raced, lifeFaults>>
      /\ torrent' = [Blank EXCEPT !.source = "bep51"]
  BY DEF DiscoverHash, LifeInv, LifeTypes
<1>2. /\ torrent' \in RowType /\ torrent'.source = "bep51" /\ torrent'.files = Blank.files
      /\ ~torrent'.resolved /\ torrent'.by = "none"
  BY <1>1, BlankFacts DEF RowType, Source
<1>3. Exists'
  BY <1>2 DEF Exists
<1>4. LifeTypes'
  BY <1>1, <1>2, <1>3 DEF LifeInv, LifeTypes
<1>5. ASSUME ~raced PROVE RaceInv'
  <2>1. \A c \in Client : ~Storing(plan[c]) /\ ~(Left(plan[c]) /\ Head(plan[c].todo) = "process")
    BY <1>1, <1>5 DEF LifeInv, RaceInv
  <2>2. \A c \in Client : FilesLeft(plan[c]) # {} => plan[c].named
    BY <1>5 DEF LifeInv, RaceInv
  <2>3. \A f \in TorrentFile : torrent'.files[f] <= 1
    BY <1>2, BlankFacts
  <2> QED BY <1>1, <1>2, <2>1, <2>2, <2>3, BlankFacts DEF RaceInv
<1>6. raced => RaceInv'
  BY <1>1 DEF RaceInv
<1> QED BY <1>2, <1>4, <1>5, <1>6 DEF LifeInv, ResolvedHereIsComplete

\* A row deleted under a request counts as a race; otherwise no request is
\* left to store a file of the next row.
LEMMA DeleteKeeps == LifeInv /\ DeleteTorrent => LifeInv'
<1> SUFFICES ASSUME LifeInv, DeleteTorrent PROVE LifeInv'
  OBVIOUS
<1>1. /\ torrent' = Blank /\ UNCHANGED <<plan, requests>> /\ LifeFault
      /\ raced' = (raced \/ \E c \in Client : ~Free(c))
  BY DEF DeleteTorrent
<1>2. lifeFaults' \in 0..LifeFaults
  BY <1>1, TorrentLifecycleAssumption DEF LifeInv, LifeTypes, LifeFault
<1>3. ~Exists' /\ raced' \in BOOLEAN
  BY <1>1, BlankFacts DEF Exists, LifeInv, LifeTypes
<1>4. LifeTypes'
  BY <1>1, <1>2, <1>3, BlankFacts DEF LifeInv, LifeTypes
<1>5. ASSUME ~raced' PROVE RaceInv'
  <2>1. \A c \in Client : ~Left(plan[c])
    BY <1>1, <1>5 DEF Free, Left
  <2>2. \A c \in Client : FilesLeft(plan[c]) = {}
    BY <2>1 DEF FilesLeft, Left
  <2>3. \A f \in TorrentFile : torrent'.files[f] <= 1
    BY <1>1, BlankFacts
  <2> QED BY <1>1, <1>3, <2>1, <2>2, <2>3 DEF RaceInv, Storing
<1> QED BY <1>1, <1>4, <1>5, BlankFacts DEF LifeInv, RaceInv, ResolvedHereIsComplete

\* Requests of other processes go on.  If the repair changes the row under
\* one of them that counts as a race; if none is left a row that is queued again
\* has no file, so that the resolver may store them all.
LEMMA RestartKeeps == LifeInv /\ RestartNode => LifeInv'
<1> SUFFICES ASSUME LifeInv, RestartNode PROVE LifeInv'
  OBVIOUS
<1>1. PICK gone \in SUBSET Client :
        /\ plan' = [c \in Client |-> IF c \in gone THEN NoPlan ELSE plan[c]]
        /\ raced' = (raced \/ (Migrated # torrent /\ \E c \in Client \ gone : ~Free(c)))
  BY DEF RestartNode
<1>2. UNCHANGED requests /\ lifeFaults' \in 0..LifeFaults
  BY TorrentLifecycleAssumption DEF RestartNode, LifeInv, LifeTypes, LifeFault
<1>3. torrent \in RowType /\ (torrent.source = "none" => torrent = Blank) /\ raced' \in BOOLEAN
  BY <1>1 DEF LifeInv, LifeTypes, Exists
<1>4. /\ plan' \in [Client -> PlanType]
      /\ \A c \in Client : WellFormed(plan'[c])
      /\ \A c \in Client :
           \/ plan'[c] = plan[c]
           \/ ~Left(plan'[c]) /\ FilesLeft(plan'[c]) = {} /\ ~Storing(plan'[c])
  BY <1>1, NoPlanFacts DEF LifeInv, LifeTypes, Storing
<1>5. CASE torrent' = torrent
  <2>1. LifeTypes'
    BY <1>2, <1>3, <1>4, <1>5 DEF LifeInv, LifeTypes, Exists
  <2>2. RaceInv'
    BY <1>1, <1>4, <1>5 DEF LifeInv, RaceInv, Exists
  <2> QED BY <1>5, <2>1, <2>2 DEF LifeInv, ResolvedHereIsComplete
<1>6. CASE torrent' # torrent
  <2>1. /\ torrent' \in RowType /\ torrent'.files = Blank.files /\ ~torrent'.resolved /\ torrent'.by = "none"
        /\ torrent'.source = "none" => torrent' = Blank
    <3>1. CASE torrent' = Blank
      BY <3>1, BlankFacts
    <3>2. CASE torrent' # Blank
      <4>1. /\ torrent.source \in {"bep51", "upload"}
            /\ torrent' = [torrent EXCEPT !.resolved = FALSE, !.priority = TRUE, !.by = "none",
                                          !.files = Blank.files]
        BY <1>6, <3>2 DEF RestartNode, Migrated, Requeue
      <4>2. Blank.files \in [TorrentFile -> Nat]
        BY BlankFacts
      <4>3. torrent' \in RowType /\ torrent'.source = torrent.source /\ torrent.source # "none"
        BY <1>3, <4>1, <4>2 DEF RowType
      <4> QED BY <1>3, <4>1, <4>3 DEF RowType
    <3> QED BY <3>1, <3>2
  <2>2. LifeTypes'
    BY <1>2, <1>3, <1>4, <2>1 DEF LifeInv, LifeTypes, Exists
  <2>3. ASSUME ~raced' PROVE RaceInv'
    <3>1. \A c \in Client \ gone : plan[c].todo = <<>>
      BY <1>1, <1>6, <2>3 DEF RestartNode, Free
    <3>2. \A c \in Client : ~Left(plan'[c]) /\ FilesLeft(plan'[c]) = {} /\ ~Storing(plan'[c])
      <4> TAKE c \in Client
      <4>1. CASE c \in gone
        BY <1>1, <4>1, NoPlanFacts DEF Storing
      <4>2. CASE c \notin gone
        <5>1. plan'[c] = plan[c] /\ ~Left(plan[c]) /\ DOMAIN plan[c].todo = {}
          BY <1>1, <3>1, <4>2 DEF Left
        <5>2. FilesLeft(plan'[c]) = {}
          BY <5>1 DEF FilesLeft
        <5> QED BY <5>1, <5>2 DEF Storing
      <4> QED BY <4>1, <4>2
    <3>3. \A f \in TorrentFile : torrent'.files[f] <= 1
      BY <2>1, BlankFacts
    <3> QED BY <2>1, <3>2, <3>3 DEF RaceInv, Blank
  <2>4. RaceInv'
    BY <2>3 DEF RaceInv
  <2> QED BY <2>1, <2>2, <2>4 DEF LifeInv, ResolvedHereIsComplete
<1> QED BY <1>5, <1>6

\* Each way a request begins.
LEMMA BeginsKeep ==
  ASSUME LifeInv, NEW c \in Client,
         BeginMagnet(c) \/ BeginUpload(c) \/ BeginImport(c) \/ BeginMerge(c) \/ BeginResolve(c)
  PROVE  LifeInv'
<1>1. raced \in BOOLEAN
  BY DEF LifeInv, LifeTypes
<1>2. /\ {"upload", "sync"} \cup ImportSource \subseteq Source \ {"none"}
      /\ "none" \in Source
  BY TorrentLifecycleAssumption DEF Source
<1>3. CASE BeginMagnet(c)
  <2>1. PICK named \in BOOLEAN : Begins(c, "magnet", named, "upload", <<"insert">>)
    BY <1>3 DEF BeginMagnet
  <2>2. raced' = raced
    BY <1>3 DEF BeginMagnet
  <2> DEFINE rest == <<>>
  <2>3. rest \in Rest /\ rest = <<>> /\ Begins(c, "magnet", named, "upload", <<"insert">> \o rest)
    BY <2>1, NoFiles
  <2> HIDE DEF rest
  <2> QED BY <1>1, <1>2, <2>2, <2>3, InsertKeeps
<1>4. CASE BeginUpload(c)
  <2> DEFINE rest == FileList \o <<"content">>
  <2>1. rest \in Rest
    BY WithFiles
  <2>2. Begins(c, "upload", TRUE, "upload", <<"insert">> \o rest) /\ raced' = raced
    <3>1. <<"insert">> \o FileList \o <<"content">> = <<"insert">> \o rest
      <4>1. /\ <<"insert">> \in Seq(Statement) /\ FileList \in Seq(Statement) /\ <<"content">> \in Seq(Statement)
        BY FileListFacts, SeqMonotonic DEF Statement
      <4> QED BY <4>1, ConcatAssociative
    <3> HIDE DEF rest
    <3> QED BY <1>4, <3>1 DEF BeginUpload
  <2> HIDE DEF rest
  <2> QED BY <1>1, <1>2, <2>1, <2>2, InsertKeeps
<1>5. CASE BeginImport(c)
  <2>1. PICK named \in BOOLEAN, source \in ImportSource, rest \in {<<>>, FileList} :
          /\ Begins(c, "import", named, source, <<"insert">> \o rest)
          /\ raced' = (raced \/ (~named /\ rest # <<>>))
    BY <1>5 DEF BeginImport
  <2>2. rest \in Rest
    BY NoFiles, WithFiles
  <2>3. source \in Source \ {"none"}
    BY <1>2
  <2>4. raced' \in BOOLEAN /\ (raced => raced') /\ (~raced' /\ rest # <<>> => named)
    BY <1>1, <2>1
  <2> QED BY <2>1, <2>2, <2>3, <2>4, InsertKeeps
<1>6. CASE BeginMerge(c)
  <2>1. raced' = raced
    BY <1>6 DEF BeginMerge
  <2>2. CASE \E content \in {<<>>, <<"content">>}, files \in {<<>>, FileList} :
               Begins(c, "merge", TRUE, "sync", <<"insert">> \o content \o files)
    <3>1. PICK content \in {<<>>, <<"content">>}, files \in {<<>>, FileList} :
               Begins(c, "merge", TRUE, "sync", <<"insert">> \o content \o files)
      BY <2>2
    <3> DEFINE rest == content \o files
    <3>2. rest \in Rest
      <4>1. <<>> \in Seq(Statement) /\ <<"content">> \in Seq(Statement) /\ FileList \in Seq(Statement)
        BY FileListFacts, SeqMonotonic DEF Statement
      <4>2. content = <<>> => rest = files
        BY <4>1, ConcatEmptySeq
      <4>3. files = <<>> => rest = content
        BY <4>1, ConcatEmptySeq
      <4> QED BY <4>2, <4>3, NoFiles, WithFiles
    <3>3. Begins(c, "merge", TRUE, "sync", <<"insert">> \o rest)
      <4>1. /\ <<"insert">> \in Seq(Statement) /\ content \in Seq(Statement) /\ files \in Seq(Statement)
        <5>1. /\ <<>> \in Seq(Statement) /\ <<"content">> \in Seq(Statement)
              /\ <<"insert">> \in Seq(Statement) /\ FileList \in Seq(Statement)
          BY FileListFacts, SeqMonotonic DEF Statement
        <5> QED BY <5>1
      <4>2. <<"insert">> \o content \o files = <<"insert">> \o rest
        BY <4>1, ConcatAssociative
      <4> HIDE DEF rest
      <4> QED BY <3>1, <4>2
    <3> HIDE DEF rest
    <3> QED BY <1>1, <1>2, <2>1, <3>2, <3>3, InsertKeeps
  <2>3. CASE Begins(c, "merge", TRUE, "sync", <<"update">>)
    BY <1>1, <1>2, <2>1, <2>3, WordKeeps
  <2> QED BY <1>6, <2>2, <2>3 DEF BeginMerge
<1>7. CASE BeginResolve(c)
  <2>1. /\ Exists /\ ~torrent.resolved
        /\ Begins(c, "resolver", TRUE, "none", <<"process">>)
        /\ raced' = (raced \/ \E d \in Client : plan[d].kind = "resolver" /\ Left(plan[d]))
    BY <1>7 DEF BeginResolve, Free, Left
  <2>2. /\ raced' \in BOOLEAN /\ (raced => raced')
        /\ ~raced' => \A d \in Client : Left(plan[d]) => plan[d].kind # "resolver"
    BY <1>1, <2>1
  <2> QED BY <1>2, <2>1, <2>2, WordKeeps
<1> QED BY <1>3, <1>4, <1>5, <1>6, <1>7

LEMMA LifeStep == LifeInv /\ [LifeNext]_lifeVars => LifeInv'
<1> SUFFICES ASSUME LifeInv, [LifeNext]_lifeVars PROVE LifeInv'
  OBVIOUS
<1>1. CASE DiscoverHash \/ DeleteTorrent \/ RestartNode
  BY <1>1, DiscoverKeeps, DeleteKeeps, RestartKeeps
<1>2. ASSUME NEW c \in Client,
             BeginMagnet(c) \/ BeginUpload(c) \/ BeginImport(c) \/ BeginMerge(c) \/ BeginResolve(c)
      PROVE  LifeInv'
  BY <1>2, BeginsKeep
<1>3. ASSUME NEW c \in Client, Execute(c) PROVE LifeInv'
  BY <1>3, ExecuteKeeps
<1>4. ASSUME NEW c \in Client, Failed(c) PROVE LifeInv'
  BY <1>4, FailedKeeps
<1>5. CASE UNCHANGED lifeVars
  BY <1>5 DEF lifeVars, LifeInv, LifeTypes, RaceInv, ResolvedHereIsComplete, Exists
<1> QED BY <1>1, <1>2, <1>3, <1>4, <1>5 DEF LifeNext

LEMMA LifeInvImplies == LifeInv => LifeTypeOK /\ RowsAreSound
<1> SUFFICES ASSUME LifeInv PROVE LifeTypeOK /\ RowsAreSound
  OBVIOUS
<1>1. LifeTypeOK
  <2>1. torrent \in RowType /\ \A c \in Client : plan[c] \in PlanType
    BY DEF LifeInv, LifeTypes
  <2>2. Source = {"none", "bep51", "sync"} \cup ImportSource \cup {"upload"}
    BY DEF Source
  <2>3. torrent \in [source : {"none", "bep51", "sync"} \cup ImportSource \cup {"upload"},
                     resolved : BOOLEAN, priority : BOOLEAN,
                     by : {"none", "resolver", "upload", "import", "merge"},
                     content : BOOLEAN, files : [TorrentFile -> Nat]]
    BY <2>1, <2>2 DEF RowType
  <2>4. \A c \in Client :
          /\ plan[c].todo \in Seq({"insert", "update", "content", "process"} \cup TorrentFile)
          /\ plan[c].answer \in {"none", "done", "error"}
    BY <2>1 DEF PlanType, Statement
  <2> QED BY <2>3, <2>4 DEF LifeInv, LifeTypes, LifeTypeOK
<1>2. TwiceOnlyByRace
  <2>1. \A f \in TorrentFile : torrent.files[f] \in Nat
    BY DEF LifeInv, LifeTypes, RowType
  <2>2. \A f \in TorrentFile : torrent.files[f] <= 1 => ~(torrent.files[f] > 1)
    BY <2>1
  <2> QED BY <2>2 DEF LifeInv, RaceInv, TwiceOnlyByRace
<1> QED BY <1>1, <1>2 DEF LifeInv, RowsAreSound

---------------------------------------------------------------------------
(* Theorems *)

\* The row, its files and content and the plans of requests keep their
\* types, and a row that is gone leaves nothing behind, whatever requests
\* run, fail and are cut off.
THEOREM LifeTypesHold == LifeSpec => []LifeTypeOK
<1>1. LifeInit => LifeInv
  BY LifeInvInit
<1>2. LifeInv /\ [LifeNext]_lifeVars => LifeInv'
  BY LifeStep
<1>3. LifeInv => LifeTypeOK
  BY LifeInvImplies
<1> QED BY <1>1, <1>2, <1>3, PTL DEF LifeSpec

\* A torrent this node resolved has its content and all its files, and none
\* has a file twice unless writers crossed or a nameless import brought files:
\* for every number of writers, of several processes on one database, and of
\* files, although only process_resolved writes in a transaction.
THEOREM RowsStaySound == LifeSpec => []RowsAreSound
<1>1. LifeInit => LifeInv
  BY LifeInvInit
<1>2. LifeInv /\ [LifeNext]_lifeVars => LifeInv'
  BY LifeStep
<1>3. LifeInv => RowsAreSound
  BY LifeInvImplies
<1> QED BY <1>1, <1>2, <1>3, PTL DEF LifeSpec
=============================================================================

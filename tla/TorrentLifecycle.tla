-------------------------- MODULE TorrentLifecycle --------------------------
(***************************************************************************)
(* One info hash and everything that writes its rows: the crawler, the     *)
(* resolver, magnet and .torrent uploads, imports, merges of a delta's     *)
(* record, bulk delete, and the repair at start-up.  No writer but the     *)
(* resolver's uses a transaction, so a request is a plan: a read, done as  *)
(* it starts, and the statements that are left, each of which may fail.    *)
(* Requests may be those of several processes that share the database.     *)
(*                                                                         *)
(* Names, tags, counts and what a classification says are left out, so     *)
(* fill_gaps, which writes nothing else, is no step.  The resolver stores  *)
(* the files of a torrent only up to a threshold; TorrentFile is below it. *)
(* MaxRequests and LifeFaults bound the requests and what goes wrong.      *)
(***************************************************************************)
EXTENDS Naturals, Sequences, SequencesExt, FiniteSets

CONSTANTS Client,        \* requests that may be under way at once
          TorrentFile,   \* the torrent's files
          ImportSource,  \* sources an import may name
          MaxRequests, LifeFaults

\* The names of statements are no files, and "none" is no source.
ASSUME TorrentLifecycleAssumption ==
  /\ IsFiniteSet(TorrentFile) /\ TorrentFile \cap {"insert", "update", "content", "process"} = {}
  /\ "none" \notin ImportSource
  /\ MaxRequests \in Nat /\ LifeFaults \in Nat

VARIABLES
  torrent,   \* the row with its files and its content
  plan,      \* per client, the request under way: its statements
  requests,
  raced,     \* history: writers crossed, or an import had files but no name
  lifeFaults

lifeVars == <<torrent, plan, requests, raced, lifeFaults>>

\* In the order of the request.
FileList == SetToSeq(TorrentFile)

\* The columns' defaults; no row is one of source "none".  "by" is the
\* history of who resolved it last.
Blank == [source |-> "none", resolved |-> FALSE, priority |-> FALSE, by |-> "none",
          content |-> FALSE, files |-> [f \in TorrentFile |-> 0]]

Exists == torrent.source # "none"
NoPlan == [kind |-> "none", named |-> FALSE, source |-> "none", todo |-> <<>>, answer |-> "none"]
Free(c) == plan[c].todo = <<>>
LifeFault == lifeFaults < LifeFaults /\ lifeFaults' = lifeFaults + 1

\* A request starts: what it read made its plan.
Begins(c, kind, named, source, todo) ==
  /\ Free(c) /\ requests < MaxRequests
  /\ plan' = [plan EXCEPT ![c] = [kind |-> kind, named |-> named, source |-> source,
                                  todo |-> todo, answer |-> "none"]]
  /\ requests' = requests + 1
  /\ UNCHANGED <<torrent, lifeFaults>>

\* upsert_hash: one statement; a second sighting counts observations.
DiscoverHash ==
  /\ ~Exists
  /\ torrent' = [Blank EXCEPT !.source = "bep51"]
  /\ UNCHANGED <<plan, requests, raced, lifeFaults>>

\* A magnet may name the torrent.  One that exists is a duplicate.
BeginMagnet(c) ==
  /\ ~Exists
  /\ \E named \in BOOLEAN : Begins(c, "magnet", named, "upload", <<"insert">>)
  /\ UNCHANGED raced

BeginUpload(c) ==
  /\ ~Exists
  /\ Begins(c, "upload", TRUE, "upload", <<"insert">> \o FileList \o <<"content">>)
  /\ UNCHANGED raced

\* An item of an import, with or without a name and files.
BeginImport(c) ==
  /\ ~Exists
  /\ \E named \in BOOLEAN, s \in ImportSource, files \in {<<>>, FileList} :
       /\ Begins(c, "import", named, s, <<"insert">> \o files)
       /\ raced' = (raced \/ (~named /\ files # <<>>))

\* merge_record, for a record that is accepted: its name is no placeholder.
BeginMerge(c) ==
  /\ \/ /\ ~Exists
        /\ \E content \in {<<>>, <<"content">>}, files \in {<<>>, FileList} :
             Begins(c, "merge", TRUE, "sync", <<"insert">> \o content \o files)
     \/ /\ Exists /\ ~torrent.resolved
        /\ Begins(c, "merge", TRUE, "sync", <<"update">>)
  /\ UNCHANGED raced

\* The resolver's claim of an unresolved row.  While its lease lasts there is
\* no other job, but nothing makes a job end within its lease.
BeginResolve(c) ==
  /\ Exists /\ ~torrent.resolved
  /\ Begins(c, "resolver", TRUE, "none", <<"process">>)
  /\ raced' = (raced \/ \E d \in Client : plan[d].kind = "resolver" /\ ~Free(d))

\* The row an INSERT makes.
Inserted(p) ==
  LET resolved == p.named /\ p.kind # "magnet"
  IN  [Blank EXCEPT !.source = p.source, !.resolved = resolved,
                    !.priority = (p.kind = "magnet"),
                    !.by = IF resolved THEN p.kind ELSE "none"]

\* update_unresolved: the row keeps its source and priority.
MergedInto == [torrent EXCEPT !.resolved = TRUE, !.by = "merge"]

\* process_resolved, in one transaction.
Processed ==
  [torrent EXCEPT !.resolved = TRUE, !.priority = FALSE, !.by = "resolver",
                  !.content = TRUE, !.files = [f \in TorrentFile |-> @[f] + 1]]

\* A statement that succeeds.  INSERT INTO torrents leaves a row that is
\* there alone, and UPDATE one that is gone.
Effect(p, s) ==
  CASE s = "insert" /\ ~Exists -> Inserted(p)
    [] s = "update" /\ Exists -> MergedInto
    [] s = "content" -> [torrent EXCEPT !.content = TRUE]
    [] s \in TorrentFile -> [torrent EXCEPT !.files[s] = @ + 1]
    [] s = "process" -> Processed
    [] OTHER -> torrent

\* Statements that refer to the row.
Refers(s) == s \in TorrentFile \cup {"content", "process"}

Answer(p, todo, ok) == [p EXCEPT !.todo = todo, !.answer = IF todo # <<>> THEN "none"
                                                           ELSE IF ok THEN "done" ELSE "error"]

Execute(c) ==
  LET p == plan[c] s == Head(p.todo)
  IN  /\ ~Free(c)
      /\ Refers(s) => Exists
      /\ torrent' = Effect(p, s)
      /\ raced' = (raced \/ (s = "insert" /\ Exists))
      /\ plan' = [plan EXCEPT ![c] = Answer(p, Tail(p.todo), TRUE)]
  /\ UNCHANGED <<requests, lifeFaults>>

\* Errors of files and content that are ignored: let _ = ...
Tolerates(p) ==
  p.kind \in {"upload", "merge"} /\ Head(p.todo) \in TorrentFile \cup {"content"}

\* A statement fails, or the row it refers to is gone.  What the resolver
\* did is rolled back with its transaction.
Failed(c) ==
  LET p == plan[c]
  IN  /\ ~Free(c)
      /\ (Refers(Head(p.todo)) /\ ~Exists /\ UNCHANGED lifeFaults) \/ LifeFault
      /\ plan' = [plan EXCEPT ![c] = IF Tolerates(p) THEN Answer(p, Tail(p.todo), TRUE)
                                                     ELSE Answer(p, <<>>, FALSE)]
  /\ UNCHANGED <<torrent, requests, raced>>

\* delete_torrents; files and content go with the row.
DeleteTorrent ==
  /\ Exists /\ LifeFault
  /\ torrent' = Blank
  /\ raced' = (raced \/ \E c \in Client : ~Free(c))
  /\ UNCHANGED <<plan, requests>>

\* Mutant of Requeue: the incomplete files stay.
RequeueKeepFiles ==
  IF torrent.source \in {"bep51", "upload"} /\ torrent.resolved /\ ~torrent.content
  THEN [torrent EXCEPT !.resolved = FALSE, !.priority = TRUE, !.by = "none"]
  ELSE torrent

\* The repair of rows resolved without content.
Requeue ==
  IF torrent.source \in {"bep51", "upload"} /\ torrent.resolved /\ ~torrent.content
  THEN [torrent EXCEPT !.resolved = FALSE, !.priority = TRUE, !.by = "none",
                       !.files = Blank.files]
  ELSE torrent

\* With the removal of unresolved rows of an old crawler.
Migrated ==
  IF Requeue.source = "get_peers" /\ ~Requeue.resolved THEN Blank ELSE Requeue

\* A process stops anywhere, its requests with it, and starts again:
\* run_migrations.  What other processes have under way goes on.
RestartNode ==
  /\ LifeFault
  /\ torrent' = Migrated
  /\ \E gone \in SUBSET Client :
       /\ plan' = [c \in Client |-> IF c \in gone THEN NoPlan ELSE plan[c]]
       /\ raced' = (raced \/ (Migrated # torrent /\ \E c \in Client \ gone : ~Free(c)))
  /\ UNCHANGED requests

LifeInit ==
  /\ torrent = Blank
  /\ plan = [c \in Client |-> NoPlan]
  /\ requests = 0 /\ raced = FALSE /\ lifeFaults = 0

LifeNext ==
  \/ DiscoverHash \/ DeleteTorrent \/ RestartNode
  \/ \E c \in Client :
       \/ BeginMagnet(c) \/ BeginUpload(c) \/ BeginImport(c) \/ BeginMerge(c)
       \/ BeginResolve(c) \/ Execute(c) \/ Failed(c)

LifeSpec == LifeInit /\ [][LifeNext]_lifeVars

---------------------------------------------------------------------------
(* Properties *)

\* The row and the plans have their types, and files and content are there
\* only with the row they refer to, whatever was deleted under a writer.
LifeTypeOK ==
  /\ torrent \in [source : {"none", "bep51", "sync"} \cup ImportSource \cup {"upload"},
                  resolved : BOOLEAN, priority : BOOLEAN,
                  by : {"none", "resolver", "upload", "import", "merge"},
                  content : BOOLEAN, files : [TorrentFile -> Nat]]
  /\ \A c \in Client :
       /\ plan[c].todo \in Seq({"insert", "update", "content", "process"} \cup TorrentFile)
       /\ plan[c].answer \in {"none", "done", "error"}
  /\ requests \in 0..MaxRequests /\ raced \in BOOLEAN /\ lifeFaults \in 0..LifeFaults
  /\ ~Exists => torrent = Blank

\* What the resolver resolved has its content and every file, and no other
\* writer, failure or restart takes them away while it stays resolved: the
\* reason for process_resolved's transaction.
ResolvedHereIsComplete ==
  torrent.by = "resolver" =>
    torrent.resolved /\ torrent.content /\ \A f \in TorrentFile : torrent.files[f] >= 1

\* torrent_files has no key that refuses a second copy of a file.  A file is
\* stored twice only after a race: an INSERT that found a row its request had
\* not read, a row deleted or repaired under another's request, a second job of
\* the resolver for a row, or an unresolved import that brought files.
\* Failures, and restarts without other processes, never do it.
TwiceOnlyByRace == (\E f \in TorrentFile : torrent.files[f] > 1) => raced

\* The rows of a torrent are whole, and single except where the code itself
\* lets writers cross.
RowsAreSound == ResolvedHereIsComplete /\ TwiceOnlyByRace
=============================================================================

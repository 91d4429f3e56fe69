----------------------------- MODULE LogCapture -----------------------------
(***************************************************************************)
(* The log the web UI shows (log_capture.rs): threads push an entry on a   *)
(* bounded buffer under its lock and send it on a broadcast channel after  *)
(* the lock is released, and each open log socket (logs_ws in system.rs)   *)
(* receives from the channel at its own pace.  get_recent and categories   *)
(* read the buffer.                                                        *)
(*                                                                         *)
(* An entry is numbered in the order of the buffer; texts are left out.    *)
(* MaxLogged bounds the entries, MaxToggles the changes of the debug flag. *)
(***************************************************************************)
EXTENDS Naturals, Sequences, FiniteSets

LOCAL INSTANCE SequencesExt

CONSTANTS LogThread,   \* threads that log
          LogSocket,   \* log sockets
          MaxLines,    \* of the buffer: max_lines
          Channel,     \* of the broadcast channel: 1000
          MaxLogged, MaxToggles

ASSUME LogCaptureAssumption ==
  MaxLines \in Nat \ {0} /\ Channel \in Nat \ {0} /\ MaxLogged \in Nat /\ MaxToggles \in Nat

VARIABLES
  debug,     \* debug_enabled
  buffer,    \* the entries kept: [id, category, level]
  sent,      \* every entry sent, in the order of the channel
  unsent,    \* per thread, the entry it has pushed and not sent, or none
  at,        \* per socket, how many were sent before its next; none if closed
  logged, toggling, toggles

logVars == <<debug, buffer, sent, unsent, at, logged, toggling, toggles>>

NoEntry == [id |-> 0, category |-> "none", level |-> "none"]
Closed == MaxLogged + 1
Categories == {"dht", "sync"}

Pushed(e) == Append(IF Len(buffer) >= MaxLines THEN Tail(buffer) ELSE buffer, e)

\* add_from_tracing up to the lock's release; debug entries only if enabled.
Log(t) ==
  /\ unsent[t] = NoEntry /\ logged < MaxLogged
  /\ \E c \in Categories, l \in {"debug", "info"} :
       LET e == [id |-> logged + 1, category |-> c, level |-> l]
       IN  /\ l = "debug" => debug
           /\ buffer' = Pushed(e)
           /\ unsent' = [unsent EXCEPT ![t] = e]
  /\ logged' = logged + 1
  /\ UNCHANGED <<debug, sent, at, toggling, toggles>>

\* Mutant of Broadcast: the buffer's newest entry is sent, not the thread's.
BroadcastNewest(t) ==
  /\ unsent[t] # NoEntry
  /\ sent' = Append(sent, Last(buffer))
  /\ unsent' = [unsent EXCEPT ![t] = NoEntry]
  /\ UNCHANGED <<debug, buffer, at, logged, toggling, toggles>>

Broadcast(t) ==
  /\ unsent[t] # NoEntry
  /\ sent' = Append(sent, unsent[t])
  /\ unsent' = [unsent EXCEPT ![t] = NoEntry]
  /\ UNCHANGED <<debug, buffer, at, logged, toggling, toggles>>

OpenSocket(s) ==
  /\ at[s] = Closed
  /\ at' = [at EXCEPT ![s] = Len(sent)]
  /\ UNCHANGED <<debug, buffer, sent, unsent, logged, toggling, toggles>>

\* The channel keeps the last Channel entries: who lags goes on with the
\* oldest of them.
NextFor(s) == IF Len(sent) - at[s] > Channel THEN Len(sent) - Channel + 1 ELSE at[s] + 1

ForwardEntry(s) ==
  /\ at[s] < Len(sent)
  /\ at' = [at EXCEPT ![s] = NextFor(s)]
  /\ UNCHANGED <<debug, buffer, sent, unsent, logged, toggling, toggles>>

CloseSocket(s) ==
  /\ at[s] # Closed
  /\ at' = [at EXCEPT ![s] = Closed]
  /\ UNCHANGED <<debug, buffer, sent, unsent, logged, toggling, toggles>>

\* toggle_debug: a read, then a write of its negation.
ReadDebug(s) ==
  /\ toggling[s] = "none" /\ toggles < MaxToggles
  /\ toggling' = [toggling EXCEPT ![s] = IF debug THEN "off" ELSE "on"]
  /\ toggles' = toggles + 1
  /\ UNCHANGED <<debug, buffer, sent, unsent, at, logged>>

WriteDebug(s) ==
  /\ toggling[s] # "none"
  /\ debug' = (toggling[s] = "on")
  /\ toggling' = [toggling EXCEPT ![s] = "none"]
  /\ UNCHANGED <<buffer, sent, unsent, at, logged, toggles>>

\* get_recent: the last count entries of a category, or of all, as their
\* places in the buffer.
Recent(count, category) ==
  LET of == {i \in DOMAIN buffer : category \in {"all", buffer[i].category}}
  IN  {i \in of : Cardinality({j \in of : j > i}) < count}

LogInit ==
  /\ debug = FALSE /\ buffer = <<>> /\ sent = <<>> /\ logged = 0 /\ toggles = 0
  /\ unsent = [t \in LogThread |-> NoEntry]
  /\ at = [s \in LogSocket |-> Closed]
  /\ toggling = [s \in LogSocket |-> "none"]

LogNext ==
  \/ \E t \in LogThread : Log(t) \/ Broadcast(t)
  \/ \E s \in LogSocket :
       OpenSocket(s) \/ ForwardEntry(s) \/ CloseSocket(s) \/ ReadDebug(s) \/ WriteDebug(s)

LogSpec == LogInit /\ [][LogNext]_logVars

---------------------------------------------------------------------------
(* Properties *)

\* Types; the buffer holds the newest entries without a gap, and a filtered
\* view is never empty while the buffer holds an entry of its category.
LogTypeOK ==
  /\ debug \in BOOLEAN /\ logged \in 0..MaxLogged /\ toggles \in 0..MaxToggles
  /\ [i \in DOMAIN buffer |-> buffer[i].id]
       = [i \in 1..(IF logged > MaxLines THEN MaxLines ELSE logged) |-> logged - Len(buffer) + i]
  /\ \A i \in DOMAIN buffer : Recent(1, buffer[i].category) # {}

\* Every entry pushed is sent once, whatever other threads push between its
\* push and its send: what the sockets stream and what the buffer went
\* through are the same entries, if not in the same order.
StreamedOnce ==
  LET under == {t \in LogThread : unsent[t] # NoEntry}
      ids == {sent[i].id : i \in DOMAIN sent} \cup {unsent[t].id : t \in under}
  IN  ids = 1..logged /\ Len(sent) + Cardinality(under) = logged
=============================================================================

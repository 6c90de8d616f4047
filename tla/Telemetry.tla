----------------------------- MODULE Telemetry -----------------------------
(***************************************************************************)
(* What the engine has to tell: successes are buffered and written in      *)
(* batches, failures are written before their caller goes on, archive      *)
(* entries change under its workers, and every write leaves a topic for    *)
(* the API to be posted a quarter of a second later.                       *)
(***************************************************************************)
EXTENDS Integers, FiniteSets, SequencesExt

CONSTANTS
  Logs, Metrics,  \* buffered items: log lines, and counters of a minute
  Limit,          \* buffered items that are flushed without the timer
  Budgets         \* what a behaviour may do: bounds on its events, views of its tabs

Items == Logs \cup Metrics
Topics == {"archive", "logs"}
ASSUME TelemetryAssumption ==
  /\ Logs \cap Metrics = {} /\ Limit \in Nat \ {0}
  /\ Budgets \subseteq [records : Nat, stops : Nat, writes : Nat, faults : Nat, acts : Nat,
                        ties : Nat, views : SUBSET SUBSET Topics]

VARIABLES
  engine,    \* the life of the engine process
  buffer,    \* bufferedLogs and bufferedMetrics
  timer,     \* telemetryFlushTimer
  flush,     \* telemetryFlushing: what it took, and the metrics left to write
  copies,    \* how often an item was written
  lost,      \* history: items that went down with an engine
  written,   \* how often a topic's tables changed
  posts,     \* topics not yet posted to the API
  left       \* what is left of the bounds on events

telemetryVars == <<engine, buffer, timer, flush, copies, lost, written, posts>>

NoFlush == [pc |-> "idle", items |-> {}, rest |-> {}]
Held == buffer \cup flush.items

TelemetryInit ==
  /\ engine = "on" /\ buffer = {} /\ timer = FALSE /\ flush = NoFlush
  /\ copies = [i \in Items |-> 0] /\ lost = {}
  /\ written = [t \in Topics |-> 0] /\ posts = {}

Spend(event) == left[event] > 0 /\ left' = [left EXCEPT ![event] = @ - 1]

\* flushTelemetry: a call that finds a flush under way only joins it, and has
\* stopped the timer all the same.
Flushes(held) ==
  /\ timer' = FALSE
  /\ IF flush # NoFlush \/ held = {}
     THEN buffer' = held /\ UNCHANGED flush
     ELSE /\ buffer' = {}
          /\ flush' = [pc |-> IF held \cap Logs # {} THEN "logs" ELSE "metrics",
                       items |-> held, rest |-> held \cap Metrics]

Record(i) ==
  /\ engine # "off" /\ copies[i] = 0 /\ i \notin Held \cup lost
  /\ IF Cardinality(buffer) + 1 >= Limit
     THEN Flushes(buffer \cup {i})
     ELSE timer' = TRUE /\ buffer' = buffer \cup {i} /\ UNCHANGED flush
  /\ Spend("records")
  /\ UNCHANGED <<engine, copies, lost, written, posts>>

TimerFires ==
  /\ timer /\ engine # "off"
  /\ Flushes(buffer)
  /\ UNCHANGED <<engine, copies, lost, written, posts, left>>

WriteLogs ==
  /\ flush.pc = "logs"
  /\ copies' = [i \in Items |-> copies[i] + (IF i \in flush.items \cap Logs THEN 1 ELSE 0)]
  /\ written' = [written EXCEPT !["logs"] = @ + 1]
  /\ posts' = posts \cup {"logs"}
  /\ flush' = IF flush.rest = {} THEN NoFlush ELSE [flush EXCEPT !.pc = "metrics"]
  /\ UNCHANGED <<engine, buffer, timer, lost, left>>

WriteMetric(i) ==
  /\ flush.pc = "metrics" /\ i \in flush.rest
  /\ copies' = [copies EXCEPT ![i] = @ + 1]
  /\ flush' = IF flush.rest = {i} THEN NoFlush ELSE [flush EXCEPT !.rest = @ \ {i}]
  /\ UNCHANGED <<engine, buffer, timer, lost, written, posts, left>>

\* All that the flush took is put back, what it has written already as well.
Restored(items) == items
RestoredLogs(items) == items \cap Logs
PutBack(items) == Restored(items)

FlushFails ==
  /\ flush # NoFlush /\ Spend("faults")
  /\ buffer' = buffer \cup PutBack(flush.items)
  /\ flush' = NoFlush /\ timer' = TRUE
  /\ UNCHANGED <<engine, copies, lost, written, posts>>

-----------------------------------------------------------------------------
\* A failure or a queued task is written before its caller goes on; a worker
\* writes the entries of a subscription.
Changes(topic) ==
  /\ engine = "on" /\ Spend("writes")
  /\ written' = [written EXCEPT ![topic] = @ + 1]
  /\ posts' = posts \cup {topic}
  /\ UNCHANGED <<engine, buffer, timer, flush, copies, lost>>

\* An orderly stop flushes, or joins the flush it finds, and then exits.
StopEngine ==
  /\ engine = "on" /\ engine' = "stopping"
  /\ Spend("stops")
  /\ Flushes(buffer)
  /\ UNCHANGED <<copies, lost, written, posts>>

Gone(items) ==
  /\ engine' = "off" /\ lost' = lost \cup {i \in items : copies[i] = 0}
  /\ buffer' = {} /\ flush' = NoFlush /\ timer' = FALSE /\ posts' = {}
  /\ UNCHANGED <<copies, written>>

EngineExits == engine = "stopping" /\ flush = NoFlush /\ Gone(buffer) /\ UNCHANGED left
EngineDies == engine # "off" /\ Spend("faults") /\ Gone(Held)

EngineStarts ==
  /\ engine = "off" /\ engine' = "on"
  /\ UNCHANGED <<buffer, timer, flush, copies, lost, written, posts, left>>
=============================================================================

-------------------------- MODULE MCEngineLifecycle --------------------------
(* The instances of EngineLifecycle. *)
EXTENDS EngineLifecycle

\* Every timer, a crash and a failed query.
Polls == [due |-> 1, requests |-> 1, retries |-> 0, crashes |-> 1, errors |-> 1,
          polling |-> TRUE, orphans |-> FALSE, stops |-> 0, previews |-> 0, pages |-> FALSE]

\* Events alone: no timer polls, and no query fails.
Events == [due |-> 2, requests |-> 1, retries |-> 1, crashes |-> 1, errors |-> 0,
           polling |-> FALSE, orphans |-> FALSE, stops |-> 0, previews |-> 0, pages |-> FALSE]

\* An entry is deleted while a worker queues its next job.
Orphans == [due |-> 1, requests |-> 1, retries |-> 0, crashes |-> 0, errors |-> 0,
            polling |-> FALSE, orphans |-> TRUE, stops |-> 0, previews |-> 0, pages |-> FALSE]

\* The API is stopped or dies while an engine starts, works, crashes or sleeps.
Stops == [due |-> 1, requests |-> 1, retries |-> 0, crashes |-> 1, errors |-> 0,
          polling |-> FALSE, orphans |-> FALSE, stops |-> 1, previews |-> 0, pages |-> FALSE]

\* Previews and handlers open the browser that keeps the engine awake.
Pages == [due |-> 1, requests |-> 0, retries |-> 0, crashes |-> 0, errors |-> 0,
          polling |-> FALSE, orphans |-> FALSE, stops |-> 0, previews |-> 1, pages |-> TRUE]

MCModes == {Polls, Events, Orphans, Stops, Pages}
=============================================================================

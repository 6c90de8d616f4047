--------------------------- MODULE EngineLifecycle ---------------------------
(***************************************************************************)
(* The execution engine that sleeps: the API process owns the controller    *)
(* (server/engine-controller.ts) and the wake scheduler                     *)
(* (server/engine-wake-scheduler.ts), the engine is a child process that    *)
(* dispatches queue handlers and exits when idle (server/runner.ts).  They  *)
(* share the queues in the database and an IPC channel.  The API is stopped *)
(* with its engine and started again, or dies with it: its container does.  *)
(*                                                                         *)
(* Work is a number of due jobs.  A timer may fire at any moment after it   *)
(* was armed; an awaited query or message ends in a later step.            *)
(***************************************************************************)
EXTENDS Naturals

CONSTANTS
  Modes,        \* what a behaviour may hold, chosen when it begins
  MaxWakes      \* bound: wake messages in the channel; more change nothing

ASSUME BoundsAssumption ==
  /\ MaxWakes \in Nat \ {0}
  /\ Modes \subseteq
       [due : Nat \ {0},      \* due jobs at a time
        requests : Nat,       \* API requests that queue work
        retries : Nat,        \* jobs put off to a later time
        crashes : Nat,        \* crashes of the engine and late starts
        errors : Nat,         \* failed queries of the scheduler or the dispatcher
        polling : BOOLEAN,    \* FALSE: the timers that only look for missed work never fire
        orphans : BOOLEAN,    \* a queued job may lose the archive entry it is for
        stops : Nat,          \* stops and deaths of the API
        previews : Nat,       \* pages previewed for the rules page
        pages : BOOLEAN]      \* handlers render pages: a browser outlives them

VARIABLES
  work,     \* the queues
  api,      \* ExecutionEngineController, and the requests it serves
  sched,    \* EngineWakeScheduler
  runner,   \* the engine process
  wakes,    \* wake messages on their way to the engine
  reports,  \* messages of the engine on their way to the API
  history,  \* counters of what is bounded, and the parity of the starts
  mode      \* the bounds of this behaviour

moving == <<work, api, sched, runner, wakes, reports, history>>
vars == <<work, api, sched, runner, wakes, reports, history, mode>>

Work == [due : 0..mode.due, planned : BOOLEAN, orphan : BOOLEAN]

Api ==
  [up : {"up", "stopping", "closing", "down"},   \* progress of stopApi
   stopping : BOOLEAN,   \* this.stopping
   late : BOOLEAN,       \* history: asked for an engine after stopApi began
   preview : BOOLEAN,    \* a preview that is to be sent to the engine
   hook : BOOLEAN,       \* a response whose onResponse hook is still to run
   child : BOOLEAN,      \* this.child is set
   open : BOOLEAN,       \* this.child.connected
   starting : BOOLEAN,   \* this.startPromise is pending
   restart : BOOLEAN,    \* this.restartTimer is armed
   hookWaits : BOOLEAN,  \* a hook awaits startPromise
   planWaits : BOOLEAN]  \* the scheduler awaits startPromise

Sched ==
  [plan : {"none", "asked", "now", "later", "nothing", "stopped"},   \* the newest schedule()
   timer : {"off", "item", "poll"}]                       \* until the next item, or 60 s

Runner ==
  [pc : {"none", "booting", "ready", "asking", "answered", "exiting", "quitting", "slept", "died"},
   preview : BOOLEAN,                      \* a preview is being rendered
   web : BOOLEAN,                          \* the web executor or the library child lives
   found : BOOLEAN,                        \* the answer of runnableHandlers
   again : BOOLEAN,                        \* dispatchRequested
   busy : BOOLEAN,                         \* activeHandlers is not empty
   idle : {"no", "since", "elapsed"},      \* idleSince, and whether it is 2 min ago
   tick : {"off", "now", "later"}]         \* dispatchTimer

NoRunner == [pc |-> "none", preview |-> FALSE, web |-> FALSE, found |-> FALSE, again |-> FALSE,
             busy |-> FALSE, idle |-> "no", tick |-> "off"]
NoApi == [up |-> "down", stopping |-> FALSE, late |-> FALSE, preview |-> FALSE, hook |-> FALSE,
          child |-> FALSE, open |-> FALSE, starting |-> FALSE, restart |-> FALSE,
          hookWaits |-> FALSE, planWaits |-> FALSE]
NoReports == [ready |-> FALSE, sleeping |-> FALSE]

Reports == [ready : BOOLEAN, sleeping : BOOLEAN]

History ==
  [requests : 0..mode.requests, retries : 0..mode.retries, crashes : 0..mode.crashes,
   errors : 0..mode.errors, stops : 0..mode.stops, previews : 0..mode.previews, starts : 0..1]

TypeOK ==
  /\ mode \in Modes
  /\ work \in Work /\ api \in Api /\ sched \in Sched /\ runner \in Runner
  /\ wakes \in 0..MaxWakes
  /\ reports \in Reports
  /\ history \in History

\* The API has just started: its scheduler looks at the queues first.
Init ==
  /\ work \in [due : {0}, planned : BOOLEAN, orphan : {FALSE}]
  /\ api = [NoApi EXCEPT !.up = "up"]
  /\ sched = [plan |-> "asked", timer |-> "off"]
  /\ runner = NoRunner
  /\ wakes = 0
  /\ reports = NoReports
  /\ history = [requests |-> 0, retries |-> 0, crashes |-> 0, errors |-> 0, stops |-> 0,
                previews |-> 0, starts |-> 0]
  /\ mode \in Modes

-----------------------------------------------------------------------------
(* Helpers *)

Gone == runner.pc \in {"none", "slept", "died"}

\* this.child?.connected
ConnectedOnceReady == api.child /\ api.open /\ ~api.starting /\ runner.pc # "booting"
Connected == api.child /\ api.open

\* ExecutionEngineController.wake: a message (which a dead engine never reads),
\* a new process, or nothing while one is being started; a is the API's state
\* with what then waits for the start.  It forgets that the API is stopping.
Wake(a) ==
  IF Connected
  THEN /\ wakes' = IF wakes < MaxWakes THEN wakes + 1 ELSE wakes
       /\ api' = [a EXCEPT !.stopping = FALSE, !.restart = FALSE, !.hookWaits = api.hookWaits, !.planWaits = api.planWaits]
       /\ UNCHANGED <<runner, history>>
  ELSE IF api.starting
  THEN /\ api' = [a EXCEPT !.stopping = FALSE, !.restart = FALSE]
       /\ UNCHANGED <<runner, wakes, history>>
  ELSE /\ api' = [a EXCEPT !.stopping = FALSE, !.restart = FALSE,
                           !.child = TRUE, !.open = TRUE, !.starting = TRUE]
       /\ runner' = [NoRunner EXCEPT !.pc = "booting"]
       /\ wakes' = 0
       /\ history' = [history EXCEPT !.starts = 1 - history.starts]

\* schedule(), and what it arms when the start it awaited is over.
Stopped == sched.plan = "stopped"
PlannedAnyway == [sched EXCEPT !.plan = "asked"]
Planned == IF Stopped THEN sched ELSE [sched EXCEPT !.plan = "asked"]
Armed(timer) == IF Stopped THEN sched ELSE [plan |-> "none", timer |-> timer]

\* The start is settled, well or not.
KeepsStarting(a) == [a EXCEPT !.hookWaits = FALSE, !.planWaits = FALSE]
Settled(a) == [a EXCEPT !.starting = FALSE, !.hookWaits = FALSE, !.planWaits = FALSE]

\* Whoever waited for the start of an engine is refused.
Refused(a) == [Settled(a) EXCEPT !.preview = a.preview /\ ~a.hookWaits]

\* requestDispatch
Requested(r) ==
  IF r.pc = "ready" THEN [r EXCEPT !.pc = "asking"]
  ELSE IF r.pc \in {"asking", "answered"} THEN [r EXCEPT !.again = TRUE]
  ELSE r

\* The end of requestDispatch: a dispatch that was asked for meanwhile is next.
Finished(r) ==
  IF r.again THEN [r EXCEPT !.pc = "ready", !.found = FALSE, !.again = FALSE, !.tick = "now"]
  ELSE [r EXCEPT !.pc = "ready", !.found = FALSE, !.tick = "later"]

\* idleSince after a look at empty queues.
ResetsIdle(r) == "no"
IdleAfter(r) == IF r.busy \/ r.web THEN "no" ELSE "since"

\* Does a handler's tick find a due job?
FindsJob == work.due > 0

-----------------------------------------------------------------------------
(* Work *)

QueueWork ==
  /\ history.requests < mode.requests
  /\ work.due < mode.due
  /\ ~api.hook /\ api.up # "down"
  /\ work' = [work EXCEPT !.due = work.due + 1]
  /\ api' = [api EXCEPT !.hook = TRUE]
  /\ history' = [history EXCEPT !.requests = history.requests + 1]
  /\ UNCHANGED <<sched, runner, wakes, reports>>

\* A schedule or a retry delay comes due.
Arrive ==
  /\ work.planned
  /\ work.due < mode.due
  /\ work' = [work EXCEPT !.due = work.due + 1, !.planned = FALSE]
  /\ UNCHANGED <<api, sched, runner, wakes, reports, history>>

\* A worker queues the next job of an entry that the user has just deleted.
Orphan ==
  /\ mode.orphans
  /\ ~work.orphan
  /\ runner.busy
  /\ work' = [work EXCEPT !.orphan = TRUE]
  /\ UNCHANGED <<api, sched, runner, wakes, reports, history>>

\* The rules page asks for a preview, which wakes the engine first.
Preview ==
  /\ history.previews < mode.previews
  /\ ~api.hook /\ api.up # "down"
  /\ api' = [api EXCEPT !.hook = TRUE, !.preview = TRUE]
  /\ history' = [history EXCEPT !.previews = history.previews + 1]
  /\ UNCHANGED <<work, sched, runner, wakes, reports>>

-----------------------------------------------------------------------------
(* The API process *)

\* EngineWakeScheduler.wake, which plans after the wake: from the onResponse
\* hook, a preview or the download observer, whether the API is stopping or not.
Hook ==
  /\ api.hook
  /\ Wake([api EXCEPT !.hook = FALSE, !.hookWaits = TRUE, !.late = api.late \/ api.up # "up"])
  /\ sched' = IF Connected THEN Planned ELSE sched
  /\ UNCHANGED <<work, reports>>

\* The preview is sent to the port of an engine that may have gone meanwhile.
Fetch ==
  /\ api.preview /\ ~api.hook /\ ~api.hookWaits
  /\ api' = [api EXCEPT !.preview = FALSE]
  /\ runner' = IF Gone \/ runner.pc = "booting" THEN runner
               ELSE [runner EXCEPT !.preview = TRUE, !.web = TRUE, !.idle = "no"]
  /\ UNCHANGED <<work, sched, wakes, reports, history>>

\* EngineWakeScheduler.nextWakeAt
NextWakeAt ==
  /\ sched.plan = "asked"
  /\ sched' = [sched EXCEPT !.plan = IF work.due > 0 \/ work.orphan THEN "now"
                                     ELSE IF work.planned THEN "later" ELSE "nothing"]
  /\ UNCHANGED <<work, api, runner, wakes, reports, history>>

\* schedule() after the answer: wake the engine now, or arm the timer.
PlanNow ==
  /\ sched.plan = "now"
  /\ Wake([api EXCEPT !.planWaits = TRUE])
  /\ sched' = IF Connected THEN Armed("poll") ELSE [sched EXCEPT !.plan = "none"]
  /\ UNCHANGED <<work, reports>>

PlanLater ==
  /\ sched.plan \in {"later", "nothing"}
  /\ sched' = Armed(IF sched.plan = "later" THEN "item" ELSE "poll")
  /\ UNCHANGED <<work, api, runner, wakes, reports, history>>

\* The query fails: no timer is armed.
PlanFails ==
  /\ sched.plan = "asked"
  /\ history.errors < mode.errors
  /\ sched' = [sched EXCEPT !.plan = "none"]
  /\ history' = [history EXCEPT !.errors = history.errors + 1]
  /\ UNCHANGED <<work, api, runner, wakes, reports>>

\* The timer of the next item, or a poll: the timer or the interval that fires
\* every minute, when the schedule() of the minute before has long ended.
TimerFires ==
  /\ \/ sched.timer = "item" /\ ~work.planned /\ sched' = [plan |-> "asked", timer |-> "off"]
     \/ /\ mode.polling
        /\ sched.plan = "none"   \* not when it is stopped
        /\ \E t \in {sched.timer, "off"} : sched' = [plan |-> "asked", timer |-> t]
  /\ UNCHANGED <<work, api, runner, wakes, reports, history>>

RestartFires ==
  /\ api.restart /\ ~api.stopping
  /\ Wake(api)
  /\ UNCHANGED <<work, sched, reports>>

\* The engine reports that it is ready.
ReportReady ==
  /\ reports.ready
  /\ reports' = [reports EXCEPT !.ready = FALSE]
  /\ api' = Settled(api)
  /\ sched' = IF Stopped THEN sched
              ELSE [plan |-> IF api.hookWaits THEN "asked" ELSE sched.plan,
                    timer |-> IF api.planWaits THEN "poll" ELSE sched.timer]
  /\ UNCHANGED <<work, runner, wakes, history>>

\* The engine reports that it is about to sleep.
ReportSleeping ==
  /\ reports.sleeping
  /\ reports' = [reports EXCEPT !.sleeping = FALSE]
  /\ sched' = Planned
  /\ UNCHANGED <<work, api, runner, wakes, history>>

\* Fifteen seconds without 'ready': whoever waits gets an error.
StartTimesOut ==
  /\ api.starting
  /\ history.crashes < mode.crashes
  /\ history' = [history EXCEPT !.crashes = history.crashes + 1]
  /\ api' = Refused(api)
  /\ UNCHANGED <<work, sched, runner, wakes, reports>>

\* The channel of an engine that is gone closes once it is read to its end.
Disconnect ==
  /\ Gone
  /\ api.open
  /\ reports = NoReports
  /\ api' = [api EXCEPT !.open = FALSE]
  /\ UNCHANGED <<work, sched, runner, wakes, reports, history>>

\* The exit event, before or after the channel closes: an idle or a stopped engine
\* sleeps, any other is started again later, and stopApi goes on.
ExitEvent ==
  /\ runner.pc \in {"slept", "died"}
  /\ LET expected == api.stopping \/ runner.pc = "slept"
     IN  /\ api' = [Refused(api) EXCEPT !.child = FALSE, !.open = FALSE,
                       !.restart = api.restart \/ ~expected,
                       !.up = IF api.up = "stopping" THEN "closing" ELSE api.up]
         /\ sched' = IF expected THEN Planned ELSE sched
  /\ runner' = NoRunner
  /\ wakes' = 0
  /\ reports' = [reports EXCEPT !.ready = FALSE]
  /\ UNCHANGED <<work, history>>

\* stopApi: the scheduler stops, a restart is called off, the child is told to
\* end (one that is still booting has no handler for that yet).
Stop ==
  /\ api.up = "up"
  /\ history.stops < mode.stops
  /\ history' = [history EXCEPT !.stops = history.stops + 1]
  /\ api' = [api EXCEPT !.up = IF api.child THEN "stopping" ELSE "closing",
                        !.stopping = TRUE, !.restart = FALSE]
  /\ sched' = [plan |-> "stopped", timer |-> "off"]
  /\ runner' \in IF Gone THEN {runner}
                 ELSE IF runner.pc = "booting" THEN {[NoRunner EXCEPT !.pc = "died"]}
                 ELSE {[runner EXCEPT !.pc = "quitting", !.tick = "off"]}
                        \cup {r \in {runner} : r.pc = "exiting"}
  /\ UNCHANGED <<work, wakes, reports>>

\* Eight seconds, and the child is killed.
Kill ==
  /\ api.up = "stopping" /\ ~Gone
  /\ runner' = [NoRunner EXCEPT !.pc = "died"]
  /\ api' = [api EXCEPT !.up = "closing"]
  /\ UNCHANGED <<work, sched, wakes, reports, history>>

\* The last response is sent; a child that lives keeps the process alive.
Closed ==
  /\ api.up = "closing" /\ ~api.child /\ ~api.hook /\ ~api.preview
  /\ api' = [NoApi EXCEPT !.late = api.late]
  /\ reports' = NoReports
  /\ UNCHANGED <<work, sched, runner, wakes, history>>

\* The API dies, and its container with it.
Die ==
  /\ api.up # "down"
  /\ history.stops < mode.stops
  /\ history' = [history EXCEPT !.stops = history.stops + 1]
  /\ api' = NoApi
  /\ sched' = [plan |-> "stopped", timer |-> "off"]
  /\ runner' = NoRunner
  /\ wakes' = 0
  /\ reports' = NoReports
  /\ UNCHANGED work

Restart ==
  /\ api.up = "down"
  /\ api' = [NoApi EXCEPT !.up = "up"]
  /\ sched' = [plan |-> "asked", timer |-> "off"]
  /\ UNCHANGED <<work, runner, wakes, reports, history>>

-----------------------------------------------------------------------------
(* The engine *)

Boot ==
  /\ runner.pc = "booting"
  /\ runner' = [runner EXCEPT !.pc = "asking"]
  /\ reports' = [reports EXCEPT !.ready = TRUE]
  /\ UNCHANGED <<work, api, sched, wakes, history>>

ReceiveWake ==
  /\ wakes > 0
  /\ ~Gone
  /\ runner.pc # "booting"
  /\ wakes' = wakes - 1
  /\ runner' = Requested(runner)
  /\ UNCHANGED <<work, api, sched, reports, history>>

\* runnableHandlers
Ask ==
  /\ runner.pc = "asking"
  /\ runner' = [runner EXCEPT !.pc = "answered", !.found = work.due > 0 \/ work.orphan]
  /\ UNCHANGED <<work, api, sched, wakes, reports, history>>

\* The query fails: the dispatcher tries again in five seconds.
AskFails ==
  /\ runner.pc = "asking"
  /\ history.errors < mode.errors
  /\ history' = [history EXCEPT !.errors = history.errors + 1]
  /\ runner' = Finished(runner)
  /\ UNCHANGED <<work, api, sched, wakes, reports>>

DispatchHandlers ==
  /\ runner.pc = "answered"
  /\ runner.found
  /\ runner' = Finished([runner EXCEPT !.busy = TRUE, !.idle = "no"])
  /\ UNCHANGED <<work, api, sched, wakes, reports, history>>

StayAwake ==
  /\ runner.pc = "answered"
  /\ ~runner.found
  /\ runner.busy \/ runner.web \/ runner.idle # "elapsed"
  /\ runner' = Finished([runner EXCEPT !.idle = IdleAfter(runner)])
  /\ UNCHANGED <<work, api, sched, wakes, reports, history>>

\* Two idle minutes: the engine says so and shuts down, whatever was asked for
\* since the query.
GoToSleep ==
  /\ runner.pc = "answered"
  /\ ~runner.found /\ ~runner.busy /\ ~runner.web
  /\ runner.idle = "elapsed"
  /\ runner' = [runner EXCEPT !.pc = "exiting", !.tick = "off"]
  /\ reports' = [reports EXCEPT !.sleeping = TRUE]
  /\ UNCHANGED <<work, api, sched, wakes, history>>

IdleElapses ==
  /\ runner.idle = "since"
  /\ runner' = [runner EXCEPT !.idle = "elapsed"]
  /\ UNCHANGED <<work, api, sched, wakes, reports, history>>

\* The dispatch timer: it repeats a dispatch, ends the idle time, notices that the
\* browser has closed, or (every five seconds while there is work) looks for
\* missed work.
Tick ==
  /\ runner.pc = "ready"
  /\ \/ runner.tick = "now"
     \/ runner.tick = "later" /\ (mode.polling \/ ~runner.busy)
  /\ runner' = Requested([runner EXCEPT !.tick = "off"])
  /\ UNCHANGED <<work, api, sched, wakes, reports, history>>

\* A handler's tick runs one due job, if its worker finds one; the job may be
\* put off.  Then the engine dispatches again.
HandlerEnds ==
  /\ runner.busy
  /\ \/ /\ ~FindsJob
        /\ UNCHANGED <<work, history>>
     \/ /\ FindsJob
        /\ work' = [work EXCEPT !.due = work.due - 1]
        /\ UNCHANGED history
     \/ /\ FindsJob
        /\ history.retries < mode.retries
        /\ ~work.planned
        /\ work' = [work EXCEPT !.due = work.due - 1, !.planned = TRUE]
        /\ history' = [history EXCEPT !.retries = history.retries + 1]
  /\ runner' = Requested([runner EXCEPT !.busy = FALSE, !.web = runner.web \/ mode.pages])
  /\ UNCHANGED <<api, sched, wakes, reports>>

PreviewEnds ==
  /\ runner.preview
  /\ runner' = Requested([runner EXCEPT !.preview = FALSE])
  /\ UNCHANGED <<work, api, sched, wakes, reports, history>>

\* The browser has been idle for its minutes, and its process leaves.
BrowserCloses ==
  /\ runner.web /\ ~runner.busy /\ ~runner.preview
  /\ runner' = [runner EXCEPT !.web = FALSE]
  /\ UNCHANGED <<work, api, sched, wakes, reports, history>>

\* The shutdown waits for the previews that still came.
Exit ==
  /\ runner.pc \in {"exiting", "quitting"}
  /\ ~runner.preview
  /\ runner' = [NoRunner EXCEPT !.pc = IF runner.pc = "exiting" THEN "slept" ELSE "died"]
  /\ UNCHANGED <<work, api, sched, wakes, reports, history>>

Crash ==
  /\ ~Gone
  /\ history.crashes < mode.crashes
  /\ history' = [history EXCEPT !.crashes = history.crashes + 1]
  /\ runner' = [NoRunner EXCEPT !.pc = "died"]
  /\ UNCHANGED <<work, api, sched, wakes, reports>>

ApiStep ==
  \/ Hook \/ NextWakeAt \/ PlanNow \/ PlanLater \/ TimerFires \/ RestartFires
  \/ ReportReady \/ ReportSleeping \/ Disconnect \/ ExitEvent \/ Fetch

RunnerStep ==
  \/ Boot \/ ReceiveWake \/ Ask \/ DispatchHandlers \/ StayAwake \/ GoToSleep \/ IdleElapses
  \/ Tick \/ HandlerEnds \/ PreviewEnds \/ BrowserCloses \/ Exit

Next ==
  /\ UNCHANGED mode
  /\ \/ QueueWork \/ Arrive \/ Orphan \/ Preview
     \/ Stop \/ Kill \/ Closed \/ Die \/ Restart
     \/ ApiStep \/ PlanFails \/ StartTimesOut
     \/ RunnerStep \/ AskFails \/ Crash

Spec == Init /\ [][Next]_vars

\* Time passes, timers fire, queries are answered, messages arrive, handlers and
\* previews end; a stop is carried through, and whoever stopped the API, or its
\* supervisor, starts it again.
Fairness ==
  /\ WF_moving(Arrive)
  /\ WF_moving(Hook) /\ WF_moving(NextWakeAt) /\ WF_moving(PlanNow) /\ WF_moving(PlanLater)
  /\ WF_moving(TimerFires) /\ WF_moving(RestartFires)
  /\ WF_moving(ReportReady) /\ WF_moving(ReportSleeping) /\ WF_moving(Disconnect) /\ WF_moving(ExitEvent)
  /\ WF_moving(Boot) /\ WF_moving(ReceiveWake) /\ WF_moving(Ask) /\ WF_moving(DispatchHandlers)
  /\ WF_moving(StayAwake) /\ WF_moving(GoToSleep) /\ WF_moving(IdleElapses) /\ WF_moving(Tick)
  /\ WF_moving(HandlerEnds) /\ WF_moving(PreviewEnds) /\ WF_moving(BrowserCloses) /\ WF_moving(Exit)
  /\ WF_moving(Fetch) /\ WF_moving(Kill) /\ WF_moving(Closed) /\ WF_moving(Restart)

FairSpec == Spec /\ Fairness

-----------------------------------------------------------------------------
(* Properties *)

\* The API never starts an engine beside one that is still alive, however
\* requests, timers and slow starts overlap; and one that is told to stop starts
\* none any more, whatever was planned, awaited or armed before, unless a request
\* or the download observer still asks for it (index.ts:73).
OneEngine ==
  [][history'.starts # history.starts => Gone /\ (api.up = "up" \/ api'.late)]_vars

\* Due work is run: no wake-up is lost to an engine that is going to sleep, that
\* crashes, that is still being started, or that ends with the API.
WorkIsHandled == work.due > 0 ~> work.due = 0

\* Without runnable work the engine leaves memory, by its own idle timer or for
\* want of anything a dispatch would find.  A queued job whose archive entry is
\* gone keeps it awake: the dispatch counts it and no worker finds it
\* (engine-queue.ts:11, magnet-worker.ts:42).
EngineSleeps == ~Gone ~> Gone \/ work.orphan
=============================================================================

----------------------------- MODULE BrowserPool -----------------------------
(***************************************************************************)
(* The pool that renders pages in one shared Chromium: at most two tasks   *)
(* at a time, each in a context of its own, the others in a queue.  The    *)
(* browser is launched on demand and closed when it is idle, worn, lost or *)
(* was started with another proxy, while tasks wait for it, use it, or     *)
(* fail.  The pool is one record, and a function of the code that runs     *)
(* without an await is one operator from pools to pools.                   *)
(***************************************************************************)
EXTENDS Integers, SequencesExt

CONSTANTS
  Tasks,       \* calls of use()
  Priority,    \* the priority of each
  Capacities,  \* 1, or 2 in the performance profile
  MaxQueued,   \* MAX_QUEUED_TASKS
  Browsers,    \* names of Chromium processes, reused when nobody holds one
  MaxTrouble   \* bound on failures, settings changes and worn-out browsers

ASSUME PoolAssumption ==
  /\ Priority \in [Tasks -> Nat] /\ Capacities \subseteq {1, 2}
  /\ Browsers \subseteq Nat \ {0} /\ MaxQueued \in Nat /\ MaxTrouble \in Nat
\* There is always another process to start: tasks cannot hold all the names.
ASSUME BrowsersAssumption ==
  \A held \in [Tasks -> Browsers \cup {0}] : \E b \in Browsers : \A t \in Tasks : held[t] # b

VARIABLES pool, capacity, proxy, trouble
poolVars == <<pool, capacity, proxy, trouble>>

\* Where the run of a task awaits.
Running == {"closing", "launching", "context", "page", "failed", "leaving"}
Phases == Running \cup {"none", "queued", "last"}
Chromium == [state : {"none", "launching", "open", "lost", "recycled", "dropped"}, proxy : BOOLEAN]

EmptyPool ==
  [browser |-> 0, launching |-> 0, worn |-> FALSE, recycle |-> FALSE, timer |-> FALSE,
   queue |-> <<>>, phase |-> [t \in Tasks |-> "none"], page |-> [t \in Tasks |-> 0],
   result |-> [t \in Tasks |-> "none"],
   chromium |-> [b \in Browsers |-> [state |-> "none", proxy |-> FALSE]]]

Pool ==
  [browser : Browsers \cup {0}, launching : Browsers \cup {0},
   worn : BOOLEAN, recycle : BOOLEAN, timer : BOOLEAN, queue : Seq(Tasks),
   phase : [Tasks -> Phases], page : [Tasks -> Browsers \cup {0}],
   result : [Tasks -> {"none", "ok", "error"}], chromium : [Browsers -> Chromium]]

PoolTypeOK ==
  /\ pool \in Pool
  /\ capacity \in Capacities /\ proxy \in BOOLEAN /\ trouble \in 0..MaxTrouble

PoolInit == pool = EmptyPool /\ capacity \in Capacities /\ proxy = FALSE /\ trouble = 0

Trouble == trouble < MaxTrouble /\ trouble' = trouble + 1
Moves(p) == pool' = p /\ UNCHANGED <<capacity, proxy>>

-----------------------------------------------------------------------------
Active(p) == {t \in Tasks : p.phase[t] \in Running}
BrowserConnected(p) == p.browser # 0 /\ p.chromium[p.browser].state = "open"

\* close: what happens before its first await; why is kept for the properties.
Close(p, why) ==
  [p EXCEPT !.chromium = [b \in Browsers |-> IF b = p.browser THEN [@[b] EXCEPT !.state = why] ELSE @[b]],
            !.browser = 0, !.worn = FALSE, !.recycle = FALSE, !.timer = FALSE]

Free(p) ==
  {b \in Browsers : /\ p.chromium[b].state \in {"none", "recycled", "dropped"}
                    /\ \A t \in Tasks : p.page[t] # b}

Launch(p, t) ==
  LET b == CHOOSE x \in Free(p) : TRUE
  IN [p EXCEPT !.launching = b, !.chromium[b] = [state |-> "launching", proxy |-> proxy],
               !.phase[t] = "launching"]

\* The end of ensureBrowser: the browser there is, or one launch for everyone.
LaunchForEach(p, t) ==
  IF p.browser # 0 THEN [p EXCEPT !.phase[t] = "context", !.page[t] = p.browser] ELSE Launch(p, t)
GetBrowser(p, t) ==
  IF p.browser # 0 THEN [p EXCEPT !.phase[t] = "context", !.page[t] = p.browser]
  ELSE IF p.launching # 0 THEN [p EXCEPT !.phase[t] = "launching"]
  ELSE Launch(p, t)

Outdated(p) == /\ p.browser # 0
               /\ ~BrowserConnected(p) \/ p.worn \/ p.chromium[p.browser].proxy # proxy

RecycleAtOnce(p, t) ==
  IF Outdated(p) THEN [Close(p, "recycled") EXCEPT !.phase[t] = "closing"] ELSE GetBrowser(p, t)
EnsureBrowser(p, t) ==
  IF Outdated(p) /\ Active(p) # {t} THEN GetBrowser([p EXCEPT !.recycle = TRUE], t)
  ELSE IF Outdated(p) THEN [Close(p, "recycled") EXCEPT !.phase[t] = "closing"]
  ELSE GetBrowser(p, t)

\* The first of the tasks with the highest priority.
Next1(q) ==
  CHOOSE i \in DOMAIN q : \A j \in DOMAIN q :
    Priority[q[j]] < Priority[q[i]] \/ (Priority[q[j]] = Priority[q[i]] /\ i <= j)

StartOne(p) ==
  IF p.queue = <<>> \/ \E s, t \in Active(p) : capacity = 1 \/ s # t THEN p
  ELSE LET i == Next1(p.queue)
           t == p.queue[i]
       IN EnsureBrowser([p EXCEPT !.queue = RemoveAt(@, i), !.phase[t] = "closing"], t)

\* drain fills at most two places.
Drain(p) == StartOne(StartOne([p EXCEPT !.timer = FALSE]))

ScheduleIdleClose(p) ==
  IF p.browser # 0 /\ Active(p) = {} /\ p.queue = <<>> THEN [p EXCEPT !.timer = TRUE] ELSE p

\* The catch block: close whatever browser the pool has by now.
Catch(p, t, created) ==
  LET q == [p EXCEPT !.phase[t] = "failed"]
  IN IF ~created \/ ~BrowserConnected(q) THEN Close(q, "dropped") ELSE q

-----------------------------------------------------------------------------
Use(t) ==
  /\ pool.phase[t] = "none" /\ pool.result[t] = "none"
  /\ Moves(IF Len(pool.queue) >= MaxQueued THEN [pool EXCEPT !.result[t] = "error"]
           ELSE Drain([pool EXCEPT !.queue = Append(@, t), !.phase[t] = "queued"]))
  /\ UNCHANGED trouble

Reopen(t) == pool.phase[t] = "closing" /\ Moves(GetBrowser(pool, t)) /\ UNCHANGED trouble

Launched ==
  LET b == pool.launching
  IN /\ b # 0
     /\ Moves([pool EXCEPT !.launching = 0, !.browser = b, !.chromium[b].state = "open",
          !.phase = [t \in Tasks |-> IF @[t] = "launching" THEN "context" ELSE @[t]],
          !.page = [t \in Tasks |-> IF pool.phase[t] = "launching" THEN b ELSE @[t]]])
     /\ UNCHANGED trouble

LaunchFails ==
  /\ pool.launching # 0 /\ Trouble
  /\ Moves(Close([pool EXCEPT !.launching = 0, !.chromium[pool.launching].state = "none",
       !.phase = [t \in Tasks |-> IF @[t] = "launching" THEN "failed" ELSE @[t]]], "dropped"))

\* The browser a task was given may have been closed or lost since.
Held(t) == pool.chromium[pool.page[t]].state = "open"

OpenContext(t) ==
  /\ pool.phase[t] = "context"
  /\ Moves(IF Held(t) THEN [pool EXCEPT !.phase[t] = "page"] ELSE Catch(pool, t, FALSE))
  /\ UNCHANGED trouble

WorkOn(t) ==
  /\ pool.phase[t] = "page"
  /\ Moves(IF Held(t) THEN [pool EXCEPT !.phase[t] = "leaving", !.result[t] = "ok"]
           ELSE Catch(pool, t, TRUE))
  /\ UNCHANGED trouble

\* A context that cannot be opened, or a page that fails.
TaskFails(t) ==
  /\ pool.phase[t] \in {"context", "page"} /\ Held(t) /\ Trouble
  /\ Moves(Catch(pool, t, pool.phase[t] = "page"))

Reject(t) ==
  /\ pool.phase[t] = "failed"
  /\ Moves([pool EXCEPT !.phase[t] = "leaving", !.result[t] = "error"])
  /\ UNCHANGED trouble

\* The finally block: the last one out recycles the browser, then drains.
Leave(t) ==
  LET q == [pool EXCEPT !.phase[t] = "none", !.page[t] = 0]
      recycle == Active(q) = {} /\ (q.recycle \/ (q.worn /\ q.browser # 0))
  IN /\ pool.phase[t] = "leaving"
     /\ Moves(IF recycle THEN [Close(q, "recycled") EXCEPT !.phase[t] = "last"]
              ELSE ScheduleIdleClose(Drain(q)))
     /\ UNCHANGED trouble

DrainLast(t) ==
  /\ pool.phase[t] = "last"
  /\ Moves(ScheduleIdleClose(Drain([pool EXCEPT !.phase[t] = "none"])))
  /\ UNCHANGED trouble

IdleClose == /\ pool.timer /\ Active(pool) = {} /\ pool.queue = <<>>
             /\ Moves(Close(pool, "recycled"))
             /\ UNCHANGED trouble

\* Fifty pages, or thirty minutes.
Wears == pool.browser # 0 /\ ~pool.worn /\ Trouble /\ Moves([pool EXCEPT !.worn = TRUE])

ChromiumDies ==
  BrowserConnected(pool) /\ Trouble /\ Moves([pool EXCEPT !.chromium[pool.browser].state = "lost"])

Disconnected == /\ pool.browser # 0 /\ pool.chromium[pool.browser].state = "lost"
                /\ Moves(Close(pool, "dropped"))
                /\ UNCHANGED trouble

ChangeProxy == Trouble /\ proxy' = ~proxy /\ UNCHANGED <<pool, capacity>>

Progress(t) == Reopen(t) \/ OpenContext(t) \/ WorkOn(t) \/ Reject(t) \/ Leave(t) \/ DrainLast(t)
PoolNext ==
  \/ \E t \in Tasks : Progress(t) \/ TaskFails(t)
  \/ Launched \/ LaunchFails \/ IdleClose \/ Wears \/ ChromiumDies \/ Disconnected

-----------------------------------------------------------------------------
(* Every Chromium that is running is the one the pool knows, or the one it *)
(* is launching: whatever is launched, closed and lost at the same time,   *)
(* none is left that nothing will ever close (browser-pool.ts:29).         *)
NoBrowserLeaks ==
  \A b \in Browsers :
    /\ pool.chromium[b].state = "open" => pool.browser = b
    /\ pool.chromium[b].state = "launching" => pool.launching = b

(* A browser that is merely worn, idle or started with another proxy is    *)
(* never closed while another task has or is about to open a page in it    *)
(* (browser-pool.ts:89); only a failure takes it away from a task.         *)
NeverRecycledUnderAPage ==
  \A t \in Tasks : pool.phase[t] \in {"context", "page"} =>
    pool.chromium[pool.page[t]].state # "recycled"
=============================================================================
